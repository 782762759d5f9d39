--------------------------- MODULE BTreeOLCProofs ---------------------------
(***************************************************************************)
(* BTreeOLC implements AtomicMap, and keeps its nodes in order, for any    *)
(* number of threads, keys, values and nodes and any sizes of nodes: first *)
(* what an insert into a leaf and a split do to the order of the nodes, to *)
(* the searches through them and to the map that the tree stands for, then *)
(* the threads that take these steps.                                      *)
(***************************************************************************)
EXTENDS BTreeOLC, TLAPS

Sorted(s) == \A i, j \in 1 .. Len(s) : i < j => s[i] < s[j]

\* A node fits its arrays and has ascending keys, all of its span.
NodeOK(n) ==
    /\ Len(keys[n]) <= (IF type[n] = "leaf" THEN MaxLeaf ELSE MaxInner - 1)
    /\ Len(slots[n]) = Len(keys[n]) + (IF type[n] = "leaf" THEN 0 ELSE 1)
    /\ Sorted(keys[n])
    /\ \A i \in 1 .. Len(keys[n]) : keys[n][i] \in span[n]

\* Child i of node n is not the root, and its span are the keys for which a
\* search goes from n to it.
ChildOK(n, i) ==
    /\ slots[n][i] # root
    /\ \A x \in Key : x \in span[slots[n][i]] <=> x \in span[n] /\ lowerBound(keys[n], x) = i

\* Every key belongs to one leaf.
LeafInv ==
    /\ \A x \in Key : \E n \in 1 .. used : type[n] = "leaf" /\ x \in span[n]
    /\ \A x \in Key : \A m, n \in 1 .. used :
        type[m] = "leaf" /\ x \in span[m] /\ type[n] = "leaf" /\ x \in span[n] => m = n

\* A node is the child of one node, in one place.
ParentInv ==
    \A m, n \in 1 .. used : type[m] = "inner" /\ type[n] = "inner" =>
        \A i \in 1 .. Len(slots[m]) : \A j \in 1 .. Len(slots[n]) :
            slots[m][i] = slots[n][j] => m = n /\ i = j

\* Sets of numbers have least elements (Least, below): what a search in the keys
\* of a node rests on.
WellOrder == \A S \in SUBSET Nat : S # {} => \E x \in S : \A y \in S : x <= y

TreeInv ==
    /\ WellOrder
    /\ span[root] = Key
    /\ \A n \in 1 .. used : NodeOK(n)
    /\ \A n \in 1 .. used : type[n] = "inner" => \A i \in 1 .. Len(slots[n]) : ChildOK(n, i)
    /\ LeafInv /\ ParentInv

-----------------------------------------------------------------------------
(* Sequences and lowerBound.                                               *)

\* Zenon proves the steps that name no other prover.
USE Zenon

\* Sequences are functions on an initial interval of the numbers.
LEMMA LenProperties ==
  ASSUME NEW S, NEW s \in Seq(S)
  PROVE  Len(s) \in Nat /\ DOMAIN s = 1 .. Len(s) /\ s \in [1 .. Len(s) -> S]
BY SMT

\* Every entry of a sequence over S is in S.
LEMMA ElementOfSeq ==
  ASSUME NEW S, NEW s \in Seq(S), NEW i \in 1 .. Len(s)
  PROVE  s[i] \in S
BY SMT

\* Replacing an entry leaves the others.
LEMMA ExceptSeq ==
  ASSUME NEW S, NEW s \in Seq(S), NEW i \in 1 .. Len(s), NEW x \in S
  PROVE  LET r == [s EXCEPT ![i] = x] IN
         /\ r \in Seq(S) /\ Len(r) = Len(s)
         /\ \A j \in 1 .. Len(s) : r[j] = IF j = i THEN x ELSE s[j]
BY SMT

\* Appending one sequence to another.
LEMMA ConcatProperties ==
  ASSUME NEW S, NEW r \in Seq(S), NEW s \in Seq(S)
  PROVE  /\ r \o s \in Seq(S) /\ Len(r \o s) = Len(r) + Len(s)
         /\ \A i \in 1 .. Len(r) + Len(s) :
                (r \o s)[i] = IF i <= Len(r) THEN r[i] ELSE s[i - Len(r)]
BY SMT

\* Cutting a part out of a sequence.
LEMMA SubSeqProperties ==
  ASSUME NEW S, NEW s, NEW a \in Int, NEW b \in Int, \A i \in a .. b : s[i] \in S
  PROVE  /\ SubSeq(s, a, b) \in Seq(S)
         /\ Len(SubSeq(s, a, b)) = IF a <= b THEN b - a + 1 ELSE 0
         /\ \A i \in 1 .. b - a + 1 : SubSeq(s, a, b)[i] = s[a + i - 1]
BY SMT

\* The invariant of the tree, and of what comes of it, includes the order.
LEMMA Ordering ==
  ASSUME TreeInv
  PROVE  WellOrder /\ WellOrder'
<1>1. WellOrder
  BY DEF TreeInv
<1>2. WellOrder'
  BY <1>1 DEF WellOrder
<1> QED BY <1>1, <1>2

\* Keys are numbers.
LEMMA KeySeq ==
  ASSUME NEW s \in Seq(Key)
  PROVE  Len(s) \in Nat /\ Key \subseteq Nat /\ \A j \in 1 .. Len(s) : s[j] \in Nat
<1>1. Key \subseteq Nat
  BY BTreeOLCAssumption
<1>2. Len(s) \in Nat /\ \A j \in 1 .. Len(s) : s[j] \in Key
  BY ElementOfSeq, LenProperties
<1> QED BY <1>1, <1>2

\* What lowerBound returns.
LEMMA LowerBound ==
  ASSUME WellOrder, NEW s \in Seq(Key), NEW x \in Key
  PROVE  /\ lowerBound(s, x) \in 1 .. Len(s) + 1
         /\ \A j \in 1 .. lowerBound(s, x) - 1 : s[j] < x
         /\ lowerBound(s, x) <= Len(s) => s[lowerBound(s, x)] >= x
<1> DEFINE S == {i \in 1 .. Len(s) + 1 : i = Len(s) + 1 \/ s[i] >= x}
<1>0. Len(s) \in Nat /\ Key \subseteq Nat /\ \A i \in 1 .. Len(s) : s[i] \in Nat
  BY KeySeq
<1>1. S \in SUBSET Nat /\ Len(s) + 1 \in S
  BY <1>0, SMT
<1> HIDE DEF S
<1>2. PICK i \in S : \A y \in S : i <= y
  BY <1>1 DEF WellOrder
<1>3. i \in 1 .. Len(s) + 1 /\ (i <= Len(s) => s[i] >= x)
  BY <1>0, SMT DEF S
<1>4. ASSUME NEW j \in 1 .. i - 1 PROVE s[j] < x
  <2>1. j \notin S /\ j \in 1 .. Len(s)
    BY <1>0, <1>2, <1>3, SMT
  <2> QED BY <2>1, <1>0, SMT DEF S
<1> QED BY <1>3, <1>4 DEF lowerBound

\* It is the only such position.
LEMMA LowerBoundIs ==
  ASSUME WellOrder, NEW s \in Seq(Key), NEW x \in Key, NEW i \in 1 .. Len(s) + 1,
         \A j \in 1 .. i - 1 : s[j] < x, i <= Len(s) => s[i] >= x
  PROVE  lowerBound(s, x) = i
<1>0. Len(s) \in Nat /\ Key \subseteq Nat /\ \A j \in 1 .. Len(s) : s[j] \in Nat
  BY KeySeq
<1> DEFINE b == lowerBound(s, x)
<1>1. /\ b \in 1 .. Len(s) + 1 /\ \A j \in 1 .. b - 1 : s[j] < x
      /\ b <= Len(s) => s[b] >= x
  BY LowerBound
<1> HIDE DEF b
<1>2. CASE b < i
  <2>1. s[b] < x /\ s[b] >= x
    BY <1>0, <1>1, <1>2, SMT
  <2> QED BY <2>1, <1>0, <1>1, <1>2, SMT
<1>3. CASE i < b
  <2>1. s[i] < x /\ s[i] >= x
    BY <1>0, <1>1, <1>3, SMT
  <2> QED BY <2>1, <1>0, <1>1, <1>3, SMT
<1>4. b = i
  BY <1>0, <1>1, <1>2, <1>3, SMT
<1> QED BY <1>4 DEF b

\* InsertAt, element by element.
IsInserted(r, s, i, e) ==
    /\ Len(r) = Len(s) + 1 /\ r[i] = e
    /\ \A j \in 1 .. i - 1 : r[j] = s[j]
    /\ \A j \in i + 1 .. Len(s) + 1 : r[j] = s[j - 1]

LEMMA Inserted ==
  ASSUME NEW S, NEW s \in Seq(S), NEW i \in 1 .. Len(s) + 1, NEW e \in S
  PROVE  InsertAt(s, i, e) \in Seq(S) /\ IsInserted(InsertAt(s, i, e), s, i, e)
<1> DEFINE a == SubSeq(s, 1, i - 1)  b == SubSeq(s, i, Len(s))
<1>0. Len(s) \in Nat
  BY SMT
<1>1. /\ a \in Seq(S) /\ Len(a) = i - 1 /\ \A j \in 1 .. i - 1 : a[j] = s[j]
  BY <1>0, SubSeqProperties, SMT
<1>2. /\ b \in Seq(S) /\ Len(b) = Len(s) - i + 1 /\ \A j \in 1 .. Len(b) : b[j] = s[i + j - 1]
  BY <1>0, SubSeqProperties, SMT
<1> HIDE DEF a, b
<1>3. /\ a \o <<e>> \in Seq(S) /\ Len(a \o <<e>>) = i
      /\ \A j \in 1 .. i - 1 : (a \o <<e>>)[j] = a[j]
      /\ (a \o <<e>>)[i] = e
  BY <1>0, <1>1, SMT
<1> DEFINE c == a \o <<e>>
<1> HIDE DEF c
<1>c. c \in Seq(S) /\ Len(c) = i /\ (\A j \in 1 .. i - 1 : c[j] = a[j]) /\ c[i] = e
  BY <1>3 DEF c
<1>4. /\ c \o b \in Seq(S) /\ Len(c \o b) = i + Len(b)
      /\ \A j \in 1 .. i : (c \o b)[j] = c[j]
      /\ \A j \in i + 1 .. i + Len(b) : (c \o b)[j] = b[j - i]
  <2>1. Len(b) \in Nat
    BY <1>2, LenProperties
  <2>2. /\ c \o b \in Seq(S) /\ Len(c \o b) = Len(c) + Len(b)
        /\ \A j \in 1 .. Len(c) + Len(b) : (c \o b)[j] = IF j <= Len(c) THEN c[j] ELSE b[j - Len(c)]
    BY <1>2, <1>c, ConcatProperties
  <2> QED BY <2>1, <2>2, <1>0, <1>c, SMTT(20)
<1>5. InsertAt(s, i, e) = c \o b
  BY DEF InsertAt, a, b, c
<1> DEFINE r == c \o b
<1>6. r \in Seq(S) /\ Len(r) = Len(s) + 1 /\ r[i] = e /\ \A j \in 1 .. i - 1 : r[j] = s[j]
  BY <1>0, <1>1, <1>2, <1>c, <1>4, SMT
<1>7. ASSUME NEW j \in i + 1 .. Len(s) + 1 PROVE r[j] = s[j - 1]
  <2>1. r[j] = b[j - i] /\ j - i \in 1 .. Len(b)
    BY <1>0, <1>2, <1>4, SMT
  <2>2. b[j - i] = s[i + (j - i) - 1]
    BY <2>1, <1>2
  <2>3. i + (j - i) - 1 = j - 1
    BY <1>0, SMT
  <2> QED BY <2>1, <2>2, <2>3
<1> HIDE DEF r
<1> QED BY <1>5, <1>6, <1>7 DEF r, IsInserted

\* A key inserted at its lower bound, which it is not equal to, keeps the order ...
LEMMA InsertSorted ==
  ASSUME WellOrder, NEW s \in Seq(Key), Sorted(s), NEW e \in Key,
         \A i \in 1 .. Len(s) : s[i] # e
  PROVE  Sorted(InsertAt(s, lowerBound(s, e), e))
<1> DEFINE i == lowerBound(s, e)  r == InsertAt(s, i, e)
<1>0. Len(s) \in Nat /\ Key \subseteq Nat /\ \A j \in 1 .. Len(s) : s[j] \in Nat
  BY KeySeq
<1>1. /\ i \in 1 .. Len(s) + 1 /\ \A j \in 1 .. i - 1 : s[j] < e
      /\ i <= Len(s) => s[i] > e
  BY <1>0, LowerBound, SMT
<1> HIDE DEF i
<1>2. /\ Len(r) = Len(s) + 1 /\ r[i] = e
      /\ \A j \in 1 .. i - 1 : r[j] = s[j]
      /\ \A j \in i + 1 .. Len(s) + 1 : r[j] = s[j - 1]
  <2>1. r \in Seq(Key) /\ IsInserted(r, s, i, e)
    BY <1>1, Inserted
  <2> QED BY <2>1 DEF IsInserted
<1> HIDE DEF r
<1>3. \A j \in i .. Len(s) : s[j] > e
  BY <1>0, <1>1, SMT DEF Sorted
<1>4. ASSUME NEW m \in 1 .. Len(r), NEW n \in 1 .. Len(r), m < n
      PROVE  r[m] < r[n]
  <2>1. CASE n < i
    BY <1>0, <1>1, <1>2, <1>4, <2>1, SMTT(30) DEF Sorted
  <2>2. CASE n = i
    BY <1>0, <1>1, <1>2, <1>4, <2>2, SMT
  <2>3. CASE n > i /\ m < i
    <3>1. n - 1 \in i .. Len(s) /\ r[n] = s[n - 1] /\ r[m] = s[m] /\ s[m] < e /\ m \in 1 .. Len(s)
      BY <1>0, <1>1, <1>2, <2>3, SMT
    <3>2. s[n - 1] > e
      BY <3>1, <1>3
    <3> QED BY <3>1, <3>2, <1>0, <1>1, SMTT(30)
  <2>4. CASE n > i /\ m = i
    BY <1>0, <1>1, <1>2, <1>3, <1>4, <2>4, SMT
  <2>5. CASE n > i /\ m > i
    <3>1. /\ n - 1 \in 1 .. Len(s) /\ r[n] = s[n - 1]
          /\ m - 1 \in 1 .. Len(s) /\ r[m] = s[m - 1] /\ m - 1 < n - 1
      BY <1>0, <1>1, <1>2, <1>4, <2>5, SMT
    <3> QED BY <3>1 DEF Sorted
  <2> QED BY <1>0, <1>1, <1>2, <2>1, <2>2, <2>3, <2>4, <2>5, SMT
<1>5. Sorted(r)
  BY <1>4 DEF Sorted
<1> QED BY <1>5 DEF r, i

\* ... and moves the lower bounds of greater keys by one.
LEMMA LowerBoundInserted ==
  ASSUME WellOrder, NEW s \in Seq(Key), NEW e \in Key, NEW x \in Key
  PROVE  lowerBound(InsertAt(s, lowerBound(s, e), e), x) =
             IF x <= e THEN lowerBound(s, x) ELSE lowerBound(s, x) + 1
<1> DEFINE i == lowerBound(s, e)  b == lowerBound(s, x)  r == InsertAt(s, i, e)
<1>0. /\ Len(s) \in Nat /\ Key \subseteq Nat /\ \A j \in 1 .. Len(s) : s[j] \in Nat
      /\ e \in Nat /\ x \in Nat
  BY KeySeq
<1>1. /\ i \in 1 .. Len(s) + 1 /\ \A j \in 1 .. i - 1 : s[j] < e
      /\ i <= Len(s) => s[i] >= e
  BY LowerBound
<1>2. /\ b \in 1 .. Len(s) + 1 /\ \A j \in 1 .. b - 1 : s[j] < x
      /\ b <= Len(s) => s[b] >= x
  BY LowerBound
<1> HIDE DEF i, b
<1>3. /\ r \in Seq(Key) /\ Len(r) = Len(s) + 1 /\ r[i] = e
      /\ \A j \in 1 .. i - 1 : r[j] = s[j]
      /\ \A j \in i + 1 .. Len(s) + 1 : r[j] = s[j - 1]
  <2>1. r \in Seq(Key) /\ IsInserted(r, s, i, e)
    BY <1>1, Inserted
  <2> QED BY <2>1 DEF IsInserted
<1> HIDE DEF r
<1>4. CASE x <= e
  <2>1. b <= i
    <3> SUFFICES ASSUME i < b PROVE FALSE
      BY <1>1, <1>2, SMT
    <3>1. i \in 1 .. Len(s) /\ s[i] < x /\ s[i] >= e
      BY <1>0, <1>1, <1>2, SMT
    <3> QED BY <3>1, <1>0, <1>4, SMT
  <2>2. \A j \in 1 .. b - 1 : r[j] < x
    BY <2>1, <1>0, <1>1, <1>2, <1>3, SMT
  <2>3. b \in 1 .. Len(r) /\ r[b] >= x
    BY <2>1, <1>0, <1>1, <1>2, <1>3, <1>4, SMT
  <2>4. lowerBound(r, x) = b
    <3>1. b \in 1 .. Len(r) + 1
      BY <2>3, <1>3, SMT, SMT
    <3> QED BY <3>1, <2>2, <2>3, <1>3, LowerBoundIs
  <2> QED BY <2>4, <1>4 DEF r, i, b
<1>5. CASE ~(x <= e)
  <2>1. i <= b
    <3> SUFFICES ASSUME b < i PROVE FALSE
      BY <1>1, <1>2, SMT
    <3>1. b \in 1 .. Len(s) /\ s[b] < e /\ s[b] >= x
      BY <1>0, <1>1, <1>2, SMT
    <3> QED BY <3>1, <1>0, <1>5, SMT
  <2>2. ASSUME NEW j \in 1 .. b PROVE r[j] < x
    <3>1. CASE j < i
      BY <3>1, <2>1, <1>0, <1>1, <1>2, <1>3, SMT
    <3>2. CASE j = i
      BY <3>2, <2>1, <1>0, <1>1, <1>2, <1>3, <1>5, SMT
    <3>3. CASE j > i
      <4>1. r[j] = s[j - 1] /\ j - 1 \in 1 .. b - 1
        BY <3>3, <2>1, <1>0, <1>1, <1>2, <1>3, SMT
      <4> QED BY <4>1, <1>2
    <3> QED BY <3>1, <3>2, <3>3, <1>1, SMT
  <2>3. b + 1 \in 1 .. Len(r) + 1 /\ (b + 1 <= Len(r) => r[b + 1] >= x)
    <3>1. b + 1 <= Len(r) => b <= Len(s) /\ r[b + 1] = s[(b + 1) - 1]
      BY <2>1, <1>0, <1>1, <1>2, <1>3, SMT
    <3>2. (b + 1) - 1 = b
      BY <1>2, SMT
    <3> QED BY <3>1, <3>2, <1>0, <1>2, <1>3, SMT
  <2>4. lowerBound(r, x) = b + 1
    <3>1. (b + 1) - 1 = b
      BY <1>2, SMT, SMT
    <3> QED BY <3>1, <2>2, <2>3, <1>3, LowerBoundIs
  <2> QED BY <2>4, <1>5 DEF r, i, b
<1> QED BY <1>4, <1>5

\* Lower bounds in the halves of a sequence.
LEMMA LowerBoundLeft ==
  ASSUME WellOrder, NEW s \in Seq(Key), NEW x \in Key, NEW c \in 0 .. Len(s), lowerBound(s, x) <= c + 1
  PROVE  lowerBound(SubSeq(s, 1, c), x) = lowerBound(s, x)
<1> DEFINE b == lowerBound(s, x)  r == SubSeq(s, 1, c)
<1>0. Len(s) \in Nat
  BY SMT
<1>1. /\ b \in 1 .. Len(s) + 1 /\ \A j \in 1 .. b - 1 : s[j] < x
      /\ b <= Len(s) => s[b] >= x
  BY LowerBound
<1>2. r \in Seq(Key) /\ Len(r) = c /\ \A j \in 1 .. c : r[j] = s[j]
  BY <1>0, SubSeqProperties, SMT
<1>3. b <= c + 1
  OBVIOUS
<1> HIDE DEF b, r
<1>4. lowerBound(r, x) = b
  <2>1. b \in 1 .. Len(r) + 1 /\ (\A j \in 1 .. b - 1 : r[j] < x) /\ (b <= Len(r) => r[b] >= x)
    BY <1>0, <1>1, <1>2, <1>3, SMT
  <2> QED BY <2>1, <1>2, LowerBoundIs
<1> QED BY <1>4 DEF b, r

\* The right half begins at m.
LEMMA LowerBoundRight ==
  ASSUME WellOrder, NEW s \in Seq(Key), NEW x \in Key, NEW m \in 1 .. Len(s) + 1, m <= lowerBound(s, x)
  PROVE  lowerBound(SubSeq(s, m, Len(s)), x) = lowerBound(s, x) - m + 1
<1> DEFINE b == lowerBound(s, x)  r == SubSeq(s, m, Len(s))
<1>0. Len(s) \in Nat
  BY SMT
<1>1. /\ b \in 1 .. Len(s) + 1 /\ \A j \in 1 .. b - 1 : s[j] < x
      /\ b <= Len(s) => s[b] >= x
  BY LowerBound
<1>2. r \in Seq(Key) /\ Len(r) = Len(s) - m + 1 /\ \A j \in 1 .. Len(r) : r[j] = s[m + j - 1]
  BY <1>0, SubSeqProperties, SMT
<1>3. m <= b
  OBVIOUS
<1> HIDE DEF b, r
<1>4. lowerBound(r, x) = b - m + 1
  <2>1. b - m + 1 \in 1 .. Len(r) + 1
    BY <1>0, <1>1, <1>2, <1>3, SMT
  <2>2. ASSUME NEW j \in 1 .. b - m PROVE r[j] < x
    <3>1. r[j] = s[m + j - 1] /\ m + j - 1 \in 1 .. b - 1
      BY <1>0, <1>1, <1>2, <1>3, SMT
    <3> QED BY <3>1, <1>1
  <2>3. b - m + 1 <= Len(r) => r[b - m + 1] >= x
    <3>1. b - m + 1 <= Len(r) => b <= Len(s) /\ r[b - m + 1] = s[m + (b - m + 1) - 1]
      BY <1>0, <1>1, <1>2, <1>3, SMT
    <3>2. m + (b - m + 1) - 1 = b
      BY <1>1, SMT
    <3> QED BY <3>1, <3>2, <1>1
  <2>4. (b - m + 1) - 1 = b - m
    BY <1>1, SMT
  <2> QED BY <2>1, <2>2, <2>3, <2>4, <1>2, LowerBoundIs
<1> QED BY <1>4 DEF b, r

\* In a sorted sequence a key stands at its lower bound.
LEMMA LowerBoundOf ==
  ASSUME WellOrder, NEW s \in Seq(Key), Sorted(s), NEW i \in 1 .. Len(s)
  PROVE  lowerBound(s, s[i]) = i
<1>0. Len(s) \in Nat /\ Key \subseteq Nat /\ \A j \in 1 .. Len(s) : s[j] \in Nat
  BY KeySeq
<1>1. s[i] \in Key
  BY ElementOfSeq
<1>2. \A j \in 1 .. i - 1 : s[j] < s[i]
  BY <1>0, SMT DEF Sorted
<1>3. i \in 1 .. Len(s) + 1 /\ s[i] >= s[i]
  BY <1>0, SMT
<1> QED BY <1>1, <1>2, <1>3, LowerBoundIs

\* The value of x in a leaf with keys s and payloads d.
Val(s, d, x) == IF \E i \in 1 .. Len(s) : s[i] = x THEN d[lowerBound(s, x)] ELSE Absent

LEMMA ValAt ==
  ASSUME WellOrder, NEW s \in Seq(Key), Sorted(s), NEW d, NEW i \in 1 .. Len(s)
  PROVE  Val(s, d, s[i]) = d[i]
BY LowerBoundOf DEF Val

IsReplaced(e, d, i, y, len) == \A j \in 1 .. len : e[j] = IF j = i THEN y ELSE d[j]

\* An upsert of the key at i changes its value only.
LEMMA ValReplaced ==
  ASSUME WellOrder, NEW s \in Seq(Key), Sorted(s), NEW d, NEW i \in 1 .. Len(s), NEW y,
         NEW e, IsReplaced(e, d, i, y, Len(s)),
         NEW z \in Key
  PROVE  Val(s, e, z) = IF z = s[i] THEN y ELSE Val(s, d, z)
<1>2. CASE \E j \in 1 .. Len(s) : s[j] = z
  <2>1. PICK j \in 1 .. Len(s) : s[j] = z
    BY <1>2
  <2>2. Val(s, e, z) = e[j] /\ Val(s, d, z) = d[j]
    BY <2>1, ValAt
  <2>3. z = s[i] <=> i = j
    BY <2>1, LowerBoundOf
  <2> QED BY <2>1, <2>2, <2>3 DEF IsReplaced
<1>3. CASE ~\E j \in 1 .. Len(s) : s[j] = z
  BY <1>3 DEF Val
<1> QED BY <1>2, <1>3

\* An insertion of a new key gives it its value and leaves the others theirs.
LEMMA ValInserted ==
  ASSUME WellOrder, NEW S, NEW s \in Seq(Key), Sorted(s), NEW d \in Seq(S), Len(d) = Len(s),
         NEW x \in Key, \A i \in 1 .. Len(s) : s[i] # x, NEW y \in S, NEW z \in Key
  PROVE  Val(InsertAt(s, lowerBound(s, x), x), InsertAt(d, lowerBound(s, x), y), z)
             = IF z = x THEN y ELSE Val(s, d, z)
<1> DEFINE i == lowerBound(s, x)  r == InsertAt(s, i, x)  e == InsertAt(d, i, y)
<1>0. Len(s) \in Nat
  BY SMT
<1>1. i \in 1 .. Len(s) + 1
  BY LowerBound
<1>s. Sorted(r)
  BY InsertSorted
<1> HIDE DEF i
<1>2. /\ r \in Seq(Key) /\ Len(r) = Len(s) + 1 /\ r[i] = x
      /\ \A j \in 1 .. i - 1 : r[j] = s[j]
      /\ \A j \in i + 1 .. Len(s) + 1 : r[j] = s[j - 1]
  <2>1. r \in Seq(Key) /\ IsInserted(r, s, i, x)
    BY <1>1, Inserted
  <2> QED BY <2>1 DEF IsInserted
<1>3. /\ e[i] = y
      /\ \A j \in 1 .. i - 1 : e[j] = d[j]
      /\ \A j \in i + 1 .. Len(s) + 1 : e[j] = d[j - 1]
  <2>1. i \in 1 .. Len(d) + 1
    BY <1>1
  <2>2. IsInserted(e, d, i, y)
    BY <2>1, Inserted
  <2> QED BY <2>2 DEF IsInserted
<1> HIDE DEF r, e
<1>4. Val(r, e, z) = IF z = x THEN y ELSE Val(s, d, z)
  <2>1. CASE z = x
    BY <2>1, <1>s, <1>0, <1>1, <1>2, <1>3, ValAt, SMT
  <2>2. CASE z # x /\ \E j \in 1 .. Len(s) : s[j] = z
    <3>1. PICK j \in 1 .. Len(s) : s[j] = z
      BY <2>2
    <3>2. Val(s, d, z) = d[j]
      BY <3>1, ValAt
    <3>3. CASE j < i
      <4>1. j \in 1 .. Len(r) /\ r[j] = z /\ e[j] = d[j]
        BY <3>1, <3>3, <1>0, <1>1, <1>2, <1>3, SMT
      <4> QED BY <4>1, <3>2, <2>2, <1>s, <1>2, ValAt, ZenonT(30)
    <3>4. CASE j >= i
      <4>1. j + 1 \in i + 1 .. Len(s) + 1 /\ (j + 1) - 1 = j /\ j + 1 \in 1 .. Len(r)
        BY <3>4, <1>0, <1>1, <1>2, SMT
      <4>2. r[j + 1] = z /\ e[j + 1] = d[j]
        BY <4>1, <3>1, <1>2, <1>3
      <4> QED BY <4>1, <4>2, <3>2, <2>2, <1>s, <1>2, ValAt, ZenonT(30)
    <3> QED BY <3>3, <3>4, <1>0, <1>1, SMT
  <2>3. CASE z # x /\ ~\E j \in 1 .. Len(s) : s[j] = z
    <3>1. ASSUME NEW j \in 1 .. Len(r) PROVE r[j] # z
      <4>1. CASE j < i
        BY <4>1, <2>3, <1>0, <1>1, <1>2, SMT
      <4>2. CASE j = i
        BY <4>2, <2>3, <1>2
      <4>3. CASE j > i
        <5>1. r[j] = s[j - 1] /\ j - 1 \in 1 .. Len(s)
          BY <4>3, <1>0, <1>1, <1>2, SMT
        <5> QED BY <5>1, <2>3
      <4> QED BY <4>1, <4>2, <4>3, <1>0, <1>1, <1>2, SMT
    <3> QED BY <3>1, <2>3 DEF Val
  <2> QED BY <2>1, <2>2, <2>3
<1> QED BY <1>4 DEF r, e, i

\* The halves of a sorted sequence that is cut after position m.
LEMMA Cut ==
  ASSUME NEW s \in Seq(Key), Sorted(s), NEW c \in 0 .. Len(s), NEW m \in 1 .. Len(s) + 1
  PROVE  LET l == SubSeq(s, 1, c)  r == SubSeq(s, m, Len(s)) IN
         /\ l \in Seq(Key) /\ Len(l) = c /\ Sorted(l) /\ \A j \in 1 .. c : l[j] = s[j]
         /\ r \in Seq(Key) /\ Len(r) = Len(s) - m + 1 /\ Sorted(r)
         /\ \A j \in 1 .. Len(r) : r[j] = s[m + j - 1]
<1> DEFINE l == SubSeq(s, 1, c)  r == SubSeq(s, m, Len(s))
<1>0. Len(s) \in Nat
  BY SMT
<1>1. l \in Seq(Key) /\ Len(l) = c /\ \A j \in 1 .. c : l[j] = s[j]
  BY <1>0, SubSeqProperties, SMT
<1>2. r \in Seq(Key) /\ Len(r) = Len(s) - m + 1 /\ \A j \in 1 .. Len(r) : r[j] = s[m + j - 1]
  BY <1>0, SubSeqProperties, SMT
<1> HIDE DEF l, r
<1>3. Sorted(l)
  BY <1>0, <1>1, SMTT(30) DEF Sorted
<1>4. ASSUME NEW i \in 1 .. Len(r), NEW j \in 1 .. Len(r), i < j PROVE r[i] < r[j]
  <2>1. /\ m + i - 1 \in 1 .. Len(s) /\ m + j - 1 \in 1 .. Len(s) /\ m + i - 1 < m + j - 1
        /\ r[i] = s[m + i - 1] /\ r[j] = s[m + j - 1]
    BY <1>0, <1>2, <1>4, SMT
  <2> QED BY <2>1 DEF Sorted
<1>5. Sorted(r)
  BY <1>4 DEF Sorted
<1> QED BY <1>1, <1>2, <1>3, <1>5 DEF l, r

\* A leaf cut after position c: keys up to s[c] keep their values on the left,
\* the others theirs on the right.
LEMMA ValCut ==
  ASSUME WellOrder, NEW S, NEW s \in Seq(Key), Sorted(s), NEW d \in Seq(S), Len(d) = Len(s),
         NEW c \in 1 .. Len(s), NEW z \in Key
  PROVE  Val(s, d, z) =
           IF z <= s[c] THEN Val(SubSeq(s, 1, c), SubSeq(d, 1, c), z)
           ELSE Val(SubSeq(s, c + 1, Len(s)), SubSeq(d, c + 1, Len(d)), z)
<1> DEFINE l == SubSeq(s, 1, c)  r == SubSeq(s, c + 1, Len(s))
           dl == SubSeq(d, 1, c)  dr == SubSeq(d, c + 1, Len(d))
<1>0. Len(s) \in Nat /\ Key \subseteq Nat /\ \A j \in 1 .. Len(s) : s[j] \in Nat
  BY KeySeq
<1>1. /\ l \in Seq(Key) /\ Len(l) = c /\ Sorted(l) /\ \A j \in 1 .. c : l[j] = s[j]
      /\ r \in Seq(Key) /\ Len(r) = Len(s) - c /\ Sorted(r)
      /\ \A j \in 1 .. Len(r) : r[j] = s[c + j]
  <2>1. c \in 0 .. Len(s) /\ c + 1 \in 1 .. Len(s) + 1 /\ Len(s) - (c + 1) + 1 = Len(s) - c
        /\ \A j \in Nat : (c + 1) + j - 1 = c + j
    BY <1>0, SMT
  <2> QED BY <2>1, Cut, SMT
<1>2. /\ \A j \in 1 .. c : dl[j] = d[j]
      /\ \A j \in 1 .. Len(s) - c : dr[j] = d[c + j]
  BY <1>0, SubSeqProperties, SMT
<1> HIDE DEF l, r, dl, dr
<1>3. Val(s, d, z) = IF z <= s[c] THEN Val(l, dl, z) ELSE Val(r, dr, z)
  <2>1. CASE \E j \in 1 .. Len(s) : s[j] = z
    <3>1. PICK j \in 1 .. Len(s) : s[j] = z
      BY <2>1
    <3>2. Val(s, d, z) = d[j]
      BY <3>1, ValAt
    <3>3. CASE j <= c
      <4>1. z <= s[c]
        BY <3>1, <3>3, <1>0, SMT DEF Sorted
      <4>2. j \in 1 .. Len(l) /\ l[j] = z /\ dl[j] = d[j]
        BY <3>1, <3>3, <1>0, <1>1, <1>2, SMT
      <4>3. Val(l, dl, z) = dl[j]
        BY <4>2, <1>1, ValAt
      <4> QED BY <4>1, <4>2, <4>3, <3>2
    <3>4. CASE j > c
      <4>1. ~(z <= s[c])
        BY <3>1, <3>4, <1>0, SMT DEF Sorted
      <4>2. j - c \in 1 .. Len(r) /\ j - c \in 1 .. Len(s) - c /\ c + (j - c) = j
        BY <3>4, <1>0, <1>1, SMT
      <4>3. r[j - c] = z /\ dr[j - c] = d[j]
        BY <4>2, <3>1, <1>1, <1>2, SMT
      <4> QED BY <4>1, <4>2, <4>3, <3>2, <1>1, ValAt
    <3> QED BY <3>3, <3>4, <1>0, SMT
  <2>2. CASE ~\E j \in 1 .. Len(s) : s[j] = z
    <3>1. ASSUME NEW j \in 1 .. Len(l) PROVE l[j] # z
      BY <2>2, <1>0, <1>1, SMT
    <3>2. ASSUME NEW j \in 1 .. Len(r) PROVE r[j] # z
      <4>1. r[j] = s[c + j] /\ c + j \in 1 .. Len(s)
        BY <1>0, <1>1, SMT
      <4> QED BY <4>1, <2>2
    <3> QED BY <3>1, <3>2, <2>2 DEF Val
  <2> QED BY <2>1, <2>2
<1> QED BY <1>3 DEF l, r, dl, dr

-----------------------------------------------------------------------------
(* The tree.                                                               *)

LEMMA NodeTypes ==
  ASSUME TypeOK, NEW n \in 1 .. used
  PROVE  /\ n \in Node /\ n \in Nat /\ type[n] \in {"leaf", "inner"} /\ ver[n] \in Nat
         /\ keys[n] \in Seq(Key) /\ slots[n] \in Seq(Node \cup Value)
         /\ Len(keys[n]) \in Nat /\ Len(slots[n]) \in Nat
         /\ DOMAIN keys[n] = 1 .. Len(keys[n]) /\ DOMAIN slots[n] = 1 .. Len(slots[n])
         /\ span[n] \subseteq Key
<1>1. n \in Node /\ n \in Nat
  BY BTreeOLCAssumption, SMT DEF TypeOK, Node
<1>2. keys[n] \in Seq(Key) /\ slots[n] \in Seq(Node \cup Value)
  BY <1>1 DEF TypeOK
<1> QED BY <1>1, <1>2, LenProperties DEF TypeOK

\* The sizes of nodes.
LEMMA Sizes ==
  /\ MaxLeaf \in Nat /\ MaxLeaf >= 2 /\ MaxInner \in Nat /\ MaxInner >= 5
  /\ Key \subseteq Nat /\ MaxNodes \in Nat
BY BTreeOLCAssumption, SMT

\* Nodes are numbers, allocated from 1 on.
LEMMA NodeNat ==
  ASSUME NEW n \in Node
  PROVE  n \in Nat /\ n <= n /\ \A m \in 1 .. n : m \in Node
BY BTreeOLCAssumption, SMT DEF Node

\* So is their number.
LEMMA UsedNat ==
  ASSUME TypeOK
  PROVE  used \in Nat
BY NodeNat DEF TypeOK

\* The node allocated next is none of those in use.
LEMMA Grown ==
  ASSUME NEW u \in Nat, NEW c, c = u + 1
  PROVE  /\ c \in Nat /\ u <= c /\ c \in 1 .. c
         /\ \A n \in 1 .. u : n \in 1 .. c /\ n # c
         /\ \A n \in 1 .. c : n # c => n \in 1 .. u
BY SMT

\* A key is on one side of another.
LEMMA Sides ==
  ASSUME NEW x \in Nat, NEW y \in Nat
  PROVE  (x > y <=> ~(x <= y)) /\ (x <= y \/ y <= x)
BY SMT

\* The places of a child array before and after a child is put in behind place j.
LEMMA Places ==
  ASSUME NEW j \in Nat, NEW m \in Nat, j <= m, NEW i \in 1 .. m + 1
  PROVE  /\ i < j \/ i = j \/ i = j + 1 \/ i > j + 1
         /\ i <= j <=> i < j \/ i = j
         /\ i < j => i # j
         /\ i <= j => i \in 1 .. (j + 1) - 1 /\ i \in 1 .. m
         /\ i > j + 1 => i \in (j + 1) + 1 .. m + 1 /\ i - 1 \in 1 .. m /\ i - 1 # j
BY SMT

\* What is below a place of the right half is in the left one.
LEMMA Apart ==
  ASSUME NEW m \in Nat, NEW n, NEW h \in 1 .. n, NEW i \in 1 .. m - 1
  PROVE  i # m + h - 1
BY SMT

\* Numbers of an interval.
LEMMA Above ==
  ASSUME NEW m, NEW n \in 2 .. m
  PROVE  n \in Nat /\ n >= 1
BY SMT

\* A node that has room and is not full.
LEMMA Room ==
  ASSUME NEW x \in Nat, NEW y \in Nat, x <= y - 1, x # y - 1
  PROVE  x < y - 1
BY SMT

\* A key's value is that in its leaf.
LEMMA InLeaf ==
  ASSUME TypeOK, LeafInv, NEW x \in Key, NEW n \in 1 .. used, type[n] = "leaf", x \in span[n]
  PROVE  LeafOf(x) = n /\ Contents[x] = Val(keys[n], slots[n], x)
<1>1. LeafOf(x) = n
  BY DEF LeafOf, LeafInv
<1>2. Contents[x] = Payload(n, x)
  BY <1>1 DEF Contents
<1>3. DOMAIN keys[n] = 1 .. Len(keys[n])
  BY NodeTypes
<1> QED BY <1>1, <1>2, <1>3 DEF Payload, Val

\* BTreeLeaf::insert of a key of the leaf's span.
LEMMA WriteArrays ==
  ASSUME WellOrder, TypeOK, NEW n \in 1 .. used, NodeOK(n), type[n] = "leaf", ~Full(n),
         NEW x \in span[n], NEW y \in Value, LeafInsert(n, x, y)
  PROVE  /\ keys' = [keys EXCEPT ![n] = keys'[n]] /\ slots' = [slots EXCEPT ![n] = slots'[n]]
         /\ keys'[n] \in Seq(Key) /\ slots'[n] \in Seq(Node \cup Value)
         /\ Len(keys'[n]) <= MaxLeaf /\ Len(slots'[n]) = Len(keys'[n])
         /\ Sorted(keys'[n]) /\ \A i \in 1 .. Len(keys'[n]) : keys'[n][i] \in span[n]
         /\ \A z \in Key : Val(keys'[n], slots'[n], z)
                             = IF z = x THEN y ELSE Val(keys[n], slots[n], z)
<1> DEFINE s == keys[n]  d == slots[n]  b == lowerBound(s, x)
<1>0. /\ n \in Node /\ s \in Seq(Key) /\ d \in Seq(Node \cup Value) /\ x \in Key
      /\ Len(s) \in Nat /\ Len(d) = Len(s) /\ DOMAIN s = 1 .. Len(s) /\ Sorted(s)
      /\ Len(s) < MaxLeaf /\ MaxLeaf \in Nat
      /\ \A i \in 1 .. Len(s) : s[i] \in span[n]
      /\ y \in Node \cup Value
  BY NodeTypes, Sizes, SMT DEF NodeOK, Full
<1>k. keys \in [Node -> Seq(Key)] /\ slots \in [Node -> Seq(Node \cup Value)]
  BY DEF TypeOK
<1>1. CASE \E j \in DOMAIN s : s[j] = x
  <2>1. PICK j \in 1 .. Len(s) : s[j] = x
    BY <1>0, <1>1
  <2>2. b = j
    BY <2>1, <1>0, LowerBoundOf
  <2>3. keys' = keys /\ slots' = [slots EXCEPT ![n] = [d EXCEPT ![j] = y]]
    BY <1>1, <2>2 DEF LeafInsert
  <2>4. keys'[n] = s /\ slots'[n] = [d EXCEPT ![j] = y]
    BY <2>3, <1>0, <1>k
  <2>5. [d EXCEPT ![j] = y] \in Seq(Node \cup Value) /\ Len([d EXCEPT ![j] = y]) = Len(s)
    BY <1>0, ExceptSeq, SMT
  <2> HIDE DEF s, d, b
  <2> DEFINE e == [d EXCEPT ![j] = y]
  <2>e. IsReplaced(e, d, j, y, Len(s))
    BY <1>0, ExceptSeq, SMT DEF IsReplaced
  <2> HIDE DEF e
  <2>6. ASSUME NEW z \in Key
        PROVE  Val(s, e, z) = IF z = s[j] THEN y ELSE Val(s, d, z)
    BY <2>e, <1>0, ValReplaced, SMT
  <2>7. keys' = [keys EXCEPT ![n] = keys'[n]] /\ slots' = [slots EXCEPT ![n] = slots'[n]]
    BY <2>3, <2>4, <1>0, <1>k DEF s, d
  <2>8. Len(s) <= MaxLeaf
    BY <1>0, SMT
  <2>9. \A z \in Key : Val(keys'[n], slots'[n], z) = IF z = x THEN y ELSE Val(s, d, z)
    BY <2>1, <2>4, <2>6 DEF e
  <2> QED BY <2>4, <2>5, <2>7, <2>8, <2>9, <1>0 DEF s, d
<1>2. CASE ~\E j \in DOMAIN s : s[j] = x
  <2> DEFINE r == InsertAt(s, b, x)  e == InsertAt(d, b, y)
  <2>1. \A j \in 1 .. Len(s) : s[j] # x
    BY <1>0, <1>2
  <2>2. keys' = [keys EXCEPT ![n] = r] /\ slots' = [slots EXCEPT ![n] = e]
    BY <1>2 DEF LeafInsert
  <2>3. keys'[n] = r /\ slots'[n] = e
    BY <2>2, <1>0, <1>k
  <2>4. b \in 1 .. Len(s) + 1
    BY <1>0, LowerBound
  <2>5. \A z \in Key : Val(r, e, z) = IF z = x THEN y ELSE Val(s, d, z)
    BY <2>1, <1>0, ValInserted, SMTT(30)
  <2>6. Sorted(r)
    BY <2>1, <1>0, InsertSorted
  <2> HIDE DEF b
  <2>7. /\ r \in Seq(Key) /\ Len(r) = Len(s) + 1 /\ r[b] = x
        /\ \A j \in 1 .. b - 1 : r[j] = s[j]
        /\ \A j \in b + 1 .. Len(s) + 1 : r[j] = s[j - 1]
    <3>1. r \in Seq(Key) /\ IsInserted(r, s, b, x)
      BY <2>4, <1>0, Inserted
    <3> QED BY <3>1 DEF IsInserted
  <2>8. e \in Seq(Node \cup Value) /\ Len(e) = Len(s) + 1
    <3>1. b \in 1 .. Len(d) + 1
      BY <2>4, <1>0
    <3>2. e \in Seq(Node \cup Value) /\ IsInserted(e, d, b, y)
      BY <3>1, <1>0, Inserted
    <3> QED BY <3>2, <1>0 DEF IsInserted
  <2> HIDE DEF r, e, s, d
  <2>9. ASSUME NEW i \in 1 .. Len(r) PROVE r[i] \in span[n]
    <3>1. CASE i < b
      BY <3>1, <2>4, <2>7, <1>0, SMT
    <3>2. CASE i = b
      BY <3>2, <2>7
    <3>3. CASE i > b
      <4>1. r[i] = s[i - 1] /\ i - 1 \in 1 .. Len(s)
        BY <3>3, <2>4, <2>7, <1>0, SMT
      <4> QED BY <4>1, <1>0
    <3> QED BY <3>1, <3>2, <3>3, <2>4, <2>7, <1>0, SMTT(30)
  <2>10. Len(r) <= MaxLeaf /\ Len(e) = Len(r)
    BY <2>7, <2>8, <1>0, SMT
  <2> QED BY <2>2, <2>3, <2>5, <2>6, <2>7, <2>8, <2>9, <2>10 DEF s, d
<1> QED BY <1>1, <1>2

\* It keeps the tree, and changes the value of one key.
LEMMA WriteTree ==
  ASSUME TypeOK, TreeInv, NEW n \in 1 .. used, type[n] = "leaf", ~Full(n),
         NEW x \in span[n], NEW y \in Value, LeafInsert(n, x, y),
         UNCHANGED <<root, used, type, span>>
  PROVE  /\ keys' \in [Node -> Seq(Key)] /\ slots' \in [Node -> Seq(Node \cup Value)]
         /\ \A m \in Node : m # n => keys'[m] = keys[m] /\ slots'[m] = slots[m]
         /\ TreeInv'
         /\ Contents' = [Contents EXCEPT ![x] = y]
<1> WellOrder /\ WellOrder'
  BY Ordering
<1>0. n \in Node /\ NodeOK(n) /\ x \in Key
  BY NodeTypes DEF TreeInv
<1>1. /\ keys' = [keys EXCEPT ![n] = keys'[n]] /\ slots' = [slots EXCEPT ![n] = slots'[n]]
      /\ keys'[n] \in Seq(Key) /\ slots'[n] \in Seq(Node \cup Value)
      /\ Len(keys'[n]) <= MaxLeaf /\ Len(slots'[n]) = Len(keys'[n])
      /\ Sorted(keys'[n]) /\ \A i \in 1 .. Len(keys'[n]) : keys'[n][i] \in span[n]
      /\ \A z \in Key : Val(keys'[n], slots'[n], z)
                          = IF z = x THEN y ELSE Val(keys[n], slots[n], z)
  BY <1>0, WriteArrays, SMT
<1>k. keys \in [Node -> Seq(Key)] /\ slots \in [Node -> Seq(Node \cup Value)]
  BY DEF TypeOK
<1>2. keys' \in [Node -> Seq(Key)] /\ slots' \in [Node -> Seq(Node \cup Value)]
  <2>1. /\ [keys EXCEPT ![n] = keys'[n]] \in [Node -> Seq(Key)]
        /\ [slots EXCEPT ![n] = slots'[n]] \in [Node -> Seq(Node \cup Value)]
    BY <1>1, <1>k
  <2> QED BY <2>1, <1>1
<1>3. \A m \in Node : m # n => keys'[m] = keys[m] /\ slots'[m] = slots[m]
  <2>1. /\ \A m \in Node : m # n => [keys EXCEPT ![n] = keys'[n]][m] = keys[m]
        /\ \A m \in Node : m # n => [slots EXCEPT ![n] = slots'[n]][m] = slots[m]
    BY <1>k
  <2> QED BY <2>1, <1>1
<1>4. \A m \in 1 .. used : m \in Node
  BY NodeTypes
<1>5. TreeInv'
  <2>1. span'[root'] = Key
    BY DEF TreeInv
  <2>2. ASSUME NEW m \in 1 .. used PROVE NodeOK(m)'
    <3>1. CASE m = n
      <4>1. Len(slots'[n]) = Len(keys'[n]) + 0
        BY <1>1, LenProperties, SMT
      <4> QED BY <4>1, <3>1, <1>1 DEF NodeOK
    <3>2. CASE m # n
      BY <3>2, <1>3, <1>4 DEF TreeInv, NodeOK
    <3> QED BY <3>1, <3>2
  <2>3. ASSUME NEW m \in 1 .. used, type[m] = "inner", NEW i \in 1 .. Len(slots'[m])
        PROVE  ChildOK(m, i)'
    <3>1. m \in Node /\ m # n
      BY <2>3, <1>4
    <3>2. keys'[m] = keys[m] /\ slots'[m] = slots[m]
      BY <3>1, <1>3
    <3>3. ChildOK(m, i)
      BY <2>3, <3>2 DEF TreeInv
    <3> QED BY <3>2, <3>3 DEF ChildOK, lowerBound
  <2>4. LeafInv'
    BY DEF TreeInv, LeafInv
  <2>5. ParentInv'
    <3>1. \A m \in 1 .. used : type[m] = "inner" => slots'[m] = slots[m]
      BY <1>3, <1>4
    <3>2. ParentInv
      BY DEF TreeInv
    <3>3. ASSUME NEW m \in 1 .. used, NEW o \in 1 .. used, type[m] = "inner", type[o] = "inner",
                 NEW i \in 1 .. Len(slots'[m]), NEW j \in 1 .. Len(slots'[o]),
                 slots'[m][i] = slots'[o][j]
          PROVE  m = o /\ i = j
      <4>1. /\ i \in 1 .. Len(slots[m]) /\ j \in 1 .. Len(slots[o])
            /\ slots[m][i] = slots[o][j]
        BY <3>1, <3>3
      <4>2. \A c \in 1 .. Len(slots[m]) : \A e \in 1 .. Len(slots[o]) :
                slots[m][c] = slots[o][e] => m = o /\ c = e
        BY <3>2, <3>3 DEF ParentInv
      <4> QED BY <4>1, <4>2
    <3> QED BY <3>3 DEF ParentInv
  <2> QED BY <2>1, <2>2, <2>3, <2>4, <2>5 DEF TreeInv
<1>6. Contents' = [Contents EXCEPT ![x] = y]
  <2>1. ASSUME NEW z \in Key
        PROVE  Contents'[z] = IF z = x THEN y ELSE Contents[z]
    <3>1. PICK m \in 1 .. used : type[m] = "leaf" /\ z \in span[m]
      BY DEF TreeInv, LeafInv
    <3>2. LeafOf(z) = m /\ Contents[z] = Val(keys[m], slots[m], z)
      BY <3>1, InLeaf DEF TreeInv
    <3>3. LeafOf(z)' = m
      BY <3>2 DEF LeafOf
    <3>4. Contents'[z] = Payload(m, z)'
      BY <3>3 DEF Contents
    <3>5. DOMAIN keys'[m] = 1 .. Len(keys'[m])
      BY <1>2, <1>4, LenProperties
    <3>6. Contents'[z] = Val(keys'[m], slots'[m], z)
      BY <3>4, <3>5 DEF Payload, Val, lowerBound
    <3>7. CASE m = n
      BY <3>2, <3>6, <3>7, <1>1
    <3>8. CASE m # n
      <4>1. z # x
        BY <3>1, <3>8, SMT DEF TreeInv, LeafInv
      <4> QED BY <4>1, <3>2, <3>6, <3>8, <1>3, <1>4
    <3> QED BY <3>7, <3>8
  <2>2. Contents' = [z \in Key |-> Contents'[z]] /\ Contents = [z \in Key |-> Contents[z]]
    BY DEF Contents
  <2> HIDE DEF Contents
  <2> QED BY <2>1, <2>2
<1> QED BY <1>2, <1>3, <1>5, <1>6

\* Greater keys have greater lower bounds.
LEMMA LowerBoundMonotone ==
  ASSUME WellOrder, NEW s \in Seq(Key), NEW x \in Key, NEW y \in Key, x <= y
  PROVE  lowerBound(s, x) <= lowerBound(s, y)
<1> DEFINE a == lowerBound(s, x)  b == lowerBound(s, y)
<1>0. Len(s) \in Nat /\ Key \subseteq Nat /\ \A j \in 1 .. Len(s) : s[j] \in Nat
  BY KeySeq
<1>1. a \in 1 .. Len(s) + 1 /\ \A j \in 1 .. a - 1 : s[j] < x
  BY LowerBound
<1>2. b \in 1 .. Len(s) + 1 /\ (b <= Len(s) => s[b] >= y)
  BY LowerBound
<1> HIDE DEF a, b
<1>3. a <= b
  <2> SUFFICES ASSUME b < a PROVE FALSE
    BY <1>1, <1>2, SMT
  <2>1. b \in 1 .. Len(s) /\ s[b] < x /\ s[b] >= y
    BY <1>0, <1>1, <1>2, SMT
  <2> QED BY <2>1, <1>0, SMT
<1> QED BY <1>3 DEF a, b

\* A full node is cut into two halves that are not empty, with the separator as
\* the greatest key of the left one's span.
LEMMA Halves ==
  ASSUME TypeOK, NEW a \in 1 .. used, NodeOK(a), Full(a)
  PROVE  LET s == keys[a]  c == Kept(a)  m == Moved(a)  sep == Separator(a)
             l == SubSeq(s, 1, c)  r == SubSeq(s, m, Len(s)) IN
         /\ c \in 1 .. Len(s) /\ m \in 2 .. Len(s) /\ m - 1 = c + (IF type[a] = "leaf" THEN 0 ELSE 1)
         /\ sep \in span[a] /\ sep = s[m - 1] /\ \E x \in span[a] : x > sep
         /\ l \in Seq(Key) /\ Len(l) = c /\ Sorted(l)
         /\ r \in Seq(Key) /\ Len(r) = Len(s) - m + 1 /\ Sorted(r)
         /\ \A j \in 1 .. Len(l) : l[j] \in span[a] /\ l[j] <= sep
         /\ \A j \in 1 .. Len(r) : r[j] \in span[a] /\ r[j] > sep
<1> DEFINE s == keys[a]  c == Kept(a)  m == Moved(a)
           l == SubSeq(s, 1, c)  r == SubSeq(s, m, Len(s))
<1>0. /\ s \in Seq(Key) /\ Len(s) \in Nat /\ Sorted(s) /\ type[a] \in {"leaf", "inner"}
      /\ \A i \in 1 .. Len(s) : s[i] \in span[a]
  BY NodeTypes DEF NodeOK
<1>n. \A i \in 1 .. Len(s) : s[i] \in Nat
  BY <1>0, KeySeq
<1>1. /\ c \in 1 .. Len(s) /\ m \in 2 .. Len(s)
      /\ m - 1 = c + (IF type[a] = "leaf" THEN 0 ELSE 1)
  <2>1. CASE type[a] = "leaf"
    <3>1. Len(s) >= 2 /\ c = Len(s) \div 2 /\ m = c + 1
      BY <2>1, Sizes, SMT DEF Full, Kept, Moved
    <3> HIDE DEF s, c, m
    <3> QED BY <3>1, <2>1, <1>0, SMT
  <2>2. CASE type[a] = "inner"
    <3>1. Len(s) >= 4 /\ c = (Len(s) \div 2) - 1 /\ m = c + 2
      BY <2>2, Sizes, SMT DEF Full, Kept, Moved
    <3> HIDE DEF s, c, m
    <3> QED BY <3>1, <2>2, <1>0, SMT
  <2> QED BY <2>1, <2>2, <1>0
<1>2. Separator(a) = s[m - 1]
  BY DEF Separator
<1> HIDE DEF s, c, m
<1>3. /\ l \in Seq(Key) /\ Len(l) = c /\ Sorted(l) /\ \A j \in 1 .. c : l[j] = s[j]
      /\ r \in Seq(Key) /\ Len(r) = Len(s) - m + 1 /\ Sorted(r)
      /\ \A j \in 1 .. Len(r) : r[j] = s[m + j - 1]
  <2>1. c \in 0 .. Len(s) /\ m \in 1 .. Len(s) + 1
    BY <1>0, <1>1, SMT
  <2> QED BY <2>1, <1>0, Cut
<1> HIDE DEF l, r
<1>4. m - 1 \in 1 .. Len(s) /\ s[m - 1] \in span[a]
  BY <1>0, <1>1, SMT
<1>5. s[Len(s)] \in span[a] /\ s[Len(s)] > s[m - 1]
  BY <1>0, <1>1, <1>4, <1>n, SMT DEF Sorted
<1>6. ASSUME NEW j \in 1 .. Len(l) PROVE l[j] \in span[a] /\ l[j] <= s[m - 1]
  <2>1. j \in 1 .. Len(s) /\ l[j] = s[j] /\ j <= m - 1
    BY <1>0, <1>1, <1>3, SMT
  <2> QED BY <2>1, <1>0, <1>4, <1>n, SMTT(30) DEF Sorted
<1>7. ASSUME NEW j \in 1 .. Len(r) PROVE r[j] \in span[a] /\ r[j] > s[m - 1]
  <2>1. m + j - 1 \in 1 .. Len(s) /\ r[j] = s[m + j - 1] /\ m - 1 < m + j - 1
    BY <1>0, <1>1, <1>3, SMTT(30)
  <2>2. s[m - 1] < s[m + j - 1]
    BY <2>1, <1>0, <1>4 DEF Sorted
  <2> QED BY <2>1, <2>2, <1>0, <1>4, <1>n
<1> QED BY <1>1, <1>2, <1>3, <1>4, <1>5, <1>6, <1>7 DEF s, c, m, l, r

\* Searches and values in the halves.
LEMMA HalvesFound ==
  ASSUME WellOrder, TypeOK, NEW a \in 1 .. used, NodeOK(a), Full(a), NEW x \in Key
  PROVE  LET s == keys[a]  d == slots[a]  c == Kept(a)  m == Moved(a)
             l == SubSeq(s, 1, c)  r == SubSeq(s, m, Len(s))
             dl == SubSeq(d, 1, m - 1)  dr == SubSeq(d, m, Len(d)) IN
         /\ x <= Separator(a) => lowerBound(l, x) = lowerBound(s, x) /\ lowerBound(s, x) <= m - 1
         /\ x > Separator(a) => lowerBound(r, x) = lowerBound(s, x) - m + 1 /\ lowerBound(s, x) >= m
         /\ type[a] = "leaf" =>
              Val(s, d, x) = IF x <= Separator(a) THEN Val(l, dl, x) ELSE Val(r, dr, x)
<1> DEFINE s == keys[a]  c == Kept(a)  m == Moved(a)  d == slots[a]
           l == SubSeq(s, 1, c)  r == SubSeq(s, m, Len(s))
           dl == SubSeq(d, 1, m - 1)  dr == SubSeq(d, m, Len(d))
<1>0. /\ s \in Seq(Key) /\ Len(s) \in Nat /\ Sorted(s) /\ d \in Seq(Node \cup Value)
      /\ type[a] = "leaf" => Len(d) = Len(s)
  <2>1. s \in Seq(Key) /\ Len(s) \in Nat /\ Sorted(s) /\ d \in Seq(Node \cup Value)
    BY NodeTypes DEF NodeOK
  <2>2. type[a] = "leaf" => Len(d) = Len(s) + 0
    BY DEF NodeOK
  <2> HIDE DEF s, d
  <2> QED BY <2>1, <2>2, SMT
<1>n. x \in Nat /\ \A i \in 1 .. Len(s) : s[i] \in Nat
  BY <1>0, KeySeq
<1>1. /\ c \in 1 .. Len(s) /\ m \in 2 .. Len(s) /\ m - 1 = c + (IF type[a] = "leaf" THEN 0 ELSE 1)
      /\ Separator(a) = s[m - 1]
  BY Halves
<1>2. type[a] = "leaf" => m - 1 = c /\ m = c + 1
  BY <1>1, SMT
<1> DEFINE b == lowerBound(s, x)
<1>b. /\ b \in 1 .. Len(s) + 1 /\ \A j \in 1 .. b - 1 : s[j] < x
      /\ b <= Len(s) => s[b] >= x
  BY <1>0, LowerBound
<1>3. CASE x <= s[m - 1]
  <2>1. lowerBound(s, x) <= m - 1
    <3> SUFFICES ASSUME m - 1 < b PROVE FALSE
      BY <1>1, <1>b, SMT
    <3> HIDE DEF b, s, m
    <3>1. m - 1 \in 1 .. b - 1 /\ m - 1 \in 1 .. Len(s)
      BY <1>1, <1>b, SMT
    <3> QED BY <3>1, <1>3, <1>b, <1>n, SMT
  <2>2. c \in 0 .. Len(s) /\ m - 1 <= c + 1
    BY <1>0, <1>1, SMT
  <2>3. lowerBound(s, x) <= c + 1
    <3> HIDE DEF s, c, m
    <3> QED BY <2>1, <2>2, <1>1, <1>b, SMT DEF b
  <2>4. lowerBound(l, x) = lowerBound(s, x)
    BY <2>2, <2>3, <1>0, LowerBoundLeft
  <2>5. ~(x > s[m - 1])
    BY <1>3, <1>1, <1>n, SMT
  <2>6. type[a] = "leaf" => Val(s, d, x) = Val(l, dl, x)
    <3> HIDE DEF s, c, m, d, b
    <3> QED BY <1>0, <1>1, <1>2, <1>3, ValCut, SMT
  <2> HIDE DEF s, c, m, d, l, dl, r, dr
  <2> QED BY <2>1, <2>4, <2>5, <2>6, <1>1, <1>3 DEF s, c, m, d, l, dl, r, dr
<1>4. CASE ~(x <= s[m - 1])
  <2>1. lowerBound(s, x) >= m
    <3> SUFFICES ASSUME b <= m - 1 PROVE FALSE
      BY <1>1, <1>b, SMT
    <3> HIDE DEF b, s, m
    <3>1. b \in 1 .. Len(s) /\ m - 1 \in 1 .. Len(s) /\ s[b] >= x
      BY <1>1, <1>b, SMT
    <3>2. s[b] <= s[m - 1]
      BY <3>1, <1>0, <1>1, <1>b, <1>n, SMTT(30) DEF Sorted
    <3> QED BY <3>1, <3>2, <1>4, <1>n, SMT
  <2>2. m \in 1 .. Len(s) + 1 /\ m <= lowerBound(s, x)
    BY <2>1, <1>0, <1>1, <1>b, SMTT(30)
  <2>4. lowerBound(r, x) = lowerBound(s, x) - m + 1
    BY <2>2, <1>0, LowerBoundRight
  <2>6. type[a] = "leaf" => Val(s, d, x) = Val(r, dr, x)
    <3> HIDE DEF s, c, m, d, b
    <3> QED BY <1>0, <1>1, <1>2, <1>4, ValCut, SMTT(30)
  <2> HIDE DEF s, c, m, d, l, dl, r, dr
  <2> QED BY <2>1, <2>4, <2>6, <1>1, <1>4 DEF s, c, m, d, l, dl, r, dr
<1> QED BY <1>3, <1>4

\* Node a is cut and its right half becomes node b.  Besides these two
\* only q changes, the parent or the new root, and no other node has a as a child.
IsCut(a, b, q) ==
    /\ a \in 1 .. used /\ b = used + 1 /\ q # a /\ q # b
    /\ keys'[a] = SubSeq(keys[a], 1, Kept(a))
    /\ keys'[b] = SubSeq(keys[a], Moved(a), Len(keys[a]))
    /\ slots'[a] = SubSeq(slots[a], 1, Moved(a) - 1)
    /\ slots'[b] = SubSeq(slots[a], Moved(a), Len(slots[a]))
    /\ span'[a] = {x \in span[a] : x <= Separator(a)}
    /\ span'[b] = {x \in span[a] : x > Separator(a)}
    /\ type'[b] = type[a] /\ type'[q] = "inner"
    /\ \A n \in 1 .. used : type'[n] = type[n]
    /\ \A n \in 1 .. used : n # a => span'[n] = span[n]
    /\ \A n \in 1 .. used : n # a /\ n # q => keys'[n] = keys[n] /\ slots'[n] = slots[n]
    /\ \A n \in 1 .. used : type[n] = "inner" /\ n # q =>
        \A i \in 1 .. Len(slots[n]) : slots[n][i] # a

\* Where the children of node n were before.
OldNode(a, b, n) == IF n = b THEN a ELSE n
OldPlace(a, b, n, i) == IF n = b THEN Moved(a) + i - 1 ELSE i

\* Child i of n is an old child, in its place.
Kid(a, b, n, i) ==
    /\ slots'[n][i] = slots[OldNode(a, b, n)][OldPlace(a, b, n, i)]
    /\ OldNode(a, b, n) \in 1 .. used /\ type[OldNode(a, b, n)] = "inner"
    /\ OldPlace(a, b, n, i) \in 1 .. Len(slots[OldNode(a, b, n)])
    /\ slots'[n][i] \in 1 .. used /\ slots'[n][i] # root
    /\ \A x \in Key : x \in span'[slots'[n][i]] <=> x \in span'[n] /\ lowerBound(keys'[n], x) = i

\* The arrays of the halves.
LEMMA CutArrays ==
  ASSUME TypeOK, TreeInv, NEW a, NEW b, NEW q, IsCut(a, b, q), Full(a)
  PROVE  /\ keys'[a] \in Seq(Key) /\ slots'[a] \in Seq(Node \cup Value)
         /\ Len(keys'[a]) = Kept(a) /\ Len(slots'[a]) = Moved(a) - 1
         /\ \A i \in 1 .. Moved(a) - 1 : slots'[a][i] = slots[a][i]
         /\ keys'[b] \in Seq(Key) /\ slots'[b] \in Seq(Node \cup Value)
         /\ Len(keys'[b]) = Len(keys[a]) - Moved(a) + 1
         /\ Len(slots'[b]) = Len(slots[a]) - Moved(a) + 1
         /\ \A i \in 1 .. Len(slots'[b]) : slots'[b][i] = slots[a][Moved(a) + i - 1]
         /\ NodeOK(a)' /\ NodeOK(b)'
<1> DEFINE c == Kept(a)  m == Moved(a)  sep == Separator(a)
<1>0. /\ a \in 1 .. used /\ NodeOK(a)
      /\ keys[a] \in Seq(Key) /\ Len(keys[a]) \in Nat
      /\ slots[a] \in Seq(Node \cup Value) /\ Len(slots[a]) \in Nat
      /\ type[a] \in {"leaf", "inner"}
      /\ type'[a] = type[a] /\ type'[b] = type[a]
  BY NodeTypes DEF IsCut, TreeInv
<1>1. /\ c \in 1 .. Len(keys[a]) /\ m \in 2 .. Len(keys[a])
      /\ m - 1 = c + (IF type[a] = "leaf" THEN 0 ELSE 1)
      /\ keys'[a] \in Seq(Key) /\ Len(keys'[a]) = c /\ Sorted(keys'[a])
      /\ keys'[b] \in Seq(Key) /\ Len(keys'[b]) = Len(keys[a]) - m + 1 /\ Sorted(keys'[b])
      /\ \A j \in 1 .. Len(keys'[a]) : keys'[a][j] \in span'[a]
      /\ \A j \in 1 .. Len(keys'[b]) : keys'[b][j] \in span'[b]
  BY <1>0, Halves DEF IsCut
<1>2. Len(slots[a]) = Len(keys[a]) + (IF type[a] = "leaf" THEN 0 ELSE 1)
  BY <1>0 DEF NodeOK
<1>3. Len(keys[a]) <= (IF type[a] = "leaf" THEN MaxLeaf ELSE MaxInner - 1)
  BY <1>0 DEF NodeOK
<1> HIDE DEF c, m
<1>4. m \in 2 .. Len(slots[a])
  <2>1. CASE type[a] = "leaf"
    BY <2>1, <1>0, <1>1, <1>2, SMTT(30)
  <2>2. CASE type[a] # "leaf"
    BY <2>2, <1>0, <1>1, <1>2, SMTT(30)
  <2> QED BY <2>1, <2>2
<1>5. slots'[a] = SubSeq(slots[a], 1, m - 1) /\ slots'[b] = SubSeq(slots[a], m, Len(slots[a]))
  BY DEF IsCut, m
<1>6. /\ slots'[a] \in Seq(Node \cup Value) /\ Len(slots'[a]) = m - 1
      /\ \A i \in 1 .. m - 1 : slots'[a][i] = slots[a][i]
  <2>1. \A i \in 1 .. m - 1 : slots[a][i] \in Node \cup Value
    BY <1>0, <1>4, ElementOfSeq, SMT
  <2> QED BY <2>1, <1>0, <1>4, <1>5, SubSeqProperties, SMTT(30)
<1>7. /\ slots'[b] \in Seq(Node \cup Value) /\ Len(slots'[b]) = Len(slots[a]) - m + 1
      /\ \A i \in 1 .. Len(slots'[b]) : slots'[b][i] = slots[a][m + i - 1]
  <2> DEFINE d == slots[a]
  <2>1. \A i \in m .. Len(d) : d[i] \in Node \cup Value
    BY <1>0, <1>4, ElementOfSeq, SMT
  <2>2. m \in Int /\ Len(d) \in Int /\ m <= Len(d)
    BY <1>0, <1>4, SMT
  <2> HIDE DEF d
  <2>3. /\ SubSeq(d, m, Len(d)) \in Seq(Node \cup Value)
        /\ Len(SubSeq(d, m, Len(d))) = Len(d) - m + 1
        /\ \A i \in 1 .. Len(d) - m + 1 : SubSeq(d, m, Len(d))[i] = d[m + i - 1]
    BY <2>1, <2>2, SubSeqProperties, SMT
  <2> QED BY <2>3, <1>5 DEF d
<1>8. NodeOK(a)'
  <2>1. Len(keys'[a]) <= (IF type'[a] = "leaf" THEN MaxLeaf ELSE MaxInner - 1)
    BY <1>0, <1>1, <1>3, Sizes, SMTT(30)
  <2>2. Len(slots'[a]) = Len(keys'[a]) + (IF type'[a] = "leaf" THEN 0 ELSE 1)
    BY <1>0, <1>1, <1>6
  <2> QED BY <2>1, <2>2, <1>1 DEF NodeOK
<1>9. NodeOK(b)'
  <2>1. Len(keys'[b]) <= (IF type'[b] = "leaf" THEN MaxLeaf ELSE MaxInner - 1)
    BY <1>0, <1>1, <1>3, Sizes, SMTT(30)
  <2>2. Len(slots'[b]) = Len(keys'[b]) + (IF type'[b] = "leaf" THEN 0 ELSE 1)
    <3>1. CASE type[a] = "leaf"
      BY <3>1, <1>0, <1>1, <1>2, <1>7, SMTT(30)
    <3>2. CASE type[a] # "leaf"
      BY <3>2, <1>0, <1>1, <1>2, <1>7, SMTT(30)
    <3> QED BY <3>1, <3>2
  <2> QED BY <2>1, <2>2, <1>1 DEF NodeOK
<1> QED BY <1>1, <1>6, <1>7, <1>8, <1>9 DEF c, m

\* Searches that pass through the halves, and other nodes but q, still go right.
LEMMA CutKids ==
  ASSUME TypeOK, TreeInv, NEW a, NEW b, NEW q, IsCut(a, b, q), Full(a),
         NEW n \in 1 .. used + 1, n # q, type'[n] = "inner", NEW i \in 1 .. Len(slots'[n])
  PROVE  Kid(a, b, n, i)
<1> WellOrder /\ WellOrder'
  BY Ordering
<1> DEFINE m == Moved(a)  sep == Separator(a)
<1>0. /\ a \in 1 .. used /\ NodeOK(a) /\ used \in Nat /\ b = used + 1
      /\ keys[a] \in Seq(Key) /\ Len(keys[a]) \in Nat /\ Len(slots[a]) \in Nat
      /\ span[a] \subseteq Key /\ type[a] \in {"leaf", "inner"}
  <2>1. a \in 1 .. used /\ NodeOK(a) /\ used \in Nat /\ b = used + 1
    <3>1. a \in 1 .. used /\ b = used + 1
      BY DEF IsCut
    <3>2. used \in Nat
      BY UsedNat
    <3> QED BY <3>1, <3>2 DEF TreeInv
  <2>2. /\ keys[a] \in Seq(Key) /\ Len(keys[a]) \in Nat /\ Len(slots[a]) \in Nat
        /\ span[a] \subseteq Key /\ type[a] \in {"leaf", "inner"}
    BY <2>1, NodeTypes
  <2> QED BY <2>1, <2>2
<1>1. /\ m \in 2 .. Len(keys[a]) /\ sep \in span[a] /\ sep \in Key
      /\ m - 1 = Kept(a) + (IF type[a] = "leaf" THEN 0 ELSE 1) /\ Kept(a) \in 1 .. Len(keys[a])
  BY <1>0, Halves
<1>2. Len(slots[a]) = Len(keys[a]) + (IF type[a] = "leaf" THEN 0 ELSE 1)
  BY <1>0 DEF NodeOK
<1>3. /\ Len(slots'[a]) = m - 1 /\ \A j \in 1 .. m - 1 : slots'[a][j] = slots[a][j]
      /\ Len(slots'[b]) = Len(slots[a]) - m + 1
      /\ \A j \in 1 .. Len(slots'[b]) : slots'[b][j] = slots[a][m + j - 1]
  BY CutArrays, ZenonT(40)
<1>4. ASSUME NEW x \in Key
      PROVE  /\ x <= sep \/ x > sep
             /\ ~(x <= sep /\ x > sep)
             /\ x <= sep => lowerBound(keys'[a], x) = lowerBound(keys[a], x)
                            /\ lowerBound(keys[a], x) <= m - 1
             /\ x > sep => lowerBound(keys'[b], x) = lowerBound(keys[a], x) - m + 1
                            /\ lowerBound(keys[a], x) >= m
  <2>1. x \in Nat /\ sep \in Nat
    BY <1>1, Sizes
  <2>2. (x <= sep \/ x > sep) /\ ~(x <= sep /\ x > sep)
    BY <2>1, Sides
  <2> QED BY <2>2, <1>0, HalvesFound DEF IsCut
<1>5. ASSUME NEW o \in 1 .. used, type[o] = "inner", o # q, NEW j \in 1 .. Len(slots[o])
      PROVE  /\ slots[o][j] \in 1 .. used /\ slots[o][j] # root
             /\ span'[slots[o][j]] = span[slots[o][j]]
             /\ \A x \in Key : x \in span'[slots[o][j]] <=>
                               x \in span[o] /\ lowerBound(keys[o], x) = j
  <2>1. DOMAIN slots[o] = 1 .. Len(slots[o])
    BY NodeTypes
  <2>2. slots[o][j] \in 1 .. used
    BY <2>1, <1>5 DEF TypeOK
  <2>3. slots[o][j] # a
    BY <1>5 DEF IsCut
  <2>4. span'[slots[o][j]] = span[slots[o][j]]
    BY <2>2, <2>3 DEF IsCut
  <2>5. ChildOK(o, j)
    BY <1>5 DEF TreeInv
  <2> QED BY <2>2, <2>4, <2>5 DEF ChildOK
<1>6. a # q /\ a # b /\ type'[a] = type[a] /\ type'[b] = type[a]
  BY <1>0, Grown DEF IsCut
<1> HIDE DEF m, sep
<1>7. CASE n = a
  <2>1. i \in 1 .. m - 1 /\ i \in 1 .. Len(slots[a]) /\ type[a] = "inner"
    <3>1. type[a] = "inner" /\ i \in 1 .. m - 1
      BY <1>3, <1>6, <1>7
    <3> QED BY <3>1, <1>0, <1>1, <1>2, SMTT(30)
  <2>2. slots'[a][i] = slots[a][i]
    BY <2>1, <1>3
  <2>3. ASSUME NEW x \in Key
        PROVE  x \in span'[slots'[a][i]] <=> x \in span'[a] /\ lowerBound(keys'[a], x) = i
    <3>1. x \in span'[slots'[a][i]] <=> x \in span[a] /\ lowerBound(keys[a], x) = i
      BY <2>1, <2>2, <1>0, <1>5, <1>6
    <3>2. x \in span'[a] <=> x \in span[a] /\ x <= sep
      BY DEF IsCut, sep
    <3>3. lowerBound(keys[a], x) = i => ~(lowerBound(keys[a], x) >= m)
      BY <2>1, <1>1, SMT
    <3> QED BY <3>1, <3>2, <3>3, <1>4
  <2>4. OldNode(a, b, n) = a /\ OldPlace(a, b, n, i) = i
    BY <1>6, <1>7 DEF OldNode, OldPlace
  <2> QED BY <2>1, <2>2, <2>3, <2>4, <1>0, <1>5, <1>6, <1>7 DEF Kid
<1>8. CASE n = b
  <2> DEFINE o == m + i - 1
  <2>1. type[a] = "inner" /\ i \in 1 .. Len(slots'[b])
    BY <1>6, <1>8
  <2>2. o \in m .. Len(slots[a]) /\ o \in 1 .. Len(slots[a]) /\ i = o - m + 1 /\ o \in Nat
    <3>1. m \in Nat /\ m >= 1 /\ Len(slots[a]) \in Nat
      BY <1>0, <1>1, SMTT(30)
    <3>2. Len(slots'[b]) = Len(slots[a]) - m + 1
      BY <1>3
    <3> HIDE DEF m, sep
    <3> QED BY <2>1, <3>1, <3>2, SMTT(30)
  <2>3. slots'[b][i] = slots[a][o]
    BY <2>1, <1>3
  <2> HIDE DEF o
  <2>4. ASSUME NEW x \in Key
        PROVE  x \in span'[slots'[b][i]] <=> x \in span'[b] /\ lowerBound(keys'[b], x) = i
    <3>1. x \in span'[slots'[b][i]] <=> x \in span[a] /\ lowerBound(keys[a], x) = o
      BY <2>1, <2>2, <2>3, <1>0, <1>5, <1>6, SMTT(30)
    <3>2. x \in span'[b] <=> x \in span[a] /\ x > sep
      BY DEF IsCut, sep
    <3>3. lowerBound(keys[a], x) \in Nat
      BY <1>0, LowerBound, SMT
    <3>4. lowerBound(keys[a], x) = o => ~(lowerBound(keys[a], x) <= m - 1)
      BY <2>2, <1>1, SMT
    <3>5. lowerBound(keys[a], x) = o <=> lowerBound(keys[a], x) - m + 1 = i
      BY <2>2, <3>3, <1>1, SMTT(30)
    <3> QED BY <3>1, <3>2, <3>4, <3>5, <1>4
  <2>5. OldNode(a, b, n) = a /\ OldPlace(a, b, n, i) = o
    BY <1>6, <1>8 DEF OldNode, OldPlace, o, m
  <2>6. slots[a][o] \in 1 .. used /\ slots[a][o] # root
    BY <2>1, <2>2, <1>0, <1>5, <1>6
  <2> QED BY <2>1, <2>2, <2>3, <2>4, <2>5, <2>6, <1>0, <1>8 DEF Kid
<1>9. CASE n # a /\ n # b
  <2>1. n \in 1 .. used /\ type[n] = "inner" /\ keys'[n] = keys[n] /\ slots'[n] = slots[n]
        /\ span'[n] = span[n]
    <3>1. n \in 1 .. used
      BY <1>0, <1>9, Grown
    <3>2. type'[n] = type[n] /\ span'[n] = span[n]
      BY <3>1, <1>9 DEF IsCut
    <3>3. n # q /\ type'[n] = "inner"
      OBVIOUS
    <3>4. keys'[n] = keys[n] /\ slots'[n] = slots[n]
      BY <3>1, <3>3, <1>9 DEF IsCut
    <3> QED BY <3>1, <3>2, <3>3, <3>4
  <2>2. OldNode(a, b, n) = n /\ OldPlace(a, b, n, i) = i
    BY <1>9 DEF OldNode, OldPlace
  <2>3. i \in 1 .. Len(slots[n]) /\ n # q
    BY <2>1
  <2>4. /\ slots[n][i] \in 1 .. used /\ slots[n][i] # root
        /\ \A x \in Key : x \in span'[slots[n][i]] <=> x \in span[n] /\ lowerBound(keys[n], x) = i
    BY <2>1, <2>3, <1>5
  <2> QED BY <2>1, <2>2, <2>3, <2>4 DEF Kid
<1> QED BY <1>7, <1>8, <1>9

\* Every key still has one leaf, and the same value in it.
LEMMA CutLeaves ==
  ASSUME TypeOK, TreeInv, NEW a, NEW b, NEW q, IsCut(a, b, q), Full(a)
  PROVE  /\ \A x \in Key : \E n \in 1 .. b : type'[n] = "leaf" /\ x \in span'[n]
         /\ \A x \in Key : \A n \in 1 .. b : type'[n] = "leaf" /\ x \in span'[n] =>
              Val(keys'[n], slots'[n], x) = Contents[x]
         /\ \A x \in Key : \A n \in 1 .. b : type'[n] = "leaf" /\ x \in span'[n] =>
              \A o \in 1 .. b : type'[o] = "leaf" /\ x \in span'[o] => n = o
<1> WellOrder /\ WellOrder'
  BY Ordering
<1> DEFINE sep == Separator(a)
<1>0. /\ a \in 1 .. used /\ NodeOK(a) /\ used \in Nat /\ b = used + 1 /\ a # b /\ LeafInv
      /\ type'[a] = type[a] /\ type'[b] = type[a] /\ type'[q] = "inner"
      /\ \A n \in 1 .. used : type'[n] = type[n]
      /\ \A n \in 1 .. used : n # a => span'[n] = span[n]
      /\ \A n \in 1 .. used : n # a /\ n # q => keys'[n] = keys[n] /\ slots'[n] = slots[n]
      /\ span'[a] = {x \in span[a] : x <= sep} /\ span'[b] = {x \in span[a] : x > sep}
  <2>1. a \in 1 .. used /\ b = used + 1
    BY DEF IsCut
  <2>2. used \in Nat /\ a # b
    BY <2>1, UsedNat, Grown
  <2>3. NodeOK(a) /\ LeafInv
    BY <2>1 DEF TreeInv
  <2>4. type'[a] = type[a]
    BY <2>1 DEF IsCut
  <2> QED BY <2>1, <2>2, <2>3, <2>4 DEF IsCut
<1>g. /\ \A n \in 1 .. used : n \in 1 .. b
      /\ \A n \in 1 .. b : n # b => n \in 1 .. used
      /\ b \in 1 .. b
  BY <1>0, Grown
<1>s. sep \in Nat /\ Key \subseteq Nat
  <2>1. sep \in span[a] /\ span[a] \subseteq Key
    BY <1>0, Halves, NodeTypes
  <2> QED BY <2>1, Sizes
<1> HIDE DEF sep
<1>1. ASSUME NEW x \in Key, NEW n \in 1 .. b, type'[n] = "leaf", x \in span'[n]
      PROVE  /\ OldNode(a, b, n) \in 1 .. used
             /\ type[OldNode(a, b, n)] = "leaf" /\ x \in span[OldNode(a, b, n)]
  <2>1. CASE n = b
    BY <2>1, <1>0, <1>1 DEF OldNode
  <2>2. CASE n = a
    BY <2>2, <1>0, <1>1 DEF OldNode
  <2>3. CASE n # a /\ n # b
    <3>1. n \in 1 .. used /\ type'[n] = type[n] /\ span'[n] = span[n]
      BY <2>3, <1>0, <1>g
    <3> QED BY <2>3, <3>1, <1>1 DEF OldNode
  <2> QED BY <2>1, <2>2, <2>3
<1>2. ASSUME NEW x \in Key PROVE \E n \in 1 .. b : type'[n] = "leaf" /\ x \in span'[n]
  <2>1. PICK n \in 1 .. used : type[n] = "leaf" /\ x \in span[n]
    BY <1>0 DEF LeafInv
  <2>2. CASE n # a
    BY <2>1, <2>2, <1>0, <1>g
  <2>3. CASE n = a
    <3>1. x <= sep \/ x > sep
      BY <1>s, Sides
    <3>2. x \in span'[a] \/ x \in span'[b]
      BY <2>1, <2>3, <3>1, <1>0
    <3>3. type'[a] = "leaf" /\ type'[b] = "leaf" /\ a \in 1 .. b /\ b \in 1 .. b
      BY <2>1, <2>3, <1>0, <1>g
    <3> QED BY <3>2, <3>3
  <2> QED BY <2>2, <2>3
<1>3. ASSUME NEW x \in Key, NEW n \in 1 .. b, type'[n] = "leaf", x \in span'[n],
             NEW o \in 1 .. b, type'[o] = "leaf", x \in span'[o]
      PROVE  n = o
  <2>1. OldNode(a, b, n) = OldNode(a, b, o)
    <3> DEFINE m1 == OldNode(a, b, n)  m2 == OldNode(a, b, o)
    <3>1. m1 \in 1 .. used /\ type[m1] = "leaf" /\ x \in span[m1]
      BY <1>1, <1>3
    <3>2. m2 \in 1 .. used /\ type[m2] = "leaf" /\ x \in span[m2]
      BY <1>1, <1>3
    <3> HIDE DEF m1, m2
    <3>3. m1 = m2
      BY <3>1, <3>2, <1>0 DEF LeafInv
    <3> QED BY <3>3 DEF m1, m2
  <2>2. ~(x <= sep /\ x > sep)
    BY <1>s, Sides
  <2>3. CASE n = a /\ o = b
    BY <2>2, <2>3, <1>0, <1>3
  <2>4. CASE n = b /\ o = a
    BY <2>2, <2>4, <1>0, <1>3
  <2> QED BY <2>1, <2>3, <2>4 DEF OldNode
<1>4. ASSUME NEW x \in Key, NEW n \in 1 .. b, type'[n] = "leaf", x \in span'[n]
      PROVE  Val(keys'[n], slots'[n], x) = Contents[x]
  <2>1. n # q
    BY <1>0, <1>4
  <2>2. Contents[x] = Val(keys[OldNode(a, b, n)], slots[OldNode(a, b, n)], x)
    BY <1>0, <1>1, <1>4, InLeaf
  <2>3. ~(x <= sep /\ x > sep)
    BY <1>s, Sides
  <2>4. CASE n = a \/ n = b
    <3>1. type[a] = "leaf"
      BY <2>4, <1>0, <1>4
    <3>2. Val(keys[a], slots[a], x) = IF x <= sep THEN Val(keys'[a], slots'[a], x)
                                      ELSE Val(keys'[b], slots'[b], x)
      BY <3>1, <1>0, HalvesFound DEF IsCut, sep
    <3> QED BY <2>1, <2>2, <2>3, <2>4, <3>2, <1>0, <1>4 DEF OldNode
  <2>5. CASE n # a /\ n # b
    <3>1. n \in 1 .. used /\ OldNode(a, b, n) = n
      BY <2>5, <1>g DEF OldNode
    <3> QED BY <2>1, <2>2, <2>5, <3>1, <1>0
  <2> QED BY <2>4, <2>5
<1> QED BY <1>2, <1>3, <1>4

\* The map is unchanged if every key has the same value in its leaf.
LEMMA SameContents ==
  ASSUME keys' \in [Node -> Seq(Key)], used' \in Node, LeafInv',
         \A x \in Key : \A n \in 1 .. used' :
             type'[n] = "leaf" /\ x \in span'[n] => Val(keys'[n], slots'[n], x) = Contents[x]
  PROVE  Contents' = Contents
<1>1. ASSUME NEW x \in Key PROVE Contents'[x] = Contents[x]
  <2>1. PICK n \in 1 .. used' : type'[n] = "leaf" /\ x \in span'[n]
    BY DEF LeafInv
  <2>2. LeafOf(x)' = n
    BY <2>1 DEF LeafOf, LeafInv
  <2>3. Contents'[x] = Payload(n, x)'
    BY <2>2 DEF Contents
  <2>4. n \in Node
    BY BTreeOLCAssumption, SMT DEF Node
  <2>5. DOMAIN keys'[n] = 1 .. Len(keys'[n])
    BY <2>4, LenProperties
  <2>6. Contents'[x] = Val(keys'[n], slots'[n], x)
    BY <2>3, <2>5 DEF Payload, Val, lowerBound
  <2> QED BY <2>1, <2>6
<1>2. Contents' = [z \in Key |-> Contents'[z]] /\ Contents = [z \in Key |-> Contents[z]]
  BY DEF Contents
<1> HIDE DEF Contents
<1> QED BY <1>1, <1>2

\* What a split leaves behind.
SplitDone(a, p) ==
    /\ used <= used' /\ used' \in Node
    /\ root' \in 1 .. used' /\ type' \in [Node -> {"leaf", "inner"}]
    /\ keys' \in [Node -> Seq(Key)] /\ slots' \in [Node -> Seq(Node \cup Value)]
    /\ span' \in [Node -> SUBSET Key]
    /\ \A n \in 1 .. used' : type'[n] = "inner" =>
        \A i \in 1 .. Len(slots'[n]) : slots'[n][i] \in 1 .. used'
    /\ \A n \in 1 .. used : type'[n] = type[n]
    /\ \A n \in 1 .. used : n # a /\ n # p =>
        keys'[n] = keys[n] /\ slots'[n] = slots[n] /\ span'[n] = span[n]
    /\ TreeInv' /\ Contents' = Contents

\* The children of a node are different.
LEMMA OnePlace ==
  ASSUME ParentInv, NEW n \in 1 .. used, type[n] = "inner"
  PROVE  \A i \in 1 .. Len(slots[n]) : \A j \in 1 .. Len(slots[n]) :
            slots[n][i] = slots[n][j] => i = j
<1>1. \A m \in 1 .. used : type[m] = "inner" =>
         \A i \in 1 .. Len(slots[m]) : \A j \in 1 .. Len(slots[n]) :
            slots[m][i] = slots[n][j] => m = n /\ i = j
  BY DEF ParentInv
<1> QED BY <1>1

\* The new node is inserted into the parent.
LEMMA ChildSplit ==
  ASSUME TypeOK, TreeInv, NEW t \in Thread, NEW a, NEW p, a = node[t], p = parent[t],
         a \in 1 .. used, p \in 1 .. used, a # p, type[p] = "inner", Full(a), ~Full(p),
         k[t] \in span[p], a = Child(p, k[t]), SplitChild(t)
  PROVE  SplitDone(a, p) /\ root' = root
<1> WellOrder /\ WellOrder'
  BY Ordering
<1> DEFINE s == keys[p]  d == slots[p]  j == lowerBound(s, k[t])  sep == Separator(a)
           r == InsertAt(s, j, sep)
<1>b. PICK b : b = used + 1
  OBVIOUS
<1> DEFINE e == InsertAt(d, j + 1, b)
<1>0. /\ a \in Node /\ p \in Node /\ b \in Node /\ used \in Nat /\ a # b /\ p # b
      /\ used' = b /\ root' = root /\ NoNode # p
  <2>1. a \in Node /\ p \in Node
    BY NodeTypes
  <2>2. b \in Node /\ used' = b /\ root' = root
    BY <1>b DEF SplitChild
  <2>3. used \in Nat /\ NoNode # p
    BY <2>1, BTreeOLCAssumption, UsedNat
  <2>4. a # b /\ p # b
    BY <2>3, <1>b, Grown
  <2> QED BY <2>1, <2>2, <2>3, <2>4
<1>g. /\ used <= b /\ b \in 1 .. b
      /\ \A n \in 1 .. used : n \in 1 .. b /\ n # b
      /\ \A n \in 1 .. b : n # b => n \in 1 .. used
  BY <1>0, <1>b, Grown
<1>1. /\ s \in Seq(Key) /\ Len(s) \in Nat /\ d \in Seq(Node \cup Value) /\ Sorted(s)
      /\ Len(d) = Len(s) + 1 /\ Len(s) < MaxInner - 1 /\ span[p] \subseteq Key
      /\ NodeOK(a) /\ NodeOK(p) /\ span[a] \subseteq Key
      /\ \A i \in 1 .. Len(s) : s[i] \in span[p]
  <2>1. NodeOK(a) /\ NodeOK(p) /\ MaxInner \in Nat
    BY Sizes DEF TreeInv
  <2>2. Len(s) <= MaxInner - 1 /\ Len(s) # MaxInner - 1 /\ Len(d) = Len(s) + 1
    BY <2>1 DEF NodeOK, Full
  <2>3. /\ s \in Seq(Key) /\ Len(s) \in Nat /\ d \in Seq(Node \cup Value)
        /\ span[p] \subseteq Key /\ span[a] \subseteq Key
    BY NodeTypes
  <2>4. Sorted(s) /\ \A i \in 1 .. Len(s) : s[i] \in span[p]
    BY <2>1 DEF NodeOK
  <2>5. Len(s) < MaxInner - 1
    BY <2>1, <2>2, <2>3, Room
  <2> QED BY <2>1, <2>2, <2>3, <2>4, <2>5
<1>k. k[t] \in Key
  BY <1>1
<1>2. j \in 1 .. Len(s) + 1 /\ j \in 1 .. Len(d) /\ d[j] = a
  BY <1>1, <1>k, LowerBound DEF Child
<1>3. ChildOK(p, j)
  BY <1>2 DEF TreeInv
<1>4. a # root /\ \A x \in Key : x \in span[a] <=> x \in span[p] /\ lowerBound(s, x) = j
  BY <1>2, <1>3 DEF ChildOK
<1>5. /\ sep \in span[a] /\ sep \in Key /\ sep \in span[p] /\ lowerBound(s, sep) = j
      /\ \E x \in span[a] : x > sep
  <2>1. sep \in span[a] /\ \E x \in span[a] : x > sep
    BY <1>1, Halves
  <2> QED BY <2>1, <1>1, <1>4
<1> HIDE DEF j
<1>6. \A i \in 1 .. Len(s) : s[i] # sep
  <2>1. PICK x \in span[a] : x > sep
    BY <1>5
  <2>2. lowerBound(s, x) = j /\ x \in Key
    BY <2>1, <1>1, <1>4
  <2>3. Key \subseteq Nat /\ \A i \in 1 .. Len(s) : s[i] \in Nat
    BY <1>1, KeySeq
  <2>4. (\A i \in 1 .. j - 1 : s[i] < sep) /\ (j <= Len(s) => s[j] >= x)
    BY <2>2, <1>1, <1>5, LowerBound
  <2>5. ASSUME NEW i \in 1 .. Len(s), s[i] = sep PROVE FALSE
    <3>1. i >= j
      BY <2>3, <2>4, <2>5, <1>1, <1>2, <1>5, SMTT(30)
    <3>2. s[j] >= x /\ j \in 1 .. Len(s)
      BY <3>1, <2>4, <1>1, <1>2, SMTT(30)
    <3>3. s[i] >= s[j]
      <4>1. i = j \/ j < i
        BY <3>1, <3>2, SMT, SMT
      <4>2. j < i => s[j] < s[i]
        BY <3>2, <1>1 DEF Sorted
      <4> QED BY <4>1, <4>2, <3>2, <2>3, SMT, SMT
    <3> QED BY <3>2, <3>3, <2>1, <2>2, <2>3, <2>5, <1>5, SMTT(30)
  <2> QED BY <2>5
<1>7. r \in Seq(Key) /\ IsInserted(r, s, j, sep) /\ Sorted(r)
  <2>1. r \in Seq(Key) /\ IsInserted(r, s, j, sep)
    BY <1>1, <1>2, <1>5, Inserted
  <2>2. Sorted(InsertAt(s, lowerBound(s, sep), sep))
    BY <1>1, <1>5, <1>6, InsertSorted
  <2> QED BY <2>1, <2>2, <1>5
<1>8. e \in Seq(Node \cup Value) /\ IsInserted(e, d, j + 1, b)
  <2>1. j + 1 \in 1 .. Len(d) + 1 /\ b \in Node \cup Value
    BY <1>0, <1>1, <1>2, SMTT(30)
  <2> QED BY <2>1, <1>1, Inserted
<1>9. ASSUME NEW x \in Key
      PROVE  /\ x <= sep => lowerBound(r, x) = lowerBound(s, x) /\ lowerBound(s, x) <= j
             /\ ~(x <= sep) => lowerBound(r, x) = lowerBound(s, x) + 1 /\ lowerBound(s, x) >= j
             /\ lowerBound(s, x) \in Nat
  <2>1. x \in Nat /\ sep \in Nat
    BY <1>5, Sizes
  <2>2. lowerBound(s, x) \in Nat
    BY <1>1, LowerBound, SMTT(30)
  <2>3. lowerBound(r, x) = IF x <= sep THEN lowerBound(s, x) ELSE lowerBound(s, x) + 1
    BY <1>1, <1>5, LowerBoundInserted
  <2>4. x <= sep => lowerBound(s, x) <= j
    BY <1>1, <1>5, LowerBoundMonotone
  <2>5. sep <= x => j <= lowerBound(s, x)
    BY <1>1, <1>5, LowerBoundMonotone
  <2>6. ~(x <= sep) => sep <= x
    BY <2>1, SMT
  <2> QED BY <2>2, <2>3, <2>4, <2>5, <2>6, <1>2
<1>10. /\ keys' = [HalfKeys(a, b) EXCEPT ![p] = r] /\ slots' = [HalfSlots(a, b) EXCEPT ![p] = e]
       /\ span' = HalfSpan(a, b) /\ type' = [type EXCEPT ![b] = type[a]]
  BY <1>b, <1>5 DEF SplitChild
<1> DEFINE l == SubSeq(keys[a], 1, Kept(a))  g == SubSeq(keys[a], Moved(a), Len(keys[a]))
           dl == SubSeq(slots[a], 1, Moved(a) - 1)
           dg == SubSeq(slots[a], Moved(a), Len(slots[a]))
<1> HIDE DEF s, d, r, e, sep, l, g, dl, dg
<1>11. /\ keys'[a] = l /\ keys'[b] = g /\ keys'[p] = r
       /\ \A n \in Node : n # a /\ n # b /\ n # p => keys'[n] = keys[n]
  BY <1>0, <1>10 DEF HalfKeys, TypeOK, l, g
<1>12. /\ slots'[a] = dl /\ slots'[b] = dg /\ slots'[p] = e
       /\ \A n \in Node : n # a /\ n # b /\ n # p => slots'[n] = slots[n]
  BY <1>0, <1>10 DEF HalfSlots, TypeOK, dl, dg
<1>13. /\ span'[a] = {x \in span[a] : x <= sep} /\ span'[b] = {x \in span[a] : x > sep}
       /\ \A n \in Node : n # a /\ n # b => span'[n] = span[n]
  BY <1>0, <1>10 DEF HalfSpan, TypeOK, sep
<1>14. type'[b] = type[a] /\ \A n \in Node : n # b => type'[n] = type[n]
  BY <1>0, <1>10 DEF TypeOK
<1>n. \A n \in 1 .. used : n \in Node /\ n # b
  BY <1>g, NodeTypes
<1>15. IsCut(a, b, p)
  <2>1. ASSUME NEW n \in 1 .. used, type[n] = "inner", n # p, NEW i \in 1 .. Len(slots[n])
        PROVE  slots[n][i] # a
    <3>1. d[j] = slots[p][j] /\ j \in 1 .. Len(slots[p])
      BY <1>2 DEF d
    <3>2. ParentInv
      BY DEF TreeInv
    <3>3. slots[n][i] = slots[p][j] => n = p
      BY <3>1, <3>2, <2>1 DEF ParentInv
    <3> QED BY <3>1, <3>3, <2>1, <1>2
  <2> QED BY <2>1, <1>0, <1>b, <1>n, <1>11, <1>12, <1>13, <1>14 DEF IsCut, l, g, dl, dg, sep
<1>16. /\ l \in Seq(Key) /\ g \in Seq(Key)
       /\ dl \in Seq(Node \cup Value) /\ dg \in Seq(Node \cup Value)
       /\ NodeOK(a)' /\ NodeOK(b)'
  BY <1>11, <1>12, <1>15, CutArrays
<1>17. keys' \in [Node -> Seq(Key)] /\ slots' \in [Node -> Seq(Node \cup Value)]
  <2>1. HalfKeys(a, b) \in [Node -> Seq(Key)] /\ HalfSlots(a, b) \in [Node -> Seq(Node \cup Value)]
    BY <1>0, <1>16 DEF HalfKeys, HalfSlots, TypeOK, l, g, dl, dg
  <2> QED BY <2>1, <1>0, <1>7, <1>8, <1>10
<1>18. span' \in [Node -> SUBSET Key] /\ type' \in [Node -> {"leaf", "inner"}]
  <2>1. HalfSpan(a, b) \in [Node -> SUBSET Key]
    BY <1>0, <1>1 DEF HalfSpan, TypeOK
  <2> QED BY <2>1, <1>0, <1>10 DEF TypeOK
<1>19. NodeOK(p)'
  <2>1. Len(r) = Len(s) + 1 /\ Len(e) = Len(r) + 1 /\ Len(r) <= MaxInner - 1
    BY <1>1, <1>7, <1>8, Sizes, SMTT(30) DEF IsInserted
  <2>2. ASSUME NEW i \in 1 .. Len(r) PROVE r[i] \in span[p]
    <3>1. CASE i < j
      BY <3>1, <1>1, <1>2, <1>7, SMTT(30) DEF IsInserted
    <3>2. CASE i = j
      BY <3>2, <1>5, <1>7 DEF IsInserted
    <3>3. CASE i > j
      <4>1. r[i] = s[i - 1] /\ i - 1 \in 1 .. Len(s)
        BY <3>3, <2>1, <1>1, <1>2, <1>7, SMTT(30) DEF IsInserted
      <4> QED BY <4>1, <1>1
    <3> QED BY <3>1, <3>2, <3>3, <2>1, <1>1, <1>2, SMTT(30)
  <2>3. type'[p] = "inner" /\ span'[p] = span[p]
    BY <1>0, <1>13, <1>14
  <2> QED BY <2>1, <2>2, <2>3, <1>7, <1>11, <1>12 DEF NodeOK
<1>20. ASSUME NEW n \in 1 .. b PROVE NodeOK(n)'
  <2>1. CASE n \in {a, b, p}
    BY <2>1, <1>16, <1>19
  <2>2. CASE n \notin {a, b, p}
    <3>1. n \in 1 .. used /\ n \in Node
      BY <2>2, <1>g, <1>n
    <3>2. keys'[n] = keys[n] /\ slots'[n] = slots[n] /\ span'[n] = span[n] /\ type'[n] = type[n]
      BY <3>1, <2>2, <1>11, <1>12, <1>13, <1>14
    <3> QED BY <3>1, <3>2 DEF TreeInv, NodeOK
  <2> QED BY <2>1, <2>2
\* The parent's children: b stands right of a.
<1>h. j \in Nat /\ Len(d) \in Nat /\ j <= Len(d) /\ Len(e) = Len(d) + 1
  <2>1. Len(e) = Len(d) + 1
    BY <1>8 DEF IsInserted
  <2> QED BY <2>1, <1>1, <1>2, SMTT(30)
<1>p. ASSUME NEW i \in 1 .. Len(e)
      PROVE  /\ i < j \/ i = j \/ i = j + 1 \/ i > j + 1
             /\ i <= j <=> i < j \/ i = j
             /\ i < j => i # j
             /\ i <= j => i \in 1 .. (j + 1) - 1 /\ i \in 1 .. Len(d)
             /\ i > j + 1 => i \in (j + 1) + 1 .. Len(d) + 1 /\ i - 1 \in 1 .. Len(d) /\ i - 1 # j
  BY <1>h, Places, ZenonT(30)
<1>21. ASSUME NEW i \in 1 .. Len(e)
       PROVE  /\ i <= j => e[i] = d[i] /\ i \in 1 .. Len(d)
              /\ i = j + 1 => e[i] = b
              /\ i > j + 1 => e[i] = d[i - 1] /\ i - 1 \in 1 .. Len(d) /\ i - 1 # j
  <2>1. /\ e[j + 1] = b
        /\ \A h \in 1 .. (j + 1) - 1 : e[h] = d[h]
        /\ \A h \in (j + 1) + 1 .. Len(d) + 1 : e[h] = d[h - 1]
    BY <1>8 DEF IsInserted
  <2> QED BY <2>1, <1>p
<1>22. ASSUME NEW i \in 1 .. Len(d)
       PROVE  /\ d[i] \in 1 .. used /\ ChildOK(p, i) /\ (i # j => d[i] # a)
              /\ i # j => \A x \in Key : x \in span'[d[i]] <=>
                                         x \in span[p] /\ lowerBound(s, x) = i
  <2>1. d[i] \in 1 .. used
    BY <1>1, LenProperties DEF TypeOK, d
  <2>2. ChildOK(p, i)
    BY DEF TreeInv, d
  <2>3. i # j => d[i] # a
    <3>1. ParentInv /\ j \in 1 .. Len(slots[p]) /\ slots[p][j] = a
      BY <1>2 DEF TreeInv, d
    <3>2. \A c \in 1 .. Len(slots[p]) : \A f \in 1 .. Len(slots[p]) :
              slots[p][c] = slots[p][f] => c = f
      BY <3>1, OnePlace
    <3> QED BY <3>1, <3>2 DEF d
  <2>4. i # j => span'[d[i]] = span[d[i]]
    BY <2>1, <2>3, <1>13, <1>n
  <2> QED BY <2>1, <2>2, <2>3, <2>4 DEF ChildOK, s, d
<1>w. ASSUME NEW x \in Key, NEW i \in 1 .. Len(e)
      PROVE  /\ i < j => (lowerBound(s, x) = i <=> lowerBound(r, x) = i)
             /\ i = j => (lowerBound(r, x) = i <=> lowerBound(s, x) = i /\ x <= sep)
             /\ i = j + 1 => (lowerBound(r, x) = i <=> lowerBound(s, x) = j /\ x > sep)
             /\ i > j + 1 => (lowerBound(s, x) = i - 1 <=> lowerBound(r, x) = i)
  <2> DEFINE w == lowerBound(s, x)  y == lowerBound(r, x)
  <2>1. x \in Nat /\ sep \in Nat
    BY <1>5, Sizes
  <2>2. /\ x <= sep => y = w /\ w <= j
        /\ ~(x <= sep) => y = w + 1 /\ w >= j
        /\ w \in Nat
    BY <1>9
  <2>3. i \in Nat
    BY SMT
  <2> HIDE DEF w, y
  <2>4. /\ i < j => (w = i <=> y = i)
        /\ i = j => (y = i <=> w = i /\ x <= sep)
        /\ i = j + 1 => (y = i <=> w = j /\ x > sep)
        /\ i > j + 1 => (w = i - 1 <=> y = i)
    BY <2>1, <2>2, <2>3, <1>h, SMTT(30)
  <2> QED BY <2>4 DEF w, y
<1>23. ASSUME NEW i \in 1 .. Len(e)
       PROVE  /\ e[i] \in 1 .. b /\ e[i] # root
              /\ \A x \in Key : x \in span'[e[i]] <=> x \in span[p] /\ lowerBound(r, x) = i
  <2>1. CASE i < j
    <3>1. e[i] = d[i] /\ i \in 1 .. Len(d) /\ i # j
      BY <2>1, <1>p, <1>21
    <3>2. ASSUME NEW x \in Key PROVE lowerBound(s, x) = i <=> lowerBound(r, x) = i
      BY <2>1, <1>w
    <3>3. d[i] \in 1 .. b
      BY <3>1, <1>22, <1>g
    <3> QED BY <3>1, <3>2, <3>3, <1>22 DEF ChildOK, d
  <2>2. CASE i = j
    <3>1. e[i] = a
      BY <2>2, <1>2, <1>p, <1>21
    <3>2. ASSUME NEW x \in Key
          PROVE  lowerBound(r, x) = i <=> lowerBound(s, x) = i /\ x <= sep
      BY <2>2, <1>w
    <3>3. a \in 1 .. b
      BY <1>g
    <3> QED BY <3>1, <3>2, <3>3, <2>2, <1>0, <1>4, <1>13
  <2>3. CASE i = j + 1
    <3>1. e[i] = b /\ b # root
      BY <2>3, <1>n, <1>21 DEF TypeOK
    <3>2. ASSUME NEW x \in Key
          PROVE  lowerBound(r, x) = i <=> lowerBound(s, x) = j /\ x > sep
      BY <2>3, <1>w
    <3> QED BY <3>1, <3>2, <1>g, <1>4, <1>13
  <2>4. CASE i > j + 1
    <3>1. e[i] = d[i - 1] /\ i - 1 \in 1 .. Len(d) /\ i - 1 # j
      BY <2>4, <1>21
    <3>2. ASSUME NEW x \in Key PROVE lowerBound(s, x) = i - 1 <=> lowerBound(r, x) = i
      BY <2>4, <1>w
    <3>3. d[i - 1] \in 1 .. b
      BY <3>1, <1>22, <1>g
    <3> QED BY <3>1, <3>2, <3>3, <1>22 DEF ChildOK, d
  <2> QED BY <2>1, <2>2, <2>3, <2>4, <1>p
<1>24. ASSUME NEW n \in 1 .. b, type'[n] = "inner", n # p, NEW i \in 1 .. Len(slots'[n])
       PROVE  Kid(a, b, n, i)
  BY <1>24, <1>b, <1>15, CutKids
<1>25. ASSUME NEW n \in 1 .. b, type'[n] = "inner", NEW i \in 1 .. Len(slots'[n])
       PROVE  slots'[n][i] \in 1 .. b /\ ChildOK(n, i)'
  <2>1. CASE n = p
    <3>1. slots'[n] = e /\ keys'[n] = r /\ span'[n] = span[p]
      BY <2>1, <1>0, <1>11, <1>12, <1>13
    <3>2. /\ e[i] \in 1 .. b /\ e[i] # root
          /\ \A x \in Key : x \in span'[e[i]] <=> x \in span[p] /\ lowerBound(r, x) = i
      BY <3>1, <1>23, <1>25
    <3> QED BY <3>1, <3>2, <1>0 DEF ChildOK, lowerBound
  <2>2. CASE n # p
    <3>1. Kid(a, b, n, i)
      BY <2>2, <1>24, <1>25
    <3>2. slots'[n][i] \in 1 .. b
      BY <3>1, <1>g DEF Kid
    <3> QED BY <3>1, <3>2, <1>0 DEF Kid, ChildOK, lowerBound
  <2> QED BY <2>1, <2>2
<1>26. LeafInv'
  <2>1. \A x \in Key : \E n \in 1 .. b : type'[n] = "leaf" /\ x \in span'[n]
    BY <1>15, CutLeaves, ZenonT(30)
  <2>2. \A x \in Key : \A n \in 1 .. b : type'[n] = "leaf" /\ x \in span'[n] =>
             \A o \in 1 .. b : type'[o] = "leaf" /\ x \in span'[o] => n = o
    BY <1>15, CutLeaves, ZenonT(30)
  <2> QED BY <2>1, <2>2, <1>0 DEF LeafInv
\* Where a child of n was before, if it is not b.
<1> DEFINE Place(n, i) == IF n = p THEN (IF i <= j THEN i ELSE i - 1) ELSE OldPlace(a, b, n, i)
<1>27. ASSUME NEW n \in 1 .. b, type'[n] = "inner", NEW i \in 1 .. Len(slots'[n]),
              ~(n = p /\ i = j + 1)
       PROVE  /\ slots'[n][i] = slots[OldNode(a, b, n)][Place(n, i)] /\ slots'[n][i] # b
              /\ OldNode(a, b, n) \in 1 .. used /\ type[OldNode(a, b, n)] = "inner"
              /\ Place(n, i) \in 1 .. Len(slots[OldNode(a, b, n)])
  <2>1. CASE n = p
    <3>1. OldNode(a, b, n) = p
      BY <2>1, <1>0 DEF OldNode
    <3>2. i \in 1 .. Len(e) /\ (i <= j \/ i > j + 1)
      BY <2>1, <1>12, <1>27, <1>p
    <3>3. e[i] = d[Place(n, i)] /\ Place(n, i) \in 1 .. Len(d)
      BY <2>1, <3>2, <1>2, <1>21
    <3>4. d[Place(n, i)] # b
      BY <3>3, <1>n, <1>22
    <3> QED BY <2>1, <3>1, <3>3, <3>4, <1>12 DEF d
  <2>2. CASE n # p
    BY <2>2, <1>n, <1>24, <1>27 DEF Kid
  <2> QED BY <2>1, <2>2
<1>28. ASSUME NEW n \in 1 .. b, type'[n] = "inner", NEW i \in 1 .. Len(slots'[n]),
              NEW o \in 1 .. b, type'[o] = "inner", NEW h \in 1 .. Len(slots'[o]),
              slots'[n][i] = slots'[o][h]
       PROVE  n = o /\ i = h
  <2>1. n = p /\ i = j + 1 => slots'[n][i] = b
    BY <1>12, <1>21, <1>28
  <2>2. o = p /\ h = j + 1 => slots'[o][h] = b
    BY <1>12, <1>21, <1>28
  <2>3. CASE (n = p /\ i = j + 1) \/ (o = p /\ h = j + 1)
    BY <2>1, <2>2, <2>3, <1>27, <1>28
  <2>4. CASE ~(n = p /\ i = j + 1) /\ ~(o = p /\ h = j + 1)
    <3>1. OldNode(a, b, n) = OldNode(a, b, o) /\ Place(n, i) = Place(o, h)
      <4>1. ParentInv
        BY DEF TreeInv
      <4> HIDE DEF Place
      <4> DEFINE m1 == OldNode(a, b, n)  m2 == OldNode(a, b, o)  i1 == Place(n, i)  i2 == Place(o, h)
      <4>2. /\ slots'[n][i] = slots[m1][i1] /\ m1 \in 1 .. used /\ type[m1] = "inner"
            /\ i1 \in 1 .. Len(slots[m1])
        BY <2>4, <1>27, <1>28
      <4>3. /\ slots'[o][h] = slots[m2][i2] /\ m2 \in 1 .. used /\ type[m2] = "inner"
            /\ i2 \in 1 .. Len(slots[m2])
        BY <2>4, <1>27, <1>28
      <4> HIDE DEF m1, m2, i1, i2
      <4>4. slots[m1][i1] = slots[m2][i2]
        BY <4>2, <4>3, <1>28
      <4>5. m1 = m2 /\ i1 = i2
        <5>1. \A c \in 1 .. Len(slots[m1]) : \A f \in 1 .. Len(slots[m2]) :
                  slots[m1][c] = slots[m2][f] => m1 = m2 /\ c = f
          BY <4>1, <4>2, <4>3 DEF ParentInv
        <5> QED BY <5>1, <4>2, <4>3, <4>4
      <4> QED BY <4>5 DEF m1, m2, i1, i2
    <3>2. /\ Len(slots'[a]) = Moved(a) - 1 /\ Moved(a) \in Nat
      <4>1. Len(slots'[a]) = Moved(a) - 1
        BY <1>15, CutArrays
      <4>2. Moved(a) \in 2 .. Len(keys[a])
        BY <1>1, Halves
      <4> QED BY <4>1, <4>2, Above
    <3>3. n = o
      <4>1. CASE n = a /\ o = b
        <5>1. i = Moved(a) + h - 1
          BY <4>1, <3>1, <1>0 DEF OldPlace
        <5>2. i \in 1 .. Len(slots'[a]) /\ h \in 1 .. Len(slots'[b])
          BY <4>1, <1>28
        <5> QED BY <5>1, <5>2, <3>2, Apart
      <4>2. CASE n = b /\ o = a
        <5>1. h = Moved(a) + i - 1
          BY <4>2, <3>1, <1>0 DEF OldPlace
        <5>2. h \in 1 .. Len(slots'[a]) /\ i \in 1 .. Len(slots'[b])
          BY <4>2, <1>28
        <5> QED BY <5>1, <5>2, <3>2, Apart
      <4> QED BY <4>1, <4>2, <3>1 DEF OldNode
    <3>4. i = h
      <4>1. CASE n = p
        BY <4>1, <3>1, <3>3, <2>4, <1>2, <1>28, SMTT(30)
      <4>2. CASE n # p
        BY <4>2, <3>1, <3>2, <3>3, <1>28, SMTT(30) DEF OldPlace
      <4> QED BY <4>1, <4>2
    <3> QED BY <3>3, <3>4
  <2> QED BY <2>3, <2>4
<1>29. TreeInv'
  <2>1. span'[root'] = Key
    <3>1. root \in 1 .. used /\ span[root] = Key
      BY DEF TypeOK, TreeInv
    <3> QED BY <3>1, <1>0, <1>4, <1>13, <1>n
  <2>2. ParentInv'
    BY <1>0, <1>28 DEF ParentInv
  <2> QED BY <2>1, <2>2, <1>0, <1>20, <1>25, <1>26 DEF TreeInv
<1>30. Contents' = Contents
  <2>1. \A x \in Key : \A n \in 1 .. b :
            type'[n] = "leaf" /\ x \in span'[n] => Val(keys'[n], slots'[n], x) = Contents[x]
    BY <1>15, CutLeaves, ZenonT(30)
  <2> QED BY <2>1, <1>0, <1>17, <1>26, SameContents
<1>31. used <= b /\ root \in 1 .. b
  BY <1>g DEF TypeOK
<1> QED BY <1>0, <1>11, <1>12, <1>13, <1>14, <1>17, <1>18, <1>25, <1>29, <1>30, <1>31, <1>n
           DEF SplitDone

\* The halves of the root become the children of a new root.
LEMMA RootSplit ==
  ASSUME TypeOK, TreeInv, NEW t \in Thread, NEW a, a = node[t], a = root, Full(a), makeRoot(t)
  PROVE  SplitDone(a, a)
<1> WellOrder /\ WellOrder'
  BY Ordering
<1> DEFINE sep == Separator(a)
<1>b. PICK b : b = used + 1
  OBVIOUS
<1>r. PICK r : r = b + 1
  OBVIOUS
<1>0. /\ a \in 1 .. used /\ a \in Node /\ b \in Node /\ r \in Node /\ used \in Nat
      /\ a # b /\ a # r /\ b # r /\ used' = r /\ root' = r
  <2>1. a \in 1 .. used /\ used \in Nat
    BY UsedNat DEF TypeOK
  <2>2. r = used + 2
    BY <2>1, <1>b, <1>r, SMT
  <2>3. r \in Node /\ used' = r /\ root' = r
    BY <2>2 DEF makeRoot
  <2>4. b \in Nat /\ b \in 1 .. b /\ a \in 1 .. b /\ a # b
    BY <2>1, <1>b, Grown
  <2>5. a \in 1 .. r /\ b \in 1 .. r /\ a # r /\ b # r
    BY <2>4, <1>r, Grown
  <2>6. a \in Node /\ b \in Node
    BY <2>3, <2>5, NodeNat
  <2> QED BY <2>1, <2>3, <2>4, <2>5, <2>6
<1>g. /\ b \in Nat /\ used <= b /\ b \in 1 .. b
      /\ \A n \in 1 .. used : n \in 1 .. b /\ n # b
      /\ \A n \in 1 .. b : n # b => n \in 1 .. used
  BY <1>0, <1>b, Grown
<1>q. /\ b <= r /\ r \in 1 .. r
      /\ \A n \in 1 .. b : n \in 1 .. r /\ n # r
      /\ \A n \in 1 .. r : n # r => n \in 1 .. b
  BY <1>g, <1>r, Grown
<1>1. NodeOK(a) /\ span[a] = Key
  BY <1>0 DEF TreeInv
<1>2. sep \in Key
  BY <1>0, <1>1, Halves
<1>10. /\ keys' = [HalfKeys(a, b) EXCEPT ![r] = <<sep>>]
       /\ slots' = [HalfSlots(a, b) EXCEPT ![r] = <<a, b>>]
       /\ span' = [HalfSpan(a, b) EXCEPT ![r] = Key]
       /\ type' = [type EXCEPT ![b] = type[a], ![r] = "inner"]
  <2>1. b = used + 1 /\ r = used + 2
    BY <1>0, <1>b, <1>r, SMT
  <2> QED BY <2>1 DEF makeRoot
<1> DEFINE l == SubSeq(keys[a], 1, Kept(a))  g == SubSeq(keys[a], Moved(a), Len(keys[a]))
           dl == SubSeq(slots[a], 1, Moved(a) - 1)
           dg == SubSeq(slots[a], Moved(a), Len(slots[a]))
<1> HIDE DEF sep, l, g, dl, dg
<1>11. /\ keys'[a] = l /\ keys'[b] = g /\ keys'[r] = <<sep>>
       /\ \A n \in Node : n # a /\ n # b /\ n # r => keys'[n] = keys[n]
  BY <1>0, <1>10 DEF HalfKeys, TypeOK, l, g
<1>12. /\ slots'[a] = dl /\ slots'[b] = dg /\ slots'[r] = <<a, b>>
       /\ \A n \in Node : n # a /\ n # b /\ n # r => slots'[n] = slots[n]
  BY <1>0, <1>10 DEF HalfSlots, TypeOK, dl, dg
<1>13. /\ span'[a] = {x \in span[a] : x <= sep} /\ span'[b] = {x \in span[a] : x > sep}
       /\ span'[r] = Key
       /\ \A n \in Node : n # a /\ n # b /\ n # r => span'[n] = span[n]
  BY <1>0, <1>10 DEF HalfSpan, TypeOK, sep
<1>14. /\ type'[b] = type[a] /\ type'[r] = "inner"
       /\ \A n \in Node : n # b /\ n # r => type'[n] = type[n]
  BY <1>0, <1>10 DEF TypeOK
<1>n. \A n \in 1 .. used : n \in Node /\ n # b /\ n # r
  BY <1>g, <1>q, NodeTypes
<1>15. IsCut(a, b, r)
  <2>1. ASSUME NEW n \in 1 .. used, type[n] = "inner", NEW i \in 1 .. Len(slots[n])
        PROVE  slots[n][i] # a
    BY <2>1 DEF TreeInv, ChildOK
  <2> QED BY <2>1, <1>0, <1>b, <1>n, <1>11, <1>12, <1>13, <1>14 DEF IsCut, l, g, dl, dg, sep
<1>16. /\ l \in Seq(Key) /\ g \in Seq(Key)
       /\ dl \in Seq(Node \cup Value) /\ dg \in Seq(Node \cup Value)
       /\ NodeOK(a)' /\ NodeOK(b)'
  BY <1>11, <1>12, <1>15, CutArrays
<1>k. <<sep>> \in Seq(Key) /\ Len(<<sep>>) = 1 /\ <<sep>>[1] = sep
  BY <1>2, SMT
<1>d. /\ <<a, b>> \in Seq(Node \cup Value) /\ Len(<<a, b>>) = 2
      /\ <<a, b>>[1] = a /\ <<a, b>>[2] = b
  BY <1>0, SMT
<1>17. keys' \in [Node -> Seq(Key)] /\ slots' \in [Node -> Seq(Node \cup Value)]
  <2>1. HalfKeys(a, b) \in [Node -> Seq(Key)] /\ HalfSlots(a, b) \in [Node -> Seq(Node \cup Value)]
    BY <1>0, <1>16 DEF HalfKeys, HalfSlots, TypeOK, l, g, dl, dg
  <2> QED BY <2>1, <1>0, <1>k, <1>d, <1>10
<1>18. span' \in [Node -> SUBSET Key] /\ type' \in [Node -> {"leaf", "inner"}]
  <2>1. HalfSpan(a, b) \in [Node -> SUBSET Key]
    BY <1>0, <1>1 DEF HalfSpan, TypeOK
  <2>2. type[a] \in {"leaf", "inner"}
    BY <1>0 DEF TypeOK
  <2> QED BY <2>1, <2>2, <1>0, <1>10 DEF TypeOK
<1>u. \A n \in 1 .. r : n \in 1 .. used \/ n = b \/ n = r
  BY <1>g, <1>q
<1>19. NodeOK(r)'
  <2>1. Sorted(<<sep>>) /\ \A i \in 1 .. 1 : <<sep>>[i] \in Key
    BY <1>2, <1>k, SMT DEF Sorted
  <2>2. 1 <= MaxInner - 1
    BY Sizes, SMT
  <2>3. /\ keys'[r] = <<sep>> /\ type'[r] = "inner" /\ span'[r] = Key
        /\ Len(slots'[r]) = Len(keys'[r]) + 1 /\ Len(keys'[r]) = 1
    BY <1>k, <1>d, <1>11, <1>12, <1>13, <1>14, SMT
  <2> QED BY <2>1, <2>2, <2>3 DEF NodeOK
<1>20. ASSUME NEW n \in 1 .. r PROVE NodeOK(n)'
  <2>1. CASE n \in {a, b, r}
    BY <2>1, <1>16, <1>19
  <2>2. CASE n \notin {a, b, r}
    <3>1. n \in 1 .. used /\ n \in Node
      BY <2>2, <1>u, <1>n
    <3>2. keys'[n] = keys[n] /\ slots'[n] = slots[n] /\ span'[n] = span[n] /\ type'[n] = type[n]
      BY <3>1, <2>2, <1>11, <1>12, <1>13, <1>14
    <3> QED BY <3>1, <3>2 DEF TreeInv, NodeOK
  <2> QED BY <2>1, <2>2
<1>21. ASSUME NEW x \in Key
       PROVE  (lowerBound(<<sep>>, x) = 1 <=> x <= sep) /\ (lowerBound(<<sep>>, x) = 2 <=> x > sep)
  <2>1. x \in Nat /\ sep \in Nat
    BY <1>2, Sizes
  <2>2. CASE x <= sep
    <3>1. 1 \in 1 .. Len(<<sep>>) + 1 /\ (\A j \in 1 .. 1 - 1 : <<sep>>[j] < x) /\ <<sep>>[1] >= x
      BY <2>1, <2>2, <1>k, SMT
    <3>2. lowerBound(<<sep>>, x) = 1
      BY <3>1, <1>k, LowerBoundIs
    <3> QED BY <3>2, <2>1, <2>2, SMT
  <2>3. CASE ~(x <= sep)
    <3>1. 2 \in 1 .. Len(<<sep>>) + 1 /\ (\A j \in 1 .. 2 - 1 : <<sep>>[j] < x) /\ ~(2 <= Len(<<sep>>))
      BY <2>1, <2>3, <1>k, SMT
    <3>2. lowerBound(<<sep>>, x) = 2
      BY <3>1, <1>k, LowerBoundIs
    <3> QED BY <3>2, <2>1, <2>3, SMT
  <2> QED BY <2>2, <2>3
<1>24. ASSUME NEW n \in 1 .. r, type'[n] = "inner", n # r, NEW i \in 1 .. Len(slots'[n])
       PROVE  Kid(a, b, n, i)
  <2>1. n \in 1 .. used + 1
    BY <1>24, <1>b, <1>q
  <2> QED BY <2>1, <1>24, <1>15, CutKids
<1>25. ASSUME NEW n \in 1 .. r, type'[n] = "inner", NEW i \in 1 .. Len(slots'[n])
       PROVE  slots'[n][i] \in 1 .. r /\ ChildOK(n, i)'
  <2>1. CASE n = r /\ i = 1
    <3>1. slots'[n][i] = a /\ keys'[n] = <<sep>> /\ span'[n] = Key
      BY <2>1, <1>d, <1>11, <1>12, <1>13
    <3>2. a \in 1 .. r /\ a # root'
      BY <1>0, <1>g, <1>q
    <3>3. \A x \in Key : x \in span'[a] <=> lowerBound(<<sep>>, x) = 1
      BY <1>1, <1>13, <1>21
    <3> QED BY <2>1, <3>1, <3>2, <3>3 DEF ChildOK, lowerBound
  <2>2. CASE n = r /\ i = 2
    <3>1. slots'[n][i] = b /\ keys'[n] = <<sep>> /\ span'[n] = Key
      BY <2>2, <1>d, <1>11, <1>12, <1>13
    <3>2. b \in 1 .. r /\ b # root'
      BY <1>0, <1>g, <1>q
    <3>3. \A x \in Key : x \in span'[b] <=> lowerBound(<<sep>>, x) = 2
      BY <1>1, <1>13, <1>21
    <3> QED BY <2>2, <3>1, <3>2, <3>3 DEF ChildOK, lowerBound
  <2>3. CASE n # r
    <3>1. Kid(a, b, n, i)
      BY <2>3, <1>24, <1>25
    <3>2. slots'[n][i] \in 1 .. r /\ slots'[n][i] # root'
      BY <3>1, <1>0, <1>g, <1>q, <1>n DEF Kid
    <3> QED BY <3>1, <3>2 DEF Kid, ChildOK, lowerBound
  <2>4. ASSUME n = r PROVE i = 1 \/ i = 2
    <3>1. i \in 1 .. 2
      BY <2>4, <1>d, <1>12
    <3> QED BY <3>1, SMT
  <2> QED BY <2>1, <2>2, <2>3, <2>4
<1>l. /\ \A x \in Key : \E n \in 1 .. b : type'[n] = "leaf" /\ x \in span'[n]
      /\ \A x \in Key : \A n \in 1 .. b : type'[n] = "leaf" /\ x \in span'[n] =>
           Val(keys'[n], slots'[n], x) = Contents[x]
      /\ \A x \in Key : \A n \in 1 .. b : type'[n] = "leaf" /\ x \in span'[n] =>
           \A o \in 1 .. b : type'[o] = "leaf" /\ x \in span'[o] => n = o
      /\ \A n \in 1 .. r : type'[n] = "leaf" => n \in 1 .. b
      /\ \A n \in 1 .. b : n \in 1 .. r
  <2>1. \A n \in 1 .. r : type'[n] = "leaf" => n \in 1 .. b
    BY <1>0, <1>14, <1>q
  <2>2. \A n \in 1 .. b : n \in 1 .. r
    BY <1>q
  <2>4. \A x \in Key : \E n \in 1 .. b : type'[n] = "leaf" /\ x \in span'[n]
    BY <1>15, CutLeaves, ZenonT(30)
  <2>5. \A x \in Key : \A n \in 1 .. b : type'[n] = "leaf" /\ x \in span'[n] =>
           Val(keys'[n], slots'[n], x) = Contents[x]
    BY <1>15, CutLeaves, ZenonT(30)
  <2>6. \A x \in Key : \A n \in 1 .. b : type'[n] = "leaf" /\ x \in span'[n] =>
           \A o \in 1 .. b : type'[o] = "leaf" /\ x \in span'[o] => n = o
    BY <1>15, CutLeaves, ZenonT(30)
  <2> QED BY <2>1, <2>2, <2>4, <2>5, <2>6
<1>26. LeafInv'
  <2>1. ASSUME NEW x \in Key PROVE \E n \in 1 .. r : type'[n] = "leaf" /\ x \in span'[n]
    BY <1>l
  <2>2. ASSUME NEW x \in Key, NEW m \in 1 .. r, NEW n \in 1 .. r,
               type'[m] = "leaf", x \in span'[m], type'[n] = "leaf", x \in span'[n]
        PROVE  m = n
    <3>1. m \in 1 .. b /\ n \in 1 .. b
      BY <2>2, <1>l
    <3>2. \A o \in 1 .. b : type'[o] = "leaf" /\ x \in span'[o] => m = o
      BY <2>2, <3>1, <1>l
    <3> QED BY <2>2, <3>1, <3>2
  <2> QED BY <2>1, <2>2, <1>0 DEF LeafInv
<1>28. ASSUME NEW n \in 1 .. r, type'[n] = "inner", NEW i \in 1 .. Len(slots'[n]),
              NEW o \in 1 .. r, type'[o] = "inner", NEW h \in 1 .. Len(slots'[o]),
              slots'[n][i] = slots'[o][h]
       PROVE  n = o /\ i = h
  <2>1. ASSUME NEW m \in 1 .. r, type'[m] = "inner", m # r, NEW j \in 1 .. Len(slots'[m])
        PROVE  /\ Kid(a, b, m, j) /\ slots'[m][j] # a /\ slots'[m][j] # b
    <3>1. Kid(a, b, m, j) /\ slots'[m][j] # root /\ slots'[m][j] \in 1 .. used
      BY <2>1, <1>24 DEF Kid
    <3> QED BY <3>1, <1>0, <1>n
  <2>2. \A j \in 1 .. Len(slots'[r]) : (j = 1 /\ slots'[r][j] = a) \/ (j = 2 /\ slots'[r][j] = b)
    <3>1. slots'[r] = <<a, b>>
      BY <1>12
    <3>2. \A j \in 1 .. 2 : j = 1 \/ j = 2
      BY SMT, SMT
    <3> QED BY <3>1, <3>2, <1>d
  <2>3. CASE n = r \/ o = r
    <3>1. CASE n = r /\ o # r
      BY <2>1, <2>2, <3>1, <1>28
    <3>2. CASE n # r /\ o = r
      BY <2>1, <2>2, <3>2, <1>28
    <3>3. CASE n = r /\ o = r
      <4>1. (i = 1 /\ slots'[r][i] = a) \/ (i = 2 /\ slots'[r][i] = b)
        BY <2>2, <3>3, <1>28
      <4>2. (h = 1 /\ slots'[r][h] = a) \/ (h = 2 /\ slots'[r][h] = b)
        BY <2>2, <3>3, <1>28
      <4> QED BY <4>1, <4>2, <3>3, <1>0, <1>28
    <3> QED BY <3>1, <3>2, <3>3, <2>3
  <2>4. CASE n # r /\ o # r
    <3> DEFINE m1 == OldNode(a, b, n)  m2 == OldNode(a, b, o)
               i1 == OldPlace(a, b, n, i)  i2 == OldPlace(a, b, o, h)
    <3>1. /\ slots'[n][i] = slots[m1][i1] /\ m1 \in 1 .. used /\ type[m1] = "inner"
          /\ i1 \in 1 .. Len(slots[m1])
      BY <2>1, <2>4, <1>28 DEF Kid
    <3>2. /\ slots'[o][h] = slots[m2][i2] /\ m2 \in 1 .. used /\ type[m2] = "inner"
          /\ i2 \in 1 .. Len(slots[m2])
      BY <2>1, <2>4, <1>28 DEF Kid
    <3>3. ParentInv
      BY DEF TreeInv
    <3> HIDE DEF m1, m2, i1, i2
    <3>4. slots[m1][i1] = slots[m2][i2]
      BY <3>1, <3>2, <1>28
    <3>5. m1 = m2 /\ i1 = i2
      <4>1. \A i3 \in 1 .. Len(slots[m1]) : \A j3 \in 1 .. Len(slots[m2]) :
                slots[m1][i3] = slots[m2][j3] => m1 = m2 /\ i3 = j3
        BY <3>1, <3>2, <3>3 DEF ParentInv
      <4> QED BY <4>1, <3>1, <3>2, <3>4
    <3>6. Len(slots'[a]) = Moved(a) - 1 /\ Moved(a) \in Nat
      <4>1. Len(slots'[a]) = Moved(a) - 1
        BY <1>15, CutArrays
      <4>2. Moved(a) \in 2 .. Len(keys[a])
        BY <1>0, <1>1, Halves
      <4> QED BY <4>1, <4>2, Above
    <3>7. n = o
      <4>1. CASE n = a /\ o = b
        <5>1. i = Moved(a) + h - 1
          BY <4>1, <3>5, <1>0 DEF OldPlace, i1, i2
        <5>2. i \in 1 .. Len(slots'[a]) /\ h \in 1 .. Len(slots'[b])
          BY <4>1, <1>28
        <5> QED BY <5>1, <5>2, <3>6, Apart
      <4>2. CASE n = b /\ o = a
        <5>1. h = Moved(a) + i - 1
          BY <4>2, <3>5, <1>0 DEF OldPlace, i1, i2
        <5>2. h \in 1 .. Len(slots'[a]) /\ i \in 1 .. Len(slots'[b])
          BY <4>2, <1>28
        <5> QED BY <5>1, <5>2, <3>6, Apart
      <4> QED BY <4>1, <4>2, <3>5 DEF OldNode, m1, m2
    <3>8. i = h
      BY <3>5, <3>6, <3>7, <1>28, SMTT(30) DEF OldPlace, i1, i2
    <3> QED BY <3>7, <3>8
  <2> QED BY <2>3, <2>4
<1>29. TreeInv'
  <2>1. span'[root'] = Key
    BY <1>0, <1>13
  <2>2. ParentInv'
    <3>1. ParentInv' <=>
            \A m, n \in 1 .. r : type'[m] = "inner" /\ type'[n] = "inner" =>
                \A i \in 1 .. Len(slots'[m]) : \A c \in 1 .. Len(slots'[n]) :
                    slots'[m][i] = slots'[n][c] => m = n /\ i = c
      BY <1>0 DEF ParentInv
    <3> QED BY <3>1, <1>28
  <2> QED BY <2>1, <2>2, <1>0, <1>20, <1>25, <1>26 DEF TreeInv
<1>30. Contents' = Contents
  <2>1. \A x \in Key : \A n \in 1 .. r :
            type'[n] = "leaf" /\ x \in span'[n] => Val(keys'[n], slots'[n], x) = Contents[x]
    BY <1>l
  <2> QED BY <2>1, <1>0, <1>17, <1>26, SameContents
<1>31. used <= r /\ r \in 1 .. r
  BY <1>0, <1>b, <1>r, <1>q, SMT
<1> QED BY <1>0, <1>11, <1>12, <1>13, <1>14, <1>17, <1>18, <1>25, <1>29, <1>30, <1>31, <1>n
           DEF SplitDone

-----------------------------------------------------------------------------
\* The versions t has read are still those of its node and its parent.
NodeSame(t) == ver[node[t]] = versionNode[t]
ParentSame(t) == ver[parent[t]] = versionParent[t]

\* Where a thread is, by its pc.
PathInv(t) ==
    /\ pc[t] \in {"idle", "root"} <=> node[t] = NoNode
    /\ pc[t] \in {"idle", "root", "isroot"} => parent[t] = NoNode
    /\ pc[t] \in {"down", "confirm", "lockparent", "unlockparent"} => parent[t] # NoNode
    /\ parent[t] # NoNode =>
        /\ type[parent[t]] = "inner"
        /\ versionParent[t] % 2 = 0 /\ versionParent[t] <= ver[parent[t]]
    /\ pc[t] \in {"isroot", "visit", "up", "lockparent", "locknode", "lockleaf", "read",
                  "recheck", "return"} =>
        versionNode[t] % 2 = 0 /\ versionNode[t] <= ver[node[t]]
    /\ pc[t] = "up" => type[node[t]] = "inner"
    /\ pc[t] \in {"lockleaf", "write", "unlock", "giveup", "read", "recheck", "return"} =>
        type[node[t]] = "leaf"
    /\ pc[t] \in {"lockleaf", "write", "unlock", "giveup", "lockparent", "locknode", "split",
                  "unlocknode", "unlockparent"} => op[t] = "insert"
    /\ pc[t] \in {"read", "recheck", "return"} => op[t] = "lookup"
    /\ pc[t] # "idle" /\ op[t] = "insert" => v[t] \in Value
    /\ pc[t] \in {"split", "unlocknode"} => node[t] # parent[t]

\* A thread's node is the one for its key as long as the versions are the same,
\* or while it holds the parent.
RouteInv(t) ==
    /\ parent[t] # NoNode /\ (ParentSame(t) \/ pc[t] \in {"locknode", "split"}) =>
        /\ k[t] \in span[parent[t]]
        /\ pc[t] # "down" => node[t] = Child(parent[t], k[t])
    /\ /\ parent[t] = NoNode
       /\ \/ pc[t] \in {"visit", "up", "locknode", "lockleaf", "read", "recheck"} /\ NodeSame(t)
          \/ pc[t] \in {"write", "split"}
       => node[t] = root
    /\ pc[t] = "return" /\ NodeSame(t) => k[t] \in span[node[t]]

\* The same for what was found in the node: whether it is full, and a payload.
FoundInv(t) ==
    /\ parent[t] # NoNode /\ op[t] = "insert" /\ (ParentSame(t) \/ pc[t] \in {"locknode", "split"}) =>
        ~Full(parent[t])
    /\ pc[t] = "up" /\ op[t] = "insert" /\ NodeSame(t) => ~Full(node[t])
    /\ pc[t] \in {"lockparent", "locknode"} /\ NodeSame(t) => Full(node[t])
    /\ pc[t] = "split" => Full(node[t])
    /\ pc[t] = "lockleaf" /\ NodeSame(t) => ~Full(node[t])
    /\ pc[t] = "write" => ~Full(node[t])
    /\ pc[t] \in {"recheck", "return"} /\ NodeSame(t) => v[t] = Payload(node[t], k[t])

\* A lookup may answer with the present value of its key.
AskInv(t) ==
    /\ pc[t] = "idle" \/ op[t] = "insert" => asked[t] = {}
    /\ pc[t] # "idle" /\ op[t] = "lookup" => <<k[t], Contents[k[t]]>> \in asked[t]

ThreadInv(t) == PathInv(t) /\ RouteInv(t) /\ FoundInv(t) /\ AskInv(t)

\* The map has values for keys.
MapInv == Contents \in [Key -> Value \cup {Absent}]

IInv == TypeOK /\ LocksHeld /\ TreeInv /\ MapInv /\ \A t \in Thread : ThreadInv(t)

-----------------------------------------------------------------------------
(* What a step of one thread leaves to the others.                         *)

SameNode(n) ==
    keys'[n] = keys[n] /\ slots'[n] = slots[n] /\ span'[n] = span[n] /\ type'[n] = type[n]

SameThread(u) ==
    /\ pc'[u] = pc[u] /\ op'[u] = op[u] /\ k'[u] = k[u] /\ v'[u] = v[u]
    /\ node'[u] = node[u] /\ versionNode'[u] = versionNode[u]
    /\ parent'[u] = parent[u] /\ versionParent'[u] = versionParent[u]

\* A step of t changes no thread but t and no nodes but those it holds.
Frame(t) ==
    /\ used <= used' /\ used' \in Nat
    /\ \A n \in 1 .. used : type'[n] = type[n]
    /\ \A n \in 1 .. used : ver'[n] \in Nat /\ ver[n] <= ver'[n]
    /\ \A n \in 1 .. used : n \notin Holds(t) => SameNode(n)
    /\ root' # root => root \in Holds(t)
    /\ \A u \in Thread : u # t => SameThread(u)

\* The versions of the allocated nodes are numbers.
LEMMA Still ==
  ASSUME TypeOK
  PROVE  /\ used \in Nat /\ used <= used
         /\ \A m \in 1 .. used : m \in Node /\ ver[m] \in Nat /\ ver[m] <= ver[m]
<1>1. used \in Node
  BY DEF TypeOK
<1>2. \A m \in 1 .. used : m \in Node /\ ver[m] \in Nat
  BY NodeTypes
<1>3. \A m \in 1 .. used : ver[m] <= ver[m]
  BY <1>2, SMT
<1> QED BY <1>1, <1>2, <1>3, NodeNat

\* What a thread has found stays true while neither the tree nor its path changes.
LEMMA Views ==
  ASSUME NEW t \in Thread, node' = node, parent' = parent, k' = k,
         keys' = keys, slots' = slots, type' = type
  PROVE  /\ Child(parent[t], k[t])' = Child(parent[t], k[t])
         /\ Full(parent[t])' = Full(parent[t]) /\ Full(node[t])' = Full(node[t])
         /\ Payload(node[t], k[t])' = Payload(node[t], k[t])
<1>1. Child(parent[t], k[t])' = Child(parent[t], k[t])
  BY DEF Child, lowerBound
<1>2. Full(parent[t])' = Full(parent[t]) /\ Full(node[t])' = Full(node[t])
  BY DEF Full
<1>3. Payload(node[t], k[t])' = Payload(node[t], k[t])
  BY SMT DEF Payload, lowerBound
<1> QED BY <1>1, <1>2, <1>3

\* The node and the parent of a thread are nodes.
LEMMA OnPath ==
  ASSUME TypeOK, NEW u \in Thread
  PROVE  /\ node[u] # NoNode => node[u] \in 1 .. used /\ node[u] \in Node /\ ver[node[u]] \in Nat
         /\ parent[u] # NoNode => parent[u] \in 1 .. used /\ parent[u] \in Node /\ ver[parent[u]] \in Nat
         /\ versionNode[u] \in Nat /\ versionParent[u] \in Nat
<1>1. /\ node[u] # NoNode => node[u] \in 1 .. used
      /\ parent[u] # NoNode => parent[u] \in 1 .. used
      /\ versionNode[u] \in Nat /\ versionParent[u] \in Nat
  BY DEF TypeOK
<1>2. \A n \in 1 .. used : n \in Node /\ ver[n] \in Nat
  BY NodeTypes
<1> QED BY <1>1, <1>2

\* NoNode is none of the nodes.
LEMMA Somewhere ==
  ASSUME TypeOK, NEW n \in 1 .. used
  PROVE  n # NoNode
BY NodeTypes, BTreeOLCAssumption

\* A node whose version is still an unlocked one that was read before did not
\* change: nobody else holds it.
LEMMA NotHeld ==
  ASSUME TypeOK, LocksHeld, NEW t \in Thread, Frame(t),
         NEW n \in 1 .. used, NEW w \in Nat, w % 2 = 0, w <= ver[n], ver'[n] = w
  PROVE  ver[n] = w /\ n \notin Holds(t) /\ SameNode(n)
<1>1. ver[n] = w /\ n \in Node
  BY NodeTypes, SMT DEF Frame
<1>2. n \notin Holds(t)
  BY <1>1, SMT DEF LocksHeld, isLocked
<1> QED BY <1>1, <1>2 DEF Frame

\* What a thread holds no other thread changes.
LEMMA HeldSame ==
  ASSUME TypeOK, LocksHeld, NEW t \in Thread, NEW u \in Thread, u # t, Frame(t),
         NEW n \in 1 .. used, n \in Holds(u)
  PROVE  n \notin Holds(t) /\ SameNode(n)
<1>1. n \notin Holds(t)
  BY DEF LocksHeld
<1> QED BY <1>1 DEF Frame

\* Versions are compared across a step.
LEMMA Leq ==
  ASSUME NEW x \in Nat, NEW y \in Nat, NEW z \in Nat, x <= y, y <= z
  PROVE  x <= z
BY SMT

\* A step of one thread keeps what the other threads rely on.
LEMMA OtherThread ==
  ASSUME TypeOK, LocksHeld, NEW t \in Thread, NEW u \in Thread, u # t, Frame(t),
         PathInv(u), RouteInv(u), FoundInv(u)
  PROVE  PathInv(u)' /\ RouteInv(u)' /\ FoundInv(u)'
<1> DEFINE n == node[u]  p == parent[u]
<1>1. SameThread(u)
  BY DEF Frame
<1>2. /\ n # NoNode => n \in 1 .. used /\ ver[n] \in Nat
      /\ p # NoNode => p \in 1 .. used /\ ver[p] \in Nat
      /\ versionNode[u] \in Nat /\ versionParent[u] \in Nat
  BY OnPath
<1>3. \A m \in 1 .. used : type'[m] = type[m] /\ ver'[m] \in Nat /\ ver[m] <= ver'[m]
  BY DEF Frame
<1>4. PathInv(u)'
  <2>3. ASSUME p # NoNode
        PROVE  type'[p] = "inner" /\ versionParent[u] % 2 = 0 /\ versionParent[u] <= ver'[p]
    <3>1. type[p] = "inner" /\ versionParent[u] % 2 = 0 /\ versionParent[u] <= ver[p]
      BY <2>3 DEF PathInv
    <3>2. type'[p] = type[p] /\ ver[p] <= ver'[p] /\ ver[p] \in Nat /\ ver'[p] \in Nat
      BY <1>2, <1>3, <2>3
    <3>3. versionParent[u] <= ver'[p]
      BY <1>2, <3>1, <3>2, Leq
    <3> QED BY <3>1, <3>2, <3>3
  <2>4. ASSUME pc[u] \in {"isroot", "visit", "up", "lockparent", "locknode", "lockleaf", "read",
                  "recheck", "return"}
        PROVE  versionNode[u] % 2 = 0 /\ versionNode[u] <= ver'[n]
    <3>1. versionNode[u] % 2 = 0 /\ versionNode[u] <= ver[n] /\ n # NoNode
      BY <2>4 DEF PathInv
    <3>2. ver[n] <= ver'[n] /\ ver[n] \in Nat /\ ver'[n] \in Nat
      BY <1>2, <1>3, <3>1
    <3>3. versionNode[u] <= ver'[n]
      BY <1>2, <3>1, <3>2, Leq
    <3> QED BY <3>1, <3>3
  <2>5. ASSUME pc[u] \notin {"idle", "root"} PROVE type'[n] = type[n]
    <3>1. n # NoNode
      BY <2>5 DEF PathInv
    <3> QED BY <1>2, <1>3, <3>1
  <2> QED BY <1>1, <2>3, <2>4, <2>5, ZenonT(40) DEF SameThread, PathInv
<1>5. ASSUME p # NoNode, ParentSame(u)' \/ pc[u] \in {"locknode", "split"}
      PROVE  /\ SameNode(p) /\ (ParentSame(u) \/ pc[u] \in {"locknode", "split"})
             /\ k[u] \in span[p] /\ (pc[u] # "down" => n = Child(p, k[u]))
             /\ (op[u] = "insert" => ~Full(p))
  <2>1. CASE pc[u] \in {"locknode", "split"}
    <3>1. p \in Holds(u)
      BY <2>1, <1>5 DEF Holds
    <3> QED BY <2>1, <3>1, <1>2, <1>5, HeldSame DEF RouteInv, FoundInv
  <2>2. CASE ParentSame(u)'
    <3>1. ver'[p] = versionParent[u]
      BY <2>2, <1>1 DEF ParentSame, SameThread
    <3>2. versionParent[u] % 2 = 0 /\ versionParent[u] <= ver[p]
      BY <1>5 DEF PathInv
    <3>3. ver[p] = versionParent[u] /\ SameNode(p)
      BY <3>1, <3>2, <1>2, <1>5, NotHeld
    <3> QED BY <3>3, <1>5 DEF ParentSame, RouteInv, FoundInv
  <2> QED BY <2>1, <2>2, <1>5
<1>6. ASSUME NodeSame(u)', pc[u] \in {"isroot", "visit", "up", "lockparent", "locknode", "lockleaf", "read",
                  "recheck", "return"}
      PROVE  SameNode(n) /\ NodeSame(u) /\ n \notin Holds(t) /\ n \in 1 .. used
  <2>1. ver'[n] = versionNode[u]
    BY <1>1, <1>6 DEF NodeSame, SameThread
  <2>2. versionNode[u] % 2 = 0 /\ versionNode[u] <= ver[n] /\ n # NoNode
    BY <1>6 DEF PathInv
  <2> QED BY <2>1, <2>2, <1>2, NotHeld DEF NodeSame
<1>7. ASSUME pc[u] \in {"write", "split"}
      PROVE  SameNode(n) /\ n \notin Holds(t) /\ n \in 1 .. used
  <2>1. n # NoNode
    BY <1>7 DEF PathInv
  <2>2. n \in Holds(u)
    BY <2>1, <1>7 DEF Holds
  <2> QED BY <2>1, <2>2, <1>2, HeldSame
<1>8. RouteInv(u)'
  <2>1. ASSUME parent'[u] # NoNode, ParentSame(u)' \/ pc'[u] \in {"locknode", "split"}
        PROVE  /\ k'[u] \in span'[parent'[u]]
               /\ pc'[u] # "down" => node'[u] = Child(parent[u], k[u])'
    <3>1. parent'[u] = p /\ k'[u] = k[u] /\ node'[u] = n /\ pc'[u] = pc[u]
      BY <1>1 DEF SameThread
    <3>2. /\ SameNode(p) /\ k[u] \in span[p] /\ (pc[u] # "down" => n = Child(p, k[u]))
      BY <3>1, <2>1, <1>5
    <3> QED BY <3>1, <3>2 DEF SameNode, Child, lowerBound
  <2>2. ASSUME parent'[u] = NoNode,
               \/ pc'[u] \in {"visit", "up", "locknode", "lockleaf", "read", "recheck"} /\ NodeSame(u)'
               \/ pc'[u] \in {"write", "split"}
        PROVE  node'[u] = root'
    <3>1. parent[u] = NoNode /\ node'[u] = n /\ pc'[u] = pc[u]
      BY <1>1, <2>2 DEF SameThread
    <3>2. n \notin Holds(t) /\ n = root
      BY <3>1, <2>2, <1>6, <1>7 DEF RouteInv
    <3> QED BY <3>1, <3>2 DEF Frame
  <2>3. ASSUME pc'[u] = "return", NodeSame(u)' PROVE k'[u] \in span'[node'[u]]
    <3>1. k'[u] = k[u] /\ node'[u] = n /\ pc'[u] = pc[u]
      BY <1>1 DEF SameThread
    <3> QED BY <3>1, <2>3, <1>6 DEF RouteInv, SameNode
  <2> QED BY <2>1, <2>2, <2>3 DEF RouteInv
<1>9. ASSUME NEW m, SameNode(m) PROVE Full(m)' <=> Full(m)
  BY <1>9 DEF Full, SameNode
<1>10. FoundInv(u)'
  <2>1. /\ parent'[u] = p /\ k'[u] = k[u] /\ node'[u] = n /\ pc'[u] = pc[u] /\ op'[u] = op[u]
        /\ v'[u] = v[u]
    BY <1>1 DEF SameThread
  <2>2. ASSUME parent'[u] # NoNode, op'[u] = "insert", ParentSame(u)' \/ pc'[u] \in {"locknode", "split"}
        PROVE  ~Full(parent[u])'
    <3>1. SameNode(p) /\ ~Full(p)
      BY <2>1, <2>2, <1>5
    <3> QED BY <3>1, <2>1 DEF Full, SameNode
  <2>3. ASSUME NodeSame(u)', pc'[u] \in {"up", "lockparent", "locknode", "lockleaf", "recheck", "return"}
        PROVE  /\ Full(node[u])' <=> Full(n)
               /\ Payload(node[u], k[u])' = Payload(n, k[u])
               /\ NodeSame(u)
    <3>1. SameNode(n) /\ NodeSame(u)
      BY <2>1, <2>3, <1>6
    <3>2. Full(node[u])' <=> Full(n)
      BY <3>1, <2>1 DEF Full, SameNode
    <3>3. keys'[n] = keys[n] /\ slots'[n] = slots[n]
      BY <3>1 DEF SameNode
    <3>4. Payload(node[u], k[u])' = Payload(n, k[u])
      <4> DEFINE nn == node'[u]  kk == k'[u]
      <4>1. Payload(node[u], k[u])' = IF \E i \in DOMAIN keys'[nn] : keys'[nn][i] = kk
                THEN slots'[nn][lowerBound(keys'[nn], kk)] ELSE Absent
        BY DEF Payload, lowerBound
      <4>2. nn = n /\ kk = k[u]
        BY <2>1
      <4> HIDE DEF nn, kk
      <4> QED BY <4>1, <4>2, <3>3 DEF Payload
    <3> QED BY <3>1, <3>2, <3>4
  <2>4. ASSUME pc'[u] \in {"split", "write"}
        PROVE  Full(node[u])' <=> Full(n)
    <3>1. SameNode(n)
      BY <2>1, <2>4, <1>7
    <3> QED BY <3>1, <2>1 DEF Full, SameNode
  <2> QED BY <2>1, <2>2, <2>3, <2>4 DEF FoundInv
<1> QED BY <1>4, <1>8, <1>10

\* The tree and the map are the same as long as the nodes are.
LEMMA SameTree ==
  ASSUME TypeOK, TreeInv, UNCHANGED tree
  PROVE  TreeInv' /\ Contents' = Contents
<1>1. root' = root /\ used' = used /\ type' = type /\ keys' = keys /\ slots' = slots /\ span' = span
  BY DEF tree
<1>2. TreeInv'
  <2>1. \A n \in 1 .. used : NodeOK(n) => NodeOK(n)'
    BY <1>1 DEF NodeOK
  <2>2. \A n \in 1 .. used : \A i \in 1 .. Len(slots[n]) : ChildOK(n, i) => ChildOK(n, i)'
    <3>1. ASSUME NEW n, NEW x PROVE lowerBound(keys[n], x)' = lowerBound(keys[n], x)
      BY <1>1 DEF lowerBound
    <3> QED BY <1>1, <3>1 DEF ChildOK
  <2>3. LeafInv'
    BY <1>1 DEF TreeInv, LeafInv
  <2>4. ParentInv'
    <3>1. ParentInv
      BY DEF TreeInv
    <3>2. ASSUME NEW m \in 1 .. used', NEW n \in 1 .. used', type'[m] = "inner", type'[n] = "inner",
                 NEW i \in 1 .. Len(slots'[m]), NEW j \in 1 .. Len(slots'[n]), slots'[m][i] = slots'[n][j]
          PROVE  m = n /\ i = j
      <4>1. m \in 1 .. used /\ n \in 1 .. used /\ type[m] = "inner" /\ type[n] = "inner"
        BY <1>1, <3>2
      <4>2. i \in 1 .. Len(slots[m]) /\ j \in 1 .. Len(slots[n]) /\ slots[m][i] = slots[n][j]
        BY <1>1, <3>2
      <4>3. \A c \in 1 .. Len(slots[m]) : \A f \in 1 .. Len(slots[n]) :
                slots[m][c] = slots[n][f] => m = n /\ c = f
        BY <3>1, <4>1 DEF ParentInv
      <4> QED BY <4>2, <4>3
    <3> QED BY <3>2 DEF ParentInv
  <2>5. WellOrder'
    BY Ordering
  <2> QED BY <1>1, <2>1, <2>2, <2>3, <2>4, <2>5 DEF TreeInv
<1>3. Contents' = Contents
  BY <1>1, SMT DEF Contents, LeafOf, Payload, lowerBound
<1> QED BY <1>2, <1>3

\* The types of the nodes, and of the threads.
TreeType ==
    /\ used \in Node /\ root \in 1 .. used
    /\ type \in [Node -> {"leaf", "inner"}]
    /\ keys \in [Node -> Seq(Key)] /\ slots \in [Node -> Seq(Node \cup Value)]
    /\ span \in [Node -> SUBSET Key]
    /\ \A n \in 1 .. used : type[n] = "inner" => \A i \in DOMAIN slots[n] : slots[n][i] \in 1 .. used

CallType ==
    /\ load \in Seq(Key) /\ calls \in [Thread -> 0 .. MaxCalls]
    /\ op \in [Thread -> {"insert", "lookup"}] /\ k \in [Thread -> Key]
    /\ v \in [Thread -> Value \cup {Absent}] /\ result \in [Thread -> Value \cup {Absent}]
    /\ asked \in [Thread -> SUBSET (Key \X (Value \cup {Absent}))]

PathType ==
    /\ pc \in [Thread -> {"idle", "root", "lock", "isroot", "visit", "up", "down", "confirm",
                          "lockleaf", "write", "unlock", "giveup", "lockparent", "locknode",
                          "split", "unlocknode", "unlockparent", "read", "recheck", "return"}]
    /\ node \in [Thread -> (1 .. used) \cup {NoNode}]
    /\ parent \in [Thread -> (1 .. used) \cup {NoNode}]
    /\ versionNode \in [Thread -> Nat] /\ versionParent \in [Thread -> Nat]

\* TypeOK is made of these.
LEMMA Types == TypeOK <=> TreeType /\ CallType /\ PathType /\ ver \in [Node -> Nat]
BY DEF TypeOK, TreeType, CallType, PathType

\* The same after a step.
LEMMA TypesNext ==
  ASSUME TreeType', CallType', PathType', ver' \in [Node -> Nat]
  PROVE  TypeOK'
BY DEF TypeOK, TreeType, CallType, PathType

\* The arithmetic of version counters: a version that is locked or unlocked
\* grows by one, and the lock is its parity.
LEMMA Flips ==
  ASSUME NEW x \in Nat
  PROVE  /\ x + 1 \in Nat /\ x <= x /\ x <= x + 1
         /\ x % 2 # 1 => x % 2 = 0
         /\ x % 2 = 0 => x % 2 # 1 /\ (x + 1) % 2 = 1
         /\ x % 2 = 1 => (x + 1) % 2 = 0 /\ (x + 1) % 2 # 1
BY SMT

\* A version that was read is not passed over.
LEMMA Passed ==
  ASSUME NEW w \in Nat, NEW x \in Nat, NEW y, w <= x, y = x \/ y = x + 1
  PROVE  y \in Nat /\ x <= y /\ w <= y /\ (y = w => x = w)
BY SMT

\* An unlocked version is not a locked one.
LEMMA Parity ==
  ASSUME NEW x, NEW y, x % 2 = 0, y % 2 = 1
  PROVE  x # y
BY SMT

\* A node that nobody holds is locked, or one that is held is unlocked, by a
\* step to the next version; a step that does neither keeps what it holds.
LEMMA Locking ==
  ASSUME TypeOK, LocksHeld, NEW t \in Thread, NEW n,
         \A u \in Thread : u # t => Holds(u)' = Holds(u),
         \/ ver' = ver /\ Holds(t)' = Holds(t)
         \/ /\ n \in Node /\ ver[n] % 2 = 0 /\ ver' = [ver EXCEPT ![n] = ver[n] + 1]
            /\ Holds(t)' = Holds(t) \cup {n}
         \/ /\ n \in Node /\ n \in Holds(t) /\ ver' = [ver EXCEPT ![n] = ver[n] + 1]
            /\ Holds(t)' = Holds(t) \ {n}
  PROVE  LocksHeld' /\ ver' \in [Node -> Nat] /\ \A m \in Node : ver'[m] \in Nat /\ ver[m] <= ver'[m]
<1>1. ver \in [Node -> Nat]
  BY DEF TypeOK
<1>h. /\ \A x, y \in Thread : \A m : ~(x # y /\ m \in Holds(x) /\ m \in Holds(y))
      /\ \A m \in Node : isLocked(m) <=> \E u \in Thread : m \in Holds(u)
  BY DEF LocksHeld
<1>2. CASE ver' = ver /\ Holds(t)' = Holds(t)
  <2>1. \A u \in Thread : Holds(u)' = Holds(u)
    BY <1>2
  <2>2. \A m \in Node : isLocked(m)' <=> isLocked(m)
    BY <1>2 DEF isLocked
  <2>3. \A m \in Node : ver'[m] \in Nat /\ ver[m] <= ver'[m]
    BY <1>1, <1>2, Flips
  <2>h. \A u \in Thread : \A m : m \in Holds(u)' <=> m \in Holds(u)
    BY <2>1
  <2>4. ASSUME NEW x \in Thread, NEW y \in Thread, x # y PROVE Holds(x)' \cap Holds(y)' = {}
    BY <2>h, <2>4, <1>h
  <2>5. ASSUME NEW m \in Node PROVE isLocked(m)' <=> \E u \in Thread : m \in Holds(u)'
    BY <2>h, <2>2, <1>h
  <2> QED BY <1>1, <1>2, <2>3, <2>4, <2>5 DEF LocksHeld
<1>3. CASE /\ n \in Node /\ ver[n] % 2 = 0 /\ ver' = [ver EXCEPT ![n] = ver[n] + 1]
           /\ Holds(t)' = Holds(t) \cup {n}
  <2>0. /\ ver'[n] = ver[n] + 1 /\ \A m \in Node : m # n => ver'[m] = ver[m]
        /\ ver[n] \in Nat
    BY <1>1, <1>3
  <2>1. ver'[n] \in Nat /\ ver[n] <= ver'[n] /\ ver[n] % 2 # 1 /\ ver'[n] % 2 = 1
    BY <1>3, <2>0, Flips
  <2>2. \A u \in Thread : n \notin Holds(u)
    BY <1>3, <2>1 DEF LocksHeld, isLocked
  <2>3. \A m \in Node : isLocked(m)' <=> isLocked(m) \/ m = n
    BY <1>3, <2>0, <2>1 DEF isLocked
  <2>h. \A u \in Thread : \A m : m \in Holds(u)' <=> m \in Holds(u) \/ (u = t /\ m = n)
    BY <1>3
  <2>4. ASSUME NEW x \in Thread, NEW y \in Thread, x # y PROVE Holds(x)' \cap Holds(y)' = {}
    <3>1. ASSUME NEW m, m \in Holds(x)', m \in Holds(y)' PROVE FALSE
      <4>1. m \in Holds(x) \/ (x = t /\ m = n)
        BY <3>1, <2>h
      <4>2. m \in Holds(y) \/ (y = t /\ m = n)
        BY <3>1, <2>h
      <4> QED BY <4>1, <4>2, <2>4, <2>2, <1>h
    <3> QED BY <3>1
  <2>5. ASSUME NEW m \in Node PROVE isLocked(m)' <=> \E u \in Thread : m \in Holds(u)'
    BY <1>h, <2>3, <2>h
  <2>6. \A m \in Node : ver'[m] \in Nat /\ ver[m] <= ver'[m]
    BY <1>1, <2>0, <2>1, Flips
  <2> QED BY <1>1, <1>3, <2>1, <2>4, <2>5, <2>6 DEF LocksHeld
<1>4. CASE /\ n \in Node /\ n \in Holds(t) /\ ver' = [ver EXCEPT ![n] = ver[n] + 1]
           /\ Holds(t)' = Holds(t) \ {n}
  <2>0. ver[n] % 2 = 1 /\ \A u \in Thread : u # t => n \notin Holds(u)
    BY <1>4 DEF LocksHeld, isLocked
  <2>1. /\ ver'[n] = ver[n] + 1 /\ \A m \in Node : m # n => ver'[m] = ver[m]
        /\ ver[n] \in Nat
    BY <1>1, <1>4
  <2>2. ver'[n] \in Nat /\ ver[n] <= ver'[n] /\ ver'[n] % 2 # 1
    BY <2>0, <2>1, Flips
  <2>3. \A m \in Node : isLocked(m)' <=> isLocked(m) /\ m # n
    BY <2>1, <2>2 DEF isLocked
  <2>h. \A u \in Thread : \A m : m \in Holds(u)' <=> m \in Holds(u) /\ m # n
    BY <1>4, <2>0
  <2>4. ASSUME NEW x \in Thread, NEW y \in Thread, x # y PROVE Holds(x)' \cap Holds(y)' = {}
    BY <1>h, <2>4, <2>h
  <2>5. ASSUME NEW m \in Node PROVE isLocked(m)' <=> \E u \in Thread : m \in Holds(u)'
    BY <1>h, <2>3, <2>h
  <2>6. \A m \in Node : ver'[m] \in Nat /\ ver[m] <= ver'[m]
    BY <1>1, <2>1, <2>2, Flips
  <2> QED BY <1>1, <1>4, <2>2, <2>4, <2>5, <2>6 DEF LocksHeld
<1> QED BY <1>2, <1>3, <1>4

\* A step of one thread inside its call changes neither the map nor what a
\* lookup may answer.
LEMMA Silent ==
  ASSUME IInv, NEW t \in Thread, NEW step, Contents' = Contents,
         UNCHANGED <<op, k, result, asked>>,
         \A u \in Thread : op[u] = "insert" => v'[u] = v[u],
         Goto(t, step), pc[t] \notin {"idle", "unlock"}, step \notin {"idle", "unlock"}
  PROVE  (\A u \in Thread : AskInv(u)') /\ UNCHANGED M!vars
<1>1. \A u \in Thread : u # t => pc'[u] = pc[u]
  BY DEF Goto, IInv, TypeOK
<1>2. pc'[t] = step
  BY DEF Goto, IInv, TypeOK
<1>3. ASSUME NEW u \in Thread PROVE AskInv(u)'
  <2>1. AskInv(u)
    BY DEF IInv, ThreadInv
  <2>2. pc'[u] = "idle" <=> pc[u] = "idle"
    BY <1>1, <1>2
  <2> HIDE DEF Contents
  <2> QED BY <2>1, <2>2 DEF AskInv
<1>4. Pending' = Pending
  <2>1. ASSUME NEW u \in Thread
        PROVE  /\ pc'[u] \in {"idle", "unlock"} <=> pc[u] \in {"idle", "unlock"}
               /\ op[u] = "insert" => v'[u] = v[u]
    BY <1>1, <1>2
  <2> QED BY <2>1 DEF Pending
<1> QED BY <1>3, <1>4 DEF M!vars

\* What a step of t is to establish.
Good(t) ==
    /\ TypeOK' /\ LocksHeld' /\ TreeInv' /\ Frame(t)
    /\ PathInv(t)' /\ RouteInv(t)' /\ FoundInv(t)'
    /\ \A u \in Thread : AskInv(u)'
    /\ [M!Next]_(M!vars)

\* The other threads are left alone.
LEMMA OthersSame ==
  ASSUME NEW t \in Thread,
         \A u \in Thread : u # t => SameThread(u)
  PROVE  \A u \in Thread : u # t => Holds(u)' = Holds(u)
BY DEF SameThread, Holds

\* A step that leaves the nodes alone is framed.
LEMMA Framed ==
  ASSUME TypeOK, NEW t \in Thread, UNCHANGED tree,
         \A m \in Node : ver'[m] \in Nat /\ ver[m] <= ver'[m],
         \A u \in Thread : u # t => SameThread(u)
  PROVE  Frame(t)
<1>1. \A n \in 1 .. used : n \in Node
  BY NodeTypes
<1>2. used \in Nat
  BY UsedNat
<1>3. used <= used
  BY <1>2, Flips
<1>4. used' = used /\ root' = root /\ type' = type /\ keys' = keys /\ slots' = slots /\ span' = span
  BY DEF tree
<1> QED BY <1>1, <1>2, <1>3, <1>4 DEF Frame, SameNode

\* A call restarts, letting go of the node it holds if it holds one.
LEMMA Restarted ==
  ASSUME IInv, NEW t \in Thread, NEW n, Restart(t), UNCHANGED <<tree, call, result, asked>>,
         pc[t] \notin {"idle", "unlock"},
         \/ Holds(t) = {} /\ ver' = ver
         \/ n \in Node /\ Holds(t) = {n} /\ ver' = [ver EXCEPT ![n] = ver[n] + 1]
  PROVE  Good(t)
<1>1. TypeOK /\ LocksHeld /\ TreeInv /\ PathInv(t)
  BY DEF IInv, ThreadInv
<1>2. Goto(t, "root")
  BY DEF Restart, Leave
<1>3. /\ pc'[t] = "root" /\ node'[t] = NoNode /\ parent'[t] = NoNode
      /\ op'[t] = op[t] /\ v'[t] = v[t]
  BY <1>1 DEF Restart, Leave, Goto, call, TypeOK
<1>4. \A u \in Thread : u # t => SameThread(u)
  BY <1>1 DEF Restart, Leave, Goto, call, TypeOK, SameThread
<1>5. LocksHeld' /\ ver' \in [Node -> Nat] /\ \A m \in Node : ver'[m] \in Nat /\ ver[m] <= ver'[m]
  <2>1. Holds(t)' = {}
    BY <1>3 DEF Holds
  <2>2. \/ ver' = ver /\ Holds(t)' = Holds(t)
        \/ /\ n \in Node /\ n \in Holds(t) /\ ver' = [ver EXCEPT ![n] = ver[n] + 1]
           /\ Holds(t)' = Holds(t) \ {n}
    BY <2>1
  <2>3. \A u \in Thread : u # t => Holds(u)' = Holds(u)
    BY <1>4, OthersSame
  <2> HIDE DEF Holds
  <2> QED BY <2>2, <2>3, <1>1, Locking
<1>6. TreeInv' /\ Contents' = Contents
  BY <1>1, SameTree
<1>7. (\A u \in Thread : AskInv(u)') /\ UNCHANGED M!vars
  BY <1>2, <1>6, Silent DEF call
<1>8. TypeOK'
  <2>1. TreeType' /\ CallType'
    BY <1>1, Types DEF tree, call, TreeType, CallType
  <2>2. PathType'
    BY <1>1, Types DEF PathType, Restart, Leave, Goto, tree
  <2> QED BY <2>1, <2>2, <1>5, TypesNext
<1>9. PathInv(t)' /\ RouteInv(t)' /\ FoundInv(t)'
  BY <1>1, <1>3 DEF PathInv, RouteInv, FoundInv
<1>10. Frame(t)
  BY <1>1, <1>4, <1>5, Framed
<1> QED BY <1>5, <1>6, <1>7, <1>8, <1>9, <1>10 DEF Good

\* A step inside a call that leaves the tree alone and takes or drops a lock, or
\* neither, is good if it is for the thread itself.
LEMMA Moves ==
  ASSUME IInv, NEW t \in Thread, NEW n, NEW step,
         UNCHANGED <<tree, load, calls, op, k, result, asked>>,
         v' \in [Thread -> Value \cup {Absent}], \A u \in Thread : op[u] = "insert" => v'[u] = v[u],
         Goto(t, step), pc[t] \notin {"idle", "unlock"}, step \notin {"idle", "unlock"}, PathType',
         \A u \in Thread : u # t => SameThread(u),
         \/ ver' = ver /\ Holds(t)' = Holds(t)
         \/ /\ n \in Node /\ ver[n] % 2 = 0 /\ ver' = [ver EXCEPT ![n] = ver[n] + 1]
            /\ Holds(t)' = Holds(t) \cup {n}
         \/ /\ n \in Node /\ n \in Holds(t) /\ ver' = [ver EXCEPT ![n] = ver[n] + 1]
            /\ Holds(t)' = Holds(t) \ {n},
         PathInv(t)', RouteInv(t)', FoundInv(t)'
  PROVE  Good(t)
<1>1. TypeOK /\ LocksHeld /\ TreeInv
  BY DEF IInv
<1>2. LocksHeld' /\ ver' \in [Node -> Nat] /\ \A m \in Node : ver'[m] \in Nat /\ ver[m] <= ver'[m]
  <2>1. \A u \in Thread : u # t => Holds(u)' = Holds(u)
    BY OthersSame
  <2> QED BY <2>1, <1>1, Locking
<1>3. TreeInv' /\ Contents' = Contents
  BY <1>1, SameTree
<1>4. (\A u \in Thread : AskInv(u)') /\ UNCHANGED M!vars
  BY <1>3, Silent
<1>5. TypeOK'
  <2>1. TreeType' /\ CallType'
    BY <1>1, Types DEF tree, TreeType, CallType
  <2> QED BY <2>1, <1>2, TypesNext
<1>6. Frame(t)
  BY <1>1, <1>2, Framed
<1> QED BY <1>2, <1>3, <1>4, <1>5, <1>6 DEF Good

\* A search for a key of a node's span goes on to a node that has it in its own.
LEMMA ChildSpan ==
  ASSUME TypeOK, TreeInv, NEW p \in 1 .. used, type[p] = "inner", NEW x \in span[p]
  PROVE  /\ lowerBound(keys[p], x) \in 1 .. Len(slots[p])
         /\ Child(p, x) \in 1 .. used /\ Child(p, x) # root /\ x \in span[Child(p, x)]
<1> WellOrder /\ WellOrder'
  BY Ordering
<1> DEFINE i == lowerBound(keys[p], x)
<1>1. /\ keys[p] \in Seq(Key) /\ x \in Key /\ Len(keys[p]) \in Nat
      /\ DOMAIN slots[p] = 1 .. Len(slots[p])
  BY NodeTypes
<1>2. Len(slots[p]) = Len(keys[p]) + 1
  BY DEF TreeInv, NodeOK
<1>3. i \in 1 .. Len(slots[p])
  BY <1>1, <1>2, LowerBound
<1>4. ChildOK(p, i)
  BY <1>3 DEF TreeInv
<1>5. slots[p][i] \in 1 .. used
  BY <1>1, <1>3 DEF TypeOK
<1> QED BY <1>1, <1>3, <1>4, <1>5 DEF ChildOK, Child

-----------------------------------------------------------------------------
(* Every action is good.                                                   *)

\* The facts an action starts from.
LEMMA Before ==
  ASSUME IInv, NEW t \in Thread
  PROVE  /\ TypeOK /\ LocksHeld /\ TreeInv /\ PathInv(t) /\ RouteInv(t) /\ FoundInv(t) /\ AskInv(t)
         /\ TreeType /\ CallType /\ PathType /\ ver \in [Node -> Nat]
<1>1. TypeOK /\ LocksHeld /\ TreeInv /\ ThreadInv(t)
  BY ZenonT(30) DEF IInv
<1> QED BY <1>1, Types DEF ThreadInv

\* The root is read.
LEMMA GoodReadRoot ==
  ASSUME IInv, NEW t \in Thread, ReadRoot(t)
  PROVE  Good(t)
<1>1. TypeOK /\ PathInv(t) /\ CallType /\ PathType
  BY Before
<1>2. /\ pc[t] = "root" /\ pc'[t] = "lock" /\ node'[t] = root /\ parent'[t] = NoNode
      /\ op'[t] = op[t] /\ v'[t] = v[t] /\ root \in 1 .. used /\ root # NoNode
  <2>1. root \in 1 .. used /\ root # NoNode
    BY <1>1, Somewhere DEF TypeOK
  <2> QED BY <2>1, <1>1 DEF ReadRoot, Goto, PathType, PathInv, call
<1>3. PathInv(t)' /\ RouteInv(t)' /\ FoundInv(t)'
  BY <1>1, <1>2 DEF PathInv, RouteInv, FoundInv
<1>4. PathType'
  BY <1>1, <1>2 DEF PathType, ReadRoot, Goto, tree
<1>5. \A u \in Thread : u # t => SameThread(u)
  BY <1>1 DEF PathType, ReadRoot, Goto, SameThread, call
<1>6. Holds(t)' = Holds(t)
  BY <1>2 DEF Holds
<1> QED BY <1>1, <1>2, <1>3, <1>4, <1>5, <1>6, Moves DEF ReadRoot, call, CallType

\* The root or a child is read locked, or the call restarts.
LEMMA GoodReadLock ==
  ASSUME IInv, NEW t \in Thread, ReadLock(t)
  PROVE  Good(t)
<1>1. TypeOK /\ PathInv(t) /\ RouteInv(t) /\ FoundInv(t) /\ CallType /\ PathType
  BY Before
<1>2. pc[t] = "lock" /\ Holds(t) = {} /\ node[t] # NoNode
  BY <1>1 DEF ReadLock, Holds, PathInv
<1>3. CASE isLocked(node[t])
  BY <1>2, <1>3, Restarted DEF ReadLock
<1>4. CASE ~isLocked(node[t])
  <2>0. UNCHANGED <<tree, ver, call, result, asked, node, parent, versionParent>>
    BY <1>4 DEF ReadLock
  <2> DEFINE step == IF parent[t] = NoNode THEN "isroot" ELSE "visit"
  <2>1. Goto(t, step) /\ versionNode' = [versionNode EXCEPT ![t] = ver[node[t]]]
    BY <1>4 DEF ReadLock
  <2>2. /\ pc'[t] = step /\ node' = node /\ parent' = parent /\ versionParent' = versionParent
        /\ op' = op /\ k' = k /\ v' = v /\ versionNode'[t] = ver[node[t]]
        /\ ver[node[t]] \in Nat /\ ver[node[t]] % 2 = 0 /\ ver' = ver
    <3>1. node[t] \in Node
      BY <1>1, <1>2, OnPath
    <3>2. ver[node[t]] \in Nat /\ ver[node[t]] % 2 = 0
      BY <3>1, <1>1, <1>4, Types, Flips DEF isLocked
    <3> QED BY <3>2, <1>1, <2>0, <2>1 DEF Goto, PathType, call
  <2>3. keys' = keys /\ slots' = slots /\ span' = span /\ type' = type /\ root' = root /\ used' = used
    BY <2>0 DEF tree
  <2>4. PathInv(t)'
    <3>1. ver[node[t]] <= ver[node[t]]
      BY <2>2, Flips
    <3> QED BY <3>1, <1>1, <1>2, <2>2, <2>3 DEF PathInv
  <2>5. RouteInv(t)' /\ FoundInv(t)'
    BY <1>1, <1>2, <2>2, <2>3 DEF RouteInv, FoundInv, ParentSame, Child, Full, lowerBound
  <2>6. PathType'
    BY <1>1, <2>0, <2>1, <2>2, <2>3 DEF PathType, Goto
  <2>7. \A u \in Thread : u # t => SameThread(u)
    BY <1>1, <2>1, <2>2 DEF PathType, Goto, SameThread
  <2>8. Holds(t)' = Holds(t)
    BY <1>2, <2>2 DEF Holds
  <2> QED BY <1>1, <1>2, <2>0, <2>1, <2>2, <2>4, <2>5, <2>6, <2>7, <2>8, Moves, ZenonT(30)
             DEF call, CallType
<1> QED BY <1>3, <1>4

\* The root is confirmed, or the call restarts.
LEMMA GoodCheckRoot ==
  ASSUME IInv, NEW t \in Thread, CheckRoot(t)
  PROVE  Good(t)
<1>1. TypeOK /\ PathInv(t) /\ RouteInv(t) /\ FoundInv(t) /\ CallType /\ PathType
  BY Before
<1>2. pc[t] = "isroot" /\ Holds(t) = {} /\ parent[t] = NoNode
  BY <1>1 DEF CheckRoot, Holds, PathInv
<1>3. CASE node[t] # root
  BY <1>2, <1>3, Restarted DEF CheckRoot
<1>4. CASE node[t] = root
  <2>0. UNCHANGED <<tree, ver, call, path, asked>> /\ Goto(t, "visit")
    BY <1>4 DEF CheckRoot
  <2>1. /\ node' = node /\ parent' = parent /\ versionNode' = versionNode /\ result' = result
        /\ versionParent' = versionParent /\ op' = op /\ k' = k /\ v' = v /\ ver' = ver
        /\ type' = type /\ root' = root /\ used' = used
    BY <2>0 DEF tree, call, path
  <2>2. pc'[t] = "visit"
    BY <1>1, <2>0 DEF Goto, PathType
  <2>3. PathInv(t)' /\ RouteInv(t)' /\ FoundInv(t)'
    BY <1>1, <1>2, <1>4, <2>1, <2>2 DEF PathInv, RouteInv, FoundInv
  <2>4. PathType'
    BY <1>1, <2>0, <2>1 DEF PathType, Goto
  <2>5. \A u \in Thread : u # t => SameThread(u)
    BY <1>1, <2>0, <2>1 DEF PathType, Goto, SameThread
  <2>6. Holds(t)' = Holds(t)
    BY <1>2, <2>2, ZenonT(30) DEF Holds
  <2> QED BY <1>1, <1>2, <2>0, <2>1, <2>3, <2>4, <2>5, <2>6, Moves, ZenonT(30) DEF call, CallType
<1> QED BY <1>3, <1>4

\* What is to be done with a node is decided.
LEMMA GoodVisit ==
  ASSUME IInv, NEW t \in Thread, Visit(t)
  PROVE  Good(t)
<1>1. TypeOK /\ PathInv(t) /\ RouteInv(t) /\ FoundInv(t) /\ CallType /\ PathType
  BY Before
<1>2. pc[t] = "visit" /\ Holds(t) = {} /\ node[t] # NoNode
  BY <1>1 DEF Visit, Holds, PathInv
<1>3. UNCHANGED <<tree, ver, call, path, asked>>
  BY DEF Visit
<1>4. /\ node' = node /\ parent' = parent /\ versionNode' = versionNode /\ result' = result
      /\ versionParent' = versionParent /\ op' = op /\ k' = k /\ v' = v /\ ver' = ver
      /\ keys' = keys /\ slots' = slots /\ span' = span /\ type' = type /\ root' = root /\ used' = used
  BY <1>3 DEF tree, call, path
<1>n. type[node[t]] = "leaf" <=> type[node[t]] # "inner"
  BY <1>1, <1>2, OnPath, NodeTypes
<1>o. op[t] = "insert" <=> op[t] # "lookup"
  BY <1>1 DEF CallType
<1>5. PICK step : /\ Goto(t, step)
                  /\ \/ step = "up" /\ type[node[t]] = "inner" /\ (op[t] = "insert" => ~Full(node[t]))
                     \/ step = "read" /\ type[node[t]] = "leaf" /\ op[t] = "lookup"
                     \/ step = "locknode" /\ parent[t] = NoNode /\ Full(node[t]) /\ op[t] = "insert"
                     \/ step = "lockparent" /\ parent[t] # NoNode /\ Full(node[t]) /\ op[t] = "insert"
                     \/ step = "lockleaf" /\ type[node[t]] = "leaf" /\ ~Full(node[t]) /\ op[t] = "insert"
  <2> DEFINE s == IF op[t] = "lookup"
                  THEN (IF type[node[t]] = "inner" THEN "up" ELSE "read")
                  ELSE (IF Full(node[t])
                        THEN (IF parent[t] = NoNode THEN "locknode" ELSE "lockparent")
                        ELSE IF type[node[t]] = "inner" THEN "up" ELSE "lockleaf")
  <2>1. Goto(t, s)
    BY DEF Visit
  <2> QED BY <2>1, <1>n, <1>o
<1>6. pc'[t] = step
  BY <1>1, <1>5 DEF Goto, PathType
<1>7. PathInv(t)'
  BY <1>1, <1>2, <1>4, <1>5, <1>6 DEF PathInv
<1>f. \A n : Full(n)' <=> Full(n)
  BY <1>4 DEF Full
<1>8. RouteInv(t)'
  BY <1>1, <1>2, <1>4, <1>5, <1>6 DEF RouteInv, ParentSame, NodeSame, Child, lowerBound
<1>9. FoundInv(t)'
  BY <1>1, <1>2, <1>4, <1>5, <1>6, <1>f DEF FoundInv, ParentSame, NodeSame
<1>10. PathType'
  BY <1>1, <1>4, <1>5 DEF PathType, Goto
<1>11. \A u \in Thread : u # t => SameThread(u)
  BY <1>1, <1>4, <1>5 DEF PathType, Goto, SameThread
<1>12. Holds(t)' = Holds(t)
  BY <1>2, <1>4, <1>5, <1>6 DEF Holds
<1> QED BY <1>1, <1>2, <1>3, <1>4, <1>5, <1>7, <1>8, <1>9, <1>10, <1>11, <1>12, Moves, ZenonT(30)
           DEF call, CallType

\* A node that is reached by unchanged nodes is responsible for the key.
LEMMA Reached ==
  ASSUME IInv, NEW t \in Thread, pc[t] \in {"up", "recheck", "write"}, ParentUnchanged(t),
         NodeSame(t) \/ pc[t] = "write"
  PROVE  k[t] \in span[node[t]]
<1>1. TypeOK /\ TreeInv /\ PathInv(t) /\ RouteInv(t)
  BY Before
<1>2. CASE parent[t] = NoNode
  BY <1>1, <1>2 DEF RouteInv, TreeInv, TypeOK
<1>3. CASE parent[t] # NoNode
  <2>1. ParentSame(t)
    BY <1>3 DEF ParentUnchanged, ParentSame
  <2>2. k[t] \in span[parent[t]] /\ node[t] = Child(parent[t], k[t])
    BY <2>1, <1>1, <1>3 DEF RouteInv
  <2>3. parent[t] \in 1 .. used /\ type[parent[t]] = "inner"
    BY <1>1, <1>3, OnPath DEF PathInv
  <2> QED BY <2>2, <2>3, <1>1, ChildSpan
<1> QED BY <1>2, <1>3

\* The search goes down from a node whose parent is unchanged.
LEMMA GoodCheckParent ==
  ASSUME IInv, NEW t \in Thread, CheckParent(t)
  PROVE  Good(t)
<1>1. TypeOK /\ PathInv(t) /\ RouteInv(t) /\ FoundInv(t) /\ CallType /\ PathType
  BY Before
<1>2. pc[t] = "up" /\ Holds(t) = {} /\ node[t] # NoNode
  BY <1>1 DEF CheckParent, Holds, PathInv
<1>3. CASE ~ParentUnchanged(t)
  BY <1>2, <1>3, Restarted DEF CheckParent
<1>4. CASE ParentUnchanged(t)
  <2>0. /\ UNCHANGED <<tree, ver, call, result, asked, node, versionNode>> /\ Goto(t, "down")
        /\ parent' = [parent EXCEPT ![t] = node[t]]
        /\ versionParent' = [versionParent EXCEPT ![t] = versionNode[t]]
    BY <1>4 DEF CheckParent
  <2>1. /\ node' = node /\ parent'[t] = node[t] /\ versionNode' = versionNode /\ result' = result
        /\ versionParent'[t] = versionNode[t] /\ op' = op /\ k' = k /\ v' = v /\ ver' = ver
        /\ keys' = keys /\ slots' = slots /\ span' = span /\ type' = type /\ root' = root /\ used' = used
    BY <1>1, <2>0 DEF tree, call, PathType
  <2>2. pc'[t] = "down"
    BY <1>1, <2>0 DEF Goto, PathType
  <2>3. PathInv(t)'
    BY <1>1, <1>2, <2>1, <2>2 DEF PathInv
  <2>f. \A n : Full(n)' <=> Full(n)
    BY <2>1 DEF Full
  <2>s. NodeSame(t) => k[t] \in span[node[t]]
    BY <1>2, <1>4, Reached
  <2>4. ParentSame(t)' <=> NodeSame(t)
    BY <2>1 DEF ParentSame, NodeSame
  <2>5. RouteInv(t)' /\ FoundInv(t)'
    BY <1>1, <1>2, <2>1, <2>2, <2>f, <2>s, <2>4 DEF RouteInv, FoundInv
  <2>6. PathType'
    BY <1>1, <2>0, <2>1 DEF PathType, Goto
  <2>7. \A u \in Thread : u # t => SameThread(u)
    BY <1>1, <2>0, <2>1 DEF PathType, Goto, SameThread
  <2>8. Holds(t)' = Holds(t)
    BY <1>2, <2>2, ZenonT(30) DEF Holds
  <2> QED BY <1>1, <1>2, <2>0, <2>1, <2>3, <2>5, <2>6, <2>7, <2>8, Moves DEF call, CallType
<1> QED BY <1>3, <1>4

\* The child's pointer is read.
LEMMA GoodReadChild ==
  ASSUME IInv, NEW t \in Thread, ReadChild(t)
  PROVE  Good(t)
<1> DEFINE p == parent[t]
<1>1. TypeOK /\ PathInv(t) /\ RouteInv(t) /\ FoundInv(t) /\ CallType /\ PathType
  BY Before
<1>2. pc[t] = "down" /\ Holds(t) = {} /\ p # NoNode /\ node[t] # NoNode
  BY <1>1 DEF ReadChild, Holds, PathInv
<1>3. /\ UNCHANGED <<tree, ver, call, versionNode, parent, versionParent, result, asked>>
      /\ Goto(t, "confirm")
  BY DEF ReadChild
<1>4. PICK i \in DOMAIN slots[p] :
        /\ isLocked(p) \/ i = lowerBound(keys[p], k[t])
        /\ node' = [node EXCEPT ![t] = slots[p][i]]
  BY DEF ReadChild
<1>5. /\ node'[t] = slots[p][i] /\ parent' = parent /\ versionNode' = versionNode /\ result' = result
      /\ versionParent' = versionParent /\ op' = op /\ k' = k /\ v' = v /\ ver' = ver
      /\ keys' = keys /\ slots' = slots /\ span' = span /\ type' = type /\ root' = root /\ used' = used
      /\ pc'[t] = "confirm"
  BY <1>1, <1>3, <1>4 DEF tree, call, PathType, Goto
<1>6. p \in 1 .. used /\ type[p] = "inner"
  BY <1>1, <1>2, OnPath DEF PathInv
<1>7. slots[p][i] \in 1 .. used /\ slots[p][i] # NoNode
  <2>1. slots[p][i] \in 1 .. used
    BY <1>1, <1>4, <1>6 DEF TypeOK
  <2> QED BY <2>1, <1>1, Somewhere
<1>8. PathInv(t)'
  BY <1>1, <1>2, <1>5, <1>7 DEF PathInv
<1>9. ParentSame(t) => i = lowerBound(keys[p], k[t])
  <2>1. versionParent[t] % 2 = 0
    BY <1>1, <1>2 DEF PathInv
  <2> QED BY <2>1, <1>4, Parity DEF ParentSame, isLocked
<1>10. RouteInv(t)' /\ FoundInv(t)'
  BY <1>1, <1>2, <1>5, <1>9 DEF RouteInv, FoundInv, ParentSame, Child, Full, lowerBound
<1>11. PathType'
  BY <1>1, <1>3, <1>4, <1>5, <1>7 DEF PathType, Goto
<1>12. \A u \in Thread : u # t => SameThread(u)
  BY <1>1, <1>3, <1>4, <1>5 DEF PathType, Goto, SameThread
<1>13. Holds(t)' = Holds(t)
  BY <1>2, <1>5 DEF Holds
<1> QED BY <1>1, <1>2, <1>3, <1>5, <1>8, <1>10, <1>11, <1>12, <1>13, Moves DEF call, CallType

\* The pointer is confirmed, or the call restarts.
LEMMA GoodCheckChild ==
  ASSUME IInv, NEW t \in Thread, CheckChild(t)
  PROVE  Good(t)
<1>1. TypeOK /\ PathInv(t) /\ RouteInv(t) /\ FoundInv(t) /\ CallType /\ PathType
  BY Before
<1>2. pc[t] = "confirm" /\ Holds(t) = {} /\ node[t] # NoNode /\ parent[t] # NoNode
  BY <1>1 DEF CheckChild, Holds, PathInv
<1>3. CASE ver[parent[t]] # versionParent[t]
  BY <1>2, <1>3, Restarted DEF CheckChild
<1>4. CASE ver[parent[t]] = versionParent[t]
  <2>0. UNCHANGED <<tree, ver, call, path, asked>> /\ Goto(t, "lock")
    BY <1>4 DEF CheckChild
  <2>1. /\ node' = node /\ parent' = parent /\ versionNode' = versionNode /\ result' = result
        /\ versionParent' = versionParent /\ op' = op /\ k' = k /\ v' = v /\ ver' = ver
        /\ keys' = keys /\ slots' = slots /\ span' = span /\ type' = type /\ root' = root /\ used' = used
    BY <2>0 DEF tree, call, path
  <2>2. pc'[t] = "lock"
    BY <1>1, <2>0 DEF Goto, PathType
  <2>3. PathInv(t)'
    BY <1>1, <1>2, <2>1, <2>2 DEF PathInv
  <2>4. RouteInv(t)' /\ FoundInv(t)'
    BY <1>1, <1>2, <2>1, <2>2 DEF RouteInv, FoundInv, ParentSame, Child, Full, lowerBound
  <2>5. PathType'
    BY <1>1, <2>0, <2>1 DEF PathType, Goto
  <2>6. \A u \in Thread : u # t => SameThread(u)
    BY <1>1, <2>0, <2>1 DEF PathType, Goto, SameThread
  <2>7. Holds(t)' = Holds(t)
    BY <1>2, <2>2 DEF Holds
  <2> QED BY <1>1, <1>2, <2>0, <2>1, <2>3, <2>4, <2>5, <2>6, <2>7, Moves, ZenonT(30)
             DEF call, CallType
<1> QED BY <1>3, <1>4

\* The leaf is locked, or the call restarts.
LEMMA GoodLockLeaf ==
  ASSUME IInv, NEW t \in Thread, LockLeaf(t)
  PROVE  Good(t)
<1> DEFINE n == node[t]
<1>1. TypeOK /\ PathInv(t) /\ RouteInv(t) /\ FoundInv(t) /\ CallType /\ PathType /\ ver \in [Node -> Nat]
  BY Before
<1>2. pc[t] = "lockleaf" /\ Holds(t) = {} /\ n # NoNode
  BY <1>1 DEF LockLeaf, Holds, PathInv
<1>3. CASE ver[n] # versionNode[t]
  BY <1>2, <1>3, Restarted DEF LockLeaf, Upgrade
<1>4. CASE ver[n] = versionNode[t]
  <2>0. UNCHANGED <<tree, call, path, asked>> /\ Goto(t, "write") /\ ver' = [ver EXCEPT ![n] = ver[n] + 1]
    BY <1>4 DEF LockLeaf, Upgrade
  <2>1. /\ node' = node /\ parent' = parent /\ versionNode' = versionNode /\ result' = result
        /\ versionParent' = versionParent /\ op' = op /\ k' = k /\ v' = v
        /\ keys' = keys /\ slots' = slots /\ span' = span /\ type' = type /\ root' = root /\ used' = used
    BY <2>0 DEF tree, call, path
  <2>2. pc'[t] = "write"
    BY <1>1, <2>0 DEF Goto, PathType
  <2>3. n \in Node /\ ver[n] \in Nat /\ ver[n] % 2 = 0 /\ type[n] = "leaf"
    BY <1>1, <1>2, <1>4, OnPath DEF PathInv
  <2>4. parent[t] # NoNode => ver'[parent[t]] = ver[parent[t]]
    <3>1. parent[t] # NoNode => parent[t] # n /\ parent[t] \in Node
      BY <1>1, <2>3, OnPath DEF PathInv
    <3> QED BY <3>1, <1>1, <2>0
  <2>5. PathInv(t)'
    BY <1>1, <1>2, <2>1, <2>2, <2>3, <2>4, ZenonT(30) DEF PathInv
  <2>6. RouteInv(t)' /\ FoundInv(t)'
    <3>1. /\ Child(parent[t], k[t])' = Child(parent[t], k[t])
          /\ Full(parent[t])' = Full(parent[t]) /\ Full(node[t])' = Full(node[t])
      BY <2>1, Views
    <3>2. RouteInv(t)'
      BY <3>1, <1>1, <1>2, <1>4, <2>1, <2>2, <2>4 DEF RouteInv, ParentSame, NodeSame
    <3> QED BY <3>1, <3>2, <1>1, <1>2, <1>4, <2>1, <2>2, <2>4
            DEF FoundInv, ParentSame, NodeSame
  <2>7. PathType'
    BY <1>1, <2>0, <2>1 DEF PathType, Goto
  <2>8. \A u \in Thread : u # t => SameThread(u)
    BY <1>1, <2>0, <2>1 DEF PathType, Goto, SameThread
  <2>9. Holds(t)' = Holds(t) \cup {n}
    BY <1>2, <2>1, <2>2 DEF Holds
  <2> HIDE DEF n
  <2> QED BY <1>1, <1>2, <2>0, <2>1, <2>3, <2>5, <2>6, <2>7, <2>8, <2>9, Moves, ZenonT(30)
             DEF call, CallType
<1> QED BY <1>3, <1>4

\* The parent is locked, or the call restarts.
LEMMA GoodLockParent ==
  ASSUME IInv, NEW t \in Thread, LockParent(t)
  PROVE  Good(t)
<1> DEFINE p == parent[t]
<1>1. TypeOK /\ PathInv(t) /\ RouteInv(t) /\ FoundInv(t) /\ CallType /\ PathType /\ ver \in [Node -> Nat]
  BY Before
<1>2. pc[t] = "lockparent" /\ Holds(t) = {} /\ p # NoNode /\ node[t] # NoNode
  BY <1>1 DEF LockParent, Holds, PathInv
<1>3. CASE ver[p] # versionParent[t]
  BY <1>2, <1>3, Restarted DEF LockParent, Upgrade
<1>4. CASE ver[p] = versionParent[t]
  <2>0. UNCHANGED <<tree, call, path, asked>> /\ Goto(t, "locknode") /\ ver' = [ver EXCEPT ![p] = ver[p] + 1]
    BY <1>4 DEF LockParent, Upgrade
  <2>1. /\ node' = node /\ parent' = parent /\ versionNode' = versionNode /\ result' = result
        /\ versionParent' = versionParent /\ op' = op /\ k' = k /\ v' = v
        /\ keys' = keys /\ slots' = slots /\ span' = span /\ type' = type /\ root' = root /\ used' = used
    BY <2>0 DEF tree, call, path
  <2>2. pc'[t] = "locknode"
    BY <1>1, <2>0 DEF Goto, PathType
  <2>3. p \in Node /\ ver[p] \in Nat /\ ver[p] % 2 = 0 /\ ver'[p] = ver[p] + 1
    BY <1>1, <1>2, <1>4, <2>0, OnPath DEF PathInv
  <2>4. /\ ver[node[t]] \in Nat /\ ver'[node[t]] \in Nat /\ ver[node[t]] <= ver'[node[t]]
        /\ ver'[node[t]] = ver[node[t]] \/ ver'[node[t]] = ver[node[t]] + 1
    <3>1. ver[node[t]] \in Nat
      BY <1>1, <1>2, OnPath DEF PathInv
    <3>2. ver'[node[t]] = ver[node[t]] \/ ver'[node[t]] = ver[node[t]] + 1
      BY <1>1, <1>2, <2>0, <2>3, OnPath
    <3> QED BY <3>1, <3>2, Flips
  <2>5. PathInv(t)'
    <3>1. versionNode[t] \in Nat /\ versionParent[t] \in Nat
      BY <1>1, OnPath
    <3>2. versionParent[t] <= ver'[p] /\ versionNode[t] <= ver'[node[t]]
      <4>1. versionParent[t] <= ver[p] /\ versionNode[t] <= ver[node[t]]
        BY <1>1, <1>2, <1>4 DEF PathInv
      <4> QED BY <4>1, <2>3, <2>4, <3>1, Passed
    <3> QED BY <1>1, <1>2, <2>1, <2>2, <3>2 DEF PathInv
  <2>6. NodeSame(t)' => NodeSame(t)
    <3>1. versionNode[t] \in Nat /\ versionNode[t] <= ver[node[t]]
      BY <1>1, <1>2, OnPath DEF PathInv
    <3>2. ver'[node[t]] = versionNode[t] => ver[node[t]] = versionNode[t]
      BY <2>4, <3>1, Passed
    <3> QED BY <3>2, <2>1 DEF NodeSame
  <2>7. RouteInv(t)' /\ FoundInv(t)'
    <3>1. /\ Child(parent[t], k[t])' = Child(parent[t], k[t])
          /\ Full(parent[t])' = Full(parent[t]) /\ Full(node[t])' = Full(node[t])
      BY <2>1, Views
    <3>2. RouteInv(t)'
      BY <3>1, <1>1, <1>2, <1>4, <2>1, <2>2, <2>6 DEF RouteInv, ParentSame
    <3> QED BY <3>1, <3>2, <1>1, <1>2, <1>4, <2>1, <2>2, <2>6 DEF FoundInv, ParentSame
  <2>8. PathType'
    BY <1>1, <2>0, <2>1 DEF PathType, Goto
  <2>9. \A u \in Thread : u # t => SameThread(u)
    BY <1>1, <2>0, <2>1 DEF PathType, Goto, SameThread
  <2>10. Holds(t)' = Holds(t) \cup {p}
    BY <1>2, <2>1, <2>2 DEF Holds
  <2> HIDE DEF p
  <2> QED BY <1>1, <1>2, <2>0, <2>1, <2>3, <2>5, <2>7, <2>8, <2>9, <2>10, Moves, ZenonT(30)
             DEF call, CallType
<1> QED BY <1>3, <1>4

\* The version of a node that a thread holds is not one that was read unlocked.
LEMMA HeldOdd ==
  ASSUME IInv, NEW t \in Thread, NEW n \in Node, n \in Holds(t)
  PROVE  ver[n] % 2 = 1
BY DEF IInv, LocksHeld, isLocked

\* The node to be split is locked, or the parent is let go and the call restarts.
LEMMA GoodLockNode ==
  ASSUME IInv, NEW t \in Thread, LockNode(t)
  PROVE  Good(t)
<1> DEFINE n == node[t]  p == parent[t]
<1>1. TypeOK /\ PathInv(t) /\ RouteInv(t) /\ FoundInv(t) /\ CallType /\ PathType /\ ver \in [Node -> Nat]
  BY Before
<1>2. pc[t] = "locknode" /\ Holds(t) = {p} \ {NoNode} /\ n # NoNode
  BY <1>1 DEF LockNode, Holds, PathInv
<1>3. CASE ver[n] # versionNode[t] /\ p = NoNode
  <2>1. Holds(t) = {}
    BY <1>2, <1>3
  <2> QED BY <1>2, <1>3, <2>1, Restarted DEF LockNode, Upgrade
<1>4. CASE ver[n] # versionNode[t] /\ p # NoNode
  <2>0. UNCHANGED <<tree, ver, call, path, asked>> /\ Goto(t, "unlockparent")
    BY <1>4 DEF LockNode, Upgrade
  <2>1. /\ node' = node /\ parent' = parent /\ versionNode' = versionNode /\ result' = result
        /\ versionParent' = versionParent /\ op' = op /\ k' = k /\ v' = v /\ ver' = ver
        /\ keys' = keys /\ slots' = slots /\ span' = span /\ type' = type /\ root' = root /\ used' = used
    BY <2>0 DEF tree, call, path
  <2>2. pc'[t] = "unlockparent"
    BY <1>1, <2>0 DEF Goto, PathType
  <2>3. PathInv(t)'
    BY <1>1, <1>2, <1>4, <2>1, <2>2 DEF PathInv
  <2>4. RouteInv(t)' /\ FoundInv(t)'
    BY <1>1, <1>2, <1>4, <2>1, <2>2
       DEF RouteInv, FoundInv, ParentSame, Child, Full, lowerBound
  <2>5. PathType'
    BY <1>1, <2>0, <2>1 DEF PathType, Goto
  <2>6. \A u \in Thread : u # t => SameThread(u)
    BY <1>1, <2>0, <2>1 DEF PathType, Goto, SameThread
  <2>7. Holds(t)' = Holds(t)
    <3>1. Holds(t)' = {p}
      BY <2>1, <2>2 DEF Holds
    <3> QED BY <3>1, <1>2, <1>4
  <2> QED BY <1>1, <1>2, <2>0, <2>1, <2>3, <2>4, <2>5, <2>6, <2>7, Moves, ZenonT(30)
             DEF call, CallType
<1>5. CASE ver[n] = versionNode[t]
  <2>0. UNCHANGED <<tree, call, path, asked>> /\ Goto(t, "split") /\ ver' = [ver EXCEPT ![n] = ver[n] + 1]
    BY <1>5 DEF LockNode, Upgrade
  <2>1. /\ node' = node /\ parent' = parent /\ versionNode' = versionNode /\ result' = result
        /\ versionParent' = versionParent /\ op' = op /\ k' = k /\ v' = v
        /\ keys' = keys /\ slots' = slots /\ span' = span /\ type' = type /\ root' = root /\ used' = used
    BY <2>0 DEF tree, call, path
  <2>2. pc'[t] = "split"
    BY <1>1, <2>0 DEF Goto, PathType
  <2>3. n \in Node /\ ver[n] \in Nat /\ ver[n] % 2 = 0
    BY <1>1, <1>2, <1>5, OnPath, ZenonT(30) DEF PathInv
  <2>4. p # NoNode => p # n /\ p \in Node /\ ver'[p] = ver[p]
    <3>1. ASSUME p # NoNode PROVE p \in Node /\ ver[p] % 2 = 1
      <4>1. p \in Node /\ p \in Holds(t)
        BY <3>1, <1>1, <1>2, OnPath
      <4> QED BY <4>1, HeldOdd
    <3>2. p # NoNode => p # n /\ p \in Node
      BY <3>1, <2>3, Parity
    <3> QED BY <3>2, <1>1, <2>0, <2>3
  <2>5. PathInv(t)'
    BY <1>1, <1>2, <2>1, <2>2, <2>4 DEF PathInv
  <2>6. RouteInv(t)'
    BY <1>1, <1>2, <1>5, <2>1, <2>2 DEF RouteInv, NodeSame, Child, lowerBound
  <2>7. FoundInv(t)'
    BY <1>1, <1>2, <1>5, <2>1, <2>2 DEF FoundInv, NodeSame, Full
  <2>8. PathType'
    BY <1>1, <2>0, <2>1 DEF PathType, Goto
  <2>9. \A u \in Thread : u # t => SameThread(u)
    BY <1>1, <2>0, <2>1 DEF PathType, Goto, SameThread
  <2>10. Holds(t)' = Holds(t) \cup {n}
    <3>1. Holds(t)' = {n, p} \ {NoNode}
      BY <2>1, <2>2 DEF Holds
    <3> QED BY <3>1, <1>2
  <2> HIDE DEF n
  <2> QED BY <1>1, <1>2, <2>0, <2>1, <2>3, <2>5, <2>6, <2>7, <2>8, <2>9, <2>10, Moves, ZenonT(30)
             DEF call, CallType
<1> QED BY <1>3, <1>4, <1>5

\* After a split the node is let go.
LEMMA GoodUnlockNode ==
  ASSUME IInv, NEW t \in Thread, UnlockNode(t)
  PROVE  Good(t)
<1> DEFINE n == node[t]  p == parent[t]
<1>1. TypeOK /\ PathInv(t) /\ RouteInv(t) /\ FoundInv(t) /\ CallType /\ PathType /\ ver \in [Node -> Nat]
  BY Before
<1>2. pc[t] = "unlocknode" /\ Holds(t) = {n, p} \ {NoNode} /\ n # NoNode /\ n # p
  BY <1>1 DEF UnlockNode, Holds, PathInv
<1>n. n \in Node /\ n \in Holds(t) /\ ver' = [ver EXCEPT ![n] = ver[n] + 1]
  BY <1>1, <1>2, OnPath DEF UnlockNode, writeUnlock
<1>3. CASE p = NoNode
  <2>1. Holds(t) = {n}
    BY <1>2, <1>3
  <2> HIDE DEF n
  <2> QED BY <1>2, <1>3, <1>n, <2>1, Restarted DEF UnlockNode
<1>4. CASE p # NoNode
  <2>0. UNCHANGED <<tree, call, path, asked>> /\ Goto(t, "unlockparent")
    BY <1>4 DEF UnlockNode
  <2>1. /\ node' = node /\ parent' = parent /\ versionNode' = versionNode /\ result' = result
        /\ versionParent' = versionParent /\ op' = op /\ k' = k /\ v' = v
        /\ keys' = keys /\ slots' = slots /\ span' = span /\ type' = type /\ root' = root /\ used' = used
    BY <2>0 DEF tree, call, path
  <2>2. pc'[t] = "unlockparent"
    BY <1>1, <2>0 DEF Goto, PathType
  <2>3. p \in Node /\ ver[p] % 2 = 1 /\ ver'[p] = ver[p]
    <3>1. p \in Node /\ p \in Holds(t)
      BY <1>1, <1>2, <1>4, OnPath
    <3> QED BY <3>1, <1>1, <1>2, <1>n, HeldOdd
  <2>4. PathInv(t)'
    BY <1>1, <1>2, <1>4, <2>1, <2>2, <2>3 DEF PathInv
  <2>5. ~ParentSame(t)'
    <3>1. versionParent[t] % 2 = 0
      BY <1>1, <1>4 DEF PathInv
    <3>2. ver'[p] # versionParent[t]
      BY <2>3, <3>1, Parity
    <3> QED BY <3>2, <2>1 DEF ParentSame
  <2>6. RouteInv(t)' /\ FoundInv(t)'
    BY <1>4, <2>1, <2>2, <2>5 DEF RouteInv, FoundInv
  <2>7. PathType'
    BY <1>1, <2>0, <2>1 DEF PathType, Goto
  <2>8. \A u \in Thread : u # t => SameThread(u)
    BY <1>1, <2>0, <2>1 DEF PathType, Goto, SameThread
  <2>9. Holds(t)' = Holds(t) \ {n}
    <3>1. Holds(t)' = {p}
      BY <2>1, <2>2 DEF Holds
    <3> QED BY <3>1, <1>2, <1>4
  <2> HIDE DEF n
  <2> QED BY <1>1, <1>2, <1>n, <2>0, <2>1, <2>4, <2>6, <2>7, <2>8, <2>9, Moves, ZenonT(30)
             DEF call, CallType
<1> QED BY <1>3, <1>4

\* The parent, or the leaf, is let go and the call restarts.
LEMMA GoodGiveUp ==
  ASSUME IInv, NEW t \in Thread, GiveUp(t) \/ UnlockParent(t)
  PROVE  Good(t)
<1>1. TypeOK /\ PathInv(t)
  BY Before
<1>2. CASE GiveUp(t)
  <2>1. pc[t] = "giveup" /\ Holds(t) = {node[t]} /\ node[t] # NoNode
    BY <1>1, <1>2 DEF GiveUp, Holds, PathInv
  <2>2. node[t] \in Node
    BY <2>1, <1>1, OnPath
  <2> QED BY <2>1, <2>2, <1>2, Restarted DEF GiveUp, writeUnlock
<1>3. CASE UnlockParent(t)
  <2>1. pc[t] = "unlockparent" /\ Holds(t) = {parent[t]} /\ parent[t] # NoNode
    BY <1>1, <1>3 DEF UnlockParent, Holds, PathInv
  <2>2. parent[t] \in Node
    BY <2>1, <1>1, OnPath
  <2> QED BY <2>1, <2>2, <1>3, Restarted DEF UnlockParent, writeUnlock
<1> QED BY <1>2, <1>3

\* A lookup reads the payload.
LEMMA GoodReadLeaf ==
  ASSUME IInv, NEW t \in Thread, ReadLeaf(t)
  PROVE  Good(t)
<1> DEFINE n == node[t]
<1>1. TypeOK /\ PathInv(t) /\ RouteInv(t) /\ FoundInv(t) /\ CallType /\ PathType
  BY Before
<1>2. pc[t] = "read" /\ Holds(t) = {} /\ n # NoNode /\ op[t] = "lookup"
  BY <1>1 DEF ReadLeaf, Holds, PathInv
<1>3. UNCHANGED <<tree, ver, load, calls, op, k, path, asked>> /\ Goto(t, "recheck")
  BY DEF ReadLeaf
<1>4. PICK y \in Value \cup {Absent} :
        /\ isLocked(n) \/ y = Payload(n, k[t])
        /\ v' = [v EXCEPT ![t] = y]
  BY DEF ReadLeaf
<1>5. /\ node' = node /\ parent' = parent /\ versionNode' = versionNode /\ result' = result
      /\ versionParent' = versionParent /\ op' = op /\ k' = k /\ ver' = ver
      /\ keys' = keys /\ slots' = slots /\ span' = span /\ type' = type /\ root' = root /\ used' = used
  BY <1>3 DEF tree, path
<1>6. pc'[t] = "recheck" /\ v'[t] = y
  BY <1>1, <1>3, <1>4 DEF Goto, PathType, CallType
<1>7. PathInv(t)'
  BY <1>1, <1>2, <1>5, <1>6 DEF PathInv
<1>8. NodeSame(t) => y = Payload(n, k[t])
  <2>1. versionNode[t] % 2 = 0
    BY <1>1, <1>2 DEF PathInv
  <2> QED BY <2>1, <1>4, Parity DEF NodeSame, isLocked
<1>9. RouteInv(t)'
  BY <1>1, <1>2, <1>5, <1>6 DEF RouteInv, ParentSame, NodeSame, Child, lowerBound
<1>10. Payload(n, k[t])' = Payload(n, k[t])
  BY <1>5, Views
<1>11. FoundInv(t)'
  BY <1>2, <1>5, <1>6, <1>8, <1>10 DEF FoundInv, NodeSame
<1>12. PathType'
  BY <1>1, <1>3, <1>5 DEF PathType, Goto
<1>13. (\A u \in Thread : u # t => SameThread(u)) /\ \A u \in Thread : op[u] = "insert" => v'[u] = v[u]
  BY <1>1, <1>2, <1>3, <1>4, <1>5 DEF PathType, CallType, Goto, SameThread
<1>14. Holds(t)' = Holds(t)
  BY <1>2, <1>6, ZenonT(30) DEF Holds
<1>15. v' \in [Thread -> Value \cup {Absent}]
  BY <1>1, <1>4 DEF CallType
<1> QED BY <1>2, <1>3, <1>5, <1>7, <1>9, <1>11, <1>12, <1>13, <1>14, <1>15, Moves, ZenonT(30)

\* The lookup confirms the parent, or restarts.
LEMMA GoodRecheckParent ==
  ASSUME IInv, NEW t \in Thread, RecheckParent(t)
  PROVE  Good(t)
<1> DEFINE n == node[t]
<1>1. TypeOK /\ PathInv(t) /\ RouteInv(t) /\ FoundInv(t) /\ CallType /\ PathType
  BY Before
<1>2. pc[t] = "recheck" /\ Holds(t) = {} /\ n # NoNode
  BY <1>1 DEF RecheckParent, Holds, PathInv
<1>3. CASE ~ParentUnchanged(t)
  BY <1>2, <1>3, Restarted DEF RecheckParent
<1>4. CASE ParentUnchanged(t)
  <2>0. UNCHANGED <<tree, ver, call, path, asked>> /\ Goto(t, "return")
    BY <1>4 DEF RecheckParent
  <2>1. /\ node' = node /\ parent' = parent /\ versionNode' = versionNode /\ result' = result
        /\ versionParent' = versionParent /\ op' = op /\ k' = k /\ v' = v /\ ver' = ver
        /\ keys' = keys /\ slots' = slots /\ span' = span /\ type' = type /\ root' = root /\ used' = used
    BY <2>0 DEF tree, call, path
  <2>2. pc'[t] = "return"
    BY <1>1, <2>0 DEF Goto, PathType
  <2>3. PathInv(t)'
    BY <1>1, <1>2, <2>1, <2>2 DEF PathInv
  <2>4. NodeSame(t) => k[t] \in span[n]
    BY <1>2, <1>4, Reached
  <2>5. RouteInv(t)'
    BY <1>1, <1>2, <2>1, <2>2, <2>4 DEF RouteInv, ParentSame, NodeSame, Child, lowerBound
  <2>6. Payload(n, k[t])' = Payload(n, k[t]) /\ Full(parent[t])' = Full(parent[t])
    BY <2>1, Views
  <2>7. FoundInv(t)'
    BY <1>1, <1>2, <2>1, <2>2, <2>6 DEF FoundInv, ParentSame, NodeSame
  <2>8. PathType'
    BY <1>1, <2>0, <2>1 DEF PathType, Goto
  <2>9. \A u \in Thread : u # t => SameThread(u)
    BY <1>1, <2>0, <2>1 DEF PathType, Goto, SameThread
  <2>10. Holds(t)' = Holds(t)
    BY <1>2, <2>2, ZenonT(30) DEF Holds
  <2> QED BY <1>1, <1>2, <2>0, <2>1, <2>3, <2>5, <2>7, <2>8, <2>9, <2>10, Moves, ZenonT(30)
             DEF call, CallType
<1> QED BY <1>3, <1>4

\* The facts about a call that has ended.
LEMMA Ended ==
  ASSUME IInv, NEW t \in Thread, Leave(t, "idle"), UNCHANGED <<tree, load, calls, op, k>>,
         v' = [v EXCEPT ![t] = Absent]
  PROVE  /\ pc'[t] = "idle" /\ (\A u \in Thread : u # t => SameThread(u))
         /\ Holds(t)' = {} /\ (\A u \in Thread : u # t => Holds(u)' = Holds(u))
         /\ PathInv(t)' /\ RouteInv(t)' /\ FoundInv(t)'
         /\ TreeType' /\ PathType' /\ v' \in [Thread -> Value \cup {Absent}]
         /\ TreeInv' /\ Contents' = Contents
<1>1. TypeOK /\ TreeInv /\ TreeType /\ CallType /\ PathType
  BY Before
<1>2. pc'[t] = "idle" /\ node'[t] = NoNode /\ parent'[t] = NoNode
  BY <1>1 DEF Leave, Goto, PathType
<1>3. \A u \in Thread : u # t => SameThread(u)
  BY <1>1 DEF Leave, Goto, PathType, CallType, SameThread
<1>4. Holds(t)' = {}
  BY <1>2 DEF Holds
<1>5. \A u \in Thread : u # t => Holds(u)' = Holds(u)
  BY <1>3, OthersSame
<1>6. PathInv(t)' /\ RouteInv(t)' /\ FoundInv(t)'
  BY <1>2 DEF PathInv, RouteInv, FoundInv
<1>7. TreeType' /\ PathType' /\ v' \in [Thread -> Value \cup {Absent}]
  BY <1>1 DEF TreeType, PathType, CallType, tree, Leave, Goto
<1>8. TreeInv' /\ Contents' = Contents
  BY <1>1, SameTree
<1> QED BY <1>2, <1>3, <1>4, <1>5, <1>6, <1>7, <1>8

\* An insert returns.
LEMMA GoodUnlock ==
  ASSUME IInv, NEW t \in Thread, Unlock(t)
  PROVE  Good(t)
<1> DEFINE n == node[t]
<1>1. TypeOK /\ LocksHeld /\ PathInv(t) /\ AskInv(t) /\ CallType
  BY Before
<1>2. pc[t] = "unlock" /\ Holds(t) = {n} /\ n # NoNode /\ op[t] = "insert"
  BY <1>1 DEF Unlock, Holds, PathInv
<1>3. n \in Node /\ ver' = [ver EXCEPT ![n] = ver[n] + 1]
  BY <1>1, <1>2, OnPath DEF Unlock, writeUnlock
<1>4. /\ Leave(t, "idle") /\ UNCHANGED <<tree, load, calls, op, k>> /\ v' = [v EXCEPT ![t] = Absent]
      /\ result' = result /\ asked' = asked
  BY DEF Unlock
<1>5. /\ pc'[t] = "idle" /\ (\A u \in Thread : u # t => SameThread(u))
      /\ Holds(t)' = {} /\ (\A u \in Thread : u # t => Holds(u)' = Holds(u))
      /\ PathInv(t)' /\ RouteInv(t)' /\ FoundInv(t)'
      /\ TreeType' /\ PathType' /\ v' \in [Thread -> Value \cup {Absent}]
      /\ TreeInv' /\ Contents' = Contents
  BY <1>4, Ended
<1>6. LocksHeld' /\ ver' \in [Node -> Nat] /\ \A m \in Node : ver'[m] \in Nat /\ ver[m] <= ver'[m]
  <2>1. n \in Holds(t) /\ Holds(t)' = Holds(t) \ {n}
    BY <1>2, <1>5
  <2> HIDE DEF n
  <2> QED BY <2>1, <1>1, <1>3, <1>5, Locking
<1>7. TypeOK'
  <2>1. CallType'
    BY <1>1, <1>4, <1>5 DEF CallType
  <2> QED BY <2>1, <1>5, <1>6, TypesNext
<1>8. Frame(t)
  BY <1>1, <1>4, <1>5, <1>6, Framed
<1>9. ASSUME NEW u \in Thread PROVE AskInv(u)'
  <2>1. AskInv(u)
    BY Before
  <2>2. CASE u = t
    BY <2>1, <2>2, <1>2, <1>4, <1>5 DEF AskInv
  <2>3. CASE u # t
    <3>1. pc'[u] = pc[u] /\ op'[u] = op[u] /\ k'[u] = k[u]
      BY <2>3, <1>5 DEF SameThread
    <3> QED BY <2>1, <3>1, <1>4, <1>5 DEF AskInv
  <2> QED BY <2>2, <2>3
<1>10. Pending' = Pending
  <2>1. ASSUME NEW u \in Thread
        PROVE  /\ pc'[u] \in {"idle", "unlock"} <=> pc[u] \in {"idle", "unlock"}
               /\ op'[u] = op[u] /\ k'[u] = k[u]
               /\ pc[u] \notin {"idle", "unlock"} => v'[u] = v[u]
    BY <1>2, <1>4, <1>5 DEF SameThread
  <2> QED BY <2>1 DEF Pending
<1> QED BY <1>4, <1>5, <1>6, <1>7, <1>8, <1>9, <1>10 DEF Good, M!vars

\* A lookup returns what the map has for its key, or restarts.
LEMMA GoodReturn ==
  ASSUME IInv, NEW t \in Thread, Return(t)
  PROVE  Good(t)
<1> DEFINE n == node[t]
<1>1. TypeOK /\ LocksHeld /\ TreeInv /\ PathInv(t) /\ RouteInv(t) /\ FoundInv(t) /\ AskInv(t) /\ CallType
      /\ ver \in [Node -> Nat]
  BY Before
<1>2. pc[t] = "return" /\ Holds(t) = {} /\ n # NoNode /\ op[t] = "lookup" /\ type[n] = "leaf"
  BY <1>1 DEF Return, Holds, PathInv
<1>3. CASE ver[n] # versionNode[t]
  <2>1. Restart(t) /\ UNCHANGED <<v, result, asked>> /\ UNCHANGED <<tree, ver, load, calls, op, k>>
    BY <1>3 DEF Return
  <2> QED BY <1>2, <2>1, Restarted DEF call
<1>4. CASE ver[n] = versionNode[t]
  <2>1. /\ Leave(t, "idle") /\ UNCHANGED <<tree, load, calls, op, k>> /\ v' = [v EXCEPT ![t] = Absent]
        /\ result' = [result EXCEPT ![t] = v[t]] /\ asked' = [asked EXCEPT ![t] = {}] /\ ver' = ver
    BY <1>4 DEF Return
  <2>2. /\ pc'[t] = "idle" /\ (\A u \in Thread : u # t => SameThread(u))
        /\ Holds(t)' = {} /\ (\A u \in Thread : u # t => Holds(u)' = Holds(u))
        /\ PathInv(t)' /\ RouteInv(t)' /\ FoundInv(t)'
        /\ TreeType' /\ PathType' /\ v' \in [Thread -> Value \cup {Absent}]
        /\ TreeInv' /\ Contents' = Contents
    BY <2>1, Ended
  <2>3. LocksHeld' /\ ver' \in [Node -> Nat] /\ \A m \in Node : ver'[m] \in Nat /\ ver[m] <= ver'[m]
    <3>1. ver' = ver /\ Holds(t)' = Holds(t)
      BY <1>2, <2>1, <2>2
    <3> QED BY <3>1, <1>1, <2>2, Locking
  <2>4. TypeOK'
    <3>1. CallType'
      BY <1>1, <2>1, <2>2 DEF CallType
    <3> QED BY <3>1, <2>2, <2>3, TypesNext
  <2>5. Frame(t)
    BY <1>1, <2>1, <2>2, <2>3, Framed
  <2>6. ASSUME NEW u \in Thread PROVE AskInv(u)'
    <3>1. AskInv(u)
      BY Before
    <3>2. CASE u = t
      BY <3>2, <1>1, <1>2, <2>1, <2>2 DEF AskInv, CallType
    <3>3. CASE u # t
      <4>1. pc'[u] = pc[u] /\ op'[u] = op[u] /\ k'[u] = k[u] /\ asked'[u] = asked[u]
        BY <3>3, <1>1, <2>1, <2>2 DEF SameThread, CallType
      <4> QED BY <3>1, <4>1, <2>2 DEF AskInv
    <3> QED BY <3>2, <3>3
  <2>7. Pending' = Pending
    <3>1. ASSUME NEW u \in Thread
          PROVE  /\ op'[u] = op[u] /\ k'[u] = k[u]
                 /\ op[u] = "insert" => v'[u] = v[u] /\ pc'[u] = pc[u]
      BY <1>2, <2>1, <2>2 DEF SameThread
    <3> QED BY <3>1 DEF Pending
  <2>8. Contents[k[t]] = v[t]
    <3>1. k[t] \in span[n] /\ v[t] = Payload(n, k[t])
      BY <1>1, <1>2, <1>4 DEF RouteInv, FoundInv, NodeSame
    <3>2. n \in 1 .. used /\ k[t] \in Key
      BY <1>1, <1>2, OnPath DEF CallType
    <3>3. LeafOf(k[t]) = n
      BY <1>1, <1>2, <3>1, <3>2, InLeaf DEF TreeInv
    <3> QED BY <3>1, <3>2, <3>3 DEF Contents
  <2>9. M!Answer(t)
    <3>1. <<k[t], v[t]>> \in asked[t]
      BY <1>1, <1>2, <2>8 DEF AskInv
    <3>2. <<k[t], v[t]>>[2] = v[t]
      OBVIOUS
    <3> QED BY <3>1, <3>2, <2>1, <2>2, <2>7 DEF M!Answer
  <2> QED BY <2>2, <2>3, <2>4, <2>5, <2>6, <2>9 DEF Good, M!Next
<1> QED BY <1>3, <1>4

\* An insert writes its pair, or gives up.
LEMMA GoodWriteLeaf ==
  ASSUME IInv, NEW t \in Thread, WriteLeaf(t)
  PROVE  Good(t)
<1> DEFINE n == node[t]
<1>1. TypeOK /\ LocksHeld /\ TreeInv /\ PathInv(t) /\ RouteInv(t) /\ FoundInv(t) /\ AskInv(t)
      /\ TreeType /\ CallType /\ PathType /\ ver \in [Node -> Nat]
  BY Before
<1>2. pc[t] = "write" /\ Holds(t) = {n} /\ n # NoNode /\ op[t] = "insert" /\ type[n] = "leaf"
  BY <1>1 DEF WriteLeaf, Holds, PathInv
<1>u. UNCHANGED <<root, used, type, span, ver, call, path>>
  BY DEF WriteLeaf
<1>v. /\ node' = node /\ parent' = parent /\ versionNode' = versionNode /\ result' = result
      /\ versionParent' = versionParent /\ load' = load /\ calls' = calls
      /\ op' = op /\ k' = k /\ v' = v /\ ver' = ver
      /\ span' = span /\ type' = type /\ root' = root /\ used' = used
  BY <1>u DEF call, path
<1>3. CASE ~ParentUnchanged(t)
  <2>1. Goto(t, "giveup") /\ UNCHANGED <<keys, slots, asked>>
    BY <1>3 DEF WriteLeaf
  <2>2. pc'[t] = "giveup"
    BY <1>1, <2>1 DEF Goto, PathType
  <2>3. PathInv(t)'
    BY <1>1, <1>2, <1>v, <2>1, <2>2 DEF PathInv
  <2>4. RouteInv(t)' /\ FoundInv(t)'
    BY <1>1, <1>2, <1>v, <2>1, <2>2
       DEF RouteInv, FoundInv, ParentSame, Child, Full, lowerBound
  <2>5. PathType'
    BY <1>1, <1>v, <2>1 DEF PathType, Goto
  <2>6. \A u \in Thread : u # t => SameThread(u)
    BY <1>1, <1>v, <2>1 DEF PathType, Goto, SameThread
  <2>7. Holds(t)' = Holds(t)
    BY <1>2, <1>v, <2>2 DEF Holds
  <2> QED BY <1>1, <1>2, <1>v, <2>1, <2>3, <2>4, <2>5, <2>6, <2>7, Moves, ZenonT(30)
             DEF tree, CallType
<1>4. CASE ParentUnchanged(t)
  <2>1. LeafInsert(n, k[t], v[t]) /\ asked' = M!Heard(k[t], v[t]) /\ Goto(t, "unlock")
    BY <1>4 DEF WriteLeaf
  <2>2. pc'[t] = "unlock" /\ \A u \in Thread : u # t => pc'[u] = pc[u]
    BY <1>1, <2>1 DEF Goto, PathType
  <2>3. n \in 1 .. used /\ n \in Node /\ ~Full(n) /\ k[t] \in span[n] /\ v[t] \in Value /\ k[t] \in Key
    <3>1. k[t] \in span[n]
      BY <1>2, <1>4, Reached
    <3>2. n \in 1 .. used /\ n \in Node
      BY <1>1, <1>2, OnPath
    <3> QED BY <3>1, <3>2, <1>1, <1>2 DEF FoundInv, PathInv, CallType
  <2>4. /\ keys' \in [Node -> Seq(Key)] /\ slots' \in [Node -> Seq(Node \cup Value)]
        /\ \A m \in Node : m # n => keys'[m] = keys[m] /\ slots'[m] = slots[m]
        /\ TreeInv'
        /\ Contents' = [Contents EXCEPT ![k[t]] = v[t]]
    <3>1. UNCHANGED <<root, used, type, span>>
      BY <1>v
    <3> HIDE DEF n
    <3> QED BY <1>1, <1>2, <2>1, <2>3, <3>1, WriteTree, ZenonT(60)
  <2>5. \A u \in Thread : u # t => SameThread(u)
    BY <1>v, <2>2 DEF SameThread
  <2>6. Frame(t)
    <3>1. used \in Nat /\ used <= used
          /\ \A m \in 1 .. used : m \in Node /\ ver[m] \in Nat /\ ver[m] <= ver[m]
      BY <1>1, Still
    <3> QED BY <3>1, <1>2, <1>v, <2>4, <2>5 DEF Frame, SameNode
  <2>7. LocksHeld' /\ ver' \in [Node -> Nat]
    <3>1. Holds(t)' = Holds(t)
      BY <1>2, <1>v, <2>2 DEF Holds
    <3>2. \A u \in Thread : u # t => Holds(u)' = Holds(u)
      BY <2>5, OthersSame
    <3> HIDE DEF n
    <3> QED BY <3>1, <3>2, <1>1, <1>v, Locking
  <2>8. PathInv(t)'
    BY <1>1, <1>2, <1>v, <2>2 DEF PathInv
  <2>9. \A m \in Node : type[m] = "inner" => keys'[m] = keys[m] /\ slots'[m] = slots[m]
    BY <1>2, <2>4
  <2>10. RouteInv(t)' /\ FoundInv(t)'
    <3>1. parent[t] # NoNode => SameNode(parent[t])
      BY <1>1, <1>v, <2>9, OnPath DEF PathInv, SameNode
    <3> QED BY <3>1, <1>1, <1>2, <1>v, <2>2
               DEF RouteInv, FoundInv, ParentSame, SameNode, Child, Full, lowerBound
  <2>11. asked' \in [Thread -> SUBSET (Key \X (Value \cup {Absent}))]
    <3> DEFINE P == Key \X (Value \cup {Absent})
    <3>1. <<k[t], v[t]>> \in P
      BY <2>3
    <3>2. asked \in [Thread -> SUBSET P]
      BY <1>1 DEF CallType
    <3> HIDE DEF P
    <3>3. ASSUME NEW u \in Thread
          PROVE  asked[u] \cup {p \in {<<k[t], v[t]>>} : \E q \in asked[u] : q[1] = k[t]} \in SUBSET P
      BY <3>1, <3>2
    <3>4. asked' \in [Thread -> SUBSET P]
      BY <2>1, <3>3 DEF M!Heard
    <3> QED BY <3>4 DEF P
  <2>12. TypeOK'
    <3>1. CallType'
      BY <1>1, <1>v, <2>11 DEF CallType
    <3>2. PathType'
      BY <1>1, <1>v, <2>1 DEF PathType, Goto
    <3>3. TreeType'
      <4>1. \A m \in 1 .. used : m \in Node
        BY <1>1, NodeTypes
      <4> QED BY <4>1, <1>1, <1>v, <2>4, <2>9 DEF TreeType
    <3> QED BY <3>1, <3>2, <3>3, <2>7, TypesNext
  <2>13. \A x \in Key : x # k[t] => Contents'[x] = Contents[x]
    <3>1. DOMAIN Contents = Key
      BY DEF Contents
    <3> HIDE DEF Contents
    <3> QED BY <3>1, <2>4
  <2>14. Contents'[k[t]] = v[t]
    <3>1. DOMAIN Contents = Key
      BY DEF Contents
    <3> HIDE DEF Contents
    <3> QED BY <3>1, <2>3, <2>4
  <2>15. ASSUME NEW u \in Thread PROVE AskInv(u)'
    <3>1. AskInv(u)
      BY Before
    <3>2. asked'[u] = asked[u] \cup {p \in {<<k[t], v[t]>>} : \E q \in asked[u] : q[1] = k[t]}
      BY <2>1 DEF M!Heard
    <3>3. (pc'[u] # "idle" /\ pc[u] # "idle") \/ pc'[u] = pc[u]
      BY <1>2, <2>2
    <3>4. asked[u] = {} => asked'[u] = {}
      BY <3>2
    <3>5. ASSUME pc[u] # "idle", op[u] = "lookup"
          PROVE  <<k[u], Contents'[k[u]]>> \in asked'[u]
      <4>1. <<k[u], Contents[k[u]]>> \in asked[u] /\ k[u] \in Key
        BY <3>1, <3>5, <1>1 DEF AskInv, CallType
      <4>2. CASE k[u] = k[t]
        <5>1. <<k[u], Contents[k[u]]>>[1] = k[t]
          BY <4>2
        <5>2. <<k[t], v[t]>> \in asked'[u]
          BY <5>1, <4>1, <3>2
        <5> QED BY <5>2, <4>2, <2>14
      <4>3. CASE k[u] # k[t]
        <5>1. Contents'[k[u]] = Contents[k[u]]
          BY <4>1, <4>3, <2>13
        <5> QED BY <5>1, <4>1, <3>2
      <4> QED BY <4>2, <4>3
    <3> QED BY <3>1, <3>3, <3>4, <3>5, <1>v, <1>2, <2>2 DEF AskInv
  <2>16. M!Store(t)
    <3>1. Pending[t] = {<<k[t], v[t]>>}
      BY <1>2 DEF Pending
    <3>2. Pending' = [Pending EXCEPT ![t] = {}]
      <4>1. ASSUME NEW u \in Thread
            PROVE  /\ u # t => pc'[u] = pc[u]
                   /\ op'[u] = op[u] /\ k'[u] = k[u] /\ v'[u] = v[u]
        BY <1>v, <2>2
      <4> QED BY <4>1, <2>2 DEF Pending
    <3>3. <<k[t], v[t]>>[1] = k[t] /\ <<k[t], v[t]>>[2] = v[t]
      OBVIOUS
    <3> HIDE DEF Pending, Contents, M!Heard
    <3> QED BY <3>1, <3>2, <3>3, <2>1, <2>4, <1>v DEF M!Store
  <2> QED BY <2>4, <2>6, <2>7, <2>8, <2>10, <2>12, <2>15, <2>16 DEF Good, M!Next
<1> QED BY <1>3, <1>4

\* A full node is split.
LEMMA GoodSplitNode ==
  ASSUME IInv, NEW t \in Thread, SplitNode(t)
  PROVE  Good(t)
<1> DEFINE a == node[t]  p == parent[t]
<1>1. TypeOK /\ LocksHeld /\ TreeInv /\ PathInv(t) /\ RouteInv(t) /\ FoundInv(t)
      /\ TreeType /\ CallType /\ PathType /\ ver \in [Node -> Nat]
  BY Before
<1>2. /\ pc[t] = "split" /\ Holds(t) = {a, p} \ {NoNode} /\ a # NoNode /\ a # p
      /\ op[t] = "insert" /\ Full(a)
  BY <1>1 DEF SplitNode, Holds, PathInv, FoundInv
<1>3. UNCHANGED <<ver, call, path, asked>> /\ Goto(t, "unlocknode")
  BY DEF SplitNode
<1>4. /\ node' = node /\ parent' = parent /\ versionNode' = versionNode /\ result' = result
      /\ versionParent' = versionParent /\ load' = load /\ calls' = calls
      /\ op' = op /\ k' = k /\ v' = v /\ ver' = ver /\ asked' = asked
  BY <1>3 DEF call, path
<1>5. pc'[t] = "unlocknode" /\ \A u \in Thread : u # t => pc'[u] = pc[u]
  BY <1>1, <1>3 DEF Goto, PathType
<1>6. a \in 1 .. used /\ a \in Node
  BY <1>1, <1>2, OnPath
<1>7. PICK q : SplitDone(a, q) /\ (q \in {a, p} \ {NoNode}) /\ (root' = root \/ root = a)
  <2>1. CASE SplitChild(t)
    <3>1. p # NoNode
      BY <2>1 DEF SplitChild
    <3>2. p \in 1 .. used /\ type[p] = "inner"
      BY <3>1, <1>1, OnPath DEF PathInv
    <3>3. k[t] \in span[p] /\ a = Child(p, k[t]) /\ ~Full(p)
      BY <3>1, <1>1, <1>2 DEF RouteInv, FoundInv
    <3>4. SplitDone(a, p) /\ root' = root
      BY <2>1, <3>2, <3>3, <1>1, <1>2, <1>6, ChildSplit
    <3> QED BY <3>1, <3>4
  <2>2. CASE makeRoot(t)
    <3>1. p = NoNode
      BY <2>2 DEF makeRoot
    <3>2. a = root
      BY <3>1, <1>1, <1>2 DEF RouteInv
    <3>3. SplitDone(a, a)
      BY <2>2, <3>2, <1>1, <1>2, RootSplit
    <3> QED BY <3>2, <3>3, <1>2
  <2> QED BY <2>1, <2>2 DEF SplitNode
<1>8. /\ used <= used' /\ used' \in Node /\ used \in Nat /\ used' \in Nat
      /\ \A n \in 1 .. used : type'[n] = type[n]
      /\ \A n \in 1 .. used : n \notin Holds(t) => SameNode(n)
      /\ root' # root => root \in Holds(t)
  <2>1. used \in Nat /\ used' \in Nat
    <3>1. used' \in Node
      BY <1>7 DEF SplitDone
    <3> QED BY <3>1, <1>1, Still, NodeNat
  <2> QED BY <2>1, <1>2, <1>7 DEF SplitDone, SameNode
<1>9. \A u \in Thread : u # t => SameThread(u)
  BY <1>4, <1>5 DEF SameThread
<1>10. Frame(t)
  <2>1. \A m \in 1 .. used : ver'[m] \in Nat /\ ver[m] <= ver'[m]
    BY <1>1, <1>4, Still
  <2> QED BY <2>1, <1>8, <1>9 DEF Frame
<1>11. LocksHeld'
  <2>1. Holds(t)' = Holds(t)
    BY <1>2, <1>4, <1>5 DEF Holds
  <2>2. \A u \in Thread : u # t => Holds(u)' = Holds(u)
    BY <1>9, OthersSame
  <2> QED BY <2>1, <2>2, <1>1, <1>4, Locking
<1>12. PathInv(t)'
  <2>1. p # NoNode => type'[p] = type[p]
    BY <1>1, <1>8, OnPath, ZenonT(30)
  <2> QED BY <2>1, <1>1, <1>2, <1>4, <1>5 DEF PathInv
<1>13. p # NoNode => ~ParentSame(t)'
  <2>1. ASSUME p # NoNode PROVE ver[p] % 2 = 1 /\ versionParent[t] % 2 = 0
    <3>1. p \in Node /\ p \in Holds(t)
      BY <2>1, <1>1, <1>2, OnPath
    <3> QED BY <2>1, <3>1, <1>1, HeldOdd DEF PathInv
  <2> QED BY <2>1, <1>4, Parity DEF ParentSame
<1>14. RouteInv(t)' /\ FoundInv(t)'
  BY <1>4, <1>5, <1>13 DEF RouteInv, FoundInv
<1>15. TypeOK'
  <2>1. CallType'
    BY <1>1, <1>4 DEF CallType
  <2>2. PathType'
    <3>1. \A n \in 1 .. used : n \in 1 .. used'
      BY <1>8, SMT
    <3>2. /\ node' \in [Thread -> (1 .. used') \cup {NoNode}]
          /\ parent' \in [Thread -> (1 .. used') \cup {NoNode}]
      BY <3>1, <1>1, <1>4 DEF PathType
    <3> QED BY <3>2, <1>1, <1>3, <1>4 DEF PathType, Goto
  <2>3. TreeType'
    <3>1. \A n \in 1 .. used' : n \in Node
      BY <1>8, BTreeOLCAssumption, SMTT(30) DEF Node
    <3>2. \A n \in 1 .. used' : DOMAIN slots'[n] = 1 .. Len(slots'[n])
      BY <3>1, <1>7, LenProperties DEF SplitDone
    <3> QED BY <3>2, <1>7, ZenonT(30) DEF SplitDone, TreeType
  <2> QED BY <2>1, <2>2, <2>3, <1>1, <1>4, TypesNext
<1>16. TreeInv' /\ Contents' = Contents
  BY <1>7 DEF SplitDone
<1>17. (\A u \in Thread : AskInv(u)') /\ UNCHANGED M!vars
  BY <1>2, <1>3, <1>4, <1>16, Silent
<1> QED BY <1>10, <1>11, <1>12, <1>14, <1>15, <1>16, <1>17 DEF Good

\* A call begins.
LEMMA Began ==
  ASSUME IInv, NEW t \in Thread, NEW f \in {"insert", "lookup"}, NEW x \in Key, NEW y,
         Start(t, f, x, y), y \in Value \/ (y = Absent /\ f = "lookup"),
         UNCHANGED <<tree, ver, path>>,
         load' \in Seq(Key), calls' \in [Thread -> 0 .. MaxCalls],
         asked' \in [Thread -> SUBSET (Key \X (Value \cup {Absent}))],
         \/ f = "insert" /\ asked' = asked
         \/ f = "lookup" /\ asked' = [asked EXCEPT ![t] = {<<x, Contents[x]>>}]
  PROVE  Good(t)
<1>1. TypeOK /\ LocksHeld /\ TreeInv /\ PathInv(t) /\ RouteInv(t) /\ FoundInv(t) /\ AskInv(t)
      /\ TreeType /\ CallType /\ PathType /\ ver \in [Node -> Nat]
  BY Before
<1>2. /\ op' = [op EXCEPT ![t] = f] /\ k' = [k EXCEPT ![t] = x] /\ v' = [v EXCEPT ![t] = y]
      /\ pc' = [pc EXCEPT ![t] = "root"] /\ pc[t] = "idle"
  BY DEF Start, Goto
<1>3. /\ op'[t] = f /\ k'[t] = x /\ v'[t] = y /\ pc'[t] = "root"
      /\ \A u \in Thread : u # t => op'[u] = op[u] /\ k'[u] = k[u] /\ v'[u] = v[u] /\ pc'[u] = pc[u]
  BY <1>1, <1>2 DEF CallType, PathType
<1>4. /\ node' = node /\ parent' = parent /\ versionNode' = versionNode /\ result' = result
      /\ versionParent' = versionParent /\ ver' = ver /\ used' = used
  BY DEF path, tree
<1>5. \A u \in Thread : u # t => SameThread(u)
  BY <1>3, <1>4 DEF SameThread
<1>6. LocksHeld' /\ ver' \in [Node -> Nat] /\ \A m \in Node : ver'[m] \in Nat /\ ver[m] <= ver'[m]
  <2>1. Holds(t)' = Holds(t)
    BY <1>2, <1>3 DEF Holds
  <2>2. \A u \in Thread : u # t => Holds(u)' = Holds(u)
    BY <1>5, OthersSame
  <2> QED BY <2>1, <2>2, <1>1, <1>4, Locking
<1>7. Frame(t)
  BY <1>1, <1>5, <1>6, Framed
<1>8. TreeInv' /\ Contents' = Contents
  BY <1>1, SameTree
<1>9. TypeOK'
  <2>1. CallType'
    BY <1>1, <1>2, <1>4 DEF CallType
  <2>2. PathType'
    BY <1>1, <1>2, <1>4 DEF PathType
  <2>3. TreeType'
    BY <1>1 DEF TreeType, tree
  <2> QED BY <2>1, <2>2, <2>3, <1>6, TypesNext
<1>10. PathInv(t)' /\ RouteInv(t)' /\ FoundInv(t)'
  BY <1>1, <1>2, <1>3, <1>4 DEF PathInv, RouteInv, FoundInv
<1>11. ASSUME NEW u \in Thread PROVE AskInv(u)'
  <2>1. AskInv(u)
    BY Before
  <2>2. CASE u # t
    <3>1. asked'[u] = asked[u]
      BY <2>2, <1>1 DEF CallType
    <3> QED BY <2>1, <2>2, <3>1, <1>3, <1>8 DEF AskInv
  <2>3. CASE u = t /\ f = "insert"
    BY <2>1, <2>3, <1>2, <1>3 DEF AskInv
  <2>4. CASE u = t /\ f = "lookup"
    <3>1. asked'[t] = {<<x, Contents[x]>>}
      BY <2>4, <1>1 DEF CallType
    <3> HIDE DEF Contents
    <3> QED BY <2>4, <3>1, <1>3, <1>8 DEF AskInv
  <2> QED BY <2>2, <2>3, <2>4
<1>12. Pending[t] = {}
  BY <1>2 DEF Pending
<1>13. CASE f = "insert"
  <2>1. Pending' = [Pending EXCEPT ![t] = {<<x, y>>}]
    BY <1>3, <1>13 DEF Pending
  <2>2. Pending'[t] = {<<x, y>>}
    BY <1>3, <1>13 DEF Pending
  <2>3. y \in Value /\ asked' = asked
    BY <1>13
  <2>4. M!Put(t)
    <3> HIDE DEF Pending, Contents
    <3> QED BY <2>1, <2>2, <2>3, <1>4, <1>8, <1>12, ZenonT(30) DEF M!Put
  <2> QED BY <2>4, <1>6, <1>7, <1>8, <1>9, <1>10, <1>11 DEF Good, M!Next
<1>14. CASE f = "lookup"
  <2>1. Pending' = Pending
    <3>1. ASSUME NEW u \in Thread, u # t
          PROVE  pc'[u] = pc[u] /\ op'[u] = op[u] /\ k'[u] = k[u] /\ v'[u] = v[u]
      BY <3>1, <1>3
    <3>2. op'[t] # "insert" /\ pc[t] \in {"idle", "unlock"}
      BY <1>2, <1>3, <1>14
    <3> QED BY <3>1, <3>2 DEF Pending
  <2>2. asked[t] = {} /\ asked' = [asked EXCEPT ![t] = {<<x, Contents[x]>>}]
    BY <1>1, <1>2, <1>14 DEF AskInv
  <2>3. M!Ask(t)
    <3> HIDE DEF Pending, Contents
    <3> QED BY <2>1, <2>2, <1>4, <1>8 DEF M!Ask
  <2> QED BY <2>3, <1>6, <1>7, <1>8, <1>9, <1>10, <1>11 DEF Good, M!Next
<1> QED BY <1>13, <1>14

LEMMA GoodCall ==
  ASSUME IInv
  PROVE  /\ LoadNext => Good(Loader)
         /\ \A t \in Thread, x \in Targets : Lookup(t, x) => Good(t)
         /\ \A t \in Thread, x \in Targets, y \in Value : Insert(t, x, y) => Good(t)
<1>1. /\ Loader \in Thread /\ Targets \subseteq Key /\ Loaded \in Value
  BY BTreeOLCAssumption
<1>2. CallType
  BY Types DEF IInv
<1>3. ASSUME LoadNext PROVE Good(Loader)
  <2>1. Head(load) \in Key /\ Tail(load) \in Seq(Key)
    BY <1>2, <1>3, SMT DEF LoadNext, CallType
  <2>2. /\ Start(Loader, "insert", Head(load), Loaded) /\ load' = Tail(load)
        /\ UNCHANGED <<tree, ver, path>> /\ calls' = calls /\ asked' = asked
    BY <1>3 DEF LoadNext
  <2>3. calls' \in [Thread -> 0 .. MaxCalls] /\ asked' \in [Thread -> SUBSET (Key \X (Value \cup {Absent}))]
    BY <2>2, <1>2 DEF CallType
  <2> QED BY <2>1, <2>2, <2>3, <1>1, Began
<1>4. ASSUME NEW t \in Thread, Racing(t) PROVE calls' \in [Thread -> 0 .. MaxCalls]
  <2>1. calls \in [Thread -> 0 .. MaxCalls] /\ MaxCalls \in Nat
    BY <1>2, BTreeOLCAssumption DEF CallType
  <2>2. calls[t] + 1 \in 0 .. MaxCalls
    BY <2>1, <1>4, SMT DEF Racing
  <2> QED BY <2>1, <2>2, <1>4 DEF Racing
<1>5. ASSUME NEW t \in Thread, NEW x \in Targets, Lookup(t, x) PROVE Good(t)
  <2>1. /\ Start(t, "lookup", x, Absent) /\ UNCHANGED <<tree, ver, path>> /\ load' = load /\ Racing(t)
        /\ asked' = [asked EXCEPT ![t] = {<<x, Contents[x]>>}]
    BY <1>5 DEF Lookup
  <2>2. x \in Key /\ Contents[x] \in Value \cup {Absent}
    <3> HIDE DEF Contents
    <3> QED BY <1>1 DEF IInv, MapInv
  <2>3. asked' \in [Thread -> SUBSET (Key \X (Value \cup {Absent}))]
    <3>1. {<<x, Contents[x]>>} \in SUBSET (Key \X (Value \cup {Absent}))
      BY <2>2, SMT
    <3>2. asked \in [Thread -> SUBSET (Key \X (Value \cup {Absent}))]
      BY <1>2 DEF CallType
    <3> QED BY <3>1, <3>2, <2>1, ZenonT(30)
  <2>4. load' \in Seq(Key) /\ calls' \in [Thread -> 0 .. MaxCalls]
    BY <2>1, <1>2, <1>4 DEF CallType
  <2> QED BY <2>1, <2>2, <2>3, <2>4, Began
<1>6. ASSUME NEW t \in Thread, NEW x \in Targets, NEW y \in Value, Insert(t, x, y) PROVE Good(t)
  <2>1. /\ Start(t, "insert", x, y) /\ UNCHANGED <<tree, ver, path>> /\ load' = load /\ Racing(t)
        /\ asked' = asked
    BY <1>6 DEF Insert
  <2>2. load' \in Seq(Key) /\ calls' \in [Thread -> 0 .. MaxCalls]
        /\ asked' \in [Thread -> SUBSET (Key \X (Value \cup {Absent}))]
    BY <2>1, <1>2, <1>4 DEF CallType
  <2> QED BY <2>1, <2>2, <1>1, Began
<1> QED BY <1>3, <1>5, <1>6

-----------------------------------------------------------------------------
(* The invariant, and what follows.                                        *)

\* A good step keeps the invariant.
LEMMA GoodStep ==
  ASSUME IInv, NEW t \in Thread, Good(t)
  PROVE  IInv'
<1>1. TypeOK' /\ LocksHeld' /\ TreeInv'
  BY DEF Good
<1>2. ASSUME NEW u \in Thread PROVE ThreadInv(u)'
  <2>1. CASE u = t
    BY <2>1 DEF Good, ThreadInv
  <2>2. CASE u # t
    <3>1. TypeOK /\ LocksHeld /\ PathInv(u) /\ RouteInv(u) /\ FoundInv(u)
      BY Before
    <3>2. PathInv(u)' /\ RouteInv(u)' /\ FoundInv(u)'
      BY <2>2, <3>1, OtherThread DEF Good
    <3> QED BY <3>2 DEF Good, ThreadInv
  <2> QED BY <2>1, <2>2
<1>3. MapInv'
  <2>1. MapInv
    BY DEF IInv
  <2>2. CASE UNCHANGED M!vars \/ \E u \in Thread : M!Put(u) \/ M!Ask(u) \/ M!Answer(u)
    <3>1. Contents' = Contents
      BY <2>2 DEF M!vars, M!Put, M!Ask, M!Answer
    <3> HIDE DEF Contents
    <3> QED BY <3>1, <2>1 DEF MapInv
  <2>3. ASSUME NEW u \in Thread, M!Store(u) PROVE MapInv'
    <3>1. PICK p \in Pending[u] : Contents' = [Contents EXCEPT ![p[1]] = p[2]]
      BY <2>3 DEF M!Store
    <3>2. p = <<k[u], v[u]>> /\ op[u] = "insert" /\ pc[u] # "idle"
      BY <3>1 DEF Pending
    <3>3. PathInv(u) /\ CallType
      BY Before
    <3>4. v[u] \in Value
      BY <3>2, <3>3 DEF PathInv
    <3> HIDE DEF Contents
    <3> QED BY <3>1, <3>2, <3>4, <2>1 DEF MapInv
  <2> QED BY <2>2, <2>3 DEF Good, M!Next
<1> QED BY <1>1, <1>2, <1>3 DEF IInv

\* Every step keeps the invariant and is a step of the map, or none.
LEMMA NextGood ==
  ASSUME IInv, [Next]_vars
  PROVE  IInv' /\ [M!Next]_(M!vars)
<1>1. CASE UNCHANGED vars
  <2>1. UNCHANGED <<tree, ver, pc, call, path, asked>>
    BY <1>1 DEF vars
  <2>2. TypeOK /\ TreeInv
    BY DEF IInv
  <2>3. TreeInv' /\ Contents' = Contents
    BY <2>1, <2>2, SameTree
  <2>4. /\ root' = root /\ used' = used /\ type' = type /\ keys' = keys /\ slots' = slots
        /\ span' = span /\ ver' = ver /\ load' = load /\ calls' = calls /\ op' = op /\ k' = k
        /\ v' = v /\ pc' = pc /\ node' = node /\ versionNode' = versionNode /\ parent' = parent
        /\ versionParent' = versionParent /\ result' = result /\ asked' = asked
    BY <2>1 DEF tree, call, path
  <2>5. TypeOK' /\ LocksHeld'
    <3>1. TypeOK'
      BY <2>2, <2>4 DEF TypeOK
    <3>2. \A t \in Thread : Holds(t)' = Holds(t)
      BY <2>4 DEF Holds
    <3>3. LocksHeld /\ Loader \in Thread
      BY BTreeOLCAssumption DEF IInv
    <3> QED BY <3>1, <3>2, <3>3, <2>2, <2>4, Locking, ZenonT(30)
  <2>6. ASSUME NEW t \in Thread PROVE ThreadInv(t)'
    <3>1. PathInv(t) /\ RouteInv(t) /\ FoundInv(t) /\ AskInv(t)
      BY Before
    <3>2. PathInv(t)'
      BY <3>1, <2>4 DEF PathInv
    <3>3. RouteInv(t)'
      BY <3>1, <2>4 DEF RouteInv, ParentSame, NodeSame, Child, lowerBound
    <3>4. FoundInv(t)'
      BY <3>1, <2>4 DEF FoundInv, ParentSame, NodeSame, Full, Payload, lowerBound
    <3>5. AskInv(t)'
      BY <3>1, <2>3, <2>4 DEF AskInv
    <3> QED BY <3>2, <3>3, <3>4, <3>5 DEF ThreadInv
  <2>7. MapInv'
    BY <2>3 DEF IInv, MapInv
  <2>8. Pending' = Pending
    BY <2>4 DEF Pending
  <2> QED BY <2>3, <2>4, <2>5, <2>6, <2>7, <2>8 DEF IInv, M!vars
<1>2. CASE Next
  <2>1. \E t \in Thread : Good(t)
    <3>1. CASE LoadNext
      BY <3>1, GoodCall, BTreeOLCAssumption
    <3>2. CASE \E t \in Thread, x \in Targets : Lookup(t, x) \/ \E y \in Value \ {Loaded} : Insert(t, x, y)
      BY <3>2, GoodCall
    <3>3. ASSUME NEW t \in Thread, Step(t) PROVE Good(t)
      BY <3>3, GoodReadRoot, GoodReadLock, GoodCheckRoot, GoodVisit, GoodCheckParent, GoodReadChild,
         GoodCheckChild, GoodLockLeaf, GoodWriteLeaf, GoodUnlock, GoodLockParent, GoodLockNode,
         GoodSplitNode, GoodGiveUp, GoodUnlockNode, GoodReadLeaf, GoodRecheckParent, GoodReturn
         DEF Step
    <3> QED BY <1>2, <3>1, <3>2, <3>3 DEF Next
  <2> QED BY <2>1, GoodStep DEF Good
<1> QED BY <1>1, <1>2

\* The invariant holds of the empty tree, which stands for the empty map.
LEMMA InitIInv ==
  ASSUME Init, WellOrder
  PROVE  IInv /\ M!Init
<1>0. 1 \in Node /\ 1 # NoNode /\ \A n \in 1 .. 1 : n = 1
  BY BTreeOLCAssumption, SMTT(20) DEF Node
<1>s. /\ keys[1] = <<>> /\ slots[1] = <<>> /\ type[1] = "leaf" /\ span[1] = Key
      /\ used = 1 /\ root = 1
  BY <1>0 DEF Init
<1>1. TypeOK
  <2>1. TreeType
    BY <1>0, <1>s, SMTT(30) DEF Init, TreeType
  <2>2. CallType
    BY BTreeOLCAssumption, SMTT(20) DEF Init, CallType
  <2>3. PathType
    BY DEF Init, PathType
  <2>4. ver \in [Node -> Nat]
    BY DEF Init
  <2> QED BY <2>1, <2>2, <2>3, <2>4, Types, ZenonT(30)
<1>2. LocksHeld
  <2>1. \A t \in Thread : Holds(t) = {}
    BY DEF Init, Holds
  <2>2. \A n \in Node : ~isLocked(n)
    BY SMTT(20) DEF Init, isLocked
  <2> QED BY <2>1, <2>2 DEF LocksHeld
<1>3. TreeInv
  <2>1. NodeOK(1)
    BY <1>s, Sizes, SMTT(20) DEF NodeOK, Sorted
  <2>2. LeafInv
    BY <1>0, <1>s, SMTT(20) DEF LeafInv
  <2>3. ParentInv
    BY <1>0, <1>s DEF ParentInv
  <2> QED BY <1>0, <1>s, <2>1, <2>2, <2>3, ZenonT(30) DEF TreeInv
<1>4. Contents = [x \in Key |-> Absent]
  <2>1. ASSUME NEW x \in Key PROVE LeafOf(x) = 1
    BY <1>0, <1>s, SMTT(20) DEF LeafOf
  <2>2. ASSUME NEW x \in Key PROVE Payload(1, x) = Absent
    BY <1>s, SMTT(20) DEF Payload
  <2> QED BY <2>1, <2>2 DEF Contents
<1>5. ASSUME NEW t \in Thread PROVE ThreadInv(t)
  <2>1. /\ pc[t] = "idle" /\ node[t] = NoNode /\ parent[t] = NoNode /\ asked[t] = {}
    BY DEF Init
  <2> QED BY <2>1 DEF ThreadInv, PathInv, RouteInv, FoundInv, AskInv
<1>6. Pending = [t \in Thread |-> {}]
  BY DEF Init, Pending
<1>7. MapInv
  BY <1>4 DEF MapInv
<1> QED BY <1>1, <1>2, <1>3, <1>4, <1>5, <1>6, <1>7 DEF IInv, M!Init, Init

-----------------------------------------------------------------------------
\* The theorems about well-founded relations are needed from here on only.
INSTANCE WellFoundedInduction

\* A nonempty set of numbers has a least element.
LEMMA LeastOf ==
  ASSUME NEW S \in SUBSET Nat, S # {}
  PROVE  \E x \in S : \A y \in S : x <= y
<1>1. \E x \in S : \A y \in S : ~(<<y, x>> \in OpToRel(<, Nat))
  BY WFMin, NatLessThanWellFounded
<1>2. PICK x \in S : \A y \in S : ~(<<y, x>> \in OpToRel(<, Nat))
  BY <1>1
<1>3. ASSUME NEW y \in S PROVE x <= y
  <2>1. ~(y < x)
    <3> SUFFICES ASSUME y < x PROVE <<y, x>> \in OpToRel(<, Nat)
      BY <1>2
    <3>1. <<y, x>> \in Nat \X Nat
      OBVIOUS
    <3>2. <<y, x>>[1] < <<y, x>>[2]
      OBVIOUS
    <3> QED BY <3>1, <3>2 DEF OpToRel
  <2> QED BY <2>1, Sides
<1> QED BY <1>3

LEMMA Least == WellOrder
BY LeastOf DEF WellOrder

\* IInv is an invariant of the tree.
THEOREM Invariance == Spec => []IInv
<1>1. Init => IInv
  BY InitIInv, Least
<1>2. IInv /\ [Next]_vars => IInv'
  BY NextGood
<1> QED BY <1>1, <1>2, PTL DEF Spec

\* Types are correct.
THEOREM TypeCorrect == Spec => []TypeOK
<1>1. IInv => TypeOK
  BY DEF IInv
<1> QED BY <1>1, Invariance, PTL

\* Inserts stay within the arrays of nodes of any size, in order, under any
\* number of concurrent inserts and lookups.
THEOREM Ordered == Spec => []NodesInOrder
<1>1. IInv => NodesInOrder
  <2> SUFFICES ASSUME IInv, NEW n \in 1 .. used
               PROVE  /\ Len(keys[n]) <= (IF type[n] = "leaf" THEN MaxLeaf ELSE MaxInner - 1)
                      /\ Len(slots[n]) = Len(keys[n]) + (IF type[n] = "leaf" THEN 0 ELSE 1)
                      /\ \A i, j \in DOMAIN keys[n] : i < j => keys[n][i] < keys[n][j]
    BY DEF NodesInOrder
  <2>1. NodeOK(n) /\ TypeOK
    BY DEF IInv, TreeInv
  <2>2. DOMAIN keys[n] = 1 .. Len(keys[n])
    BY <2>1, NodeTypes
  <2> QED BY <2>1, <2>2 DEF NodeOK, Sorted
<1> QED BY <1>1, Invariance, PTL

\* A search for any key, from the root or from any node responsible for the key,
\* goes to the one leaf that is responsible for it.
THEOREM SearchesArrive == Spec => []Routed
<1>1. IInv => Routed
  <2> SUFFICES ASSUME IInv PROVE Routed
    OBVIOUS
  <2>1. TypeOK /\ TreeInv
    BY DEF IInv
  <2>2. \A n \in 1 .. used : type[n] = "inner" => \A x \in span[n] : x \in span[Child(n, x)]
    BY <2>1, ChildSpan
  <2>3. ASSUME NEW n \in 1 .. used, NEW i \in DOMAIN keys[n] PROVE keys[n][i] \in span[n]
    <3>1. DOMAIN keys[n] = 1 .. Len(keys[n])
      BY <2>1, NodeTypes
    <3> QED BY <3>1, <2>1 DEF TreeInv, NodeOK
  <2>4. ASSUME NEW x \in Key
        PROVE  \E n \in 1 .. used : \A m \in 1 .. used : type[m] = "leaf" /\ x \in span[m] <=> m = n
    <3>1. PICK n \in 1 .. used : type[n] = "leaf" /\ x \in span[n]
      BY <2>1 DEF TreeInv, LeafInv
    <3>2. ASSUME NEW m \in 1 .. used PROVE type[m] = "leaf" /\ x \in span[m] <=> m = n
      BY <3>1, <2>1 DEF TreeInv, LeafInv
    <3> QED BY <3>2
  <2> QED BY <2>1, <2>2, <2>3, <2>4 DEF Routed, TreeInv
<1> QED BY <1>1, Invariance, PTL

\* The nodes that are locked are those the threads are working on.
THEOREM Locked == Spec => []LocksHeld
<1>1. IInv => LocksHeld
  BY DEF IInv
<1> QED BY <1>1, Invariance, PTL

\* The root that is split is the root of the tree.
THEOREM RootSplitOnce == Spec => []RootIsCurrent
<1>1. IInv => RootIsCurrent
  <2> SUFFICES ASSUME IInv, NEW t \in Thread, pc[t] = "split", parent[t] = NoNode PROVE node[t] = root
    BY DEF RootIsCurrent
  <2> QED BY Before DEF RouteInv
<1> QED BY <1>1, Invariance, PTL

\* The tree implements the atomic map: every insert takes effect in one step of
\* its call, no split changes the value of a key, and every lookup returns a
\* value that its key had during the call.
THEOREM Refinement == Spec => IsAtomicMap
<1>1. Init => M!Init
  BY InitIInv, Least
<1>2. IInv /\ [Next]_vars => [M!Next]_(M!vars)
  BY NextGood
<1> QED BY <1>1, <1>2, Invariance, PTL DEF Spec, IsAtomicMap, M!Spec
=============================================================================
