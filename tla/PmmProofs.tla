------------------------------ MODULE PmmProofs -------------------------------
(***************************************************************************)
(* Proofs about Pmm, for a heap and headers of any size: the free nodes    *)
(* and the blocks tile the heap, their magic tells the truth, alloc fails  *)
(* only when no gap is wide enough, and the allocator implements HeapAbs.  *)
(***************************************************************************)
EXTENDS Pmm, Integers, FiniteSetTheorems, SequenceTheorems, TLAPS

----------------------------------------------------------------------------
(* The first and the last of some numbers.  Both follow from the ordering  *)
(* of finite sets: a number stands for the set of those up to it.          *)

LEMMA LeastExists ==
  ASSUME NEW S \in SUBSET Nat, S # {}
  PROVE  \E x \in S : \A y \in S : x <= y
<1> DEFINE T == {0 .. x : x \in S}
<1>1. IsWellFoundedOn(StrictSubsetOrdering(Nat), FiniteSubsetsOf(Nat))
  BY FS_StrictSubsetOrderingWellFounded
<1>2. T \subseteq FiniteSubsetsOf(Nat) /\ T # {}
  <2>1. \A x \in S : IsFiniteSet(0 .. x) /\ 0 .. x \in SUBSET Nat
    BY FS_Interval
  <2>2. \A x \in S : 0 .. x \in FiniteSubsetsOf(Nat)
    BY <2>1 DEF FiniteSubsetsOf
  <2> QED
    BY <2>2
<1>3. PICK t \in T : \A u \in T : <<u, t>> \notin StrictSubsetOrdering(Nat)
  BY <1>1, <1>2, WFMin
<1>4. PICK x \in S : t = 0 .. x
  OBVIOUS
<1>5. ASSUME NEW y \in S PROVE x <= y
  <2>1. SUFFICES ASSUME y < x PROVE FALSE
    OBVIOUS
  <2>2. 0 .. y \subseteq 0 .. x /\ x \notin 0 .. y /\ x \in 0 .. x
    BY <2>1
  <2>3. <<0 .. y, t>> \in StrictSubsetOrdering(Nat)
    BY <1>4, <2>2 DEF StrictSubsetOrdering
  <2> QED
    BY <1>3, <2>3
<1> QED
  BY <1>5

LEMMA GreatestExists ==
  ASSUME NEW n \in Nat, NEW S \in SUBSET (0 .. n), S # {}
  PROVE  \E x \in S : \A y \in S : x >= y
<1> DEFINE T == {n - x : x \in S}
<1>1. T \in SUBSET Nat /\ T # {}
  OBVIOUS
<1>2. PICK t \in T : \A u \in T : t <= u
  BY <1>1, LeastExists
<1>3. PICK x \in S : t = n - x
  OBVIOUS
<1>4. \A y \in S : n - x <= n - y
  BY <1>2, <1>3
<1> QED
  BY <1>4

\* node_find_size finds the first node that is large enough.
LEMMA FindSize ==
  ASSUME NEW n \in Nat, list \in Seq(Node)
  PROVE  \/ /\ node_find_size(n) \in 1 .. Len(list)
            /\ list[node_find_size(n)].size >= n
         \/ /\ node_find_size(n) = 0
            /\ \A i \in 1 .. Len(list) : ~(list[i].size >= n)
<1> DEFINE I == {i \in 1 .. Len(list) : list[i].size >= n}
<1>1. node_find_size(n) = IF I # {} THEN Min(I) ELSE 0
  BY DEF node_find_size, SelectInSeq
<1>2. CASE I # {}
  <2>1. \E x \in I : \A y \in I : x <= y
    <3>1. I \in SUBSET Nat
      BY LenProperties
    <3> QED
      BY <1>2, <3>1, LeastExists
  <2>2. Min(I) \in I
    BY <2>1 DEF Min
  <2> QED
    BY <1>1, <1>2, <2>2
<1>3. CASE I = {}
  BY <1>1, <1>3
<1> QED
  BY <1>2, <1>3

\* node_find_position finds the last node that does not lie behind.
LEMMA FindPosition ==
  ASSUME NEW a \in Nat, list \in Seq(Node)
  PROVE  /\ node_find_position(a) \in 0 .. Len(list)
         /\ node_find_position(a) # 0 => list[node_find_position(a)].addr <= a
         /\ \A i \in 1 .. Len(list) : i > node_find_position(a) => ~(list[i].addr <= a)
<1> DEFINE I == {i \in 1 .. Len(list) : list[i].addr <= a}
<1>1. node_find_position(a) = IF I # {} THEN Max(I) ELSE 0
  BY DEF node_find_position, SelectLastInSeq
<1>2. Len(list) \in Nat
  BY LenProperties
<1>3. CASE I # {}
  <2>1. \E x \in I : \A y \in I : x >= y
    <3>1. I \in SUBSET (0 .. Len(list))
      BY <1>2
    <3> QED
      BY <1>2, <1>3, <3>1, GreatestExists
  <2>2. Max(I) \in I /\ \A y \in I : Max(I) >= y
    BY <2>1 DEF Max
  <2>3. PICK m \in I : m = node_find_position(a) /\ \A y \in I : m >= y
    BY <1>1, <1>3, <2>2
  <2>4. m \in 1 .. Len(list) /\ list[m].addr <= a
    OBVIOUS
  <2>5. \A i \in 1 .. Len(list) : i > m => ~(list[i].addr <= a)
    BY <1>2, <2>3, <2>4
  <2> QED
    BY <1>2, <2>3, <2>4, <2>5
<1>4. CASE I = {}
  BY <1>1, <1>2, <1>4
<1> QED
  BY <1>3, <1>4

----------------------------------------------------------------------------
(* Lists of nodes. *)

\* Where a node or a block ends.
End(x) == x.addr + Header + x.size

NodeList(l) == l \in Seq(Node) /\ \A i \in 1 .. Len(l) : End(l[i]) <= HeapSize

\* The nodes are in order, with a gap after each but those at the places in E.
OrderedBut(l, E) ==
  \A i, j \in 1 .. Len(l) : i < j =>
    /\ End(l[i]) <= l[j].addr
    /\ End(l[i]) = l[j].addr => j = i + 1 /\ i \in E

\* The cells of the nodes.
Covered(l) == {a \in Addr : \E i \in 1 .. Len(l) : l[i].addr <= a /\ a < End(l[i])}

LEMMA NodeTypes ==
  ASSUME NEW x \in Node
  PROVE  /\ x.addr \in Nat /\ x.size \in Nat /\ x.addr < HeapSize /\ End(x) \in Nat
         /\ End(x) > x.addr /\ x.addr \in Addr /\ x = [addr |-> x.addr, size |-> x.size]
<1>1. x.addr \in Addr /\ x.size \in 0 .. HeapSize /\ x = [addr |-> x.addr, size |-> x.size]
  BY DEF Node
<1> QED
  BY <1>1, SizeAssumption DEF Addr, End

LEMMA SizeOfMerged ==
  ASSUME NEW a \in Nat, NEW s \in Nat, NEW b \in Nat, NEW t \in Nat, NEW h \in Nat, NEW n \in Nat,
         a + h + s = b, b + h + t <= n
  PROVE  s + h + t \in 0 .. n /\ a + h + (s + h + t) = b + h + t
OBVIOUS

LEMMA InsertAtIs ==
  ASSUME NEW l \in Seq(Node), NEW x \in Node, NEW k \in 1 .. Len(l) + 1
  PROVE  /\ InsertAt(l, k, x) \in Seq(Node) /\ Len(InsertAt(l, k, x)) = Len(l) + 1
         /\ \A i \in 1 .. Len(l) + 1 : InsertAt(l, k, x)[i] =
               IF i < k THEN l[i] ELSE IF i = k THEN x ELSE l[i - 1]
<1>1. Len(l) \in Nat /\ \A i \in 1 .. Len(l) : l[i] \in Node
  BY LenProperties, ElementOfSeq
<1> DEFINE A == SubSeq(l, 1, k - 1)
           B == SubSeq(l, k, Len(l))
<1>2. A \in Seq(Node) /\ Len(A) = k - 1 /\ \A i \in 1 .. k - 1 : A[i] = l[i]
  <2>1. \A i \in 1 .. k - 1 : l[i] \in Node
    BY <1>1
  <2>2. /\ A \in Seq(Node) /\ Len(A) = IF 1 <= k - 1 THEN (k - 1) - 1 + 1 ELSE 0
        /\ \A i \in 1 .. (k - 1) - 1 + 1 : A[i] = l[1 + i - 1]
    BY <1>1, <2>1, SubSeqProperties
  <2> HIDE DEF A
  <2> QED
    BY <1>1, <2>2
<1>3. B \in Seq(Node) /\ Len(B) = Len(l) - k + 1 /\ \A i \in 1 .. Len(l) - k + 1 : B[i] = l[k + i - 1]
  <2>1. \A i \in k .. Len(l) : l[i] \in Node
    BY <1>1
  <2>2. /\ B \in Seq(Node) /\ Len(B) = IF k <= Len(l) THEN Len(l) - k + 1 ELSE 0
        /\ \A i \in 1 .. Len(l) - k + 1 : B[i] = l[k + i - 1]
    BY <1>1, <2>1, SubSeqProperties
  <2> HIDE DEF B
  <2> QED
    BY <1>1, <2>2
<1>4. InsertAt(l, k, x) = A \o << x >> \o B
  BY DEF InsertAt
<1> HIDE DEF A, B
<1> DEFINE C == A \o << x >>
<1>5. C \in Seq(Node) /\ Len(C) = k /\ \A i \in 1 .. k : C[i] = IF i < k THEN l[i] ELSE x
  <2>1. C = Append(A, x)
    BY <1>2, AppendIsConcat
  <2>2. C \in Seq(Node) /\ Len(C) = Len(A) + 1 /\ C[Len(A) + 1] = x /\ \A i \in 1 .. Len(A) : C[i] = A[i]
    BY <1>2, <2>1, AppendProperties, SMTT(30)
  <2> HIDE DEF C
  <2>3. Len(C) = k /\ C[k] = x
    BY <1>1, <1>2, <2>2
  <2>4. \A i \in 1 .. k : i < k => C[i] = l[i]
    BY <1>1, <1>2, <2>2
  <2> QED
    BY <1>1, <2>2, <2>3, <2>4
<1>6. InsertAt(l, k, x) = C \o B
  BY <1>4
<1> HIDE DEF C
<1>7. /\ C \o B \in Seq(Node) /\ Len(C \o B) = Len(C) + Len(B)
      /\ \A i \in 1 .. Len(C) + Len(B) : (C \o B)[i] = IF i <= Len(C) THEN C[i] ELSE B[i - Len(C)]
  BY <1>3, <1>5, ConcatProperties
<1>8. Len(C) + Len(B) = Len(l) + 1
  BY <1>1, <1>3, <1>5
<1>9. ASSUME NEW i \in 1 .. Len(l) + 1
      PROVE  (C \o B)[i] = IF i < k THEN l[i] ELSE IF i = k THEN x ELSE l[i - 1]
  <2>1. CASE i <= k
    <3>1. (C \o B)[i] = C[i] /\ i \in 1 .. k
      BY <1>1, <1>5, <1>7, <1>8, <2>1
    <3> QED
      BY <1>5, <2>1, <3>1
  <2>2. CASE i > k
    <3>1. (C \o B)[i] = B[i - k] /\ i - k \in 1 .. Len(l) - k + 1
      BY <1>1, <1>5, <1>7, <1>8, <2>2
    <3>2. B[i - k] = l[k + (i - k) - 1] /\ k + (i - k) - 1 = i - 1
      BY <1>3, <3>1
    <3> QED
      BY <2>2, <3>1, <3>2
  <2>3. i <= k \/ i > k
    BY <1>1
  <2> QED
    BY <2>1, <2>2, <2>3
<1> QED
  BY <1>6, <1>7, <1>8, <1>9

LEMMA RemoveAtIs ==
  ASSUME NEW l \in Seq(Node), NEW k \in 1 .. Len(l)
  PROVE  /\ RemoveAt(l, k) \in Seq(Node) /\ Len(RemoveAt(l, k)) = Len(l) - 1
         /\ \A i \in 1 .. Len(l) - 1 : RemoveAt(l, k)[i] = IF i < k THEN l[i] ELSE l[i + 1]
<1>1. Len(l) \in Nat /\ \A i \in 1 .. Len(l) : l[i] \in Node
  BY LenProperties, ElementOfSeq
<1> DEFINE A == SubSeq(l, 1, k - 1)
           B == SubSeq(l, k + 1, Len(l))
<1>2. A \in Seq(Node) /\ Len(A) = k - 1 /\ \A i \in 1 .. k - 1 : A[i] = l[i]
  <2>1. \A i \in 1 .. k - 1 : l[i] \in Node
    BY <1>1
  <2>2. /\ A \in Seq(Node) /\ Len(A) = IF 1 <= k - 1 THEN (k - 1) - 1 + 1 ELSE 0
        /\ \A i \in 1 .. (k - 1) - 1 + 1 : A[i] = l[1 + i - 1]
    BY <1>1, <2>1, SubSeqProperties
  <2> HIDE DEF A
  <2> QED
    BY <1>1, <2>2
<1>3. B \in Seq(Node) /\ Len(B) = Len(l) - k /\ \A i \in 1 .. Len(l) - k : B[i] = l[k + i]
  <2>1. \A i \in k + 1 .. Len(l) : l[i] \in Node
    BY <1>1
  <2>2. /\ B \in Seq(Node) /\ Len(B) = IF k + 1 <= Len(l) THEN Len(l) - (k + 1) + 1 ELSE 0
        /\ \A i \in 1 .. Len(l) - (k + 1) + 1 : B[i] = l[(k + 1) + i - 1]
    BY <1>1, <2>1, SubSeqProperties
  <2> HIDE DEF B
  <2> QED
    BY <1>1, <2>2
<1>4. RemoveAt(l, k) = A \o B
  BY DEF RemoveAt
<1> HIDE DEF A, B
<1>5. /\ A \o B \in Seq(Node) /\ Len(A \o B) = Len(A) + Len(B)
      /\ \A i \in 1 .. Len(A) + Len(B) : (A \o B)[i] = IF i <= Len(A) THEN A[i] ELSE B[i - Len(A)]
  BY <1>2, <1>3, ConcatProperties
<1>6. Len(A) + Len(B) = Len(l) - 1
  BY <1>1, <1>2, <1>3
<1>7. ASSUME NEW i \in 1 .. Len(l) - 1
      PROVE  (A \o B)[i] = IF i < k THEN l[i] ELSE l[i + 1]
  <2>1. CASE i < k
    <3>1. (A \o B)[i] = A[i] /\ i \in 1 .. k - 1
      BY <1>1, <1>2, <1>5, <1>6, <2>1
    <3> QED
      BY <1>2, <2>1, <3>1
  <2>2. CASE i >= k
    <3>1. (A \o B)[i] = B[i - (k - 1)] /\ i - (k - 1) \in 1 .. Len(l) - k
      BY <1>1, <1>2, <1>5, <1>6, <2>2
    <3>2. B[i - (k - 1)] = l[k + (i - (k - 1))] /\ k + (i - (k - 1)) = i + 1
      BY <1>3, <3>1
    <3> QED
      BY <2>2, <3>1, <3>2
  <2>3. i < k \/ i >= k
    BY <1>1
  <2> QED
    BY <2>1, <2>2, <2>3
<1> QED
  BY <1>4, <1>5, <1>6, <1>7

\* A node takes in the one it touches.
LEMMA CombineIs ==
  ASSUME NEW l, NodeList(l), NEW i \in 1 .. Len(l), i < Len(l), End(l[i]) = l[i + 1].addr
  PROVE  /\ node_combine(l, i) \in Seq(Node) /\ Len(node_combine(l, i)) = Len(l) - 1
         /\ \A j \in 1 .. Len(l) - 1 : node_combine(l, i)[j] =
              IF j < i THEN l[j]
              ELSE IF j = i THEN [addr |-> l[i].addr, size |-> l[i].size + Header + l[i + 1].size]
              ELSE l[j + 1]
<1> DEFINE x == [addr |-> l[i].addr, size |-> l[i].size + Header + l[i + 1].size]
<1>1. l \in Seq(Node) /\ Len(l) \in Nat /\ \A j \in 1 .. Len(l) : l[j] \in Node /\ End(l[j]) <= HeapSize
  BY LenProperties, ElementOfSeq DEF NodeList
<1>2. i + 1 \in 1 .. Len(l) /\ l[i] \in Node /\ l[i + 1] \in Node /\ End(l[i + 1]) <= HeapSize
  BY <1>1
<1>3. x \in Node
  <2>1. /\ l[i].addr \in Addr /\ l[i].size \in Nat /\ l[i].addr \in Nat
        /\ l[i + 1].size \in Nat
    BY <1>2, NodeTypes
  <2>2. l[i].size + Header + l[i + 1].size \in 0 .. HeapSize
    <3>1. l[i].addr + Header + l[i].size = l[i + 1].addr /\ l[i + 1].addr \in Nat
      BY <1>2, NodeTypes DEF End
    <3>2. l[i + 1].addr + Header + l[i + 1].size <= HeapSize
      BY <1>2 DEF End
    <3> QED
      BY <2>1, <3>1, <3>2, SizeOfMerged, SizeAssumption
  <2> QED
    BY <2>1, <2>2 DEF Node
<1>4. [l[i] EXCEPT !.size = @ + Header + l[i + 1].size] = x
  BY <1>2 DEF Node
<1>5. node_combine(l, i) = RemoveAt(ReplaceAt(l, i, x), i + 1)
  BY <1>4 DEF node_combine, End
<1> HIDE DEF x
<1>6. PICK q : q = ReplaceAt(l, i, x)
  OBVIOUS
<1>7. /\ q \in Seq(Node) /\ Len(q) = Len(l)
      /\ \A j \in 1 .. Len(l) : q[j] = IF j = i THEN x ELSE l[j]
  BY <1>1, <1>3, <1>6, ExceptSeq DEF ReplaceAt
<1>8. /\ RemoveAt(q, i + 1) \in Seq(Node) /\ Len(RemoveAt(q, i + 1)) = Len(l) - 1
      /\ \A j \in 1 .. Len(l) - 1 : RemoveAt(q, i + 1)[j] = IF j < i + 1 THEN q[j] ELSE q[j + 1]
  <2>1. q \in Seq(Node) /\ i + 1 \in 1 .. Len(q)
    BY <1>2, <1>7
  <2>2. /\ RemoveAt(q, i + 1) \in Seq(Node) /\ Len(RemoveAt(q, i + 1)) = Len(q) - 1
        /\ \A j \in 1 .. Len(q) - 1 : RemoveAt(q, i + 1)[j] = IF j < i + 1 THEN q[j] ELSE q[j + 1]
    BY <2>1, RemoveAtIs
  <2> QED
    BY <1>7, <2>2
<1>9. ASSUME NEW j \in 1 .. Len(l) - 1
      PROVE  RemoveAt(q, i + 1)[j] = IF j < i THEN l[j] ELSE IF j = i THEN x ELSE l[j + 1]
  <2>1. j \in 1 .. Len(l) /\ j + 1 \in 1 .. Len(l)
    BY <1>1
  <2>2. RemoveAt(q, i + 1)[j] = IF j < i + 1 THEN q[j] ELSE q[j + 1]
    BY <1>8
  <2>3. q[j] = (IF j = i THEN x ELSE l[j]) /\ q[j + 1] = IF j + 1 = i THEN x ELSE l[j + 1]
    BY <1>7, <2>1
  <2> QED
    BY <1>1, <2>1, <2>2, <2>3
<1> QED
  BY <1>5, <1>6, <1>8, <1>9 DEF x

\* m is l with some of the nodes taken in by others.
Coarser(m, l) ==
  /\ NodeList(m) /\ Covered(m) = Covered(l)
  /\ \A k \in 1 .. Len(m) : \E j \in 1 .. Len(l) : m[k].addr = l[j].addr

\* What node_combine makes of a list in which the nodes of E may touch the next.
Combined(l, i, E) ==
  /\ Coarser(node_combine(l, i), l)
  /\ \/ node_combine(l, i) = l /\ OrderedBut(l, E \ {i})
     \/ /\ i < Len(l) /\ Len(node_combine(l, i)) = Len(l) - 1
        /\ OrderedBut(node_combine(l, i), {j \in {i} : i + 1 \in E})

LEMMA CombineOrders ==
  ASSUME NEW l, NodeList(l), NEW i \in 1 .. Len(l), NEW E, OrderedBut(l, E), E \subseteq {i, i + 1}
  PROVE  Combined(l, i, E)
<1>1. l \in Seq(Node) /\ Len(l) \in Nat /\ \A j \in 1 .. Len(l) : l[j] \in Node /\ End(l[j]) <= HeapSize
  BY LenProperties, ElementOfSeq DEF NodeList
<1>2. \A j \in 1 .. Len(l) : /\ l[j].addr \in Nat /\ l[j].size \in Nat /\ End(l[j]) \in Nat
                            /\ l[j].addr < End(l[j])
  BY <1>1, NodeTypes
<1>3. CASE ~(i < Len(l) /\ End(l[i]) = l[i + 1].addr)
  <2>1. node_combine(l, i) = l
    BY <1>3 DEF node_combine, End
  <2>2. OrderedBut(l, E \ {i})
    BY <1>1, <1>3 DEF OrderedBut
  <2>3. Coarser(l, l)
    BY DEF Coarser
  <2> QED
    BY <2>1, <2>2, <2>3 DEF Combined
<1>4. CASE i < Len(l) /\ End(l[i]) = l[i + 1].addr
  <2> DEFINE x == [addr |-> l[i].addr, size |-> l[i].size + Header + l[i + 1].size]
  <2>1. PICK m : m = node_combine(l, i)
    OBVIOUS
  <2>2. /\ m \in Seq(Node) /\ Len(m) = Len(l) - 1
        /\ \A j \in 1 .. Len(l) - 1 : m[j] = IF j < i THEN l[j] ELSE IF j = i THEN x ELSE l[j + 1]
    BY <1>4, <2>1, CombineIs
  <2>3. i + 1 \in 1 .. Len(l)
    BY <1>1, <1>4
  <2>4. x.addr = l[i].addr /\ End(x) = End(l[i + 1])
    <3>1. x.addr = l[i].addr /\ x.size = l[i].size + Header + l[i + 1].size
      OBVIOUS
    <3>2. End(l[i]) = l[i].addr + Header + l[i].size /\ End(l[i + 1]) = l[i + 1].addr + Header + l[i + 1].size
      BY DEF End
    <3>3. End(x) = x.addr + Header + x.size
      BY DEF End
    <3>4. /\ l[i].addr \in Nat /\ l[i].size \in Nat /\ l[i + 1].addr \in Nat /\ l[i + 1].size \in Nat
          /\ l[i + 1].addr + Header + l[i + 1].size <= HeapSize
      BY <1>1, <1>2, <2>3, <3>2
    <3>5. l[i].addr + Header + l[i].size = l[i + 1].addr
      BY <1>4, <3>2
    <3> HIDE DEF x
    <3>6. l[i].addr + Header + (l[i].size + Header + l[i + 1].size) = l[i + 1].addr + Header + l[i + 1].size
      <4>1. PICK a \in Nat, s \in Nat, b \in Nat, t \in Nat, h \in Nat, n \in Nat :
              /\ a = l[i].addr /\ s = l[i].size /\ b = l[i + 1].addr /\ t = l[i + 1].size
              /\ h = Header /\ n = HeapSize
        BY <3>4, SizeAssumption
      <4>2. a + h + s = b /\ b + h + t <= n
        BY <3>4, <3>5, <4>1
      <4>3. a + h + (s + h + t) = b + h + t
        BY <4>2, SizeOfMerged
      <4> QED
        BY <4>1, <4>3
    <3> QED
      BY <3>1, <3>2, <3>3, <3>6
  <2> HIDE DEF x
  <2> DEFINE lo(j) == IF j <= i THEN j ELSE j + 1
             hi(j) == IF j < i THEN j ELSE j + 1
  <2>5. \A j \in 1 .. Len(m) : /\ lo(j) \in 1 .. Len(l) /\ hi(j) \in 1 .. Len(l)
                              /\ m[j].addr = l[lo(j)].addr /\ End(m[j]) = End(l[hi(j)])
    <3> SUFFICES ASSUME NEW j \in 1 .. Len(m)
                 PROVE  /\ lo(j) \in 1 .. Len(l) /\ hi(j) \in 1 .. Len(l)
                        /\ m[j].addr = l[lo(j)].addr /\ End(m[j]) = End(l[hi(j)])
      OBVIOUS
    <3>1. j \in 1 .. Len(l) - 1 /\ j \in Nat /\ j + 1 \in 1 .. Len(l) /\ j \in 1 .. Len(l)
      BY <1>1, <2>2
    <3>2. CASE j < i
      BY <2>2, <3>1, <3>2
    <3>3. CASE j = i
      BY <2>2, <2>4, <3>1, <3>3
    <3>4. CASE j > i
      BY <2>2, <3>1, <3>4
    <3> QED
      BY <3>1, <3>2, <3>3, <3>4
  <2>6. NodeList(m)
    BY <1>1, <2>2, <2>5 DEF NodeList
  <2>7. Covered(m) = Covered(l)
    <3>1. ASSUME NEW a \in Addr, NEW j \in 1 .. Len(m), m[j].addr <= a, a < End(m[j])
          PROVE  \E k \in 1 .. Len(l) : l[k].addr <= a /\ a < End(l[k])
      <4>1. a \in Nat
        BY DEF Addr
      <4>2. l[lo(j)].addr <= a /\ a < End(l[hi(j)])
        BY <2>5, <3>1
      <4>3. CASE j = i
        <5>1. l[i].addr <= a /\ a < End(l[i + 1])
          BY <4>2, <4>3
        <5>2. a < End(l[i]) \/ l[i + 1].addr <= a
          BY <1>2, <1>4, <2>3, <4>1
        <5> QED
          BY <2>3, <5>1, <5>2
      <4>4. CASE j # i
        BY <2>5, <4>2, <4>4
      <4> QED
        BY <4>3, <4>4
    <3>2. ASSUME NEW a \in Addr, NEW k \in 1 .. Len(l), l[k].addr <= a, a < End(l[k])
          PROVE  \E j \in 1 .. Len(m) : m[j].addr <= a /\ a < End(m[j])
      <4>1. a \in Nat
        BY DEF Addr
      <4>2. CASE k < i
        <5>1. k \in 1 .. Len(m) /\ lo(k) = k /\ hi(k) = k
          BY <1>1, <1>4, <2>2, <4>2
        <5> QED
          BY <2>5, <3>2, <5>1
      <4>3. CASE k = i \/ k = i + 1
        <5>1. i \in 1 .. Len(m) /\ lo(i) = i /\ hi(i) = i + 1
          BY <1>1, <1>4, <2>2
        <5>2. m[i].addr = l[i].addr /\ End(m[i]) = End(l[i + 1])
          BY <2>5, <5>1
        <5>3. l[i].addr <= a /\ a < End(l[i + 1])
          BY <1>2, <1>4, <2>3, <3>2, <4>1, <4>3
        <5> QED
          BY <5>1, <5>2, <5>3
      <4>4. CASE k > i + 1
        <5>1. k - 1 \in 1 .. Len(m) /\ lo(k - 1) = k /\ hi(k - 1) = k
          BY <1>1, <2>2, <4>4
        <5> QED
          BY <2>5, <3>2, <5>1
      <4> QED
        BY <1>1, <4>2, <4>3, <4>4
    <3> QED
      BY <3>1, <3>2 DEF Covered
  <2>8. OrderedBut(m, {j \in {i} : i + 1 \in E})
    <3> SUFFICES ASSUME NEW j \in 1 .. Len(m), NEW k \in 1 .. Len(m), j < k
                 PROVE  /\ End(m[j]) <= m[k].addr
                        /\ End(m[j]) = m[k].addr => k = j + 1 /\ j = i /\ i + 1 \in E
      BY DEF OrderedBut
    <3>1. /\ hi(j) \in 1 .. Len(l) /\ lo(k) \in 1 .. Len(l) /\ End(m[j]) = End(l[hi(j)])
          /\ m[k].addr = l[lo(k)].addr
      BY <2>5
    <3>2. hi(j) < lo(k) /\ (lo(k) = hi(j) + 1 /\ hi(j) \in {i, i + 1} => k = j + 1 /\ j = i /\ hi(j) = i + 1)
      BY <1>1, <2>2
    <3>3. /\ End(l[hi(j)]) <= l[lo(k)].addr
          /\ End(l[hi(j)]) = l[lo(k)].addr => lo(k) = hi(j) + 1 /\ hi(j) \in E
      BY <3>1, <3>2 DEF OrderedBut
    <3> QED
      BY <3>1, <3>2, <3>3
  <2>9. Coarser(m, l)
    BY <2>5, <2>6, <2>7 DEF Coarser
  <2> QED
    BY <1>4, <2>1, <2>2, <2>8, <2>9 DEF Combined
<1> QED
  BY <1>3, <1>4

----------------------------------------------------------------------------
(* The inductive invariant. *)

\* Nodes are in order, no two of them touch, and they cover exactly the cells
\* that no block does; magic tells them apart.
IInv ==
  /\ TypeOK /\ NodeList(list) /\ OrderedBut(list, {})
  /\ \A b \in live : End(b) <= HeapSize /\ b.size <= MaxRequest
  /\ \A b, c \in live : b # c => End(b) <= c.addr \/ End(c) <= b.addr
  /\ \A a \in Addr : a \in Covered(list) <=> ~\E b \in live : a \in Extent(b)
  /\ \A i \in 1 .. Len(list) : mem[list[i].addr] = "node"
  /\ \A a \in Addr : mem[a] = "block" <=> \E b \in live : a \in Cells(b.addr, Header)
  /\ ~halted

LEMMA ExtentIs ==
  ASSUME NEW x \in Node
  PROVE  /\ \A a : a \in Extent(x) <=> a \in Addr /\ x.addr <= a /\ a < End(x)
         /\ \A a : a \in Payload(x) <=> a \in Addr /\ x.addr + Header <= a /\ a < End(x)
         /\ \A a : a \in Cells(x.addr, Header) <=> a \in Addr /\ x.addr <= a /\ a < x.addr + Header
         /\ Payload(x) \subseteq Extent(x) /\ Cells(x.addr, Header) \subseteq Extent(x)
         /\ x.addr \in Extent(x)
<1>1. x.addr \in Nat /\ x.size \in Nat /\ x.addr \in Addr /\ Header \in Nat /\ Header > 0
  BY NodeTypes, SizeAssumption
<1>2. /\ x.addr + (Header + x.size) = End(x) /\ (x.addr + Header) + x.size = End(x)
      /\ x.addr + Header <= End(x) /\ x.addr < End(x)
  BY <1>1 DEF End
<1>3. \A a : a \in Extent(x) <=> a \in Addr /\ x.addr <= a /\ a < End(x)
  BY <1>2 DEF Extent, Cells
<1>4. \A a : a \in Payload(x) <=> a \in Addr /\ x.addr + Header <= a /\ a < End(x)
  BY <1>2 DEF Payload, Cells
<1>5. \A a : a \in Cells(x.addr, Header) <=> a \in Addr /\ x.addr <= a /\ a < x.addr + Header
  BY DEF Cells
<1>6. \A a \in Addr : a \in Nat
  BY DEF Addr
<1>7. End(x) \in Nat
  BY NodeTypes
<1>8. Payload(x) \subseteq Extent(x)
  BY <1>1, <1>3, <1>4, <1>6
<1>9. Cells(x.addr, Header) \subseteq Extent(x)
  <2> SUFFICES ASSUME NEW a \in Cells(x.addr, Header) PROVE a \in Extent(x)
    OBVIOUS
  <2>1. a \in Addr /\ x.addr <= a /\ a < x.addr + Header /\ a \in Nat
    BY <1>5, <1>6
  <2>2. a < End(x)
    BY <1>1, <1>2, <1>7, <2>1
  <2> QED
    BY <1>3, <2>1, <2>2
<1>10. x.addr \in Extent(x)
  BY <1>1, <1>2, <1>3
<1> QED
  BY <1>3, <1>4, <1>5, <1>8, <1>9, <1>10

\* Cells in common are what overlapping means.
LEMMA Apart ==
  ASSUME NEW x \in Node, NEW y \in Node, End(x) <= HeapSize, End(y) <= HeapSize
  PROVE  Extent(x) \cap Extent(y) = {} <=> End(x) <= y.addr \/ End(y) <= x.addr
<1>1. /\ x.addr \in Nat /\ End(x) \in Nat /\ x.addr < End(x) /\ x.addr \in Extent(x)
      /\ y.addr \in Nat /\ End(y) \in Nat /\ y.addr < End(y) /\ y.addr \in Extent(y)
      /\ x.addr \in Addr /\ y.addr \in Addr
  BY NodeTypes, ExtentIs
<1>2. ASSUME Extent(x) \cap Extent(y) = {} PROVE End(x) <= y.addr \/ End(y) <= x.addr
  <2>1. ~(y.addr <= x.addr /\ x.addr < End(y)) /\ ~(x.addr <= y.addr /\ y.addr < End(x))
    BY <1>1, <1>2, ExtentIs
  <2> QED
    BY <1>1, <2>1
<1>3. ASSUME End(x) <= y.addr \/ End(y) <= x.addr, NEW a \in Extent(x) \cap Extent(y) PROVE FALSE
  <2>1. x.addr <= a /\ a < End(x) /\ y.addr <= a /\ a < End(y) /\ a \in Addr
    BY ExtentIs
  <2>2. a \in Nat
    BY <2>1 DEF Addr
  <2> QED
    BY <1>1, <1>3, <2>1, <2>2
<1> QED
  BY <1>2, <1>3

LEMMA InitIInv == Init => IInv
<1> SUFFICES ASSUME Init PROVE IInv
  OBVIOUS
<1> DEFINE x == [addr |-> 0, size |-> HeapSize - Header]
<1>1. x \in Node /\ 0 \in Addr
  BY SizeAssumption DEF Node, Addr
<1>2. x.addr = 0 /\ End(x) = HeapSize
  BY SizeAssumption DEF End
<1>3. list = << x >> /\ Len(list) = 1 /\ list[1] = x /\ live = {} /\ halted = FALSE
  BY DEF Init
<1> HIDE DEF x
<1>4. list \in Seq(Node)
  BY <1>1, <1>3
<1>5. mem = [a \in Addr |-> IF a = 0 THEN "node" ELSE "data"]
  BY DEF Init
<1>6. TypeOK
  BY <1>3, <1>4, <1>5 DEF TypeOK, Cell
<1>7. NodeList(list) /\ OrderedBut(list, {})
  BY <1>2, <1>3, <1>4, SizeAssumption DEF NodeList, OrderedBut
<1>8. \A a \in Addr : a \in Covered(list)
  <2> SUFFICES ASSUME NEW a \in Addr PROVE a \in Covered(list)
    OBVIOUS
  <2>1. 0 <= a /\ a < HeapSize
    BY SizeAssumption DEF Addr
  <2> QED
    BY <1>2, <1>3, <2>1 DEF Covered
<1>9. \A i \in 1 .. Len(list) : mem[list[i].addr] = "node"
  BY <1>1, <1>2, <1>3, <1>5
<1>10. \A a \in Addr : mem[a] # "block"
  BY <1>5
<1> QED
  BY <1>3, <1>6, <1>7, <1>8, <1>9, <1>10 DEF IInv

----------------------------------------------------------------------------
(* free puts a node in its place, and joins it to those it touches. *)

\* A node that fits between two others, or before or behind all.
Fits(nd, p) ==
  /\ p # 0 => list[p].addr <= nd.addr
  /\ \A i \in 1 .. Len(list) : i > p => ~(list[i].addr <= nd.addr)

LEMMA InsertOrders ==
  ASSUME NEW nd \in Node, NodeList(list), OrderedBut(list, {}), End(nd) <= HeapSize,
         Covered(list) \cap Extent(nd) = {}, NEW p \in 0 .. Len(list), Fits(nd, p), NEW L,
         L = InsertAt(list, p + 1, nd)
  PROVE  /\ Len(L) = Len(list) + 1 /\ NodeList(L) /\ OrderedBut(L, {p, p + 1})
         /\ Covered(L) = Covered(list) \cup Extent(nd)
         /\ \A k \in 1 .. Len(L) : L[k] = nd \/ \E j \in 1 .. Len(list) : L[k] = list[j]
<1>1. list \in Seq(Node) /\ Len(list) \in Nat
      /\ \A j \in 1 .. Len(list) : list[j] \in Node /\ End(list[j]) <= HeapSize
  BY LenProperties, ElementOfSeq DEF NodeList
<1>2. /\ nd.addr \in Nat /\ End(nd) \in Nat /\ nd.addr < End(nd) /\ nd.addr \in Addr
      /\ nd.addr \in Extent(nd)
      /\ \A j \in 1 .. Len(list) : /\ list[j].addr \in Nat /\ End(list[j]) \in Nat
                                  /\ list[j].addr < End(list[j]) /\ list[j].addr \in Addr
  BY <1>1, NodeTypes, ExtentIs
<1>3. /\ p \in 0 .. Len(list) /\ p \in Nat /\ p # 0 => list[p].addr <= nd.addr
      /\ \A i \in 1 .. Len(list) : i > p => ~(list[i].addr <= nd.addr)
  BY DEF Fits
<1>4. ASSUME NEW j \in 1 .. Len(list), j <= p PROVE End(list[j]) <= nd.addr
  <2>1. p \in 1 .. Len(list)
    BY <1>1, <1>3, <1>4
  <2>2. list[j].addr <= nd.addr
    <3>1. CASE j = p
      BY <1>3, <2>1, <3>1
    <3>2. CASE j < p
      <4>1. End(list[j]) <= list[p].addr
        BY <2>1, <3>2 DEF OrderedBut
      <4> QED
        BY <1>2, <1>3, <2>1, <4>1
    <3> QED
      BY <1>3, <1>4, <3>1, <3>2
  <2>3. ~(nd.addr < End(list[j]))
    BY <1>2, <2>2 DEF Covered
  <2> QED
    BY <1>2, <2>3
<1>5. ASSUME NEW j \in 1 .. Len(list), j > p PROVE End(nd) <= list[j].addr
  <2>1. nd.addr <= list[j].addr
    BY <1>2, <1>3, <1>5
  <2>2. list[j].addr \in Covered(list)
    BY <1>2 DEF Covered
  <2>3. ~(list[j].addr < End(nd))
    BY <1>2, <2>1, <2>2, ExtentIs
  <2> QED
    BY <1>2, <2>3
<1>7. /\ L \in Seq(Node) /\ Len(L) = Len(list) + 1
      /\ \A i \in 1 .. Len(list) + 1 : L[i] = IF i < p + 1 THEN list[i] ELSE IF i = p + 1 THEN nd ELSE list[i - 1]
  <2>1. p + 1 \in 1 .. Len(list) + 1
    BY <1>1, <1>3
  <2> QED
    BY <1>1, <2>1, InsertAtIs
<1>8. ASSUME NEW k \in 1 .. Len(list) + 1
      PROVE  \/ k <= p /\ k \in 1 .. Len(list) /\ L[k] = list[k]
             \/ k = p + 1 /\ L[k] = nd
             \/ k > p + 1 /\ k - 1 \in 1 .. Len(list) /\ k - 1 > p /\ L[k] = list[k - 1]
  <2>1. k <= p \/ k = p + 1 \/ k > p + 1
    BY <1>1, <1>3
  <2>2. CASE k <= p
    <3>1. k < p + 1 /\ k \in 1 .. Len(list)
      BY <1>1, <1>3, <2>2
    <3> QED
      BY <1>7, <2>2, <3>1
  <2>3. CASE k = p + 1
    <3>1. ~(k < p + 1)
      BY <1>3, <2>3
    <3> QED
      BY <1>7, <2>3, <3>1
  <2>4. CASE k > p + 1
    <3>1. ~(k < p + 1) /\ k # p + 1 /\ k - 1 \in 1 .. Len(list) /\ k - 1 > p
      BY <1>1, <1>3, <2>4
    <3> QED
      BY <1>7, <2>4, <3>1
  <2> QED
    BY <2>1, <2>2, <2>3, <2>4
<1>9. NodeList(L)
  BY <1>1, <1>7, <1>8 DEF NodeList
<1>10. OrderedBut(L, {p, p + 1})
  <2> SUFFICES ASSUME NEW i \in 1 .. Len(list) + 1, NEW j \in 1 .. Len(list) + 1, i < j
               PROVE  /\ End(L[i]) <= L[j].addr
                      /\ End(L[i]) = L[j].addr => j = i + 1 /\ i \in {p, p + 1}
    BY <1>7 DEF OrderedBut
  <2>1. \A a, b \in 1 .. Len(list) : a < b => End(list[a]) <= list[b].addr /\ End(list[a]) # list[b].addr
    BY DEF OrderedBut
  <2>2. CASE i <= p
    <3>1. i \in 1 .. Len(list) /\ L[i] = list[i]
      BY <1>3, <1>8, <2>2
    <3>2. CASE j <= p
      <4>1. j \in 1 .. Len(list) /\ L[j] = list[j]
        BY <1>3, <1>8, <3>2
      <4> QED
        BY <2>1, <3>1, <4>1
    <3>3. CASE j = p + 1
      <4>1. L[j] = nd /\ End(list[i]) <= nd.addr
        BY <1>3, <1>4, <1>8, <2>2, <3>1, <3>3
      <4>2. End(list[i]) = nd.addr => i = p
        <5>1. ASSUME i < p PROVE End(list[i]) # nd.addr
          <6>1. p \in 1 .. Len(list)
            BY <1>1, <1>3, <5>1
          <6>2. End(list[i]) <= list[p].addr /\ list[p].addr < End(list[p]) /\ End(list[p]) <= nd.addr
            BY <1>2, <1>3, <1>4, <2>1, <3>1, <5>1, <6>1
          <6> QED
            BY <1>2, <3>1, <6>1, <6>2
        <5> QED
          BY <1>3, <2>2, <5>1
      <4> QED
        BY <3>1, <3>3, <4>1, <4>2
    <3>4. CASE j > p + 1
      <4>1. j - 1 \in 1 .. Len(list) /\ L[j] = list[j - 1] /\ i < j - 1
        BY <1>3, <1>8, <2>2, <3>4
      <4> QED
        BY <2>1, <3>1, <4>1
    <3> QED
      BY <1>3, <3>2, <3>3, <3>4
  <2>3. CASE i = p + 1
    <3>1. L[i] = nd /\ j - 1 \in 1 .. Len(list) /\ j - 1 > p /\ L[j] = list[j - 1]
      BY <1>3, <1>8, <2>3
    <3>2. End(nd) <= list[j - 1].addr
      BY <1>5, <3>1
    <3>3. End(nd) = list[j - 1].addr => j = i + 1
      <4>1. ASSUME j > i + 1 PROVE End(nd) # list[j - 1].addr
        <5>1. p + 1 \in 1 .. Len(list) /\ p + 1 < j - 1
          BY <1>1, <1>3, <2>3, <3>1, <4>1
        <5>2. End(nd) <= list[p + 1].addr
          BY <1>3, <1>5, <5>1
        <5>3. End(list[p + 1]) <= list[j - 1].addr /\ list[p + 1].addr < End(list[p + 1])
          BY <1>2, <2>1, <3>1, <5>1
        <5> QED
          BY <1>2, <3>1, <5>1, <5>2, <5>3
      <4> QED
        BY <4>1
    <3> QED
      BY <2>3, <3>1, <3>2, <3>3
  <2>4. CASE i > p + 1
    <3>1. /\ i - 1 \in 1 .. Len(list) /\ L[i] = list[i - 1] /\ j - 1 \in 1 .. Len(list) /\ L[j] = list[j - 1]
          /\ i - 1 < j - 1
      BY <1>3, <1>8, <2>4
    <3> QED
      BY <2>1, <3>1
  <2> QED
    BY <1>3, <2>2, <2>3, <2>4
<1>11. Covered(L) = Covered(list) \cup Extent(nd)
  <2>1. ASSUME NEW a \in Addr, NEW k \in 1 .. Len(L), L[k].addr <= a, a < End(L[k])
        PROVE  a \in Covered(list) \/ a \in Extent(nd)
    <3>1. L[k] = nd \/ \E j \in 1 .. Len(list) : L[k] = list[j]
      BY <1>7, <1>8
    <3> QED
      BY <2>1, <3>1, ExtentIs DEF Covered
  <2>2. ASSUME NEW a \in Addr, NEW j \in 1 .. Len(list) PROVE \E k \in 1 .. Len(L) : L[k] = list[j]
    <3>1. CASE j <= p
      <4>1. j \in 1 .. Len(list) + 1 /\ j < p + 1
        BY <1>1, <1>3, <3>1
      <4> QED
        BY <1>7, <4>1
    <3>2. CASE j > p
      <4>1. j + 1 \in 1 .. Len(list) + 1 /\ ~(j + 1 < p + 1) /\ j + 1 # p + 1 /\ (j + 1) - 1 = j
        BY <1>1, <1>3, <3>2
      <4> QED
        BY <1>7, <4>1
    <3> QED
      BY <1>3, <3>1, <3>2
  <2>3. \E k \in 1 .. Len(L) : L[k] = nd
    <3>1. p + 1 \in 1 .. Len(list) + 1 /\ ~(p + 1 < p + 1)
      BY <1>1, <1>3
    <3> QED
      BY <1>7, <3>1
  <2>4. Covered(L) \subseteq Covered(list) \cup Extent(nd)
    BY <2>1 DEF Covered
  <2>5. Covered(list) \subseteq Covered(L)
    BY <2>2 DEF Covered
  <2>6. Extent(nd) \subseteq Covered(L)
    BY <2>3, ExtentIs DEF Covered
  <2> QED
    BY <2>4, <2>5, <2>6
<1> QED
  BY <1>7, <1>8, <1>9, <1>10, <1>11

\* What free makes of the list: no two nodes touch any more.
LEMMA MergedIs ==
  ASSUME NEW l, NodeList(l), NEW p \in Nat, p < Len(l), OrderedBut(l, {p, p + 1})
  PROVE  Coarser(Merged(l, p), l) /\ OrderedBut(Merged(l, p), {})
<1>1. Len(l) \in Nat
  BY LenProperties DEF NodeList
<1>2. CASE p = 0
  <2>1. 1 \in 1 .. Len(l)
    BY <1>1, <1>2
  <2>2. OrderedBut(l, {1})
    BY <1>1, <1>2 DEF OrderedBut
  <2>3. /\ Coarser(node_combine(l, 1), l)
        /\ \/ node_combine(l, 1) = l /\ OrderedBut(l, {1} \ {1})
           \/ OrderedBut(node_combine(l, 1), {j \in {1} : 1 + 1 \in {1}})
    <3>1. Combined(l, 1, {1})
      BY <2>1, <2>2, CombineOrders
    <3> QED
      BY <3>1 DEF Combined
  <2>4. {1} \ {1} = {} /\ {j \in {1} : 1 + 1 \in {1}} = {}
    OBVIOUS
  <2>5. OrderedBut(node_combine(l, 1), {})
    BY <2>3, <2>4
  <2>6. Merged(l, p) = node_combine(l, 1)
    BY <1>2 DEF Merged
  <2> QED
    BY <2>3, <2>5, <2>6
<1>3. CASE p # 0
  <2>1. p \in 1 .. Len(l) /\ p + 1 \in 1 .. Len(l)
    BY <1>1, <1>3
  <2>2. PICK m : m = node_combine(l, p)
    OBVIOUS
  <2>3. Merged(l, p) = IF m = l THEN node_combine(l, p + 1) ELSE node_combine(m, p)
    BY <1>3, <2>2 DEF Merged
  <2>4. /\ Coarser(m, l)
        /\ \/ m = l /\ OrderedBut(l, {p, p + 1} \ {p})
           \/ Len(m) = Len(l) - 1 /\ OrderedBut(m, {j \in {p} : p + 1 \in {p, p + 1}})
    <3>1. Combined(l, p, {p, p + 1})
      BY <2>1, CombineOrders
    <3> QED
      BY <2>2, <3>1 DEF Combined
  <2>5. {p, p + 1} \ {p} = {p + 1} /\ {j \in {p} : p + 1 \in {p, p + 1}} = {p}
    OBVIOUS
  <2>6. CASE m = l
    <3>1. OrderedBut(l, {p + 1})
      BY <1>1, <2>4, <2>5, <2>6
    <3>2. /\ Coarser(node_combine(l, p + 1), l)
          /\ \/ node_combine(l, p + 1) = l /\ OrderedBut(l, {p + 1} \ {p + 1})
             \/ OrderedBut(node_combine(l, p + 1), {j \in {p + 1} : (p + 1) + 1 \in {p + 1}})
      <4>1. Combined(l, p + 1, {p + 1})
        BY <2>1, <3>1, CombineOrders
      <4> QED
        BY <4>1 DEF Combined
    <3>3. {p + 1} \ {p + 1} = {} /\ {j \in {p + 1} : (p + 1) + 1 \in {p + 1}} = {}
      OBVIOUS
    <3>4. OrderedBut(node_combine(l, p + 1), {})
      BY <3>2, <3>3
    <3> QED
      BY <2>3, <2>6, <3>2, <3>4
  <2>7. CASE m # l
    <3>1. Len(m) = Len(l) - 1 /\ OrderedBut(m, {p}) /\ NodeList(m)
      BY <2>4, <2>5, <2>7 DEF Coarser
    <3>2. p \in 1 .. Len(m)
      BY <1>1, <1>3, <3>1
    <3>3. /\ Coarser(node_combine(m, p), m)
          /\ \/ node_combine(m, p) = m /\ OrderedBut(m, {p} \ {p})
             \/ OrderedBut(node_combine(m, p), {j \in {p} : p + 1 \in {p}})
      <4>1. Combined(m, p, {p})
        BY <3>1, <3>2, CombineOrders
      <4> QED
        BY <4>1 DEF Combined
    <3>4. {p} \ {p} = {} /\ {j \in {p} : p + 1 \in {p}} = {}
      OBVIOUS
    <3>5. OrderedBut(node_combine(m, p), {})
      BY <3>3, <3>4
    <3>6. Coarser(node_combine(m, p), l)
      BY <2>4, <3>3 DEF Coarser
    <3> QED
      BY <2>3, <2>7, <3>5, <3>6
  <2> QED
    BY <2>6, <2>7
<1> QED
  BY <1>2, <1>3

LEMMA FreedList ==
  ASSUME IInv, NEW b \in live, NEW nd, nd = [addr |-> b.addr, size |-> b.size], NEW l,
         l = Merged(Linked(nd), node_find_position(b.addr))
  PROVE  /\ NodeList(l) /\ OrderedBut(l, {}) /\ Covered(l) = Covered(list) \cup Extent(b)
         /\ \A k \in 1 .. Len(l) : l[k].addr = b.addr \/ \E j \in 1 .. Len(list) : l[k].addr = list[j].addr
<1>1. b \in Node /\ list \in Seq(Node) /\ NodeList(list) /\ OrderedBut(list, {}) /\ End(b) <= HeapSize
  BY DEF IInv, TypeOK
<1>2. nd = b /\ nd \in Node
  BY <1>1 DEF Node
<1>3. Covered(list) \cap Extent(b) = {}
  BY <1>1, ExtentIs DEF IInv
<1>4. PICK p : p = node_find_position(b.addr)
  OBVIOUS
<1>5. b.addr \in Nat /\ Len(list) \in Nat
  BY <1>1, NodeTypes, LenProperties
<1>6. p \in 0 .. Len(list) /\ Fits(b, p)
  BY <1>1, <1>4, <1>5, FindPosition DEF Fits
<1>7. PICK L : L = InsertAt(list, p + 1, b)
  OBVIOUS
<1>8. Linked(nd) = L /\ l = Merged(L, p)
  BY <1>2, <1>4, <1>7 DEF Linked
<1>9. /\ Len(L) = Len(list) + 1 /\ NodeList(L) /\ OrderedBut(L, {p, p + 1})
      /\ Covered(L) = Covered(list) \cup Extent(b)
      /\ \A k \in 1 .. Len(L) : L[k] = b \/ \E j \in 1 .. Len(list) : L[k] = list[j]
  BY <1>1, <1>3, <1>6, <1>7, InsertOrders
<1>10. p \in Nat /\ p < Len(L)
  BY <1>5, <1>6, <1>9
<1>11. Coarser(l, L) /\ OrderedBut(l, {})
  BY <1>8, <1>9, <1>10, MergedIs
<1> QED
  BY <1>9, <1>11 DEF Coarser

LEMMA FreeIInv ==
  ASSUME IInv, NEW b \in live, free(b) PROVE IInv'
<1>1. b \in Node /\ \A c \in live : c \in Node /\ End(c) <= HeapSize
  BY DEF IInv, TypeOK
<1>2. mem[b.addr] = "block"
  <2>1. b.addr \in Cells(b.addr, Header) /\ b.addr \in Addr
    BY <1>1, NodeTypes, ExtentIs, SizeAssumption
  <2> QED
    BY <2>1 DEF IInv
<1>3. /\ mem' = Fill(mem, Cells(b.addr, Header), "node")
      /\ list' = Merged(Linked([addr |-> b.addr, size |-> b.size]), node_find_position(b.addr))
      /\ live' = live \ {b} /\ halted' = halted
  BY <1>2 DEF free
<1>4. PICK l : l = list'
  OBVIOUS
<1>5. /\ NodeList(l) /\ OrderedBut(l, {}) /\ Covered(l) = Covered(list) \cup Extent(b)
      /\ \A k \in 1 .. Len(l) : l[k].addr = b.addr \/ \E j \in 1 .. Len(list) : l[k].addr = list[j].addr
  BY <1>3, <1>4, FreedList
<1>6. mem \in [Addr -> Cell] /\ mem' = [a \in Addr |-> IF a \in Cells(b.addr, Header) THEN "node" ELSE mem[a]]
  BY <1>3 DEF IInv, TypeOK, Fill
<1>7. TypeOK'
  <2>1. mem' \in [Addr -> Cell]
    BY <1>6 DEF Cell
  <2>2. l \in Seq(Node)
    BY <1>5 DEF NodeList
  <2> QED
    BY <1>3, <1>4, <2>1, <2>2 DEF IInv, TypeOK
<1>8. \A c \in live \ {b} : End(b) <= c.addr \/ End(c) <= b.addr
  BY DEF IInv
<1>9. \A c \in live \ {b} : Extent(b) \cap Extent(c) = {}
  BY <1>1, <1>8, Apart
<1>10. \A a \in Addr : a \in Covered(l) <=> ~\E c \in live \ {b} : a \in Extent(c)
  BY <1>5, <1>9 DEF IInv
<1>11. \A k \in 1 .. Len(l) : mem'[l[k].addr] = "node"
  <2> SUFFICES ASSUME NEW k \in 1 .. Len(l) PROVE mem'[l[k].addr] = "node"
    OBVIOUS
  <2>1. l[k].addr \in Addr
    <3>1. l[k] \in Node
      BY <1>5, ElementOfSeq DEF NodeList
    <3> QED
      BY <3>1, NodeTypes
  <2>2. b.addr \in Cells(b.addr, Header)
    BY <1>1, NodeTypes, ExtentIs, SizeAssumption
  <2>3. CASE l[k].addr = b.addr
    BY <1>6, <2>1, <2>2, <2>3
  <2>4. CASE \E j \in 1 .. Len(list) : l[k].addr = list[j].addr
    <3>1. mem[l[k].addr] = "node"
      BY <2>4 DEF IInv
    <3> QED
      BY <1>6, <2>1, <3>1
  <2> QED
    BY <1>5, <2>3, <2>4
<1>12. \A a \in Addr : mem'[a] = "block" <=> \E c \in live \ {b} : a \in Cells(c.addr, Header)
  <2> SUFFICES ASSUME NEW a \in Addr
               PROVE  mem'[a] = "block" <=> \E c \in live \ {b} : a \in Cells(c.addr, Header)
    OBVIOUS
  <2>1. mem[a] = "block" <=> \E c \in live : a \in Cells(c.addr, Header)
    BY DEF IInv
  <2>2. CASE a \in Cells(b.addr, Header)
    <3>1. mem'[a] = "node"
      BY <1>6, <2>2
    <3>2. \A c \in live \ {b} : a \notin Cells(c.addr, Header)
      BY <1>1, <1>9, <2>2, ExtentIs
    <3> QED
      BY <3>1, <3>2
  <2>3. CASE a \notin Cells(b.addr, Header)
    BY <1>6, <2>1, <2>3
  <2> QED
    BY <2>2, <2>3
<1>13. /\ \A c \in live' : End(c) <= HeapSize /\ c.size <= MaxRequest
       /\ \A c, d \in live' : c # d => End(c) <= d.addr \/ End(d) <= c.addr
       /\ ~halted'
  BY <1>3 DEF IInv
<1> QED
  BY <1>3, <1>4, <1>5, <1>7, <1>10, <1>11, <1>12, <1>13 DEF IInv

----------------------------------------------------------------------------
(* Writes and alloc *)

LEMMA WriteIInv ==
  ASSUME IInv, NEW b \in live, Write(b) PROVE IInv'
<1>1. /\ mem' = [a \in Addr |-> IF a \in Payload(b) THEN "data" ELSE mem[a]]
      /\ list' = list /\ live' = live /\ halted' = halted
  BY DEF Write, Fill
<1>2. /\ \A c \in live : c \in Node /\ End(c) <= HeapSize
      /\ list \in Seq(Node) /\ mem \in [Addr -> Cell] /\ b \in Node
  BY DEF IInv, TypeOK
<1>3. TypeOK'
  <2>1. mem' \in [Addr -> Cell]
    BY <1>1, <1>2 DEF Cell
  <2> QED
    BY <1>1, <2>1 DEF IInv, TypeOK
<1>4. \A i \in 1 .. Len(list) : mem'[list[i].addr] = "node"
  <2> SUFFICES ASSUME NEW i \in 1 .. Len(list) PROVE mem'[list[i].addr] = "node"
    OBVIOUS
  <2>1. list[i] \in Node
    BY <1>2, ElementOfSeq
  <2>2. list[i].addr \in Addr /\ list[i].addr < End(list[i]) /\ list[i].addr <= list[i].addr
    BY <2>1, NodeTypes
  <2>3. list[i].addr \in Covered(list)
    BY <2>2 DEF Covered
  <2>4. list[i].addr \notin Extent(b)
    BY <2>2, <2>3 DEF IInv
  <2>5. list[i].addr \notin Payload(b)
    BY <1>2, <2>4, ExtentIs
  <2>6. mem[list[i].addr] = "node"
    BY DEF IInv
  <2> QED
    BY <1>1, <2>2, <2>5, <2>6
<1>5. \A a \in Addr : mem'[a] = "block" <=> \E c \in live : a \in Cells(c.addr, Header)
  <2> SUFFICES ASSUME NEW a \in Addr
               PROVE  mem'[a] = "block" <=> \E c \in live : a \in Cells(c.addr, Header)
    OBVIOUS
  <2>1. mem[a] = "block" <=> \E c \in live : a \in Cells(c.addr, Header)
    BY DEF IInv
  <2>2. CASE a \in Payload(b)
    <3>1. mem'[a] = "data" /\ a \in Extent(b) /\ b.addr + Header <= a
      BY <1>1, <1>2, <2>2, ExtentIs
    <3>2. ASSUME NEW c \in live, a \in Cells(c.addr, Header) PROVE FALSE
      <4>1. CASE c = b
        <5>1. a \in Nat /\ b.addr + Header \in Nat /\ a < b.addr + Header
          BY <1>2, <3>2, <4>1, ExtentIs, NodeTypes, SizeAssumption DEF Addr
        <5> QED
          BY <3>1, <5>1
      <4>2. CASE c # b
        <5>1. End(b) <= c.addr \/ End(c) <= b.addr
          BY <4>2 DEF IInv
        <5>2. Extent(b) \cap Extent(c) = {}
          BY <1>2, <5>1, Apart
        <5> QED
          BY <1>2, <3>1, <3>2, <5>2, ExtentIs
      <4> QED
        BY <4>1, <4>2
    <3> QED
      BY <3>1, <3>2
  <2>3. CASE a \notin Payload(b)
    BY <1>1, <2>1, <2>3
  <2> QED
    BY <2>2, <2>3
<1> QED
  BY <1>1, <1>3, <1>4, <1>5 DEF IInv

\* The node that alloc splits.
LEMMA SplitIs ==
  ASSUME NEW x \in Node, NEW n \in Nat, x.size >= n + Header, End(x) <= HeapSize,
         NEW y, y = Rest(x, n), NEW b, b = [addr |-> x.addr, size |-> n]
  PROVE  /\ y \in Node /\ End(y) = End(x) /\ x.addr < y.addr
         /\ b \in Node /\ b.addr = x.addr /\ b.size = n /\ End(b) = y.addr /\ End(b) <= HeapSize
<1>1. /\ x.addr \in Nat /\ x.size \in Nat /\ x.size <= HeapSize /\ HeapSize \in Nat
      /\ Header \in Nat /\ Header > 0 /\ x.addr \in Addr /\ x.addr + Header + x.size <= HeapSize
  BY NodeTypes, SizeAssumption DEF Node, End
<1>2. y.addr = x.addr + Header + n /\ y.size = x.size - n - Header /\ y = [addr |-> y.addr, size |-> y.size]
  BY DEF Rest
<1>3. y.addr \in Nat /\ y.addr < HeapSize /\ y.size \in 0 .. HeapSize /\ x.addr < y.addr
  BY <1>1, <1>2
<1>4. y \in Node
  <2>1. y.addr \in Addr
    BY <1>1, <1>3 DEF Addr
  <2> QED
    BY <1>2, <1>3, <2>1 DEF Node
<1>5. End(y) = End(x)
  BY <1>1, <1>2 DEF End
<1>6. n \in 0 .. HeapSize /\ b.addr = x.addr /\ b.size = n
  BY <1>1
<1>7. b \in Node
  BY <1>1, <1>6 DEF Node
<1>8. End(b) = y.addr /\ End(b) <= HeapSize
  <2>1. End(b) = x.addr + Header + n
    BY <1>6 DEF End
  <2> QED
    BY <1>1, <1>2, <1>3, <2>1
<1> QED
  BY <1>3, <1>4, <1>5, <1>6, <1>7, <1>8

LEMMA AllocIs ==
  ASSUME IInv, NEW n \in 0 .. MaxRequest, Allocate(n)
  PROVE  \E i \in 1 .. Len(list) :
           LET bk  == [addr |-> list[i].addr, size |-> n]
               new == Rest(list[i], n)
           IN /\ list[i].size >= n + Header
              /\ list' = [list EXCEPT ![i] = new]
              /\ mem' = [a \in Addr |-> IF a \in Payload(bk) THEN "zero"
                                       ELSE IF a \in Cells(list[i].addr, Header) THEN "block"
                                       ELSE IF a \in Cells(new.addr, Header) THEN "node" ELSE mem[a]]
              /\ live' = live \cup {bk} /\ halted' = halted
<1>1. list \in Seq(Node) /\ n + Header \in Nat
  BY SizeAssumption DEF IInv, TypeOK
<1>2. PICK i : i = node_find_size(n + Header)
  OBVIOUS
<1>3. i # 0
  BY <1>2 DEF Allocate
<1>4. i \in 1 .. Len(list) /\ list[i].size >= n + Header
  BY <1>1, <1>2, <1>3, FindSize
<1>5. mem[list[i].addr] = "node" /\ ~(list[i].size < n + Header)
  <2>1. list[i].size \in Nat
    BY <1>1, <1>4, ElementOfSeq, NodeTypes
  <2> QED
    BY <1>1, <1>4, <2>1 DEF IInv
<1> DEFINE bk  == [addr |-> list[i].addr, size |-> n]
           new == Rest(list[i], n)
<1>6. /\ list' = ReplaceAt(list, i, new)
      /\ mem'  = Fill(Fill(Fill(mem, Cells(new.addr, Header), "node"),
                           Cells(list[i].addr, Header), "block"), block_clear(bk), "zero")
      /\ live' = live \cup {bk} /\ halted' = halted
  BY <1>2, <1>5 DEF Allocate
<1> HIDE DEF bk, new
<1>7. mem' = [a \in Addr |-> IF a \in Payload(bk) THEN "zero"
                            ELSE IF a \in Cells(list[i].addr, Header) THEN "block"
                            ELSE IF a \in Cells(new.addr, Header) THEN "node" ELSE mem[a]]
  BY <1>6 DEF Fill, block_clear
<1>8. list' = [list EXCEPT ![i] = new]
  BY <1>6 DEF ReplaceAt
<1> QED
  BY <1>4, <1>6, <1>7, <1>8 DEF bk, new

LEMMA AllocateIInv ==
  ASSUME IInv, NEW n \in 0 .. MaxRequest, Allocate(n)
  PROVE  /\ IInv'
         /\ \E b \in Node : /\ b.size = n /\ live' = live \cup {b} /\ b \notin live
                           /\ End(b) <= HeapSize
                           /\ \A c \in live : End(b) <= c.addr \/ End(c) <= b.addr
<1>1. /\ list \in Seq(Node) /\ mem \in [Addr -> Cell] /\ OrderedBut(list, {}) /\ n \in Nat
      /\ Len(list) \in Nat
      /\ \A c \in live : c \in Node /\ End(c) <= HeapSize
      /\ \A j \in 1 .. Len(list) : list[j] \in Node /\ End(list[j]) <= HeapSize
  BY LenProperties, ElementOfSeq, SizeAssumption DEF IInv, TypeOK, NodeList
<1>a. PICK i \in 1 .. Len(list) :
        LET bk  == [addr |-> list[i].addr, size |-> n]
            new == Rest(list[i], n)
        IN /\ list[i].size >= n + Header
           /\ list' = [list EXCEPT ![i] = new]
           /\ mem' = [a \in Addr |-> IF a \in Payload(bk) THEN "zero"
                                    ELSE IF a \in Cells(list[i].addr, Header) THEN "block"
                                    ELSE IF a \in Cells(new.addr, Header) THEN "node" ELSE mem[a]]
           /\ live' = live \cup {bk} /\ halted' = halted
  BY AllocIs
<1>b. PICK x, y, b : x = list[i] /\ y = Rest(x, n) /\ b = [addr |-> x.addr, size |-> n]
  OBVIOUS
<1>2. /\ x = list[i] /\ y = Rest(x, n) /\ b = [addr |-> x.addr, size |-> n]
      /\ x.size >= n + Header
      /\ list' = [list EXCEPT ![i] = y]
      /\ mem' = [a \in Addr |-> IF a \in Payload(b) THEN "zero"
                               ELSE IF a \in Cells(x.addr, Header) THEN "block"
                               ELSE IF a \in Cells(y.addr, Header) THEN "node" ELSE mem[a]]
      /\ live' = live \cup {b} /\ halted' = halted
  BY <1>a, <1>b
<1>3. /\ x \in Node /\ End(x) <= HeapSize
      /\ y \in Node /\ End(y) = End(x) /\ x.addr < y.addr
      /\ b \in Node /\ b.addr = x.addr /\ b.size = n /\ End(b) = y.addr /\ End(b) <= HeapSize
  BY <1>1, <1>2, SplitIs
<1>4. /\ x.addr \in Nat /\ y.addr \in Nat /\ End(x) \in Nat /\ End(y) \in Nat /\ y.addr < End(y)
      /\ x.addr \in Addr /\ y.addr \in Addr
      /\ \A j \in 1 .. Len(list) : /\ list[j].addr \in Nat /\ End(list[j]) \in Nat /\ list[j].addr \in Addr
                                  /\ list[j].addr < End(list[j])
  BY <1>1, <1>3, NodeTypes
<1>5. /\ list' \in Seq(Node) /\ Len(list') = Len(list)
      /\ \A j \in 1 .. Len(list) : list'[j] = IF j = i THEN y ELSE list[j]
  BY <1>1, <1>2, <1>3, ExceptSeq
<1>6. \A j \in 1 .. Len(list) : /\ End(list'[j]) = End(list[j])
                              /\ list[j].addr <= list'[j].addr
  BY <1>2, <1>3, <1>4, <1>5
<1>7. NodeList(list')
  BY <1>1, <1>5, <1>6 DEF NodeList
<1>8. OrderedBut(list', {})
  <2> SUFFICES ASSUME NEW j \in 1 .. Len(list), NEW k \in 1 .. Len(list), j < k
               PROVE  End(list'[j]) < list'[k].addr
    <3>1. \A j \in 1 .. Len(list) : End(list'[j]) \in Nat /\ list'[j].addr \in Nat
      BY <1>3, <1>4, <1>5
    <3> QED
      BY <1>5, <3>1 DEF OrderedBut
  <2>1. End(list[j]) <= list[k].addr /\ End(list[j]) # list[k].addr
    BY <1>1 DEF OrderedBut
  <2>2. /\ End(list'[j]) = End(list[j]) /\ list[k].addr <= list'[k].addr
        /\ End(list[j]) \in Nat /\ list[k].addr \in Nat /\ list'[k].addr \in Nat
    BY <1>3, <1>4, <1>5, <1>6
  <2> QED
    BY <2>1, <2>2
<1>9. /\ Extent(b) \cap Extent(y) = {}
      /\ \A a \in Addr : a \in Extent(x) <=> a \in Extent(b) \/ a \in Extent(y)
  <2>1. /\ \A a : a \in Extent(x) <=> a \in Addr /\ x.addr <= a /\ a < End(x)
        /\ \A a : a \in Extent(y) <=> a \in Addr /\ y.addr <= a /\ a < End(x)
        /\ \A a : a \in Extent(b) <=> a \in Addr /\ x.addr <= a /\ a < y.addr
    BY <1>3, ExtentIs
  <2>2. \A a \in Addr : a \in Nat
    BY DEF Addr
  <2> QED
    BY <1>3, <1>4, <2>1, <2>2
<1>10. \A j \in 1 .. Len(list) : j # i => Extent(list[j]) \cap Extent(x) = {}
  <2> SUFFICES ASSUME NEW j \in 1 .. Len(list), j # i PROVE Extent(list[j]) \cap Extent(x) = {}
    OBVIOUS
  <2>1. j < i \/ i < j
    BY <1>1
  <2>2. End(list[j]) <= x.addr \/ End(x) <= list[j].addr
    BY <1>1, <1>2, <2>1 DEF OrderedBut
  <2> QED
    BY <1>1, <1>3, <2>2, Apart
<1>11. \A a \in Addr : a \in Extent(x) => a \in Covered(list)
  BY <1>2, <1>3, ExtentIs DEF Covered
<1>12. \A c \in live : Extent(c) \cap Extent(x) = {}
  BY <1>1, <1>11, ExtentIs DEF IInv, Extent, Cells
<1>13. \A c \in live : Extent(b) \cap Extent(c) = {}
  BY <1>3, <1>9, <1>12, ExtentIs
<1>14. \A c \in live : End(b) <= c.addr \/ End(c) <= b.addr
  BY <1>1, <1>3, <1>13, Apart
<1>15. b \notin live
  BY <1>3, <1>13, ExtentIs
<1>16. \A a \in Addr : a \in Covered(list') <=> a \in Covered(list) /\ a \notin Extent(b)
  <2> SUFFICES ASSUME NEW a \in Addr
               PROVE  a \in Covered(list') <=> a \in Covered(list) /\ a \notin Extent(b)
    OBVIOUS
  <2>1. a \in Covered(list) <=> \E j \in 1 .. Len(list) : a \in Extent(list[j])
    BY <1>1, ExtentIs DEF Covered
  <2>2. a \in Covered(list') <=> \E j \in 1 .. Len(list) : a \in Extent(list'[j])
    <3>1. \A j \in 1 .. Len(list) : list'[j] \in Node
      BY <1>1, <1>3, <1>5
    <3> QED
      BY <1>5, <3>1, ExtentIs DEF Covered
  <2>3. \A j \in 1 .. Len(list) : j # i => (a \in Extent(list[j]) => a \notin Extent(b))
    BY <1>9, <1>10
  <2> QED
    BY <1>2, <1>5, <1>9, <2>1, <2>2, <2>3
<1>17. \A a \in Addr : a \in Covered(list') <=> ~\E c \in live \cup {b} : a \in Extent(c)
  BY <1>16 DEF IInv
<1>18. TypeOK'
  <2>1. mem' \in [Addr -> Cell]
    BY <1>1, <1>2 DEF Cell
  <2>2. live' \subseteq Node
    BY <1>1, <1>2, <1>3
  <2>3. halted' \in BOOLEAN
    BY <1>2 DEF IInv, TypeOK
  <2> QED
    BY <1>5, <2>1, <2>2, <2>3 DEF TypeOK
<1>19. /\ Payload(b) \subseteq Extent(b) /\ Cells(b.addr, Header) \subseteq Extent(b)
       /\ Cells(y.addr, Header) \subseteq Extent(y) /\ Extent(b) \subseteq Extent(x)
       /\ Extent(y) \subseteq Extent(x) /\ y.addr \in Cells(y.addr, Header)
       /\ \A a \in Cells(b.addr, Header) : a \notin Payload(b)
  <2>1. y.addr \in Cells(y.addr, Header)
    BY <1>3, <1>4, ExtentIs, SizeAssumption
  <2>2. \A a \in Cells(b.addr, Header) : a \notin Payload(b)
    <3>1. \A a \in Addr : a \in Nat
      BY DEF Addr
    <3>2. b.addr + Header \in Nat
      BY <1>3, <1>4, SizeAssumption
    <3>3. /\ \A a : a \in Payload(b) => a \in Addr /\ b.addr + Header <= a
          /\ \A a : a \in Cells(b.addr, Header) => a \in Addr /\ a < b.addr + Header
      BY <1>3, ExtentIs
    <3> QED
      BY <3>1, <3>2, <3>3
  <2>3. Extent(b) \subseteq Extent(x) /\ Extent(y) \subseteq Extent(x)
    BY <1>9 DEF Extent, Cells
  <2> QED
    BY <1>3, <2>1, <2>2, <2>3, ExtentIs
<1>20. \A j \in 1 .. Len(list) : mem'[list'[j].addr] = "node"
  <2> SUFFICES ASSUME NEW j \in 1 .. Len(list) PROVE mem'[list'[j].addr] = "node"
    OBVIOUS
  <2>1. CASE j = i
    <3>1. list'[j].addr = y.addr /\ y.addr \in Addr
      BY <1>4, <1>5, <2>1
    <3>2. y.addr \notin Payload(b) /\ y.addr \notin Cells(x.addr, Header)
      BY <1>3, <1>9, <1>19
    <3> QED
      BY <1>2, <1>19, <3>1, <3>2
  <2>2. CASE j # i
    <3>1. list'[j].addr = list[j].addr /\ list[j].addr \in Addr /\ list[j].addr \in Extent(list[j])
      BY <1>1, <1>4, <1>5, <2>2, ExtentIs
    <3>2. list[j].addr \notin Extent(x)
      BY <1>10, <2>2, <3>1
    <3>3. mem[list[j].addr] = "node"
      BY DEF IInv
    <3> QED
      BY <1>2, <1>3, <1>19, <3>1, <3>2, <3>3
  <2> QED
    BY <2>1, <2>2
<1>21. \A a \in Addr : mem'[a] = "block" <=> \E c \in live \cup {b} : a \in Cells(c.addr, Header)
  <2> SUFFICES ASSUME NEW a \in Addr
               PROVE  mem'[a] = "block" <=> \E c \in live \cup {b} : a \in Cells(c.addr, Header)
    OBVIOUS
  <2>1. mem[a] = "block" <=> \E c \in live : a \in Cells(c.addr, Header)
    BY DEF IInv
  <2>2. CASE a \in Extent(x)
    <3>1. \A c \in live : a \notin Cells(c.addr, Header)
      BY <1>1, <1>12, <2>2, ExtentIs
    <3>2. a \in Cells(b.addr, Header) => mem'[a] = "block"
      BY <1>2, <1>3, <1>19
    <3>3. a \notin Cells(b.addr, Header) => mem'[a] # "block"
      BY <1>2, <1>3, <2>1, <3>1
    <3> QED
      BY <3>1, <3>2, <3>3
  <2>3. CASE a \notin Extent(x)
    <3>1. mem'[a] = mem[a]
      BY <1>2, <1>3, <1>19, <2>3
    <3>2. a \notin Cells(b.addr, Header)
      BY <1>19, <2>3
    <3> QED
      BY <2>1, <3>1, <3>2
  <2> QED
    BY <2>2, <2>3
<1>22. \A c \in live \cup {b} : End(c) <= HeapSize /\ c.size <= MaxRequest
  BY <1>3, SizeAssumption DEF IInv
<1>23. \A c, d \in live \cup {b} : c # d => End(c) <= d.addr \/ End(d) <= c.addr
  BY <1>14 DEF IInv
<1>24. IInv'
  BY <1>2, <1>5, <1>7, <1>8, <1>17, <1>18, <1>20, <1>21, <1>22, <1>23 DEF IInv
<1> QED
  BY <1>2, <1>3, <1>14, <1>15, <1>24

LEMMA StepIInv == IInv /\ [Next]_vars => IInv'
<1> SUFFICES ASSUME IInv, [Next]_vars PROVE IInv'
  OBVIOUS
<1>1. ASSUME UNCHANGED vars PROVE IInv'
  <2>1. list' = list /\ mem' = mem /\ live' = live /\ halted' = halted
    BY <1>1 DEF vars
  <2> QED
    BY <2>1 DEF IInv, TypeOK
<1>2. ASSUME NEW n \in 0 .. MaxRequest, Allocate(n) PROVE IInv'
  BY <1>2, AllocateIInv
<1>3. ASSUME NEW n \in 0 .. MaxRequest, AllocFails(n) PROVE IInv'
  BY <1>1, <1>3 DEF AllocFails
<1>4. ASSUME NEW b \in live, free(b) PROVE IInv'
  BY <1>4, FreeIInv
<1>5. ASSUME NEW b \in live, Write(b) PROVE IInv'
  BY <1>5, WriteIInv
<1> QED
  BY <1>1, <1>2, <1>3, <1>4, <1>5 DEF Next, alloc

THEOREM Inductive == Spec => []IInv
  BY InitIInv, StepIInv, PTL DEF Spec

----------------------------------------------------------------------------
(* What follows from it. *)

LEMMA NodesAre ==
  ASSUME list \in Seq(Node)
  PROVE  \A x : x \in Nodes <=> \E i \in 1 .. Len(list) : x = list[i]
BY LenProperties DEF Nodes, ToSet

\* Every cell of the heap belongs to one node of the free list or to one
\* block, the list is in order and no two of its nodes touch, whatever was
\* allocated and freed, in whatever order.
THEOREM HeapIsTiled == Spec => []Tiling
<1>1. ASSUME IInv PROVE Tiling
  <2>1. /\ list \in Seq(Node)
        /\ \A c \in live : c \in Node /\ End(c) <= HeapSize
        /\ \A j \in 1 .. Len(list) : list[j] \in Node /\ End(list[j]) <= HeapSize
    BY <1>1, ElementOfSeq DEF IInv, TypeOK, NodeList
  <2>2. ASSUME NEW i \in 1 .. Len(list), NEW j \in 1 .. Len(list), i < j
        PROVE  list[i].addr + Header + list[i].size < list[j].addr
    <3>1. End(list[i]) <= list[j].addr /\ End(list[i]) # list[j].addr
      BY <1>1, <2>2 DEF IInv, OrderedBut
    <3>2. End(list[i]) \in Nat /\ list[j].addr \in Nat
      <4>1. list[i] \in Node /\ list[j] \in Node
        BY <2>1, <2>2
      <4> QED
        BY <4>1, NodeTypes
    <3>3. End(list[i]) < list[j].addr
      BY <3>1, <3>2
    <3> QED
      BY <3>3 DEF End
  <2>3. \A a \in Addr : a \in Covered(list) <=> \E x \in Nodes : a \in Extent(x)
    BY <2>1, NodesAre, ExtentIs DEF Covered
  <2>4. ASSUME NEW b \in live, NEW c \in Nodes \cup (live \ {b}) PROVE Extent(b) \cap Extent(c) = {}
    <3>1. CASE c \in Nodes
      <4>1. \A a \in Addr : a \in Extent(c) => a \notin Extent(b)
        BY <1>1, <2>3, <3>1 DEF IInv
      <4> QED
        BY <4>1 DEF Extent, Cells
    <3>2. CASE c \in live \ {b}
      <4>1. End(b) <= c.addr \/ End(c) <= b.addr
        BY <1>1, <3>2 DEF IInv
      <4> QED
        BY <2>1, <3>2, <4>1, Apart
    <3> QED
      BY <3>1, <3>2
  <2>5. UNION {Extent(x) : x \in Nodes \cup live} = Addr
    <3>1. \A x : Extent(x) \subseteq Addr
      BY DEF Extent, Cells
    <3>2. \A a \in Addr : \E x \in Nodes \cup live : a \in Extent(x)
      BY <1>1, <2>3 DEF IInv
    <3> QED
      BY <3>1, <3>2
  <2>6. \A x \in Nodes \cup live : x.addr + Header + x.size <= HeapSize
    BY <2>1, NodesAre DEF End
  <2> QED
    BY <1>1, <2>2, <2>4, <2>5, <2>6 DEF IInv, Tiling
<1> QED
  BY <1>1, Inductive, PTL

\* The assertions of alloc and free pass on every legal call, and one that
\* frees what is not a block meets no magic.
THEOREM HeadersStayIntact == Spec => []HeadersIntact
<1>1. ASSUME IInv PROVE HeadersIntact
  <2>1. \A nd \in Nodes : mem[nd.addr] = "node"
    BY <1>1, NodesAre DEF IInv, TypeOK
  <2> QED
    BY <1>1, <2>1 DEF IInv, HeadersIntact
<1> QED
  BY <1>1, Inductive, PTL

\* alloc returns NULL only if no run of free cells is wide enough: free has
\* joined all that could be joined.
THEOREM FailsForWantOfRoom == Spec => []NoFalseFailure
<1>1. ASSUME IInv PROVE NoFalseFailure
  <2> SUFFICES ASSUME NEW n \in 0 .. MaxRequest, node_find_size(n + Header) = 0,
                      NEW a \in Addr, a + n + 2 * Header <= HeapSize,
                      \A b \in live : Cells(a, n + 2 * Header) \cap Extent(b) = {}
               PROVE  FALSE
    BY DEF NoFalseFailure
  <2>1. /\ list \in Seq(Node) /\ Len(list) \in Nat /\ Header \in Nat /\ Header > 0 /\ HeapSize \in Nat
        /\ n \in Nat /\ a \in Nat
        /\ \A j \in 1 .. Len(list) : list[j] \in Node /\ End(list[j]) <= HeapSize
    BY <1>1, LenProperties, ElementOfSeq, SizeAssumption DEF IInv, TypeOK, NodeList, Addr
  <2>2. \A j \in 1 .. Len(list) : /\ list[j].addr \in Nat /\ list[j].size \in Nat /\ End(list[j]) \in Nat
                                /\ list[j].addr < End(list[j])
    BY <2>1, NodeTypes
  <2>3. \A i \in 1 .. Len(list) : ~(list[i].size >= n + Header)
    <3>1. n + Header \in Nat
      BY <2>1
    <3> QED
      BY <2>1, <3>1, FindSize
  <2>4. ASSUME NEW c \in Nat, a <= c, c < a + n + 2 * Header
        PROVE  \E i \in 1 .. Len(list) : list[i].addr <= c /\ c < End(list[i])
    <3>1. c \in Addr
      BY <2>1, <2>4 DEF Addr
    <3>2. c \in Cells(a, n + 2 * Header)
      BY <2>1, <2>4, <3>1 DEF Cells
    <3>3. c \in Covered(list)
      BY <1>1, <3>1, <3>2 DEF IInv
    <3> QED
      BY <3>3 DEF Covered
  <2>5. PICK i \in 1 .. Len(list) : list[i].addr <= a /\ a < End(list[i])
    BY <2>1, <2>4
  <2>6. PICK e \in Nat : e = End(list[i])
    BY <2>2
  <2>7. CASE e < a + n + 2 * Header
    <3>1. PICK j \in 1 .. Len(list) : list[j].addr <= e /\ e < End(list[j])
      BY <2>1, <2>4, <2>5, <2>6, <2>7
    <3>2. i < j \/ j < i
      BY <2>1, <2>6, <3>1
    <3>3. (i < j => End(list[i]) <= list[j].addr /\ End(list[i]) # list[j].addr)
          /\ (j < i => End(list[j]) <= list[i].addr)
      BY <1>1 DEF IInv, OrderedBut
    <3> QED
      BY <2>2, <2>6, <3>1, <3>2, <3>3
  <2>8. CASE e >= a + n + 2 * Header
    <3>1. e = list[i].addr + Header + list[i].size
      BY <2>6 DEF End
    <3>2. list[i].size >= n + Header
      BY <2>1, <2>2, <2>5, <2>8, <3>1, SMTT(30)
    <3> QED
      BY <2>3, <3>2
  <2>9. e < a + n + 2 * Header \/ e >= a + n + 2 * Header
    BY <2>1
  <2> QED
    BY <2>7, <2>8, <2>9
<1> QED
  BY <1>1, Inductive, PTL

----------------------------------------------------------------------------
(* The refinement *)

\* The region of memory that the caller of alloc gets with a block.
Given(b) == [from |-> b.addr + Header, len |-> b.size]

LEMMA GivenIs ==
  ASSUME NEW b \in Node
  PROVE  /\ Given(b).from = b.addr + Header /\ Given(b).len = b.size
         /\ Given(b).from \in Nat /\ Given(b).len \in Nat
         /\ Given(b).from + Given(b).len = End(b) /\ b.addr < Given(b).from
         /\ \A c \in Node : Given(c) = Given(b) => c = b
<1>1. b.addr \in Nat /\ b.size \in Nat /\ Header \in Nat /\ Header > 0
  BY NodeTypes, SizeAssumption
<1>2. Given(b).from = b.addr + Header /\ Given(b).len = b.size
  BY DEF Given
<1>3. ASSUME NEW c \in Node, Given(c) = Given(b) PROVE c = b
  <2>1. c.addr + Header = b.addr + Header /\ c.size = b.size /\ c.addr \in Nat
    BY <1>3, NodeTypes DEF Given
  <2>2. c.addr = b.addr
    BY <1>1, <2>1
  <2> QED
    BY <2>1, <2>2, NodeTypes
<1>4. Given(b).from + Given(b).len = End(b)
  BY <1>1, <1>2 DEF End
<1> QED
  BY <1>1, <1>2, <1>3, <1>4

LEMMA RegionsApart ==
  ASSUME NEW f \in Nat, NEW l \in Nat, NEW a \in Nat, NEW e \in Nat, f + l = e, a < f,
         NEW g \in Nat, NEW m \in Nat, NEW b \in Nat, NEW d \in Nat, g + m = d, b < g,
         e <= b \/ d <= a
  PROVE  (f + l <= g /\ f < g) \/ (g + m <= f /\ g < f)
OBVIOUS

\* Memory handed out is what a heap promises: no region overlaps another or
\* reaches past the end, alloc gives one of the size asked for, free takes one
\* back, and nothing else changes what is handed out.
THEOREM RefinesHeap == Spec => ImplementsHeap
<1> DEFINE R(S) == {Given(b) : b \in S}
<1>1. Abs!Spec <=> R(live) = {} /\ [][Abs!Next]_(R(live))
  BY DEF Abs!Spec, Abs!Init, Given
<1>2. Init => R(live) = {}
  BY DEF Init
<1>3. ASSUME IInv, [Next]_vars PROVE [Abs!Next]_(R(live))
  <2>1. \A c \in live : c \in Node /\ End(c) <= HeapSize /\ c.size <= MaxRequest
    BY <1>3 DEF IInv, TypeOK
  <2>2. \A c \in live : /\ Given(c).from \in Nat /\ Given(c).len \in Nat /\ c.addr \in Nat /\ End(c) \in Nat
                      /\ Given(c).from + Given(c).len = End(c) /\ c.addr < Given(c).from
    BY <2>1, GivenIs, NodeTypes
  <2>3. CASE live' = live
    BY <2>3
  <2>4. ASSUME NEW n \in 0 .. MaxRequest, Allocate(n) PROVE Abs!Next
    <3>1. PICK b \in Node : /\ b.size = n /\ live' = live \cup {b} /\ End(b) <= HeapSize
                           /\ \A c \in live : End(b) <= c.addr \/ End(c) <= b.addr
      BY <1>3, <2>4, AllocateIInv
    <3>2. PICK r : r = Given(b)
      OBVIOUS
    <3>3. /\ r.from \in Nat /\ r.len = n /\ r.from + r.len = End(b) /\ b.addr < r.from /\ b.addr \in Nat
          /\ End(b) \in Nat /\ n \in Nat
      BY <3>1, <3>2, GivenIs, NodeTypes, SizeAssumption
    <3>4. r \in Abs!Region
      <4>1. r.from \in 0 .. HeapSize
        BY <3>1, <3>3, SizeAssumption
      <4> QED
        BY <3>2, <3>3, <4>1 DEF Abs!Region, Given
    <3>5. ASSUME NEW s \in R(live) PROVE ~Abs!Overlap(r, s) /\ r.from # s.from
      <4>1. PICK c \in live : s = Given(c)
        OBVIOUS
      <4>2. End(b) <= c.addr \/ End(c) <= b.addr
        BY <3>1
      <4>3. /\ s.from \in Nat /\ s.len \in Nat /\ c.addr \in Nat /\ End(c) \in Nat
            /\ s.from + s.len = End(c) /\ c.addr < s.from
        BY <2>2, <4>1
      <4>4. PICK l \in Nat, m \in Nat, a \in Nat, e \in Nat, d \in Nat, z \in Nat, f \in Nat, g \in Nat :
              /\ l = r.len /\ m = s.len /\ a = b.addr /\ z = c.addr /\ e = End(b) /\ d = End(c)
              /\ f = r.from /\ g = s.from
        BY <3>3, <4>3
      <4>5. (f + l <= g /\ f < g) \/ (g + m <= f /\ g < f)
        BY <3>3, <4>2, <4>3, <4>4, RegionsApart
      <4> QED
        BY <4>4, <4>5 DEF Abs!Overlap
    <3>6. R(live') = R(live) \cup {r}
      BY <3>1, <3>2
    <3>7. Abs!Get(r)
      BY <3>1, <3>3, <3>5, <3>6 DEF Abs!Get, Given
    <3> QED
      BY <3>4, <3>7 DEF Abs!Next
  <2>5. ASSUME NEW b \in live, free(b) PROVE Abs!Next
    <3>1. mem[b.addr] = "block"
      <4>1. b.addr \in Cells(b.addr, Header) /\ b.addr \in Addr
        BY <2>1, NodeTypes, ExtentIs, SizeAssumption
      <4> QED
        BY <1>3, <4>1 DEF IInv
    <3>2. live' = live \ {b}
      BY <2>5, <3>1 DEF free
    <3>3. PICK r : r = Given(b)
      OBVIOUS
    <3>4. r \in Abs!Region
      <4>1. /\ r.from \in Nat /\ r.len \in Nat /\ r.from + r.len = End(b) /\ r.len <= MaxRequest
            /\ End(b) <= HeapSize
        BY <2>1, <2>2, <3>3, GivenIs
      <4>2. r.from \in 0 .. HeapSize /\ r.len \in 0 .. MaxRequest
        BY <2>1, <2>2, <4>1, SizeAssumption
      <4> QED
        BY <3>3, <4>2 DEF Abs!Region, Given
    <3>5. R(live') = R(live) \ {r}
      BY <2>1, <3>2, <3>3, GivenIs
    <3>6. Abs!Put(r)
      BY <3>3, <3>5 DEF Abs!Put, Given
    <3> QED
      BY <3>4, <3>6 DEF Abs!Next
  <2>6. ASSUME NEW b \in live, Write(b) PROVE live' = live
    BY <2>6 DEF Write
  <2>7. ASSUME NEW n \in 0 .. MaxRequest, AllocFails(n) PROVE live' = live
    BY <2>7 DEF AllocFails, vars
  <2>8. CASE UNCHANGED vars
    BY <2>3, <2>8 DEF vars
  <2> QED
    BY <1>3, <2>3, <2>4, <2>5, <2>6, <2>7, <2>8 DEF Next, alloc
<1> HIDE DEF R
<1> QED
  BY <1>1, <1>2, <1>3, Inductive, PTL DEF Spec, ImplementsHeap
=============================================================================
