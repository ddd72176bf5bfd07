------------------------------ MODULE TtyProofs ------------------------------
(***************************************************************************)
(* Proofs about Tty, for any terminals, programs, characters and sizes of  *)
(* queue and screen: readers get the lines that were typed, cooked counts  *)
(* them, the window of a terminal shows its text, and the screen settles   *)
(* on the terminal that the keys go to.                                    *)
(***************************************************************************)
EXTENDS Tty, FiniteSetTheorems, SequenceTheorems, WellFoundedInduction, TLAPS

----------------------------------------------------------------------------
(* Least and greatest numbers, by which the proofs argue by induction.     *)

LEMMA LeastExists ==
  ASSUME NEW S \in SUBSET Nat, S # {}
  PROVE  \E x \in S : \A y \in S : x <= y
<1> DEFINE T == {0 .. x : x \in S}
<1>1. IsWellFoundedOn(StrictSubsetOrdering(Nat), FiniteSubsetsOf(Nat))
  BY FS_StrictSubsetOrderingWellFounded
<1>2. T \subseteq FiniteSubsetsOf(Nat) /\ T # {}
  <2>1. \A x \in S : IsFiniteSet(0 .. x) /\ 0 .. x \in SUBSET Nat
    BY FS_Interval
  <2> QED
    BY <2>1 DEF FiniteSubsetsOf
<1>3. PICK t \in T : \A u \in T : <<u, t>> \notin StrictSubsetOrdering(Nat)
  BY <1>1, <1>2, WFMin
<1>4. PICK x \in S : t = 0 .. x
  OBVIOUS
<1>5. ASSUME NEW y \in S PROVE x <= y
  <2>1. SUFFICES ASSUME y < x PROVE FALSE
    OBVIOUS
  <2>2. 0 .. y \subseteq 0 .. x /\ x \notin 0 .. y /\ x \in 0 .. x
    BY <2>1
  <2>3. <<0 .. y, t>> \in StrictSubsetOrdering(Nat)
    BY <1>4, <2>2 DEF StrictSubsetOrdering
  <2> QED
    BY <1>3, <2>3
<1> QED
  BY <1>5

LEMMA GreatestExists ==
  ASSUME NEW n \in Nat, NEW S \in SUBSET (0 .. n), S # {}
  PROVE  \E x \in S : \A y \in S : y <= x
<1> DEFINE T == {n - x : x \in S}
<1>1. T \in SUBSET Nat /\ T # {}
  OBVIOUS
<1>2. PICK t \in T : \A u \in T : t <= u
  BY <1>1, LeastExists
<1>3. PICK x \in S : t = n - x
  OBVIOUS
<1>4. \A y \in S : n - x <= n - y
  BY <1>2, <1>3
<1> QED
  BY <1>4

----------------------------------------------------------------------------
(* The lines in a sequence of characters.                                  *)

Text == Seq(AllChar)

\* The 0s of s up to place i.
Upto(s, i) == {j \in Ends(s) : j <= i}

LEMMA EndsFinite ==
  ASSUME NEW s \in Text
  PROVE  /\ Ends(s) \in SUBSET (1 .. Len(s)) /\ Len(s) \in Nat
         /\ IsFiniteSet(Ends(s)) /\ Cardinality(Ends(s)) \in Nat
         /\ \A i : IsFiniteSet(Upto(s, i)) /\ Cardinality(Upto(s, i)) \in Nat
<1>1. Ends(s) \in SUBSET (1 .. Len(s)) /\ Len(s) \in Nat
  BY LenProperties DEF Ends, Text
<1>2. IsFiniteSet(Ends(s))
  <2>1. IsFiniteSet(1 .. Len(s))
    BY <1>1, FS_Interval
  <2> QED
    BY <1>1, <2>1, FS_Subset
<1>3. ASSUME NEW i PROVE IsFiniteSet(Upto(s, i)) /\ Cardinality(Upto(s, i)) \in Nat
  <2>1. Upto(s, i) \in SUBSET Ends(s)
    BY DEF Upto
  <2> QED
    BY <1>2, <2>1, FS_Subset, FS_CardinalityType
<1> QED
  BY <1>1, <1>2, <1>3, FS_CardinalityType

\* No two 0s have the same number of 0s before them.
LEMMA UptoGrows ==
  ASSUME NEW s \in Text, NEW i \in Ends(s), NEW j \in Ends(s), i < j
  PROVE  Cardinality(Upto(s, i)) < Cardinality(Upto(s, j))
<1>1. i \in Nat /\ j \in Nat /\ \A k \in Ends(s) : k \in Nat
  BY EndsFinite
<1>2. Upto(s, i) \in SUBSET Upto(s, j) /\ j \in Upto(s, j) /\ j \notin Upto(s, i)
  <2>1. \A k \in Upto(s, i) : k \in Upto(s, j)
    BY <1>1 DEF Upto
  <2>2. j <= j /\ ~(j <= i)
    BY <1>1
  <2> QED
    BY <2>1, <2>2 DEF Upto
<1>3. /\ Cardinality(Upto(s, i)) <= Cardinality(Upto(s, j))
      /\ Cardinality(Upto(s, i)) # Cardinality(Upto(s, j))
  BY <1>2, EndsFinite, FS_Subset
<1> QED
  BY <1>3, EndsFinite

\* The k-th 0 is the one with k 0s up to it.
LEMMA EndOf ==
  ASSUME NEW s \in Text, NEW i \in Ends(s)
  PROVE  End(s, Cardinality(Upto(s, i))) = i
<1> DEFINE k == Cardinality(Upto(s, i))
<1>1. i \in Upto(s, i) /\ i \in Nat
  BY EndsFinite DEF Upto
<1>2. k \in Nat /\ k # 0
  BY <1>1, EndsFinite, FS_EmptySet
<1>3. ASSUME NEW j \in Ends(s), Cardinality(Upto(s, j)) = k PROVE j = i
  <2>1. j \in Nat /\ k \in Nat
    BY EndsFinite
  <2>2. ~(i < j) /\ ~(j < i)
    BY <1>3, <2>1, UptoGrows, <1>1
  <2> QED
    BY <1>1, <2>1, <2>2
<1>4. End(s, k) = CHOOSE j \in Ends(s) : Cardinality(Upto(s, j)) = k
  BY <1>2 DEF End, Upto
<1> QED
  BY <1>3, <1>4

\* There is a k-th 0 for every k up to how many there are.
LEMMA EndIs ==
  ASSUME NEW s \in Text, NEW k \in 1 .. Cardinality(Ends(s))
  PROVE  End(s, k) \in Ends(s) /\ Cardinality(Upto(s, End(s, k))) = k
<1> DEFINE S == {i \in Ends(s) : Cardinality(Upto(s, i)) >= k}
<1>1. /\ Ends(s) \in SUBSET (1 .. Len(s)) /\ Len(s) \in Nat
      /\ Cardinality(Ends(s)) \in Nat
  BY EndsFinite
<1>2. Ends(s) # {}
  <2>1. Cardinality(Ends(s)) # 0
    BY <1>1
  <2> QED
    BY <2>1, FS_EmptySet
<1>3. PICK e \in Ends(s) : \A j \in Ends(s) : j <= e
  <2>1. Ends(s) \in SUBSET (0 .. Len(s))
    BY <1>1
  <2> QED
    BY <1>1, <1>2, <2>1, GreatestExists
<1>4. Upto(s, e) = Ends(s)
  BY <1>3 DEF Upto
<1>5. e \in S
  BY <1>1, <1>4
<1>6. S \in SUBSET Nat
  BY <1>1
<1>7. PICK m \in S : \A j \in S : m <= j
  BY <1>5, <1>6, LeastExists
<1>8. m \in Ends(s) /\ Cardinality(Upto(s, m)) >= k /\ m \in Nat
  BY <1>6, <1>7
<1>9. ASSUME Cardinality(Upto(s, m)) # k PROVE FALSE
  <2> DEFINE P == Upto(s, m) \ {m}
  <2>1. m \in Upto(s, m)
    BY <1>8 DEF Upto
  <2>2. /\ IsFiniteSet(P) /\ Cardinality(P) = Cardinality(Upto(s, m)) - 1
        /\ Cardinality(Upto(s, m)) \in Nat
    BY <2>1, EndsFinite, FS_RemoveElement
  <2>3. Cardinality(P) >= k
    BY <1>8, <1>9, <2>2
  <2>4. P # {}
    BY <2>3, FS_EmptySet
  <2>5. P \in SUBSET (0 .. Len(s))
    BY <1>1 DEF Upto
  <2>6. PICK g \in P : \A j \in P : j <= g
    BY <1>1, <2>4, <2>5, GreatestExists
  <2>7. g \in Ends(s) /\ g < m /\ g \in Nat
    BY <1>1, <1>8, <2>6 DEF Upto
  <2>8. Upto(s, g) = P
    BY <1>1, <1>8, <2>6, <2>7 DEF Upto
  <2>9. g \in S
    BY <2>3, <2>7, <2>8
  <2> QED
    BY <1>7, <1>8, <2>7, <2>9
<1>10. End(s, Cardinality(Upto(s, m))) = m
  BY <1>8, EndOf
<1> QED
  BY <1>8, <1>9, <1>10

\* The places of two of them are in order.
LEMMA EndInOrder ==
  ASSUME NEW s \in Text, NEW k \in 0 .. Cardinality(Ends(s))
  PROVE  /\ End(s, k) \in 0 .. Len(s)
         /\ k > 0 => End(s, k - 1) < End(s, k) /\ End(s, k - 1) \in 0 .. Len(s)
<1>1. /\ Ends(s) \in SUBSET (1 .. Len(s)) /\ Len(s) \in Nat
      /\ Cardinality(Ends(s)) \in Nat
  BY EndsFinite
<1>2. CASE k = 0
  BY <1>1, <1>2 DEF End
<1>3. CASE k = 1
  <2>1. End(s, 1) \in 1 .. Len(s)
    <3>1. 1 \in 1 .. Cardinality(Ends(s))
      BY <1>1, <1>3
    <3> QED
      BY <1>1, <3>1, EndIs
  <2>2. End(s, 0) = 0
    BY DEF End
  <2> QED
    BY <1>1, <1>3, <2>1, <2>2
<1>4. CASE k > 1
  <2>1. k - 1 \in 1 .. Cardinality(Ends(s)) /\ k \in 1 .. Cardinality(Ends(s)) /\ k \in Nat
    BY <1>1, <1>4
  <2>2. /\ End(s, k) \in Ends(s) /\ Cardinality(Upto(s, End(s, k))) = k
        /\ End(s, k - 1) \in Ends(s) /\ Cardinality(Upto(s, End(s, k - 1))) = k - 1
    BY <2>1, EndIs
  <2>3. End(s, k) \in 1 .. Len(s) /\ End(s, k - 1) \in 1 .. Len(s)
    BY <1>1, <2>2
  <2>4. ~(End(s, k) < End(s, k - 1)) /\ End(s, k) # End(s, k - 1)
    BY <2>1, <2>2, UptoGrows
  <2> QED
    BY <1>1, <2>3, <2>4
<1> QED
  BY <1>1, <1>2, <1>3, <1>4

LEMMA LinesType ==
  ASSUME NEW s \in Text
  PROVE  /\ Completed(s) \in Seq(Text) /\ Len(Completed(s)) = Cardinality(Ends(s))
         /\ Unfinished(s) \in Text
         /\ Len(Unfinished(s)) = Len(s) - End(s, Cardinality(Ends(s)))
<1> DEFINE n == Cardinality(Ends(s))
<1>1. n \in Nat /\ Len(s) \in Nat /\ \A i \in 1 .. Len(s) : s[i] \in AllChar
  BY EndsFinite, ElementOfSeq DEF Text
<1>2. ASSUME NEW k \in 1 .. n PROVE SubSeq(s, End(s, k - 1) + 1, End(s, k) - 1) \in Text
  <2>1. End(s, k) \in 0 .. Len(s) /\ End(s, k - 1) \in 0 .. Len(s)
    BY <1>1, EndInOrder
  <2>2. \A i \in End(s, k - 1) + 1 .. End(s, k) - 1 : s[i] \in AllChar
    BY <1>1, <2>1
  <2> QED
    BY <2>1, <2>2, SubSeqProperties DEF Text
<1>3. End(s, n) \in 0 .. Len(s)
  BY <1>1, EndInOrder
<1>4. Unfinished(s) \in Text /\ Len(Unfinished(s)) = Len(s) - End(s, n)
  <2>1. \A i \in End(s, n) + 1 .. Len(s) : s[i] \in AllChar
    BY <1>1, <1>3
  <2>2. /\ SubSeq(s, End(s, n) + 1, Len(s)) \in Seq(AllChar)
        /\ Len(SubSeq(s, End(s, n) + 1, Len(s))) =
             IF End(s, n) + 1 <= Len(s) THEN Len(s) - (End(s, n) + 1) + 1 ELSE 0
    BY <1>1, <1>3, <2>1, SubSeqProperties
  <2> QED
    BY <1>1, <1>3, <2>2 DEF Unfinished, Text
<1>5. Completed(s) \in [1 .. n -> Text]
  BY <1>2 DEF Completed
<1>6. Completed(s) \in Seq(Text) /\ Len(Completed(s)) = n
  <2>1. Completed(s) \in Seq(Text)
    BY <1>1, <1>5, SeqDef
  <2>2. DOMAIN Completed(s) = 1 .. n /\ DOMAIN Completed(s) = 1 .. Len(Completed(s))
        /\ Len(Completed(s)) \in Nat
    BY <1>5, <2>1, LenProperties
  <2> QED
    BY <1>1, <2>1, <2>2
<1> QED
  BY <1>4, <1>6

\* Two sequences of lines are equal if they have the same lines.
LEMMA SameLines ==
  ASSUME NEW a \in Seq(Text), NEW b \in Seq(Text), Len(a) = Len(b),
         \A k \in 1 .. Len(a) : a[k] = b[k]
  PROVE  a = b
BY SeqEqual

\* SubSeq looks at the places between its bounds only.
LEMMA SameSubSeq ==
  ASSUME NEW s \in Text, NEW t \in Text, NEW a \in Nat, NEW b \in Nat, b <= Len(s), b <= Len(t),
         \A i \in 1 .. b : s[i] = t[i]
  PROVE  SubSeq(s, a + 1, b) = SubSeq(t, a + 1, b)
<1>1. Len(s) \in Nat /\ Len(t) \in Nat
  BY LenProperties DEF Text
<1>2. (\A i \in a + 1 .. b : s[i] \in AllChar) /\ (\A i \in a + 1 .. b : t[i] \in AllChar)
  BY <1>1, ElementOfSeq DEF Text
<1>3. /\ SubSeq(s, a + 1, b) \in Seq(AllChar) /\ SubSeq(t, a + 1, b) \in Seq(AllChar)
      /\ Len(SubSeq(s, a + 1, b)) = IF a + 1 <= b THEN b - (a + 1) + 1 ELSE 0
      /\ Len(SubSeq(t, a + 1, b)) = IF a + 1 <= b THEN b - (a + 1) + 1 ELSE 0
      /\ \A i \in 1 .. b - (a + 1) + 1 : SubSeq(s, a + 1, b)[i] = s[(a + 1) + i - 1]
      /\ \A i \in 1 .. b - (a + 1) + 1 : SubSeq(t, a + 1, b)[i] = t[(a + 1) + i - 1]
  BY <1>2, SubSeqProperties
<1>4. ASSUME NEW i \in 1 .. Len(SubSeq(s, a + 1, b))
      PROVE  SubSeq(s, a + 1, b)[i] = SubSeq(t, a + 1, b)[i]
  <2>1. i \in 1 .. b - (a + 1) + 1 /\ (a + 1) + i - 1 \in 1 .. b
    BY <1>3
  <2> QED
    BY <1>3, <2>1
<1> QED
  BY <1>3, <1>4, SeqEqual

LEMMA SubSeqLast ==
  ASSUME NEW s \in Text, NEW a \in Nat, a < Len(s)
  PROVE  SubSeq(s, a + 1, Len(s)) = Append(SubSeq(s, a + 1, Len(s) - 1), s[Len(s)])
<1>1. s \in Seq(AllChar) /\ Len(s) \in Nat /\ \A i \in 1 .. Len(s) : s[i] \in AllChar
  BY LenProperties, ElementOfSeq DEF Text
<1>2. PICK m \in 1 .. Len(s) : m = a + 1
  BY <1>1
<1>3. PICK n \in m .. Len(s) : n = Len(s)
  BY <1>1
<1>4. SubSeq(s, m, n) = SubSeq(s, m, n - 1) \o <<s[n]>>
  BY <1>1, SubSeqRecursiveSecond
<1>5. SubSeq(s, m, n - 1) \in Seq(AllChar) /\ s[n] \in AllChar
  <2>1. m \in Int /\ n - 1 \in Int /\ n \in 1 .. Len(s)
    BY <1>1
  <2>2. \A i \in m .. n - 1 : s[i] \in AllChar
    BY <1>1
  <2> QED
    BY <1>1, <2>1, <2>2, SubSeqProperties
<1>6. SubSeq(s, m, n - 1) \o <<s[n]>> = Append(SubSeq(s, m, n - 1), s[n])
  BY <1>5, AppendIsConcat
<1> QED
  BY <1>2, <1>3, <1>4, <1>6

\* A character that is not a 0 goes to the line being typed.
LEMMA AppendChar ==
  ASSUME NEW s \in Text, NEW c \in AllChar, c # "nul"
  PROVE  /\ Ends(Append(s, c)) = Ends(s)
         /\ Completed(Append(s, c)) = Completed(s)
         /\ Unfinished(Append(s, c)) = Append(Unfinished(s), c)
<1> DEFINE t == Append(s, c)
           n == Cardinality(Ends(s))
<1>1. /\ t \in Text /\ Len(t) = Len(s) + 1 /\ Len(s) \in Nat
      /\ \A i \in 1 .. Len(s) : t[i] = s[i]
      /\ t[Len(s) + 1] = c
  BY AppendProperties, LenProperties DEF Text
<1> HIDE DEF t
<1>2. Ends(t) = Ends(s)
  <2>1. DOMAIN t = 1 .. Len(s) + 1 /\ DOMAIN s = 1 .. Len(s)
    BY <1>1, LenProperties DEF Text
  <2>2. \A i \in 1 .. Len(s) + 1 : i \in 1 .. Len(s) \/ i = Len(s) + 1
    BY <1>1
  <2>3. 1 .. Len(s) \in SUBSET (1 .. Len(s) + 1)
    BY <1>1
  <2> QED
    BY <1>1, <2>1, <2>2, <2>3 DEF Ends
<1>3. \A k : End(t, k) = End(s, k)
  BY <1>2 DEF End
<1>4. n \in Nat /\ \A k \in 0 .. n : End(s, k) \in 0 .. Len(s)
  BY EndsFinite, EndInOrder
<1>5. ASSUME NEW k \in 1 .. n
      PROVE  SubSeq(t, End(s, k - 1) + 1, End(s, k) - 1) = SubSeq(s, End(s, k - 1) + 1, End(s, k) - 1)
  <2>1. End(s, k - 1) \in Nat /\ End(s, k) - 1 \in Nat /\ End(s, k) - 1 <= Len(s)
    <3>1. k \in 0 .. n /\ k > 0
      BY <1>4
    <3>2. End(s, k) \in 0 .. Len(s) /\ End(s, k - 1) < End(s, k) /\ End(s, k - 1) \in 0 .. Len(s)
      BY <3>1, EndInOrder
    <3> QED
      BY <1>1, <3>2
  <2>2. End(s, k) - 1 <= Len(t) /\ \A i \in 1 .. End(s, k) - 1 : t[i] = s[i]
    BY <1>1, <2>1
  <2> QED
    BY <1>1, <2>1, <2>2, SameSubSeq
<1>6. Completed(t) = Completed(s)
  <2>1. /\ Completed(t) = [k \in 1 .. n |-> SubSeq(t, End(t, k - 1) + 1, End(t, k) - 1)]
        /\ Completed(s) = [k \in 1 .. n |-> SubSeq(s, End(s, k - 1) + 1, End(s, k) - 1)]
    BY <1>2 DEF Completed
  <2>2. ASSUME NEW k \in 1 .. n
        PROVE  SubSeq(t, End(t, k - 1) + 1, End(t, k) - 1) = SubSeq(s, End(s, k - 1) + 1, End(s, k) - 1)
    <3>1. End(t, k - 1) = End(s, k - 1) /\ End(t, k) = End(s, k)
      BY <1>3
    <3> QED
      BY <1>5, <3>1
  <2> QED
    BY <2>1, <2>2, Zenon
<1>7. Unfinished(t) = Append(Unfinished(s), c)
  <2> DEFINE e == End(s, n)
  <2>1. e \in 0 .. Len(s)
    BY <1>4
  <2>2. Unfinished(t) = SubSeq(t, e + 1, Len(s) + 1)
    BY <1>1, <1>2, <1>3 DEF Unfinished
  <2>3. SubSeq(t, e + 1, Len(t)) = Append(SubSeq(t, e + 1, Len(t) - 1), t[Len(t)])
    BY <1>1, <2>1, SubSeqLast
  <2>4. SubSeq(t, e + 1, Len(s)) = SubSeq(s, e + 1, Len(s))
    <3>1. e \in Nat /\ Len(s) <= Len(t)
      BY <1>1, <2>1
    <3> QED
      BY <1>1, <3>1, SameSubSeq
  <2>5. Len(t) - 1 = Len(s)
    BY <1>1
  <2> QED
    BY <1>1, <2>2, <2>3, <2>4, <2>5 DEF Unfinished
<1> QED
  BY <1>2, <1>6, <1>7 DEF t

\* A 0 completes the line being typed.
LEMMA AppendEnd ==
  ASSUME NEW s \in Text
  PROVE  /\ Cardinality(Ends(Append(s, "nul"))) = Cardinality(Ends(s)) + 1
         /\ Completed(Append(s, "nul")) = Append(Completed(s), Unfinished(s))
         /\ Unfinished(Append(s, "nul")) = <<>>
<1> DEFINE t == Append(s, "nul")
           n == Cardinality(Ends(s))
           z == Len(s) + 1
<1>1. /\ t \in Text /\ Len(t) = z /\ Len(s) \in Nat
      /\ \A i \in 1 .. Len(s) : t[i] = s[i]
      /\ t[z] = "nul"
  <2>1. "nul" \in AllChar
    BY DEF AllChar
  <2> QED
    BY <2>1, AppendProperties, LenProperties DEF Text
<1>2. Ends(t) = Ends(s) \cup {z}
  <2>1. DOMAIN t = 1 .. z /\ DOMAIN s = 1 .. Len(s)
    BY <1>1, LenProperties DEF Text
  <2>2. \A i \in 1 .. z : i \in 1 .. Len(s) \/ i = z
    BY <1>1
  <2>3. 1 .. Len(s) \in SUBSET (1 .. z) /\ z \in 1 .. z
    BY <1>1
  <2> QED
    BY <1>1, <2>1, <2>2, <2>3 DEF Ends
<1> HIDE DEF t
<1>3. n \in Nat /\ IsFiniteSet(Ends(s)) /\ Ends(s) \in SUBSET (1 .. Len(s)) /\ z \notin Ends(s)
  <2>1. z \notin 1 .. Len(s)
    BY <1>1
  <2> QED
    BY <2>1, EndsFinite
<1>4. Cardinality(Ends(t)) = n + 1
  BY <1>2, <1>3, FS_AddElement
<1>5. ASSUME NEW k \in 0 .. n PROVE End(t, k) = End(s, k)
  <2>1. CASE k = 0
    BY <2>1 DEF End
  <2>2. CASE k # 0
    <3> DEFINE i == End(s, k)
    <3>1. i \in Ends(s) /\ Cardinality(Upto(s, i)) = k
      <4>1. k \in 1 .. n
        BY <1>3, <2>2
      <4> QED
        BY <4>1, EndIs
    <3> HIDE DEF i
    <3>2. i \in Ends(t) /\ Upto(t, i) = Upto(s, i)
      <4>1. ~(z <= i)
        BY <1>1, <1>3, <3>1
      <4> QED
        BY <1>2, <3>1, <4>1 DEF Upto
    <3>3. End(t, Cardinality(Upto(t, i))) = i
      BY <1>1, <3>2, EndOf
    <3> QED
      BY <3>1, <3>2, <3>3 DEF i
  <2> QED
    BY <2>1, <2>2
<1>6. End(t, n + 1) = z
  <2>1. Upto(t, z) = Ends(t)
    <3>1. \A i \in Ends(t) : i <= z
      BY <1>1, <1>2, <1>3
    <3> QED
      BY <3>1 DEF Upto
  <2>2. z \in Ends(t)
    BY <1>2
  <2>3. End(t, Cardinality(Upto(t, z))) = z
    BY <1>1, <2>2, EndOf
  <2> QED
    BY <1>4, <2>1, <2>3
<1>7. \A k \in 0 .. n : End(s, k) \in 0 .. Len(s)
  BY <1>3, EndInOrder
<1>8. Unfinished(t) = <<>>
  <2>1. Unfinished(t) = SubSeq(t, z + 1, z)
    BY <1>1, <1>4, <1>6 DEF Unfinished
  <2>2. z + 1 \in Int /\ z \in Int /\ z < z + 1
    BY <1>1
  <2> QED
    BY <2>1, <2>2, SubSeqEmpty
<1>9. ASSUME NEW k \in 1 .. n PROVE Completed(t)[k] = Completed(s)[k]
  <2>1. k \in 0 .. n /\ k - 1 \in 0 .. n /\ k > 0 /\ k \in 1 .. n + 1
    BY <1>3
  <2>2. End(s, k - 1) \in Nat /\ End(s, k) - 1 \in Nat /\ End(s, k) - 1 <= Len(s) /\ End(s, k) - 1 <= Len(t)
    <3>1. End(s, k) \in 0 .. Len(s) /\ End(s, k - 1) < End(s, k) /\ End(s, k - 1) \in 0 .. Len(s)
      BY <2>1, EndInOrder
    <3> QED
      BY <1>1, <3>1
  <2>3. \A i \in 1 .. End(s, k) - 1 : t[i] = s[i]
    BY <1>1, <2>2
  <2>4. SubSeq(t, End(s, k - 1) + 1, End(s, k) - 1) = SubSeq(s, End(s, k - 1) + 1, End(s, k) - 1)
    BY <1>1, <2>2, <2>3, SameSubSeq
  <2>5. /\ Completed(t)[k] = SubSeq(t, End(t, k - 1) + 1, End(t, k) - 1)
        /\ Completed(s)[k] = SubSeq(s, End(s, k - 1) + 1, End(s, k) - 1)
    BY <1>4, <2>1 DEF Completed
  <2> QED
    BY <1>5, <2>1, <2>4, <2>5
<1>10. Completed(t)[n + 1] = Unfinished(s)
  <2>1. n + 1 \in 1 .. n + 1 /\ n \in 0 .. n /\ (n + 1) - 1 = n /\ z - 1 = Len(s)
    BY <1>1, <1>3
  <2>2. Completed(t)[n + 1] = SubSeq(t, End(t, (n + 1) - 1) + 1, End(t, n + 1) - 1)
    BY <1>4, <2>1 DEF Completed
  <2>3. Completed(t)[n + 1] = SubSeq(t, End(s, n) + 1, Len(s))
    BY <1>5, <1>6, <2>1, <2>2
  <2>4. End(s, n) \in Nat /\ Len(s) <= Len(t)
    BY <1>1, <1>7, <2>1
  <2>5. SubSeq(t, End(s, n) + 1, Len(s)) = SubSeq(s, End(s, n) + 1, Len(s))
    BY <1>1, <2>4, SameSubSeq
  <2> QED
    BY <2>3, <2>5 DEF Unfinished
<1>11. Completed(t) = Append(Completed(s), Unfinished(s))
  <2>1. /\ Completed(s) \in Seq(Text) /\ Len(Completed(s)) = n /\ Unfinished(s) \in Text
        /\ Completed(t) \in Seq(Text) /\ Len(Completed(t)) = n + 1
    BY <1>1, <1>4, LinesType
  <2> DEFINE a == Append(Completed(s), Unfinished(s))
  <2>2. /\ a \in Seq(Text) /\ Len(a) = n + 1 /\ \A k \in 1 .. n : a[k] = Completed(s)[k]
        /\ a[n + 1] = Unfinished(s)
    BY <2>1, AppendProperties
  <2> HIDE DEF a
  <2>3. \A k \in 1 .. n + 1 : Completed(t)[k] = a[k]
    <3>1. \A k \in 1 .. n + 1 : k \in 1 .. n \/ k = n + 1
      BY <1>3
    <3> QED
      BY <1>9, <1>10, <2>2, <3>1
  <2>4. Completed(t) = a
    BY <2>1, <2>2, <2>3, SameLines
  <2> QED
    BY <2>4 DEF a
<1> QED
  BY <1>4, <1>8, <1>11 DEF t

\* Without its last character, which is not a 0.
LEMMA EraseLast ==
  ASSUME NEW s \in Text, s # <<>>, s[Len(s)] # "nul"
  PROVE  /\ Ends(Front(s)) = Ends(s)
         /\ Completed(Front(s)) = Completed(s)
         /\ Unfinished(s) # <<>> /\ Unfinished(Front(s)) = Front(Unfinished(s))
<1>1. s \in Seq(AllChar) /\ Len(s) \in Nat \ {0} /\ s[Len(s)] \in AllChar
  BY EmptySeq, ElementOfSeq DEF Text
<1>2. PICK u : u = Front(s)
  OBVIOUS
<1>3. PICK c \in AllChar : c = s[Len(s)]
  BY <1>1
<1>4. u \in Text /\ s = Append(u, c)
  <2>1. u = SubSeq(s, 1, Len(s) - 1)
    BY <1>2 DEF Front
  <2>2. \A i \in 1 .. Len(s) - 1 : s[i] \in AllChar
    BY <1>1, ElementOfSeq
  <2>3. u \in Text
    BY <1>1, <2>1, <2>2, SubSeqProperties DEF Text
  <2>4. SubSeq(s, 0 + 1, Len(s)) = Append(SubSeq(s, 0 + 1, Len(s) - 1), s[Len(s)])
    <3>1. 0 < Len(s) /\ 0 \in Nat
      BY <1>1
    <3> QED
      BY <3>1, SubSeqLast
  <2>5. SubSeq(s, 1, Len(s)) = s
    BY <1>1, SubSeqFull
  <2> QED
    BY <1>3, <2>1, <2>3, <2>4, <2>5
<1>5. /\ Ends(s) = Ends(u) /\ Completed(s) = Completed(u)
      /\ Unfinished(s) = Append(Unfinished(u), c)
  BY <1>3, <1>4, AppendChar
<1>6. Front(Append(Unfinished(u), c)) = Unfinished(u) /\ Append(Unfinished(u), c) # <<>>
  <2> DEFINE r == Unfinished(u)
             a == Append(r, c)
  <2>1. r \in Seq(AllChar) /\ Len(r) \in Nat
    BY <1>4, LinesType, LenProperties DEF Text
  <2>2. /\ a \in Seq(AllChar) /\ Len(a) = Len(r) + 1 /\ \A i \in 1 .. Len(r) : a[i] = r[i]
        /\ a # <<>>
    BY <2>1, AppendProperties
  <2> HIDE DEF r, a
  <2>3. SubSeq(a, 0 + 1, Len(r)) = SubSeq(r, 0 + 1, Len(r))
    <3>1. Len(r) <= Len(a) /\ Len(r) <= Len(r) /\ a \in Text /\ r \in Text /\ 0 \in Nat
      BY <2>1, <2>2 DEF Text
    <3> QED
      BY <2>1, <2>2, <3>1, SameSubSeq
  <2>4. SubSeq(r, 1, Len(r)) = r
    BY <2>1, SubSeqFull
  <2>5. Front(a) = SubSeq(a, 1, Len(r))
    <3>1. Len(a) - 1 = Len(r)
      BY <2>1, <2>2
    <3> QED
      BY <3>1 DEF Front
  <2>6. Front(a) = r /\ a # <<>>
    BY <2>2, <2>3, <2>4, <2>5
  <2> QED
    BY <2>6 DEF a, r
<1> QED
  BY <1>2, <1>5, <1>6

----------------------------------------------------------------------------
(* The first line leaves.                                                  *)

\* As many numbers as before when each is less by m.
IsShift(T, S, m) == \A j : j \in T <=> (j \in Int /\ j + m \in S)

LEMMA Shifted ==
  ASSUME NEW S, IsFiniteSet(S), S \in SUBSET Nat, NEW m \in Nat, NEW T, IsShift(T, S, m)
  PROVE  IsFiniteSet(T) /\ Cardinality(T) = Cardinality(S)
<1> DEFINE f == [i \in S |-> i - m]
<1>0. \A j : j \in T <=> (j \in Int /\ j + m \in S)
  BY DEF IsShift
<1>1. f \in [S -> T]
  <2>1. \A i \in S : i \in Nat /\ i - m \in Int /\ (i - m) + m = i
    OBVIOUS
  <2> QED
    BY <1>0, <2>1
<1>2. \A a, b \in S : f[a] = f[b] => a = b
  BY <1>1
<1>3. \A j \in T : \E i \in S : f[i] = j
  <2>1. ASSUME NEW j \in T PROVE j + m \in S /\ f[j + m] = j
    BY <1>0
  <2> QED
    BY <2>1
<1>4. f \in Bijection(S, T)
  BY <1>1, <1>2, <1>3 DEF Bijection, Injection, Surjection, IsInjective
<1> QED
  BY <1>4, FS_Bijection DEF ExistsBijection

\* The same part of s and, m places further to the front, of u.
LEMMA SubSeqShift ==
  ASSUME NEW s \in Text, NEW u \in Text, NEW m \in Nat, Len(u) = Len(s) - m,
         \A k \in 1 .. Len(u) : u[k] = s[m + k],
         NEW a \in Nat, NEW b \in Nat, b <= Len(u)
  PROVE  SubSeq(u, a + 1, b) = SubSeq(s, (a + m) + 1, b + m)
<1>1. Len(s) \in Nat /\ Len(u) \in Nat
  BY LenProperties DEF Text
<1>2. (\A i \in a + 1 .. b : u[i] \in AllChar) /\ (\A i \in (a + m) + 1 .. b + m : s[i] \in AllChar)
  <2>1. (\A i \in 1 .. Len(u) : u[i] \in AllChar) /\ (\A i \in 1 .. Len(s) : s[i] \in AllChar)
    BY ElementOfSeq DEF Text
  <2> QED
    BY <1>1, <2>1
<1> DEFINE p == SubSeq(u, a + 1, b)
           q == SubSeq(s, (a + m) + 1, b + m)
<1>3. /\ p \in Seq(AllChar) /\ Len(p) = IF a + 1 <= b THEN b - (a + 1) + 1 ELSE 0
      /\ \A i \in 1 .. b - (a + 1) + 1 : p[i] = u[(a + 1) + i - 1]
  <2>1. a + 1 \in Int /\ b \in Int
    OBVIOUS
  <2> QED
    BY <1>2, <2>1, SubSeqProperties
<1>4. /\ q \in Seq(AllChar)
      /\ Len(q) = IF (a + m) + 1 <= b + m THEN (b + m) - ((a + m) + 1) + 1 ELSE 0
      /\ \A i \in 1 .. (b + m) - ((a + m) + 1) + 1 : q[i] = s[((a + m) + 1) + i - 1]
  <2>1. (a + m) + 1 \in Int /\ b + m \in Int
    BY <1>1
  <2> QED
    BY <1>2, <2>1, SubSeqProperties
<1> HIDE DEF p, q
<1>5. Len(p) = Len(q) /\ Len(p) = IF a < b THEN b - a ELSE 0
  BY <1>1, <1>3, <1>4
<1>6. ASSUME NEW i \in 1 .. Len(p) PROVE p[i] = q[i]
  <2>1. a < b /\ i \in 1 .. b - a
    BY <1>5
  <2>2. p[i] = u[a + i]
    <3>1. i \in 1 .. b - (a + 1) + 1 /\ (a + 1) + i - 1 = a + i
      BY <2>1
    <3> QED
      BY <1>3, <3>1
  <2>3. q[i] = s[m + (a + i)]
    <3>1. i \in 1 .. (b + m) - ((a + m) + 1) + 1 /\ ((a + m) + 1) + i - 1 = m + (a + i)
      BY <1>1, <2>1
    <3> QED
      BY <1>4, <3>1
  <2>4. a + i \in 1 .. Len(u)
    BY <1>1, <2>1
  <2> QED
    BY <1>1, <2>2, <2>3, <2>4
<1>7. p = q
  BY <1>3, <1>4, <1>5, <1>6, SeqEqual
<1> QED
  BY <1>7 DEF p, q


LEMMA DeliverFirst ==
  ASSUME NEW s \in Text, NEW m \in Ends(s), \A j \in Ends(s) : m <= j,
         NEW u, u = SubSeq(s, m + 1, Len(s))
  PROVE  /\ u \in Text
         /\ Cardinality(Ends(s)) > 0
         /\ Cardinality(Ends(u)) = Cardinality(Ends(s)) - 1
         /\ Completed(s) # <<>>
         /\ Head(Completed(s)) = SubSeq(s, 1, m - 1)
         /\ Completed(u) = Tail(Completed(s))
         /\ Unfinished(u) = Unfinished(s)
<1> DEFINE n == Cardinality(Ends(s))
<1>1. /\ Ends(s) \in SUBSET (1 .. Len(s)) /\ Len(s) \in Nat /\ n \in Nat /\ IsFiniteSet(Ends(s))
      /\ m \in 1 .. Len(s) /\ m \in Nat /\ \A i \in 1 .. Len(s) : s[i] \in AllChar
  BY EndsFinite, ElementOfSeq DEF Text
<1>2. /\ u \in Text /\ Len(u) = Len(s) - m /\ Len(u) \in Nat
      /\ \A i \in 1 .. Len(s) - m : u[i] = s[m + i]
  <2>1. m + 1 \in Int /\ Len(s) \in Int /\ \A i \in m + 1 .. Len(s) : s[i] \in AllChar
    BY <1>1
  <2>2. /\ u \in Seq(AllChar) /\ Len(u) = IF m + 1 <= Len(s) THEN Len(s) - (m + 1) + 1 ELSE 0
        /\ \A i \in 1 .. Len(s) - (m + 1) + 1 : u[i] = s[(m + 1) + i - 1]
    BY <2>1, SubSeqProperties
  <2>3. Len(s) - (m + 1) + 1 = Len(s) - m /\ \A i \in 1 .. Len(s) - m : (m + 1) + i - 1 = m + i
    BY <1>1
  <2>4. \A i \in 1 .. Len(s) - m : u[i] = s[m + i]
    BY <2>2, <2>3
  <2>5. Len(u) = Len(s) - m
    BY <1>1, <2>2
  <2>6. Len(u) \in Nat
    BY <1>1, <2>5
  <2> QED
    BY <2>2, <2>4, <2>5, <2>6 DEF Text
<1>3. \A j : j \in Ends(u) <=> (j \in Int /\ j + m \in Ends(s) \ {m})
  <2>1. DOMAIN u = 1 .. Len(s) - m /\ DOMAIN s = 1 .. Len(s)
    BY <1>2, LenProperties DEF Text
  <2>2. ASSUME NEW j \in Ends(u) PROVE j \in Int /\ j + m \in Ends(s) \ {m}
    <3>1. j \in 1 .. Len(s) - m /\ u[j] = "nul"
      BY <2>1 DEF Ends
    <3>2. j + m \in 1 .. Len(s) /\ j + m # m /\ j + m = m + j
      BY <1>1, <3>1
    <3>3. s[j + m] = "nul"
      BY <1>2, <3>1, <3>2
    <3> QED
      BY <2>1, <3>1, <3>2, <3>3 DEF Ends
  <2>3. ASSUME NEW j \in Int, j + m \in Ends(s) \ {m} PROVE j \in Ends(u)
    <3>1. j + m \in 1 .. Len(s) /\ s[j + m] = "nul" /\ m <= j + m /\ j + m # m
      BY <1>1, <2>1, <2>3 DEF Ends
    <3>2. j \in 1 .. Len(s) - m /\ j + m = m + j
      BY <1>1, <3>1
    <3> QED
      BY <1>2, <2>1, <3>1, <3>2 DEF Ends
  <2> QED
    BY <2>2, <2>3
<1>4. /\ n > 0 /\ IsFiniteSet(Ends(s) \ {m}) /\ Cardinality(Ends(s) \ {m}) = n - 1
      /\ Cardinality(Ends(u)) = n - 1
  <2>1. IsFiniteSet(Ends(s) \ {m}) /\ Cardinality(Ends(s) \ {m}) = n - 1
    BY <1>1, FS_RemoveElement
  <2>2. n # 0
    BY <1>1, FS_EmptySet
  <2>3. Ends(s) \ {m} \in SUBSET Nat
    BY <1>1
  <2>4. IsShift(Ends(u), Ends(s) \ {m}, m)
    BY <1>3 DEF IsShift
  <2>5. Cardinality(Ends(u)) = Cardinality(Ends(s) \ {m})
    BY <1>1, <2>1, <2>3, <2>4, Shifted
  <2> QED
    BY <1>1, <2>1, <2>2, <2>5
<1>5. End(s, 1) = m
  <2>1. Upto(s, m) = {m}
    <3>1. \A j \in Ends(s) : j <= m <=> j = m
      BY <1>1
    <3> QED
      BY <3>1 DEF Upto
  <2>2. Cardinality(Upto(s, m)) = 1
    BY <2>1, FS_Singleton
  <2> QED
    BY <2>2, EndOf
<1>6. ASSUME NEW k \in 0 .. n - 1 PROVE End(s, k + 1) = End(u, k) + m
  <2>1. CASE k = 0
    <3>1. End(u, 0) = 0
      BY DEF End
    <3> QED
      BY <1>1, <1>5, <2>1, <3>1
  <2>2. CASE k # 0
    <3> DEFINE i == End(u, k)
    <3>1. i \in Ends(u) /\ Cardinality(Upto(u, i)) = k
      <4>1. k \in 1 .. Cardinality(Ends(u))
        BY <1>1, <1>4, <2>2
      <4> QED
        BY <1>2, <4>1, EndIs
    <3> HIDE DEF i
    <3>2. i \in Int /\ i + m \in Ends(s) /\ i + m # m
      BY <1>3, <3>1
    <3>3. \A j : j \in Upto(u, i) <=> (j \in Int /\ j + m \in Upto(s, i + m) \ {m})
      <4>1. ASSUME NEW j \in Int PROVE j <= i <=> j + m <= i + m
        BY <1>1, <3>2
      <4> QED
        BY <1>3, <4>1 DEF Upto
    <3>4. /\ IsFiniteSet(Upto(s, i + m)) /\ Cardinality(Upto(s, i + m)) \in Nat
          /\ Upto(s, i + m) \ {m} \in SUBSET Nat
      <4>1. Upto(s, i + m) \ {m} \in SUBSET Nat
        BY <1>1 DEF Upto
      <4> QED
        BY <4>1, EndsFinite
    <3>5. m \in Upto(s, i + m)
      BY <1>1, <3>2 DEF Upto
    <3>6. IsFiniteSet(Upto(s, i + m) \ {m}) /\ Cardinality(Upto(s, i + m) \ {m}) = Cardinality(Upto(s, i + m)) - 1
      BY <3>4, <3>5, FS_RemoveElement
    <3>7. Cardinality(Upto(u, i)) = Cardinality(Upto(s, i + m) \ {m})
      <4>1. IsShift(Upto(u, i), Upto(s, i + m) \ {m}, m)
        BY <3>3 DEF IsShift
      <4> QED
        BY <1>1, <3>4, <3>6, <4>1, Shifted
    <3>8. Cardinality(Upto(s, i + m)) = k + 1
      BY <3>1, <3>4, <3>6, <3>7
    <3>9. End(s, Cardinality(Upto(s, i + m))) = i + m
      BY <3>2, EndOf
    <3> QED
      BY <3>8, <3>9 DEF i
  <2> QED
    BY <2>1, <2>2
<1>7. Completed(s) \in Seq(Text) /\ Len(Completed(s)) = n
      /\ Completed(u) \in Seq(Text) /\ Len(Completed(u)) = n - 1
  BY <1>2, <1>4, LinesType
<1>8. Completed(s) # <<>> /\ Len(Tail(Completed(s))) = n - 1 /\ Tail(Completed(s)) \in Seq(Text)
      /\ \A k \in 1 .. n - 1 : Tail(Completed(s))[k] = Completed(s)[k + 1]
  <2>1. Completed(s) # <<>>
    BY <1>4, <1>7, EmptySeq
  <2> QED
    BY <1>7, <2>1, HeadTailProperties
<1>9. Head(Completed(s)) = SubSeq(s, 1, m - 1)
  <2>1. Head(Completed(s)) = Completed(s)[1]
    OBVIOUS
  <2>2. 1 \in 1 .. n /\ 1 - 1 = 0 /\ 0 + 1 = 1
    BY <1>1, <1>4
  <2>3. Completed(s)[1] = SubSeq(s, End(s, 1 - 1) + 1, End(s, 1) - 1)
    BY <2>2 DEF Completed
  <2>4. End(s, 0) = 0
    BY DEF End
  <2> QED
    BY <1>5, <2>1, <2>2, <2>3, <2>4
<1>10. ASSUME NEW a \in Nat, NEW b \in Nat, b + m <= Len(s)
       PROVE  SubSeq(u, a + 1, b) = SubSeq(s, (a + m) + 1, b + m)
  <2>1. b <= Len(u) /\ Len(u) = Len(s) - m /\ \A k \in 1 .. Len(u) : u[k] = s[m + k]
    BY <1>1, <1>2, <1>10
  <2> QED
    BY <1>1, <1>2, <2>1, SubSeqShift
<1>11. Completed(u) = Tail(Completed(s))
  <2>1. ASSUME NEW k \in 1 .. n - 1 PROVE Completed(u)[k] = Completed(s)[k + 1]
    <3>1. /\ k \in 0 .. n - 1 /\ k - 1 \in 0 .. n - 1 /\ k + 1 \in 1 .. n /\ (k - 1) + 1 = k
          /\ (k + 1) - 1 = k /\ k > 0 /\ k \in 0 .. Cardinality(Ends(u))
      BY <1>1, <1>4
    <3>2. Completed(u)[k] = SubSeq(u, End(u, k - 1) + 1, End(u, k) - 1)
      BY <1>4 DEF Completed
    <3>3. Completed(s)[k + 1] = SubSeq(s, End(s, (k + 1) - 1) + 1, End(s, k + 1) - 1)
      BY <3>1 DEF Completed
    <3>4. End(s, (k + 1) - 1) = End(u, k - 1) + m /\ End(s, k + 1) = End(u, k) + m
      BY <1>6, <3>1
    <3>5. End(u, k) \in 0 .. Len(u) /\ End(u, k - 1) < End(u, k) /\ End(u, k - 1) \in 0 .. Len(u)
      BY <1>2, <3>1, EndInOrder
    <3>6. PICK a \in Nat : a = End(u, k - 1)
      BY <3>5
    <3>7. PICK b \in Nat : b = End(u, k) - 1
      <4>1. End(u, k) \in Int /\ End(u, k - 1) \in Int /\ 0 <= End(u, k - 1) /\ End(u, k - 1) < End(u, k)
        BY <1>2, <3>5
      <4> QED
        BY <4>1
    <3>8. End(u, k) \in Int /\ End(u, k) <= Len(s) - m /\ Len(s) \in Int /\ m \in Int
      BY <1>1, <1>2, <3>5
    <3>9. b + m <= Len(s) /\ (End(u, k) + m) - 1 = b + m
      BY <3>7, <3>8
    <3>10. SubSeq(u, a + 1, b) = SubSeq(s, (a + m) + 1, b + m)
      BY <1>10, <3>9
    <3> QED
      BY <3>2, <3>3, <3>4, <3>6, <3>7, <3>9, <3>10
  <2>2. \A k \in 1 .. n - 1 : Completed(u)[k] = Tail(Completed(s))[k]
    BY <1>8, <2>1
  <2> QED
    BY <1>7, <1>8, <2>2, SameLines
<1>12. Unfinished(u) = Unfinished(s)
  <2>1. n - 1 \in 0 .. n - 1 /\ (n - 1) + 1 = n /\ n - 1 \in 0 .. Cardinality(Ends(u))
    BY <1>1, <1>4
  <2>2. End(s, n) = End(u, n - 1) + m
    BY <1>6, <2>1
  <2>3. End(u, n - 1) \in 0 .. Len(u)
    BY <1>2, <2>1, EndInOrder
  <2>4. PICK a \in Nat : a = End(u, n - 1)
    BY <2>3
  <2>5. PICK b \in Nat : b = Len(u)
    BY <1>2
  <2>6. b + m = Len(s)
    BY <1>1, <1>2, <2>5
  <2>7. SubSeq(u, a + 1, b) = SubSeq(s, (a + m) + 1, b + m)
    BY <1>1, <1>10, <2>6
  <2> QED
    BY <1>4, <2>2, <2>4, <2>5, <2>6, <2>7 DEF Unfinished
<1> QED
  BY <1>2, <1>4, <1>8, <1>9, <1>11, <1>12

----------------------------------------------------------------------------
(* The ring.                                                               *)

LEMMA Wrap ==
  ASSUME NEW n \in Nat \ {0}, NEW x \in 0 .. 2 * n - 1
  PROVE  x % n = IF x < n THEN x ELSE x - n
OBVIOUS

LEMMA Neighbours ==
  ASSUME NEW i \in Index
  PROVE  /\ After(i) = (IF i + 1 = SZ THEN 0 ELSE i + 1) /\ After(i) \in Index
         /\ Before(i) = (IF i = 0 THEN SZ - 1 ELSE i - 1) /\ Before(i) \in Index
<1>1. SZ \in Nat \ {0} /\ SZ > 1 /\ i \in Nat /\ i < SZ
  BY TtyAssumption DEF Index
<1>2. i + 1 \in 0 .. 2 * SZ - 1 /\ i + SZ - 1 \in 0 .. 2 * SZ - 1
  BY <1>1
<1>3. (i + 1) % SZ = IF i + 1 < SZ THEN i + 1 ELSE (i + 1) - SZ
  BY <1>1, <1>2, Wrap
<1>4. (i + SZ - 1) % SZ = IF i + SZ - 1 < SZ THEN i + SZ - 1 ELSE (i + SZ - 1) - SZ
  BY <1>1, <1>2, Wrap
<1> QED
  BY <1>1, <1>3, <1>4 DEF After, Before, Index

\* How many places there are from f to r, and which the i-th of them is.
Span(f, r)   == (r + SZ - f) % SZ
Nth(f, i)    == (f + i - 1) % SZ

LEMMA SpanIs ==
  ASSUME NEW f \in Index, NEW r \in Index
  PROVE  /\ Span(f, r) = (IF f <= r THEN r - f ELSE (r - f) + SZ)
         /\ Span(f, r) \in 0 .. SZ - 1
<1>1. SZ \in Nat \ {0} /\ f \in 0 .. SZ - 1 /\ r \in 0 .. SZ - 1
  BY TtyAssumption DEF Index
<1>2. r + SZ - f \in 0 .. 2 * SZ - 1
  BY <1>1
<1>3. (r + SZ - f) % SZ = IF r + SZ - f < SZ THEN r + SZ - f ELSE (r + SZ - f) - SZ
  BY <1>1, <1>2, Wrap
<1> QED
  BY <1>1, <1>3 DEF Span

LEMMA NthIs ==
  ASSUME NEW f \in Index, NEW i \in 1 .. SZ
  PROVE  /\ Nth(f, i) = (IF f + i - 1 < SZ THEN f + i - 1 ELSE (f + i - 1) - SZ)
         /\ Nth(f, i) \in Index
<1>1. SZ \in Nat \ {0} /\ f \in 0 .. SZ - 1
  BY TtyAssumption DEF Index
<1>2. f + i - 1 \in 0 .. 2 * SZ - 1
  BY <1>1
<1>3. (f + i - 1) % SZ = IF f + i - 1 < SZ THEN f + i - 1 ELSE (f + i - 1) - SZ
  BY <1>1, <1>2, Wrap
<1> QED
  BY <1>1, <1>3 DEF Nth, Index

\* What an end of the ring meets when it moves.
RearMoves(f, r) ==
  LET a == After(r)  b == Before(r)  n == Span(f, r)
  IN /\ a # f => /\ Span(f, a) = n + 1 /\ Nth(f, n + 1) = r /\ a # r /\ Before(f) # r
                 /\ \A i \in 1 .. n : Nth(f, i) # r /\ Nth(f, i) # a
     /\ r # f => /\ n > 0 /\ Span(f, b) = n - 1 /\ Nth(f, n) = b
                 /\ \A i \in 1 .. n - 1 : Nth(f, i) # b

LEMMA RearRing ==
  ASSUME NEW f \in Index, NEW r \in Index
  PROVE  RearMoves(f, r)
<1> DEFINE a == After(r)
           b == Before(r)
           n == Span(f, r)
<1>1. SZ \in Nat \ {0} /\ SZ > 1 /\ f \in 0 .. SZ - 1 /\ r \in 0 .. SZ - 1
  BY TtyAssumption DEF Index
<1>2. /\ a = (IF r + 1 = SZ THEN 0 ELSE r + 1) /\ a \in Index
      /\ b = (IF r = 0 THEN SZ - 1 ELSE r - 1) /\ b \in Index
      /\ Before(f) = (IF f = 0 THEN SZ - 1 ELSE f - 1)
  BY Neighbours
<1>3. n = (IF f <= r THEN r - f ELSE (r - f) + SZ) /\ n \in 0 .. SZ - 1
  BY SpanIs
<1>4. /\ Span(f, a) = (IF f <= a THEN a - f ELSE (a - f) + SZ)
      /\ Span(f, b) = (IF f <= b THEN b - f ELSE (b - f) + SZ)
  BY <1>2, SpanIs
<1>5. \A i \in 1 .. SZ : Nth(f, i) = IF f + i - 1 < SZ THEN f + i - 1 ELSE (f + i - 1) - SZ
  BY NthIs
<1> HIDE DEF a, b, n
<1>6. ASSUME a # f
      PROVE  /\ Span(f, a) = n + 1 /\ Nth(f, n + 1) = r /\ a # r /\ Before(f) # r
             /\ \A i \in 1 .. n : Nth(f, i) # r /\ Nth(f, i) # a
  <2>1. Span(f, a) = n + 1 /\ a # r /\ Before(f) # r
    BY <1>1, <1>2, <1>3, <1>4, <1>6
  <2>2. n + 1 \in 1 .. SZ
    BY <1>1, <1>3
  <2>3. Nth(f, n + 1) = IF f + (n + 1) - 1 < SZ THEN f + (n + 1) - 1 ELSE (f + (n + 1) - 1) - SZ
    BY <1>5, <2>2
  <2>4. Nth(f, n + 1) = r
    BY <1>1, <1>3, <2>3
  <2>5. ASSUME NEW i \in 1 .. n PROVE Nth(f, i) # r /\ Nth(f, i) # a
    <3>1. i \in 1 .. SZ
      BY <1>1, <1>3
    <3>2. Nth(f, i) = IF f + i - 1 < SZ THEN f + i - 1 ELSE (f + i - 1) - SZ
      BY <1>5, <3>1
    <3> QED
      BY <1>1, <1>2, <1>3, <1>6, <3>2
  <2> QED
    BY <2>1, <2>4, <2>5
<1>7. ASSUME r # f
      PROVE  /\ n > 0 /\ Span(f, b) = n - 1 /\ Nth(f, n) = b
             /\ \A i \in 1 .. n - 1 : Nth(f, i) # b
  <2>1. n > 0 /\ Span(f, b) = n - 1 /\ n \in 1 .. SZ
    BY <1>1, <1>2, <1>3, <1>4, <1>7
  <2>2. Nth(f, n) = IF f + n - 1 < SZ THEN f + n - 1 ELSE (f + n - 1) - SZ
    BY <1>5, <2>1
  <2>3. Nth(f, n) = b
    BY <1>1, <1>2, <1>3, <2>2, <1>7
  <2>4. ASSUME NEW i \in 1 .. n - 1 PROVE Nth(f, i) # b
    <3>1. i \in 1 .. SZ
      BY <1>1, <1>3
    <3>2. Nth(f, i) = IF f + i - 1 < SZ THEN f + i - 1 ELSE (f + i - 1) - SZ
      BY <1>5, <3>1
    <3> QED
      BY <1>1, <1>2, <1>3, <1>7, <3>2
  <2> QED
    BY <2>1, <2>3, <2>4
<1> QED
  BY <1>6, <1>7 DEF RearMoves, a, b, n

\* The front after m places of the ring are read.
LEMMA FrontRing ==
  ASSUME NEW f \in Index, NEW r \in Index, NEW m \in 1 .. Span(f, r), NEW g, g = (f + m) % SZ
  PROVE  /\ g \in Index /\ Span(g, r) = Span(f, r) - m /\ Before(g) = Nth(f, m)
         /\ \A i \in 1 .. Span(f, r) - m : Nth(g, i) = Nth(f, m + i)
<1>1. SZ \in Nat \ {0} /\ SZ > 1 /\ f \in 0 .. SZ - 1 /\ r \in 0 .. SZ - 1
  BY TtyAssumption DEF Index
<1>2. Span(f, r) = (IF f <= r THEN r - f ELSE (r - f) + SZ) /\ Span(f, r) \in 0 .. SZ - 1
  BY SpanIs
<1>3. PICK n \in 0 .. SZ - 1 : n = Span(f, r)
  BY <1>2
<1>4. m \in 1 .. n /\ f + m \in 0 .. 2 * SZ - 1 /\ m \in 1 .. SZ
  BY <1>1, <1>3
<1>5. (f + m) % SZ = IF f + m < SZ THEN f + m ELSE (f + m) - SZ
  BY <1>1, <1>4, Wrap
<1>6. g \in Index /\ g = IF f + m < SZ THEN f + m ELSE (f + m) - SZ
  BY <1>1, <1>4, <1>5 DEF Index
<1>7. /\ Span(g, r) = (IF g <= r THEN r - g ELSE (r - g) + SZ)
      /\ Before(g) = (IF g = 0 THEN SZ - 1 ELSE g - 1)
      /\ Nth(f, m) = (IF f + m - 1 < SZ THEN f + m - 1 ELSE (f + m - 1) - SZ)
  BY <1>4, <1>6, SpanIs, Neighbours, NthIs
<1>8. Span(g, r) = n - m
  BY <1>1, <1>2, <1>3, <1>4, <1>6, <1>7
<1>9. Before(g) = Nth(f, m)
  BY <1>1, <1>4, <1>6, <1>7
<1>10. ASSUME NEW i \in 1 .. n - m PROVE Nth(g, i) = Nth(f, m + i)
  <2>1. i \in 1 .. SZ /\ m + i \in 1 .. SZ
    BY <1>1, <1>4
  <2>2. /\ Nth(g, i) = (IF g + i - 1 < SZ THEN g + i - 1 ELSE (g + i - 1) - SZ)
        /\ Nth(f, m + i) = (IF f + (m + i) - 1 < SZ THEN f + (m + i) - 1 ELSE (f + (m + i) - 1) - SZ)
    BY <1>6, <2>1, NthIs
  <2>3. PICK h \in 0 .. SZ - 1 : h = g
    BY <1>6 DEF Index
  <2>4. \/ f + m < SZ /\ h = f + m
        \/ f + m >= SZ /\ h = f + m - SZ /\ h + i - 1 < SZ
    BY <1>1, <1>3, <1>4, <1>6, <2>3
  <2>5. (IF h + i - 1 < SZ THEN h + i - 1 ELSE (h + i - 1) - SZ) =
        (IF f + (m + i) - 1 < SZ THEN f + (m + i) - 1 ELSE (f + (m + i) - 1) - SZ)
    BY <1>1, <1>4, <2>4
  <2> QED
    BY <2>2, <2>3, <2>5
<1> QED
  BY <1>3, <1>6, <1>8, <1>9, <1>10

----------------------------------------------------------------------------
(* The queue of a terminal.                                                *)

\* There are 0s behind the last character and before the first.
QueueOK(q) == q \in Queue /\ q.buf[q.rear] = "nul" /\ q.buf[Before(q.front)] = "nul"

LEMMA QueueTypes ==
  ASSUME NEW q \in Queue
  PROVE  /\ q.buf \in [Index -> AllChar] /\ q.front \in Index /\ q.rear \in Index
         /\ q = [buf |-> q.buf, front |-> q.front, rear |-> q.rear]
BY DEF Queue

LEMMA ContentsAre ==
  ASSUME NEW q \in Queue
  PROVE  /\ Contents(q) \in Text /\ Len(Contents(q)) = Span(q.front, q.rear)
         /\ \A i \in 1 .. Span(q.front, q.rear) : Contents(q)[i] = q.buf[Nth(q.front, i)]
<1> DEFINE n == Span(q.front, q.rear)
<1>1. q.buf \in [Index -> AllChar] /\ q.front \in Index /\ q.rear \in Index
  BY QueueTypes
<1>2. n \in 0 .. SZ - 1 /\ SZ \in Nat
  BY <1>1, SpanIs, TtyAssumption
<1>3. Contents(q) = [i \in 1 .. n |-> q.buf[Nth(q.front, i)]]
  BY DEF Contents, Span, Nth
<1> HIDE DEF n
<1>4. \A i \in 1 .. n : q.buf[Nth(q.front, i)] \in AllChar
  <2>1. \A i \in 1 .. n : i \in 1 .. SZ
    BY <1>2
  <2> QED
    BY <1>1, <2>1, NthIs
<1>5. Contents(q) \in [1 .. n -> AllChar] /\ n \in Nat
  BY <1>2, <1>3, <1>4
<1>6. Contents(q) \in Text
  BY <1>5, SeqDef DEF Text
<1>7. Len(Contents(q)) = n
  <2>1. DOMAIN Contents(q) = 1 .. n /\ DOMAIN Contents(q) = 1 .. Len(Contents(q)) /\ Len(Contents(q)) \in Nat
    BY <1>5, <1>6, LenProperties DEF Text
  <2> QED
    BY <1>5, <2>1
<1> QED
  BY <1>3, <1>6, <1>7 DEF n

LEMMA SameText ==
  ASSUME NEW s \in Text, NEW t \in Text, Len(s) = Len(t), \A i \in 1 .. Len(s) : s[i] = t[i]
  PROVE  s = t
BY SeqEqual DEF Text

LEMMA Enqueue ==
  ASSUME NEW q, QueueOK(q), ~Full(q), NEW c \in AllChar
  PROVE  /\ QueueOK(tty_enqueue(q, c))
         /\ Contents(tty_enqueue(q, c)) = Append(Contents(q), c)
<1>1. q \in Queue /\ q.buf[q.rear] = "nul" /\ q.buf[Before(q.front)] = "nul"
  BY DEF QueueOK
<1>2. q.buf \in [Index -> AllChar] /\ q.front \in Index /\ q.rear \in Index
  BY <1>1, QueueTypes
<1> DEFINE f == q.front
           r == q.rear
           a == After(r)
           n == Span(f, r)
           p == tty_enqueue(q, c)
<1>3. a \in Index /\ a # f /\ Before(f) \in Index
  BY <1>2, Neighbours DEF Full
<1>4. /\ Span(f, a) = n + 1 /\ Nth(f, n + 1) = r /\ a # r /\ Before(f) # r
      /\ \A i \in 1 .. n : Nth(f, i) # r /\ Nth(f, i) # a
  BY <1>2, <1>3, RearRing DEF RearMoves
<1>5. n \in 0 .. SZ - 1 /\ SZ \in Nat
  BY <1>2, SpanIs, TtyAssumption
<1>6. "nul" \in AllChar
  BY DEF AllChar
<1>7. p.front = f /\ p.rear = a /\ p.buf = [q.buf EXCEPT ![r] = c, ![a] = "nul"]
  BY <1>1 DEF tty_enqueue, Queue
<1>8. [q.buf EXCEPT ![r] = c, ![a] = "nul"] \in [Index -> AllChar]
  BY <1>2, <1>3, <1>6
<1>9. p.buf \in [Index -> AllChar] /\ \A i \in Index : p.buf[i] = IF i = a THEN "nul" ELSE IF i = r THEN c ELSE q.buf[i]
  BY <1>2, <1>3, <1>7, <1>8
<1>10. p \in Queue
  BY <1>1, <1>3, <1>8 DEF tty_enqueue, Queue
<1> HIDE DEF p
<1>11. QueueOK(p)
  BY <1>1, <1>2, <1>3, <1>4, <1>7, <1>9, <1>10 DEF QueueOK
<1>12. Contents(p) = Append(Contents(q), c)
  <2> HIDE DEF f, r, a, n
  <2> DEFINE s == Append(Contents(q), c)
  <2>1. /\ Contents(q) \in Text /\ Len(Contents(q)) = n
        /\ \A i \in 1 .. n : Contents(q)[i] = q.buf[Nth(f, i)]
    BY <1>1, ContentsAre DEF f, r, n
  <2>2. /\ Contents(p) \in Text /\ Len(Contents(p)) = n + 1
        /\ \A i \in 1 .. n + 1 : Contents(p)[i] = p.buf[Nth(f, i)]
    BY <1>4, <1>7, <1>10, ContentsAre
  <2>3. /\ s \in Text /\ Len(s) = n + 1 /\ \A i \in 1 .. n : s[i] = Contents(q)[i]
        /\ s[n + 1] = c
    BY <2>1, AppendProperties DEF Text
  <2> HIDE DEF s
  <2>4. ASSUME NEW i \in 1 .. n + 1 PROVE Contents(p)[i] = s[i]
    <3>1. CASE i = n + 1
      <4>1. p.buf[r] = c
        BY <1>2, <1>3, <1>4, <1>9 DEF r
      <4> QED
        BY <1>4, <2>2, <2>3, <3>1, <4>1
    <3>2. CASE i # n + 1
      <4>1. i \in 1 .. n /\ i \in 1 .. SZ
        BY <1>5, <3>2
      <4>2. Nth(f, i) \in Index /\ Nth(f, i) # r /\ Nth(f, i) # a
        BY <1>2, <1>4, <4>1, NthIs DEF f
      <4>3. p.buf[Nth(f, i)] = q.buf[Nth(f, i)]
        BY <1>9, <4>2
      <4> QED
        BY <2>1, <2>2, <2>3, <4>1, <4>3
    <3> QED
      BY <3>1, <3>2
  <2>5. Contents(p) = s
    BY <2>2, <2>3, <2>4, SameText
  <2> QED
    BY <2>5 DEF s
<1> QED
  BY <1>11, <1>12 DEF p

LEMMA PopBack ==
  ASSUME NEW q, QueueOK(q), Erasable(q)
  PROVE  /\ QueueOK(tty_pop_back(q))
         /\ Contents(q) # <<>> /\ Contents(q)[Len(Contents(q))] # "nul"
         /\ Contents(tty_pop_back(q)) = Front(Contents(q))
<1>1. /\ q \in Queue /\ q.buf[q.rear] = "nul" /\ q.buf[Before(q.front)] = "nul"
      /\ q.buf[Before(q.rear)] # "nul"
  BY DEF QueueOK, Erasable
<1>2. q.buf \in [Index -> AllChar] /\ q.front \in Index /\ q.rear \in Index
  BY <1>1, QueueTypes
<1> DEFINE f == q.front
           r == q.rear
           b == Before(r)
           n == Span(f, r)
           p == tty_pop_back(q)
<1>3. b \in Index /\ r # f /\ Before(f) \in Index
  BY <1>1, <1>2, Neighbours
<1>4. /\ n > 0 /\ Span(f, b) = n - 1 /\ Nth(f, n) = b
      /\ \A i \in 1 .. n - 1 : Nth(f, i) # b
  BY <1>2, <1>3, RearRing DEF RearMoves
<1>5. n \in 0 .. SZ - 1 /\ SZ \in Nat
  BY <1>2, SpanIs, TtyAssumption
<1>6. "nul" \in AllChar
  BY DEF AllChar
<1>7. p.front = f /\ p.rear = b /\ p.buf = [q.buf EXCEPT ![b] = "nul"]
  BY <1>1 DEF tty_pop_back, Queue
<1>8. [q.buf EXCEPT ![b] = "nul"] \in [Index -> AllChar]
  BY <1>2, <1>3, <1>6
<1>9. p.buf \in [Index -> AllChar] /\ \A i \in Index : p.buf[i] = IF i = b THEN "nul" ELSE q.buf[i]
  BY <1>2, <1>3, <1>7, <1>8
<1>10. p \in Queue
  BY <1>1, <1>3, <1>8 DEF tty_pop_back, Queue
<1> HIDE DEF p
<1>11. QueueOK(p)
  BY <1>1, <1>2, <1>3, <1>7, <1>9, <1>10 DEF QueueOK
<1> HIDE DEF f, r, b, n
<1>12. /\ Contents(q) \in Text /\ Len(Contents(q)) = n
       /\ \A i \in 1 .. n : Contents(q)[i] = q.buf[Nth(f, i)]
  BY <1>1, ContentsAre DEF f, r, n
<1>13. Contents(q) # <<>> /\ Contents(q)[Len(Contents(q))] # "nul"
  <2>1. n \in 1 .. n
    BY <1>4, <1>5
  <2>2. Contents(q)[n] = q.buf[b]
    BY <1>4, <1>12, <2>1
  <2>3. Contents(q) # <<>>
    BY <1>4, <1>12, EmptySeq
  <2> QED
    BY <1>1, <1>12, <2>2, <2>3 DEF b, r
<1>14. Contents(p) = Front(Contents(q))
  <2> DEFINE s == Front(Contents(q))
  <2>1. s = SubSeq(Contents(q), 1, n - 1)
    BY <1>12 DEF Front
  <2>2. s \in Text /\ Len(s) = n - 1 /\ \A i \in 1 .. n - 1 : s[i] = Contents(q)[i]
    <3>1. \A i \in 1 .. n - 1 : Contents(q)[i] \in AllChar
      BY <1>5, <1>12, ElementOfSeq DEF Text
    <3>2. 1 \in Int /\ n - 1 \in Int
      BY <1>5
    <3> HIDE DEF s
    <3>3. /\ s \in Seq(AllChar) /\ Len(s) = IF 1 <= n - 1 THEN (n - 1) - 1 + 1 ELSE 0
          /\ \A i \in 1 .. (n - 1) - 1 + 1 : s[i] = Contents(q)[1 + i - 1]
      BY <2>1, <3>1, <3>2, SubSeqProperties
    <3>4. (n - 1) - 1 + 1 = n - 1 /\ \A i \in 1 .. n - 1 : 1 + i - 1 = i
      BY <1>5
    <3>5. Len(s) = n - 1
      BY <1>4, <1>5, <3>3
    <3> QED
      BY <3>3, <3>4, <3>5 DEF Text
  <2> HIDE DEF s
  <2>3. /\ Contents(p) \in Text /\ Len(Contents(p)) = n - 1
        /\ \A i \in 1 .. n - 1 : Contents(p)[i] = p.buf[Nth(f, i)]
    BY <1>4, <1>7, <1>10, ContentsAre
  <2>4. ASSUME NEW i \in 1 .. n - 1 PROVE Contents(p)[i] = s[i]
    <3>1. i \in 1 .. n /\ i \in 1 .. SZ
      BY <1>5
    <3>2. Nth(f, i) \in Index /\ Nth(f, i) # b
      BY <1>2, <1>4, <3>1, NthIs DEF f
    <3>3. p.buf[Nth(f, i)] = q.buf[Nth(f, i)]
      BY <1>9, <3>2
    <3> QED
      BY <1>12, <2>2, <2>3, <3>1, <3>3
  <2>5. Contents(p) = s
    BY <2>2, <2>3, <2>4, SameText
  <2> QED
    BY <2>5 DEF s
<1> QED
  BY <1>11, <1>13, <1>14 DEF p

\* The front places of a queue, as the places of its contents.
LEMMA Places ==
  ASSUME NEW q \in Queue, NEW i \in 0 .. Len(Contents(q)) - 1
  PROVE  q.buf[(q.front + i) % SZ] = Contents(q)[i + 1] /\ i + 1 \in 1 .. Len(Contents(q)) /\ i \in Index
<1>1. q.front \in Index /\ q.rear \in Index
  BY QueueTypes
<1>2. Span(q.front, q.rear) \in 0 .. SZ - 1 /\ Len(Contents(q)) = Span(q.front, q.rear) /\ SZ \in Nat
  BY <1>1, SpanIs, ContentsAre, TtyAssumption
<1>3. i + 1 \in 1 .. Span(q.front, q.rear) /\ i \in Index
  BY <1>2 DEF Index
<1>4. Contents(q)[i + 1] = q.buf[Nth(q.front, i + 1)]
  BY <1>3, ContentsAre
<1>5. q.front + (i + 1) - 1 = q.front + i
  BY <1>1, <1>3 DEF Index
<1> QED
  BY <1>2, <1>3, <1>4, <1>5 DEF Nth

\* The characters that a reader finds before the first 0.
LEMMA LengthIs ==
  ASSUME NEW q \in Queue, NEW m \in Ends(Contents(q)), \A j \in Ends(Contents(q)) : m <= j
  PROVE  LineLength(q) = m - 1 /\ FirstLine(q) = SubSeq(Contents(q), 1, m - 1)
<1> DEFINE s == Contents(q)
           N(n) == q.buf[(q.front + n) % SZ] = "nul"
<1>1. s \in Text /\ Ends(s) \in SUBSET (1 .. Len(s)) /\ Len(s) \in Nat /\ m \in 1 .. Len(s)
  BY ContentsAre, EndsFinite
<1>2. DOMAIN s = 1 .. Len(s)
  BY <1>1, LenProperties DEF Text
<1>3. s[m] = "nul" /\ \A j \in 1 .. m - 1 : s[j] # "nul"
  BY <1>1, <1>2 DEF Ends
<1> HIDE DEF s
<1>4. m - 1 \in 0 .. Len(s) - 1
  BY <1>1
<1>5. N(m - 1) /\ m - 1 \in Index
  <2>1. q.buf[(q.front + (m - 1)) % SZ] = s[(m - 1) + 1] /\ m - 1 \in Index
    BY <1>4, Places DEF s
  <2>2. (m - 1) + 1 = m
    BY <1>1
  <2> QED
    BY <1>3, <2>1, <2>2
<1>6. \A i \in 0 .. (m - 1) - 1 : ~N(i)
  <2> SUFFICES ASSUME NEW i \in 0 .. (m - 1) - 1 PROVE ~N(i)
    OBVIOUS
  <2>1. i \in 0 .. Len(s) - 1 /\ i + 1 \in 1 .. m - 1
    BY <1>1
  <2>2. q.buf[(q.front + i) % SZ] = s[i + 1]
    BY <2>1, Places DEF s
  <2> QED
    BY <1>3, <2>1, <2>2
<1>7. ASSUME NEW n \in Index, N(n), \A i \in 0 .. n - 1 : ~N(i) PROVE n = m - 1
  <2> HIDE DEF N
  <2>1. n \in Int /\ m \in Int /\ 0 <= n /\ 1 <= m
    BY <1>1 DEF Index
  <2>2. ~(n < m - 1)
    <3> SUFFICES ASSUME n < m - 1 PROVE FALSE
      OBVIOUS
    <3>1. n \in 0 .. (m - 1) - 1
      BY <2>1
    <3> QED
      BY <1>6, <1>7, <3>1
  <2>3. ~(m - 1 < n)
    <3> SUFFICES ASSUME m - 1 < n PROVE FALSE
      OBVIOUS
    <3>1. m - 1 \in 0 .. n - 1
      BY <2>1
    <3> QED
      BY <1>5, <1>7, <3>1
  <2> QED
    BY <2>1, <2>2, <2>3
<1>8. LineLength(q) = m - 1
  <2>1. LineLength(q) = CHOOSE n \in Index : N(n) /\ \A i \in 0 .. n - 1 : ~N(i)
    BY Zenon DEF LineLength
  <2> HIDE DEF N
  <2> QED
    BY <1>5, <1>6, <1>7, <2>1
<1>9. FirstLine(q) = SubSeq(s, 1, m - 1)
  <2>1. FirstLine(q) = [i \in 1 .. m - 1 |-> q.buf[(q.front + i - 1) % SZ]]
    BY <1>8 DEF FirstLine
  <2>2. m - 1 \in 0 .. Len(s) /\ 1 \in 1 .. Len(s) + 1
    BY <1>1
  <2>3. SubSeq(s, 1, m - 1) = [i \in 1 .. m - 1 |-> s[i]]
    <3> DEFINE p == SubSeq(s, 1, m - 1)
    <3>1. 1 \in Int /\ m - 1 \in Int /\ \A i \in 1 .. m - 1 : s[i] \in AllChar
      BY <1>1, ElementOfSeq DEF Text
    <3>2. /\ p \in Seq(AllChar) /\ Len(p) = IF 1 <= m - 1 THEN (m - 1) - 1 + 1 ELSE 0
          /\ \A i \in 1 .. (m - 1) - 1 + 1 : p[i] = s[1 + i - 1]
      BY <3>1, SubSeqProperties
    <3> HIDE DEF p
    <3>3. (m - 1) - 1 + 1 = m - 1 /\ Len(p) = m - 1 /\ \A i \in 1 .. m - 1 : 1 + i - 1 = i
      BY <1>1, <3>2
    <3>4. \A i \in 1 .. m - 1 : p[i] = s[i]
      BY <3>2, <3>3
    <3>5. p = [i \in 1 .. m - 1 |-> p[i]]
      BY <3>2, <3>3, SeqDef, LenProperties
    <3> QED
      BY <3>4, <3>5 DEF p
  <2>4. ASSUME NEW i \in 1 .. m - 1 PROVE q.buf[(q.front + i - 1) % SZ] = s[i]
    <3>1. i - 1 \in 0 .. Len(s) - 1 /\ (i - 1) + 1 = i
      BY <1>1
    <3>2. q.buf[(q.front + (i - 1)) % SZ] = s[(i - 1) + 1]
      BY <3>1, Places DEF s
    <3>3. q.front + (i - 1) = q.front + i - 1
      BY QueueTypes DEF Index
    <3> QED
      BY <3>1, <3>2, <3>3
  <2> QED
    BY <2>1, <2>3, <2>4, Zenon
<1> QED
  BY <1>8, <1>9 DEF s

\* A queue after its first line is read.
Shorter(q) == [q EXCEPT !.front = (q.front + LineLength(q) + 1) % SZ]

LEMMA ReadLine ==
  ASSUME NEW q, QueueOK(q), NEW m \in Ends(Contents(q)), \A j \in Ends(Contents(q)) : m <= j
  PROVE  /\ QueueOK(Shorter(q))
         /\ Contents(Shorter(q)) = SubSeq(Contents(q), m + 1, Len(Contents(q)))
<1>1. q \in Queue /\ q.buf[q.rear] = "nul"
  BY DEF QueueOK
<1>2. q.buf \in [Index -> AllChar] /\ q.front \in Index /\ q.rear \in Index
  BY <1>1, QueueTypes
<1> DEFINE f == q.front
           r == q.rear
           n == Span(f, r)
           g == (f + m) % SZ
           p == Shorter(q)
           s == Contents(q)
<1>3. /\ s \in Text /\ Len(s) = n /\ n \in Nat /\ m \in 1 .. n /\ s[m] = "nul"
      /\ \A i \in 1 .. n : s[i] = q.buf[Nth(f, i)]
  <2>1. s \in Text /\ Len(s) = n /\ \A i \in 1 .. n : s[i] = q.buf[Nth(f, i)]
    BY <1>1, ContentsAre
  <2>2. m \in 1 .. Len(s) /\ Len(s) \in Nat
    BY <2>1, EndsFinite
  <2>3. s[m] = "nul"
    BY DEF Ends
  <2> QED
    BY <2>1, <2>2, <2>3
<1>4. f + LineLength(q) + 1 = f + m
  <2>1. LineLength(q) = m - 1
    BY <1>1, LengthIs
  <2> QED
    BY <1>2, <1>3, <2>1 DEF Index
<1>5. /\ g \in Index /\ Span(g, r) = n - m /\ Before(g) = Nth(f, m)
      /\ \A i \in 1 .. n - m : Nth(g, i) = Nth(f, m + i)
  BY <1>2, <1>3, FrontRing
<1> HIDE DEF g
<1>6. p = [q EXCEPT !.front = g]
  BY <1>4 DEF Shorter, g
<1>7. p \in Queue /\ p.buf = q.buf /\ p.front = g /\ p.rear = r
  BY <1>1, <1>5, <1>6 DEF Queue
<1> HIDE DEF p, s
<1>8. QueueOK(p)
  BY <1>1, <1>3, <1>5, <1>7 DEF QueueOK
<1>9. Contents(p) = SubSeq(s, m + 1, Len(s))
  <2> HIDE DEF f, r, n
  <2> DEFINE u == SubSeq(s, m + 1, Len(s))
  <2>1. Len(s) \in Int /\ m + 1 \in Int /\ \A i \in m + 1 .. Len(s) : s[i] \in AllChar
    BY <1>3, ElementOfSeq DEF Text
  <2>2. /\ u \in Seq(AllChar) /\ Len(u) = IF m + 1 <= Len(s) THEN Len(s) - (m + 1) + 1 ELSE 0
        /\ \A i \in 1 .. Len(s) - (m + 1) + 1 : u[i] = s[(m + 1) + i - 1]
    BY <2>1, SubSeqProperties
  <2> HIDE DEF u
  <2>3. /\ Len(u) = n - m /\ Len(s) - (m + 1) + 1 = n - m
        /\ \A i \in 1 .. n - m : (m + 1) + i - 1 = m + i /\ m + i \in 1 .. n
    BY <1>3, <2>2
  <2>4. /\ Contents(p) \in Text /\ Len(Contents(p)) = n - m
        /\ \A i \in 1 .. n - m : Contents(p)[i] = q.buf[Nth(g, i)]
    BY <1>5, <1>7, ContentsAre
  <2>5. ASSUME NEW i \in 1 .. n - m PROVE Contents(p)[i] = u[i]
    <3>1. Contents(p)[i] = q.buf[Nth(f, m + i)]
      BY <1>5, <2>4
    <3>2. u[i] = s[m + i]
      BY <2>2, <2>3
    <3> QED
      BY <1>3, <2>3, <3>1, <3>2
  <2>6. Contents(p) = u
    BY <2>2, <2>3, <2>4, <2>5, SameText DEF Text
  <2> QED
    BY <2>6 DEF u
<1> QED
  BY <1>8, <1>9 DEF p, s

\* What the reader of a queue with a 0 takes, and what it leaves.
LEMMA TakeLine ==
  ASSUME NEW q, QueueOK(q), Ends(Contents(q)) # {}
  PROVE  LET s == Contents(q)
             u == Contents(Shorter(q))
         IN /\ QueueOK(Shorter(q))
            /\ FirstLine(q) \in Text
            /\ Cardinality(Ends(s)) > 0 /\ Cardinality(Ends(u)) = Cardinality(Ends(s)) - 1
            /\ Completed(s) # <<>> /\ Head(Completed(s)) = FirstLine(q)
            /\ Completed(u) = Tail(Completed(s)) /\ Unfinished(u) = Unfinished(s)
<1>1. q \in Queue
  BY DEF QueueOK
<1>2. Contents(q) \in Text /\ Ends(Contents(q)) \in SUBSET Nat
  BY <1>1, ContentsAre, EndsFinite
<1>3. PICK m \in Ends(Contents(q)) : \A j \in Ends(Contents(q)) : m <= j
  BY <1>2, LeastExists
<1>4. FirstLine(q) = SubSeq(Contents(q), 1, m - 1)
  BY <1>1, <1>3, LengthIs
<1>5. QueueOK(Shorter(q)) /\ Contents(Shorter(q)) = SubSeq(Contents(q), m + 1, Len(Contents(q)))
  BY <1>3, ReadLine
<1>6. FirstLine(q) \in Text
  <2>1. /\ Contents(q) \in Seq(AllChar) /\ m \in 1 .. Len(Contents(q)) /\ Len(Contents(q)) \in Nat
    BY <1>2, EndsFinite DEF Text
  <2>2. 1 \in Int /\ m - 1 \in Int /\ \A i \in 1 .. m - 1 : Contents(q)[i] \in AllChar
    BY <2>1, ElementOfSeq
  <2> QED
    BY <1>4, <2>2, SubSeqProperties DEF Text
<1> QED
  BY <1>2, <1>3, <1>4, <1>5, <1>6, DeliverFirst

----------------------------------------------------------------------------
(* Lines and columns.                                                      *)

LEMMA Euclid ==
  ASSUME NEW n \in Nat \ {0}, NEW x \in Int
  PROVE  \E k \in Int : x = n * k + (x % n) /\ x % n \in 0 .. n - 1
<1>1. x \div n \in Int /\ x % n \in 0 .. n - 1 /\ x = n * (x \div n) + (x % n)
  OBVIOUS
<1> QED
  BY <1>1

LEMMA Remainder ==
  ASSUME NEW n \in Nat \ {0}, NEW k \in Int, NEW r \in 0 .. n - 1
  PROVE  (n * k + r) % n = r
OBVIOUS

LEMMA Distribute ==
  ASSUME NEW n \in Int, NEW a \in Int, NEW b \in Int
  PROVE  n * (a + b) = n * a + n * b
OBVIOUS

LEMMA Monotone ==
  ASSUME NEW n \in Nat, NEW a \in Int, NEW b \in Int, a <= b
  PROVE  n * a <= n * b
OBVIOUS

LEMMA SameColumn ==
  ASSUME NEW n \in Nat \ {0}, NEW t \in Int, t % n = 0, NEW c \in Int
  PROVE  (t + c) % n = c % n /\ (t + n) % n = 0
<1>1. PICK k \in Int : t = n * k
  <2>1. PICK k \in Int : t = n * k + (t % n)
    BY Euclid
  <2>2. n * k \in Int
    OBVIOUS
  <2> QED
    BY <2>1, <2>2
<1>2. PICK j \in Int : c = n * j + (c % n) /\ c % n \in 0 .. n - 1
  BY Euclid
<1>3. n * (k + j) = n * k + n * j /\ n * (k + 1) = n * k + n
  BY Distribute
<1>4. (n * (k + j) + (c % n)) % n = c % n /\ (n * (k + 1) + 0) % n = 0
  <2>1. k + j \in Int /\ k + 1 \in Int /\ 0 \in 0 .. n - 1
    OBVIOUS
  <2> QED
    BY <1>2, <2>1, Remainder
<1>5. n * k \in Int /\ n * j \in Int /\ c % n \in Int
  BY <1>2
<1>6. t + c = n * (k + j) + (c % n)
  BY <1>1, <1>2, <1>3, <1>5
<1>7. t + n = n * (k + 1) + 0
  BY <1>1, <1>3, <1>5
<1> QED
  BY <1>4, <1>6, <1>7

\* A line that begins in the window ends in it.
LEMMA LineFits ==
  ASSUME NEW n \in Nat \ {0}, NEW l \in Nat, NEW c \in 0 .. n * l - 1
  PROVE  /\ c % n \in 0 .. n - 1 /\ c - (c % n) \in 0 .. c
         /\ (c - (c % n)) + n <= n * l /\ n <= n * l
<1>1. PICK k \in Int : c = n * k + (c % n) /\ c % n \in 0 .. n - 1
  <2>1. c \in Int
    OBVIOUS
  <2> QED
    BY <2>1, Euclid
<1>2. n * k \in Int /\ n * l \in Int /\ n * (k + 1) = n * k + n * 1 /\ n * 1 = n /\ n * 0 = 0
  BY Distribute
<1>3. k >= 0
  <2> SUFFICES ASSUME k + 1 <= 0 PROVE FALSE
    OBVIOUS
  <2>1. n * (k + 1) <= n * 0
    BY Monotone
  <2> QED
    BY <1>1, <1>2, <2>1
<1>4. k + 1 <= l
  <2> SUFFICES ASSUME l <= k PROVE FALSE
    OBVIOUS
  <2>1. n * l <= n * k
    BY Monotone
  <2> QED
    BY <1>1, <1>2, <2>1
<1>5. n * (k + 1) <= n * l /\ n * 0 <= n * k
  BY <1>3, <1>4, Monotone
<1> QED
  BY <1>1, <1>2, <1>5

----------------------------------------------------------------------------
(* The functions that go through a string.                                 *)

\* F goes through the n steps of st from x.
Goes(F, n, x, st) == F[0] = x /\ \A i \in 1 .. n : F[i] = st[i][F[i - 1]]

\* There is a function that does: for the least number of steps without one,
\* a function of one step less would have one more step.
LEMMA Iterates ==
  ASSUME NEW S, NEW x \in S, NEW n \in Nat, NEW st \in [1 .. n -> [S -> S]]
  PROVE  \E F \in [0 .. n -> S] : Goes(F, n, x, st)
<1> DEFINE P(m) == \E F \in [0 .. m -> S] : Goes(F, m, x, st)
           Bad == {m \in 0 .. n : ~P(m)}
<1>1. SUFFICES ASSUME ~P(n) PROVE FALSE
  OBVIOUS
<1>2. Bad \in SUBSET Nat /\ Bad # {}
  BY <1>1
<1>3. PICK m \in Bad : \A k \in Bad : m <= k
  BY <1>2, LeastExists
<1>4. m \in 0 .. n /\ ~P(m)
  BY <1>3
<1>5. P(0)
  <2> DEFINE Z == [i \in 0 .. 0 |-> x]
  <2>1. Z \in [0 .. 0 -> S] /\ Z[0] = x /\ 1 .. 0 = {}
    OBVIOUS
  <2> HIDE DEF Z
  <2>2. Goes(Z, 0, x, st)
    BY <2>1 DEF Goes
  <2> QED
    BY <2>1, <2>2
<1>6. m - 1 \in 0 .. n /\ m - 1 \notin Bad /\ m \in 1 .. n /\ m \in Nat
  <2>1. m # 0
    BY <1>4, <1>5
  <2>2. m - 1 \in 0 .. n /\ m \in 1 .. n /\ m \in Nat /\ ~(m <= m - 1)
    BY <1>4, <2>1
  <2> QED
    BY <1>3, <2>2
<1>7. P(m - 1)
  BY <1>6
<1>8. PICK F \in [0 .. m - 1 -> S] : Goes(F, m - 1, x, st)
  BY <1>7
<1> HIDE DEF P, Bad
<1> DEFINE G == [i \in 0 .. m |-> IF i = m THEN st[m][F[m - 1]] ELSE F[i]]
<1>9. \A i \in 0 .. m : (i = m => G[i] = st[m][F[m - 1]]) /\ (i # m => i \in 0 .. m - 1 /\ G[i] = F[i])
  BY <1>6
<1>10. F[m - 1] \in S /\ st[m][F[m - 1]] \in S
  BY <1>6, <1>8
<1>11. G \in [0 .. m -> S]
  <2>1. \A i \in 0 .. m : (IF i = m THEN st[m][F[m - 1]] ELSE F[i]) \in S
    <3> SUFFICES ASSUME NEW i \in 0 .. m PROVE (IF i = m THEN st[m][F[m - 1]] ELSE F[i]) \in S
      OBVIOUS
    <3>1. i # m => i \in 0 .. m - 1
      BY <1>6
    <3> QED
      BY <1>8, <1>10, <3>1
  <2> QED
    BY <2>1
<1> HIDE DEF G
<1>12. Goes(G, m, x, st)
  <2>1. G[0] = x
    BY <1>6, <1>8, <1>9 DEF Goes
  <2>2. ASSUME NEW i \in 1 .. m PROVE G[i] = st[i][G[i - 1]]
    <3>1. i - 1 \in 0 .. m /\ i - 1 # m /\ i \in 0 .. m
      BY <1>6
    <3>2. G[i - 1] = F[i - 1]
      BY <1>9, <3>1
    <3>3. CASE i = m
      BY <1>9, <3>1, <3>2, <3>3
    <3>4. CASE i # m
      <4>1. i \in 1 .. m - 1
        BY <1>6, <3>4
      <4>2. F[i] = st[i][F[i - 1]]
        BY <1>8, <4>1 DEF Goes
      <4> QED
        BY <1>9, <3>1, <3>2, <3>4, <4>2
    <3> QED
      BY <3>3, <3>4
  <2> QED
    BY <2>1, <2>2 DEF Goes
<1>13. P(m)
  BY <1>11, <1>12 DEF P
<1> QED
  BY <1>4, <1>13

\* tty_puts goes through the text of the terminal.
Puts(F, x, s) == F[0] = x /\ \A i \in 1 .. Len(s) : F[i] = tty_putc(F[i - 1], s[i])

LEMMA PutsIs ==
  ASSUME NEW S, NEW x \in S, NEW s \in Seq(AllChar \cup Control),
         \A z \in S : \A ch \in AllChar \cup Control : tty_putc(z, ch) \in S
  PROVE  \E F : Puts(F, x, s) /\ tty_puts(x, s) = F[Len(s)]
<1> DEFINE n == Len(s)
           st == [i \in 1 .. n |-> [z \in S |-> tty_putc(z, s[i])]]
           Put(F) == F = [i \in 0 .. n |-> IF i = 0 THEN x ELSE tty_putc(F[i - 1], s[i])]
<1>1. n \in Nat /\ \A i \in 1 .. n : s[i] \in AllChar \cup Control
  BY ElementOfSeq, LenProperties
<1>2. st \in [1 .. n -> [S -> S]] /\ \A i \in 1 .. n : \A z \in S : st[i][z] = tty_putc(z, s[i])
  BY <1>1
<1> HIDE DEF n, st
<1>3. PICK F \in [0 .. n -> S] : Goes(F, n, x, st)
  BY <1>1, <1>2, Iterates
<1>4. Put(F)
  <2>1. ASSUME NEW i \in 0 .. n PROVE F[i] = IF i = 0 THEN x ELSE tty_putc(F[i - 1], s[i])
    <3>1. CASE i = 0
      BY <1>3, <3>1 DEF Goes
    <3>2. CASE i # 0
      <4>1. i \in 1 .. n /\ i - 1 \in 0 .. n
        BY <1>1, <3>2
      <4>2. F[i] = st[i][F[i - 1]] /\ F[i - 1] \in S
        BY <1>3, <4>1 DEF Goes
      <4> QED
        BY <1>2, <3>2, <4>1, <4>2
    <3> QED
      BY <3>1, <3>2
  <2> QED
    BY <1>3, <2>1
<1>5. PICK G : G = CHOOSE H : Put(H)
  OBVIOUS
<1>6. Put(G)
  BY <1>4, <1>5
<1>7. tty_puts(x, s) = G[n]
  BY <1>5, Zenon DEF tty_puts, n
<1>8. Puts(G, x, s)
  <2>1. G[0] = x
    BY <1>1, <1>6
  <2>2. ASSUME NEW i \in 1 .. n PROVE G[i] = tty_putc(G[i - 1], s[i])
    <3>1. i \in 0 .. n /\ i # 0
      BY <1>1
    <3> QED
      BY <1>6, <3>1
  <2> QED
    BY <2>1, <2>2 DEF Puts, n
<1> QED
  BY <1>7, <1>8 DEF n

\* Played goes through the tape.
Plays(F, s) == F[0] = Start /\ \A i \in 1 .. Len(s) : F[i] = Step(F[i - 1], s[i])

LEMMA PlayedIs ==
  ASSUME NEW S, Start \in S, NEW s \in Seq(AllChar \cup Control),
         \A z \in S : \A ch \in AllChar \cup Control : Step(z, ch) \in S
  PROVE  \E F : Plays(F, s) /\ Played(s) = F[Len(s)]
<1> DEFINE n == Len(s)
           st == [i \in 1 .. n |-> [z \in S |-> Step(z, s[i])]]
           Run(F) == F = [i \in 0 .. n |-> IF i = 0 THEN Start ELSE Step(F[i - 1], s[i])]
<1>1. n \in Nat /\ \A i \in 1 .. n : s[i] \in AllChar \cup Control
  BY ElementOfSeq, LenProperties
<1>2. st \in [1 .. n -> [S -> S]] /\ \A i \in 1 .. n : \A z \in S : st[i][z] = Step(z, s[i])
  BY <1>1
<1> HIDE DEF n, st
<1>3. PICK F \in [0 .. n -> S] : Goes(F, n, Start, st)
  BY <1>1, <1>2, Iterates
<1>4. Run(F)
  <2>1. ASSUME NEW i \in 0 .. n PROVE F[i] = IF i = 0 THEN Start ELSE Step(F[i - 1], s[i])
    <3>1. CASE i = 0
      BY <1>3, <3>1 DEF Goes
    <3>2. CASE i # 0
      <4>1. i \in 1 .. n /\ i - 1 \in 0 .. n
        BY <1>1, <3>2
      <4>2. F[i] = st[i][F[i - 1]] /\ F[i - 1] \in S
        BY <1>3, <4>1 DEF Goes
      <4> QED
        BY <1>2, <3>2, <4>1, <4>2
    <3> QED
      BY <3>1, <3>2
  <2> QED
    BY <1>3, <2>1
<1>5. PICK G : G = CHOOSE H : Run(H)
  OBVIOUS
<1>6. Run(G)
  BY <1>4, <1>5
<1>7. Played(s) = G[n]
  BY <1>5, Zenon DEF Played, n
<1>8. Plays(G, s)
  <2>1. G[0] = Start
    BY <1>1, <1>6
  <2>2. ASSUME NEW i \in 1 .. n PROVE G[i] = Step(G[i - 1], s[i])
    <3>1. i \in 0 .. n /\ i # 0
      BY <1>1
    <3> QED
      BY <1>6, <3>1
  <2> QED
    BY <2>1, <2>2 DEF Plays, n
<1> QED
  BY <1>7, <1>8 DEF n

----------------------------------------------------------------------------
(* The window and the tape.                                                *)

Glyph   == AllChar \cup {Blank}
Screens == [buf : [Place -> Glyph], cursor : Place]
Texts   == UNION {[D -> Glyph] : D \in SUBSET Int}
Tapes   == [text : Texts, pos : Int, top : Int]

\* Between a character and the scrolling, the cursor may be past the end.
Unscrolled == [buf : [Place -> Glyph], cursor : 0 .. size]

LEMMA Sizes ==
  /\ columns \in Nat \ {0} /\ size \in Nat \ {0} /\ columns <= size /\ 0 \in Place
  /\ \A i : i \in Place <=> (i \in Int /\ 0 <= i /\ i < size)
<1>1. columns \in Nat \ {0} /\ lines \in Nat \ {0} /\ columns * lines > 1 /\ columns * lines \in Nat
  BY ScreenAssumption
<1>2. columns <= columns * lines
  <2>1. 0 \in 0 .. columns * lines - 1 /\ lines \in Nat
    BY <1>1
  <2> QED
    BY <1>1, <2>1, LineFits
<1> QED
  BY <1>1, <1>2 DEF size, Place

LEMMA ColumnFits ==
  ASSUME NEW c \in Place
  PROVE  /\ Column(c) \in 0 .. columns - 1 /\ c - Column(c) \in 0 .. c
         /\ (c - Column(c)) + columns <= size
BY ScreenAssumption, LineFits DEF Column, Place, size

LEMMA ScreenTypes ==
  ASSUME NEW x \in Unscrolled
  PROVE  /\ x.buf \in [Place -> Glyph] /\ x.cursor \in 0 .. size
         /\ x = [buf |-> x.buf, cursor |-> x.cursor]
         /\ x.cursor # size => x \in Screens
<1>1. x.buf \in [Place -> Glyph] /\ x.cursor \in 0 .. size /\ x = [buf |-> x.buf, cursor |-> x.cursor]
  BY DEF Unscrolled
<1>2. x.cursor # size => x.cursor \in Place
  BY <1>1, Sizes
<1> QED
  BY <1>1, <1>2 DEF Screens

LEMMA ScreensUnscrolled == Screens \subseteq Unscrolled
BY Sizes DEF Screens, Unscrolled

LEMMA ScrollIs ==
  ASSUME NEW x \in Unscrolled
  PROVE  /\ Scrolled(x) \in Screens
         /\ x.cursor # size => Scrolled(x) = x
         /\ x.cursor = size =>
              /\ Scrolled(x).cursor = size - columns
              /\ \A i \in Place : Scrolled(x).buf[i] = IF i + columns < size THEN x.buf[i + columns] ELSE Blank
<1>1. x.buf \in [Place -> Glyph] /\ x.cursor \in 0 .. size
  BY ScreenTypes
<1>2. CASE x.cursor # size
  BY <1>2, ScreenTypes DEF Scrolled
<1>3. CASE x.cursor = size
  <2> DEFINE b == [i \in Place |-> IF i + columns < size THEN x.buf[i + columns] ELSE Blank]
  <2>1. Scrolled(x) = [buf |-> b, cursor |-> size - columns]
    BY <1>3 DEF Scrolled, tty_upd_scrollup
  <2>2. \A i \in Place : i + columns < size => i + columns \in Place
    BY Sizes
  <2>3. b \in [Place -> Glyph]
    BY <1>1, <2>2 DEF Glyph
  <2>4. size - columns \in Place
    BY Sizes
  <2> QED
    BY <1>3, <2>1, <2>3, <2>4 DEF Screens
<1> QED
  BY <1>2, <1>3

\* What a character does before the scrolling: the new text and cursor.
Typed(x, ch, b, c) == tty_putc(x, ch) = Scrolled([buf |-> b, cursor |-> c])
                      /\ [buf |-> b, cursor |-> c] \in Unscrolled

LEMMA PutcIs ==
  ASSUME NEW x \in Screens, NEW ch \in AllChar \cup Control
  PROVE  LET b == x.buf  c == x.cursor
         IN /\ b \in [Place -> Glyph] /\ c \in Place
            /\ ch = "cr" => Typed(x, ch, b, c - Column(c))
            /\ ch = "enter" => Typed(x, ch, b, (c - Column(c)) + columns)
            /\ ch = "backspace" /\ c = 0 => tty_putc(x, ch) = x
            /\ ch = "backspace" /\ c # 0 => c - 1 \in Place /\ Typed(x, ch, [b EXCEPT ![c - 1] = Blank], c - 1)
            /\ ch \notin Control => ch \in Glyph /\ Typed(x, ch, [b EXCEPT ![c] = ch], c + 1)
            /\ tty_putc(x, ch) \in Screens
<1> DEFINE b == x.buf
           c == x.cursor
<1>1. x \in Unscrolled /\ b \in [Place -> Glyph] /\ c \in Place
  BY ScreensUnscrolled DEF Screens
<1>2. Column(c) \in 0 .. columns - 1 /\ c - Column(c) \in 0 .. c /\ (c - Column(c)) + columns <= size
  BY <1>1, ColumnFits
<1>3. /\ \A f \in [Place -> Glyph] : \A i \in 0 .. size : [buf |-> f, cursor |-> i] \in Unscrolled
      /\ \A f \in [Place -> Glyph] : \A i \in Place : [buf |-> f, cursor |-> i] = Scrolled([buf |-> f, cursor |-> i])
  <2>1. ASSUME NEW f \in [Place -> Glyph], NEW i \in 0 .. size PROVE [buf |-> f, cursor |-> i] \in Unscrolled
    BY DEF Unscrolled
  <2>2. ASSUME NEW f \in [Place -> Glyph], NEW i \in Place
        PROVE  [buf |-> f, cursor |-> i] = Scrolled([buf |-> f, cursor |-> i])
    BY Sizes DEF Scrolled
  <2> QED
    BY <2>1, <2>2
<1>4. c - Column(c) \in Place /\ c - Column(c) \in 0 .. size /\ (c - Column(c)) + columns \in 0 .. size /\ c + 1 \in 0 .. size
  BY <1>1, <1>2, Sizes
<1>5. CASE ch = "cr"
  <2>1. tty_putc(x, ch) = [buf |-> b, cursor |-> c - Column(c)]
    BY <1>5 DEF tty_putc, tty_upd_cr, Screens
  <2>2. Typed(x, ch, b, c - Column(c))
    BY <1>1, <1>3, <1>4, <2>1 DEF Typed
  <2> QED
    BY <1>1, <1>5, <2>2, ScrollIs DEF Typed, Control
<1>6. CASE ch = "enter"
  <2>1. tty_putc(x, ch) = Scrolled([buf |-> b, cursor |-> (c - Column(c)) + columns])
    <3>1. tty_upd_cr(x) = [buf |-> b, cursor |-> c - Column(c)]
      BY DEF tty_upd_cr, Screens
    <3>2. tty_upd_lf([buf |-> b, cursor |-> c - Column(c)]) = [buf |-> b, cursor |-> (c - Column(c)) + columns]
      BY DEF tty_upd_lf
    <3> QED
      BY <1>6, <3>1, <3>2 DEF tty_putc
  <2>2. Typed(x, ch, b, (c - Column(c)) + columns)
    BY <1>1, <1>3, <1>4, <2>1 DEF Typed
  <2> QED
    BY <1>1, <1>6, <2>2, ScrollIs DEF Typed, Control
<1>7. CASE ch = "backspace"
  <2>1. CASE c = 0
    BY <1>1, <1>7, <2>1 DEF tty_putc, tty_upd_backsp, Control
  <2>2. CASE c # 0
    <3>1. tty_putc(x, ch) = [buf |-> [b EXCEPT ![c - 1] = Blank], cursor |-> c - 1]
      BY <1>7, <2>2 DEF tty_putc, tty_upd_backsp
    <3>2. c - 1 \in Place /\ c - 1 \in 0 .. size
      BY <1>1, <2>2, Sizes
    <3>3. [b EXCEPT ![c - 1] = Blank] \in [Place -> Glyph]
      BY <1>1 DEF Glyph
    <3>4. Typed(x, ch, [b EXCEPT ![c - 1] = Blank], c - 1)
      BY <1>3, <3>1, <3>2, <3>3 DEF Typed
    <3> QED
      BY <1>1, <1>7, <2>2, <3>2, <3>4, ScrollIs DEF Typed, Control
  <2> QED
    BY <2>1, <2>2
<1>8. CASE ch \notin Control
  <2>1. tty_putc(x, ch) = Scrolled([buf |-> [b EXCEPT ![c] = ch], cursor |-> c + 1])
    BY <1>8 DEF tty_putc, tty_upd_putc, Control
  <2>2. ch \in Glyph /\ [b EXCEPT ![c] = ch] \in [Place -> Glyph]
    BY <1>1, <1>8 DEF Glyph
  <2>3. Typed(x, ch, [b EXCEPT ![c] = ch], c + 1)
    BY <1>3, <1>4, <2>1, <2>2 DEF Typed
  <2> QED
    BY <1>1, <1>8, <2>2, <2>3, ScrollIs DEF Typed, Control
<1> QED
  BY <1>5, <1>6, <1>7, <1>8 DEF Control

\* The window x shows the tape y, but for the cursor's place p on the tape,
\* which may be just past the window.
Shown(x, y, p) ==
  /\ x \in Unscrolled /\ x.cursor = p - y.top
  /\ y \in Tapes /\ Column(y.top) = 0
  /\ \A i \in DOMAIN y.text : i < y.top + size
  /\ \A i \in Place : x.buf[i] = At(y.text, y.top + i)

Sim(x, y) == x \in Screens /\ Shown(x, y, y.pos)

LEMMA TapeTypes ==
  ASSUME NEW y \in Tapes
  PROVE  /\ y.pos \in Int /\ y.top \in Int
         /\ \A p : [y EXCEPT !.pos = p].text = y.text
         /\ DOMAIN y.text \in SUBSET Int /\ y.text \in [DOMAIN y.text -> Glyph]
         /\ \A p \in Int : Go(y, p) \in Tapes
         /\ \A p \in Int : \A g \in Glyph : [y EXCEPT !.text = With(@, p, g)] \in Tapes
<1>1. y.pos \in Int /\ y.top \in Int /\ \A p : [y EXCEPT !.pos = p].text = y.text
  BY DEF Tapes
<1>2. DOMAIN y.text \in SUBSET Int /\ y.text \in [DOMAIN y.text -> Glyph]
  BY DEF Tapes, Texts
<1>3. \A p \in Int : Go(y, p) \in Tapes
  <2>1. \A p \in Int : (IF p >= y.top + size THEN y.top + columns ELSE y.top) \in Int
    BY <1>1, Sizes
  <2> QED
    BY <2>1 DEF Go, Tapes
<1>4. ASSUME NEW p \in Int, NEW g \in Glyph PROVE [y EXCEPT !.text = With(@, p, g)] \in Tapes
  <2> DEFINE D == DOMAIN y.text
  <2>1. With(y.text, p, g) \in [D \cup {p} -> Glyph]
    BY <1>2 DEF With
  <2>2. D \cup {p} \in SUBSET Int
    BY <1>2
  <2>3. With(y.text, p, g) \in Texts
    BY <2>1, <2>2 DEF Texts
  <2> QED
    BY <2>3 DEF Tapes
<1> QED
  BY <1>1, <1>2, <1>3, <1>4

LEMMA StepTypes ==
  /\ Start \in Tapes
  /\ \A y \in Tapes : \A ch \in AllChar \cup Control : Step(y, ch) \in Tapes
<1>1. Start \in Tapes
  <2>1. [i \in {} |-> Blank] \in [{} -> Glyph] /\ {} \in SUBSET Int
    OBVIOUS
  <2>2. [i \in {} |-> Blank] \in Texts
    BY <2>1 DEF Texts
  <2> QED
    BY <2>2 DEF Start, Tapes
<1>2. ASSUME NEW y \in Tapes, NEW ch \in AllChar \cup Control PROVE Step(y, ch) \in Tapes
  <2>1. y.pos \in Int /\ y.top \in Int /\ Column(y.pos) \in Int /\ columns \in Int
    <3>1. y.pos \in Int /\ y.top \in Int /\ columns \in Nat \ {0}
      BY TapeTypes, Sizes
    <3>2. y.pos % columns \in 0 .. columns - 1
      BY <3>1, Euclid
    <3> QED
      BY <3>1, <3>2 DEF Column
  <2>2. y.pos - Column(y.pos) \in Int /\ y.pos - Column(y.pos) + columns \in Int /\ y.pos - 1 \in Int /\ y.pos + 1 \in Int
    BY <2>1
  <2>3. CASE ch = "cr"
    BY <2>2, <2>3, TapeTypes DEF Step
  <2>4. CASE ch = "enter"
    BY <2>2, <2>4, TapeTypes DEF Step
  <2>5. CASE ch = "backspace"
    <3>1. Blank \in Glyph
      BY DEF Glyph
    <3>2. [y EXCEPT !.text = With(@, y.pos - 1, Blank)] \in Tapes
      BY <2>2, <3>1, TapeTypes
    <3>3. Go([y EXCEPT !.text = With(@, y.pos - 1, Blank)], y.pos - 1) \in Tapes
      BY <2>2, <3>2, TapeTypes
    <3> QED
      BY <2>5, <3>3 DEF Step
  <2>6. CASE ch \notin Control
    <3>1. ch \in Glyph
      BY <2>6 DEF Glyph
    <3>2. [y EXCEPT !.text = With(@, y.pos, ch)] \in Tapes
      BY <2>1, <3>1, TapeTypes
    <3>3. Go([y EXCEPT !.text = With(@, y.pos, ch)], y.pos + 1) \in Tapes
      BY <2>2, <3>2, TapeTypes
    <3> QED
      BY <2>6, <3>3 DEF Step, Control
  <2> QED
    BY <2>3, <2>4, <2>5, <2>6 DEF Control
<1> QED
  BY <1>1, <1>2

\* The window and the tape scroll together.
LEMMA Follow ==
  ASSUME NEW x, NEW y, NEW p \in Int, Shown(x, y, p)
  PROVE  Sim(Scrolled(x), Go(y, p))
<1> DEFINE z == Go(y, p)
           w == Scrolled(x)
<1>1. /\ x \in Unscrolled /\ x.cursor = p - y.top
      /\ y \in Tapes /\ Column(y.top) = 0
      /\ \A i \in DOMAIN y.text : i < y.top + size
      /\ \A i \in Place : x.buf[i] = At(y.text, y.top + i)
  BY DEF Shown
<1>2. y.top \in Int /\ z \in Tapes /\ DOMAIN y.text \in SUBSET Int
  BY <1>1, TapeTypes
<1>3. z.text = y.text /\ z.pos = p /\ z.top = IF p >= y.top + size THEN y.top + columns ELSE y.top
  BY <1>1 DEF Go, Tapes
<1>4. /\ w \in Screens
      /\ x.cursor # size => w = x
      /\ x.cursor = size =>
           /\ w.cursor = size - columns
           /\ \A i \in Place : w.buf[i] = IF i + columns < size THEN x.buf[i + columns] ELSE Blank
  BY <1>1, ScrollIs
<1>5. x.cursor \in 0 .. size /\ columns \in Nat \ {0} /\ size \in Nat
  BY <1>1, Sizes, ScreenTypes
<1> HIDE DEF z, w
<1>6. w \in Unscrolled
  BY <1>4, ScreensUnscrolled
<1>7. CASE x.cursor # size
  <2>1. w = x /\ z.top = y.top
    BY <1>1, <1>2, <1>3, <1>4, <1>5, <1>7
  <2> QED
    BY <1>1, <1>2, <1>3, <1>4, <2>1 DEF Sim, Shown, z, w
<1>8. CASE x.cursor = size
  <2>1. z.top = y.top + columns /\ p = y.top + size
    BY <1>1, <1>2, <1>3, <1>5, <1>8
  <2>2. Column(z.top) = 0
    BY <1>1, <1>2, <1>5, <2>1, SameColumn DEF Column
  <2>3. w.cursor = p - z.top
    BY <1>2, <1>4, <1>5, <1>8, <2>1
  <2>4. \A i \in DOMAIN z.text : i < z.top + size
    BY <1>1, <1>2, <1>3, <1>5, <2>1
  <2>5. ASSUME NEW i \in Place PROVE w.buf[i] = At(z.text, z.top + i)
    <3>1. CASE i + columns < size
      <4>1. i + columns \in Place /\ y.top + (i + columns) = z.top + i
        BY <1>2, <1>5, <2>1, <3>1, Sizes
      <4> QED
        BY <1>1, <1>3, <1>4, <1>8, <3>1, <4>1
    <3>2. CASE ~(i + columns < size)
      <4>1. ~(z.top + i < y.top + size)
        BY <1>2, <1>5, <2>1, <3>2, Sizes
      <4>2. z.top + i \notin DOMAIN z.text
        BY <1>1, <1>3, <4>1
      <4> QED
        BY <1>4, <1>8, <3>2, <4>2 DEF At
    <3> QED
      BY <3>1, <3>2
  <2> QED
    BY <1>2, <1>3, <1>4, <1>6, <2>2, <2>3, <2>4, <2>5 DEF Sim, Shown, z, w
<1> QED
  BY <1>7, <1>8

LEMMA AtWith ==
  ASSUME NEW f, NEW i \in Int, NEW g, NEW j
  PROVE  At(With(f, i, g), j) = IF j = i THEN g ELSE At(f, j)
BY DEF At, With

\* The text with a glyph put in the window at place i, on both sides.
LEMMA PutGlyph ==
  ASSUME NEW x, NEW y, Sim(x, y), NEW i \in Place, NEW g \in Glyph,
         NEW c \in 0 .. size
  PROVE  LET w == [buf |-> [x.buf EXCEPT ![i] = g], cursor |-> c]
             z == [y EXCEPT !.text = With(@, y.top + i, g)]
         IN Shown(w, z, y.top + c)
<1> DEFINE w == [buf |-> [x.buf EXCEPT ![i] = g], cursor |-> c]
           z == [y EXCEPT !.text = With(@, y.top + i, g)]
<1>1. /\ x \in Screens /\ y \in Tapes /\ Column(y.top) = 0
      /\ \A j \in DOMAIN y.text : j < y.top + size
      /\ \A j \in Place : x.buf[j] = At(y.text, y.top + j)
  BY DEF Sim, Shown
<1>2. y.top \in Int /\ i \in Int /\ y.top + i \in Int /\ 0 <= i /\ i < size /\ size \in Int
  <2>1. y.top \in Int
    BY <1>1, TapeTypes
  <2>2. i \in Int /\ 0 <= i /\ i < size /\ size \in Int
    BY Sizes
  <2> QED
    BY <2>1, <2>2
<1>3. z \in Tapes
  BY <1>1, <1>2, TapeTypes
<1>4. z.text = With(y.text, y.top + i, g) /\ z.top = y.top
  BY <1>1 DEF Tapes
<1>5. x.buf \in [Place -> Glyph]
  BY <1>1 DEF Screens
<1>6. w \in Unscrolled /\ w.cursor = (y.top + c) - z.top
  BY <1>2, <1>4, <1>5 DEF Unscrolled
<1>7. \A j \in DOMAIN z.text : j < z.top + size
  BY <1>1, <1>2, <1>4 DEF With
<1>8. ASSUME NEW j \in Place PROVE w.buf[j] = At(z.text, z.top + j)
  <2>1. j \in Int /\ (y.top + j = y.top + i <=> j = i)
    BY <1>2, Sizes
  <2>2. At(z.text, z.top + j) = IF y.top + j = y.top + i THEN g ELSE At(y.text, y.top + j)
    BY <1>2, <1>4, AtWith
  <2> QED
    BY <1>1, <1>5, <2>1, <2>2
<1> QED
  BY <1>1, <1>3, <1>4, <1>6, <1>7, <1>8 DEF Shown

\* A character does the same to the window and to the tape.
LEMMA StepSim ==
  ASSUME NEW x, NEW y, Sim(x, y), NEW ch \in AllChar \cup Control
  PROVE  Sim(tty_putc(x, ch), Step(y, ch))
<1> DEFINE b == x.buf
           c == x.cursor
           o == y.top
<1>1. /\ x \in Screens /\ c = y.pos - o /\ y \in Tapes /\ Column(o) = 0
      /\ \A i \in DOMAIN y.text : i < o + size
      /\ \A i \in Place : b[i] = At(y.text, o + i)
  BY DEF Sim, Shown
<1>2. y.pos \in Int /\ o \in Int /\ c \in Place /\ b \in [Place -> Glyph]
  BY <1>1, TapeTypes DEF Screens
<1>3. c \in Int /\ 0 <= c /\ c < size /\ size \in Nat /\ columns \in Nat \ {0} /\ y.pos = o + c
  BY <1>1, <1>2, Sizes
<1>4. Column(y.pos) = Column(c) /\ Column(c) \in Int
  <2>1. Column(c) \in Int
    BY <1>2, ColumnFits
  <2> QED
    <3>1. o % columns = 0
      BY <1>1 DEF Column
    <3>2. (o + c) % columns = c % columns
      BY <1>2, <1>3, <3>1, SameColumn
    <3> QED
      BY <1>3, <2>1, <3>2 DEF Column
<1>5. ASSUME NEW d \in Int, [buf |-> b, cursor |-> d] \in Unscrolled
      PROVE  Shown([buf |-> b, cursor |-> d], y, o + d)
  BY <1>1, <1>2, <1>5 DEF Shown
<1>6. CASE ch = "cr"
  <2>1. Typed(x, ch, b, c - Column(c))
    BY <1>1, <1>6, PutcIs
  <2>2. c - Column(c) \in Int /\ o + (c - Column(c)) = y.pos - Column(y.pos)
    BY <1>2, <1>3, <1>4
  <2>3. Shown([buf |-> b, cursor |-> c - Column(c)], y, y.pos - Column(y.pos))
    BY <1>5, <2>1, <2>2 DEF Typed
  <2>4. y.pos - Column(y.pos) \in Int /\ Step(y, ch) = Go(y, y.pos - Column(y.pos))
    BY <1>2, <1>4, <1>6 DEF Step
  <2> QED
    BY <2>1, <2>3, <2>4, Follow DEF Typed
<1>7. CASE ch = "enter"
  <2>1. Typed(x, ch, b, (c - Column(c)) + columns)
    BY <1>1, <1>7, PutcIs
  <2>2. (c - Column(c)) + columns \in Int /\ o + ((c - Column(c)) + columns) = y.pos - Column(y.pos) + columns
    BY <1>2, <1>3, <1>4
  <2>3. Shown([buf |-> b, cursor |-> (c - Column(c)) + columns], y, y.pos - Column(y.pos) + columns)
    BY <1>5, <2>1, <2>2 DEF Typed
  <2>4. y.pos - Column(y.pos) + columns \in Int /\ Step(y, ch) = Go(y, y.pos - Column(y.pos) + columns)
    BY <1>2, <1>3, <1>4, <1>7 DEF Step
  <2> QED
    BY <2>1, <2>3, <2>4, Follow DEF Typed
<1>8. CASE ch = "backspace"
  <2>1. CASE c = 0
    <3>1. tty_putc(x, ch) = x
      BY <1>1, <1>8, <2>1, PutcIs
    <3>2. Step(y, ch) = y
      BY <1>2, <1>3, <1>8, <2>1 DEF Step
    <3> QED
      BY <3>1, <3>2
  <2>2. CASE c # 0
    <3>1. c - 1 \in Place /\ Typed(x, ch, [b EXCEPT ![c - 1] = Blank], c - 1) /\ Blank \in Glyph
      BY <1>1, <1>8, <2>2, PutcIs DEF Glyph
    <3>2. c - 1 \in 0 .. size /\ o + (c - 1) = y.pos - 1 /\ y.pos # o
      BY <1>2, <1>3, <2>2
    <3>3. Shown([buf |-> [b EXCEPT ![c - 1] = Blank], cursor |-> c - 1],
                [y EXCEPT !.text = With(@, o + (c - 1), Blank)], o + (c - 1))
      BY <3>1, <3>2, PutGlyph
    <3>4. Step(y, ch) = Go([y EXCEPT !.text = With(@, o + (c - 1), Blank)], o + (c - 1))
      BY <1>8, <3>2 DEF Step
    <3>5. o + (c - 1) \in Int
      BY <1>2, <1>3
    <3> QED
      BY <3>1, <3>3, <3>4, <3>5, Follow DEF Typed
  <2> QED
    BY <2>1, <2>2
<1>9. CASE ch \notin Control
  <2>1. ch \in Glyph /\ Typed(x, ch, [b EXCEPT ![c] = ch], c + 1)
    BY <1>1, <1>9, PutcIs
  <2>2. c + 1 \in 0 .. size /\ o + (c + 1) = y.pos + 1 /\ o + c = y.pos
    BY <1>2, <1>3
  <2>3. Shown([buf |-> [b EXCEPT ![c] = ch], cursor |-> c + 1],
              [y EXCEPT !.text = With(@, o + c, ch)], o + (c + 1))
    BY <1>2, <2>1, <2>2, PutGlyph
  <2>4. Step(y, ch) = Go([y EXCEPT !.text = With(@, o + c, ch)], o + (c + 1))
    BY <1>9, <2>2 DEF Step, Control
  <2>5. o + (c + 1) \in Int
    BY <1>2, <1>3
  <2> QED
    BY <2>1, <2>3, <2>4, <2>5, Follow DEF Typed
<1> QED
  BY <1>6, <1>7, <1>8, <1>9 DEF Control

Begins(u, o) == /\ Len(o) \in Nat /\ Len(u) \in Nat /\ Len(o) <= Len(u)
                /\ \A i \in 1 .. Len(o) : u[i] = o[i]

\* The tape of a longer output goes on from that of its beginning.
LEMMA SameTape ==
  ASSUME NEW o, NEW u, Begins(u, o), NEW F, Plays(F, o), NEW G, Plays(G, u)
  PROVE  G[Len(o)] = F[Len(o)]
<1> DEFINE k == Len(o)
<1>0. k \in Nat /\ k <= Len(u) /\ Len(u) \in Nat /\ \A i \in 1 .. k : u[i] = o[i]
  BY DEF Begins
<1> DEFINE Bad == {i \in 0 .. k : G[i] # F[i]}
<1>1. SUFFICES ASSUME Bad # {} PROVE FALSE
  OBVIOUS
<1>2. PICK m \in Bad : \A i \in Bad : m <= i
  <2>1. Bad \in SUBSET Nat
    BY <1>0
  <2> QED
    BY <1>1, <2>1, LeastExists
<1>3. m \in 0 .. k /\ G[m] # F[m] /\ m - 1 \notin Bad
  BY <1>0, <1>2
<1>4. m # 0
  BY <1>3 DEF Plays
<1>5. m \in 1 .. k /\ m \in 1 .. Len(u) /\ m - 1 \in 0 .. k
  BY <1>0, <1>3, <1>4
<1>6. G[m - 1] = F[m - 1] /\ u[m] = o[m]
  BY <1>0, <1>3, <1>5
<1>7. G[m] = Step(G[m - 1], u[m]) /\ F[m] = Step(F[m - 1], o[m])
  BY <1>5 DEF Plays
<1> QED
  BY <1>3, <1>6, <1>7

\* tty_puts does to the window what the same characters do to the tape.
LEMMA WriteSim ==
  ASSUME NEW x, NEW o \in Seq(AllChar \cup Control), NEW s \in Seq(AllChar \cup Control),
         Sim(x, Played(o))
  PROVE  Sim(tty_puts(x, s), Played(o \o s))
<1> DEFINE C == AllChar \cup Control
           k == Len(o)
           n == Len(s)
           u == o \o s
<1>1. /\ u \in Seq(C) /\ Len(u) = k + n /\ k \in Nat /\ n \in Nat
      /\ \A i \in 1 .. k : u[i] = o[i]
      /\ \A i \in 1 .. n : u[k + i] = s[i] /\ s[i] \in C
  <2>1. u \in Seq(C) /\ Len(u) = k + n /\ \A i \in 1 .. k + n : u[i] = IF i <= k THEN o[i] ELSE s[i - k]
    BY ConcatProperties
  <2>2. k \in Nat /\ n \in Nat /\ \A i \in 1 .. n : s[i] \in C
    BY LenProperties, ElementOfSeq
  <2> HIDE DEF u, k, n
  <2>3. ASSUME NEW i \in 1 .. n PROVE u[k + i] = s[i]
    <3>1. k + i \in 1 .. k + n /\ ~(k + i <= k) /\ (k + i) - k = i
      BY <2>2
    <3> QED
      BY <2>1, <3>1
  <2>4. \A i \in 1 .. k : u[i] = o[i]
    BY <2>1, <2>2
  <2> QED
    BY <2>1, <2>2, <2>3, <2>4
<1> HIDE DEF u, k, n
<1>2. x \in Screens /\ \A z \in Screens : \A ch \in C : tty_putc(z, ch) \in Screens
  BY PutcIs DEF Sim
<1>3. PICK P : Puts(P, x, s) /\ tty_puts(x, s) = P[n]
  BY <1>2, PutsIs DEF n
<1>4. PICK F : Plays(F, o) /\ Played(o) = F[k]
  BY StepTypes, PlayedIs DEF k
<1>5. PICK G : Plays(G, u) /\ Played(u) = G[k + n]
  <2>1. PICK G : Plays(G, u) /\ Played(u) = G[Len(u)]
    BY <1>1, StepTypes, PlayedIs
  <2> QED
    BY <1>1, <2>1
<1>6. G[k] = F[k]
  <2>1. Begins(u, o)
    BY <1>1 DEF k, Begins
  <2> QED
    BY <1>4, <1>5, <2>1, SameTape DEF k
<1> DEFINE Bad == {j \in 0 .. n : ~Sim(P[j], G[k + j])}
<1>7. Bad = {}
  <2>1. SUFFICES ASSUME Bad # {} PROVE FALSE
    OBVIOUS
  <2>2. PICK m \in Bad : \A i \in Bad : m <= i
    <3>1. Bad \in SUBSET Nat
      BY <1>1
    <3> QED
      BY <2>1, <3>1, LeastExists
  <2>3. m \in 0 .. n /\ ~Sim(P[m], G[k + m]) /\ m - 1 \notin Bad
    BY <1>1, <2>2
  <2>4. m # 0
    <3>1. P[0] = x /\ k + 0 = k
      BY <1>1, <1>3 DEF Puts
    <3>2. Sim(P[0], G[k + 0])
      BY <1>4, <1>6, <3>1
    <3> QED
      BY <2>3, <3>2
  <2>5. m \in 1 .. n /\ m - 1 \in 0 .. n /\ k + m \in 1 .. Len(u) /\ (k + m) - 1 = k + (m - 1)
    BY <1>1, <2>3, <2>4
  <2>6. Sim(P[m - 1], G[k + (m - 1)])
    BY <2>3, <2>5
  <2>7. P[m] = tty_putc(P[m - 1], s[m])
    BY <1>3, <2>5 DEF Puts, n
  <2>8. G[k + m] = Step(G[k + (m - 1)], s[m])
    <3>1. G[k + m] = Step(G[(k + m) - 1], u[k + m])
      BY <1>5, <2>5 DEF Plays
    <3> QED
      BY <1>1, <2>5, <3>1
  <2>9. s[m] \in C
    BY <1>1, <2>5
  <2> QED
    BY <2>3, <2>6, <2>7, <2>8, <2>9, StepSim
<1>8. Sim(P[n], G[k + n])
  <2>1. n \in 0 .. n
    BY <1>1
  <2> QED
    BY <1>7, <2>1
<1> QED
  BY <1>3, <1>5, <1>8 DEF u

LEMMA StartSim == Sim(Empty, Played(<<>>))
<1>1. Played(<<>>) = Start
  <2>1. <<>> \in Seq(AllChar \cup Control) /\ Len(<<>>) = 0
    OBVIOUS
  <2>2. PICK F : Plays(F, <<>>) /\ Played(<<>>) = F[Len(<<>>)]
    BY <2>1, StepTypes, PlayedIs
  <2> QED
    BY <2>1, <2>2 DEF Plays
<1>2. Start \in Tapes
  BY StepTypes
<1>3. Start.text = [i \in {} |-> Blank] /\ Start.pos = 0 /\ Start.top = 0
  BY DEF Start
<1>4. Empty \in Screens /\ Empty.cursor = 0 /\ \A i \in Place : Empty.buf[i] = Blank
  BY Sizes DEF Empty, Screens, Glyph
<1>5. Column(0) = 0
  BY Sizes, ColumnFits DEF Column
<1>6. \A i : At(Start.text, i) = Blank
  BY <1>3 DEF At
<1> QED
  BY <1>1, <1>2, <1>3, <1>4, <1>5, <1>6, ScreensUnscrolled DEF Sim, Shown

\* What ShowsText says of a terminal, from the simulation.
LEMMA SimShows ==
  ASSUME NEW x, NEW o, Sim(x, Played(o))
  PROVE  x = Tape(o)
<1>1. /\ x \in Screens /\ x.cursor = Played(o).pos - Played(o).top
      /\ \A i \in Place : x.buf[i] = At(Played(o).text, Played(o).top + i)
  BY DEF Sim, Shown
<1>2. x = [buf |-> x.buf, cursor |-> x.cursor] /\ x.buf = [i \in Place |-> x.buf[i]]
  BY <1>1 DEF Screens
<1>3. x.buf = [i \in Place |-> At(Played(o).text, Played(o).top + i)]
  BY <1>1, <1>2, Zenon
<1> QED
  BY <1>1, <1>2, <1>3, Zenon DEF Tape

----------------------------------------------------------------------------
(* What a key and a read do to a queue.                                    *)

LEMMA OneOn ==
  ASSUME NEW n \in Nat \ {0}, NEW a \in 0 .. 2 * n - 2
  PROVE  /\ (a + 1) % n \in 0 .. n - 1
         /\ a % n = IF (a + 1) % n = 0 THEN n - 1 ELSE ((a + 1) % n) - 1
<1>1. a \in 0 .. 2 * n - 1 /\ a + 1 \in 0 .. 2 * n - 1
  OBVIOUS
<1>2. a % n = (IF a < n THEN a ELSE a - n) /\ (a + 1) % n = IF a + 1 < n THEN a + 1 ELSE (a + 1) - n
  BY <1>1, Wrap
<1> QED
  BY <1>2

\* Whatever is in the queue, a reader finds a 0: there is one behind the rear.
LEMMA AnyLine ==
  ASSUME NEW q, QueueOK(q)
  PROVE  LineLength(q) \in Index /\ FirstLine(q) \in Text /\ QueueOK(Shorter(q))
<1>1. q \in Queue /\ q.buf[q.rear] = "nul"
  BY DEF QueueOK
<1>2. q.buf \in [Index -> AllChar] /\ q.front \in Index /\ q.rear \in Index
  BY <1>1, QueueTypes
<1> DEFINE f == q.front
           r == q.rear
           N(n) == q.buf[(f + n) % SZ] = "nul"
           Ns == {n \in Index : N(n)}
<1>3. SZ \in Nat \ {0} /\ Index = 0 .. SZ - 1
  BY TtyAssumption DEF Index
<1>4. Span(f, r) \in Index /\ N(Span(f, r))
  <2>1. Span(f, r) = (IF f <= r THEN r - f ELSE (r - f) + SZ) /\ Span(f, r) \in Index
    BY <1>2, <1>3, SpanIs
  <2>2. f + Span(f, r) \in 0 .. 2 * SZ - 1 /\ (f + Span(f, r) = r \/ f + Span(f, r) = r + SZ)
    BY <1>2, <1>3, <2>1
  <2>3. (f + Span(f, r)) % SZ = IF f + Span(f, r) < SZ THEN f + Span(f, r) ELSE (f + Span(f, r)) - SZ
    BY <1>3, <2>2, Wrap
  <2>4. r \in Int /\ 0 <= r /\ r < SZ
    BY <1>2, <1>3
  <2>5. (f + Span(f, r)) % SZ = r
    BY <1>3, <2>2, <2>3, <2>4
  <2> QED
    BY <1>1, <2>1, <2>5
<1>5. PICK m \in Ns : \A n \in Ns : m <= n
  <2>1. Ns \in SUBSET Nat /\ Ns # {}
    BY <1>3, <1>4
  <2> QED
    BY <2>1, LeastExists
<1>6. m \in Index /\ N(m) /\ \A i \in 0 .. m - 1 : ~N(i)
  <2>1. m \in Index /\ N(m)
    BY <1>5
  <2>2. ASSUME NEW i \in 0 .. m - 1, N(i) PROVE FALSE
    <3>1. i \in Index /\ ~(m <= i)
      BY <1>3, <2>1
    <3> QED
      BY <1>5, <2>2, <3>1
  <2> QED
    BY <2>1, <2>2
<1> DEFINE l == LineLength(q)
<1>7. l \in Index /\ N(l) /\ \A i \in 0 .. l - 1 : ~N(i)
  <2>1. l = CHOOSE n \in Index : N(n) /\ \A i \in 0 .. n - 1 : ~N(i)
    BY Zenon DEF LineLength
  <2> HIDE DEF N, l
  <2> QED
    BY <1>6, <2>1
<1> HIDE DEF l
<1>8. FirstLine(q) \in Text
  <2>1. FirstLine(q) = [i \in 1 .. l |-> q.buf[(f + i - 1) % SZ]]
    BY DEF FirstLine, l
  <2>2. ASSUME NEW i \in 1 .. l PROVE q.buf[(f + i - 1) % SZ] \in AllChar
    <3>1. i \in 1 .. SZ
      BY <1>3, <1>7
    <3>2. Nth(f, i) \in Index
      BY <1>2, <3>1, NthIs
    <3> QED
      BY <1>2, <3>2 DEF Nth
  <2>3. l \in Nat
    BY <1>3, <1>7
  <2> QED
    BY <2>1, <2>2, <2>3, SeqDef DEF Text
<1> DEFINE g == (f + l + 1) % SZ
<1>9. g \in Index /\ Before(g) = (f + l) % SZ
  <2>1. f + l \in 0 .. 2 * SZ - 2
    <3>1. f \in 0 .. SZ - 1 /\ l \in 0 .. SZ - 1 /\ SZ \in Nat
      BY <1>2, <1>3, <1>7
    <3> HIDE DEF f, l
    <3> QED
      BY <3>1
  <2>2. /\ ((f + l) + 1) % SZ \in 0 .. SZ - 1
        /\ (f + l) % SZ = IF ((f + l) + 1) % SZ = 0 THEN SZ - 1 ELSE (((f + l) + 1) % SZ) - 1
    BY <1>3, <2>1, OneOn
  <2>3. g = ((f + l) + 1) % SZ
    BY DEF g
  <2> HIDE DEF f, l, g
  <2>4. g \in Index
    BY <1>3, <2>2, <2>3
  <2>5. Before(g) = IF g = 0 THEN SZ - 1 ELSE g - 1
    BY <2>4, Neighbours
  <2> QED
    BY <2>2, <2>3, <2>4, <2>5
<1> HIDE DEF g
<1>10. Shorter(q) = [q EXCEPT !.front = g]
  BY DEF Shorter, l, g
<1>11. QueueOK(Shorter(q))
  <2>1. Shorter(q) \in Queue /\ Shorter(q).buf = q.buf /\ Shorter(q).rear = r /\ Shorter(q).front = g
    BY <1>1, <1>9, <1>10 DEF Queue
  <2> QED
    BY <1>1, <1>7, <1>9, <2>1 DEF QueueOK
<1> QED
  BY <1>7, <1>8, <1>11 DEF l

\* What tty_cook leaves in the queue.
LEMMA CookIs ==
  ASSUME NEW q, QueueOK(q), NEW c \in AllChar, ~Panics(q, c)
  PROVE  LET s == Contents(q)
             u == Contents(Cooked(q, c))
         IN /\ QueueOK(Cooked(q, c))
            /\ c = "enter" => u = Append(Append(s, "enter"), "nul")
            /\ c = "backspace" /\ Erasable(q) => s # <<>> /\ s[Len(s)] # "nul" /\ u = Front(s)
            /\ c = "backspace" /\ ~Erasable(q) => u = s
            /\ c \notin {"enter", "backspace"} => u = Append(s, c)
<1>1. CASE c = "enter"
  <2>1. ~Full(q) /\ ~Full(tty_enqueue(q, c)) /\ "nul" \in AllChar
    BY <1>1 DEF Panics, AllChar
  <2>2. QueueOK(tty_enqueue(q, c)) /\ Contents(tty_enqueue(q, c)) = Append(Contents(q), c)
    BY <2>1, Enqueue
  <2>3. /\ QueueOK(tty_enqueue(tty_enqueue(q, c), "nul"))
        /\ Contents(tty_enqueue(tty_enqueue(q, c), "nul")) = Append(Contents(tty_enqueue(q, c)), "nul")
    BY <2>1, <2>2, Enqueue
  <2>4. Cooked(q, c) = tty_enqueue(tty_enqueue(q, c), "nul")
    BY <1>1 DEF Cooked
  <2> QED
    BY <1>1, <2>2, <2>3, <2>4
<1>2. CASE c = "backspace"
  <2>1. Cooked(q, c) = IF Erasable(q) THEN tty_pop_back(q) ELSE q
    BY <1>2 DEF Cooked
  <2> QED
    BY <1>2, <2>1, PopBack
<1>3. CASE c \notin {"enter", "backspace"}
  <2>1. ~Full(q) /\ Cooked(q, c) = tty_enqueue(q, c)
    BY <1>3 DEF Panics, Cooked
  <2> QED
    BY <1>3, <2>1, Enqueue
<1> QED
  BY <1>1, <1>2, <1>3

\* And in the lines that are in it.
LEMMA CookLines ==
  ASSUME NEW q, QueueOK(q), NEW c \in AllChar, ~Panics(q, c), c # "nul"
  PROVE  LET s == Contents(q)
             u == Contents(Cooked(q, c))
         IN /\ c = "enter" =>
                 /\ Cardinality(Ends(u)) = Cardinality(Ends(s)) + 1
                 /\ Completed(u) = Append(Completed(s), Append(Unfinished(s), "enter"))
                 /\ Unfinished(u) = <<>>
            /\ c # "enter" => Ends(u) = Ends(s) /\ Completed(u) = Completed(s)
            /\ c = "backspace" /\ Erasable(q) => Unfinished(s) # <<>> /\ Unfinished(u) = Front(Unfinished(s))
            /\ c = "backspace" /\ ~Erasable(q) => u = s
            /\ c \notin {"enter", "backspace"} => Unfinished(u) = Append(Unfinished(s), c)
<1> DEFINE s == Contents(q)
           u == Contents(Cooked(q, c))
<1>1. s \in Text
  BY ContentsAre DEF QueueOK
<1>2. /\ c = "enter" => u = Append(Append(s, "enter"), "nul")
      /\ c = "backspace" /\ Erasable(q) => s # <<>> /\ s[Len(s)] # "nul" /\ u = Front(s)
      /\ c = "backspace" /\ ~Erasable(q) => u = s
      /\ c \notin {"enter", "backspace"} => u = Append(s, c)
  BY CookIs
<1> HIDE DEF s, u
<1>3. CASE c = "enter"
  <2> DEFINE v == Append(s, "enter")
  <2>1. "enter" \in AllChar /\ "enter" # "nul" /\ v \in Text
    BY <1>1, AppendProperties DEF AllChar, Text
  <2>2. Ends(v) = Ends(s) /\ Completed(v) = Completed(s) /\ Unfinished(v) = Append(Unfinished(s), "enter")
    BY <1>1, <2>1, AppendChar
  <2>3. u = Append(v, "nul")
    BY <1>2, <1>3
  <2> HIDE DEF v
  <2>4. /\ Cardinality(Ends(Append(v, "nul"))) = Cardinality(Ends(v)) + 1
        /\ Completed(Append(v, "nul")) = Append(Completed(v), Unfinished(v))
        /\ Unfinished(Append(v, "nul")) = <<>>
    BY <2>1, AppendEnd
  <2> QED
    BY <1>3, <2>2, <2>3, <2>4 DEF s, u
<1>4. CASE c = "backspace"
  BY <1>1, <1>2, <1>4, EraseLast DEF s, u
<1>5. CASE c \notin {"enter", "backspace"}
  BY <1>1, <1>2, <1>5, AppendChar DEF s, u
<1> QED
  BY <1>3, <1>4, <1>5 DEF s, u

----------------------------------------------------------------------------
(* Types, queues and the character that is cooked.                         *)

QueuesOK == \A t \in Tty : QueueOK(queue[t])
TaskOK   == pc[TtyTask] = "cook" => \E c \in Char : str[TtyTask] = <<c>>
Base     == TypeOK /\ QueuesOK /\ TaskOK

LEMMA Constants ==
  /\ tty1 \in Tty /\ Char \subseteq AllChar /\ Output \subseteq Seq(AllChar \cup Control)
  /\ SZ \in Nat \ {0, 1} /\ MaxEvents \in Nat
  /\ Nobody \notin Proc /\ TtyTask \in Proc /\ TtyTask \notin Shell
  /\ \A s \in Shell : s \in Proc /\ s # TtyTask
  /\ size \in Nat \ {0} /\ 0 \in Place
BY TtyAssumption, ProcAssumption, Sizes DEF Proc

LEMMA BaseInit == Init => Base
<1> SUFFICES ASSUME Init PROVE Base
  OBVIOUS
<1>1. 0 \in Index /\ "nul" \in AllChar
  BY Constants DEF Index, AllChar
<1> DEFINE q == [buf |-> [i \in Index |-> "nul"], front |-> 0, rear |-> 0]
<1>2. q \in Queue /\ q.buf[q.rear] = "nul" /\ q.buf[Before(q.front)] = "nul"
  BY <1>1, Neighbours DEF Queue
<1>3. \A t \in Tty : queue[t] = q
  BY DEF Init
<1> HIDE DEF q
<1>4. QueuesOK /\ queue \in [Tty -> Queue]
  <2>1. queue \in [Tty -> Queue]
    BY <1>2 DEF Init, q
  <2> QED
    BY <1>2, <1>3, <2>1 DEF QueuesOK, QueueOK
<1>5. TaskOK
  BY Constants DEF Init, TaskOK
<1>6. text \in [Tty -> [buf : [Place -> AllChar \cup {Blank}], cursor : Place]]
  BY Constants DEF Init, Empty
<1>7. TypeOK
  <2>1. \A S : <<>> \in Seq(S)
    OBVIOUS
  <2>2. events \in 0 .. MaxEvents
    BY Constants DEF Init
  <2> QED
    BY <1>4, <1>6, <2>1, <2>2, Constants DEF Init, TypeOK
<1> QED
  BY <1>4, <1>5, <1>7 DEF Base

LEMMA BaseTake ==
  ASSUME Base, Take
  PROVE  Base'
<1>1. TypeOK /\ QueuesOK /\ TaskOK
  BY DEF Base
<1>2. events' \in 0 .. MaxEvents
  BY <1>1, Constants DEF Take, TypeOK
<1>3. CASE \E c \in Char : Take_Char(c)
  <2> PICK c \in Char : Take_Char(c)
    BY <1>3
  <2>1. <<c>> \in Seq(AllChar \cup Control)
    BY Constants
  <2>2. str' \in [Proc -> Seq(AllChar \cup Control)] /\ str'[TtyTask] = <<c>>
    BY <1>1, <2>1, Constants DEF Take_Char, TypeOK
  <2> QED
    BY <1>1, <1>2, <2>2 DEF Take_Char, Move, Base, TypeOK, QueuesOK, TaskOK, cook, video, texts
<1>4. CASE \E t \in Tty : Take_Alt(t)
  <2> PICK t \in Tty : Take_Alt(t)
    BY <1>4
  <2>1. pc'[TtyTask] = "switch"
    BY <1>1, Constants DEF Take_Alt, Move, TypeOK
  <2> QED
    BY <1>1, <1>2, <2>1 DEF Take_Alt, Move, Base, TypeOK, QueuesOK, TaskOK, cook, video, texts
<1> QED
  BY <1>3, <1>4 DEF Take

LEMMA BaseCook ==
  ASSUME Base, tty_cook
  PROVE  Base'
<1> DEFINE t == on[TtyTask]
           q == queue[t]
           c == Head(str[TtyTask])
<1>1. TypeOK /\ QueuesOK /\ TaskOK /\ pc[TtyTask] = "cook"
  BY DEF Base, tty_cook
<1>2. t \in Tty /\ c \in AllChar /\ QueueOK(q)
  BY <1>1, Constants DEF TypeOK, QueuesOK, TaskOK
<1>3. pc' \in [Proc -> {"idle", "cook", "switch", "wait", "read", "write", "render"}] /\ pc'[TtyTask] # "cook"
  <2>1. PICK b \in {"idle", "write"} : pc' = [pc EXCEPT ![TtyTask] = b]
    BY DEF tty_cook, Move
  <2>2. pc \in [Proc -> {"idle", "cook", "switch", "wait", "read", "write", "render"}] /\ TtyTask \in Proc
    BY <1>1, Constants DEF TypeOK
  <2> QED
    BY <2>1, <2>2
<1>4. TaskOK'
  BY <1>3 DEF TaskOK
<1>5. UNCHANGED <<video, texts, ttydev, on, str, events>>
  BY DEF tty_cook
<1>6. CASE Panics(q, c)
  <2>1. halted' = TRUE /\ UNCHANGED cook
    BY <1>6 DEF tty_cook
  <2> QED
    BY <1>1, <1>3, <1>4, <1>5, <2>1 DEF Base, TypeOK, QueuesOK, cook, video, texts
<1>7. CASE ~Panics(q, c)
  <2>1. /\ queue' = [queue EXCEPT ![t] = Cooked(q, c)]
        /\ cooked' = [cooked EXCEPT ![t] = IF c = "enter" THEN @ + 1 ELSE @]
        /\ UNCHANGED <<out, halted>>
    BY <1>7 DEF tty_cook
  <2>2. QueueOK(Cooked(q, c))
    BY <1>2, <1>7, CookIs
  <2> HIDE DEF q, c, t
  <2>3. queue' \in [Tty -> Queue] /\ QueuesOK'
    BY <1>1, <2>1, <2>2 DEF TypeOK, QueuesOK, QueueOK
  <2>4. cooked' \in [Tty -> Nat]
    <3>1. cooked \in [Tty -> Nat] /\ t \in Tty
      BY <1>1, <1>2 DEF TypeOK, t
    <3>2. cooked[t] + 1 \in Nat
      BY <3>1
    <3> QED
      BY <2>1, <3>1, <3>2
  <2> QED
    BY <1>1, <1>3, <1>4, <1>5, <2>1, <2>3, <2>4 DEF Base, TypeOK, video, texts
<1> QED
  BY <1>6, <1>7

LEMMA BaseSwitch ==
  ASSUME Base, Switch
  PROVE  Base'
<1>1. TypeOK /\ QueuesOK /\ TaskOK
  BY DEF Base
<1>2. str' \in [Proc -> Seq(AllChar \cup Control)]
  <2>1. <<>> \in Seq(AllChar \cup Control)
    OBVIOUS
  <2> QED
    BY <1>1, <2>1 DEF Switch, TypeOK
<1>3. pc'[TtyTask] = "write"
  BY <1>1, Constants DEF Switch, Move, TypeOK
<1> QED
  BY <1>1, <1>2, <1>3, Constants DEF Switch, Move, Base, TypeOK, QueuesOK, TaskOK, cook, texts

Pcs == {"idle", "cook", "switch", "wait", "read", "write", "render"}

\* The moves of a program leave tty_task where it is.
LEMMA ShellMoves ==
  ASSUME Base, NEW s \in Shell, NEW a, NEW b \in Pcs, Move(s, a, b),
         str'[TtyTask] = str[TtyTask]
  PROVE  pc' \in [Proc -> Pcs] /\ TaskOK' /\ pc'[TtyTask] = pc[TtyTask]
<1>1. pc \in [Proc -> Pcs] /\ TaskOK /\ s \in Proc /\ s # TtyTask /\ TtyTask \in Proc
  BY Constants DEF Base, TypeOK, Pcs
<1>2. pc' = [pc EXCEPT ![s] = b]
  BY DEF Move
<1>3. pc' \in [Proc -> Pcs] /\ pc'[TtyTask] = pc[TtyTask]
  BY <1>1, <1>2
<1> QED
  BY <1>1, <1>3 DEF TaskOK

LEMMA BaseRead ==
  ASSUME Base, NEW s \in Shell, tty_read(s)
  PROVE  Base'
<1>1. TypeOK /\ QueuesOK /\ TaskOK /\ s \in Proc
  BY Constants DEF Base
<1>2. ASSUME NEW t \in Tty, Read_Call(s, t) PROVE Base'
  <2>1. Move(s, "idle", "wait") /\ "wait" \in Pcs /\ str'[TtyTask] = str[TtyTask]
    BY <1>2 DEF Read_Call, Pcs
  <2>2. pc' \in [Proc -> Pcs] /\ TaskOK'
    BY <2>1, ShellMoves
  <2>3. on' \in [Proc -> Tty]
    BY <1>1, <1>2 DEF Read_Call, TypeOK
  <2>4. UNCHANGED <<cook, video, texts, ttydev, str, events, halted>>
    BY <1>2 DEF Read_Call
  <2> QED
    BY <1>1, <2>2, <2>3, <2>4 DEF Base, TypeOK, QueuesOK, cook, video, texts, Pcs
<1>3. ASSUME Read_Wait(s) PROVE Base'
  <2>1. Move(s, "wait", "read") /\ "read" \in Pcs /\ str'[TtyTask] = str[TtyTask]
    BY <1>3 DEF Read_Wait, Pcs
  <2>2. pc' \in [Proc -> Pcs] /\ TaskOK'
    BY <2>1, ShellMoves
  <2>3. cooked' \in [Tty -> Nat]
    <3>1. cooked \in [Tty -> Nat] /\ on[s] \in Tty /\ cooked[on[s]] > 0
      BY <1>1, <1>3 DEF TypeOK, Read_Wait
    <3>2. cooked[on[s]] - 1 \in Nat
      BY <3>1
    <3>3. cooked' = [cooked EXCEPT ![on[s]] = @ - 1]
      BY <1>3 DEF Read_Wait
    <3> QED
      BY <3>1, <3>2, <3>3
  <2>4. UNCHANGED <<queue, out, video, texts, ttydev, on, str, events, halted>>
    BY <1>3 DEF Read_Wait
  <2> QED
    BY <1>1, <2>2, <2>3, <2>4 DEF Base, TypeOK, QueuesOK, video, texts, Pcs
<1>4. ASSUME Read_Take(s) PROVE Base'
  <2> DEFINE t == on[s]
             q == queue[t]
  <2>1. t \in Tty /\ QueueOK(q)
    BY <1>1 DEF TypeOK, QueuesOK
  <2>2. FirstLine(q) \in Text /\ QueueOK(Shorter(q))
    BY <2>1, AnyLine
  <2>3. /\ out' = [out EXCEPT ![t] = Append(@, FirstLine(q))]
        /\ queue' = [queue EXCEPT ![t] = Shorter(q)]
        /\ UNCHANGED <<cooked, video, texts, ttydev, on, str, events, halted>>
        /\ Move(s, "read", "idle")
    BY <1>4 DEF Read_Take, Shorter
  <2> HIDE DEF q, t
  <2>4. out' \in [Tty -> Seq(Seq(AllChar))]
    <3>1. out[t] \in Seq(Text) /\ out \in [Tty -> Seq(Text)]
      BY <1>1, <2>1 DEF TypeOK, Text
    <3>2. Append(out[t], FirstLine(q)) \in Seq(Text)
      BY <2>2, <3>1, AppendProperties
    <3> QED
      BY <2>3, <3>1, <3>2 DEF Text
  <2>5. queue' \in [Tty -> Queue] /\ QueuesOK'
    BY <1>1, <2>2, <2>3 DEF TypeOK, QueuesOK, QueueOK
  <2>6. pc' \in [Proc -> Pcs] /\ TaskOK'
    <3>1. "idle" \in Pcs /\ str'[TtyTask] = str[TtyTask]
      BY <2>3 DEF Pcs
    <3> QED
      BY <2>3, <3>1, ShellMoves
  <2> QED
    BY <1>1, <2>3, <2>4, <2>5, <2>6 DEF Base, TypeOK, video, texts, Pcs
<1> QED
  BY <1>2, <1>3, <1>4 DEF tty_read

LEMMA BaseWriteCall ==
  ASSUME Base, NEW s \in Shell, NEW t \in Tty, Write_Call(s, t)
  PROVE  Base'
<1>1. TypeOK /\ QueuesOK /\ TaskOK /\ s \in Proc /\ s # TtyTask
  BY Constants DEF Base
<1>2. events' \in 0 .. MaxEvents
  <2>1. events \in 0 .. MaxEvents /\ events + 2 <= MaxEvents /\ events' = events + 2 /\ MaxEvents \in Nat
    BY <1>1, Constants DEF Write_Call, TypeOK
  <2> QED
    BY <2>1
<1>3. PICK w \in Output : str' = [str EXCEPT ![s] = w]
  BY DEF Write_Call
<1>4. str' \in [Proc -> Seq(AllChar \cup Control)] /\ str'[TtyTask] = str[TtyTask]
  BY <1>1, <1>3, Constants DEF TypeOK
<1>5. on' \in [Proc -> Tty] /\ UNCHANGED <<cook, video, texts, ttydev, halted>>
  BY <1>1 DEF Write_Call, TypeOK
<1>6. pc' \in [Proc -> Pcs] /\ TaskOK'
  <2>1. Move(s, "idle", "write") /\ "write" \in Pcs
    BY DEF Write_Call, Pcs
  <2> QED
    BY <1>4, <2>1, ShellMoves
<1> QED
  BY <1>1, <1>2, <1>4, <1>5, <1>6 DEF Base, TypeOK, QueuesOK, cook, video, texts, Pcs

\* The window of each terminal shows its tape.
TextsOK == \A t \in Tty : Sim(text[t], Played(output[t]))

LEMMA TextsInit == Init => TextsOK
BY StartSim DEF Init, TextsOK

LEMMA TextsWrite ==
  ASSUME Base, TextsOK, NEW p \in Proc, Write(p)
  PROVE  /\ TextsOK'
         /\ text' \in [Tty -> Screens] /\ output' \in [Tty -> Seq(AllChar \cup Control)]
         /\ \A t \in Tty : t # on[p] => text'[t] = text[t]
<1> DEFINE t == on[p]
           x == text[t]
           o == output[t]
           s == str[p]
<1>1. /\ t \in Tty /\ s \in Seq(AllChar \cup Control) /\ o \in Seq(AllChar \cup Control)
      /\ text \in [Tty -> Screens] /\ output \in [Tty -> Seq(AllChar \cup Control)]
  BY DEF Base, TypeOK, Screens, Glyph
<1>2. Sim(x, Played(o))
  BY <1>1 DEF TextsOK
<1>3. Sim(tty_puts(x, s), Played(o \o s))
  BY <1>1, <1>2, WriteSim
<1>4. o \o s \in Seq(AllChar \cup Control)
  BY <1>1, ConcatProperties
<1>5. text' = [text EXCEPT ![t] = tty_puts(x, s)] /\ output' = [output EXCEPT ![t] = o \o s]
  BY DEF Write
<1>6. tty_puts(x, s) \in Screens
  BY <1>3 DEF Sim
<1> HIDE DEF t, x, o, s
<1>7. text' \in [Tty -> Screens] /\ output' \in [Tty -> Seq(AllChar \cup Control)]
  BY <1>1, <1>4, <1>5, <1>6
<1>8. \A u \in Tty : u # t => text'[u] = text[u] /\ output'[u] = output[u]
  BY <1>1, <1>5
<1>9. text'[t] = tty_puts(x, s) /\ output'[t] = o \o s
  BY <1>1, <1>5
<1>10. \A u \in Tty : Sim(text'[u], Played(output'[u]))
  BY <1>3, <1>8, <1>9 DEF TextsOK
<1>11. TextsOK'
  BY <1>10 DEF TextsOK
<1> QED
  BY <1>7, <1>8, <1>11 DEF t

LEMMA BaseWrite ==
  ASSUME Base, TextsOK, NEW p \in Proc, Write(p)
  PROVE  Base'
<1>1. TypeOK /\ QueuesOK /\ TaskOK
  BY DEF Base
<1>2. text' \in [Tty -> Screens] /\ output' \in [Tty -> Seq(AllChar \cup Control)]
  BY TextsWrite
<1>3. Move(p, "write", "render") /\ str' = [str EXCEPT ![p] = <<>>]
      /\ UNCHANGED <<cook, video, ttydev, on, events, halted>>
  BY DEF Write
<1>4. pc' \in [Proc -> Pcs] /\ (pc'[TtyTask] = "cook" => pc[TtyTask] = "cook" /\ TtyTask # p)
  <2>1. pc \in [Proc -> Pcs] /\ "render" \in Pcs /\ pc' = [pc EXCEPT ![p] = "render"]
    BY <1>1, <1>3 DEF TypeOK, Pcs, Move
  <2> QED
    BY <2>1, Constants
<1>5. str' \in [Proc -> Seq(AllChar \cup Control)] /\ (TtyTask # p => str'[TtyTask] = str[TtyTask])
  <2>1. <<>> \in Seq(AllChar \cup Control)
    OBVIOUS
  <2> QED
    BY <1>1, <1>3, <2>1, Constants DEF TypeOK
<1>6. TaskOK'
  BY <1>1, <1>4, <1>5 DEF TaskOK
<1> QED
  BY <1>1, <1>2, <1>3, <1>4, <1>5, <1>6 DEF Base, TypeOK, QueuesOK, cook, video, Pcs, Screens, Glyph

LEMMA NextCell ==
  ASSUME NEW i \in Place
  PROVE  (i + 1) % size = (IF i = size - 1 THEN 0 ELSE i + 1) /\ (i + 1) % size \in Place
<1>1. i \in Int /\ 0 <= i /\ i < size /\ size \in Nat \ {0}
  BY Sizes
<1>2. i + 1 \in 0 .. 2 * size - 1
  BY <1>1
<1>3. (i + 1) % size = IF i + 1 < size THEN i + 1 ELSE (i + 1) - size
  BY <1>1, <1>2, Wrap
<1>4. (i + 1) % size = IF i = size - 1 THEN 0 ELSE i + 1
  BY <1>1, <1>3
<1> QED
  BY <1>1, <1>4, Sizes

LEMMA BaseRender ==
  ASSUME Base, NEW p \in Proc, tty_render(p)
  PROVE  Base'
<1> DEFINE t == on[p]
           i == cell[p]
<1>1. TypeOK /\ QueuesOK /\ TaskOK /\ t \in Tty /\ i \in Place
  BY DEF Base, TypeOK
<1>2. /\ screen' = fb_write(t, i)
      /\ cell' = [cell EXCEPT ![p] = (i + 1) % size]
      /\ lock' = [lock EXCEPT ![t] = IF i = size - 1 THEN Nobody ELSE p]
      /\ Move(p, "render", IF i = size - 1 THEN "idle" ELSE "render")
      /\ UNCHANGED <<cook, current, texts, ttydev, on, str, events, halted>>
  BY DEF tty_render
<1>3. screen' \in [Place -> Tty \X (Shows \cup {"garbage"})]
  <2>1. text[t] \in Screens /\ screen \in [Place -> Tty \X (Shows \cup {"garbage"})]
    BY <1>1 DEF TypeOK, Screens, Glyph
  <2>2. Cell(text[t], i) \in Shows
    BY <1>1, <2>1 DEF Cell, Shows, Screens, Glyph
  <2> HIDE DEF t, i
  <2>3. <<t, Cell(text[t], i)>> \in Tty \X (Shows \cup {"garbage"})
    BY <1>1, <2>2
  <2> QED
    BY <1>1, <1>2, <2>1, <2>3 DEF fb_write
<1>4. cell' \in [Proc -> Place]
  <2>1. (i + 1) % size \in Place /\ cell \in [Proc -> Place]
    BY <1>1, NextCell DEF TypeOK
  <2> QED
    BY <1>2, <2>1
<1>5. lock' \in [Tty -> Proc \cup {Nobody}]
  BY <1>1, <1>2 DEF TypeOK
<1>6. pc' \in [Proc -> Pcs] /\ (pc'[TtyTask] = "cook" => pc[TtyTask] = "cook")
  <2>1. /\ pc \in [Proc -> Pcs] /\ "render" \in Pcs /\ "idle" \in Pcs
        /\ \E b \in {"idle", "render"} : pc' = [pc EXCEPT ![p] = b]
    BY <1>1, <1>2 DEF TypeOK, Pcs, Move
  <2> QED
    BY <2>1, Constants
<1>7. TaskOK'
  BY <1>1, <1>2, <1>6 DEF TaskOK
<1> QED
  BY <1>1, <1>2, <1>3, <1>4, <1>5, <1>6, <1>7 DEF Base, TypeOK, QueuesOK, cook, texts, Pcs

\* The parts of the state that every proof needs to know of.
Sound == Base /\ TextsOK

LEMMA SoundStep == Sound /\ [Next]_vars => Sound'
<1> SUFFICES ASSUME Sound, [Next]_vars PROVE Sound'
  OBVIOUS
<1>1. Base /\ TextsOK
  BY DEF Sound
<1>2. ASSUME UNCHANGED texts PROVE TextsOK'
  BY <1>1, <1>2 DEF TextsOK, texts
<1>3. CASE Take
  <2>1. UNCHANGED texts
    BY <1>3 DEF Take, Take_Char, Take_Alt
  <2> QED
    BY <1>1, <1>2, <1>3, <2>1, BaseTake DEF Sound
<1>4. CASE tty_cook
  <2>1. UNCHANGED texts
    BY <1>4 DEF tty_cook
  <2> QED
    BY <1>1, <1>2, <1>4, <2>1, BaseCook DEF Sound
<1>5. CASE Switch
  <2>1. UNCHANGED texts
    BY <1>5 DEF Switch
  <2> QED
    BY <1>1, <1>2, <1>5, <2>1, BaseSwitch DEF Sound
<1>6. ASSUME NEW s \in Shell, tty_read(s) PROVE Sound'
  <2>1. UNCHANGED texts
    BY <1>6 DEF tty_read, Read_Call, Read_Wait, Read_Take
  <2> QED
    BY <1>1, <1>2, <1>6, <2>1, BaseRead DEF Sound
<1>7. ASSUME NEW s \in Shell, NEW t \in Tty, Write_Call(s, t) PROVE Sound'
  <2>1. UNCHANGED texts
    BY <1>7 DEF Write_Call
  <2> QED
    BY <1>1, <1>2, <1>7, <2>1, BaseWriteCall DEF Sound
<1>8. ASSUME NEW p \in Proc, Write(p) PROVE Sound'
  BY <1>1, <1>8, BaseWrite, TextsWrite DEF Sound
<1>9. ASSUME NEW p \in Proc, tty_render(p) PROVE Sound'
  <2>1. UNCHANGED texts
    BY <1>9 DEF tty_render
  <2> QED
    BY <1>1, <1>2, <1>9, <2>1, BaseRender DEF Sound
<1>10. CASE UNCHANGED vars
  BY <1>1, <1>10 DEF Sound, Base, TypeOK, QueuesOK, TaskOK, TextsOK, vars, cook, video, texts
<1> QED
  BY <1>3, <1>4, <1>5, <1>6, <1>7, <1>8, <1>9, <1>10 DEF Next, tty_task

LEMMA SoundInit == Init => Sound
BY BaseInit, TextsInit DEF Sound

\* Every variable keeps its type, whatever keys are typed.
THEOREM TypeCorrect == Spec => []TypeOK
<1>1. Sound => TypeOK
  BY DEF Sound, Base
<1> QED
  BY <1>1, SoundInit, SoundStep, PTL DEF Spec

\* The window of each terminal shows its text, after any output and through
\* any scrolling by tty_upd_scrollup.
THEOREM WindowsShowText == Spec => []ShowsText
<1>1. Sound => ShowsText
  BY SimShows DEF Sound, TextsOK, ShowsText
<1> QED
  BY <1>1, SoundInit, SoundStep, PTL DEF Spec

----------------------------------------------------------------------------
(* cooked and the lines.                                                   *)

\* The readers that passed tty->cooked and have not taken their line.
Claimants(t) == {s \in Shell : pc[s] = "read" /\ on[s] = t}

Agree == \A t \in Tty : /\ IsFiniteSet(Claimants(t))
                        /\ cooked[t] + Cardinality(Claimants(t)) = Cardinality(Ends(Contents(queue[t])))

LEMMA AgreeInit == Init => Agree
<1> SUFFICES ASSUME Init, NEW t \in Tty
             PROVE  /\ IsFiniteSet(Claimants(t))
                    /\ cooked[t] + Cardinality(Claimants(t)) = Cardinality(Ends(Contents(queue[t])))
  BY DEF Agree
<1>1. Claimants(t) = {}
  BY Constants DEF Init, Claimants
<1>2. queue[t].front = 0 /\ queue[t].rear = 0 /\ queue[t] \in Queue
  BY SoundInit DEF Init, Sound, Base, TypeOK
<1>3. Ends(Contents(queue[t])) = {}
  <2>1. Span(0, 0) = 0
    BY <1>2, SpanIs, QueueTypes
  <2>2. Contents(queue[t]) \in Text /\ Len(Contents(queue[t])) = 0
    BY <1>2, <2>1, ContentsAre
  <2> QED
    BY <2>2, EndsFinite
<1>4. cooked[t] = 0
  BY DEF Init
<1> QED
  BY <1>1, <1>3, <1>4, FS_EmptySet

\* The moves that make or drop no claim.
LEMMA NoClaim ==
  ASSUME Sound, NEW p \in Proc, NEW a, NEW b, Move(p, a, b), a # "read", b # "read",
         on' = on \/ \E u \in Tty : on' = [on EXCEPT ![p] = u]
  PROVE  \A t \in Tty : Claimants(t)' = Claimants(t)
<1>1. pc \in [Proc -> Pcs] /\ on \in [Proc -> Tty] /\ \A s \in Shell : s \in Proc
  BY Constants DEF Sound, Base, TypeOK, Pcs
<1>2. pc[p] = a /\ pc' = [pc EXCEPT ![p] = b]
  BY DEF Move
<1>3. ASSUME NEW s \in Shell
      PROVE  (pc'[s] = "read" <=> pc[s] = "read") /\ (pc[s] = "read" => on'[s] = on[s])
  <2>1. CASE s = p
    BY <1>1, <1>2, <2>1
  <2>2. CASE s # p
    BY <1>1, <1>2, <2>2
  <2> QED
    BY <2>1, <2>2
<1> QED
  BY <1>3 DEF Claimants

\* The state's part in Agree, of one terminal.
LEMMA AgreeKept ==
  ASSUME Sound, Agree, UNCHANGED <<queue, cooked>>, \A t \in Tty : Claimants(t)' = Claimants(t)
  PROVE  Agree'
<1>1. ASSUME NEW t \in Tty
      PROVE  /\ IsFiniteSet(Claimants(t)')
             /\ cooked'[t] + Cardinality(Claimants(t)') = Cardinality(Ends(Contents(queue'[t])))
  BY DEF Agree
<1> QED
  BY <1>1 DEF Agree

LEMMA AgreeCook ==
  ASSUME "nul" \notin Char, Sound, Agree, tty_cook
  PROVE  Agree'
<1> DEFINE t == on[TtyTask]
           q == queue[t]
           c == Head(str[TtyTask])
<1>1. TypeOK /\ QueuesOK /\ TaskOK /\ pc[TtyTask] = "cook"
  BY DEF Sound, Base, tty_cook
<1>2. t \in Tty /\ c \in AllChar /\ c # "nul" /\ QueueOK(q)
  BY <1>1, Constants DEF TypeOK, QueuesOK, TaskOK
<1>3. \A u \in Tty : Claimants(u)' = Claimants(u)
  <2>1. /\ TtyTask \in Proc /\ on' = on
        /\ \E b \in {"idle", "write"} : Move(TtyTask, "cook", b)
    BY Constants DEF tty_cook
  <2> QED
    BY <2>1, NoClaim
<1>4. CASE Panics(q, c)
  BY <1>3, <1>4, AgreeKept DEF tty_cook, cook
<1>5. CASE ~Panics(q, c)
  <2> DEFINE s == Contents(q)
             v == Contents(Cooked(q, c))
  <2>1. /\ queue' = [queue EXCEPT ![t] = Cooked(q, c)]
        /\ cooked' = [cooked EXCEPT ![t] = IF c = "enter" THEN cooked[t] + 1 ELSE cooked[t]]
    BY <1>5 DEF tty_cook
  <2>2. /\ c = "enter" => Cardinality(Ends(v)) = Cardinality(Ends(s)) + 1
        /\ c # "enter" => Ends(v) = Ends(s)
    BY <1>2, <1>5, CookLines
  <2>3. queue \in [Tty -> Queue] /\ cooked \in [Tty -> Nat]
    BY <1>1 DEF TypeOK
  <2> HIDE DEF t, q, c
  <2>4. ASSUME NEW u \in Tty
        PROVE  /\ IsFiniteSet(Claimants(u)')
               /\ cooked'[u] + Cardinality(Claimants(u)') = Cardinality(Ends(Contents(queue'[u])))
    <3>1. /\ IsFiniteSet(Claimants(u)) /\ Claimants(u)' = Claimants(u)
          /\ cooked[u] + Cardinality(Claimants(u)) = Cardinality(Ends(Contents(queue[u])))
      BY <1>3 DEF Agree
    <3>2. CASE u # t
      BY <2>1, <2>3, <3>1, <3>2
    <3>3. CASE u = t
      <4>1. queue'[u] = Cooked(q, c) /\ cooked'[u] = IF c = "enter" THEN cooked[u] + 1 ELSE cooked[u]
        BY <2>1, <2>3, <3>3
      <4>2. cooked[u] \in Nat /\ Cardinality(Claimants(u)) \in Nat
        BY <2>3, <3>1, FS_CardinalityType
      <4>3. cooked[u] + Cardinality(Claimants(u)) = Cardinality(Ends(s))
        BY <3>1, <3>3 DEF q
      <4>4. cooked'[u] + Cardinality(Claimants(u)) = Cardinality(Ends(v))
        <5>1. CASE c = "enter"
          BY <2>2, <4>1, <4>2, <4>3, <5>1
        <5>2. CASE c # "enter"
          BY <2>2, <4>1, <4>3, <5>2
        <5> QED
          BY <5>1, <5>2
      <4> QED
        BY <3>1, <4>1, <4>4
    <3> QED
      BY <3>2, <3>3
  <2> QED
    BY <2>4 DEF Agree
<1> QED
  BY <1>4, <1>5

\* A claim is made of a line that is counted.
LEMMA AgreeWait ==
  ASSUME Sound, Agree, NEW r \in Shell, Read_Wait(r)
  PROVE  Agree'
<1> DEFINE t == on[r]
<1>1. /\ TypeOK /\ r \in Proc /\ t \in Tty /\ cooked \in [Tty -> Nat] /\ pc \in [Proc -> Pcs]
      /\ \A s \in Shell : s \in Proc
  BY Constants DEF Sound, Base, TypeOK, Pcs
<1>2. /\ pc[r] = "wait" /\ pc' = [pc EXCEPT ![r] = "read"] /\ on' = on /\ queue' = queue
      /\ cooked[t] > 0 /\ cooked' = [cooked EXCEPT ![t] = cooked[t] - 1]
  BY DEF Read_Wait, Move
<1>3. \A u \in Tty : u = t => Claimants(u)' = Claimants(u) \cup {r} /\ r \notin Claimants(u)
  BY <1>1, <1>2 DEF Claimants
<1>4. \A u \in Tty : u # t => Claimants(u)' = Claimants(u)
  BY <1>1, <1>2 DEF Claimants
<1> HIDE DEF t
<1>5. ASSUME NEW u \in Tty
      PROVE  /\ IsFiniteSet(Claimants(u)')
             /\ cooked'[u] + Cardinality(Claimants(u)') = Cardinality(Ends(Contents(queue'[u])))
  <2>1. /\ IsFiniteSet(Claimants(u)) /\ Cardinality(Claimants(u)) \in Nat
        /\ cooked[u] + Cardinality(Claimants(u)) = Cardinality(Ends(Contents(queue[u])))
    BY FS_CardinalityType DEF Agree
  <2>2. CASE u # t
    BY <1>1, <1>2, <1>4, <2>1, <2>2
  <2>3. CASE u = t
    <3>1. /\ IsFiniteSet(Claimants(u) \cup {r})
          /\ Cardinality(Claimants(u) \cup {r}) = Cardinality(Claimants(u)) + 1
      BY <1>3, <2>1, <2>3, FS_AddElement
    <3>2. cooked'[u] = cooked[u] - 1 /\ cooked[u] \in Nat
      BY <1>1, <1>2, <2>3
    <3>3. (cooked[u] - 1) + (Cardinality(Claimants(u)) + 1) = cooked[u] + Cardinality(Claimants(u))
      BY <2>1, <3>2
    <3> QED
      BY <1>2, <1>3, <2>1, <2>3, <3>1, <3>2, <3>3
  <2> QED
    BY <2>2, <2>3
<1> QED
  BY <1>5 DEF Agree

\* Who has a claim finds a line.
LEMMA ClaimHasLine ==
  ASSUME Sound, Agree, NEW r \in Shell, pc[r] = "read"
  PROVE  /\ on[r] \in Tty /\ QueueOK(queue[on[r]]) /\ Ends(Contents(queue[on[r]])) # {}
         /\ r \in Claimants(on[r])
<1>1. r \in Proc /\ on[r] \in Tty /\ QueueOK(queue[on[r]]) /\ cooked[on[r]] \in Nat
  BY Constants DEF Sound, Base, TypeOK, QueuesOK
<1>2. r \in Claimants(on[r])
  BY <1>1 DEF Claimants
<1>3. /\ IsFiniteSet(Claimants(on[r]))
      /\ cooked[on[r]] + Cardinality(Claimants(on[r])) = Cardinality(Ends(Contents(queue[on[r]])))
  BY <1>1 DEF Agree
<1>4. Cardinality(Claimants(on[r])) > 0
  BY <1>2, <1>3, FS_EmptySet, FS_CardinalityType
<1>5. Ends(Contents(queue[on[r]])) # {}
  BY <1>1, <1>3, <1>4, FS_EmptySet, FS_CardinalityType
<1> QED
  BY <1>1, <1>2, <1>5

LEMMA AgreeTake ==
  ASSUME Sound, Agree, NEW r \in Shell, Read_Take(r)
  PROVE  Agree'
<1> DEFINE t == on[r]
           q == queue[t]
<1>1. /\ r \in Proc /\ cooked \in [Tty -> Nat] /\ queue \in [Tty -> Queue] /\ pc \in [Proc -> Pcs]
      /\ \A s \in Shell : s \in Proc
  BY Constants DEF Sound, Base, TypeOK, Pcs
<1>2. /\ pc[r] = "read" /\ pc' = [pc EXCEPT ![r] = "idle"] /\ on' = on /\ cooked' = cooked
      /\ queue' = [queue EXCEPT ![t] = Shorter(q)]
  BY DEF Read_Take, Move, Shorter
<1>3. t \in Tty /\ QueueOK(q) /\ Ends(Contents(q)) # {} /\ r \in Claimants(t)
  BY <1>2, ClaimHasLine
<1>4. /\ Cardinality(Ends(Contents(q))) > 0
      /\ Cardinality(Ends(Contents(Shorter(q)))) = Cardinality(Ends(Contents(q))) - 1
  BY <1>3, TakeLine
<1>5. \A u \in Tty : u = t => Claimants(u)' = Claimants(u) \ {r}
  BY <1>1, <1>2 DEF Claimants
<1>6. \A u \in Tty : u # t => Claimants(u)' = Claimants(u)
  BY <1>1, <1>2 DEF Claimants
<1> HIDE DEF t, q
<1>7. ASSUME NEW u \in Tty
      PROVE  /\ IsFiniteSet(Claimants(u)')
             /\ cooked'[u] + Cardinality(Claimants(u)') = Cardinality(Ends(Contents(queue'[u])))
  <2>1. /\ IsFiniteSet(Claimants(u)) /\ Cardinality(Claimants(u)) \in Nat
        /\ cooked[u] + Cardinality(Claimants(u)) = Cardinality(Ends(Contents(queue[u])))
    BY FS_CardinalityType DEF Agree
  <2>2. CASE u # t
    BY <1>1, <1>2, <1>6, <2>1, <2>2
  <2>3. CASE u = t
    <3>1. /\ IsFiniteSet(Claimants(u) \ {r})
          /\ Cardinality(Claimants(u) \ {r}) = Cardinality(Claimants(u)) - 1
      BY <1>3, <2>1, <2>3, FS_RemoveElement
    <3>2. cooked[u] \in Nat /\ queue'[u] = Shorter(q)
      BY <1>1, <1>2, <2>3
    <3>3. Cardinality(Ends(Contents(q))) = cooked[u] + Cardinality(Claimants(u))
      BY <2>1, <2>3 DEF q
    <3>4. cooked[u] + (Cardinality(Claimants(u)) - 1) = Cardinality(Ends(Contents(Shorter(q))))
      BY <1>4, <2>1, <3>2, <3>3
    <3> QED
      BY <1>2, <1>5, <2>3, <3>1, <3>2, <3>4
  <2> QED
    BY <2>2, <2>3
<1> QED
  BY <1>7 DEF Agree

\* With no key for the character 0, each step keeps the count.
LEMMA AgreeStep ==
  ASSUME "nul" \notin Char
  PROVE  Sound /\ Agree /\ [Next]_vars => Agree'
<1> SUFFICES ASSUME Sound, Agree, [Next]_vars PROVE Agree'
  OBVIOUS
<1>1. CASE Take
  <2>1. PICK b \in {"cook", "switch"} : Move(TtyTask, "idle", b) /\ \E u \in Tty : on' = [on EXCEPT ![TtyTask] = u]
    <3>1. ttydev \in Tty
      BY DEF Sound, Base, TypeOK
    <3> QED
      BY <1>1, <3>1 DEF Take, Take_Char, Take_Alt
  <2>2. \A t \in Tty : Claimants(t)' = Claimants(t)
    BY <2>1, NoClaim, Constants
  <2>3. UNCHANGED <<queue, cooked>>
    BY <1>1 DEF Take, Take_Char, Take_Alt, cook
  <2> QED
    BY <2>2, <2>3, AgreeKept
<1>2. CASE tty_cook
  BY <1>2, AgreeCook
<1>3. CASE Switch
  <2>1. \A t \in Tty : Claimants(t)' = Claimants(t)
    BY <1>3, NoClaim, Constants DEF Switch
  <2> QED
    BY <1>3, <2>1, AgreeKept DEF Switch, cook
<1>4. ASSUME NEW s \in Shell, tty_read(s) PROVE Agree'
  <2>1. ASSUME NEW u \in Tty, Read_Call(s, u) PROVE Agree'
    <3>1. \A t \in Tty : Claimants(t)' = Claimants(t)
      BY <2>1, NoClaim, Constants DEF Read_Call
    <3> QED
      BY <2>1, <3>1, AgreeKept DEF Read_Call, cook
  <2> QED
    BY <1>4, <2>1, AgreeWait, AgreeTake DEF tty_read
<1>5. ASSUME NEW s \in Shell, NEW u \in Tty, Write_Call(s, u) PROVE Agree'
  <2>1. \A t \in Tty : Claimants(t)' = Claimants(t)
    BY <1>5, NoClaim, Constants DEF Write_Call
  <2> QED
    BY <1>5, <2>1, AgreeKept DEF Write_Call, cook
<1>6. ASSUME NEW p \in Proc, Write(p) PROVE Agree'
  <2>1. \A t \in Tty : Claimants(t)' = Claimants(t)
    BY <1>6, NoClaim DEF Write
  <2> QED
    BY <1>6, <2>1, AgreeKept DEF Write, cook
<1>7. ASSUME NEW p \in Proc, tty_render(p) PROVE Agree'
  <2>1. PICK b \in {"idle", "render"} : Move(p, "render", b) /\ on' = on
    BY <1>7 DEF tty_render
  <2>2. \A t \in Tty : Claimants(t)' = Claimants(t)
    BY <2>1, NoClaim
  <2> QED
    BY <1>7, <2>2, AgreeKept DEF tty_render, cook
<1>8. CASE UNCHANGED vars
  <2>1. \A t \in Tty : Claimants(t)' = Claimants(t)
    BY <1>8 DEF Claimants, vars
  <2> QED
    BY <1>8, <2>1, AgreeKept DEF vars, cook
<1> QED
  BY <1>1, <1>2, <1>3, <1>4, <1>5, <1>6, <1>7, <1>8 DEF Next, tty_task

\* cooked counts the lines that no reader has a claim to, with any programs
\* reading and any keys typed, but for shift and return, which types the
\* character 0 and completes a line without a count.
THEOREM CookedCounts ==
  ASSUME "nul" \notin Char
  PROVE  Spec => []CookedAgree
<1>1. Sound /\ Agree => CookedAgree
  BY DEF Sound, Base, Agree, CookedAgree, Claims, Claimants
<1>2. Init => Sound /\ Agree
  BY SoundInit, AgreeInit
<1>3. (Sound /\ Agree) /\ [Next]_vars => (Sound /\ Agree)'
  BY SoundStep, AgreeStep
<1> QED
  BY <1>1, <1>2, <1>3, PTL DEF Spec

----------------------------------------------------------------------------
(* The screen.                                                             *)

\* Process p is about to draw cell i of the display.
Draws(p, i) == on[p] = current /\ (pc[p] = "write" \/ (pc[p] = "render" /\ cell[p] <= i))
UpToDate(i)   == screen[i] = <<current, Cell(text[current], i)>>

\* The display is tty_task's terminal, once it has switched, and each cell of
\* the screen shows that terminal's or is about to be drawn.
Drawn == /\ pc[TtyTask] # "switch" => current = ttydev
         /\ pc[TtyTask] = "switch" => on[TtyTask] = ttydev
         /\ \A p \in Proc : pc[p] # "render" => cell[p] = 0
         /\ \A i \in Place : UpToDate(i) \/ \E p \in Proc : Draws(p, i)

LEMMA DrawnInit == Init => Drawn
<1> SUFFICES ASSUME Init PROVE Drawn
  OBVIOUS
<1>1. /\ pc[TtyTask] = "render" /\ on[TtyTask] = current /\ cell[TtyTask] = 0 /\ current = ttydev
      /\ TtyTask \in Proc /\ \A p \in Proc : cell[p] = 0
  BY Constants DEF Init
<1>2. \A i \in Place : Draws(TtyTask, i)
  BY <1>1, Sizes DEF Draws
<1> QED
  BY <1>1, <1>2 DEF Drawn

\* The moves that neither write nor draw, of processes that do neither.
LEMMA DrawnIdle ==
  ASSUME Sound, Drawn, NEW p \in Proc, NEW a, NEW b, Move(p, a, b),
         a \notin {"write", "render"}, b # "render",
         on' = on \/ \E u \in Tty : on' = [on EXCEPT ![p] = u],
         UNCHANGED <<video, text>>
  PROVE  /\ \A r \in Proc : pc'[r] # "render" => cell'[r] = 0
         /\ \A i \in Place : UpToDate(i)' \/ \E r \in Proc : Draws(r, i)'
<1>1. pc \in [Proc -> Pcs] /\ on \in [Proc -> Tty]
  BY DEF Sound, Base, TypeOK, Pcs
<1>2. pc[p] = a /\ pc' = [pc EXCEPT ![p] = b] /\ screen' = screen /\ current' = current /\ cell' = cell /\ text' = text
  BY DEF Move, video
<1>3. ASSUME NEW r \in Proc PROVE pc'[r] # "render" => cell'[r] = 0
  BY <1>1, <1>2 DEF Drawn
<1>4. ASSUME NEW r \in Proc, NEW i \in Place, Draws(r, i) PROVE Draws(r, i)'
  <2>1. r # p
    BY <1>2, <1>4 DEF Draws
  <2>2. pc'[r] = pc[r] /\ on'[r] = on[r]
    BY <1>1, <1>2, <2>1
  <2> QED
    BY <1>2, <1>4, <2>2 DEF Draws
<1>5. ASSUME NEW i \in Place PROVE UpToDate(i)' \/ \E r \in Proc : Draws(r, i)'
  <2>1. UpToDate(i) => UpToDate(i)'
    BY <1>2 DEF UpToDate
  <2> QED
    BY <1>4, <2>1 DEF Drawn
<1> QED
  BY <1>3, <1>5

\* What such a move of a program leaves of tty_task.
LEMMA DrawnShell ==
  ASSUME Sound, Drawn, NEW p \in Shell, NEW a, NEW b, Move(p, a, b),
         a \notin {"write", "render"}, b # "render",
         on' = on \/ \E u \in Tty : on' = [on EXCEPT ![p] = u],
         UNCHANGED <<video, text, ttydev>>
  PROVE  Drawn'
<1>1. /\ pc \in [Proc -> Pcs] /\ on \in [Proc -> Tty]
      /\ p \in Proc /\ p # TtyTask /\ TtyTask \in Proc
  BY Constants DEF Sound, Base, TypeOK, Pcs
<1>2. pc'[TtyTask] = pc[TtyTask] /\ on'[TtyTask] = on[TtyTask] /\ current' = current /\ ttydev' = ttydev
  BY <1>1 DEF Move, video
<1>3. /\ \A r \in Proc : pc'[r] # "render" => cell'[r] = 0
      /\ \A i \in Place : UpToDate(i)' \/ \E r \in Proc : Draws(r, i)'
  BY <1>1, DrawnIdle
<1> QED
  BY <1>2, <1>3 DEF Drawn

LEMMA DrawnTask ==
  ASSUME Sound, Drawn, Take \/ tty_cook
  PROVE  Drawn'
<1>1. /\ pc \in [Proc -> Pcs] /\ on \in [Proc -> Tty] /\ TtyTask \in Proc /\ ttydev \in Tty
  BY Constants DEF Sound, Base, TypeOK, Pcs
<1>2. ASSUME NEW a, NEW b, Move(TtyTask, a, b), a \notin {"write", "render", "switch"}, b # "render",
             on' = on \/ \E u \in Tty : on' = [on EXCEPT ![TtyTask] = u],
             UNCHANGED <<video, text>>,
             \/ b # "switch" /\ ttydev' = ttydev
             \/ b = "switch" /\ on'[TtyTask] = ttydev'
      PROVE  Drawn'
  <2>1. /\ \A r \in Proc : pc'[r] # "render" => cell'[r] = 0
        /\ \A i \in Place : UpToDate(i)' \/ \E r \in Proc : Draws(r, i)'
    BY <1>1, <1>2, DrawnIdle
  <2>2. pc[TtyTask] = a /\ pc'[TtyTask] = b /\ current' = current /\ current = ttydev
    BY <1>1, <1>2 DEF Move, video, Drawn
  <2> QED
    BY <1>2, <2>1, <2>2 DEF Drawn
<1>3. ASSUME NEW c \in Char, Take_Char(c) PROVE Drawn'
  <2>1. /\ Move(TtyTask, "idle", "cook") /\ on' = [on EXCEPT ![TtyTask] = ttydev]
        /\ UNCHANGED <<video, text>> /\ ttydev' = ttydev
    BY <1>3 DEF Take_Char, texts
  <2> QED
    BY <1>1, <1>2, <2>1
<1>4. ASSUME NEW t \in Tty, Take_Alt(t) PROVE Drawn'
  <2>1. /\ Move(TtyTask, "idle", "switch") /\ on' = [on EXCEPT ![TtyTask] = t]
        /\ UNCHANGED <<video, text>> /\ on'[TtyTask] = ttydev'
    BY <1>1, <1>4 DEF Take_Alt, texts
  <2> QED
    BY <1>2, <2>1
<1>5. CASE tty_cook
  <2>1. /\ \E b \in {"idle", "write"} : Move(TtyTask, "cook", b)
        /\ on' = on /\ UNCHANGED <<video, text>> /\ ttydev' = ttydev
    BY <1>5 DEF tty_cook, texts
  <2> QED
    BY <1>2, <2>1
<1> QED
  BY <1>3, <1>4, <1>5 DEF Take

LEMMA DrawnSwitch ==
  ASSUME Sound, Drawn, Switch
  PROVE  Drawn'
<1>1. pc \in [Proc -> Pcs] /\ TtyTask \in Proc
  BY Constants DEF Sound, Base, TypeOK, Pcs
<1>2. /\ pc[TtyTask] = "switch" /\ pc' = [pc EXCEPT ![TtyTask] = "write"] /\ current' = on[TtyTask]
      /\ UNCHANGED <<cell, on, ttydev>>
  BY DEF Switch, Move
<1>3. pc'[TtyTask] = "write" /\ on'[TtyTask] = current' /\ current' = ttydev'
  BY <1>1, <1>2 DEF Drawn
<1>4. ASSUME NEW i \in Place, NEW r \in Proc, r = TtyTask PROVE Draws(r, i)'
  BY <1>3, <1>4 DEF Draws
<1>5. \A r \in Proc : pc'[r] # "render" => cell'[r] = 0
  BY <1>1, <1>2 DEF Drawn
<1> QED
  BY <1>1, <1>3, <1>4, <1>5 DEF Drawn

\* A write to the display is drawn by the render that follows it.
LEMMA DrawnWrite ==
  ASSUME Sound, Drawn, NEW p \in Proc, Write(p)
  PROVE  Drawn'
<1>1. pc \in [Proc -> Pcs] /\ TtyTask \in Proc /\ current \in Tty
  BY Constants DEF Sound, Base, TypeOK, Pcs
<1>2. /\ pc[p] = "write" /\ pc' = [pc EXCEPT ![p] = "render"]
      /\ UNCHANGED <<screen, current, cell, on, ttydev>>
  BY DEF Write, Move, video
<1>3. \A t \in Tty : t # on[p] => text'[t] = text[t]
  BY TextsWrite DEF Sound
<1>4. pc'[p] = "render" /\ \A r \in Proc : r # p => pc'[r] = pc[r]
  BY <1>1, <1>2
<1>5. cell[p] = 0
  BY <1>2 DEF Drawn
<1>6. ASSUME NEW i \in Place PROVE UpToDate(i)' \/ \E r \in Proc : Draws(r, i)'
  <2>1. CASE on[p] = current
    <3>1. cell'[p] <= i
      BY <1>2, <1>5, Sizes
    <3> QED
      BY <1>2, <1>4, <2>1, <3>1 DEF Draws
  <2>2. CASE on[p] # current
    <3>1. UpToDate(i) => UpToDate(i)'
      BY <1>1, <1>2, <1>3, <2>2 DEF UpToDate
    <3>2. ASSUME NEW r \in Proc, Draws(r, i) PROVE Draws(r, i)'
      <4>1. r # p
        BY <2>2, <3>2 DEF Draws
      <4> QED
        BY <1>2, <1>4, <3>2, <4>1 DEF Draws
    <3> QED
      BY <3>1, <3>2 DEF Drawn
  <2> QED
    BY <2>1, <2>2
<1>7. \A r \in Proc : pc'[r] # "render" => cell'[r] = 0
  BY <1>2, <1>4 DEF Drawn
<1>8. (pc'[TtyTask] = "switch" <=> pc[TtyTask] = "switch")
  BY <1>1, <1>2, <1>4
<1> QED
  BY <1>2, <1>6, <1>7, <1>8 DEF Drawn

\* A render draws the cells in their order, if its terminal is shown.
LEMMA DrawnRender ==
  ASSUME Sound, Drawn, NEW p \in Proc, tty_render(p)
  PROVE  Drawn'
<1> DEFINE t == on[p]
           j == cell[p]
           last == j = size - 1
<1>1. /\ pc \in [Proc -> Pcs] /\ TtyTask \in Proc /\ current \in Tty /\ j \in Place
      /\ cell \in [Proc -> Place] /\ DOMAIN screen = Place
  BY Constants DEF Sound, Base, TypeOK, Pcs
<1>2. /\ screen' = fb_write(t, j) /\ cell' = [cell EXCEPT ![p] = (j + 1) % size]
      /\ pc[p] = "render" /\ pc' = [pc EXCEPT ![p] = IF last THEN "idle" ELSE "render"]
      /\ UNCHANGED <<current, on, ttydev, text>>
  BY DEF tty_render, Move, texts
<1>3. (j + 1) % size = (IF last THEN 0 ELSE j + 1)
  BY <1>1, NextCell
<1>4. /\ cell'[p] = (IF last THEN 0 ELSE j + 1)
      /\ pc'[p] = (IF last THEN "idle" ELSE "render")
      /\ \A r \in Proc : r # p => pc'[r] = pc[r] /\ cell'[r] = cell[r]
  BY <1>1, <1>2, <1>3
<1>5. \A r \in Proc : pc'[r] # "render" => cell'[r] = 0
  BY <1>4 DEF Drawn
<1>6. (pc'[TtyTask] = "switch" <=> pc[TtyTask] = "switch")
  BY <1>1, <1>2, <1>4
<1>7. ASSUME NEW i \in Place, i # j PROVE UpToDate(i)' \/ \E r \in Proc : Draws(r, i)'
  <2>1. UpToDate(i) => UpToDate(i)'
    <3>1. screen'[i] = screen[i]
      BY <1>1, <1>2, <1>7 DEF fb_write
    <3> QED
      BY <1>2, <3>1 DEF UpToDate
  <2>2. ASSUME NEW r \in Proc, Draws(r, i) PROVE Draws(r, i)'
    <3>1. CASE r # p
      BY <1>2, <1>4, <2>2, <3>1 DEF Draws
    <3>2. CASE r = p
      <4>1. j <= i /\ on[p] = current
        BY <1>2, <2>2, <3>2 DEF Draws
      <4>2. ~last /\ j + 1 <= i
        BY <1>1, <1>7, <4>1, Sizes
      <4> QED
        BY <1>2, <1>4, <3>2, <4>1, <4>2 DEF Draws
    <3> QED
      BY <3>1, <3>2
  <2> QED
    BY <2>1, <2>2 DEF Drawn
<1>8. ASSUME NEW i \in Place, i = j PROVE UpToDate(i)' \/ \E r \in Proc : Draws(r, i)'
  <2>1. CASE t = current
    <3>1. screen'[i] = <<current, Cell(text[current], i)>>
      BY <1>1, <1>2, <1>8, <2>1 DEF fb_write
    <3> QED
      BY <1>2, <3>1 DEF UpToDate
  <2>2. CASE t # current
    <3>1. screen' = screen
      BY <1>2, <2>2 DEF fb_write
    <3>2. UpToDate(i) => UpToDate(i)'
      BY <1>2, <3>1 DEF UpToDate
    <3>3. ASSUME NEW r \in Proc, Draws(r, i) PROVE Draws(r, i)'
      <4>1. r # p
        BY <2>2, <3>3 DEF Draws
      <4> QED
        BY <1>2, <1>4, <3>3, <4>1 DEF Draws
    <3> QED
      BY <3>2, <3>3 DEF Drawn
  <2> QED
    BY <2>1, <2>2
<1> QED
  BY <1>2, <1>5, <1>6, <1>7, <1>8 DEF Drawn

LEMMA DrawnStep == Sound /\ Drawn /\ [Next]_vars => Drawn'
<1> SUFFICES ASSUME Sound, Drawn, [Next]_vars PROVE Drawn'
  OBVIOUS
<1>1. ASSUME NEW s \in Shell, tty_read(s) PROVE Drawn'
  <2>1. ASSUME NEW t \in Tty, Read_Call(s, t) PROVE Drawn'
    BY <2>1, DrawnShell DEF Read_Call, texts
  <2>2. ASSUME Read_Wait(s) PROVE Drawn'
    BY <2>2, DrawnShell DEF Read_Wait, texts
  <2>3. ASSUME Read_Take(s) PROVE Drawn'
    BY <2>3, DrawnShell DEF Read_Take, texts
  <2> QED
    BY <1>1, <2>1, <2>2, <2>3 DEF tty_read
<1>2. ASSUME NEW s \in Shell, NEW t \in Tty, Write_Call(s, t) PROVE Drawn'
  BY <1>2, DrawnShell DEF Write_Call, texts
<1>3. CASE UNCHANGED vars
  <2>1. UNCHANGED <<pc, on, cell, current, ttydev, screen, text>>
    BY <1>3 DEF vars, video, texts
  <2>2. \A i \in Place : UpToDate(i)' = UpToDate(i) /\ \A p \in Proc : Draws(p, i)' = Draws(p, i)
    BY <2>1 DEF UpToDate, Draws
  <2> QED
    BY <2>1, <2>2 DEF Drawn
<1> QED
  BY <1>1, <1>2, <1>3, DrawnTask, DrawnSwitch, DrawnWrite, DrawnRender DEF Next, tty_task

\* With nobody between a write or a switch and the end of its render, the
\* screen shows all of the terminal the keys go to, and nothing else: for any
\* terminals, programs and size of the screen, and through the renders of
\* other terminals that the frame buffer cuts short or lets through.
THEOREM ScreenSettles == Spec => []Settled
<1>1. Sound /\ Drawn => Settled
  <2> SUFFICES ASSUME Drawn, \A p \in Proc : pc[p] \notin {"switch", "write", "render"}, NEW i \in Place
               PROVE  screen[i] = <<ttydev, Cell(text[ttydev], i)>>
    BY DEF Settled
  <2>1. current = ttydev
    BY Constants DEF Drawn
  <2>2. \A p \in Proc : ~Draws(p, i)
    BY DEF Draws
  <2> QED
    BY <2>1, <2>2 DEF Drawn, UpToDate
<1>2. Init => Sound /\ Drawn
  BY SoundInit, DrawnInit
<1>3. (Sound /\ Drawn) /\ [Next]_vars => (Sound /\ Drawn)'
  BY SoundStep, DrawnStep
<1> QED
  BY <1>1, <1>2, <1>3, PTL DEF Spec

----------------------------------------------------------------------------
(* The lines.                                                              *)

LEMMA LinesInit == Init => Line!Init
<1> SUFFICES ASSUME Init PROVE Line!Init
  OBVIOUS
<1>1. ASSUME NEW t \in Tty
      PROVE  Completed(Contents(queue[t])) = <<>> /\ Unfinished(Contents(queue[t])) = <<>>
  <2> DEFINE s == Contents(queue[t])
  <2>1. queue[t].front = 0 /\ queue[t].rear = 0 /\ queue[t] \in Queue
    BY SoundInit DEF Init, Sound, Base, TypeOK
  <2>2. Span(0, 0) = 0
    BY <2>1, SpanIs, QueueTypes
  <2>3. s \in Text /\ Len(s) = 0
    BY <2>1, <2>2, ContentsAre
  <2> HIDE DEF s
  <2>4. Ends(s) = {}
    BY <2>3, EndsFinite
  <2>5. Cardinality(Ends(s)) = 0 /\ End(s, 0) = 0
    BY <2>4, FS_EmptySet DEF End
  <2>6. Len(Completed(s)) = 0 /\ Completed(s) \in Seq(Text) /\ Len(Unfinished(s)) = 0 /\ Unfinished(s) \in Seq(AllChar)
    <3>1. /\ Completed(s) \in Seq(Text) /\ Len(Completed(s)) = Cardinality(Ends(s)) /\ Unfinished(s) \in Text
          /\ Len(Unfinished(s)) = Len(s) - End(s, Cardinality(Ends(s)))
      BY <2>3, LinesType
    <3>2. Len(s) - End(s, Cardinality(Ends(s))) = 0
      BY <2>3, <2>5
    <3> QED
      BY <2>5, <3>1, <3>2 DEF Text
  <2>7. Completed(s) = <<>> /\ Unfinished(s) = <<>>
    BY <2>6, EmptySeq
  <2> QED
    BY <2>7 DEF s
<1>2. Ready = [t \in Tty |-> <<>>] /\ Edit = [t \in Tty |-> <<>>]
  BY <1>1, Zenon DEF Ready, Edit
<1> QED
  BY <1>2 DEF Init, Line!Init

\* The abstract state of one terminal changes with its queue.
LEMMA LinesChange ==
  ASSUME Sound, NEW t \in Tty, NEW q, queue' = [queue EXCEPT ![t] = q]
  PROVE  /\ Ready' = [Ready EXCEPT ![t] = Completed(Contents(q))]
         /\ Edit' = [Edit EXCEPT ![t] = Unfinished(Contents(q))]
         /\ Ready[t] = Completed(Contents(queue[t])) /\ Edit[t] = Unfinished(Contents(queue[t]))
<1>1. DOMAIN queue = Tty
  BY DEF Sound, Base, TypeOK
<1>2. queue'[t] = q /\ \A u \in Tty : u # t => queue'[u] = queue[u]
  BY <1>1
<1>3. Ready' = [u \in Tty |-> Completed(Contents(queue'[u]))]
  BY DEF Ready
<1>4. Edit' = [u \in Tty |-> Unfinished(Contents(queue'[u]))]
  BY DEF Edit
<1>5. Ready' = [Ready EXCEPT ![t] = Completed(Contents(q))]
  <2>1. \A x : [Ready EXCEPT ![t] = x] = [u \in Tty |-> IF u = t THEN x ELSE Completed(Contents(queue[u]))]
    BY DEF Ready
  <2>2. \A u \in Tty : Completed(Contents(queue'[u])) = IF u = t THEN Completed(Contents(q)) ELSE Completed(Contents(queue[u]))
    BY <1>2
  <2> QED
    BY <1>3, <2>1, <2>2, Zenon
<1>6. Edit' = [Edit EXCEPT ![t] = Unfinished(Contents(q))]
  <2>1. \A x : [Edit EXCEPT ![t] = x] = [u \in Tty |-> IF u = t THEN x ELSE Unfinished(Contents(queue[u]))]
    BY DEF Edit
  <2>2. \A u \in Tty : Unfinished(Contents(queue'[u])) = IF u = t THEN Unfinished(Contents(q)) ELSE Unfinished(Contents(queue[u]))
    BY <1>2
  <2> QED
    BY <1>4, <2>1, <2>2, Zenon
<1>7. Ready[t] = Completed(Contents(queue[t])) /\ Edit[t] = Unfinished(Contents(queue[t]))
  BY DEF Ready, Edit
<1> QED
  BY <1>5, <1>6, <1>7

\* A key does what LineAbs says it does to the line being typed.
LEMMA LinesCook ==
  ASSUME "nul" \notin Char, Sound, tty_cook
  PROVE  [Line!Next]_(Line!vars)
<1> DEFINE t == on[TtyTask]
           q == queue[t]
           c == Head(str[TtyTask])
<1>1. TypeOK /\ QueuesOK /\ TaskOK /\ pc[TtyTask] = "cook"
  BY DEF Sound, Base, tty_cook
<1>2. t \in Tty /\ c \in AllChar /\ c # "nul" /\ QueueOK(q)
  BY <1>1, Constants DEF TypeOK, QueuesOK, TaskOK
<1>3. CASE Panics(q, c)
  <2>1. UNCHANGED cook
    BY <1>3 DEF tty_cook
  <2> QED
    BY <2>1 DEF cook, Line!vars, Ready, Edit
<1>4. CASE ~Panics(q, c)
  <2> DEFINE s == Contents(q)
             v == Contents(Cooked(q, c))
  <2>1. queue' = [queue EXCEPT ![t] = Cooked(q, c)] /\ out' = out
    BY <1>4 DEF tty_cook
  <2>2. /\ c = "enter" => /\ Completed(v) = Append(Completed(s), Append(Unfinished(s), "enter"))
                          /\ Unfinished(v) = <<>>
        /\ c # "enter" => Completed(v) = Completed(s)
        /\ c = "backspace" /\ Erasable(q) => Unfinished(s) # <<>> /\ Unfinished(v) = Front(Unfinished(s))
        /\ c = "backspace" /\ ~Erasable(q) => v = s
        /\ c \notin {"enter", "backspace"} => Unfinished(v) = Append(Unfinished(s), c)
    BY <1>2, <1>4, CookLines
  <2>3. /\ Ready' = [Ready EXCEPT ![t] = Completed(v)]
        /\ Edit' = [Edit EXCEPT ![t] = Unfinished(v)]
        /\ Ready[t] = Completed(s) /\ Edit[t] = Unfinished(s)
    BY <1>2, <2>1, LinesChange
  <2>4. Ready' = Ready \/ Completed(v) # Completed(s)
    BY <2>3 DEF Ready
  <2>5. Edit' = Edit \/ Unfinished(v) # Unfinished(s)
    BY <2>3 DEF Edit
  <2> HIDE DEF s, v, t, q, c
  <2>6. CASE c = "enter"
    <3>1. Line!Enter(t)
      BY <2>1, <2>2, <2>3, <2>6 DEF Line!Enter
    <3> QED
      BY <1>2, <3>1 DEF Line!Next
  <2>7. CASE c = "backspace" /\ Erasable(q)
    <3>1. Line!Erase(t)
      BY <2>1, <2>2, <2>3, <2>4, <2>7 DEF Line!Erase, Front, Line!Front
    <3> QED
      BY <1>2, <3>1 DEF Line!Next
  <2>8. CASE c = "backspace" /\ ~Erasable(q)
    BY <2>1, <2>2, <2>4, <2>5, <2>8 DEF Line!vars
  <2>9. CASE c \notin {"enter", "backspace"}
    <3>1. Line!Type(t, c)
      BY <2>1, <2>2, <2>3, <2>4, <2>9 DEF Line!Type
    <3> QED
      BY <1>2, <2>9, <3>1 DEF Line!Next
  <2> QED
    BY <2>6, <2>7, <2>8, <2>9
<1> QED
  BY <1>3, <1>4

\* A reader takes the first of the completed lines.
LEMMA LinesTake ==
  ASSUME Sound, Agree, NEW r \in Shell, Read_Take(r)
  PROVE  Line!Next
<1> DEFINE t == on[r]
           q == queue[t]
<1>1. pc[r] = "read"
  BY DEF Read_Take, Move
<1>2. t \in Tty /\ QueueOK(q) /\ Ends(Contents(q)) # {}
  BY <1>1, ClaimHasLine
<1>3. queue' = [queue EXCEPT ![t] = Shorter(q)] /\ out' = [out EXCEPT ![t] = Append(@, FirstLine(q))]
  BY DEF Read_Take, Shorter
<1> DEFINE s == Contents(q)
           u == Contents(Shorter(q))
<1>4. /\ Completed(s) # <<>> /\ Head(Completed(s)) = FirstLine(q)
      /\ Completed(u) = Tail(Completed(s)) /\ Unfinished(u) = Unfinished(s)
  BY <1>2, TakeLine
<1>5. /\ Ready' = [Ready EXCEPT ![t] = Completed(u)]
      /\ Edit' = [Edit EXCEPT ![t] = Unfinished(u)]
      /\ Ready[t] = Completed(s) /\ Edit[t] = Unfinished(s)
  BY <1>2, <1>3, LinesChange
<1>6. Edit' = Edit
  BY <1>4, <1>5 DEF Edit
<1> HIDE DEF t, q, s, u
<1>7. Line!Deliver(t)
  BY <1>3, <1>4, <1>5, <1>6 DEF Line!Deliver
<1> QED
  BY <1>2, <1>7 DEF Line!Next

LEMMA LinesStep ==
  ASSUME "nul" \notin Char
  PROVE  Sound /\ Agree /\ [Next]_vars => [Line!Next]_(Line!vars)
<1> SUFFICES ASSUME Sound, Agree, [Next]_vars PROVE [Line!Next]_(Line!vars)
  OBVIOUS
<1>1. ASSUME UNCHANGED <<queue, out>> PROVE Line!vars' = Line!vars
  BY <1>1 DEF Line!vars, Ready, Edit
<1>2. ASSUME NEW s \in Shell, tty_read(s) PROVE [Line!Next]_(Line!vars)
  <2>1. Read_Take(s) \/ UNCHANGED <<queue, out>>
    BY <1>2 DEF tty_read, Read_Call, Read_Wait, cook
  <2> QED
    BY <1>1, <2>1, LinesTake
<1>3. CASE tty_cook
  BY <1>3, LinesCook
<1>4. CASE Take \/ Switch \/ UNCHANGED vars
  BY <1>1, <1>4 DEF Take, Take_Char, Take_Alt, Switch, vars, cook
<1>5. ASSUME NEW s \in Shell, NEW t \in Tty, Write_Call(s, t) PROVE UNCHANGED <<queue, out>>
  BY <1>5 DEF Write_Call, cook
<1>6. ASSUME NEW p \in Proc, Write(p) \/ tty_render(p) PROVE UNCHANGED <<queue, out>>
  BY <1>6 DEF Write, tty_render, cook
<1> QED
  BY <1>1, <1>2, <1>3, <1>4, <1>5, <1>6 DEF Next, tty_task

\* The ring of characters with its 0s implements the lines of LineAbs, for any
\* length of the ring, any programs that read and any keys but shift and
\* return: what is read is what was typed, edited, whole and in order.
THEOREM LinesAreKept ==
  ASSUME "nul" \notin Char
  PROVE  Spec => LineDiscipline
<1>1. Init => Sound /\ Agree /\ Line!Init
  BY SoundInit, AgreeInit, LinesInit
<1>2. (Sound /\ Agree) /\ [Next]_vars => (Sound /\ Agree)'
  BY SoundStep, AgreeStep
<1>3. (Sound /\ Agree) /\ [Next]_vars => [Line!Next]_(Line!vars)
  BY LinesStep
<1> QED
  BY <1>1, <1>2, <1>3, PTL DEF Spec, LineDiscipline, Line!Spec
=============================================================================
