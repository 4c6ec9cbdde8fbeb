------------------------ MODULE SourceWindow_proofs ------------------------
(***************************************************************************)
(* Proofs about SourceWindow, for files of any number of tokens of any of  *)
(* the kinds, terminals of any height, and any line of a file.             *)
(*                                                                         *)
(* The invariant says what the loop of highlightGoSource has written: every*)
(* newline of the file up to where it has come, and, of a tidy file, the   *)
(* file itself, with nothing but newlines and carriage returns behind it.  *)
(* The rendered text therefore has all the lines of the file, so that a    *)
(* window never runs out of them; and the rendered text of a tidy file     *)
(* begins with the file, so that its lines are the file's, under their     *)
(* numbers.  That the invariant ties each cell to the token it is of gives *)
(* the meaning of marker comments.                                         *)
(***************************************************************************)
EXTENDS SourceWindow, FiniteSetTheorems, SequenceTheorems, TLAPS

-----------------------------------------------------------------------------
(* The k-th element of a set of numbers.                                   *)

\* A set of numbers has a least element.
LEMMA LeastElement ==
  ASSUME NEW T \in SUBSET Nat, T /= {}
  PROVE  \E x \in T : \A y \in T : x <= y
<1>1. \E x \in T : \A y \in T : <<y, x>> \notin OpToRel(<, Nat)
  BY NatLessThanWellFounded, WFMin
<1>2. PICK x \in T : \A y \in T : <<y, x>> \notin OpToRel(<, Nat)
  BY <1>1
<1>3. ASSUME NEW y \in T
      PROVE  x <= y
  <2>1. ~(y < x)
    BY <1>2 DEF OpToRel
  <2>2. x \in Nat /\ y \in Nat
    OBVIOUS
  <2>3. QED BY <2>1, <2>2
<1>4. QED BY <1>3

\* A bounded set of numbers has a greatest element.
LEMMA GreatestElement ==
  ASSUME NEW n \in Nat, NEW T \in SUBSET (0..n), T /= {}
  PROVE  \E x \in T : \A y \in T : y <= x
<1> DEFINE U == {u \in Nat : \A y \in T : y <= u}
<1>1. n \in U
  OBVIOUS
<1>2. U \in SUBSET Nat /\ U /= {}
  BY <1>1
<1>3. PICK u \in U : \A v \in U : u <= v
  <2> HIDE DEF U
  <2> QED BY <1>2, LeastElement
<1>4. u \in T
  <2>1. SUFFICES ASSUME u \notin T PROVE FALSE
    OBVIOUS
  <2>2. PICK y \in T : TRUE
    OBVIOUS
  <2>3. u \in Nat /\ \A t \in T : t \in Nat /\ t < u
    BY <2>1
  <2>4. u - 1 \in U
    BY <2>2, <2>3
  <2>5. QED BY <2>4, <1>3, <2>3
<1>5. QED BY <1>4

\* The elements of S up to s.
UpTo(S, s) == {t \in S : t <= s}

LEMMA UpToFinite ==
  ASSUME NEW n \in Nat, NEW S \in SUBSET (0..n), NEW s
  PROVE  /\ IsFiniteSet(S) /\ Cardinality(S) \in Nat
         /\ IsFiniteSet(UpTo(S, s)) /\ Cardinality(UpTo(S, s)) \in Nat
         /\ Cardinality(UpTo(S, s)) <= Cardinality(S)
<1>0. IsFiniteSet(0..n)
  BY FS_Interval
<1>1. IsFiniteSet(S)
  BY <1>0, FS_Subset
<1>2. UpTo(S, s) \in SUBSET S
  BY DEF UpTo
<1>3. QED BY <1>1, <1>2, FS_Subset, FS_CardinalityType

\* One more element is counted at every element of S.
LEMMA CountGrows ==
  ASSUME NEW n \in Nat, NEW S \in SUBSET (0..n), NEW s \in S, NEW r \in S, r < s
  PROVE  Cardinality(UpTo(S, r)) < Cardinality(UpTo(S, s))
<1>0. r \in Nat /\ s \in Nat /\ \A t \in S : t \in Nat
  OBVIOUS
<1>1. ASSUME NEW t \in UpTo(S, r)
      PROVE  t \in UpTo(S, s)
  <2>1. t \in S /\ t <= r /\ t \in Nat
    BY <1>0 DEF UpTo
  <2>2. t <= s
    BY <2>1, <1>0
  <2>3. QED BY <2>1, <2>2 DEF UpTo
<1>2. s \in UpTo(S, s) /\ s \notin UpTo(S, r)
  BY <1>0 DEF UpTo
<1>3. Cardinality(UpTo(S, r)) <= Cardinality(UpTo(S, s))
      /\ Cardinality(UpTo(S, r)) /= Cardinality(UpTo(S, s))
  BY <1>1, <1>2, UpToFinite, FS_Subset
<1>4. Cardinality(UpTo(S, r)) \in Nat /\ Cardinality(UpTo(S, s)) \in Nat
  BY UpToFinite
<1>5. QED BY <1>3, <1>4

\* An element is the one its count stands for.
LEMMA NthOfCount ==
  ASSUME NEW n \in Nat, NEW S \in SUBSET (0..n), NEW s \in S
  PROVE  Nth(S, Cardinality(UpTo(S, s))) = s
<1>1. \A r \in S : Cardinality(UpTo(S, r)) = Cardinality(UpTo(S, s)) => r = s
  <2>1. SUFFICES ASSUME NEW r \in S, Cardinality(UpTo(S, r)) = Cardinality(UpTo(S, s)), r /= s
                 PROVE  FALSE
    OBVIOUS
  <2>2. r \in Nat /\ s \in Nat
    OBVIOUS
  <2>3. r < s \/ s < r
    BY <2>1, <2>2
  <2>4. Cardinality(UpTo(S, r)) \in Nat
    BY UpToFinite
  <2>5. ~(r < s) /\ ~(s < r)
    <3>1. ~(Cardinality(UpTo(S, r)) < Cardinality(UpTo(S, s)))
          /\ ~(Cardinality(UpTo(S, s)) < Cardinality(UpTo(S, r)))
      BY <2>1, <2>4
    <3>2. QED BY <3>1, CountGrows
  <2>6. QED BY <2>3, <2>5
<1>2. QED BY <1>1 DEF Nth, UpTo

\* There is a k-th element for every k up to the number of elements.
LEMMA NthElement ==
  ASSUME NEW n \in Nat, NEW S \in SUBSET (0..n), NEW k \in 1..Cardinality(S)
  PROVE  Nth(S, k) \in S /\ Cardinality(UpTo(S, Nth(S, k))) = k
<1> DEFINE T == {s \in S : Cardinality(UpTo(S, s)) >= k}
<1>0. IsFiniteSet(S) /\ Cardinality(S) \in Nat /\ k \in Nat /\ k >= 1 /\ k <= Cardinality(S)
  BY UpToFinite
<1>1. S /= {}
  BY <1>0, FS_EmptySet
<1>2. PICK m \in S : \A y \in S : y <= m
  BY <1>1, GreatestElement
<1>3. UpTo(S, m) = S
  BY <1>2 DEF UpTo
<1>4. m \in T
  BY <1>3, <1>0
<1>5. T \in SUBSET Nat /\ T /= {}
  <2>1. S \in SUBSET Nat
    OBVIOUS
  <2>2. QED BY <1>4, <2>1
<1>6. PICK s \in T : \A y \in T : s <= y
  <2> HIDE DEF T
  <2> QED BY <1>5, LeastElement
<1>7. s \in S /\ Cardinality(UpTo(S, s)) >= k /\ Cardinality(UpTo(S, s)) \in Nat
  BY <1>6, UpToFinite
<1>8. Cardinality(UpTo(S, s)) = k
  <2>1. SUFFICES ASSUME Cardinality(UpTo(S, s)) > k PROVE FALSE
    BY <1>7, <1>0
  <2> DEFINE R == UpTo(S, s) \ {s}
  <2>0. s \in Nat /\ \A t \in S : t \in Nat
    BY <1>7
  <2>2. s \in UpTo(S, s) /\ IsFiniteSet(UpTo(S, s))
    <3>1. s \in UpTo(S, s)
      BY <1>7, <2>0 DEF UpTo
    <3>2. QED BY <3>1, UpToFinite
  <2>3. IsFiniteSet(R) /\ Cardinality(R) = Cardinality(UpTo(S, s)) - 1
    BY <2>2, FS_RemoveElement
  <2>4. Cardinality(R) >= k
    BY <2>3, <2>1, <1>7, <1>0
  <2>5. R /= {}
    <3> HIDE DEF R
    <3> QED BY <2>4, <1>0, FS_EmptySet
  <2>6. R \in SUBSET (0..n)
    BY DEF UpTo
  <2>7. PICK r \in R : \A y \in R : y <= r
    <3> HIDE DEF R
    <3> QED BY <2>5, <2>6, GreatestElement
  <2>8. r \in S /\ r < s
    BY <2>7, <1>7, <2>0 DEF UpTo
  <2>9. UpTo(S, r) = R
    <3>1. ASSUME NEW t \in UpTo(S, r)
          PROVE  t \in R
      <4>1. t \in S /\ t <= r /\ t \in Nat /\ r \in Nat
        BY <2>0, <2>8 DEF UpTo
      <4>2. t <= s /\ t /= s
        BY <4>1, <2>8, <2>0
      <4>3. QED BY <4>1, <4>2 DEF UpTo
    <3>2. \A t \in R : t \in UpTo(S, r)
      BY <2>7, <2>8, <2>0 DEF UpTo
    <3>3. QED BY <3>1, <3>2
  <2>10. r \in T
    BY <2>8, <2>9, <2>4
  <2>11. QED BY <2>10, <2>8, <1>6, <1>7
<1>9. QED BY <1>7, <1>8, NthOfCount

\* The k-th element is found among the elements up to a bound as in the whole.
LEMMA NthOfPart ==
  ASSUME NEW n \in Nat, NEW S \in SUBSET (0..n), NEW c \in Nat,
         NEW k \in 1..Cardinality(UpTo(S, c))
  PROVE  Nth(S, k) = Nth(UpTo(S, c), k)
<1> DEFINE r == Nth(UpTo(S, c), k)
<1>0. \A t \in S : t \in Nat
  OBVIOUS
<1>1. UpTo(S, c) \in SUBSET (0..n)
  BY DEF UpTo
<1>2. r \in UpTo(S, c) /\ Cardinality(UpTo(UpTo(S, c), r)) = k
  BY <1>1, NthElement
<1>3. r \in S /\ r <= c /\ r \in Nat
  BY <1>2, <1>0 DEF UpTo
<1>4. UpTo(UpTo(S, c), r) = UpTo(S, r)
  <2>1. ASSUME NEW t \in S, t <= r
        PROVE  t <= c
    BY <2>1, <1>0, <1>3
  <2>2. QED BY <2>1 DEF UpTo
<1>5. Nth(S, Cardinality(UpTo(S, r))) = r
  BY <1>3, NthOfCount
<1>6. QED BY <1>2, <1>4, <1>5

\* The element that follows the elements up to a bound.
LEMMA NthNext ==
  ASSUME NEW n \in Nat, NEW S \in SUBSET (0..n), NEW c \in Nat, NEW p \in S, c < p,
         \A t \in S : t <= c \/ p <= t
  PROVE  Nth(S, Cardinality(UpTo(S, c)) + 1) = p
<1>0. p \in Nat /\ \A t \in S : t \in Nat
  OBVIOUS
<1>1. UpTo(S, p) = UpTo(S, c) \cup {p}
  <2>1. ASSUME NEW t \in S
        PROVE  t <= p <=> (t <= c \/ t = p)
    BY <2>1, <1>0
  <2>2. QED BY <2>1 DEF UpTo
<1>2. p \notin UpTo(S, c)
  BY <1>0 DEF UpTo
<1>3. Cardinality(UpTo(S, p)) = Cardinality(UpTo(S, c)) + 1
  BY <1>1, <1>2, UpToFinite, FS_AddElement
<1>4. QED BY <1>3, NthOfCount

\* The elements are counted in their order.
LEMMA NthIncreases ==
  ASSUME NEW n \in Nat, NEW S \in SUBSET (0..n),
         NEW j \in 1..Cardinality(S), NEW k \in 1..Cardinality(S), j < k
  PROVE  Nth(S, j) < Nth(S, k)
<1>1. /\ Nth(S, j) \in S /\ Cardinality(UpTo(S, Nth(S, j))) = j
      /\ Nth(S, k) \in S /\ Cardinality(UpTo(S, Nth(S, k))) = k
  BY NthElement
<1>2. j \in Nat /\ k \in Nat /\ ~(k < j) /\ j /= k
  <2>1. Cardinality(S) \in Nat
    BY UpToFinite
  <2>2. QED BY <2>1
<1>3. ~(Nth(S, k) < Nth(S, j))
  BY <1>1, <1>2, CountGrows
<1>4. Nth(S, j) /= Nth(S, k)
  BY <1>1, <1>2
<1>5. Nth(S, j) \in Nat /\ Nth(S, k) \in Nat
  <2>1. \A t \in S : t \in Nat
    OBVIOUS
  <2>2. QED BY <1>1, <2>1
<1>6. QED BY <1>3, <1>4, <1>5

LEMMA Counting ==
  ASSUME NEW n \in Nat
  PROVE  IsFiniteSet(1..n) /\ Cardinality(1..n) = n
<1>1. IsFiniteSet(1..n) /\ Cardinality(1..n) = IF 1 > n THEN 0 ELSE n - 1 + 1
  BY FS_Interval
<1>2. QED BY <1>1

LEMMA NthOfInterval ==
  ASSUME NEW n \in Nat, NEW k \in 1..n
  PROVE  Nth(1..n, k) = k
<1>1. UpTo(1..n, k) = 1..k
  BY DEF UpTo
<1>2. Cardinality(1..k) = k
  BY Counting
<1>3. (1..n) \in SUBSET (0..n)
  OBVIOUS
<1>4. QED BY <1>1, <1>2, <1>3, NthOfCount

\* The first element is the least one.
LEMMA NthFirst ==
  ASSUME NEW n \in Nat, NEW S \in SUBSET (0..n), S /= {}
  PROVE  Nth(S, 1) \in S /\ \A t \in S : Nth(S, 1) <= t
<1>0. S \in SUBSET Nat
  OBVIOUS
<1>1. PICK p \in S : \A t \in S : p <= t
  BY <1>0, LeastElement
<1>2. UpTo(S, p) = {p}
  <2>1. ASSUME NEW t \in S
        PROVE  t <= p <=> t = p
    BY <1>0, <1>1
  <2>2. QED BY <2>1 DEF UpTo
<1>3. Cardinality(UpTo(S, p)) = 1
  BY <1>2, FS_Singleton
<1>4. Nth(S, 1) = p
  BY <1>3, NthOfCount
<1>5. QED BY <1>1, <1>4

-----------------------------------------------------------------------------
(* Filtered sequences.                                                     *)

LEMMA FunctionIsSeq ==
  ASSUME NEW X, NEW n \in Nat, NEW f \in [1..n -> X]
  PROVE  f \in Seq(X) /\ Len(f) = n
<1>1. f \in Seq(X)
  BY SeqDef
<1>2. Len(f) \in Nat /\ DOMAIN f = 1..Len(f)
  BY <1>1, LenProperties
<1>3. 1..n = 1..Len(f)
  BY <1>2
<1>4. Len(f) = n
  BY <1>2, <1>3
<1>5. QED BY <1>1, <1>4

\* What is picked is elements of the sequence, all of those at the indices,
\* in their order.
LEMMA PickType ==
  ASSUME NEW X, NEW seq \in Seq(X), NEW I \in SUBSET (1..Len(seq))
  PROVE  /\ Pick(seq, I) \in Seq(X)
         /\ Len(Pick(seq, I)) = Cardinality(I)
         /\ Cardinality(I) \in Nat /\ Cardinality(I) <= Len(seq)
         /\ \A k \in 1..Cardinality(I) : Nth(I, k) \in I /\ Pick(seq, I)[k] = seq[Nth(I, k)]
         /\ \A i \in I : \E k \in 1..Cardinality(I) : Nth(I, k) = i
<1>0. Len(seq) \in Nat
  BY LenProperties
<1>1. I \in SUBSET (0..Len(seq))
  BY <1>0
<1>2. Cardinality(I) \in Nat
  BY <1>0, <1>1, UpToFinite
<1>3. Cardinality(I) <= Len(seq)
  <2>1. IsFiniteSet(1..Len(seq)) /\ Cardinality(1..Len(seq)) = Len(seq)
    BY <1>0, Counting
  <2>2. QED BY <2>1, FS_Subset
<1>4. ASSUME NEW k \in 1..Cardinality(I)
      PROVE  Nth(I, k) \in I
  BY <1>0, <1>1, NthElement
<1>5. ASSUME NEW k \in 1..Cardinality(I)
      PROVE  seq[Nth(I, k)] \in X
  BY <1>4, ElementOfSeq
<1>6. Pick(seq, I) \in [1..Cardinality(I) -> X]
  BY <1>5 DEF Pick
<1>7. Pick(seq, I) \in Seq(X) /\ Len(Pick(seq, I)) = Cardinality(I)
  BY <1>2, <1>6, FunctionIsSeq
<1>8. \A k \in 1..Cardinality(I) : Pick(seq, I)[k] = seq[Nth(I, k)]
  BY DEF Pick
<1>9. ASSUME NEW i \in I
      PROVE  \E k \in 1..Cardinality(I) : Nth(I, k) = i
  <2>1. Nth(I, Cardinality(UpTo(I, i))) = i
    BY <1>0, <1>1, NthOfCount
  <2>2. /\ IsFiniteSet(UpTo(I, i)) /\ Cardinality(UpTo(I, i)) \in Nat
        /\ Cardinality(UpTo(I, i)) <= Cardinality(I)
    BY <1>0, <1>1, UpToFinite
  <2>3. i \in Nat
    BY <1>0
  <2>4. UpTo(I, i) /= {}
    BY <2>3 DEF UpTo
  <2>5. Cardinality(UpTo(I, i)) /= 0
    BY <2>2, <2>4, FS_EmptySet
  <2>6. Cardinality(UpTo(I, i)) \in 1..Cardinality(I)
    BY <2>2, <2>5, <1>2
  <2>7. QED BY <2>1, <2>6
<1>10. QED BY <1>2, <1>3, <1>4, <1>7, <1>8, <1>9

LEMMA PickAll ==
  ASSUME NEW X, NEW seq \in Seq(X)
  PROVE  Pick(seq, 1..Len(seq)) = seq
<1>0. Len(seq) \in Nat /\ seq = [i \in 1..Len(seq) |-> seq[i]]
  BY LenProperties
<1>1. Cardinality(1..Len(seq)) = Len(seq)
  BY <1>0, Counting
<1>2. ASSUME NEW k \in 1..Len(seq)
      PROVE  seq[Nth(1..Len(seq), k)] = seq[k]
  BY <1>0, NthOfInterval
<1>3. QED BY <1>0, <1>1, <1>2 DEF Pick

-----------------------------------------------------------------------------
(* Lines of a text.                                                        *)

LineStart(S, k) == IF k = 1 THEN 1 ELSE Nth(S, k - 1) + 1
LineEnd(S, k, n) == IF k > Cardinality(S) THEN n ELSE Nth(S, k) - 1

\* A line begins behind a newline and ends before the next.
LEMMA LineBounds ==
  ASSUME NEW n \in Nat, NEW S \in SUBSET (1..n), NEW k \in 1..(Cardinality(S) + 1)
  PROVE  /\ Cardinality(S) \in Nat
         /\ LineStart(S, k) \in 1..(n + 1)
         /\ LineEnd(S, k, n) \in 0..n
         /\ LineStart(S, k) <= LineEnd(S, k, n) + 1
<1>1. S \in SUBSET (0..n) /\ S \in SUBSET Nat
  OBVIOUS
<1>2. Cardinality(S) \in Nat
  BY <1>1, UpToFinite
<1>3. k \in Nat /\ k >= 1 /\ k <= Cardinality(S) + 1
  BY <1>2
<1>4. k /= 1 => Nth(S, k - 1) \in 1..n
  <2>1. k /= 1 => k - 1 \in 1..Cardinality(S)
    BY <1>2, <1>3
  <2>2. QED BY <2>1, <1>1, NthElement
<1>5. ~(k > Cardinality(S)) => Nth(S, k) \in 1..n
  <2>1. ~(k > Cardinality(S)) => k \in 1..Cardinality(S)
    BY <1>2, <1>3
  <2>2. QED BY <2>1, <1>1, NthElement
<1>6. k /= 1 /\ ~(k > Cardinality(S)) => Nth(S, k - 1) < Nth(S, k)
  <2>1. SUFFICES ASSUME k /= 1, ~(k > Cardinality(S))
                 PROVE  Nth(S, k - 1) < Nth(S, k)
    OBVIOUS
  <2>2. k - 1 \in 1..Cardinality(S) /\ k \in 1..Cardinality(S) /\ k - 1 < k
    BY <2>1, <1>2, <1>3
  <2>3. QED BY <2>2, <1>1, NthIncreases
<1>7. LineStart(S, k) \in 1..(n + 1)
  BY <1>4 DEF LineStart
<1>8. LineEnd(S, k, n) \in 0..n
  BY <1>5 DEF LineEnd
<1>9. LineStart(S, k) <= LineEnd(S, k, n) + 1
  <2>1. CASE k = 1
    BY <2>1, <1>8 DEF LineStart
  <2>2. CASE k > Cardinality(S)
    BY <2>2, <1>7 DEF LineEnd
  <2>3. CASE k /= 1 /\ ~(k > Cardinality(S))
    BY <2>3, <1>4, <1>5, <1>6 DEF LineStart, LineEnd
  <2>4. QED BY <2>1, <2>2, <2>3
<1>10. QED BY <1>2, <1>7, <1>8, <1>9

LEMMA SplitShape ==
  ASSUME NEW text \in Seq(Nat), NEW cells
  PROVE  LET S == Indices(cells, text, "n")
             lines == SplitLines(cells, text)
         IN /\ S \in SUBSET (1..Len(text)) /\ Len(text) \in Nat
            /\ Cardinality(S) \in Nat
            /\ lines \in Seq(Seq(Nat))
            /\ Len(lines) = Cardinality(S) + 1
            /\ DOMAIN lines = 1..(Cardinality(S) + 1)
            /\ \A k \in 1..(Cardinality(S) + 1) :
                 lines[k] = SubSeq(text, LineStart(S, k), LineEnd(S, k, Len(text)))
<1> DEFINE S == Indices(cells, text, "n")
           lines == SplitLines(cells, text)
<1>1. S \in SUBSET (1..Len(text)) /\ Len(text) \in Nat
  BY LenProperties DEF Indices
<1>2. lines = [k \in 1..(Cardinality(S) + 1) |->
                 SubSeq(text, LineStart(S, k), LineEnd(S, k, Len(text)))]
  BY DEF SplitLines, LineStart, LineEnd
<1>3. Cardinality(S) \in Nat
  <2> HIDE DEF S
  <2>1. S \in SUBSET (0..Len(text))
    BY <1>1
  <2>2. QED BY <1>1, <2>1, UpToFinite
<1>4. ASSUME NEW k \in 1..(Cardinality(S) + 1)
      PROVE  SubSeq(text, LineStart(S, k), LineEnd(S, k, Len(text))) \in Seq(Nat)
  <2> HIDE DEF S
  <2>1. /\ LineStart(S, k) \in 1..(Len(text) + 1)
        /\ LineEnd(S, k, Len(text)) \in 0..Len(text)
    BY <1>1, LineBounds
  <2>2. \A i \in LineStart(S, k)..LineEnd(S, k, Len(text)) : i \in 1..Len(text)
    BY <2>1, <1>1
  <2>3. \A i \in LineStart(S, k)..LineEnd(S, k, Len(text)) : text[i] \in Nat
    BY <2>2, ElementOfSeq
  <2>4. LineStart(S, k) \in Int /\ LineEnd(S, k, Len(text)) \in Int
    BY <2>1, <1>1
  <2>5. QED BY <2>3, <2>4, SubSeqProperties
<1>5. lines \in [1..(Cardinality(S) + 1) -> Seq(Nat)]
  <2> HIDE DEF S, lines
  <2> QED BY <1>2, <1>4
<1>6. lines \in Seq(Seq(Nat)) /\ Len(lines) = Cardinality(S) + 1
  <2> HIDE DEF S, lines
  <2>1. Cardinality(S) + 1 \in Nat
    BY <1>3
  <2>2. QED BY <2>1, <1>5, FunctionIsSeq
<1>7. QED
  <2> HIDE DEF S, lines
  <2>1. DOMAIN lines = 1..(Cardinality(S) + 1)
    BY <1>5
  <2>2. /\ S \in SUBSET (1..Len(text)) /\ Len(text) \in Nat
        /\ Cardinality(S) \in Nat
        /\ lines \in Seq(Seq(Nat))
        /\ Len(lines) = Cardinality(S) + 1
        /\ DOMAIN lines = 1..(Cardinality(S) + 1)
        /\ \A k \in 1..(Cardinality(S) + 1) :
             lines[k] = SubSeq(text, LineStart(S, k), LineEnd(S, k, Len(text)))
    BY <1>1, <1>2, <1>3, <1>6, <2>1
  <2>3. QED BY <2>2 DEF S, lines

LEMMA SubSeqOfLonger ==
  ASSUME NEW text \in Seq(Nat), NEW more \in Seq(Nat),
         NEW a \in 1..(Len(text) + 1), NEW b \in 0..Len(text)
  PROVE  SubSeq(text \o more, a, b) = SubSeq(text, a, b)
<1>0. Len(text) \in Nat
  BY LenProperties
<1>1. CASE a <= b
  <2>1. a \in 1..Len(text) /\ b \in 1..Len(text)
    BY <1>0, <1>1
  <2>2. QED BY <2>1, SubSeqOfConcat1
<1>2. CASE ~(a <= b)
  <2>1. a \in Int /\ b \in Int /\ b < a
    BY <1>0, <1>2
  <2>2. QED BY <2>1, SubSeqEmpty
<1>3. QED BY <1>1, <1>2

LEMMA SubSeqAcross ==
  ASSUME NEW text \in Seq(Nat), NEW more \in Seq(Nat),
         NEW a \in 1..(Len(text) + 1), NEW j \in 0..Len(more)
  PROVE  SubSeq(text \o more, a, Len(text) + j)
           = SubSeq(text, a, Len(text)) \o SubSeq(more, 1, j)
<1> DEFINE whole == text \o more
<1>0. Len(text) \in Nat /\ Len(more) \in Nat
  BY LenProperties
<1>1. whole \in Seq(Nat) /\ Len(whole) = Len(text) + Len(more)
  BY ConcatProperties
<1>2. /\ a \in 1..(Len(whole) + 1)
      /\ Len(text) \in (a - 1)..Len(whole)
      /\ Len(text) + j \in Len(text)..Len(whole)
  BY <1>0, <1>1
<1>3. SubSeq(whole, a, Len(text)) \o SubSeq(whole, Len(text) + 1, Len(text) + j)
        = SubSeq(whole, a, Len(text) + j)
  <2> HIDE DEF whole
  <2> QED BY <1>1, <1>2, ConcatAdjacentSubSeq
<1>4. SubSeq(whole, a, Len(text)) = SubSeq(text, a, Len(text))
  <2>1. Len(text) \in 0..Len(text)
    BY <1>0
  <2>2. QED BY <2>1, SubSeqOfLonger
<1>5. SubSeq(whole, Len(text) + 1, Len(text) + j) = SubSeq(more, 1, j)
  <2>1. CASE j = 0
    <3>1. /\ Len(text) + 1 \in Int /\ Len(text) + j \in Int /\ Len(text) + j < Len(text) + 1
          /\ 1 \in Int /\ j \in Int /\ j < 1
      BY <2>1, <1>0
    <3>2. SubSeq(whole, Len(text) + 1, Len(text) + j) = <<>>
      BY <3>1, SubSeqEmpty
    <3>3. SubSeq(more, 1, j) = <<>>
      BY <3>1, SubSeqEmpty
    <3>4. QED BY <3>2, <3>3
  <2>2. CASE j /= 0
    <3>1. /\ Len(text) + 1 \in (Len(text) + 1)..(Len(text) + Len(more))
          /\ Len(text) + j \in (Len(text) + 1)..(Len(text) + Len(more))
          /\ Len(text) + 1 - Len(text) = 1 /\ Len(text) + j - Len(text) = j
      BY <2>2, <1>0
    <3>2. SubSeq(whole, Len(text) + 1, Len(text) + j)
            = SubSeq(more, Len(text) + 1 - Len(text), Len(text) + j - Len(text))
      BY <3>1, SubSeqOfConcat2
    <3>3. QED BY <3>1, <3>2
  <2>3. QED BY <2>1, <2>2
<1>6. QED BY <1>3, <1>4, <1>5

\* A text that goes on has the lines it had, and its last line goes on up to
\* the first newline.
GoOn(cells, lines, longer, more) ==
  /\ \A k \in 1..(Len(lines) - 1) : longer[k] = lines[k]
  /\ \E j \in 0..Len(more) :
       /\ \A i \in 1..j : CellAt(cells, more[i]) /= "n"
       /\ longer[Len(lines)] = lines[Len(lines)] \o SubSeq(more, 1, j)

LEMMA SplitLonger ==
  ASSUME NEW text \in Seq(Nat), NEW more \in Seq(Nat), NEW cells
  PROVE  GoOn(cells, SplitLines(cells, text), SplitLines(cells, text \o more), more)
<1> DEFINE whole == text \o more
           lines == SplitLines(cells, text)
           longer == SplitLines(cells, whole)
           S == Indices(cells, text, "n")
           T == Indices(cells, whole, "n")
           L == Len(text)
           M == Len(more)
<1>1. L \in Nat /\ M \in Nat /\ whole \in Seq(Nat) /\ Len(whole) = L + M
  BY ConcatProperties, LenProperties
<1>2. /\ S \in SUBSET (1..L) /\ Cardinality(S) \in Nat
      /\ Len(lines) = Cardinality(S) + 1
      /\ \A k \in 1..(Cardinality(S) + 1) :
           lines[k] = SubSeq(text, LineStart(S, k), LineEnd(S, k, L))
  BY SplitShape
<1>3. /\ T \in SUBSET (1..(L + M)) /\ Cardinality(T) \in Nat
      /\ Len(longer) = Cardinality(T) + 1
      /\ \A k \in 1..(Cardinality(T) + 1) :
           longer[k] = SubSeq(whole, LineStart(T, k), LineEnd(T, k, L + M))
  <2>1. /\ T \in SUBSET (1..Len(whole)) /\ Cardinality(T) \in Nat
        /\ Len(longer) = Cardinality(T) + 1
        /\ \A k \in 1..(Cardinality(T) + 1) :
             longer[k] = SubSeq(whole, LineStart(T, k), LineEnd(T, k, Len(whole)))
    <3> HIDE DEF whole
    <3> QED BY <1>1, SplitShape
  <2>2. QED
    <3> HIDE DEF whole, longer, T, L, M
    <3> QED BY <2>1, <1>1
<1>4. DOMAIN text = 1..L /\ DOMAIN whole = 1..(L + M) /\ DOMAIN more = 1..M
  <2>1. DOMAIN whole = 1..Len(whole)
    <3> HIDE DEF whole
    <3> QED BY <1>1, LenProperties
  <2>2. QED BY <2>1, <1>1, LenProperties
<1>5. /\ \A i \in 1..L : whole[i] = text[i]
      /\ \A i \in 1..M : whole[L + i] = more[i]
  <2>1. \A i \in 1..(L + M) : whole[i] = IF i <= L THEN text[i] ELSE more[i - L]
    BY ConcatProperties
  <2>2. ASSUME NEW i \in 1..L
        PROVE  i \in 1..(L + M) /\ i <= L
    BY <1>1
  <2>3. ASSUME NEW i \in 1..M
        PROVE  L + i \in 1..(L + M) /\ ~(L + i <= L) /\ L + i - L = i
    BY <1>1
  <2>4. QED
    <3> HIDE DEF whole, L, M
    <3>1. \A i \in 1..L : whole[i] = text[i]
      BY <2>1, <2>2
    <3>2. ASSUME NEW i \in 1..M
          PROVE  whole[L + i] = more[i]
      <4>1. \A p \in 1..(L + M) : ~(p <= L) => whole[p] = more[p - L]
        BY <2>1
      <4>2. PICK p \in 1..(L + M) : p = L + i
        BY <2>3
      <4>3. ~(p <= L) /\ p - L = i
        BY <4>2, <1>1
      <4>4. whole[p] = more[p - L]
        BY <4>1, <4>3
      <4>5. QED BY <4>2, <4>3, <4>4
    <3>3. QED BY <3>1, <3>2
<1>6. /\ \A i \in 1..L : i \in T <=> i \in S
      /\ \A i \in 1..M : L + i \in T <=> CellAt(cells, more[i]) = "n"
  <2>1. ASSUME NEW i \in 1..L
        PROVE  i \in 1..(L + M)
    BY <1>1
  <2>2. ASSUME NEW i \in 1..M
        PROVE  L + i \in 1..(L + M)
    BY <1>1
  <2>3. S = {i \in 1..L : CellAt(cells, text[i]) = "n"}
    BY <1>4 DEF Indices
  <2>4. T = {i \in 1..(L + M) : CellAt(cells, whole[i]) = "n"}
    BY <1>4 DEF Indices
  <2>5. QED
    <3> HIDE DEF whole, S, T, L, M
    <3>1. \A i \in 1..L : i \in T <=> i \in S
      BY <1>5, <2>1, <2>3, <2>4
    <3>2. \A i \in 1..M : L + i \in T <=> CellAt(cells, more[i]) = "n"
      BY <1>5, <2>2, <2>4
    <3>3. QED BY <3>1, <3>2
<1> HIDE DEF whole, lines, longer, S, T, L, M
<1>7. UpTo(T, L) = S
  <2>1. ASSUME NEW t \in T, t <= L
        PROVE  t \in 1..L
    BY <2>1, <1>1, <1>3
  <2>2. \A t \in S : t \in 1..L /\ t <= L
    BY <1>1, <1>2
  <2>3. QED BY <2>1, <2>2, <1>6 DEF UpTo
<1>8. T \in SUBSET (0..(L + M)) /\ L + M \in Nat
  BY <1>1, <1>3
<1>9. Cardinality(S) <= Cardinality(T)
  BY <1>7, <1>8, UpToFinite
<1>10. \A k \in 1..Cardinality(S) : Nth(T, k) = Nth(S, k)
  BY <1>1, <1>7, <1>8, NthOfPart
<1>11. ASSUME NEW k \in 1..(Cardinality(S) + 1)
       PROVE  LineStart(T, k) = LineStart(S, k)
  <2>1. CASE k = 1
    BY <2>1 DEF LineStart
  <2>2. CASE k /= 1
    <3>1. k - 1 \in 1..Cardinality(S)
      BY <2>2, <1>2
    <3>2. QED BY <2>2, <3>1, <1>10 DEF LineStart
  <2>3. QED BY <2>1, <2>2
<1>12. ASSUME NEW k \in 1..Cardinality(S)
       PROVE  longer[k] = lines[k]
  <2>1. /\ k \in 1..(Cardinality(S) + 1) /\ k \in 1..(Cardinality(T) + 1)
        /\ ~(k > Cardinality(S)) /\ ~(k > Cardinality(T))
    BY <1>2, <1>3, <1>9
  <2>2. LineEnd(T, k, L + M) = LineEnd(S, k, L)
    BY <2>1, <1>10 DEF LineEnd
  <2>3. LineStart(S, k) \in 1..(L + 1) /\ LineEnd(S, k, L) \in 0..L
    BY <2>1, <1>1, <1>2, LineBounds
  <2>4. SubSeq(whole, LineStart(S, k), LineEnd(S, k, L))
          = SubSeq(text, LineStart(S, k), LineEnd(S, k, L))
    BY <2>3, SubSeqOfLonger DEF whole, L
  <2>5. QED BY <2>1, <2>2, <2>4, <1>2, <1>3, <1>11
<1> DEFINE c == Cardinality(S) + 1
<1>13. c \in 1..(Cardinality(S) + 1) /\ c \in 1..(Cardinality(T) + 1) /\ c > Cardinality(S)
  BY <1>2, <1>3, <1>9
<1>14. \E j \in 0..M : /\ \A i \in 1..j : CellAt(cells, more[i]) /= "n"
                       /\ LineEnd(T, c, L + M) = L + j
  <2>1. CASE \A i \in 1..M : L + i \notin T
    <3>1. T = S
      <4>1. ASSUME NEW t \in T
            PROVE  t \in 1..L
        <5>1. CASE t <= L
          BY <5>1, <1>3, <1>1
        <5>2. CASE ~(t <= L)
          <6>1. t - L \in 1..M /\ L + (t - L) = t
            BY <5>2, <1>3, <1>1
          <6>2. QED BY <6>1, <2>1
        <5>3. QED BY <5>1, <5>2
      <4>2. QED BY <4>1, <1>6, <1>2
    <3>2. LineEnd(T, c, L + M) = L + M
      BY <3>1, <1>13 DEF LineEnd
    <3>3. M \in 0..M
      BY <1>1
    <3>4. \A i \in 1..M : CellAt(cells, more[i]) /= "n"
      BY <1>6, <2>1
    <3>5. QED BY <3>2, <3>3, <3>4
  <2>2. CASE \E i \in 1..M : L + i \in T
    <3> DEFINE F == {i \in 1..M : L + i \in T}
    <3>1. F \in SUBSET Nat /\ F /= {}
      BY <2>2
    <3>2. PICK f \in F : \A i \in F : f <= i
      <4> HIDE DEF F
      <4> QED BY <3>1, LeastElement
    <3>3. f \in 1..M /\ L + f \in T /\ L < L + f /\ L + f \in Nat /\ f - 1 \in 0..M
      BY <3>2, <1>1
    <3>4. ASSUME NEW t \in T
          PROVE  t <= L \/ L + f <= t
      <4>1. SUFFICES ASSUME ~(t <= L) PROVE L + f <= t
        OBVIOUS
      <4>2. t - L \in 1..M /\ L + (t - L) = t
        BY <4>1, <1>3, <1>1
      <4>3. t - L \in F
        BY <4>2
      <4>4. f <= t - L
        BY <4>3, <3>2
      <4>5. QED BY <4>4, <4>2, <3>3, <1>1
    <3>5. Nth(T, c) = L + f
      <4>1. Nth(T, Cardinality(UpTo(T, L)) + 1) = L + f
        BY <1>1, <1>8, <3>3, <3>4, NthNext
      <4>2. QED BY <4>1, <1>7
    <3>6. ~(c > Cardinality(T))
      <4>1. L + f \notin S
        <5>1. L + f \notin 1..L
          BY <3>3, <1>1
        <5>2. QED BY <5>1, <1>2
      <4>2. S /= T
        BY <4>1, <3>3
      <4>3. IsFiniteSet(T) /\ S \in SUBSET T
        BY <1>7, <1>8, UpToFinite DEF UpTo
      <4>4. Cardinality(S) /= Cardinality(T)
        BY <4>2, <4>3, FS_Subset
      <4>5. QED BY <4>4, <1>9, <1>2, <1>3
    <3>7. LineEnd(T, c, L + M) = L + (f - 1)
      BY <3>5, <3>6, <3>3, <1>1 DEF LineEnd
    <3>8. ASSUME NEW i \in 1..(f - 1)
          PROVE  CellAt(cells, more[i]) /= "n"
      <4>1. i \in 1..M /\ ~(f <= i)
        BY <3>3, <1>1
      <4>2. i \notin F
        BY <4>1, <3>2
      <4>3. QED BY <4>1, <4>2, <1>6
    <3>9. QED BY <3>3, <3>7, <3>8
  <2>3. QED BY <2>1, <2>2
<1>15. PICK j \in 0..M : /\ \A i \in 1..j : CellAt(cells, more[i]) /= "n"
                        /\ LineEnd(T, c, L + M) = L + j
  BY <1>14
<1>16. longer[c] = lines[c] \o SubSeq(more, 1, j)
  <2>1. LineStart(S, c) \in 1..(L + 1)
    BY <1>13, <1>1, <1>2, LineBounds
  <2>2. LineEnd(S, c, L) = L
    BY <1>13 DEF LineEnd
  <2>3. SubSeq(whole, LineStart(S, c), L + j)
          = SubSeq(text, LineStart(S, c), L) \o SubSeq(more, 1, j)
    BY <2>1, <1>15, SubSeqAcross DEF whole, L, M
  <2>4. longer[c] = SubSeq(whole, LineStart(S, c), L + j)
    BY <1>3, <1>11, <1>13, <1>15
  <2>5. lines[c] = SubSeq(text, LineStart(S, c), L)
    BY <1>2, <1>13, <2>2
  <2>6. QED BY <2>3, <2>4, <2>5
<1>17. /\ 1..(Len(lines) - 1) = 1..Cardinality(S)
       /\ Len(lines) = c
  BY <1>2, <1>3, <1>9
<1>18. GoOn(cells, lines, longer, more)
  <2> HIDE DEF whole, lines, longer, c
  <2>1. \A k \in 1..(Len(lines) - 1) : longer[k] = lines[k]
    BY <1>12, <1>17
  <2>2. longer[Len(lines)] = lines[Len(lines)] \o SubSeq(more, 1, j)
    BY <1>16, <1>17
  <2>3. QED BY <1>15, <2>1, <2>2 DEF GoOn, M
<1>19. QED BY <1>18 DEF whole, lines, longer

-----------------------------------------------------------------------------
(* Spans and literals.                                                     *)

LEMMA SpanShape ==
  ASSUME NEW a \in Nat, NEW b \in Nat
  PROVE  /\ Span(a, b) \in Seq(Nat)
         /\ Len(Span(a, b)) = IF a < b THEN b - a ELSE 0
         /\ DOMAIN Span(a, b) = 1..Len(Span(a, b))
         /\ \A i \in 1..Len(Span(a, b)) : Span(a, b)[i] = a + i
         /\ \A p \in (a + 1)..b : p - a \in 1..Len(Span(a, b)) /\ Span(a, b)[p - a] = p
<1>1. CASE a < b
  <2>1. Span(a, b) = [i \in 1..(b - a) |-> a + i]
    BY <1>1 DEF Span
  <2>2. b - a \in Nat
    BY <1>1
  <2>3. Span(a, b) \in [1..(b - a) -> Nat]
    BY <2>1, <2>2
  <2>4. Span(a, b) \in Seq(Nat) /\ Len(Span(a, b)) = b - a
    BY <2>2, <2>3, FunctionIsSeq
  <2>5. \A p \in (a + 1)..b : p - a \in 1..(b - a) /\ a + (p - a) = p
    OBVIOUS
  <2>6. \A p \in (a + 1)..b : Span(a, b)[p - a] = p
    BY <2>1, <2>5
  <2>7. QED BY <1>1, <2>1, <2>4, <2>5, <2>6
<1>2. CASE ~(a < b)
  <2>1. Span(a, b) = <<>>
    BY <1>2 DEF Span
  <2>2. Span(a, b) \in Seq(Nat) /\ Len(Span(a, b)) = 0
    BY <2>1, EmptySeq
  <2>3. DOMAIN Span(a, b) = 1..Len(Span(a, b))
    BY <2>2, LenProperties
  <2>4. \A p \in (a + 1)..b : FALSE
    BY <1>2
  <2>5. \A i \in 1..Len(Span(a, b)) : FALSE
    BY <2>2
  <2>6. QED BY <1>2, <2>2, <2>3, <2>4, <2>5
<1>3. QED BY <1>1, <1>2

LEMMA SpanJoin ==
  ASSUME NEW a \in Nat, NEW b \in Nat, NEW c \in Nat, a <= b, b <= c
  PROVE  Span(a, b) \o Span(b, c) = Span(a, c)
<1> DEFINE s == Span(a, b)
           t == Span(b, c)
           u == Span(a, c)
<1>1. /\ s \in Seq(Nat) /\ Len(s) = b - a /\ \A i \in 1..Len(s) : s[i] = a + i
      /\ t \in Seq(Nat) /\ Len(t) = c - b /\ \A i \in 1..Len(t) : t[i] = b + i
      /\ u \in Seq(Nat) /\ Len(u) = c - a /\ \A i \in 1..Len(u) : u[i] = a + i
  <2>1. (IF a < b THEN b - a ELSE 0) = b - a /\ (IF b < c THEN c - b ELSE 0) = c - b
        /\ (IF a < c THEN c - a ELSE 0) = c - a
    OBVIOUS
  <2>2. s \in Seq(Nat) /\ Len(s) = b - a /\ \A i \in 1..Len(s) : s[i] = a + i
    BY <2>1, SpanShape
  <2>3. t \in Seq(Nat) /\ Len(t) = c - b /\ \A i \in 1..Len(t) : t[i] = b + i
    BY <2>1, SpanShape
  <2>4. u \in Seq(Nat) /\ Len(u) = c - a /\ \A i \in 1..Len(u) : u[i] = a + i
    BY <2>1, SpanShape
  <2>5. QED BY <2>2, <2>3, <2>4
<1> HIDE DEF s, t, u
<1>2. /\ s \o t \in Seq(Nat) /\ Len(s \o t) = Len(s) + Len(t)
      /\ \A i \in 1..(Len(s) + Len(t)) : (s \o t)[i] = IF i <= Len(s) THEN s[i] ELSE t[i - Len(s)]
  BY <1>1, ConcatProperties
<1>3. Len(s) + Len(t) = Len(u)
  BY <1>1
<1>4. ASSUME NEW i \in 1..Len(u)
      PROVE  (s \o t)[i] = u[i]
  <2>1. u[i] = a + i
    BY <1>1
  <2>2. (s \o t)[i] = IF i <= Len(s) THEN s[i] ELSE t[i - Len(s)]
    BY <1>2, <1>3
  <2>3. CASE i <= Len(s)
    <3>1. i \in 1..Len(s)
      BY <2>3, <1>1
    <3>2. QED BY <2>1, <2>2, <2>3, <3>1, <1>1
  <2>4. CASE ~(i <= Len(s))
    <3>1. i - Len(s) \in 1..Len(t) /\ b + (i - Len(s)) = a + i
      BY <2>4, <1>1
    <3>2. t[i - Len(s)] = b + (i - Len(s))
      BY <3>1, <1>1
    <3>3. QED BY <2>1, <2>2, <2>4, <3>1, <3>2
  <2>5. QED BY <2>3, <2>4
<1>5. s \o t = u
  BY <1>1, <1>2, <1>3, <1>4, SeqEqual
<1>6. QED BY <1>5 DEF s, t, u

\* A literal is the text but for its carriage returns.
LEMMA LiteralShape ==
  ASSUME NEW text \in Seq(Nat), NEW cells
  PROVE  /\ WithoutCR(cells, text) \in Seq(Nat)
         /\ Len(WithoutCR(cells, text)) <= Len(text)
         /\ \A i \in 1..Len(text) : CellAt(cells, text[i]) /= "r" =>
              \E k \in 1..Len(WithoutCR(cells, text)) : WithoutCR(cells, text)[k] = text[i]
         /\ (\A i \in 1..Len(text) : CellAt(cells, text[i]) /= "r") => WithoutCR(cells, text) = text
<1> DEFINE I == DOMAIN text \ Indices(cells, text, "r")
<1>1. DOMAIN text = 1..Len(text)
  BY LenProperties
<1>2. I = {i \in 1..Len(text) : CellAt(cells, text[i]) /= "r"}
  BY <1>1 DEF Indices
<1>3. WithoutCR(cells, text) = Pick(text, I)
  BY DEF WithoutCR
<1> HIDE DEF I
<1>4. I \in SUBSET (1..Len(text))
  BY <1>2
<1>5. /\ Pick(text, I) \in Seq(Nat)
      /\ Len(Pick(text, I)) = Cardinality(I) /\ Cardinality(I) <= Len(text)
      /\ \A k \in 1..Cardinality(I) : Pick(text, I)[k] = text[Nth(I, k)]
      /\ \A i \in I : \E k \in 1..Cardinality(I) : Nth(I, k) = i
  BY <1>4, PickType
<1>6. \A i \in I : \E k \in 1..Len(Pick(text, I)) : Pick(text, I)[k] = text[i]
  BY <1>5
<1>7. (\A i \in 1..Len(text) : CellAt(cells, text[i]) /= "r") => Pick(text, I) = text
  <2>1. SUFFICES ASSUME \A i \in 1..Len(text) : CellAt(cells, text[i]) /= "r"
                 PROVE  Pick(text, I) = text
    OBVIOUS
  <2>2. I = 1..Len(text)
    BY <1>2, <2>1
  <2>3. Pick(text, 1..Len(text)) = text
    BY PickAll
  <2>4. QED BY <2>2, <2>3
<1>8. \A i \in 1..Len(text) : CellAt(cells, text[i]) /= "r" =>
        \E k \in 1..Len(Pick(text, I)) : Pick(text, I)[k] = text[i]
  <2>1. \A i \in 1..Len(text) : CellAt(cells, text[i]) /= "r" => i \in I
    BY <1>2
  <2>2. QED BY <1>6, <2>1
<1>9. Pick(text, I) \in Seq(Nat) /\ Len(Pick(text, I)) <= Len(text)
  BY <1>5
<1>10. QED BY <1>3, <1>7, <1>8, <1>9, Zenon

LEMMA PutShape ==
  ASSUME NEW w \in [out : Seq(Nat), prev : Nat], NEW offset \in Nat, NEW lit \in Seq(Nat)
  PROVE  /\ Put(w, offset, lit) \in [out : Seq(Nat), prev : Nat]
         /\ Put(w, offset, lit).prev = offset + Len(lit)
         /\ Put(w, offset, lit).out = w.out \o Span(w.prev, offset) \o lit
<1>1. w.out \in Seq(Nat) /\ w.prev \in Nat
  OBVIOUS
<1>2. Span(w.prev, offset) \in Seq(Nat)
  BY <1>1, SpanShape
<1>3. w.out \o Span(w.prev, offset) \o lit \in Seq(Nat)
  BY <1>1, <1>2, ConcatProperties
<1>4. offset + Len(lit) \in Nat
  BY LenProperties
<1>5. QED BY <1>3, <1>4 DEF Put

\* Every newline up to the offset that is written is in the text.
IsNewline(cells, p) == p \in 1..Len(cells) /\ cells[p] = "n"

Covers(cells, w) ==
  \A p \in 1..w.prev : IsNewline(cells, p) => \E i \in 1..Len(w.out) : w.out[i] = p

LEMMA InConcat ==
  ASSUME NEW s \in Seq(Nat), NEW t \in Seq(Nat)
  PROVE  /\ \A i \in 1..Len(s) : \E k \in 1..Len(s \o t) : (s \o t)[k] = s[i]
         /\ \A i \in 1..Len(t) : \E k \in 1..Len(s \o t) : (s \o t)[k] = t[i]
<1>0. Len(s) \in Nat /\ Len(t) \in Nat /\ Len(s \o t) = Len(s) + Len(t)
  BY LenProperties, ConcatProperties
<1>1. \A i \in 1..(Len(s) + Len(t)) : (s \o t)[i] = IF i <= Len(s) THEN s[i] ELSE t[i - Len(s)]
  BY ConcatProperties
<1>2. ASSUME NEW i \in 1..Len(s)
      PROVE  \E k \in 1..Len(s \o t) : (s \o t)[k] = s[i]
  <2>1. i \in 1..(Len(s) + Len(t)) /\ i <= Len(s)
    BY <1>0
  <2>2. QED BY <2>1, <1>0, <1>1
<1>3. ASSUME NEW i \in 1..Len(t)
      PROVE  \E k \in 1..Len(s \o t) : (s \o t)[k] = t[i]
  <2>1. PICK k \in 1..(Len(s) + Len(t)) : k = Len(s) + i
    <3>1. PICK a \in Nat, b \in Nat : a = Len(s) /\ b = Len(t)
      BY <1>0
    <3>2. a + i \in 1..(a + b)
      BY <3>1
    <3>3. QED BY <3>1, <3>2
  <2>2. ~(k <= Len(s)) /\ k - Len(s) = i
    BY <2>1, <1>0
  <2>3. (s \o t)[k] = t[i]
    BY <2>2, <1>1
  <2>4. QED BY <2>3, <1>0
<1>4. QED BY <1>2, <1>3

LEMMA PutCovers ==
  ASSUME NEW w \in [out : Seq(Nat), prev : Nat], NEW offset \in Nat, NEW lit \in Seq(Nat),
         NEW cells, Covers(cells, w),
         \A p \in (offset + 1)..(offset + Len(lit)) :
            IsNewline(cells, p) => \E k \in 1..Len(lit) : lit[k] = p
  PROVE  Covers(cells, Put(w, offset, lit))
<1> DEFINE span == Span(w.prev, offset)
           out == w.out \o span \o lit
<1>1. w.out \in Seq(Nat) /\ w.prev \in Nat /\ Len(lit) \in Nat
  BY LenProperties
<1>2. /\ span \in Seq(Nat)
      /\ \A p \in (w.prev + 1)..offset : p - w.prev \in 1..Len(span) /\ span[p - w.prev] = p
  BY <1>1, SpanShape
<1>3. w.out \o span \in Seq(Nat)
  BY <1>1, <1>2, ConcatProperties
<1>4. \A i \in 1..Len(w.out \o span) : \E k \in 1..Len(out) : out[k] = (w.out \o span)[i]
  <2> HIDE DEF span
  <2> QED BY <1>3, InConcat
<1>5. \A i \in 1..Len(lit) : \E k \in 1..Len(out) : out[k] = lit[i]
  <2> HIDE DEF span
  <2> QED BY <1>3, InConcat
<1>6. \A i \in 1..Len(w.out) : \E k \in 1..Len(w.out \o span) : (w.out \o span)[k] = w.out[i]
  <2> HIDE DEF span
  <2> QED BY <1>1, <1>2, InConcat
<1>7. \A i \in 1..Len(span) : \E k \in 1..Len(w.out \o span) : (w.out \o span)[k] = span[i]
  <2> HIDE DEF span
  <2> QED BY <1>1, <1>2, InConcat
<1>8. ASSUME NEW p \in 1..(offset + Len(lit)), IsNewline(cells, p)
      PROVE  \E i \in 1..Len(out) : out[i] = p
  <2> HIDE DEF span, out
  <2>1. CASE p <= w.prev
    <3>1. p \in 1..w.prev
      BY <2>1, <1>1
    <3>2. PICK i \in 1..Len(w.out) : w.out[i] = p
      BY <3>1, <1>8 DEF Covers
    <3>3. PICK j \in 1..Len(w.out \o span) : (w.out \o span)[j] = p
      BY <3>2, <1>6
    <3>4. QED BY <3>3, <1>4
  <2>2. CASE ~(p <= w.prev) /\ p <= offset
    <3>1. p \in (w.prev + 1)..offset
      BY <2>2, <1>1
    <3>2. PICK i \in 1..Len(span) : span[i] = p
      BY <3>1, <1>2
    <3>3. PICK j \in 1..Len(w.out \o span) : (w.out \o span)[j] = p
      BY <3>2, <1>7
    <3>4. QED BY <3>3, <1>4
  <2>3. CASE ~(p <= offset)
    <3>1. p \in (offset + 1)..(offset + Len(lit))
      BY <2>3, <1>1
    <3>2. PICK i \in 1..Len(lit) : lit[i] = p
      BY <3>1, <1>8
    <3>3. QED BY <3>2, <1>5
  <2>4. QED BY <2>1, <2>2, <2>3
<1>9. Put(w, offset, lit).prev = offset + Len(lit) /\ Put(w, offset, lit).out = out
  BY DEF Put
<1>10. QED
  <2> HIDE DEF out
  <2> QED BY <1>8, <1>9 DEF Covers

-----------------------------------------------------------------------------
(* The inductive invariant.                                                *)

Alphabet == {"c", "/", "*", "m", "n", "r"}
Token == [kind : Kinds, from : Nat, to : Nat]

TypeInv ==
  /\ file \in Seq(Token)
  /\ data \in Seq(Alphabet)
  /\ written \in [out : Seq(Nat), prev : Nat]
  /\ semi \in BOOLEAN
  /\ written.prev <= Len(data)

\* Every cell of the file is a cell of one of its tokens.
CellsOf(kind) == {Cells[kind][j] : j \in 1..Len(Cells[kind])}

TokensInv ==
  /\ \A i \in 1..Len(file) :
       /\ file[i].to = file[i].from + Len(Cells[file[i].kind])
       /\ file[i].to <= Len(data)
       /\ \A p \in (file[i].from + 1)..file[i].to : data[p] \in CellsOf(file[i].kind)
  /\ \A p \in 1..Len(data) :
       \E i \in 1..Len(file) : p \in (file[i].from + 1)..file[i].to

\* A tidy file is written cell by cell, and no code is left to write.
TidyInv ==
  Tidy => /\ written.out = Span(0, written.prev)
          /\ \A p \in (written.prev + 1)..Len(data) : data[p] \in {"n", "r"}
          /\ semi => written.prev = Len(data) /\ EndsStatement(Len(file) + 1)

WindowInv == TypeInv /\ Covers(data, written) /\ TokensInv /\ TidyInv

\* The cells that tokens are made of.
LEMMA CellsShape ==
  ASSUME NEW kind \in Kinds
  PROVE  /\ Cells[kind] \in Seq(Alphabet) /\ Len(Cells[kind]) \in Nat \ {0}
         /\ kind \in Newlines =>
              \A j \in 1..Len(Cells[kind]) :
                 Cells[kind][j] = IF j = Len(Cells[kind]) THEN "n" ELSE "r"
         /\ kind \notin Newlines \cup {"rawCR", "blockCR"} =>
              \A j \in 1..Len(Cells[kind]) : Cells[kind][j] /= "r"
         /\ kind \in {"line", "mark", "block"} => \A j \in 1..Len(Cells[kind]) : Cells[kind][j] /= "n"
         /\ kind \in (Comments \cup Newlines) \ {"blockText"} =>
              \A j \in 1..Len(Cells[kind]) : Cells[kind][j] \in {"/", "*", "n", "r"}
         /\ kind \notin Comments \cup Newlines \cup {"deref"} =>
              \A j \in 1..Len(Cells[kind]) : Cells[kind][j] \in {"c", "n", "r"}
         /\ kind = "mark" => Len(Cells[kind]) = 1
<1>1. kind \in {"word", "op", "deref", "nl", "crnl", "line", "mark", "block", "blockStar",
                "blockText", "blockCR", "raw", "rawCR"}
  BY KindsAssumption DEF Cells
<1>2. CASE kind \in {"word", "op"}
  <2>1. Cells[kind] = <<"c">>
    BY <1>2 DEF Cells
  <2>2. QED BY <1>2, <2>1 DEF Alphabet, Newlines, Comments, Blocks
<1>3. CASE kind = "deref"
  <2>1. Cells[kind] = <<"*">>
    BY <1>3 DEF Cells
  <2>2. QED BY <1>3, <2>1 DEF Alphabet, Newlines, Comments, Blocks
<1>4. CASE kind = "nl"
  <2>1. Cells[kind] = <<"n">>
    BY <1>4 DEF Cells
  <2>2. QED BY <1>4, <2>1 DEF Alphabet, Newlines, Comments, Blocks
<1>5. CASE kind = "crnl"
  <2>1. Cells[kind] = <<"r", "n">>
    BY <1>5 DEF Cells
  <2>2. QED BY <1>5, <2>1 DEF Alphabet, Newlines, Comments, Blocks
<1>6. CASE kind \in {"line", "mark", "block"}
  <2>1. Cells[kind] = <<"/">>
    BY <1>6 DEF Cells
  <2>2. QED BY <1>6, <2>1 DEF Alphabet, Newlines, Comments, Blocks
<1>7. CASE kind = "blockStar"
  <2>1. Cells[kind] = <<"/", "n", "*">>
    BY <1>7 DEF Cells
  <2>2. QED BY <1>7, <2>1 DEF Alphabet, Newlines, Comments, Blocks
<1>8. CASE kind = "blockText"
  <2>1. Cells[kind] = <<"/", "n", "m">>
    BY <1>8 DEF Cells
  <2>2. QED BY <1>8, <2>1 DEF Alphabet, Newlines, Comments, Blocks
<1>9. CASE kind = "blockCR"
  <2>1. Cells[kind] = <<"/", "r", "n", "r", "n", "r", "n", "*", "/">>
    BY <1>9 DEF Cells
  <2>2. QED BY <1>9, <2>1 DEF Alphabet, Newlines, Comments, Blocks
<1>10. CASE kind = "raw"
  <2>1. Cells[kind] = <<"c", "n", "c">>
    BY <1>10 DEF Cells
  <2>2. QED BY <1>10, <2>1 DEF Alphabet, Newlines, Comments, Blocks
<1>11. CASE kind = "rawCR"
  <2>1. Cells[kind] = <<"c", "r", "n", "r", "n", "c">>
    BY <1>11 DEF Cells
  <2>2. QED BY <1>11, <2>1 DEF Alphabet, Newlines, Comments, Blocks
<1>12. QED BY <1>1, <1>2, <1>3, <1>4, <1>5, <1>6, <1>7, <1>8, <1>9, <1>10, <1>11

\* What a token adds to the file.
LEMMA WriteGrows ==
  ASSUME TypeInv, NEW kind \in Kinds, Write(kind)
  PROVE  /\ file' \in Seq(Token) /\ Len(file') = Len(file) + 1 /\ Len(file) \in Nat
         /\ \A i \in 1..Len(file) : file'[i] = file[i]
         /\ file'[Len(file) + 1] = [kind |-> kind, from |-> Len(data), to |-> Len(data')]
         /\ data' \in Seq(Alphabet) /\ Len(data) \in Nat
         /\ Len(data') = Len(data) + Len(Cells[kind]) /\ Len(Cells[kind]) \in Nat \ {0}
         /\ \A p \in 1..Len(data) : data'[p] = data[p]
         /\ \A j \in 1..Len(Cells[kind]) : data'[Len(data) + j] = Cells[kind][j]
         /\ \A p \in (Len(data) + 1)..Len(data') :
              p - Len(data) \in 1..Len(Cells[kind]) /\ data'[p] = Cells[kind][p - Len(data)]
<1> DEFINE new == Cells[kind]
<1>1. data \in Seq(Alphabet) /\ new \in Seq(Alphabet) /\ Len(data) \in Nat
      /\ Len(new) \in Nat \ {0} /\ file \in Seq(Token) /\ Len(file) \in Nat
  BY CellsShape, LenProperties DEF TypeInv
<1>2. data' = data \o new
  BY DEF Write
<1>3. file' = Append(file, [kind |-> kind, from |-> Len(data), to |-> Len(data')])
  BY DEF Write
<1> HIDE DEF new
<1>4. /\ data' \in Seq(Alphabet) /\ Len(data') = Len(data) + Len(new)
      /\ \A i \in 1..(Len(data) + Len(new)) :
           data'[i] = IF i <= Len(data) THEN data[i] ELSE new[i - Len(data)]
  BY <1>1, <1>2, ConcatProperties
<1>5. [kind |-> kind, from |-> Len(data), to |-> Len(data')] \in Token
  BY <1>1, <1>4 DEF Token
<1>6. /\ file' \in Seq(Token) /\ Len(file') = Len(file) + 1
      /\ \A i \in 1..Len(file) : file'[i] = file[i]
      /\ file'[Len(file) + 1] = [kind |-> kind, from |-> Len(data), to |-> Len(data')]
  BY <1>1, <1>3, <1>5, AppendProperties
<1>7. ASSUME NEW p \in 1..Len(data)
      PROVE  data'[p] = data[p]
  <2>1. p \in 1..(Len(data) + Len(new)) /\ p <= Len(data)
    BY <1>1
  <2>2. QED BY <2>1, <1>4
<1>8. ASSUME NEW p \in (Len(data) + 1)..Len(data')
      PROVE  p - Len(data) \in 1..Len(new) /\ data'[p] = new[p - Len(data)]
  <2>1. p \in 1..(Len(data) + Len(new)) /\ ~(p <= Len(data)) /\ p - Len(data) \in 1..Len(new)
    BY <1>1, <1>4
  <2>2. QED BY <2>1, <1>4
<1>9. ASSUME NEW j \in 1..Len(new)
      PROVE  data'[Len(data) + j] = new[j]
  <2>0. Len(data') = Len(data) + Len(new) /\ Len(data) \in Nat /\ Len(new) \in Nat
    BY <1>1, <1>4
  <2>1. PICK p \in (Len(data) + 1)..Len(data') : p = Len(data) + j
    BY <2>0
  <2>2. p - Len(data) = j
    BY <2>1, <1>1
  <2>3. QED BY <2>1, <2>2, <1>8
<1>10. QED BY <1>1, <1>4, <1>6, <1>7, <1>8, <1>9 DEF new

\* The text of the token, as the scanner returns it.
LEMMA LiteralOfToken ==
  ASSUME TypeInv, NEW kind \in Kinds, Write(kind)
  PROVE  LET lit == WithoutCR(data', Span(Len(data), Len(data')))
         IN /\ lit \in Seq(Nat) /\ Len(lit) \in Nat
            /\ Len(data) + Len(lit) <= Len(data')
            /\ \A p \in (Len(data) + 1)..(Len(data) + Len(lit)) :
                 data'[p] = "n" => \E k \in 1..Len(lit) : lit[k] = p
            /\ (kind \notin Newlines \cup {"rawCR", "blockCR"} =>
                 lit = Span(Len(data), Len(data')))
<1> DEFINE at == Len(data)
           end == Len(data')
           text == Span(at, end)
           lit == WithoutCR(data', text)
<1>1. /\ at \in Nat /\ end = at + Len(Cells[kind]) /\ Len(Cells[kind]) \in Nat \ {0}
      /\ \A p \in (at + 1)..end : p - at \in 1..Len(Cells[kind]) /\ data'[p] = Cells[kind][p - at]
  BY WriteGrows
<1>2. end \in Nat /\ at < end
  BY <1>1
<1>3. /\ text \in Seq(Nat) /\ Len(text) = end - at
      /\ \A i \in 1..Len(text) : text[i] = at + i
      /\ \A p \in (at + 1)..end : p - at \in 1..Len(text) /\ text[p - at] = p
  BY <1>1, <1>2, SpanShape
<1> HIDE DEF at, end, text
<1>4. /\ lit \in Seq(Nat) /\ Len(lit) <= Len(text)
      /\ \A i \in 1..Len(text) : CellAt(data', text[i]) /= "r" =>
           \E k \in 1..Len(lit) : lit[k] = text[i]
      /\ (\A i \in 1..Len(text) : CellAt(data', text[i]) /= "r") => lit = text
  BY <1>3, LiteralShape
<1> HIDE DEF lit
<1>5. Len(lit) \in Nat
  BY <1>4, LenProperties
<1>6. at + Len(lit) <= end
  BY <1>1, <1>2, <1>3, <1>4, <1>5
<1>7. ASSUME NEW p \in (at + 1)..(at + Len(lit)), data'[p] = "n"
      PROVE  \E k \in 1..Len(lit) : lit[k] = p
  <2>1. p \in (at + 1)..end /\ p /= 0
    BY <1>1, <1>2, <1>5, <1>6
  <2>2. p - at \in 1..Len(text) /\ text[p - at] = p
    BY <2>1, <1>3
  <2>3. CellAt(data', p) = "n"
    BY <1>7, <2>1 DEF CellAt, NoPosition
  <2>4. \E k \in 1..Len(lit) : lit[k] = text[p - at]
    BY <2>2, <2>3, <1>4
  <2>5. QED BY <2>2, <2>4
<1>8. ASSUME kind \notin Newlines \cup {"rawCR", "blockCR"}
      PROVE  lit = text
  <2>1. ASSUME NEW i \in 1..Len(text)
        PROVE  CellAt(data', text[i]) /= "r"
    <3>1. PICK p \in (at + 1)..end : p = at + i
      BY <1>1, <1>2, <1>3
    <3>2. p /= 0 /\ text[i] = p
      BY <3>1, <1>1, <1>3
    <3>3. data'[p] /= "r"
      BY <1>8, <1>1, CellsShape
    <3>4. QED BY <3>2, <3>3 DEF CellAt, NoPosition
  <2>2. QED BY <2>1, <1>4
<1>9. QED BY <1>4, <1>5, <1>6, <1>7, <1>8 DEF lit, text, at, end

\* The newline of a semicolon is written.
LEMMA PutNewline ==
  ASSUME NEW w \in [out : Seq(Nat), prev : Nat], NEW b \in Nat \ {0}, NEW cells, Covers(cells, w)
  PROVE  /\ Put(w, b - 1, <<b>>) \in [out : Seq(Nat), prev : Nat]
         /\ Put(w, b - 1, <<b>>).prev = b
         /\ Put(w, b - 1, <<b>>).out = w.out \o Span(w.prev, b - 1) \o <<b>>
         /\ Covers(cells, Put(w, b - 1, <<b>>))
<1>1. b - 1 \in Nat /\ b - 1 + 1 = b
  OBVIOUS
<1>2. <<b>> \in Seq(Nat) /\ Len(<<b>>) = 1 /\ <<b>>[1] = b
  OBVIOUS
<1>3. ASSUME NEW p \in (b - 1 + 1)..(b - 1 + Len(<<b>>))
      PROVE  \E k \in 1..Len(<<b>>) : <<b>>[k] = p
  <2>1. p = b
    BY <1>2
  <2>2. 1 \in 1..Len(<<b>>)
    BY <1>2
  <2>3. QED BY <2>1, <2>2, <1>2
<1>4. Covers(cells, Put(w, b - 1, <<b>>))
  BY <1>1, <1>2, <1>3, PutCovers
<1>5. Put(w, b - 1, <<b>>) \in [out : Seq(Nat), prev : Nat]
  BY <1>1, <1>2, PutShape
<1>6. /\ Put(w, b - 1, <<b>>).prev = b - 1 + Len(<<b>>)
      /\ Put(w, b - 1, <<b>>).out = w.out \o Span(w.prev, b - 1) \o <<b>>
  BY DEF Put
<1>7. QED BY <1>1, <1>2, <1>4, <1>5, <1>6

LEMMA WriteCovers ==
  ASSUME TypeInv, Covers(data, written), NEW kind \in Kinds, Write(kind)
  PROVE  TypeInv' /\ Covers(data', written')
<1> DEFINE at == Len(data)
           end == Len(data')
           lit == WithoutCR(data', Span(at, end))
           broken == {p \in at + 1 .. end : data'[p] = "n"}
<1>1. /\ file' \in Seq(Token) /\ data' \in Seq(Alphabet)
      /\ at \in Nat /\ end = at + Len(Cells[kind]) /\ Len(Cells[kind]) \in Nat \ {0}
      /\ \A p \in 1..at : data'[p] = data[p]
  BY WriteGrows
<1>2. end \in Nat \ {0} /\ at < end
  BY <1>1
<1>3. /\ lit \in Seq(Nat) /\ Len(lit) \in Nat /\ at + Len(lit) <= end
      /\ \A p \in (at + 1)..(at + Len(lit)) :
           IsNewline(data', p) => \E k \in 1..Len(lit) : lit[k] = p
  BY LiteralOfToken DEF IsNewline
<1>4. written \in [out : Seq(Nat), prev : Nat] /\ written.prev \in Nat /\ written.prev <= at
  BY DEF TypeInv
<1>5. Covers(data', written)
  <2>1. \A p \in 1..written.prev : p \in 1..at
    BY <1>1, <1>4
  <2>2. \A p \in 1..written.prev : IsNewline(data', p) => IsNewline(data, p)
    BY <2>1, <1>1 DEF IsNewline
  <2>3. QED BY <2>2 DEF Covers
<1>6. /\ Put(written, at, lit) \in [out : Seq(Nat), prev : Nat]
      /\ Put(written, at, lit).prev = at + Len(lit)
      /\ Covers(data', Put(written, at, lit))
  <2> HIDE DEF at, end, lit
  <2>1. Put(written, at, lit) \in [out : Seq(Nat), prev : Nat]
    BY <1>1, <1>3, <1>4, PutShape
  <2>2. Put(written, at, lit).prev = at + Len(lit)
    BY DEF Put
  <2>3. Covers(data', Put(written, at, lit))
    BY <1>1, <1>3, <1>4, <1>5, PutCovers
  <2>4. QED BY <2>1, <2>2, <2>3
<1>7. \/ kind \in Newlines /\ semi /\ written' = Put(written, end - 1, <<end>>) /\ semi' = FALSE
      \/ kind \in Newlines /\ ~semi /\ UNCHANGED <<written, semi>>
      \/ /\ kind \in Comments /\ semi /\ broken /= {} /\ semi' = FALSE
         /\ written' = Put(Put(written, at, lit), Nth(broken, 1) - 1, <<Nth(broken, 1)>>)
      \/ written' = Put(written, at, lit) /\ UNCHANGED semi
      \/ written' = Put(written, at, lit) /\ semi' = (kind \in Operands)
  BY DEF Write, Scan
<1>8. broken /= {} => Nth(broken, 1) \in (at + 1)..end
  <2>1. broken \in SUBSET (0..end)
    BY <1>1, <1>2
  <2>2. broken \in SUBSET ((at + 1)..end)
    OBVIOUS
  <2>3. QED
    <3> HIDE DEF broken, at, end
    <3> QED BY <2>1, <2>2, <1>2, NthFirst
<1> HIDE DEF at, end, lit, broken
<1>9. /\ written' \in [out : Seq(Nat), prev : Nat] /\ written'.prev <= end
      /\ Covers(data', written') /\ semi' \in BOOLEAN
  <2>1. CASE kind \in Newlines /\ semi /\ written' = Put(written, end - 1, <<end>>) /\ semi' = FALSE
    <3>1. /\ Put(written, end - 1, <<end>>) \in [out : Seq(Nat), prev : Nat]
          /\ Put(written, end - 1, <<end>>).prev = end
          /\ Covers(data', Put(written, end - 1, <<end>>))
      BY <1>2, <1>4, <1>5, PutNewline
    <3>2. semi' \in BOOLEAN
      BY <2>1
    <3>3. written' = Put(written, end - 1, <<end>>) /\ end <= end
      BY <2>1, <1>2
    <3>4. QED BY <3>1, <3>2, <3>3
  <2>2. CASE kind \in Newlines /\ ~semi /\ UNCHANGED <<written, semi>>
    <3>1. written' = written /\ semi' = semi
      BY <2>2
    <3>2. written'.prev <= end
      BY <3>1, <1>1, <1>2, <1>4
    <3>3. semi' \in BOOLEAN
      BY <3>1 DEF TypeInv
    <3>4. QED BY <3>1, <3>2, <3>3, <1>4, <1>5
  <2>3. CASE /\ kind \in Comments /\ semi /\ broken /= {} /\ semi' = FALSE
             /\ written' = Put(Put(written, at, lit), Nth(broken, 1) - 1, <<Nth(broken, 1)>>)
    <3> DEFINE b == Nth(broken, 1)
               w == Put(written, at, lit)
    <3>1. b \in Nat \ {0} /\ b <= end
      BY <2>3, <1>8, <1>1, <1>2
    <3>2. w \in [out : Seq(Nat), prev : Nat] /\ Covers(data', w)
      BY <1>6
    <3> HIDE DEF b, w
    <3>3. /\ Put(w, b - 1, <<b>>) \in [out : Seq(Nat), prev : Nat]
          /\ Put(w, b - 1, <<b>>).prev = b
          /\ Covers(data', Put(w, b - 1, <<b>>))
      BY <3>1, <3>2, PutNewline
    <3>4. written' = Put(w, b - 1, <<b>>)
      BY <2>3 DEF w, b
    <3>5. QED BY <2>3, <3>1, <3>3, <3>4
  <2>4. CASE written' = Put(written, at, lit) /\ UNCHANGED semi
    <3>1. semi' \in BOOLEAN
      BY <2>4 DEF TypeInv
    <3>2. QED BY <2>4, <3>1, <1>3, <1>6
  <2>5. CASE written' = Put(written, at, lit) /\ semi' = (kind \in Operands)
    <3>1. semi' \in BOOLEAN
      BY <2>5
    <3>2. QED BY <2>5, <3>1, <1>3, <1>6
  <2>6. QED BY <1>7, <2>1, <2>2, <2>3, <2>4, <2>5
<1>10. QED BY <1>1, <1>9 DEF TypeInv, end

LEMMA WriteTokens ==
  ASSUME TypeInv, TokensInv, NEW kind \in Kinds, Write(kind)
  PROVE  TokensInv'
<1> DEFINE at == Len(data)
           end == Len(data')
           n == Len(file)
<1>1. /\ file' \in Seq(Token) /\ Len(file') = n + 1 /\ n \in Nat
      /\ \A i \in 1..n : file'[i] = file[i]
      /\ file'[n + 1] = [kind |-> kind, from |-> at, to |-> end]
  BY WriteGrows
<1>2. /\ at \in Nat /\ end = at + Len(Cells[kind]) /\ Len(Cells[kind]) \in Nat \ {0}
      /\ \A p \in 1..at : data'[p] = data[p]
      /\ \A p \in (at + 1)..end :
           p - at \in 1..Len(Cells[kind]) /\ data'[p] = Cells[kind][p - at]
  BY WriteGrows
<1>3. \A i \in 1..n : file[i] \in Token
  BY ElementOfSeq DEF TypeInv
<1>4. end \in Nat /\ at < end
  BY <1>2
<1>5. ASSUME NEW i \in 1..(n + 1)
      PROVE  /\ file'[i].to = file'[i].from + Len(Cells[file'[i].kind])
             /\ file'[i].to <= end
             /\ \A p \in (file'[i].from + 1)..file'[i].to : data'[p] \in CellsOf(file'[i].kind)
  <2>1. CASE i \in 1..n
    <3>1. /\ file[i].to = file[i].from + Len(Cells[file[i].kind])
          /\ file[i].to <= at
          /\ \A p \in (file[i].from + 1)..file[i].to : data[p] \in CellsOf(file[i].kind)
      BY <2>1 DEF TokensInv
    <3>2. file[i].from \in Nat /\ file[i].to \in Nat
      BY <2>1, <1>3 DEF Token
    <3>3. \A p \in (file[i].from + 1)..file[i].to : p \in 1..at
      BY <3>1, <3>2, <1>2
    <3>4. \A p \in (file[i].from + 1)..file[i].to : data'[p] \in CellsOf(file[i].kind)
      BY <3>1, <3>3, <1>2
    <3>5. file[i].to <= end
      BY <3>1, <3>2, <1>2, <1>4
    <3>6. QED BY <2>1, <3>1, <3>4, <3>5, <1>1
  <2>2. CASE i = n + 1
    <3>1. file'[i].kind = kind /\ file'[i].from = at /\ file'[i].to = end
      BY <2>2, <1>1
    <3>2. \A p \in (at + 1)..end : data'[p] \in CellsOf(kind)
      BY <1>2 DEF CellsOf
    <3>3. QED BY <3>1, <3>2, <1>2, <1>4
  <2>3. QED BY <2>1, <2>2, <1>1
<1>6. ASSUME NEW p \in 1..end
      PROVE  \E i \in 1..(n + 1) : p \in (file'[i].from + 1)..file'[i].to
  <2>1. CASE p \in 1..at
    <3>1. PICK i \in 1..n : p \in (file[i].from + 1)..file[i].to
      BY <2>1 DEF TokensInv
    <3>2. i \in 1..(n + 1) /\ file'[i] = file[i]
      BY <1>1
    <3>3. QED BY <3>1, <3>2
  <2>2. CASE p \notin 1..at
    <3>1. p \in (at + 1)..end
      BY <2>2, <1>2, <1>4
    <3>2. n + 1 \in 1..(n + 1) /\ file'[n + 1].from = at /\ file'[n + 1].to = end
      BY <1>1
    <3>3. QED BY <3>1, <3>2
  <2>3. QED BY <2>1, <2>2
<1>7. QED
  <2> HIDE DEF at
  <2> QED BY <1>1, <1>5, <1>6 DEF TokensInv

LEMMA SpanOne ==
  ASSUME NEW b \in Nat \ {0}
  PROVE  Span(b - 1, b) = <<b>>
<1>1. b - 1 < b /\ b - (b - 1) = 1
  OBVIOUS
<1>2. Span(b - 1, b) = [i \in 1..1 |-> b - 1 + i]
  BY <1>1 DEF Span
<1>3. \A i \in 1..1 : b - 1 + i = b
  OBVIOUS
<1>4. QED BY <1>2, <1>3

LEMMA SpanGrows ==
  ASSUME NEW b \in Nat, NEW c \in Nat, b <= c
  PROVE  Span(0, b) \o Span(b, c) = Span(0, c)
<1>1. 0 \in Nat /\ 0 <= b
  OBVIOUS
<1>2. QED BY <1>1, SpanJoin

\* What the scanner does with a token of a tidy file.
LEMMA TidyToken ==
  ASSUME TypeInv, TidyInv, Tidy', NEW kind \in Kinds, Write(kind), NEW m \in Nat, m = Len(file)
  PROVE  /\ Tidy
         /\ kind \notin {"rawCR", "blockCR"}
         /\ kind \in {"blockStar", "blockText"} => ~semi
         /\ kind \in Operands => EndsStatement(m + 2)'
         /\ kind \in Comments /\ semi => EndsStatement(m + 2)'
<1>1. /\ file \in Seq(Token) /\ file' \in Seq(Token) /\ Len(file') = m + 1
      /\ \A i \in 1..m : file'[i] = file[i]
      /\ file'[m + 1].kind = kind
  <2>1. /\ file' \in Seq(Token) /\ Len(file') = Len(file) + 1
        /\ \A i \in 1..Len(file) : file'[i] = file[i]
        /\ file'[Len(file) + 1] = [kind |-> kind, from |-> Len(data), to |-> Len(data')]
    BY WriteGrows
  <2>2. file \in Seq(Token)
    BY DEF TypeInv
  <2>3. file'[m + 1].kind = kind
    BY <2>1
  <2>4. QED BY <2>1, <2>2, <2>3
<1>2. DOMAIN file = 1..m /\ DOMAIN file' = 1..(m + 1)
  BY <1>1, LenProperties
<1>3. ASSUME NEW i \in 1..(m + 1)
      PROVE  EndsStatement(i)' <=> EndsStatement(i)
  <2>1. \A j \in 1..(i - 1) : j \in 1..m /\ file'[j] = file[j]
    BY <1>1
  <2>2. \A j \in 1..(i - 1) : \A k \in (j + 1)..(i - 1) : k \in 1..(i - 1)
    OBVIOUS
  <2>3. \A j \in 1..(i - 1) : \A k \in (j + 1)..(i - 1) : file'[k] = file[k]
    BY <2>1, <2>2
  <2>4. QED BY <2>1, <2>3 DEF EndsStatement
<1>4. \A i \in 1..(m + 1) :
        /\ file'[i].kind \notin {"rawCR", "blockCR"}
        /\ file'[i].kind \in {"blockStar", "blockText"} => ~EndsStatement(i)
  BY <1>2, <1>3 DEF Tidy
<1>5. Tidy
  <2>1. \A i \in 1..m : i \in 1..(m + 1)
    OBVIOUS
  <2>2. QED BY <2>1, <1>1, <1>2, <1>4 DEF Tidy
<1>6. m + 1 \in 1..(m + 1)
  OBVIOUS
<1>7. kind \notin {"rawCR", "blockCR"} /\ (kind \in {"blockStar", "blockText"} => ~EndsStatement(m + 1))
  BY <1>1, <1>4, <1>6
<1>8. semi => EndsStatement(m + 1)
  BY <1>5 DEF TidyInv
<1>9. kind \in Operands => EndsStatement(m + 2)'
  <2>1. m + 1 \in 1..(m + 2 - 1) /\ \A k \in (m + 1 + 1)..(m + 2 - 1) : FALSE
    OBVIOUS
  <2>2. QED BY <2>1, <1>1 DEF EndsStatement
<1>10. kind \in Comments /\ EndsStatement(m + 1) => EndsStatement(m + 2)'
  <2>1. SUFFICES ASSUME kind \in Comments, EndsStatement(m + 1)
                 PROVE  EndsStatement(m + 2)'
    OBVIOUS
  <2>2. PICK j \in 1..(m + 1 - 1) : /\ file[j].kind \in Operands
                                   /\ \A k \in (j + 1)..(m + 1 - 1) : file[k].kind \in Comments
    BY <2>1 DEF EndsStatement
  <2>3. j \in 1..m /\ j \in 1..(m + 2 - 1)
    OBVIOUS
  <2>4. file'[j].kind \in Operands
    BY <2>2, <2>3, <1>1
  <2>5. ASSUME NEW k \in (j + 1)..(m + 2 - 1)
        PROVE  file'[k].kind \in Comments
    <3>1. CASE k = m + 1
      BY <3>1, <1>1, <2>1
    <3>2. CASE k /= m + 1
      <4>1. k \in 1..m /\ k \in (j + 1)..(m + 1 - 1)
        BY <3>2, <2>3
      <4>2. QED BY <4>1, <2>2, <1>1
    <3>3. QED BY <3>1, <3>2
  <2>6. QED BY <2>3, <2>4, <2>5 DEF EndsStatement
<1>11. QED BY <1>5, <1>7, <1>8, <1>9, <1>10

LEMMA WriteTidy ==
  ASSUME TypeInv, TidyInv, NEW kind \in Kinds, Write(kind)
  PROVE  TidyInv'
<1> SUFFICES ASSUME Tidy'
             PROVE  /\ written'.out = Span(0, written'.prev)
                    /\ \A p \in (written'.prev + 1)..Len(data') : data'[p] \in {"n", "r"}
                    /\ semi' => written'.prev = Len(data') /\ EndsStatement(Len(file) + 1)'
  BY DEF TidyInv
<1> DEFINE at == Len(data)
           end == Len(data')
           lit == WithoutCR(data', Span(at, end))
           broken == {p \in at + 1 .. end : data'[p] = "n"}
           prev == written.prev
<1>0. PICK m \in Nat : m = Len(file)
  BY LenProperties DEF TypeInv
<1>1. /\ Len(file') = m + 1 /\ at \in Nat
      /\ end = at + Len(Cells[kind]) /\ Len(Cells[kind]) \in Nat \ {0}
      /\ \A p \in 1..at : data'[p] = data[p]
      /\ \A p \in (at + 1)..end :
           p - at \in 1..Len(Cells[kind]) /\ data'[p] = Cells[kind][p - at]
  BY <1>0, WriteGrows
<1>2. end \in Nat \ {0} /\ at < end /\ end - 1 \in Nat /\ at <= end - 1
  BY <1>1
<1>3. /\ Tidy
      /\ kind \notin {"rawCR", "blockCR"}
      /\ kind \in {"blockStar", "blockText"} => ~semi
      /\ kind \in Operands => EndsStatement(m + 2)'
      /\ kind \in Comments /\ semi => EndsStatement(m + 2)'
  BY <1>0, TidyToken
<1>4. /\ written \in [out : Seq(Nat), prev : Nat] /\ prev \in Nat /\ prev <= at
      /\ written.out = Span(0, prev)
      /\ \A p \in (prev + 1)..at : data[p] \in {"n", "r"}
      /\ semi => prev = at
  BY <1>3 DEF TypeInv, TidyInv
<1>5. EndsStatement(m + 2)' => EndsStatement(Len(file) + 1)'
  <2>1. Len(file') + 1 = m + 2
    BY <1>1
  <2>2. QED BY <2>1 DEF EndsStatement
<1>6. lit \in Seq(Nat) /\ (kind \notin Newlines \cup {"rawCR", "blockCR"} => lit = Span(at, end))
  BY LiteralOfToken
<1>7. Span(0, prev) \o Span(prev, at) = Span(0, at)
  <2>1. prev \in Nat /\ at \in Nat /\ prev <= at
    BY <1>1, <1>4
  <2> HIDE DEF prev, at
  <2>2. QED BY <2>1, SpanGrows
<1>8. Span(0, at) \o Span(at, end) = Span(0, end)
  <2>1. at \in Nat /\ end \in Nat /\ at <= end
    BY <1>1, <1>2
  <2> HIDE DEF at, end
  <2>2. QED BY <2>1, SpanGrows
<1>9. Len(Span(at, end)) = end - at
  BY <1>1, <1>2, SpanShape
<1>10. \/ kind \in Newlines /\ semi /\ written' = Put(written, end - 1, <<end>>) /\ semi' = FALSE
       \/ kind \in Newlines /\ ~semi /\ UNCHANGED <<written, semi>>
       \/ kind \in Comments /\ semi /\ broken /= {}
       \/ kind \in Comments /\ written' = Put(written, at, lit) /\ UNCHANGED semi
       \/ /\ kind \notin Newlines \cup Comments
          /\ written' = Put(written, at, lit) /\ semi' = (kind \in Operands)
  BY DEF Write, Scan
<1>11. kind \in Comments /\ semi => broken = {}
  <2>1. SUFFICES ASSUME kind \in Comments, semi, NEW p \in broken
                 PROVE  FALSE
    OBVIOUS
  <2>2. kind \in {"line", "mark", "block"}
    BY <2>1, <1>3 DEF Comments, Blocks
  <2>3. p \in (at + 1)..end /\ data'[p] = "n"
    OBVIOUS
  <2>4. QED BY <2>2, <2>3, <1>1, CellsShape
<1>12. kind \notin Newlines /\ written' = Put(written, at, lit) =>
         written'.prev = end /\ written'.out = Span(0, end)
  <2>1. SUFFICES ASSUME kind \notin Newlines, written' = Put(written, at, lit)
                 PROVE  written'.prev = end /\ written'.out = Span(0, end)
    OBVIOUS
  <2>2. lit = Span(at, end)
    BY <2>1, <1>3, <1>6
  <2> HIDE DEF lit, at, end, prev
  <2>3. /\ Put(written, at, lit).prev = at + Len(lit)
        /\ Put(written, at, lit).out = written.out \o Span(written.prev, at) \o lit
    <3>1. written \in [out : Seq(Nat), prev : Nat] /\ at \in Nat /\ lit \in Seq(Nat)
      BY <1>1, <1>4, <1>6
    <3>2. QED BY <3>1, PutShape
  <2>4. at + Len(lit) = end
    BY <2>2, <1>9, <1>1, <1>2
  <2>5. written.out \o Span(written.prev, at) \o lit = Span(0, end)
    BY <2>2, <1>4, <1>7, <1>8 DEF prev
  <2>6. QED BY <2>1, <2>3, <2>4, <2>5
<1>13. \A p \in (end + 1)..end : FALSE
  BY <1>2
<1> HIDE DEF lit, at, end, broken
<1>14. CASE kind \in Newlines /\ semi /\ written' = Put(written, end - 1, <<end>>) /\ semi' = FALSE
  <2>1. prev = at
    BY <1>14, <1>4
  <2>2. <<end>> \in Seq(Nat) /\ Len(<<end>>) = 1 /\ end - 1 + 1 = end
    BY <1>2
  <2>3. /\ Put(written, end - 1, <<end>>).prev = end
        /\ Put(written, end - 1, <<end>>).out = written.out \o Span(prev, end - 1) \o <<end>>
    <3>1. written \in [out : Seq(Nat), prev : Nat] /\ end - 1 \in Nat /\ <<end>> \in Seq(Nat)
      BY <2>2, <1>2, <1>4
    <3>2. /\ Put(written, end - 1, <<end>>).prev = end - 1 + Len(<<end>>)
          /\ Put(written, end - 1, <<end>>).out = written.out \o Span(written.prev, end - 1) \o <<end>>
      BY <3>1, PutShape
    <3>3. end - 1 + Len(<<end>>) = end
      BY <2>2
    <3>4. QED BY <3>2, <3>3
  <2>4. written.out \o Span(prev, end - 1) = Span(0, end - 1)
    <3>1. at \in Nat /\ end - 1 \in Nat /\ at <= end - 1
      BY <1>1, <1>2
    <3>2. Span(0, at) \o Span(at, end - 1) = Span(0, end - 1)
      BY <3>1, SpanGrows
    <3>3. QED BY <3>2, <2>1, <1>4
  <2>5. Span(0, end - 1) \o <<end>> = Span(0, end)
    <3>1. end - 1 \in Nat /\ end \in Nat /\ end - 1 <= end /\ end \in Nat \ {0}
      BY <1>2
    <3>2. Span(0, end - 1) \o Span(end - 1, end) = Span(0, end)
      BY <3>1, SpanGrows
    <3>3. Span(end - 1, end) = <<end>>
      BY <3>1, SpanOne
    <3>4. QED BY <3>2, <3>3
  <2>6. written'.prev = end /\ written'.out = Span(0, end)
    BY <1>14, <2>3, <2>4, <2>5
  <2>7. ~semi'
    BY <1>14
  <2>8. QED BY <2>6, <2>7, <1>13 DEF end
<1>15. CASE kind \in Newlines /\ ~semi /\ UNCHANGED <<written, semi>>
  <2>1. written' = written /\ ~semi'
    BY <1>15
  <2>2. ASSUME NEW p \in (prev + 1)..end
        PROVE  data'[p] \in {"n", "r"}
    <3>1. CASE p <= at
      <4>1. p \in (prev + 1)..at /\ p \in 1..at
        BY <3>1, <1>1, <1>2, <1>4
      <4>2. QED BY <4>1, <1>1, <1>4
    <3>2. CASE ~(p <= at)
      <4>1. p \in (at + 1)..end
        BY <3>2, <1>1, <1>2, <1>4
      <4>2. p - at \in 1..Len(Cells[kind]) /\ data'[p] = Cells[kind][p - at]
        BY <4>1, <1>1
      <4>3. Cells[kind][p - at] \in {"n", "r"}
        BY <4>2, <1>15, CellsShape
      <4>4. QED BY <4>2, <4>3
    <3>3. QED BY <3>1, <3>2
  <2>3. QED BY <2>1, <2>2, <1>4 DEF end
<1>16. CASE kind \in Comments /\ semi /\ broken /= {}
  BY <1>16, <1>11
<1>17. CASE kind \in Comments /\ written' = Put(written, at, lit) /\ UNCHANGED semi
  <2>1. kind \notin Newlines
    BY <1>17 DEF Comments, Newlines, Blocks
  <2>2. written'.prev = end /\ written'.out = Span(0, end)
    BY <1>12, <1>17, <2>1
  <2>3. semi' => EndsStatement(Len(file) + 1)'
    BY <1>17, <1>3, <1>5
  <2>4. QED BY <2>2, <2>3, <1>13 DEF end
<1>18. CASE /\ kind \notin Newlines \cup Comments
            /\ written' = Put(written, at, lit) /\ semi' = (kind \in Operands)
  <2>1. written'.prev = end /\ written'.out = Span(0, end)
    BY <1>12, <1>18
  <2>2. semi' => EndsStatement(Len(file) + 1)'
    BY <1>18, <1>3, <1>5
  <2>3. QED BY <2>1, <2>2, <1>13 DEF end
<1>19. QED BY <1>10, <1>14, <1>15, <1>16, <1>17, <1>18

\* The invariant holds of every file.
THEOREM FilesScanned == Spec => []WindowInv
<1>1. Init => WindowInv
  <2> SUFFICES ASSUME Init PROVE WindowInv
    OBVIOUS
  <2>1. file = <<>> /\ data = <<>> /\ written = [out |-> <<>>, prev |-> 0] /\ semi = FALSE
    BY DEF Init
  <2>2. Len(file) = 0 /\ Len(data) = 0 /\ \A i \in 1..0 : FALSE
    BY <2>1
  <2>3. TypeInv
    <3>1. file \in Seq(Token) /\ data \in Seq(Alphabet)
      BY <2>1
    <3>2. written \in [out : Seq(Nat), prev : Nat] /\ written.prev <= Len(data)
      BY <2>1, <2>2
    <3>3. semi \in BOOLEAN
      BY <2>1
    <3>4. QED BY <3>1, <3>2, <3>3 DEF TypeInv
  <2>4. written.prev = 0 /\ written.out = <<>> /\ ~semi
    BY <2>1
  <2>5. Covers(data, written)
    BY <2>2, <2>4 DEF Covers
  <2>6. TokensInv
    BY <2>2 DEF TokensInv
  <2>7. TidyInv
    <3>1. Span(0, 0) = <<>> /\ \A p \in (0 + 1)..0 : FALSE
      BY DEF Span
    <3>2. QED BY <3>1, <2>2, <2>4 DEF TidyInv
  <2>8. QED BY <2>3, <2>5, <2>6, <2>7 DEF WindowInv
<1>2. WindowInv /\ [Next]_vars => WindowInv'
  <2> SUFFICES ASSUME WindowInv, [Next]_vars PROVE WindowInv'
    OBVIOUS
  <2> USE DEF WindowInv
  <2>1. ASSUME NEW kind \in Kinds, Write(kind)
        PROVE  WindowInv'
    BY <2>1, WriteCovers, WriteTokens, WriteTidy
  <2>2. CASE UNCHANGED vars
    BY <2>2 DEF vars, TypeInv, Covers, IsNewline, TokensInv, TidyInv, Tidy, EndsStatement
  <2>3. QED BY <2>1, <2>2 DEF Next
<1>3. QED BY <1>1, <1>2, PTL DEF Spec

-----------------------------------------------------------------------------
(* What is rendered of a file.                                             *)

\* The text of the file itself, and its lines.
LEMMA SourceShape ==
  ASSUME WindowInv
  PROVE  /\ Len(data) \in Nat
         /\ Span(0, Len(data)) \in Seq(Nat) /\ Len(Span(0, Len(data))) = Len(data)
         /\ \A i \in 1..Len(data) : Span(0, Len(data))[i] = i
         /\ Indices(data, Span(0, Len(data)), "n") = {p \in 1..Len(data) : data[p] = "n"}
         /\ SourceLines \in Seq(Seq(Nat))
         /\ Len(SourceLines) \in Nat \ {0}
         /\ Len(SourceLines) = Cardinality({p \in 1..Len(data) : data[p] = "n"}) + 1
         /\ DOMAIN SourceLines = 1..Len(SourceLines)
<1> DEFINE L == Len(data)
           text == Span(0, L)
<1>1. L \in Nat
  BY LenProperties DEF WindowInv, TypeInv
<1>2. text \in Seq(Nat) /\ Len(text) = L /\ DOMAIN text = 1..L /\ \A i \in 1..L : text[i] = i
  <2> HIDE DEF L
  <2>1. /\ text \in Seq(Nat) /\ DOMAIN text = 1..Len(text)
        /\ Len(text) = IF 0 < L THEN L - 0 ELSE 0
        /\ \A i \in 1..Len(text) : text[i] = 0 + i
    <3>1. 0 \in Nat
      OBVIOUS
    <3>2. QED BY <3>1, <1>1, SpanShape
  <2> HIDE DEF text
  <2>2. Len(text) = L
    BY <2>1, <1>1
  <2>3. \A i \in 1..L : text[i] = i
    BY <2>1, <2>2, <1>1
  <2>4. QED BY <2>1, <2>2, <2>3
<1>3. Indices(data, text, "n") = {p \in 1..L : data[p] = "n"}
  <2> HIDE DEF L, text
  <2>1. \A p \in 1..L : CellAt(data, text[p]) = data[p]
    BY <1>1, <1>2 DEF CellAt, NoPosition
  <2>2. QED BY <2>1, <1>2 DEF Indices
<1>4. /\ SourceLines \in Seq(Seq(Nat))
      /\ Cardinality(Indices(data, text, "n")) \in Nat
      /\ Len(SourceLines) = Cardinality(Indices(data, text, "n")) + 1
      /\ DOMAIN SourceLines = 1..(Cardinality(Indices(data, text, "n")) + 1)
  <2> HIDE DEF text
  <2>1. SourceLines = SplitLines(data, text)
    BY DEF SourceLines, text
  <2>2. QED BY <2>1, <1>2, SplitShape
<1>5. QED
  <2> HIDE DEF L, text
  <2>1. /\ SourceLines \in Seq(Seq(Nat))
        /\ Len(SourceLines) \in Nat \ {0}
        /\ Len(SourceLines) = Cardinality({p \in 1..L : data[p] = "n"}) + 1
        /\ DOMAIN SourceLines = 1..Len(SourceLines)
    <3> DEFINE m == Cardinality(Indices(data, text, "n"))
    <3>1. m \in Nat /\ Len(SourceLines) = m + 1 /\ DOMAIN SourceLines = 1..(m + 1)
      BY <1>4
    <3>2. m = Cardinality({p \in 1..L : data[p] = "n"})
      BY <1>3
    <3> HIDE DEF m
    <3>3. Len(SourceLines) \in Nat \ {0}
      BY <3>1
    <3>4. QED BY <3>1, <3>2, <3>3, <1>4
  <2>2. QED BY <2>1, <1>1, <1>2, <1>3 DEF text, L

\* The rendered text has every newline of the file.
LEMMA NewlinesRendered ==
  ASSUME WindowInv
  PROVE  /\ HighlightGoSource \in Seq(Nat)
         /\ \A p \in 1..Len(data) : data[p] = "n" =>
              \E i \in 1..Len(HighlightGoSource) : HighlightGoSource[i] = p
<1> DEFINE L == Len(data)
           end == IF semi THEN Put(written, L, <<NoPosition>>) ELSE written
           rest == Span(end.prev, L)
<1>1. L \in Nat /\ written \in [out : Seq(Nat), prev : Nat] /\ Covers(data, written)
  BY LenProperties DEF WindowInv, TypeInv
<1>2. <<NoPosition>> \in Seq(Nat) /\ Len(<<NoPosition>>) = 1
  BY DEF NoPosition
<1>3. end \in [out : Seq(Nat), prev : Nat] /\ Covers(data, end)
  <2>1. CASE semi
    <3>1. \A p \in (L + 1)..(L + Len(<<NoPosition>>)) : ~IsNewline(data, p)
      BY <1>1, <1>2 DEF IsNewline
    <3> HIDE DEF L
    <3>2. /\ Put(written, L, <<NoPosition>>) \in [out : Seq(Nat), prev : Nat]
          /\ Covers(data, Put(written, L, <<NoPosition>>))
      BY <3>1, <1>1, <1>2, PutShape, PutCovers
    <3>3. QED BY <2>1, <3>2
  <2>2. CASE ~semi
    BY <2>2, <1>1
  <2>3. QED BY <2>1, <2>2
<1>4. end.out \in Seq(Nat) /\ end.prev \in Nat
  <2> HIDE DEF end
  <2> QED BY <1>3
<1>5. HighlightGoSource = end.out \o rest \o rest
  BY DEF HighlightGoSource
<1> HIDE DEF end, L
<1>6. /\ rest \in Seq(Nat)
      /\ \A p \in (end.prev + 1)..L : p - end.prev \in 1..Len(rest) /\ rest[p - end.prev] = p
  BY <1>1, <1>4, SpanShape
<1> HIDE DEF rest
<1>7. end.out \o rest \in Seq(Nat) /\ HighlightGoSource \in Seq(Nat)
  <2>1. end.out \o rest \in Seq(Nat)
    BY <1>4, <1>6, ConcatProperties
  <2>2. QED BY <2>1, <1>5, <1>6, ConcatProperties
<1>8. ASSUME NEW p \in 1..L, data[p] = "n"
      PROVE  \E i \in 1..Len(HighlightGoSource) : HighlightGoSource[i] = p
  <2>1. \E i \in 1..Len(end.out \o rest) : (end.out \o rest)[i] = p
    <3>1. CASE p <= end.prev
      <4>1. p \in 1..end.prev /\ IsNewline(data, p)
        BY <3>1, <1>4, <1>8 DEF IsNewline, L
      <4>2. PICK i \in 1..Len(end.out) : end.out[i] = p
        BY <4>1, <1>3 DEF Covers
      <4>3. QED BY <4>2, <1>4, <1>6, InConcat
    <3>2. CASE ~(p <= end.prev)
      <4>1. p \in (end.prev + 1)..L
        BY <3>2, <1>1, <1>4
      <4>2. PICK i \in 1..Len(rest) : rest[i] = p
        BY <4>1, <1>6
      <4>3. QED BY <4>2, <1>4, <1>6, InConcat
    <3>3. QED BY <3>1, <3>2
  <2>2. QED BY <2>1, <1>5, <1>6, <1>7, InConcat
<1>9. QED BY <1>7, <1>8 DEF L

\* So no line of the file is beyond the last line rendered.
LEMMA LinesRendered ==
  ASSUME WindowInv
  PROVE  /\ RenderedLines \in Seq(Seq(Nat))
         /\ Len(RenderedLines) \in Nat
         /\ Len(SourceLines) <= Len(RenderedLines)
<1> DEFINE text == HighlightGoSource
           N == {p \in 1..Len(data) : data[p] = "n"}
           T == Indices(data, text, "n")
<1>1. text \in Seq(Nat) /\ \A p \in N : \E i \in 1..Len(text) : text[i] = p
  BY NewlinesRendered
<1>2. /\ T \in SUBSET (1..Len(text)) /\ Len(text) \in Nat /\ Cardinality(T) \in Nat
      /\ RenderedLines \in Seq(Seq(Nat)) /\ Len(RenderedLines) = Cardinality(T) + 1
  <2> HIDE DEF text
  <2>1. RenderedLines = SplitLines(data, text)
    BY DEF RenderedLines, text
  <2>2. QED BY <2>1, <1>1, SplitShape
<1>3. DOMAIN text = 1..Len(text)
  <2> HIDE DEF text
  <2> QED BY <1>1, LenProperties
<1>4. T = {i \in 1..Len(text) : CellAt(data, text[i]) = "n"}
  BY <1>3 DEF Indices
<1>5. \A p \in N : CellAt(data, p) = "n"
  <2>1. \A p \in N : p /= 0 /\ data[p] = "n"
    OBVIOUS
  <2>2. QED
    <3> HIDE DEF N
    <3> QED BY <2>1 DEF CellAt, NoPosition
<1> HIDE DEF text, N, T
<1>6. \A p \in N : \E i \in T : text[i] = p
  BY <1>1, <1>4, <1>5
<1> DEFINE g == [p \in N |-> CHOOSE i \in T : text[i] = p]
<1>7. \A p \in N : g[p] \in T /\ text[g[p]] = p
  BY <1>6
<1>8. g \in Injection(N, T)
  <2>1. g \in [N -> T]
    BY <1>7
  <2>2. \A p, q \in N : g[p] = g[q] => p = q
    BY <1>7
  <2> HIDE DEF g
  <2>3. QED BY <2>1, <2>2 DEF Injection, IsInjective
<1>9. IsFiniteSet(T)
  <2>1. IsFiniteSet(1..Len(text))
    BY <1>2, Counting
  <2>2. QED BY <2>1, <1>2, FS_Subset
<1>10. Cardinality(N) <= Cardinality(T) /\ Cardinality(N) \in Nat
  <2> HIDE DEF g
  <2> QED BY <1>8, <1>9, FS_Injection, FS_CardinalityType
<1>11. Len(SourceLines) = Cardinality(N) + 1
  BY SourceShape DEF N
<1>12. QED BY <1>2, <1>10, <1>11

-----------------------------------------------------------------------------
(* The window: which lines it has.                                         *)

\* The lines above and below the current one.
Up(height) == IF height > StickyReservedRows THEN Above(height) ELSE SourceContextLines
Down(height) == IF height > StickyReservedRows THEN Below(height) ELSE SourceContextLines

LEMMA ContextShape ==
  ASSUME NEW height \in Nat \ {0}
  PROVE  /\ Up(height) \in Nat /\ Down(height) \in Nat
         /\ height > StickyReservedRows =>
              /\ Up(height) + Down(height) + 1 + StickyReservedRows = height
              /\ Down(height) - Up(height) \in {0, 1}
<1>1. CASE height > StickyReservedRows
  <2>1. PICK v \in Nat \ {0} : v = height - 5 /\ v = Visible(height)
    BY <1>1 DEF Visible, AtLeastOne, StickyReservedRows
  <2>2. Up(height) = (v - 1) \div 2 /\ Down(height) = v - ((v - 1) \div 2) - 1
    BY <1>1, <2>1 DEF Up, Down, Above, Below
  <2>3. PICK u \in Nat : u = (v - 1) \div 2 /\ 2 * u <= v - 1 /\ v - 1 < 2 * u + 2
    BY <2>1
  <2>4. Up(height) = u /\ Down(height) = v - u - 1
    BY <2>2, <2>3
  <2>5. u \in Nat /\ v - u - 1 \in Nat /\ (v - u - 1) - u \in {0, 1}
    BY <2>1, <2>3
  <2>6. u + (v - u - 1) + 1 + 5 = height
    BY <2>1, <2>3
  <2>7. QED BY <2>4, <2>5, <2>6 DEF StickyReservedRows
<1>2. CASE ~(height > StickyReservedRows)
  BY <1>2 DEF Up, Down, SourceContextLines
<1>3. QED BY <1>1, <1>2

LEMMA WindowShape ==
  ASSUME NEW lines \in Seq(Seq(Nat)), NEW l \in 1..Len(lines), NEW height \in Nat \ {0}
  PROVE  LET window == RenderStickySource(lines, l, height)
             first == AtLeastOne(l - Up(height))
             last == AtMost(l + Down(height), Len(lines))
         IN /\ window = [first |-> first, rows |-> SubSeq(lines, first, last)]
            /\ first \in 1..l /\ last \in l..Len(lines)
            /\ Len(window.rows) = last - first + 1
            /\ \A k \in first..last : window.rows[k - first + 1] = lines[k]
<1> DEFINE window == RenderStickySource(lines, l, height)
           first == AtLeastOne(l - Up(height))
           last == AtMost(l + Down(height), Len(lines))
<1>1. Len(lines) \in Nat /\ DOMAIN lines = 1..Len(lines)
  BY LenProperties
<1>2. Up(height) \in Nat /\ Down(height) \in Nat
  BY ContextShape
<1>3. first \in 1..l /\ last \in l..Len(lines)
  BY <1>1, <1>2 DEF AtLeastOne, AtMost
<1>4. window = FormatRange(lines, l, first, last)
  <2>1. CASE height > StickyReservedRows
    <3>1. window = RenderRange(lines, l, first, l + Down(height))
      BY <2>1 DEF RenderStickySource, Up, Down
    <3>2. first /= 0 /\ l + Down(height) /= 0 /\ ~(first > l + Down(height))
      BY <1>2, <1>3
    <3>3. QED BY <3>1, <3>2 DEF RenderRange
  <2>2. CASE ~(height > StickyReservedRows)
    BY <2>2 DEF RenderStickySource, RenderWindow, Up, Down
  <2>3. QED BY <2>1, <2>2
<1> HIDE DEF window, first, last
<1>5. window = [first |-> first, rows |-> SubSeq(lines, first, last)]
  <2>1. l \in DOMAIN lines /\ first \in DOMAIN lines /\ last \in DOMAIN lines /\ ~(first > last)
    BY <1>1, <1>3
  <2>2. QED BY <1>4, <2>1 DEF FormatRange
<1>6. first \in 1..Len(lines) /\ last \in first..Len(lines)
  BY <1>1, <1>3
<1>7. /\ Len(SubSeq(lines, first, last)) = last - first + 1
      /\ \A k \in first..last : SubSeq(lines, first, last)[k - first + 1] = lines[k]
  <2>1. /\ Len(SubSeq(lines, first, last)) = last - first + 1
        /\ \A i \in 1..(last - first + 1) : SubSeq(lines, first, last)[i] = lines[first + i - 1]
    BY <1>1, <1>6, SubSeqProperties
  <2>2. \A k \in first..last : k - first + 1 \in 1..(last - first + 1) /\ first + (k - first + 1) - 1 = k
    BY <1>1, <1>6
  <2>3. QED BY <2>1, <2>2
<1>8. /\ Len(window.rows) = last - first + 1
      /\ \A k \in first..last : window.rows[k - first + 1] = lines[k]
  <2>1. window.rows = SubSeq(lines, first, last)
    BY <1>5
  <2>2. QED BY <2>1, <1>7
<1>9. QED BY <1>3, <1>5, <1>8 DEF window, first, last

\* On a terminal with room for it the window never pushes its own heading off
\* the screen, and the current line stands in its middle: WindowFitsScreen.
THEOREM WindowsFit == Spec => []WindowFitsScreen
<1>1. ASSUME WindowInv PROVE WindowFitsScreen
  <2> DEFINE lines == RenderedLines
             count == Len(SourceLines)
  <2>1. lines \in Seq(Seq(Nat)) /\ Len(lines) \in Nat /\ count \in Nat /\ count <= Len(lines)
    BY <1>1, LinesRendered, SourceShape
  <2> HIDE DEF lines, count
  <2>2. ASSUME NEW l \in 1..count, NEW height \in Heights, height > StickyReservedRows
        PROVE  LET window == RenderStickySource(lines, l, height)
                   last == window.first + Len(window.rows) - 1
               IN /\ Len(window.rows) + RowsAround < height
                  /\ (window.first > 1 /\ last < count) =>
                       /\ Len(window.rows) + StickyReservedRows = height
                       /\ (last - l) - (l - window.first) \in {0, 1}
                  /\ window.first = 1 => (last - l >= l - 1 \/ last >= count)
    <3> DEFINE window == RenderStickySource(lines, l, height)
               rows == Len(window.rows)
               first == AtLeastOne(l - Up(height))
               last == AtMost(l + Down(height), Len(lines))
    <3>1. height \in Nat \ {0} /\ l \in 1..Len(lines)
      BY <2>1, <2>2, HeightsAssumption
    <3>2. PICK u \in Nat, d \in Nat : /\ u = Up(height) /\ d = Down(height)
                                     /\ u + d + 1 + 5 = height
                                     /\ d - u \in {0, 1}
      BY <2>2, <3>1, ContextShape DEF StickyReservedRows
    <3>5. window.first = first /\ rows = last - first + 1
      <4>1. window = [first |-> first, rows |-> SubSeq(lines, first, last)] /\ rows = last - first + 1
        <5> HIDE DEF first, last
        <5> QED BY <2>1, <3>1, WindowShape DEF first, last
      <4> HIDE DEF first, last, rows
      <4>2. QED BY <4>1
    <3> HIDE DEF window, rows, first, last
    <3>6. /\ first \in Nat /\ last \in Nat /\ first + (last - first + 1) - 1 = last
          /\ (last - first + 1) + 4 < height
          /\ (first > 1 /\ last < count) =>
               (last - first + 1) + 5 = height /\ (last - l) - (l - first) \in {0, 1}
          /\ first = 1 => (last - l >= l - 1 \/ last >= count)
      <4>1. PICK n \in Nat : n = Len(lines)
        BY <2>1
      <4>2. count \in Nat /\ count <= n /\ l \in Nat /\ 1 <= l /\ l <= count
        BY <2>1, <2>2, <4>1
      <4>3. u + d + 1 + 5 = height /\ d - u \in {0, 1} /\ height \in Nat
        BY <3>1, <3>2
      <4>4. PICK a \in Nat : /\ a = AtLeastOne(l - u) /\ a >= 1 /\ a <= l
                            /\ a + u >= l /\ (a > 1 => a + u = l)
        <5>1. CASE l - u < 1
          BY <5>1, <4>2 DEF AtLeastOne
        <5>2. CASE ~(l - u < 1)
          <6>1. l - u \in Nat
            BY <5>2, <4>2
          <6>2. QED BY <5>2, <6>1, <4>2 DEF AtLeastOne
        <5>3. QED BY <5>1, <5>2
      <4>5. PICK b \in Nat : /\ b = AtMost(l + d, n) /\ b >= l /\ b <= l + d
                            /\ (b < n => b = l + d) /\ b <= n
        BY <4>2 DEF AtMost
      <4>6. first = a /\ last = b
        BY <3>2, <4>1, <4>4, <4>5 DEF first, last
      <4>7. a + (b - a + 1) - 1 = b
        OBVIOUS
      <4>8. (b - a + 1) + 4 < height
        BY <4>2, <4>3, <4>4, <4>5
      <4>9. (a > 1 /\ b < count) => (b - a + 1) + 5 = height /\ (b - l) - (l - a) \in {0, 1}
        <5> SUFFICES ASSUME a > 1, b < count
                     PROVE  (b - a + 1) + 5 = height /\ (b - l) - (l - a) \in {0, 1}
          OBVIOUS
        <5>1. a + u = l /\ b = l + d
          BY <4>2, <4>4, <4>5
        <5>2. (b - l) - (l - a) = d - u
          BY <5>1, <4>2
        <5>3. (b - a + 1) + 5 = height
          BY <5>1, <4>2, <4>3
        <5>4. QED BY <5>2, <5>3, <4>3
      <4>10. a = 1 => (b - l >= l - 1 \/ b >= count)
        BY <4>2, <4>3, <4>4, <4>5
      <4>11. QED BY <4>6, <4>7, <4>8, <4>9, <4>10
    <3>7. QED BY <3>5, <3>6 DEF window, rows, StickyReservedRows, RowsAround
  <2>3. QED BY <2>2 DEF WindowFitsScreen, lines, count
<1>2. QED BY <1>1, FilesScanned, PTL
-----------------------------------------------------------------------------
(* The lines of a tidy file are rendered as they are.                      *)

\* Carriage returns at the end of a text do not show.
LEMMA WithoutTrailingCR ==
  ASSUME NEW cells, NEW s \in Seq(Nat), NEW t \in Seq(Nat),
         \A i \in 1..Len(t) : CellAt(cells, t[i]) = "r"
  PROVE  WithoutCR(cells, s \o t) = WithoutCR(cells, s)
<1> DEFINE whole == s \o t
           I == {i \in 1..Len(s) : CellAt(cells, s[i]) /= "r"}
<1>1. /\ Len(s) \in Nat /\ Len(t) \in Nat /\ DOMAIN s = 1..Len(s)
      /\ whole \in Seq(Nat) /\ Len(whole) = Len(s) + Len(t)
  BY LenProperties, ConcatProperties
<1>2. \A i \in 1..(Len(s) + Len(t)) : whole[i] = IF i <= Len(s) THEN s[i] ELSE t[i - Len(s)]
  BY ConcatProperties
<1>3. DOMAIN whole = 1..(Len(s) + Len(t))
  <2> HIDE DEF whole
  <2> QED BY <1>1, LenProperties
<1> HIDE DEF whole
<1>4. \A i \in 1..Len(s) : i \in 1..(Len(s) + Len(t)) /\ whole[i] = s[i]
  BY <1>1, <1>2
<1>5. ASSUME NEW i \in 1..(Len(s) + Len(t)), ~(i <= Len(s))
      PROVE  CellAt(cells, whole[i]) = "r"
  <2>1. i - Len(s) \in 1..Len(t)
    BY <1>1, <1>5
  <2>2. whole[i] = t[i - Len(s)]
    BY <1>2, <1>5
  <2>3. QED BY <2>1, <2>2
<1>6. DOMAIN s \ Indices(cells, s, "r") = I
  BY <1>1 DEF Indices
<1>7. DOMAIN whole \ Indices(cells, whole, "r") = I
  <2>1. ASSUME NEW i
        PROVE  i \in DOMAIN whole \ Indices(cells, whole, "r") <=> i \in I
    <3>1. i \in DOMAIN whole \ Indices(cells, whole, "r")
            <=> i \in 1..(Len(s) + Len(t)) /\ CellAt(cells, whole[i]) /= "r"
      BY <1>3 DEF Indices
    <3>2. CASE i \in 1..(Len(s) + Len(t)) /\ ~(i <= Len(s))
      <4>1. i \notin I
        BY <3>2, <1>1
      <4>2. QED BY <3>1, <3>2, <4>1, <1>5
    <3>3. CASE ~(i \in 1..(Len(s) + Len(t)) /\ ~(i <= Len(s)))
      <4>1. i \in 1..(Len(s) + Len(t)) => i \in 1..Len(s)
        BY <3>3, <1>1
      <4>2. QED BY <3>1, <4>1, <1>4
    <3>4. QED BY <3>2, <3>3
  <2>2. QED BY <2>1
<1> HIDE DEF I
<1>8. I \in SUBSET (1..Len(s))
  BY DEF I
<1>9. \A k \in 1..Cardinality(I) : Nth(I, k) \in I
  BY <1>8, PickType
<1>10. \A k \in 1..Cardinality(I) : whole[Nth(I, k)] = s[Nth(I, k)]
  BY <1>4, <1>8, <1>9
<1>11. Pick(whole, I) = Pick(s, I)
  BY <1>10 DEF Pick
<1>12. QED BY <1>6, <1>7, <1>11 DEF WithoutCR, whole

\* Behind the file's text come at most a newline and carriage returns.
LEMMA TidyRendered ==
  ASSUME WindowInv, Tidy
  PROVE  \E more \in Seq(Nat) :
           /\ HighlightGoSource = Span(0, Len(data)) \o more
           /\ \A i \in 1..Len(more) : CellAt(data, more[i]) \in {"n", "r"}
<1> DEFINE L == Len(data)
           end == IF semi THEN Put(written, L, <<NoPosition>>) ELSE written
           rest == Span(end.prev, L)
<1>1. /\ L \in Nat /\ written \in [out : Seq(Nat), prev : Nat]
      /\ written.prev \in Nat /\ written.prev <= L
      /\ written.out = Span(0, written.prev)
      /\ \A p \in (written.prev + 1)..L : data[p] \in {"n", "r"}
  BY LenProperties DEF WindowInv, TypeInv, TidyInv
<1>2. semi => written.prev = L
  BY DEF WindowInv, TidyInv
<1>3. HighlightGoSource = end.out \o rest \o rest
  BY DEF HighlightGoSource
<1>4. 0 \in Nat /\ Span(0, L) \in Seq(Nat)
  <2>1. 0 \in Nat
    OBVIOUS
  <2>2. QED BY <2>1, <1>1, SpanShape
<1>5. CASE semi
  <2>1. /\ end = Put(written, L, <<NoPosition>>)
        /\ <<NoPosition>> \in Seq(Nat) /\ Len(<<NoPosition>>) = 1
    BY <1>5 DEF NoPosition
  <2>2. end.out = Span(0, L) \o Span(L, L) \o <<NoPosition>> /\ end.prev = L + 1
    <3> HIDE DEF L, end
    <3>1. /\ Put(written, L, <<NoPosition>>).prev = L + Len(<<NoPosition>>)
          /\ Put(written, L, <<NoPosition>>).out = written.out \o Span(written.prev, L) \o <<NoPosition>>
      BY DEF Put
    <3>2. written.out = Span(0, L) /\ written.prev = L
      BY <1>1, <1>2, <1>5
    <3>3. QED BY <2>1, <3>1, <3>2
  <2> HIDE DEF end
  <2>3. Span(L, L) = <<>> /\ rest = <<>>
    <3> HIDE DEF L
    <3> QED BY <1>1, <2>2 DEF Span
  <2> HIDE DEF rest
  <2>4. HighlightGoSource = Span(0, L) \o <<NoPosition>>
    <3> HIDE DEF L
    <3>1. Span(0, L) \o <<>> = Span(0, L)
      BY <1>4, ConcatEmptySeq
    <3>2. Span(0, L) \o <<NoPosition>> \in Seq(Nat)
      BY <1>4, <2>1, ConcatProperties
    <3>3. Span(0, L) \o <<NoPosition>> \o <<>> = Span(0, L) \o <<NoPosition>>
      BY <3>2, ConcatEmptySeq
    <3>4. QED BY <1>3, <2>2, <2>3, <3>1, <3>3
  <2>5. \A i \in 1..1 : CellAt(data, <<NoPosition>>[i]) \in {"n", "r"}
    BY DEF CellAt, NoPosition
  <2>6. QED BY <2>1, <2>4, <2>5
<1>6. CASE ~semi
  <2>1. end = written
    BY <1>6
  <2>2. rest = Span(written.prev, L)
    BY <2>1
  <2> HIDE DEF end, rest
  <2>3. /\ rest \in Seq(Nat)
        /\ \A i \in 1..Len(rest) : rest[i] = written.prev + i
        /\ Len(rest) = IF written.prev < L THEN L - written.prev ELSE 0
    <3> HIDE DEF L
    <3>1. PICK b \in Nat : b = written.prev
      BY <1>1
    <3>2. /\ Span(b, L) \in Seq(Nat)
          /\ \A i \in 1..Len(Span(b, L)) : Span(b, L)[i] = b + i
          /\ Len(Span(b, L)) = IF b < L THEN L - b ELSE 0
      BY <1>1, SpanShape
    <3>3. rest = Span(b, L)
      BY <2>2, <3>1
    <3>4. QED BY <3>1, <3>2, <3>3
  <2>4. Span(0, written.prev) \o rest = Span(0, L)
    <3> HIDE DEF L
    <3> QED BY <1>1, <2>2, SpanGrows
  <2>5. HighlightGoSource = Span(0, L) \o rest
    BY <1>1, <1>3, <2>1, <2>4
  <2>6. ASSUME NEW i \in 1..Len(rest)
        PROVE  CellAt(data, rest[i]) \in {"n", "r"}
    <3> HIDE DEF L
    <3>1. PICK p \in Nat : p = written.prev + i
      BY <1>1, <2>3
    <3>2. p \in (written.prev + 1)..L /\ p /= 0
      BY <3>1, <1>1, <2>3
    <3>3. rest[i] = p
      BY <3>1, <2>3
    <3>4. data[p] \in {"n", "r"}
      BY <3>2, <1>1
    <3>5. QED BY <3>2, <3>3, <3>4 DEF CellAt, NoPosition
  <2>7. QED BY <2>3, <2>5, <2>6
<1>7. QED BY <1>5, <1>6

\* Each line of a tidy file is rendered, under its number.
LEMMA TidyLines ==
  ASSUME WindowInv, Tidy, NEW k \in DOMAIN SourceLines
  PROVE  \/ RenderedLines[k] = SourceLines[k]
         \/ WithoutCR(data, RenderedLines[k]) = WithoutCR(data, SourceLines[k])
<1> DEFINE text == Span(0, Len(data))
<1>1. PICK more \in Seq(Nat) : /\ HighlightGoSource = text \o more
                               /\ \A i \in 1..Len(more) : CellAt(data, more[i]) \in {"n", "r"}
  BY TidyRendered
<1>2. /\ text \in Seq(Nat) /\ SourceLines \in Seq(Seq(Nat)) /\ Len(SourceLines) \in Nat
      /\ k \in 1..Len(SourceLines)
  BY SourceShape
<1>3. SourceLines = SplitLines(data, text) /\ RenderedLines = SplitLines(data, text \o more)
  BY <1>1 DEF SourceLines, RenderedLines
<1> HIDE DEF text
<1>4. /\ \A i \in 1..(Len(SourceLines) - 1) : RenderedLines[i] = SourceLines[i]
      /\ \E j \in 0..Len(more) :
           /\ \A i \in 1..j : CellAt(data, more[i]) /= "n"
           /\ RenderedLines[Len(SourceLines)] = SourceLines[Len(SourceLines)] \o SubSeq(more, 1, j)
  <2> DEFINE lines == SplitLines(data, text)
             longer == SplitLines(data, text \o more)
  <2>1. /\ \A i \in 1..(Len(lines) - 1) : longer[i] = lines[i]
        /\ \E j \in 0..Len(more) :
             /\ \A i \in 1..j : CellAt(data, more[i]) /= "n"
             /\ longer[Len(lines)] = lines[Len(lines)] \o SubSeq(more, 1, j)
    <3>1. GoOn(data, lines, longer, more)
      BY <1>2, SplitLonger
    <3> HIDE DEF lines, longer
    <3>2. QED BY <3>1 DEF GoOn
  <2> HIDE DEF lines, longer
  <2>2. SourceLines = lines /\ RenderedLines = longer
    BY <1>3 DEF lines, longer
  <2>3. QED BY <2>1, <2>2
<1>5. CASE k /= Len(SourceLines)
  <2>1. k \in 1..(Len(SourceLines) - 1)
    BY <1>2, <1>5
  <2>2. QED BY <2>1, <1>4
<1>6. CASE k = Len(SourceLines)
  <2>1. PICK j \in 0..Len(more) :
           /\ \A i \in 1..j : CellAt(data, more[i]) /= "n"
           /\ RenderedLines[k] = SourceLines[k] \o SubSeq(more, 1, j)
    BY <1>4, <1>6
  <2> DEFINE tail == SubSeq(more, 1, j)
  <2>2. Len(more) \in Nat /\ j \in Nat /\ \A i \in 1..j : i \in 1..Len(more) /\ more[i] \in Nat
    BY LenProperties, ElementOfSeq
  <2>3. tail \in Seq(Nat) /\ Len(tail) = j /\ \A i \in 1..j : tail[i] = more[i]
    <3>1. 1 \in Int /\ j \in Int /\ (IF 1 <= j THEN j - 1 + 1 ELSE 0) = j /\ j - 1 + 1 = j
      BY <2>2
    <3>2. /\ tail \in Seq(Nat) /\ Len(tail) = (IF 1 <= j THEN j - 1 + 1 ELSE 0)
          /\ \A i \in 1..(j - 1 + 1) : tail[i] = more[1 + i - 1]
      BY <2>2, <3>1, SubSeqProperties
    <3>3. \A i \in 1..j : 1 + i - 1 = i
      BY <2>2
    <3>4. QED BY <3>1, <3>2, <3>3
  <2> HIDE DEF tail
  <2>4. \A i \in 1..Len(tail) : CellAt(data, tail[i]) = "r"
    BY <1>1, <2>1, <2>2, <2>3
  <2>5. SourceLines[k] \in Seq(Nat)
    BY <1>2, ElementOfSeq
  <2>6. WithoutCR(data, SourceLines[k] \o tail) = WithoutCR(data, SourceLines[k])
    BY <2>3, <2>4, <2>5, WithoutTrailingCR
  <2>7. QED BY <2>1, <2>6 DEF tail
<1>7. QED BY <1>5, <1>6

\* Whatever line of a tidy file the debuggee stops on, and however high the
\* terminal is, the window has that line, and each line of the file that it
\* has stands beside its own number: WindowShowsLine.
THEOREM WindowsShowLines == Spec => []WindowShowsLine
<1>1. ASSUME WindowInv PROVE WindowShowsLine
  <2> SUFFICES ASSUME Tidy, NEW l \in DOMAIN SourceLines, NEW height \in Heights
               PROVE  LET window == RenderStickySource(RenderedLines, l, height)
                      IN /\ Shows(window, l)
                         /\ \A k \in DOMAIN SourceLines :
                              Shows(window, k) => ShowsText(window, k, SourceLines[k])
    BY DEF WindowShowsLine
  <2> DEFINE lines == RenderedLines
             window == RenderStickySource(lines, l, height)
             first == AtLeastOne(l - Up(height))
             last == AtMost(l + Down(height), Len(lines))
  <2>1. /\ lines \in Seq(Seq(Nat)) /\ Len(lines) \in Nat /\ Len(SourceLines) \in Nat
        /\ Len(SourceLines) <= Len(lines) /\ l \in 1..Len(SourceLines)
    BY <1>1, LinesRendered, SourceShape
  <2>2. l \in 1..Len(lines) /\ height \in Nat \ {0}
    <3> HIDE DEF lines
    <3> QED BY <2>1, HeightsAssumption
  <2>3. /\ window = [first |-> first, rows |-> SubSeq(lines, first, last)]
        /\ first \in 1..l /\ last \in l..Len(lines)
        /\ Len(window.rows) = last - first + 1
        /\ \A k \in first..last : window.rows[k - first + 1] = lines[k]
    <3> HIDE DEF lines
    <3> QED BY <2>1, <2>2, WindowShape
  <2>4. window.first = first
    <3> HIDE DEF first, last
    <3> QED BY <2>3
  <2> HIDE DEF window, first, last
  <2>5. first + Len(window.rows) - 1 = last /\ l \in first..last
    <3> HIDE DEF lines
    <3> QED BY <2>1, <2>2, <2>3
  <2>6. Shows(window, l)
    BY <2>4, <2>5 DEF Shows
  <2>7. ASSUME NEW k \in DOMAIN SourceLines, Shows(window, k)
        PROVE  ShowsText(window, k, SourceLines[k])
    <3>1. k \in first..last
      BY <2>4, <2>5, <2>7 DEF Shows
    <3>2. window.rows[k - window.first + 1] = lines[k]
      BY <2>3, <2>4, <3>1
    <3>3. lines[k] = SourceLines[k] \/ WithoutCR(data, lines[k]) = WithoutCR(data, SourceLines[k])
      BY <1>1, TidyLines
    <3>4. QED
      <4> HIDE DEF lines
      <4> QED BY <3>2, <3>3 DEF ShowsText
  <2>8. QED BY <2>6, <2>7 DEF window, lines
<1>2. QED BY <1>1, FilesScanned, PTL
-----------------------------------------------------------------------------
(* Marker comments.                                                        *)

\* There is no newline within a line.
LEMMA BetweenBreaks ==
  ASSUME NEW n \in Nat, NEW S \in SUBSET (1..n), NEW k \in 1..(Cardinality(S) + 1),
         NEW q \in LineStart(S, k)..LineEnd(S, k, n)
  PROVE  q \in 1..n /\ q \notin S
<1> DEFINE c == Cardinality(UpTo(S, q))
<1>1. S \in SUBSET (0..n) /\ S \in SUBSET Nat
  OBVIOUS
<1>2. Cardinality(S) \in Nat /\ c \in Nat /\ c <= Cardinality(S) /\ IsFiniteSet(UpTo(S, q))
  BY <1>1, UpToFinite
<1>3. LineStart(S, k) \in 1..(n + 1) /\ LineEnd(S, k, n) \in 0..n
  BY LineBounds
<1>4. q \in 1..n /\ q \in Nat /\ LineStart(S, k) <= q /\ q <= LineEnd(S, k, n)
  BY <1>3
<1>5. q \notin S
  <2> SUFFICES ASSUME q \in S PROVE FALSE
    OBVIOUS
  <2>1. c >= k
    <3>1. CASE k = 1
      <4>1. q \in UpTo(S, q)
        BY <1>4 DEF UpTo
      <4>2. c /= 0
        BY <4>1, <1>2, FS_EmptySet
      <4>3. QED BY <3>1, <4>2, <1>2
    <3>2. CASE k /= 1
      <4>1. k - 1 \in 1..Cardinality(S)
        BY <3>2, <1>2
      <4>2. Nth(S, k - 1) \in S /\ Cardinality(UpTo(S, Nth(S, k - 1))) = k - 1
        BY <4>1, <1>1, NthElement
      <4>3. Nth(S, k - 1) < q
        <5>1. Nth(S, k - 1) \in Nat
          BY <4>2, <1>1
        <5>2. QED BY <5>1, <3>2, <1>4 DEF LineStart
      <4>4. k - 1 < c
        BY <4>2, <4>3, <1>1, CountGrows
      <4>5. QED BY <4>4, <1>2
    <3>3. QED BY <3>1, <3>2
  <2>2. k \in 1..Cardinality(S)
    BY <2>1, <1>2
  <2>3. Nth(S, k) \in S /\ Cardinality(UpTo(S, Nth(S, k))) = k
    BY <2>2, <1>1, NthElement
  <2>4. q < Nth(S, k)
    <3>1. Nth(S, k) \in Nat
      BY <2>3, <1>1
    <3>2. ~(k > Cardinality(S))
      BY <2>2, <1>2
    <3>3. QED BY <3>1, <3>2, <1>4 DEF LineEnd
  <2>5. c < k
    BY <2>3, <2>4, <1>1, CountGrows
  <2>6. QED BY <2>1, <2>5, <1>2
<1>6. QED BY <1>4, <1>5

\* A line of the source is cells of the file, none of them a newline.
LEMMA LineCells ==
  ASSUME WindowInv, NEW l \in DOMAIN SourceLines, NEW i \in DOMAIN SourceLines[l]
  PROVE  SourceLines[l][i] \in 1..Len(data) /\ data[SourceLines[l][i]] /= "n"
<1> DEFINE L == Len(data)
           text == Span(0, L)
           S == Indices(data, text, "n")
           a == LineStart(S, l)
           b == LineEnd(S, l, L)
<1>1. /\ L \in Nat /\ text \in Seq(Nat) /\ Len(text) = L
      /\ \A q \in 1..L : text[q] = q
      /\ S = {p \in 1..L : data[p] = "n"}
  BY SourceShape
<1>2. SourceLines = SplitLines(data, text)
  BY DEF SourceLines
<1> HIDE DEF text
<1>3. /\ S \in SUBSET (1..L) /\ DOMAIN SourceLines = 1..(Cardinality(S) + 1)
      /\ \A k \in 1..(Cardinality(S) + 1) :
           SourceLines[k] = SubSeq(text, LineStart(S, k), LineEnd(S, k, L))
  <2>1. /\ S \in SUBSET (1..Len(text)) /\ DOMAIN SourceLines = 1..(Cardinality(S) + 1)
        /\ \A k \in 1..(Cardinality(S) + 1) :
             SourceLines[k] = SubSeq(text, LineStart(S, k), LineEnd(S, k, Len(text)))
    BY <1>1, <1>2, SplitShape
  <2> HIDE DEF L, S
  <2>2. QED BY <2>1, <1>1
<1> HIDE DEF S, L
<1>4. a \in 1..(L + 1) /\ b \in 0..L
  BY <1>1, <1>3, LineBounds
<1>5. SourceLines[l] = SubSeq(text, a, b)
  BY <1>3
<1>6. \A q \in a..b : q \in 1..L /\ q \notin S
  BY <1>1, <1>3, BetweenBreaks
<1> HIDE DEF a, b
<1>7. /\ SubSeq(text, a, b) \in Seq(Nat)
      /\ Len(SubSeq(text, a, b)) = IF a <= b THEN b - a + 1 ELSE 0
      /\ \A j \in 1..(b - a + 1) : SubSeq(text, a, b)[j] = text[a + j - 1]
  <2>1. a \in Int /\ b \in Int /\ \A q \in a..b : text[q] \in Nat
    BY <1>1, <1>4, <1>6
  <2>2. QED BY <2>1, SubSeqProperties
<1>8. i \in 1..Len(SubSeq(text, a, b))
  BY <1>5, <1>7, LenProperties
<1>9. i \in Nat /\ 1 <= i /\ a <= b /\ i <= b - a + 1
  BY <1>4, <1>7, <1>8
<1>10. PICK q \in a..b : q = a + i - 1
  BY <1>4, <1>9
<1>11. SourceLines[l][i] = q
  <2>1. SourceLines[l][i] = text[q]
    BY <1>4, <1>5, <1>7, <1>9, <1>10
  <2>2. QED BY <2>1, <1>1, <1>6
<1>12. q \in 1..L /\ data[q] /= "n"
  BY <1>1, <1>6
<1>13. QED BY <1>11, <1>12 DEF L

\* When rows of comments begin with a comment's signs and rows of code do not,
\* what a line looks like is what it is.
LEMMA LooksAreRight ==
  ASSUME WindowInv, StarStyle
  PROVE  CodeLines = {l \in DOMAIN SourceLines : LooksLikeCode(SourceLines[l])}
<1> DEFINE code == UNION {file[i].from + 1 .. file[i].to :
                            i \in {k \in DOMAIN file : file[k].kind \notin Comments \cup Newlines}}
<1>1. /\ file \in Seq(Token) /\ DOMAIN file = 1..Len(file)
      /\ \A i \in 1..Len(file) : file[i].kind \in Kinds /\ file[i].kind \notin {"deref", "blockText"}
  <2>1. file \in Seq(Token) /\ DOMAIN file = 1..Len(file)
    BY LenProperties DEF WindowInv, TypeInv
  <2>2. \A i \in 1..Len(file) : file[i] \in Token
    BY <2>1, ElementOfSeq
  <2>3. QED BY <2>1, <2>2 DEF Token, StarStyle
<1>2. ASSUME NEW p \in 1..Len(data), data[p] /= "n"
      PROVE  (p \in code /\ data[p] /= "r") <=> data[p] \notin {"r", "/", "*"}
  <2>1. ASSUME NEW i \in 1..Len(file), p \in (file[i].from + 1)..file[i].to,
               file[i].kind \notin Comments \cup Newlines
        PROVE  data[p] \in {"c", "n", "r"}
    <3>1. data[p] \in CellsOf(file[i].kind)
      BY <2>1 DEF WindowInv, TokensInv
    <3>2. PICK j \in 1..Len(Cells[file[i].kind]) : data[p] = Cells[file[i].kind][j]
      BY <3>1 DEF CellsOf
    <3>3. file[i].kind \notin Comments \cup Newlines \cup {"deref"} /\ file[i].kind \in Kinds
      BY <1>1, <2>1
    <3>4. QED BY <3>2, <3>3, CellsShape
  <2>2. ASSUME NEW i \in 1..Len(file), p \in (file[i].from + 1)..file[i].to,
               file[i].kind \in Comments \cup Newlines
        PROVE  data[p] \in {"/", "*", "n", "r"}
    <3>1. data[p] \in CellsOf(file[i].kind)
      BY <2>2 DEF WindowInv, TokensInv
    <3>2. PICK j \in 1..Len(Cells[file[i].kind]) : data[p] = Cells[file[i].kind][j]
      BY <3>1 DEF CellsOf
    <3>3. file[i].kind \in (Comments \cup Newlines) \ {"blockText"} /\ file[i].kind \in Kinds
      BY <1>1, <2>2
    <3>4. QED BY <3>2, <3>3, CellsShape
  <2>3. p \in code <=> \E i \in 1..Len(file) : /\ file[i].kind \notin Comments \cup Newlines
                                               /\ p \in (file[i].from + 1)..file[i].to
    BY <1>1
  <2>4. PICK i \in 1..Len(file) : p \in (file[i].from + 1)..file[i].to
    BY DEF WindowInv, TokensInv
  <2> HIDE DEF code
  <2>5. p \in code => data[p] \in {"c", "n", "r"}
    BY <2>1, <2>3
  <2>6. p \notin code => data[p] \in {"/", "*", "n", "r"}
    BY <2>2, <2>3, <2>4
  <2>7. QED BY <1>2, <2>5, <2>6
<1> DEFINE BeginsWithCode(text) ==
      \E i \in DOMAIN text : /\ text[i] \in code /\ data[text[i]] /= "r"
                             /\ \A j \in 1..(i - 1) : data[text[j]] = "r"
<1>3. CodeLines = {l \in DOMAIN SourceLines : BeginsWithCode(SourceLines[l])}
  BY DEF CodeLines
<1> HIDE DEF code
<1>4. ASSUME NEW l \in DOMAIN SourceLines
      PROVE  BeginsWithCode(SourceLines[l]) <=> LooksLikeCode(SourceLines[l])
  <2>1. \A i \in DOMAIN SourceLines[l] :
           SourceLines[l][i] \in 1..Len(data) /\ data[SourceLines[l][i]] /= "n"
    BY LineCells
  <2>2. \A i \in DOMAIN SourceLines[l] :
           (SourceLines[l][i] \in code /\ data[SourceLines[l][i]] /= "r")
             <=> data[SourceLines[l][i]] \notin {"r", "/", "*"}
    BY <1>2, <2>1
  <2>3. QED BY <2>2 DEF LooksLikeCode
<1> HIDE DEF BeginsWithCode
<1>5. QED BY <1>3, <1>4

\* Of equal elements the first is kept.
LEMMA DedupeShape ==
  ASSUME NEW X, NEW specs \in Seq(X)
  PROVE  LET kept == DedupeBreakpointSpecs(specs)
         IN Range(kept) = Range(specs) /\ Len(kept) = Cardinality(Range(kept))
<1> DEFINE n == Len(specs)
           I == {k \in DOMAIN specs : \A j \in 1..(k - 1) : specs[j] /= specs[k]}
           kept == DedupeBreakpointSpecs(specs)
           c == Cardinality(I)
<1>1. n \in Nat /\ DOMAIN specs = 1..n
  BY LenProperties
<1>2. kept = Pick(specs, I)
  BY DEF DedupeBreakpointSpecs
<1>3. \A k \in I : k \in 1..n /\ \A j \in 1..(k - 1) : specs[j] /= specs[k]
  BY <1>1
<1>4. \A k \in 1..n : (\A j \in 1..(k - 1) : specs[j] /= specs[k]) => k \in I
  BY <1>1
<1> HIDE DEF I
<1>5. I \in SUBSET (1..n) /\ I \in SUBSET (0..n)
  BY <1>1, <1>3
<1>6. /\ Pick(specs, I) \in Seq(X) /\ Len(Pick(specs, I)) = c /\ c \in Nat
      /\ \A k \in 1..c : Nth(I, k) \in I /\ Pick(specs, I)[k] = specs[Nth(I, k)]
      /\ \A i \in I : \E k \in 1..c : Nth(I, k) = i
  BY <1>5, PickType
<1> HIDE DEF c, kept
<1>7. /\ kept \in Seq(X) /\ Len(kept) = c /\ DOMAIN kept = 1..c
      /\ \A k \in 1..c : Nth(I, k) \in I /\ kept[k] = specs[Nth(I, k)]
  BY <1>2, <1>6, LenProperties
<1>8. \A k \in 1..c : kept[k] \in Range(specs)
  BY <1>1, <1>3, <1>7 DEF Range
<1>9. ASSUME NEW k \in 1..n
      PROVE  \E m \in 1..c : kept[m] = specs[k]
  <2> DEFINE T == {j \in 1..n : specs[j] = specs[k]}
  <2>1. T \in SUBSET Nat /\ T /= {}
    OBVIOUS
  <2>2. PICK j \in T : \A t \in T : j <= t
    <3> HIDE DEF T
    <3> QED BY <2>1, LeastElement
  <2>3. j \in 1..n /\ specs[j] = specs[k]
    OBVIOUS
  <2>4. ASSUME NEW i \in 1..(j - 1)
        PROVE  specs[i] /= specs[j]
    <3>1. i \in 1..n /\ ~(j <= i)
      BY <1>1, <2>3
    <3>2. i \notin T
      BY <2>2, <3>1
    <3>3. QED BY <2>3, <3>1, <3>2
  <2>5. j \in I
    BY <1>4, <2>3, <2>4
  <2>6. PICK m \in 1..c : Nth(I, m) = j
    BY <1>6, <2>5
  <2>7. QED BY <1>7, <2>3, <2>6
<1>10. Range(kept) = Range(specs)
  <2>1. \A x \in Range(kept) : x \in Range(specs)
    BY <1>7, <1>8 DEF Range
  <2>2. \A x \in Range(specs) : x \in Range(kept)
    BY <1>1, <1>7, <1>9 DEF Range
  <2>3. QED BY <2>1, <2>2
<1>11. ASSUME NEW j \in 1..c, NEW k \in 1..c, j < k
       PROVE  kept[j] /= kept[k]
  <2>1. Nth(I, j) < Nth(I, k)
    BY <1>1, <1>5, <1>11, NthIncreases DEF c
  <2>2. Nth(I, j) \in I /\ Nth(I, k) \in I /\ Nth(I, j) \in 1..n /\ Nth(I, k) \in 1..n
    BY <1>3, <1>7
  <2>3. Nth(I, j) \in 1..(Nth(I, k) - 1)
    BY <1>1, <2>1, <2>2
  <2>4. specs[Nth(I, j)] /= specs[Nth(I, k)]
    BY <1>3, <2>2, <2>3
  <2>5. QED BY <1>7, <2>4
<1>12. kept \in Injection(1..c, Range(kept)) /\ kept \in Surjection(1..c, Range(kept))
  <2>1. kept \in [1..c -> Range(kept)]
    <3>1. kept = [k \in 1..c |-> kept[k]]
      BY <1>7, LenProperties
    <3>2. \A k \in 1..c : kept[k] \in Range(kept)
      BY <1>7 DEF Range
    <3>3. QED BY <3>1, <3>2
  <2>2. ASSUME NEW j \in 1..c, NEW k \in 1..c, kept[j] = kept[k]
        PROVE  j = k
    <3>1. ~(j < k) /\ ~(k < j)
      BY <1>11, <2>2
    <3>2. j \in Nat /\ k \in Nat
      OBVIOUS
    <3>3. QED BY <3>1, <3>2
  <2>3. IsInjective(kept)
    BY <1>7, <2>2 DEF IsInjective
  <2>4. \A x \in Range(kept) : \E k \in 1..c : kept[k] = x
    BY <1>7 DEF Range
  <2>5. QED BY <2>1, <2>3, <2>4 DEF Injection, Surjection
<1>13. IsFiniteSet(1..c) /\ Cardinality(1..c) = c
  BY <1>6, Counting
<1>14. Cardinality(Range(kept)) = c
  BY <1>12, <1>13, FS_Surjection
<1>15. QED BY <1>7, <1>10, <1>14 DEF kept

\* Behind a line the target is the first line that begins with code.
LEMMA TargetShape ==
  ASSUME WindowInv, StarStyle, NEW c \in Nat
  PROVE  /\ FirstCodeBehind(c) \in Nat
         /\ \A l : (l = FirstCodeBehind(c) /\ l /= NoTarget)
                  <=> (l \in CodeLines /\ c < l /\ \A k \in CodeLines : k > c => k >= l)
<1> DEFINE n == Len(SourceLines)
           later == {l \in DOMAIN SourceLines : l > c /\ LooksLikeCode(SourceLines[l])}
<1>1. n \in Nat /\ DOMAIN SourceLines = 1..n
  BY SourceShape
<1>2. CodeLines = {l \in DOMAIN SourceLines : LooksLikeCode(SourceLines[l])}
  BY LooksAreRight
<1>3. \A l : l \in later <=> l \in CodeLines /\ l > c
  BY <1>2
<1>4. \A l \in CodeLines : l \in 1..n
  BY <1>1, <1>2
<1>5. FirstCodeBehind(c) = IF later = {} THEN NoTarget ELSE Nth(later, 1)
  BY DEF FirstCodeBehind
<1> HIDE DEF later, n
<1>6. \A l \in later : l \in 1..n /\ l \in Nat /\ l /= 0
  BY <1>3, <1>4
<1>7. CASE later = {}
  <2>1. FirstCodeBehind(c) = 0
    BY <1>5, <1>7 DEF NoTarget
  <2>2. \A l \in CodeLines : ~(l > c)
    BY <1>3, <1>7
  <2>3. \A l \in CodeLines : ~(c < l)
    BY <2>2
  <2>4. QED BY <2>1, <2>3 DEF NoTarget
<1>8. CASE later /= {}
  <2>1. later \in SUBSET (0..n)
    BY <1>1, <1>6
  <2>2. PICK f \in later : f = FirstCodeBehind(c) /\ \A t \in later : f <= t
    <3>1. Nth(later, 1) \in later /\ \A t \in later : Nth(later, 1) <= t
      BY <1>1, <1>8, <2>1, NthFirst
    <3>2. QED BY <3>1, <1>5, <1>8
  <2>3. f \in Nat /\ f /= 0 /\ f \in CodeLines /\ f > c
    BY <1>3, <1>6, <2>2
  <2>4. ASSUME NEW k \in CodeLines, k > c
        PROVE  k >= f
    <3>1. k \in later
      BY <1>3, <2>4
    <3>2. k \in Nat /\ f <= k
      BY <3>1, <1>6, <2>2
    <3>3. QED BY <3>2, <2>3
  <2>5. ASSUME NEW l \in CodeLines, c < l, \A k \in CodeLines : k > c => k >= l
        PROVE  l = f
    <3>1. l \in Nat
      BY <1>4
    <3>2. l > c
      BY <2>5, <3>1
    <3>3. l \in later
      BY <1>3, <3>2
    <3>4. f <= l
      BY <2>2, <3>3
    <3>5. f >= l
      BY <2>3, <2>5
    <3>6. QED BY <2>3, <3>1, <3>4, <3>5
  <2>6. c < f
    BY <2>3
  <2>7. QED BY <2>2, <2>3, <2>4, <2>5, <2>6 DEF NoTarget
<1>9. QED BY <1>7, <1>8

\* A marker comment begins and ends on the same line.
LEMMA MarkLine ==
  ASSUME WindowInv, NEW i \in 1..Len(file), file[i].kind = "mark"
  PROVE  LineAt(file[i].to) = LineAt(file[i].from) /\ LineAt(file[i].from) \in Nat
<1>1. file[i].kind \in Kinds /\ file[i].from \in Nat /\ file[i].to \in Nat
  <2>1. file[i] \in Token
    BY ElementOfSeq DEF WindowInv, TypeInv
  <2>2. QED BY <2>1 DEF Token
<1>2. PICK a \in Nat : a = file[i].from
  BY <1>1
<1>3. "mark" \in Kinds /\ Len(Cells["mark"]) = 1 /\ \A j \in 1..1 : Cells["mark"][j] /= "n"
  <2>1. "mark" \in Kinds
    BY <1>1
  <2>2. QED BY <2>1, CellsShape
<1>4. file[i].to = a + 1
  BY <1>2, <1>3 DEF WindowInv, TokensInv
<1>5. data[a + 1] /= "n"
  <2>1. a + 1 \in (a + 1)..(a + 1)
    BY <1>2
  <2>2. data[a + 1] \in CellsOf("mark")
    BY <1>2, <1>4, <2>1 DEF WindowInv, TokensInv
  <2>3. QED BY <2>2, <1>3 DEF CellsOf
<1>6. {p \in 1..(a + 1) : data[p] = "n"} = {p \in 1..a : data[p] = "n"}
  <2>1. \A p \in 1..(a + 1) : p \in 1..a \/ p = a + 1
    OBVIOUS
  <2>2. \A p \in 1..a : p \in 1..(a + 1)
    OBVIOUS
  <2>3. QED BY <2>1, <2>2, <1>5
<1>7. Cardinality({p \in 1..a : data[p] = "n"}) \in Nat
  <2>1. IsFiniteSet({p \in 1..a : data[p] = "n"})
    BY Counting, FS_Subset
  <2>2. QED BY <2>1, FS_CardinalityType
<1>8. LineAt(a + 1) = LineAt(a) /\ LineAt(a) \in Nat
  <2>1. LineAt(a + 1) = LineAt(a)
    BY <1>6 DEF LineAt
  <2>2. LineAt(a) = 1 + Cardinality({p \in 1..a : data[p] = "n"})
    BY DEF LineAt
  <2>3. LineAt(a) \in Nat
    BY <1>7, <2>2
  <2>4. QED BY <2>1, <2>3
<1>9. QED BY <1>2, <1>4, <1>8

\* What the marker comments of a file ask for.
LEMMA ScanShape ==
  ASSUME WindowInv, StarStyle
  PROVE  /\ ScanCommentBreakpoints \in Seq(Nat)
         /\ \A l : l \in Range(ScanCommentBreakpoints)
                  <=> /\ l /= NoTarget
                      /\ \E i \in {k \in DOMAIN file : file[k].kind = "mark"} :
                            l = FirstCodeBehind(LineAt(file[i].from))
<1> DEFINE marks == {i \in DOMAIN file : IsBreakpointComment(file[i])}
           c == Cardinality(marks)
           targets == [m \in 1..c |-> ResolveBreakpointTargetLine(LineAt(file[Nth(marks, m)].to))]
           I == {m \in DOMAIN targets : targets[m] /= NoTarget}
<1>1. file \in Seq(Token) /\ Len(file) \in Nat /\ DOMAIN file = 1..Len(file)
  BY LenProperties DEF WindowInv, TypeInv
<1>2. marks = {k \in DOMAIN file : file[k].kind = "mark"}
  BY DEF IsBreakpointComment
<1>3. ScanCommentBreakpoints = Pick(targets, I)
  BY DEF ScanCommentBreakpoints
<1> HIDE DEF marks
<1>4. marks \in SUBSET (1..Len(file))
  BY <1>1, <1>2
<1>5. /\ c \in Nat
      /\ \A m \in 1..c : Nth(marks, m) \in marks
      /\ \A i \in marks : \E m \in 1..c : Nth(marks, m) = i
  BY <1>1, <1>4, PickType
<1> HIDE DEF c
<1>6. ASSUME NEW i \in marks
      PROVE  /\ LineAt(file[i].to) = LineAt(file[i].from)
             /\ FirstCodeBehind(LineAt(file[i].from)) \in Nat
  <2>1. i \in 1..Len(file) /\ file[i].kind = "mark"
    BY <1>2, <1>4
  <2>2. LineAt(file[i].to) = LineAt(file[i].from) /\ LineAt(file[i].from) \in Nat
    BY <2>1, MarkLine
  <2>3. QED BY <2>2, TargetShape
<1>7. \A m \in 1..c : targets[m] = FirstCodeBehind(LineAt(file[Nth(marks, m)].from))
  BY <1>5, <1>6 DEF ResolveBreakpointTargetLine
<1>8. targets \in Seq(Nat) /\ Len(targets) = c
  <2>1. \A m \in 1..c : targets[m] \in Nat
    BY <1>5, <1>6, <1>7
  <2>2. targets \in [1..c -> Nat]
    <3>1. targets = [m \in 1..c |-> targets[m]]
      OBVIOUS
    <3> HIDE DEF targets
    <3>2. QED BY <2>1, <3>1
  <2> HIDE DEF targets
  <2>3. QED BY <1>5, <2>2, FunctionIsSeq
<1>9. \A m : m \in I <=> m \in 1..c /\ targets[m] /= NoTarget
  OBVIOUS
<1> HIDE DEF targets, I
<1>10. I \in SUBSET (1..Len(targets))
  BY <1>8, <1>9
<1>11. /\ Pick(targets, I) \in Seq(Nat) /\ Len(Pick(targets, I)) = Cardinality(I)
       /\ Cardinality(I) \in Nat
       /\ \A k \in 1..Cardinality(I) : Nth(I, k) \in I /\ Pick(targets, I)[k] = targets[Nth(I, k)]
       /\ \A i \in I : \E k \in 1..Cardinality(I) : Nth(I, k) = i
  BY <1>8, <1>10, PickType
<1>12. DOMAIN Pick(targets, I) = 1..Cardinality(I)
  BY <1>11, LenProperties
<1>13. \A l : l \in Range(Pick(targets, I)) <=> \E m \in I : l = targets[m]
  BY <1>11, <1>12 DEF Range
<1>14. \A l : (\E m \in I : l = targets[m])
              <=> l /= NoTarget /\ \E i \in marks : l = FirstCodeBehind(LineAt(file[i].from))
  BY <1>5, <1>7, <1>9
<1>15. /\ ScanCommentBreakpoints \in Seq(Nat)
       /\ \A l : l \in Range(ScanCommentBreakpoints)
                <=> l /= NoTarget /\ \E i \in marks : l = FirstCodeBehind(LineAt(file[i].from))
  <2>1. ScanCommentBreakpoints \in Seq(Nat)
    BY <1>3, <1>11
  <2>2. \A l : l \in Range(ScanCommentBreakpoints) <=> \E m \in I : l = targets[m]
    BY <1>3, <1>13
  <2>3. QED BY <1>14, <2>1, <2>2
<1>16. QED BY <1>2, <1>15

\* Each marker comment of a file asks for one breakpoint, on the first line
\* behind the comment's own that begins with code, and markers of the same line
\* ask for it once: MarksMeanNextCode.
THEOREM MarksAreKept == Spec => []MarksMeanNextCode
<1>1. ASSUME WindowInv PROVE MarksMeanNextCode
  <2> SUFFICES ASSUME StarStyle PROVE MarksMeanNextCode
    BY DEF MarksMeanNextCode
  <2> DEFINE code == CodeLines
             tokens == {k \in DOMAIN file : file[k].kind = "mark"}
             marks == {LineAt(file[i].from) : i \in tokens}
             wanted == {l \in code : \E c \in marks : c < l /\ \A k \in code : k > c => k >= l}
             specs == DiscoverCommentBreakpoints
  <2>1. \A i \in tokens : LineAt(file[i].from) \in Nat
    <3>1. DOMAIN file = 1..Len(file)
      BY <1>1, LenProperties DEF WindowInv, TypeInv
    <3>2. QED BY <1>1, <3>1, MarkLine
  <2> HIDE DEF tokens
  <2>2. \A c \in marks : c \in Nat
    BY <2>1
  <2>3. /\ ScanCommentBreakpoints \in Seq(Nat)
        /\ \A l : l \in Range(ScanCommentBreakpoints)
                 <=> l /= NoTarget /\ \E i \in tokens : l = FirstCodeBehind(LineAt(file[i].from))
    BY <1>1, ScanShape DEF tokens
  <2>4. \A l : l \in Range(ScanCommentBreakpoints)
               <=> \E c \in marks : l = FirstCodeBehind(c) /\ l /= NoTarget
    BY <2>3
  <2> HIDE DEF marks
  <2>5. \A l : (\E c \in marks : l = FirstCodeBehind(c) /\ l /= NoTarget) <=> l \in wanted
    <3>1. \A c \in marks : \A l :
             (l = FirstCodeBehind(c) /\ l /= NoTarget)
               <=> (l \in code /\ c < l /\ \A k \in code : k > c => k >= l)
      BY <1>1, <2>2, TargetShape
    <3> HIDE DEF code
    <3>2. QED BY <3>1
  <2>6. Range(ScanCommentBreakpoints) = wanted
    <3> HIDE DEF wanted
    <3> QED BY <2>4, <2>5
  <2>7. /\ Range(specs) = Range(ScanCommentBreakpoints)
        /\ Len(specs) = Cardinality(Range(specs))
    BY <2>3, DedupeShape DEF DiscoverCommentBreakpoints
  <2>8. Range(specs) = wanted /\ Len(specs) = Cardinality(wanted)
    <3> HIDE DEF wanted, specs
    <3> QED BY <2>6, <2>7
  <2>9. QED BY <2>8 DEF MarksMeanNextCode, marks, tokens
<1>2. QED BY <1>1, FilesScanned, PTL
=============================================================================
