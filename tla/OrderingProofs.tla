---------------------------- MODULE OrderingProofs ----------------------------
(***************************************************************************)
(* What OrderBy and Keeping give: used for the queries of a tail           *)
(* (RunEventsProofs), the chain of a request and the documents of an       *)
(* answer (AlgorithmsProofs).                                              *)
(***************************************************************************)
EXTENDS Ordering, SequencesExt, FiniteSetTheorems, TLAPS

(* ORDER BY: for a strict total order on a finite set, OrderBy is a sequence *)
(* of all its elements, each of them once, in that order.  The numbers of   *)
(* predecessors of the elements differ, so that they take every value.      *)

StrictTotal(S, order) ==
    /\ \A x \in S : <<x, x>> \notin order
    /\ \A x, y \in S : x # y => <<x, y>> \in order \/ <<y, x>> \in order
    /\ \A x, y, z \in S : <<x, y>> \in order /\ <<y, z>> \in order => <<x, z>> \in order

LEMMA FewerPrecede ==
  ASSUME NEW S, IsFiniteSet(S), NEW order, StrictTotal(S, order),
         NEW x \in S, NEW y \in S, <<x, y>> \in order
  PROVE  /\ Cardinality(Preceding(x, S, order)) \in Nat
         /\ Cardinality(Preceding(y, S, order)) \in Nat
         /\ Cardinality(Preceding(x, S, order)) < Cardinality(Preceding(y, S, order))
<1> DEFINE P == Preceding(x, S, order)
           Q == Preceding(y, S, order)
<1>1. P \subseteq S /\ Q \subseteq S
  BY DEF Preceding
<1>2. P \subseteq Q /\ x \in Q /\ x \notin P
  BY DEF Preceding, StrictTotal
<1>3. IsFiniteSet(P) /\ IsFiniteSet(Q)
  BY <1>1, FS_Subset
<1>4. Cardinality(P) \in Nat /\ Cardinality(Q) \in Nat
  BY <1>3, FS_CardinalityType
<1>5. P \in SUBSET Q /\ P # Q
  BY <1>2
<1>6. Cardinality(P) <= Cardinality(Q) /\ (Cardinality(Q) = Cardinality(P) => Q = P)
  BY ONLY <1>3, <1>5, FS_Subset
<1> QED
  BY <1>4, <1>5, <1>6

LEMMA RankTaken ==
  ASSUME NEW S, IsFiniteSet(S), NEW order, StrictTotal(S, order)
  PROVE  /\ Cardinality(S) \in Nat
         /\ \A x \in S : Cardinality(Preceding(x, S, order)) + 1 \in 1 .. Cardinality(S)
         /\ \A k \in 1 .. Cardinality(S) :
                \E x \in S : Cardinality(Preceding(x, S, order)) = k - 1
<1> DEFINE N == Cardinality(S)
           R(x) == Cardinality(Preceding(x, S, order))
           f == [x \in S |-> R(x) + 1]
<1>1. N \in Nat
  BY FS_CardinalityType
<1>2. ASSUME NEW x \in S
      PROVE  R(x) \in Nat /\ R(x) + 1 \in 1 .. N
  <2> DEFINE P == Preceding(x, S, order)
  <2>1. P \subseteq S /\ x \notin P
    BY DEF Preceding, StrictTotal
  <2>2. P \in SUBSET S /\ P # S
    BY <2>1
  <2>3. IsFiniteSet(P) /\ Cardinality(P) <= N /\ (N = Cardinality(P) => S = P)
    BY ONLY <2>2, IsFiniteSet(S), FS_Subset
  <2>4. Cardinality(P) \in Nat
    BY <2>3, FS_CardinalityType
  <2> QED
    BY <1>1, <2>2, <2>3, <2>4
<1>3. ASSUME NEW k \in 1 .. N, \A x \in S : R(x) # k - 1
      PROVE  FALSE
  <2> DEFINE T == (1 .. N) \ {k}
  <2>1. IsFiniteSet(1 .. N) /\ Cardinality(1 .. N) = N
    BY <1>1, FS_Interval
  <2>2. IsFiniteSet(T) /\ Cardinality(T) = N - 1
    BY <2>1, FS_RemoveElement
  <2>3. ASSUME NEW x \in S PROVE R(x) + 1 \in T
    <3>1. R(x) \in Nat /\ R(x) + 1 \in 1 .. N /\ R(x) # k - 1
      BY <1>2, <1>3
    <3> HIDE DEF R, N
    <3> QED
      BY <3>1, <1>1
  <2>4. f \in [S -> T]
    BY <2>3
  <2> HIDE DEF f, T
  <2>5. PICK x, y \in S : x # y /\ f[x] = f[y]
    BY <1>1, <2>2, <2>4, FS_PigeonHole
  <2>6. R(x) = R(y)
    <3>1. f[x] = R(x) + 1 /\ f[y] = R(y) + 1
      BY DEF f
    <3>2. R(x) \in Nat /\ R(y) \in Nat
      BY <1>2
    <3>3. R(x) + 1 = R(y) + 1
      BY <2>5, <3>1
    <3>4. \A a, b \in Nat : a + 1 = b + 1 => a = b
      OBVIOUS
    <3> QED
      BY ONLY <3>2, <3>3, <3>4
  <2>7. <<x, y>> \in order \/ <<y, x>> \in order
    BY <2>5 DEF StrictTotal
  <2> QED
    BY <2>6, <2>7, FewerPrecede
<1> QED
  BY <1>1, <1>2, <1>3

LEMMA OrderedBy ==
  ASSUME NEW S, IsFiniteSet(S), NEW order, StrictTotal(S, order)
  PROVE  /\ OrderBy(S, order) \in Seq(S)
         /\ ToSet(OrderBy(S, order)) = S
         /\ \A i, j \in DOMAIN OrderBy(S, order) :
                i < j => <<OrderBy(S, order)[i], OrderBy(S, order)[j]>> \in order
<1> DEFINE N == Cardinality(S)
           R(x) == Cardinality(Preceding(x, S, order))
           At(i) == CHOOSE x \in S : R(x) = i - 1
           s == OrderBy(S, order)
<1>1. N \in Nat
  BY RankTaken
<1>2. ASSUME NEW i \in 1 .. N PROVE At(i) \in S /\ R(At(i)) = i - 1
  BY RankTaken
<1>3. s = [i \in 1 .. N |-> At(i)]
  BY DEF OrderBy
<1>4. s \in [1 .. N -> S]
  BY <1>2, <1>3
<1>5. s \in Seq(S) /\ DOMAIN s = 1 .. N
  BY <1>1, <1>4
<1>6. ASSUME NEW i \in 1 .. N PROVE s[i] \in S /\ R(s[i]) = i - 1
  BY <1>2, <1>3
<1>7. ASSUME NEW i \in 1 .. N, NEW j \in 1 .. N, i < j
      PROVE  <<s[i], s[j]>> \in order
  <2>1. s[i] \in S /\ s[j] \in S /\ R(s[i]) = i - 1 /\ R(s[j]) = j - 1
    BY <1>6
  <2>2. s[i] # s[j]
    BY <1>7, <2>1
  <2>3. CASE <<s[j], s[i]>> \in order
    <3>1. R(s[j]) < R(s[i])
      BY <2>1, <2>3, FewerPrecede
    <3> QED
      BY <1>1, <1>7, <2>1, <3>1
  <2> QED
    BY <2>1, <2>2, <2>3 DEF StrictTotal
<1>8. ASSUME NEW x \in S PROVE \E i \in 1 .. N : s[i] = x
  <2>1. R(x) + 1 \in 1 .. N
    BY RankTaken
  <2> DEFINE k == R(x) + 1
  <2>2. s[k] \in S /\ R(s[k]) = k - 1
    BY <1>6, <2>1
  <2>3. R(x) \in Nat
    <3>1. Preceding(x, S, order) \subseteq S
      BY DEF Preceding
    <3> QED
      BY <3>1, FS_Subset, FS_CardinalityType
  <2>4. R(s[k]) = R(x)
    BY <2>2, <2>3
  <2>5. ~(<<s[k], x>> \in order) /\ ~(<<x, s[k]>> \in order)
    BY <2>2, <2>4, FewerPrecede
  <2>6. s[k] = x
    BY <2>2, <2>5 DEF StrictTotal
  <2> QED
    BY <2>1, <2>6
<1>9. ToSet(s) = S
  BY <1>5, <1>6, <1>8 DEF ToSet
<1> QED
  BY <1>5, <1>7, <1>9

-----------------------------------------------------------------------------
(* The positions kept come in their order, and none comes later than it was *)
LEMMA PositionsKept ==
  ASSUME NEW n \in Nat, NEW I \in SUBSET (1 .. n)
  PROVE  /\ Positions(I) \in Seq(I)
         /\ ToSet(Positions(I)) = I
         /\ \A i, j \in DOMAIN Positions(I) : i < j => Positions(I)[i] < Positions(I)[j]
         /\ \A i \in DOMAIN Positions(I) : i <= Positions(I)[i]
         /\ Len(Positions(I)) <= n
<1> DEFINE order == {p \in I \X I : p[1] < p[2]}
           at == Positions(I)
<1>1. IsFiniteSet(I) /\ Cardinality(I) \in Nat /\ Cardinality(I) <= n
  <2>1. IsFiniteSet(1 .. n) /\ Cardinality(1 .. n) = n
    BY FS_Interval
  <2>2. IsFiniteSet(I) /\ Cardinality(I) <= Cardinality(1 .. n)
    BY ONLY <2>1, I \in SUBSET (1 .. n), FS_Subset
  <2> QED
    BY <2>1, <2>2, FS_CardinalityType
<1>2. \A x, y \in I : <<x, y>> \in order <=> x < y
  OBVIOUS
<1>3. StrictTotal(I, order)
  <2>1. \A x \in I : x \in Nat
    OBVIOUS
  <2> HIDE DEF order
  <2> QED
    BY <1>2, <2>1 DEF StrictTotal
<1>4. at = OrderBy(I, order)
  BY DEF Positions
<1> HIDE DEF at
<1>5. /\ at \in Seq(I) /\ ToSet(at) = I
      /\ \A i, j \in DOMAIN at : i < j => <<at[i], at[j]>> \in order
  <2> HIDE DEF order
  <2> QED
    BY <1>1, <1>3, <1>4, OrderedBy
<1>6. DOMAIN at = 1 .. Cardinality(I) /\ Len(at) = Cardinality(I)
  BY <1>1, <1>4 DEF OrderBy
<1>7. \A i \in DOMAIN at : at[i] \in I /\ at[i] \in 1 .. n
  <2>1. \A i \in DOMAIN at : at[i] \in I
    BY <1>5
  <2> QED
    BY <2>1
<1>8. \A i, j \in DOMAIN at : i < j => at[i] < at[j]
  BY <1>2, <1>5, <1>7
<1>9. ASSUME NEW i \in DOMAIN at PROVE i <= at[i]
  <2> DEFINE P == Preceding(at[i], I, order)
  <2>1. Cardinality(P) = i - 1
    <3>1. \E x \in I : Cardinality(Preceding(x, I, order)) = i - 1
      <4> HIDE DEF order
      <4> QED
        BY <1>1, <1>3, <1>6, RankTaken
    <3>2. at[i] = CHOOSE x \in I : Cardinality(Preceding(x, I, order)) = i - 1
      BY <1>1, <1>4, <1>6 DEF OrderBy
    <3> QED
      BY <3>1, <3>2
  <2>2. P \in SUBSET (1 .. at[i] - 1)
    <3>1. at[i] \in I /\ at[i] \in Nat /\ I \subseteq Nat /\ \A y \in I : 1 <= y
      BY <1>7
    <3>2. \A y \in P : y \in I /\ <<y, at[i]>> \in order
      BY DEF Preceding
    <3>3. \A y \in P : y \in Nat /\ 1 <= y /\ y < at[i]
      BY <1>2, <3>1, <3>2
    <3> HIDE DEF P, order
    <3> QED
      BY <3>1, <3>3
  <2>3. IsFiniteSet(1 .. at[i] - 1) /\ Cardinality(1 .. at[i] - 1) = at[i] - 1
    <3>1. at[i] \in Int /\ at[i] >= 1
      BY <1>7
    <3>2. 1 \in Int /\ at[i] - 1 \in Int
      BY <3>1
    <3>3. /\ IsFiniteSet(1 .. at[i] - 1)
          /\ Cardinality(1 .. at[i] - 1) = IF 1 > at[i] - 1 THEN 0 ELSE (at[i] - 1) - 1 + 1
      BY ONLY <3>2, FS_Interval
    <3> QED
      BY <3>1, <3>3
  <2>4. Cardinality(P) <= at[i] - 1
    BY ONLY <2>2, <2>3, FS_Subset
  <2>5. i \in Nat /\ at[i] \in Nat
    BY <1>6, <1>7, <1>9
  <2> QED
    BY ONLY <2>1, <2>4, <2>5
<1> QED
  BY <1>1, <1>5, <1>6, <1>8, <1>9 DEF at

(* Keeping(seq, I) has the elements of seq at the positions in I, each of   *)
(* them once for its position, in their order                               *)
LEMMA Kept ==
  ASSUME NEW S, NEW seq \in Seq(S), NEW I \in SUBSET DOMAIN seq
  PROVE  /\ Keeping(seq, I) \in Seq(S) /\ Len(Keeping(seq, I)) <= Len(seq)
         /\ DOMAIN Keeping(seq, I) = DOMAIN Positions(I)
         /\ \A n \in DOMAIN Keeping(seq, I) :
                /\ Positions(I)[n] \in I /\ n <= Positions(I)[n]
                /\ Keeping(seq, I)[n] = seq[Positions(I)[n]]
         /\ \A i \in I : \E n \in DOMAIN Keeping(seq, I) : Positions(I)[n] = i
         /\ \A m, n \in DOMAIN Keeping(seq, I) : m < n => Positions(I)[m] < Positions(I)[n]
<1> DEFINE at == Positions(I)
           kept == Keeping(seq, I)
<1>1. DOMAIN seq = 1 .. Len(seq) /\ Len(seq) \in Nat /\ \A i \in DOMAIN seq : seq[i] \in S
  OBVIOUS
<1>2. /\ at \in Seq(I) /\ ToSet(at) = I /\ Len(at) <= Len(seq)
      /\ \A i, j \in DOMAIN at : i < j => at[i] < at[j]
      /\ \A i \in DOMAIN at : i <= at[i]
  BY <1>1, PositionsKept
<1>3. kept = [n \in DOMAIN at |-> seq[at[n]]]
  BY DEF Keeping
<1> HIDE DEF at, kept
<1>4. DOMAIN at = 1 .. Len(at) /\ Len(at) \in Nat /\ \A n \in DOMAIN at : at[n] \in I
  BY <1>2
<1>5. kept \in Seq(S) /\ Len(kept) = Len(at) /\ DOMAIN kept = DOMAIN at
  BY <1>1, <1>3, <1>4
<1>6. \A n \in DOMAIN kept : kept[n] = seq[at[n]]
  BY <1>3
<1>7. ASSUME NEW i \in I PROVE \E n \in DOMAIN at : at[n] = i
  BY <1>2 DEF ToSet
<1> QED
  BY <1>2, <1>4, <1>5, <1>6, <1>7 DEF at, kept

(* What is kept of a sequence without repetitions has none *)
LEMMA KeptOnce ==
  ASSUME NEW S, NEW seq \in Seq(S), NEW I \in SUBSET DOMAIN seq,
         \A i, j \in DOMAIN seq : seq[i] = seq[j] => i = j
  PROVE  \A m, n \in DOMAIN Keeping(seq, I) : Keeping(seq, I)[m] = Keeping(seq, I)[n] => m = n
<1> DEFINE at == Positions(I)
           kept == Keeping(seq, I)
<1>1. /\ kept \in Seq(S)
      /\ \A n \in DOMAIN kept : at[n] \in I /\ kept[n] = seq[at[n]]
      /\ \A m, n \in DOMAIN kept : m < n => at[m] < at[n]
  BY Kept
<1>2. I \subseteq Nat
  OBVIOUS
<1> HIDE DEF at, kept
<1> SUFFICES ASSUME NEW m \in DOMAIN kept, NEW n \in DOMAIN kept, kept[m] = kept[n] PROVE m = n
  BY DEF kept
<1>3. at[m] = at[n] /\ at[m] \in Nat
  BY <1>1, <1>2
<1>4. m \in Nat /\ n \in Nat
  BY <1>1
<1>5. ~(m < n) /\ ~(n < m)
  BY <1>1, <1>3
<1> QED
  BY <1>4, <1>5

(* A set of positions has a first one *)
LEMMA LeastPosition ==
  ASSUME NEW n \in Nat, NEW I \in SUBSET (1 .. n), I # {}
  PROVE  \E i \in I : \A j \in I : i <= j
<1> DEFINE at == Positions(I)
<1>1. /\ at \in Seq(I) /\ ToSet(at) = I
      /\ \A i, j \in DOMAIN at : i < j => at[i] < at[j]
  BY PositionsKept
<1> HIDE DEF at
<1>2. \A x \in I : \E k \in DOMAIN at : at[k] = x
  BY <1>1 DEF ToSet
<1>3. DOMAIN at = 1 .. Len(at) /\ Len(at) \in Nat /\ \A k \in DOMAIN at : at[k] \in I
  BY <1>1
<1>4. 1 \in DOMAIN at
  <2>1. PICK x : x \in I
    OBVIOUS
  <2>2. PICK k \in DOMAIN at : at[k] = x
    BY <1>2, <2>1
  <2> QED
    BY <1>3, <2>2
<1>5. ASSUME NEW x \in I PROVE at[1] <= x
  <2>1. PICK k \in DOMAIN at : at[k] = x
    BY <1>2
  <2>2. at[1] \in Nat /\ x \in Nat
    <3>1. I \subseteq Nat /\ at[1] \in I
      BY <1>3, <1>4
    <3> QED
      BY <3>1
  <2>3. CASE k = 1
    BY <2>1, <2>2, <2>3
  <2>4. CASE k # 1
    BY <1>1, <1>3, <1>4, <2>1, <2>2, <2>4
  <2> QED
    BY <2>3, <2>4
<1> QED
  BY <1>3, <1>4, <1>5
=============================================================================
