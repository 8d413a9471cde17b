-------------------------- MODULE SortedSets_proofs --------------------------
(***************************************************************************)
(* Facts about a finite set of numbers in its order: what its sequence     *)
(* holds, what lies between two positions of it, and how the positions     *)
(* move when a number is put in or taken out.                              *)
(***************************************************************************)
EXTENDS SortedSets, Sequences, FiniteSetTheorems, SequenceTheorems, TLAPS

(* The elements that have a position before o.                             *)
Foremost(S, o) == {i \in S : Rank(S, i) < o}

(* The elements from position a to position b, b excluded.                 *)
Band(S, a, b) ==
  SubSeq(Sorted(S), a + 1, IF b < Cardinality(S) THEN b ELSE Cardinality(S))

SetOf(s) == {s[k] : k \in DOMAIN s}

-----------------------------------------------------------------------------
(* Positions.                                                              *)

(* A rank is a number below that of the elements.                          *)
LEMMA RankIs ==
  ASSUME NEW S \in SUBSET Nat, IsFiniteSet(S), NEW i \in Nat
  PROVE  /\ Cardinality(S) \in Nat
         /\ Rank(S, i) \in Nat /\ Rank(S, i) <= Cardinality(S)
         /\ i \in S => Rank(S, i) < Cardinality(S)
         /\ IsFiniteSet({j \in S : j < i})
<1> DEFINE below == {j \in S : j < i}
<1>1. below \in SUBSET S /\ i \notin below
  OBVIOUS
<1>2. Rank(S, i) = Cardinality(below)
  BY DEF Rank
<1> HIDE DEF below
<1>3. IsFiniteSet(below) /\ Cardinality(below) <= Cardinality(S)
      /\ (Cardinality(below) = Cardinality(S) => S = below)
  BY <1>1, FS_Subset
<1>4. Cardinality(below) \in Nat /\ Cardinality(S) \in Nat
  BY <1>3, FS_CardinalityType
<1>5. i \in S => Cardinality(below) < Cardinality(S)
  BY <1>1, <1>3, <1>4
<1>6. IsFiniteSet({j \in S : j < i})
  BY <1>3 DEF below
<1> QED
  BY <1>2, <1>3, <1>4, <1>5, <1>6

(* The ranks are in the order of the elements.                             *)
LEMMA RankGrows ==
  ASSUME NEW S \in SUBSET Nat, IsFiniteSet(S), NEW i \in S, NEW j \in S
  PROVE  (i < j <=> Rank(S, i) < Rank(S, j)) /\ (Rank(S, i) = Rank(S, j) => i = j)
<1>0. \A x \in S : x \in Nat
  OBVIOUS
<1>1. i \in Nat /\ j \in Nat
  BY <1>0
<1>2. ASSUME NEW u \in S, NEW v \in S, u < v
      PROVE  Rank(S, u) < Rank(S, v)
  <2> DEFINE before(w) == {x \in S : x < w}
  <2>1. u \in Nat /\ v \in Nat
    BY <1>0
  <2>2. u \in before(v) /\ u \notin before(u)
    BY <1>2, <2>1
  <2>3. ASSUME NEW x \in S, x < u PROVE x < v
    BY <1>0, <1>2, <2>1, <2>3
  <2>4. before(u) \in SUBSET before(v)
    BY <2>3
  <2>5. IsFiniteSet(before(v)) /\ IsFiniteSet(before(u))
    BY <2>1, RankIs
  <2>6. Rank(S, u) = Cardinality(before(u)) /\ Rank(S, v) = Cardinality(before(v))
    BY DEF Rank
  <2>7. Rank(S, u) \in Nat /\ Rank(S, v) \in Nat
    BY <2>1, RankIs
  <2> HIDE DEF before
  <2>8. Cardinality(before(u)) <= Cardinality(before(v))
        /\ Cardinality(before(u)) # Cardinality(before(v))
    BY <2>2, <2>4, <2>5, FS_Subset
  <2> QED
    BY <2>6, <2>7, <2>8
<1>3. Rank(S, i) \in Nat /\ Rank(S, j) \in Nat
  BY <1>1, RankIs
<1>4. i < j => Rank(S, i) < Rank(S, j)
  BY <1>2
<1>5. j < i => Rank(S, j) < Rank(S, i)
  BY <1>2
<1>6. i < j \/ j < i \/ i = j
  BY <1>1
<1> QED
  BY <1>3, <1>4, <1>5, <1>6

(* The sequence holds every element once, at the position of its rank.     *)
LEMMA SortedIs ==
  ASSUME NEW S \in SUBSET Nat, IsFiniteSet(S)
  PROVE  /\ Cardinality(S) \in Nat
         /\ Sorted(S) \in Seq(S) /\ Len(Sorted(S)) = Cardinality(S)
         /\ \A i \in S : \E k \in 1..Cardinality(S) : Sorted(S)[k] = i
         /\ \A k \in 1..Cardinality(S) :
              Sorted(S)[k] \in S /\ Rank(S, Sorted(S)[k]) = k - 1
         /\ \A j, k \in 1..Cardinality(S) :
              j < k <=> Sorted(S)[j] < Sorted(S)[k]
<1> DEFINE c == Cardinality(S)
           rank == [i \in S |-> Rank(S, i) + 1]
           s == Sorted(S)
<1>0. \A x \in S : x \in Nat
  OBVIOUS
<1>1. c \in Nat
  BY FS_CardinalityType
<1>2. ASSUME NEW i \in S
      PROVE  Rank(S, i) \in Nat /\ Rank(S, i) < c
  <2>1. i \in Nat
    BY <1>0
  <2> QED
    BY <2>1, RankIs
<1>3. rank \in Injection(S, 1..c)
  <2>1. rank \in [S -> 1..c]
    BY <1>1, <1>2
  <2>2. ASSUME NEW i \in S, NEW j \in S, rank[i] = rank[j]
        PROVE  i = j
    <3>1. Rank(S, i) = Rank(S, j)
      BY <1>2, <2>2
    <3> QED
      BY <3>1, RankGrows
  <2> QED
    BY <2>1, <2>2 DEF Injection, IsInjective
<1>4. rank \in Surjection(S, 1..c)
  <2>1. IsFiniteSet(1..c) /\ Cardinality(1..c) = c
    BY <1>1, FS_Interval
  <2> HIDE DEF rank
  <2> QED
    BY <1>3, <2>1, FS_Injection
<1>5. s = [k \in 1..c |-> CHOOSE i \in S : Rank(S, i) = k - 1]
  BY DEF Sorted
<1> HIDE DEF s
<1>6. ASSUME NEW k \in 1..c
      PROVE  s[k] \in S /\ Rank(S, s[k]) = k - 1
  <2>1. PICK i \in S : rank[i] = k
    <3> HIDE DEF rank
    <3> QED BY <1>4 DEF Surjection
  <2>2. Rank(S, i) = k - 1
    BY <1>2, <2>1
  <2> QED
    BY <1>5, <2>2
<1>7. s \in [1..c -> S] /\ DOMAIN s = 1..c
  BY <1>5, <1>6
<1>8. s \in Seq(S) /\ Len(s) = c
  BY <1>1, <1>7, SeqDef
<1>9. ASSUME NEW i \in S PROVE \E k \in 1..c : s[k] = i
  <2> DEFINE k == Rank(S, i) + 1
  <2>1. k \in 1..c
    BY <1>1, <1>2
  <2>2. s[k] \in S /\ Rank(S, s[k]) = k - 1
    BY <1>6, <2>1
  <2>3. Rank(S, s[k]) = Rank(S, i)
    BY <1>2, <2>2
  <2>4. s[k] = i
    BY <2>2, <2>3, RankGrows
  <2> QED
    BY <2>1, <2>4
<1>10. ASSUME NEW j \in 1..c, NEW k \in 1..c PROVE j < k <=> s[j] < s[k]
  <2>1. s[j] \in S /\ s[k] \in S /\ Rank(S, s[j]) = j - 1 /\ Rank(S, s[k]) = k - 1
    BY <1>6
  <2>2. s[j] < s[k] <=> Rank(S, s[j]) < Rank(S, s[k])
    BY <2>1, RankGrows
  <2>3. j \in Int /\ k \in Int
    OBVIOUS
  <2> QED
    BY <2>1, <2>2, <2>3
<1> QED
  BY <1>1, <1>6, <1>8, <1>9, <1>10 DEF s

(* A finite set that is not empty has a greatest element.                  *)
LEMMA HasGreatest ==
  ASSUME NEW S \in SUBSET Nat, IsFiniteSet(S), S # {}
  PROVE  \E i \in S : \A j \in S : j <= i
<1> DEFINE c == Cardinality(S)
           s == Sorted(S)
<1>1. /\ c \in Nat
      /\ \A i \in S : \E k \in 1..c : s[k] = i
      /\ \A k \in 1..c : s[k] \in S
      /\ \A j, k \in 1..c : j < k <=> s[j] < s[k]
  BY SortedIs
<1> HIDE DEF c, s
<1>2. c \in 1..c
  <2>1. PICK i \in S : TRUE
    OBVIOUS
  <2>2. PICK k \in 1..c : s[k] = i
    BY <1>1
  <2> QED
    BY <1>1, <2>2
<1>3. ASSUME NEW j \in S PROVE j <= s[c]
  <2>1. PICK k \in 1..c : s[k] = j
    BY <1>1
  <2>2. s[k] \in Nat /\ s[c] \in Nat /\ k \in Nat
    <3>1. s[k] \in S /\ s[c] \in S
      BY <1>1, <1>2
    <3>2. \A x \in S : x \in Nat
      OBVIOUS
    <3>3. s[k] \in Nat /\ s[c] \in Nat
      BY <3>1, <3>2
    <3>4. k \in Nat
      BY <1>1
    <3> QED
      BY <3>3, <3>4
  <2>3. CASE k = c
    BY <2>1, <2>2, <2>3
  <2>4. CASE k < c
    BY <1>1, <1>2, <2>1, <2>2, <2>4
  <2> QED
    BY <1>1, <2>1, <2>3, <2>4
<1> QED
  BY <1>1, <1>2, <1>3

(* The elements of a band and their number.                                *)
LEMMA BandIs ==
  ASSUME NEW S \in SUBSET Nat, IsFiniteSet(S), NEW a \in Nat, NEW b \in Nat
  PROVE  LET c == Cardinality(S)
             e == IF b < c THEN b ELSE c
         IN  /\ Band(S, a, b) \in Seq(S)
             /\ Len(Band(S, a, b)) = IF a < e THEN e - a ELSE 0
             /\ \A k \in DOMAIN Band(S, a, b) :
                  /\ Band(S, a, b)[k] = Sorted(S)[a + k]
                  /\ Rank(S, Band(S, a, b)[k]) = a + k - 1
                  /\ Band(S, a, b)[k] \in S
<1> DEFINE c == Cardinality(S)
           e == IF b < c THEN b ELSE c
           s == Sorted(S)
           t == SubSeq(s, a + 1, e)
<1>1. c \in Nat /\ s \in Seq(S) /\ Len(s) = c
      /\ \A k \in 1..c : s[k] \in S /\ Rank(S, s[k]) = k - 1
  BY SortedIs
<1>2. e \in Nat /\ e <= c
  BY <1>1
<1> HIDE DEF e, c, s
<1>3. t = Band(S, a, b)
  BY DEF Band, e, c, s
<1>4. \A i \in (a + 1)..e : i \in 1..Len(s)
  BY <1>1, <1>2
<1>5. /\ t \in Seq(S)
      /\ Len(t) = IF a + 1 <= e THEN e - (a + 1) + 1 ELSE 0
      /\ \A i \in 1..(e - (a + 1) + 1) : t[i] = s[a + 1 + i - 1]
  BY <1>1, <1>2, <1>4, SubSeqProperties
<1> HIDE DEF t
<1>6. Len(t) = IF a < e THEN e - a ELSE 0
  BY <1>2, <1>5
<1>7. ASSUME NEW k \in DOMAIN t
      PROVE  t[k] = s[a + k] /\ a + k \in 1..c
  <2>1. k \in 1..Len(t)
    BY <1>5
  <2>2. a < e /\ k \in 1..(e - a)
    BY <2>1, <1>6, <1>2
  <2>3. k \in 1..(e - (a + 1) + 1) /\ a + 1 + k - 1 = a + k
    BY <2>2, <1>2
  <2>4. t[k] = s[a + k]
    BY <2>3, <1>5
  <2> QED
    BY <2>2, <2>4, <1>2, <1>1
<1>8. ASSUME NEW k \in DOMAIN t
      PROVE  t[k] = s[a + k] /\ Rank(S, t[k]) = a + k - 1 /\ t[k] \in S
  <2>1. t[k] = s[a + k] /\ a + k \in 1..c
    BY <1>7
  <2> QED
    BY <2>1, <1>1
<1> QED
  BY <1>3, <1>5, <1>6, <1>8 DEF e, c, s

-----------------------------------------------------------------------------
(* What a sequence holds.                                                  *)

(* A sequence holds no more different elements than it is long, and as     *)
(* many when it repeats none.                                              *)
LEMMA SetOfIs ==
  ASSUME NEW T, NEW s \in Seq(T)
  PROVE  /\ IsFiniteSet(SetOf(s)) /\ SetOf(s) \in SUBSET T
         /\ Cardinality(SetOf(s)) \in Nat /\ Len(s) \in Nat
         /\ Cardinality(SetOf(s)) <= Len(s)
         /\ (\A j, k \in DOMAIN s : s[j] = s[k] => j = k) =>
              Cardinality(SetOf(s)) = Len(s)
<1> DEFINE n == Len(s)
<1>1. n \in Nat /\ s \in [1..n -> T] /\ DOMAIN s = 1..n
  BY LenProperties
<1>2. IsFiniteSet(1..n) /\ Cardinality(1..n) = n
  BY <1>1, FS_Interval
<1>3. s \in Surjection(1..n, SetOf(s))
  BY <1>1 DEF Surjection, SetOf
<1>4. /\ IsFiniteSet(SetOf(s))
      /\ Cardinality(SetOf(s)) <= n
      /\ Cardinality(SetOf(s)) = n <=> s \in Injection(1..n, SetOf(s))
  BY <1>2, <1>3, FS_Surjection
<1>5. (\A j, k \in DOMAIN s : s[j] = s[k] => j = k) =>
        s \in Injection(1..n, SetOf(s))
  BY <1>1, <1>3 DEF Injection, IsInjective, Surjection
<1>6. SetOf(s) \in SUBSET T
  BY <1>1 DEF SetOf
<1> QED
  BY <1>1, <1>4, <1>5, <1>6, FS_CardinalityType

(* A sequence of a subset is one of the set.                               *)
LEMMA SeqOfMore ==
  ASSUME NEW T, NEW U, T \subseteq U, NEW s \in Seq(T)
  PROVE  s \in Seq(U)
<1>1. Len(s) \in Nat /\ s \in [1..Len(s) -> T]
  BY LenProperties
<1>2. s \in [1..Len(s) -> U]
  BY <1>1
<1> QED
  BY <1>1, <1>2, SeqDef

(* What two sequences hold together.                                       *)
LEMMA SetOfConcat ==
  ASSUME NEW T, NEW s \in Seq(T), NEW t \in Seq(T)
  PROVE  SetOf(s \o t) = SetOf(s) \cup SetOf(t)
<1>1. /\ s \o t \in Seq(T) /\ Len(s \o t) = Len(s) + Len(t)
      /\ \A i \in 1..(Len(s) + Len(t)) :
           (s \o t)[i] = IF i <= Len(s) THEN s[i] ELSE t[i - Len(s)]
  BY ConcatProperties
<1>2. /\ Len(s) \in Nat /\ Len(t) \in Nat
      /\ DOMAIN s = 1..Len(s) /\ DOMAIN t = 1..Len(t)
      /\ DOMAIN (s \o t) = 1..(Len(s) + Len(t))
  BY <1>1, LenProperties
<1> DEFINE u == s \o t
<1> HIDE DEF u
<1>3. ASSUME NEW x \in SetOf(u) PROVE x \in SetOf(s) \cup SetOf(t)
  <2>1. PICK k \in 1..(Len(s) + Len(t)) : x = u[k]
    BY <1>2, <1>3 DEF SetOf, u
  <2>2. CASE k <= Len(s)
    BY <1>1, <1>2, <2>1, <2>2 DEF SetOf, u
  <2>3. CASE k > Len(s)
    <3>1. k - Len(s) \in DOMAIN t /\ u[k] = t[k - Len(s)]
      BY <1>1, <1>2, <2>3 DEF u
    <3> QED
      BY <2>1, <3>1 DEF SetOf
  <2> QED
    BY <1>2, <2>2, <2>3
<1>4. ASSUME NEW x \in SetOf(s) PROVE x \in SetOf(u)
  <2>1. PICK k \in DOMAIN s : x = s[k]
    BY <1>4 DEF SetOf
  <2>2. k \in DOMAIN u /\ u[k] = s[k]
    BY <1>1, <1>2, <2>1 DEF u
  <2> QED
    BY <2>1, <2>2 DEF SetOf
<1>5. ASSUME NEW x \in SetOf(t) PROVE x \in SetOf(u)
  <2>1. PICK k \in DOMAIN t : x = t[k]
    BY <1>5 DEF SetOf
  <2>2. Len(s) + k \in 1..(Len(s) + Len(t)) /\ ~(Len(s) + k <= Len(s))
        /\ Len(s) + k - Len(s) = k
    BY <1>2, <2>1
  <2>3. Len(s) + k \in DOMAIN u
    BY <1>2, <2>2 DEF u
  <2>4. u[Len(s) + k] = t[k]
    BY <1>1, <2>2 DEF u
  <2> QED
    BY <2>1, <2>3, <2>4 DEF SetOf
<1> QED
  BY <1>3, <1>4, <1>5 DEF u

(* A set that has at most one element more than another.                   *)
LEMMA AtMostOneMore ==
  ASSUME NEW B, IsFiniteSet(B), NEW x, NEW A, A \subseteq B \cup {x}
  PROVE  /\ IsFiniteSet(A) /\ Cardinality(A) \in Nat /\ Cardinality(B) \in Nat
         /\ Cardinality(A) <= Cardinality(B) + 1
<1>1. /\ IsFiniteSet(B \cup {x})
      /\ Cardinality(B \cup {x}) =
           IF x \in B THEN Cardinality(B) ELSE Cardinality(B) + 1
  BY FS_AddElement
<1>2. Cardinality(B) \in Nat
  BY FS_CardinalityType
<1>3. A \in SUBSET (B \cup {x})
  OBVIOUS
<1>4. IsFiniteSet(A) /\ Cardinality(A) <= Cardinality(B \cup {x})
  BY <1>1, <1>3, FS_Subset
<1>5. Cardinality(A) \in Nat
  BY <1>4, FS_CardinalityType
<1> QED
  BY <1>1, <1>2, <1>4, <1>5

(* A part of a finite set is no larger.                                    *)
LEMMA NoMore ==
  ASSUME NEW B, IsFiniteSet(B), NEW A, A \subseteq B
  PROVE  /\ IsFiniteSet(A) /\ Cardinality(A) \in Nat /\ Cardinality(B) \in Nat
         /\ Cardinality(A) <= Cardinality(B)
<1>1. A \in SUBSET B
  OBVIOUS
<1>2. IsFiniteSet(A) /\ Cardinality(A) <= Cardinality(B)
  BY <1>1, FS_Subset
<1> QED
  BY <1>2, FS_CardinalityType

-----------------------------------------------------------------------------
(* Positions in a set.                                                     *)

(* The elements before a position: all of them from the end on, none at 0. *)
LEMMA ForemostIs ==
  ASSUME NEW S \in SUBSET Nat, IsFiniteSet(S), NEW o \in Nat
  PROVE  /\ Foremost(S, o) \subseteq S /\ IsFiniteSet(Foremost(S, o))
         /\ o >= Cardinality(S) => Foremost(S, o) = S
         /\ o = 0 => Foremost(S, o) = {}
         /\ \A p \in Nat : o <= p => Foremost(S, o) \subseteq Foremost(S, p)
<1>1. \A i \in S : i \in Nat
  OBVIOUS
<1>2. \A i \in S : Rank(S, i) \in Nat /\ Rank(S, i) < Cardinality(S)
  BY <1>1, RankIs
<1>3. Foremost(S, o) \in SUBSET S
  BY DEF Foremost
<1>4. Cardinality(S) \in Nat
  BY FS_CardinalityType
<1>5. IsFiniteSet(Foremost(S, o))
  BY <1>3, FS_Subset
<1>6. ASSUME NEW i \in S
      PROVE  /\ o >= Cardinality(S) => i \in Foremost(S, o)
             /\ o = 0 => i \notin Foremost(S, o)
             /\ \A p \in Nat :
                  o <= p /\ i \in Foremost(S, o) => i \in Foremost(S, p)
  <2>1. \A p : i \in Foremost(S, p) <=> Rank(S, i) < p
    BY DEF Foremost
  <2>2. Rank(S, i) \in Nat /\ Rank(S, i) < Cardinality(S)
    BY <1>2
  <2> QED
    BY <1>4, <2>1, <2>2
<1>7. o >= Cardinality(S) => Foremost(S, o) = S
  BY <1>3, <1>6
<1>8. o = 0 => Foremost(S, o) = {}
  BY <1>3, <1>6
<1>9. ASSUME NEW p \in Nat, o <= p PROVE Foremost(S, o) \subseteq Foremost(S, p)
  BY <1>3, <1>6, <1>9
<1> QED
  BY <1>3, <1>5, <1>7, <1>8, <1>9

(* A band holds what is before its end and not before its begin, in order. *)
LEMMA BandHolds ==
  ASSUME NEW S \in SUBSET Nat, IsFiniteSet(S), NEW a \in Nat, NEW b \in Nat
  PROVE  /\ SetOf(Band(S, a, b)) = Foremost(S, b) \ Foremost(S, a)
         /\ \A j, k \in DOMAIN Band(S, a, b) :
              j < k <=> Band(S, a, b)[j] < Band(S, a, b)[k]
         /\ Cardinality(SetOf(Band(S, a, b))) = Len(Band(S, a, b))
<1> DEFINE c == Cardinality(S)
           e == IF b < c THEN b ELSE c
           t == Band(S, a, b)
           s == Sorted(S)
<1>1. /\ t \in Seq(S)
      /\ Len(t) = IF a < e THEN e - a ELSE 0
      /\ \A k \in DOMAIN t :
           t[k] = s[a + k] /\ Rank(S, t[k]) = a + k - 1 /\ t[k] \in S
  BY BandIs
<1>2. c \in Nat /\ \A i \in S : Rank(S, i) \in Nat /\ Rank(S, i) < c
  <2>1. \A i \in S : i \in Nat
    OBVIOUS
  <2> QED
    BY <2>1, RankIs, FS_CardinalityType
<1>3. DOMAIN t = 1..Len(t) /\ Len(t) \in Nat
  BY <1>1, LenProperties
<1>4. e \in Nat /\ e <= b /\ e <= c /\ (e = b \/ e = c)
  BY <1>2
<1> HIDE DEF e, t, c, s
<1>5. ASSUME NEW i \in SetOf(t) PROVE i \in Foremost(S, b) \ Foremost(S, a)
  <2>1. PICK k \in 1..Len(t) : i = t[k]
    BY <1>3, <1>5 DEF SetOf
  <2>2. i \in S /\ Rank(S, i) = a + k - 1
    BY <1>1, <1>3, <2>1
  <2>3. a < e /\ k <= e - a
    BY <1>1, <1>4, <2>1
  <2> QED
    BY <1>4, <2>1, <2>2, <2>3 DEF Foremost
<1>6. ASSUME NEW i \in Foremost(S, b) \ Foremost(S, a) PROVE i \in SetOf(t)
  <2> DEFINE r == Rank(S, i)
             k == r + 1 - a
  <2>1. i \in S /\ r < b /\ ~(r < a) /\ r \in Nat /\ r < c
    BY <1>2, <1>6 DEF Foremost
  <2>2. r < e
    BY <1>2, <1>4, <2>1
  <2>3. k \in 1..Len(t)
    BY <1>1, <1>4, <2>1, <2>2
  <2>4. t[k] \in S /\ Rank(S, t[k]) = r
    BY <1>1, <1>3, <2>1, <2>3
  <2>5. t[k] = i
    BY <2>1, <2>4, RankGrows
  <2> QED
    BY <1>3, <2>3, <2>5 DEF SetOf
<1>7. ASSUME NEW j \in DOMAIN t, NEW k \in DOMAIN t
      PROVE  (j < k <=> t[j] < t[k]) /\ (t[j] = t[k] => j = k)
  <2>1. t[j] \in S /\ t[k] \in S /\ Rank(S, t[j]) = a + j - 1
        /\ Rank(S, t[k]) = a + k - 1
    BY <1>1
  <2>2. t[j] < t[k] <=> Rank(S, t[j]) < Rank(S, t[k])
    BY <2>1, RankGrows
  <2>3. j \in Int /\ k \in Int
    BY <1>3
  <2>4. a + j - 1 < a + k - 1 <=> j < k
    BY <2>3
  <2>5. t[j] = t[k] => a + j - 1 = a + k - 1
    BY <2>1
  <2>6. a + j - 1 = a + k - 1 => j = k
    BY <2>3
  <2> QED
    BY <2>1, <2>2, <2>4, <2>5, <2>6
<1>8. Cardinality(SetOf(t)) = Len(t)
  BY <1>1, <1>7, SetOfIs
<1>9. SetOf(t) = Foremost(S, b) \ Foremost(S, a)
  BY <1>5, <1>6
<1> QED
  BY <1>7, <1>8, <1>9 DEF t

(* Bands that meet are a band.                                             *)
LEMMA BandsMeet ==
  ASSUME NEW S \in SUBSET Nat, IsFiniteSet(S),
         NEW a \in Nat, NEW b \in Nat, NEW d \in Nat, a <= b, b <= d
  PROVE  Band(S, a, b) \o Band(S, b, d) = Band(S, a, d)
<1> DEFINE c == Cardinality(S)
           cut(x) == IF x < c THEN x ELSE c
           s == Sorted(S)
           l == Band(S, a, b)
           r == Band(S, b, d)
           t == Band(S, a, d)
<1>1. c \in Nat
  BY FS_CardinalityType
<1>2. /\ l \in Seq(S) /\ Len(l) = IF a < cut(b) THEN cut(b) - a ELSE 0
      /\ \A k \in DOMAIN l : l[k] = s[a + k]
  BY BandIs
<1>3. /\ r \in Seq(S) /\ Len(r) = IF b < cut(d) THEN cut(d) - b ELSE 0
      /\ \A k \in DOMAIN r : r[k] = s[b + k]
  BY BandIs
<1>4. /\ t \in Seq(S) /\ Len(t) = IF a < cut(d) THEN cut(d) - a ELSE 0
      /\ \A k \in DOMAIN t : t[k] = s[a + k]
  BY BandIs
<1> HIDE DEF l, r, t, s, c
<1>5. /\ DOMAIN l = 1..Len(l) /\ DOMAIN r = 1..Len(r) /\ DOMAIN t = 1..Len(t)
      /\ Len(l) \in Nat /\ Len(r) \in Nat /\ Len(t) \in Nat
  BY <1>2, <1>3, <1>4, LenProperties
<1>6. /\ l \o r \in Seq(S) /\ Len(l \o r) = Len(l) + Len(r)
      /\ \A i \in 1..(Len(l) + Len(r)) :
           (l \o r)[i] = IF i <= Len(l) THEN l[i] ELSE r[i - Len(l)]
  BY <1>2, <1>3, ConcatProperties
<1>7. Len(l \o r) = Len(t)
  BY <1>1, <1>2, <1>3, <1>4, <1>6
<1>8. ASSUME NEW i \in 1..Len(l \o r) PROVE (l \o r)[i] = t[i]
  <2>1. i \in 1..(Len(l) + Len(r)) /\ i \in DOMAIN t
    BY <1>5, <1>6, <1>7
  <2>2. CASE i <= Len(l)
    BY <1>2, <1>4, <1>5, <1>6, <2>1, <2>2
  <2>3. CASE ~(i <= Len(l))
    <3>1. i - Len(l) \in DOMAIN r /\ (l \o r)[i] = r[i - Len(l)]
      BY <1>5, <1>6, <2>1, <2>3
    <3>2. b < cut(d)
      BY <1>1, <1>3, <1>5, <3>1
    <3>3. b + (i - Len(l)) = a + i
      BY <1>1, <1>2, <1>5, <2>1, <3>2
    <3> QED
      BY <1>3, <1>4, <2>1, <3>1, <3>3
  <2> QED
    BY <2>2, <2>3
<1>9. l \o r = t
  BY <1>4, <1>6, <1>7, <1>8, SeqEqual
<1> QED
  BY <1>9 DEF l, r, t

(* What is beyond the last element does not count.                         *)
LEMMA BandToTheEnd ==
  ASSUME NEW S \in SUBSET Nat, IsFiniteSet(S), NEW a \in Nat, NEW b \in Nat
  PROVE  /\ b >= Cardinality(S) => Band(S, a, b) = Band(S, a, Cardinality(S))
         /\ (b <= a \/ Cardinality(S) <= a) => Band(S, a, b) = <<>>
<1>1. Cardinality(S) \in Nat
  BY FS_CardinalityType
<1>2. b >= Cardinality(S) => Band(S, a, b) = Band(S, a, Cardinality(S))
  BY <1>1 DEF Band
<1>3. ASSUME b <= a \/ Cardinality(S) <= a PROVE Band(S, a, b) = <<>>
  <2> DEFINE c == Cardinality(S)
             e == IF b < c THEN b ELSE c
  <2>1. /\ Band(S, a, b) \in Seq(S)
        /\ Len(Band(S, a, b)) = IF a < e THEN e - a ELSE 0
    BY BandIs
  <2>2. ~(a < e)
    BY <1>1, <1>3
  <2> QED
    BY <2>1, <2>2, EmptySeq
<1> QED
  BY <1>2, <1>3

(* The band up to the end and the one before it.                           *)
LEMMA BandsMeetAtTheEnd ==
  ASSUME NEW S \in SUBSET Nat, IsFiniteSet(S), NEW a \in Nat, NEW b \in Nat,
         a <= b
  PROVE  Band(S, a, b) \o Band(S, b, Cardinality(S)) = Band(S, a, Cardinality(S))
<1> DEFINE c == Cardinality(S)
<1>1. c \in Nat
  BY FS_CardinalityType
<1>2. CASE b <= c
  <2> HIDE DEF c
  <2>1. Band(S, a, b) \o Band(S, b, c) = Band(S, a, c)
    BY <1>1, <1>2, BandsMeet
  <2> QED
    BY <2>1 DEF c
<1>3. CASE b > c
  <2>1. Band(S, a, b) = Band(S, a, c)
    BY <1>1, <1>3, BandToTheEnd
  <2>2. Band(S, b, c) = <<>>
    BY <1>1, <1>3, BandToTheEnd
  <2>3. Band(S, a, c) \in Seq(S)
    BY <1>1, BandIs
  <2> QED
    BY <2>1, <2>2, <2>3, ConcatEmptySeq
<1> QED
  BY <1>1, <1>2, <1>3

(* There is one sequence of the elements in their order.                   *)
LEMMA SortedIsTheOne ==
  ASSUME NEW S \in SUBSET Nat, IsFiniteSet(S), NEW s \in Seq(Nat),
         SetOf(s) = S, \A j, k \in DOMAIN s : j < k => s[j] < s[k]
  PROVE  s = Sorted(S)
<1> DEFINE n == Len(s)
<1>1. n \in Nat /\ DOMAIN s = 1..n
  BY LenProperties
<1>2. \A k \in DOMAIN s : s[k] \in S /\ s[k] \in Nat
  BY <1>1, ElementOfSeq DEF SetOf
<1>3. \A j, k \in DOMAIN s : s[j] = s[k] => j = k
  <2> SUFFICES ASSUME NEW j \in DOMAIN s, NEW k \in DOMAIN s, j < k
               PROVE  s[j] # s[k]
    BY <1>1
  <2> QED
    BY <1>2
<1>4. Cardinality(S) = n
  BY <1>3, SetOfIs
<1>5. ASSUME NEW k \in DOMAIN s PROVE Rank(S, s[k]) = k - 1
  <2> DEFINE m == k - 1
             before == {i \in S : i < s[k]}
             t == SubSeq(s, 1, m)
  <2>1. m \in Nat /\ m < n /\ k \in Nat
    BY <1>1
  <2>2. \A i \in 1..m : s[i] \in S
    BY <1>1, <1>2, <2>1
  <2>3. /\ t \in Seq(S) /\ Len(t) = IF 1 <= m THEN m - 1 + 1 ELSE 0
        /\ \A i \in 1..(m - 1 + 1) : t[i] = s[1 + i - 1]
    BY <2>1, <2>2, SubSeqProperties
  <2> HIDE DEF t
  <2>4. Len(t) = m /\ DOMAIN t = 1..m
    BY <2>1, <2>3, LenProperties
  <2>5. ASSUME NEW i \in 1..m PROVE t[i] = s[i]
    BY <2>1, <2>3
  <2>6. \A i, j \in DOMAIN t : t[i] = t[j] => i = j
    BY <1>1, <1>3, <2>1, <2>4, <2>5
  <2>7. Cardinality(SetOf(t)) = m
    BY <2>3, <2>4, <2>6, SetOfIs
  <2>8. ASSUME NEW i \in SetOf(t) PROVE i \in before
    <3>1. PICK j \in 1..m : i = t[j]
      BY <2>4, <2>8 DEF SetOf
    <3>2. j \in DOMAIN s /\ j < k /\ i = s[j]
      BY <1>1, <2>1, <2>5, <3>1
    <3> QED
      BY <1>2, <3>2
  <2>9. ASSUME NEW i \in before PROVE i \in SetOf(t)
    <3>1. PICK j \in DOMAIN s : i = s[j]
      BY DEF SetOf
    <3>2. s[j] < s[k] /\ s[j] \in Nat /\ s[k] \in Nat
      BY <1>2, <3>1
    <3>3. ~(k < j) /\ j # k
      BY <3>1, <3>2
    <3>4. j \in 1..m
      BY <1>1, <2>1, <3>3
    <3> QED
      BY <2>4, <2>5, <3>1, <3>4 DEF SetOf
  <2>10. before = SetOf(t)
    BY <2>8, <2>9
  <2> QED
    BY <2>7, <2>10 DEF Rank
<1>6. /\ Sorted(S) \in Seq(S) /\ Len(Sorted(S)) = n
      /\ \A k \in 1..n : Sorted(S)[k] \in S /\ Rank(S, Sorted(S)[k]) = k - 1
  BY <1>4, SortedIs
<1>7. ASSUME NEW k \in 1..Len(s) PROVE s[k] = Sorted(S)[k]
  <2>1. s[k] \in S /\ Sorted(S)[k] \in S
        /\ Rank(S, s[k]) = Rank(S, Sorted(S)[k])
    BY <1>1, <1>2, <1>5, <1>6
  <2> QED
    BY <2>1, RankGrows
<1>8. s \in Seq(S)
  <2>1. s \in [1..n -> S]
    <3>1. s \in [1..n -> Nat]
      BY LenProperties
    <3> QED
      BY <1>1, <1>2, <3>1
  <2> QED
    BY <1>1, <2>1, SeqDef
<1> QED
  BY <1>6, <1>7, <1>8, SeqEqual

-----------------------------------------------------------------------------
(* A number that is put in or taken out.                                   *)

(* The rank after a number was put in.                                     *)
LEMMA RankOfMore ==
  ASSUME NEW S \in SUBSET Nat, IsFiniteSet(S), NEW x \in Nat, x \notin S,
         NEW i \in Nat
  PROVE  Rank(S \cup {x}, i) = IF x < i THEN Rank(S, i) + 1 ELSE Rank(S, i)
<1> DEFINE before == {j \in S : j < i}
           more == {j \in S \cup {x} : j < i}
<1>1. IsFiniteSet(before)
  BY RankIs
<1>2. more = IF x < i THEN before \cup {x} ELSE before
  OBVIOUS
<1>3. x \notin before
  OBVIOUS
<1>4. Rank(S, i) = Cardinality(before) /\ Rank(S \cup {x}, i) = Cardinality(more)
  BY DEF Rank
<1> HIDE DEF before, more
<1> QED
  BY <1>1, <1>2, <1>3, <1>4, FS_AddElement

(* What is before a position stays there or, of what was in the set, at    *)
(* most one element is pushed beyond it; beyond it comes that one or the   *)
(* new one.                                                                *)
LEMMA ForemostOfMore ==
  ASSUME NEW S \in SUBSET Nat, IsFiniteSet(S), NEW x \in Nat, x \notin S,
         NEW o \in Nat
  PROVE  LET T == S \cup {x}
         IN  /\ T \in SUBSET Nat /\ IsFiniteSet(T)
             /\ Cardinality(T) = Cardinality(S) + 1
             /\ Foremost(T, o) \subseteq Foremost(S, o) \cup {x}
             /\ \E y : /\ Foremost(S, o) \subseteq Foremost(T, o) \cup {y}
                       /\ T \ Foremost(T, o) \subseteq
                            (S \ Foremost(S, o)) \cup {y}
<1> DEFINE T == S \cup {x}
<1>0. \A i \in S : i \in Nat
  OBVIOUS
<1>1. T \in SUBSET Nat
  OBVIOUS
<1>2. IsFiniteSet(T) /\ Cardinality(T) = Cardinality(S) + 1
  BY FS_AddElement
<1>3. ASSUME NEW i \in Nat
      PROVE  /\ Rank(S, i) \in Nat
             /\ Rank(T, i) = IF x < i THEN Rank(S, i) + 1 ELSE Rank(S, i)
  <2>1. Rank(S, i) \in Nat
    BY RankIs
  <2>2. Rank(S \cup {x}, i) = IF x < i THEN Rank(S, i) + 1 ELSE Rank(S, i)
    BY RankOfMore
  <2> QED
    BY <2>1, <2>2
<1>4. /\ \A i : i \in Foremost(S, o) <=> i \in S /\ Rank(S, i) < o
      /\ \A i : i \in Foremost(T, o) <=> i \in T /\ Rank(T, i) < o
  BY DEF Foremost
<1>5. \A i : i \in T <=> i \in S \/ i = x
  OBVIOUS
<1>6. \A i \in T, j \in T : Rank(T, i) < Rank(T, j) <=> i < j
  BY <1>1, <1>2, RankGrows
<1> HIDE DEF T
<1>7. ASSUME NEW i \in Foremost(T, o) PROVE i \in Foremost(S, o) \cup {x}
  <2>1. CASE i = x
    BY <2>1
  <2>2. CASE i # x
    <3>1. i \in S /\ i \in Nat /\ Rank(T, i) < o
      BY <1>0, <1>4, <1>5, <1>7, <2>2
    <3>2. Rank(S, i) < o
      BY <1>3, <3>1
    <3> QED
      BY <1>4, <3>1, <3>2
  <2> QED
    BY <2>1, <2>2
<1>8. ASSUME NEW i \in Foremost(S, o), i \notin Foremost(T, o)
      PROVE  i \in S /\ i \in Nat /\ x < i /\ Rank(S, i) = o - 1 /\ Rank(T, i) = o
  <2>1. i \in S /\ i \in Nat /\ Rank(S, i) < o /\ i \in T /\ ~(Rank(T, i) < o)
    BY <1>0, <1>4, <1>5, <1>8
  <2>2. x < i
    BY <1>3, <2>1
  <2> QED
    BY <1>3, <2>1, <2>2
<1>9. \E y : /\ Foremost(S, o) \subseteq Foremost(T, o) \cup {y}
             /\ T \ Foremost(T, o) \subseteq (S \ Foremost(S, o)) \cup {y}
  <2>1. CASE Foremost(S, o) \subseteq Foremost(T, o)
    <3>1. Foremost(S, o) \subseteq Foremost(T, o) \cup {x}
      BY <2>1
    <3>2. T \ Foremost(T, o) \subseteq (S \ Foremost(S, o)) \cup {x}
      BY <1>5, <2>1
    <3> QED
      BY <3>1, <3>2
  <2>2. CASE ~(Foremost(S, o) \subseteq Foremost(T, o))
    <3>1. PICK y \in Foremost(S, o) : y \notin Foremost(T, o)
      BY <2>2
    <3>2. y \in S /\ y \in Nat /\ x < y /\ Rank(S, y) = o - 1 /\ Rank(T, y) = o
      BY <1>8, <3>1
    <3>3. ASSUME NEW i \in Foremost(S, o), i \notin Foremost(T, o) PROVE i = y
      <4>1. i \in S /\ Rank(S, i) = Rank(S, y)
        BY <1>8, <3>2, <3>3
      <4> QED
        BY <3>2, <4>1, RankGrows
    <3>4. x \in Foremost(T, o)
      <4>1. x \in T /\ y \in T /\ Rank(T, x) < Rank(T, y)
        BY <1>5, <1>6, <3>2
      <4> QED
        BY <1>3, <1>4, <3>2, <4>1
    <3>5. Foremost(S, o) \subseteq Foremost(T, o) \cup {y}
      BY <3>3
    <3>6. T \ Foremost(T, o) \subseteq (S \ Foremost(S, o)) \cup {y}
      BY <1>5, <3>3, <3>4
    <3> QED
      BY <3>5, <3>6
  <2> QED
    BY <2>1, <2>2
<1>10. Foremost(T, o) \subseteq Foremost(S, o) \cup {x}
  BY <1>7
<1> QED
  BY <1>1, <1>2, <1>9, <1>10 DEF T

(* The same of a position that is counted from the end.                    *)
LEMMA RearOfMore ==
  ASSUME NEW S \in SUBSET Nat, IsFiniteSet(S), NEW x \in Nat, x \notin S,
         NEW o \in Nat
  PROVE  LET T == S \cup {x}
         IN  /\ Foremost(S, o) \subseteq Foremost(T, o + 1)
             /\ \E y : Foremost(T, o + 1) \subseteq Foremost(S, o) \cup {y}
<1> DEFINE T == S \cup {x}
<1>1. T \in SUBSET Nat /\ IsFiniteSet(T) /\ \A i \in T : i \in Nat
  BY FS_AddElement
<1>2. ASSUME NEW i \in Nat
      PROVE  /\ Rank(S, i) \in Nat
             /\ Rank(T, i) = IF x < i THEN Rank(S, i) + 1 ELSE Rank(S, i)
  <2>1. Rank(S, i) \in Nat
    BY RankIs
  <2>2. Rank(S \cup {x}, i) = IF x < i THEN Rank(S, i) + 1 ELSE Rank(S, i)
    BY RankOfMore
  <2> QED
    BY <2>1, <2>2
<1>3. /\ \A i : i \in Foremost(S, o) <=> i \in S /\ Rank(S, i) < o
      /\ \A i : i \in Foremost(T, o + 1) <=> i \in T /\ Rank(T, i) < o + 1
  BY DEF Foremost
<1>4. \A i : i \in T <=> i \in S \/ i = x
  OBVIOUS
<1>5. \A i \in T, j \in T : Rank(T, i) < Rank(T, j) <=> i < j
  BY <1>1, RankGrows
<1> HIDE DEF T
<1>6. ASSUME NEW i \in Foremost(S, o) PROVE i \in Foremost(T, o + 1)
  <2>1. i \in S /\ i \in T /\ i \in Nat /\ Rank(S, i) < o
    BY <1>1, <1>3, <1>4, <1>6
  <2>2. Rank(T, i) < o + 1
    BY <1>2, <2>1
  <2> QED
    BY <1>3, <2>1, <2>2
<1>7. ASSUME NEW i \in Foremost(T, o + 1), i \notin Foremost(S, o), i # x
      PROVE  i \in S /\ i \in Nat /\ i < x /\ Rank(S, i) = o /\ Rank(T, i) = o
  <2>1. i \in S /\ i \in Nat /\ Rank(T, i) < o + 1 /\ ~(Rank(S, i) < o)
    BY <1>1, <1>3, <1>4, <1>7
  <2> QED
    BY <1>2, <1>7, <2>1
<1>8. \E y : Foremost(T, o + 1) \subseteq Foremost(S, o) \cup {y}
  <2>1. CASE \A i \in Foremost(T, o + 1) : i \in Foremost(S, o) \cup {x}
    BY <2>1
  <2>2. CASE \E i \in Foremost(T, o + 1) : i \notin Foremost(S, o) \cup {x}
    <3>1. PICK y \in Foremost(T, o + 1) : y \notin Foremost(S, o) /\ y # x
      BY <2>2
    <3>2. y \in S /\ y \in Nat /\ y < x /\ Rank(S, y) = o /\ Rank(T, y) = o
      BY <1>7, <3>1
    <3>3. x \notin Foremost(T, o + 1)
      <4>1. x \in T /\ y \in T /\ Rank(T, y) < Rank(T, x)
        BY <1>4, <1>5, <3>2
      <4>2. Rank(T, x) \in Nat
        BY <1>2
      <4> QED
        BY <1>3, <3>2, <4>1, <4>2
    <3>4. ASSUME NEW i \in Foremost(T, o + 1), i \notin Foremost(S, o)
          PROVE  i = y
      <4>1. i \in S /\ Rank(S, i) = Rank(S, y)
        BY <1>7, <3>2, <3>3, <3>4
      <4> QED
        BY <3>2, <4>1, RankGrows
    <3>5. Foremost(T, o + 1) \subseteq Foremost(S, o) \cup {y}
      BY <3>4
    <3> QED
      BY <3>5
  <2> QED
    BY <2>1, <2>2
<1>9. Foremost(S, o) \subseteq Foremost(T, o + 1)
  BY <1>6
<1> QED
  BY <1>8, <1>9 DEF T

-----------------------------------------------------------------------------
(* What is missed and read again. A reader has taken the elements of a     *)
(* sequence s on its way through a set S, and now is at position o. Of the *)
(* elements U that it should not miss, some may be behind its back; of     *)
(* those that it took, some may be ahead of it.                            *)

Missing(U, s) == Cardinality(U \ SetOf(s))
Repeats(s) == Len(s) - Cardinality(SetOf(s))

(* On the way forth, from the first element to the last.                   *)
Lost(U, S, o, s) == Cardinality((U \cap Foremost(S, o)) \ SetOf(s))
Again(S, o, s) == Repeats(s) + Cardinality(SetOf(s) \cap (S \ Foremost(S, o)))

(* On the way back. A position may be beyond the end of the set.           *)
Beyond(S, o) == IF o > Cardinality(S) THEN o - Cardinality(S) ELSE 0
LostBack(U, S, o, s) == Cardinality((U \ Foremost(S, o)) \ SetOf(s))
AgainBack(S, o, s) ==
  Repeats(s) + Cardinality(SetOf(s) \cap Foremost(S, o)) + Beyond(S, o)

(* An element is put in or taken out.                                      *)
OneChange(U, S, V, T) ==
  \E x \in Nat : \/ x \notin S /\ T = S \cup {x} /\ V = U
                 \/ x \in S /\ T = S \ {x} /\ V = U \ {x}

(* What is lost or repeated is counted by numbers, and these bound one     *)
(* another.                                                                *)
LEMMA CountsAre ==
  ASSUME NEW S \in SUBSET Nat, IsFiniteSet(S), NEW U \in SUBSET S,
         NEW s \in Seq(Nat), NEW o \in Nat
  PROVE  /\ Cardinality(S) \in Nat
         /\ Missing(U, s) \in Nat /\ Repeats(s) \in Nat
         /\ Lost(U, S, o, s) \in Nat /\ Lost(U, S, o, s) <= Missing(U, s)
         /\ LostBack(U, S, o, s) \in Nat
         /\ Again(S, o, s) \in Nat /\ Repeats(s) <= Again(S, o, s)
         /\ Beyond(S, o) \in Nat
         /\ AgainBack(S, o, s) \in Nat /\ Repeats(s) <= AgainBack(S, o, s)
         /\ \A p \in Nat : p >= o => Again(S, p, s) <= Again(S, o, s)
<1>1. /\ Cardinality(SetOf(s)) \in Nat /\ Len(s) \in Nat /\ IsFiniteSet(SetOf(s))
      /\ Cardinality(SetOf(s)) <= Len(s)
  BY SetOfIs
<1>2. /\ IsFiniteSet(U) /\ Foremost(S, o) \subseteq S
      /\ \A p \in Nat : o <= p => Foremost(S, o) \subseteq Foremost(S, p)
      /\ Cardinality(S) \in Nat
  BY ForemostIs, FS_Subset, FS_CardinalityType
<1>3. IsFiniteSet(U \ SetOf(s)) /\ Missing(U, s) \in Nat
  BY <1>2, FS_Subset, FS_CardinalityType DEF Missing
<1>4. Lost(U, S, o, s) \in Nat /\ Lost(U, S, o, s) <= Missing(U, s)
  <2>1. (U \cap Foremost(S, o)) \ SetOf(s) \subseteq U \ SetOf(s)
    OBVIOUS
  <2> QED
    BY <1>3, <2>1, NoMore DEF Lost, Missing
<1>5. LostBack(U, S, o, s) \in Nat
  <2>1. (U \ Foremost(S, o)) \ SetOf(s) \subseteq U \ SetOf(s)
    OBVIOUS
  <2> QED
    BY <1>3, <2>1, NoMore DEF LostBack, Missing
<1>6. Repeats(s) \in Nat
  BY <1>1 DEF Repeats
<1>7. ASSUME NEW p \in Nat
      PROVE  /\ IsFiniteSet(SetOf(s) \cap (S \ Foremost(S, p)))
             /\ Cardinality(SetOf(s) \cap (S \ Foremost(S, p))) \in Nat
  BY <1>1, FS_Intersection, FS_CardinalityType
<1>8. ASSUME NEW p \in Nat, p >= o
      PROVE  Cardinality(SetOf(s) \cap (S \ Foremost(S, p)))
               <= Cardinality(SetOf(s) \cap (S \ Foremost(S, o)))
  <2>1. SetOf(s) \cap (S \ Foremost(S, p)) \subseteq
          SetOf(s) \cap (S \ Foremost(S, o))
    BY <1>2, <1>8
  <2> QED
    BY <1>7, <2>1, NoMore
<1>9. Cardinality(SetOf(s) \cap Foremost(S, o)) \in Nat
  BY <1>1, FS_Intersection, FS_CardinalityType
<1>10. Beyond(S, o) \in Nat
  BY <1>2 DEF Beyond
<1>11. Again(S, o, s) \in Nat /\ Repeats(s) <= Again(S, o, s)
  <2>1. Cardinality(SetOf(s) \cap (S \ Foremost(S, o))) \in Nat
    BY <1>7
  <2> QED
    BY <1>6, <2>1 DEF Again
<1>12. AgainBack(S, o, s) \in Nat /\ Repeats(s) <= AgainBack(S, o, s)
  BY <1>6, <1>9, <1>10 DEF AgainBack
<1>13. ASSUME NEW p \in Nat, p >= o PROVE Again(S, p, s) <= Again(S, o, s)
  <2>1. /\ Cardinality(SetOf(s) \cap (S \ Foremost(S, p))) \in Nat
        /\ Cardinality(SetOf(s) \cap (S \ Foremost(S, o))) \in Nat
        /\ Cardinality(SetOf(s) \cap (S \ Foremost(S, p)))
             <= Cardinality(SetOf(s) \cap (S \ Foremost(S, o)))
    BY <1>7, <1>8, <1>13
  <2> QED
    BY <1>6, <2>1 DEF Again
<1> QED
  BY <1>2, <1>3, <1>4, <1>5, <1>6, <1>10, <1>11, <1>12, <1>13

(* At the end all is behind, and at the begin all is ahead.                *)
LEMMA AtTheEnds ==
  ASSUME NEW S \in SUBSET Nat, IsFiniteSet(S), NEW U \in SUBSET S,
         NEW s \in Seq(Nat), NEW o \in Nat
  PROVE  /\ o >= Cardinality(S) => /\ Lost(U, S, o, s) = Missing(U, s)
                                  /\ LostBack(U, S, o, s) = 0
         /\ o = 0 => LostBack(U, S, o, s) = Missing(U, s)
<1>1. CASE o >= Cardinality(S)
  <2>1. Foremost(S, o) = S
    BY <1>1, ForemostIs
  <2>2. (U \cap Foremost(S, o)) \ SetOf(s) = U \ SetOf(s)
    BY <2>1
  <2>3. (U \ Foremost(S, o)) \ SetOf(s) = {}
    BY <2>1
  <2>4. Cardinality((U \ Foremost(S, o)) \ SetOf(s)) = 0
    BY <2>3, FS_EmptySet
  <2>5. LostBack(U, S, o, s) = 0 /\ Lost(U, S, o, s) = Missing(U, s)
    BY <2>2, <2>4 DEF LostBack, Lost, Missing
  <2>6. o = 0 => U \ SetOf(s) = {}
    <3> SUFFICES ASSUME o = 0 PROVE U \ SetOf(s) = {}
      OBVIOUS
    <3>1. Foremost(S, o) = {}
      BY ForemostIs
    <3> QED
      BY <2>1, <3>1
  <2>7. o = 0 => Missing(U, s) = 0
    BY <2>6, FS_EmptySet DEF Missing
  <2> QED
    BY <2>5, <2>7
<1>2. CASE o = 0
  <2>1. Foremost(S, o) = {}
    BY <1>2, ForemostIs
  <2>2. (U \ Foremost(S, o)) \ SetOf(s) = U \ SetOf(s)
    BY <2>1
  <2>3. LostBack(U, S, o, s) = Missing(U, s)
    BY <2>2 DEF LostBack, Missing
  <2> QED
    BY <1>1, <2>3
<1> QED
  BY <1>1, <1>2

(* New elements that are taken count once among those ahead.               *)
LEMMA TakenOnce ==
  ASSUME NEW A, IsFiniteSet(A), NEW P, IsFiniteSet(P), NEW X, NEW Y,
         Y \subseteq X, P \subseteq X, P \cap Y = {}
  PROVE  /\ Cardinality(P) - Cardinality(A \cup P) + Cardinality((A \cup P) \cap Y)
              <= Cardinality(A \cap X) - Cardinality(A)
         /\ Cardinality(A \cup P) \in Nat /\ Cardinality((A \cup P) \cap Y) \in Nat
         /\ Cardinality(A) \in Nat /\ Cardinality(A \cap X) \in Nat
<1>1. /\ Cardinality(A \cup P) = Cardinality(A) + Cardinality(P) - Cardinality(A \cap P)
      /\ IsFiniteSet(A \cup P)
  BY FS_Union
<1>2. IsFiniteSet(A \cap P) /\ IsFiniteSet(A \cap Y) /\ IsFiniteSet(A \cap X)
  BY FS_Intersection
<1>3. /\ Cardinality((A \cap P) \cup (A \cap Y)) =
           Cardinality(A \cap P) + Cardinality(A \cap Y)
             - Cardinality((A \cap P) \cap (A \cap Y))
  BY <1>2, FS_Union
<1>4. (A \cap P) \cap (A \cap Y) = {} /\ Cardinality({}) = 0
  BY FS_EmptySet
<1>5. (A \cap P) \cup (A \cap Y) \subseteq A \cap X
  OBVIOUS
<1>6. Cardinality((A \cap P) \cup (A \cap Y)) <= Cardinality(A \cap X)
  BY <1>2, <1>5, NoMore
<1>7. (A \cup P) \cap Y = A \cap Y
  OBVIOUS
<1>8. /\ Cardinality(A) \in Nat /\ Cardinality(P) \in Nat
      /\ Cardinality(A \cap P) \in Nat /\ Cardinality(A \cap Y) \in Nat
      /\ Cardinality(A \cap X) \in Nat /\ Cardinality(A \cup P) \in Nat
  BY <1>1, <1>2, FS_CardinalityType
<1>9. Cardinality((A \cap P) \cap (A \cap Y)) = 0
  BY <1>4
<1>10. Cardinality((A \cup P) \cap Y) = Cardinality(A \cap Y)
  BY <1>7
<1>11. Cardinality(A \cap P) + Cardinality(A \cap Y) <= Cardinality(A \cap X)
  BY <1>3, <1>6, <1>8, <1>9
<1> QED
  BY <1>1, <1>8, <1>10, <1>11

(* What is missing or repeated after a number was put in.                  *)
LEMMA PutIn ==
  ASSUME NEW S \in SUBSET Nat, IsFiniteSet(S), NEW U \in SUBSET S,
         NEW x \in Nat, x \notin S, NEW s \in Seq(Nat), NEW o \in Nat
  PROVE  LET T == S \cup {x}
         IN  /\ T \in SUBSET Nat /\ IsFiniteSet(T) /\ U \in SUBSET T
             /\ Cardinality(T) = Cardinality(S) + 1
             /\ Lost(U, T, o, s) <= Lost(U, S, o, s)
             /\ LostBack(U, T, o, s) <= LostBack(U, S, o, s) + 1
             /\ Again(T, o, s) <= Again(S, o, s) + 1
             /\ AgainBack(T, o, s) <= AgainBack(S, o, s) + 1
<1> DEFINE T == S \cup {x}
<1>1. /\ T \in SUBSET Nat /\ IsFiniteSet(T) /\ U \in SUBSET T
      /\ Cardinality(T) = Cardinality(S) + 1
      /\ Foremost(T, o) \subseteq Foremost(S, o) \cup {x}
  BY ForemostOfMore
<1>2. PICK y : T \ Foremost(T, o) \subseteq (S \ Foremost(S, o)) \cup {y}
  BY ForemostOfMore
<1>3. x \notin U /\ U \subseteq T /\ IsFiniteSet(U) /\ U \subseteq S
  BY FS_Subset
<1>4. IsFiniteSet(SetOf(s)) /\ Repeats(s) \in Nat /\ Cardinality(S) \in Nat
      /\ Beyond(T, o) \in Nat /\ Beyond(S, o) \in Nat
  BY <1>1, SetOfIs, CountsAre
<1> HIDE DEF T
<1>5. Lost(U, T, o, s) <= Lost(U, S, o, s)
  <2>1. (U \cap Foremost(T, o)) \ SetOf(s) \subseteq
          (U \cap Foremost(S, o)) \ SetOf(s)
    BY <1>1, <1>3
  <2>2. IsFiniteSet((U \cap Foremost(S, o)) \ SetOf(s))
    BY <1>3, FS_Subset
  <2> QED
    BY <2>1, <2>2, NoMore DEF Lost
<1>6. LostBack(U, T, o, s) <= LostBack(U, S, o, s) + 1
  <2>1. (U \ Foremost(T, o)) \ SetOf(s) \subseteq
          ((U \ Foremost(S, o)) \ SetOf(s)) \cup {y}
    BY <1>2, <1>3
  <2>2. IsFiniteSet((U \ Foremost(S, o)) \ SetOf(s))
    BY <1>3, FS_Subset
  <2> QED
    BY <2>1, <2>2, AtMostOneMore DEF LostBack
<1>7. Again(T, o, s) <= Again(S, o, s) + 1
  <2> DEFINE old == SetOf(s) \cap (S \ Foremost(S, o))
             new == SetOf(s) \cap (T \ Foremost(T, o))
  <2>1. new \subseteq old \cup {y}
    BY <1>2
  <2>2. IsFiniteSet(old)
    BY <1>4, FS_Intersection
  <2> HIDE DEF old, new
  <2>3. /\ Cardinality(new) \in Nat /\ Cardinality(old) \in Nat
        /\ Cardinality(new) <= Cardinality(old) + 1
    BY <2>1, <2>2, AtMostOneMore
  <2>4. /\ Again(T, o, s) = Repeats(s) + Cardinality(new)
        /\ Again(S, o, s) = Repeats(s) + Cardinality(old)
    BY DEF Again, new, old
  <2> QED
    BY <1>4, <2>3, <2>4
<1>8. AgainBack(T, o, s) <= AgainBack(S, o, s) + 1
  <2> DEFINE old == SetOf(s) \cap Foremost(S, o)
             new == SetOf(s) \cap Foremost(T, o)
  <2>1. new \subseteq old \cup {x}
    BY <1>1
  <2>2. IsFiniteSet(old)
    BY <1>4, FS_Intersection
  <2> HIDE DEF old, new
  <2>3. /\ Cardinality(new) \in Nat /\ Cardinality(old) \in Nat
        /\ Cardinality(new) <= Cardinality(old) + 1
    BY <2>1, <2>2, AtMostOneMore
  <2>4. /\ AgainBack(T, o, s) = Repeats(s) + Cardinality(new) + Beyond(T, o)
        /\ AgainBack(S, o, s) = Repeats(s) + Cardinality(old) + Beyond(S, o)
    BY DEF AgainBack, new, old
  <2>5. Beyond(T, o) <= Beyond(S, o)
    BY <1>1, <1>4 DEF Beyond
  <2> QED
    BY <1>4, <2>3, <2>4, <2>5
<1> QED
  BY <1>1, <1>5, <1>6, <1>7, <1>8 DEF T

(* What is missing or repeated after a number was taken out.               *)
LEMMA TakenOut ==
  ASSUME NEW S \in SUBSET Nat, IsFiniteSet(S), NEW U \in SUBSET S,
         NEW x \in S, NEW s \in Seq(Nat), NEW o \in Nat
  PROVE  LET T == S \ {x}
             V == U \ {x}
         IN  /\ T \in SUBSET Nat /\ IsFiniteSet(T) /\ V \in SUBSET T
             /\ Cardinality(S) = Cardinality(T) + 1
             /\ Lost(V, T, o, s) <= Lost(U, S, o, s) + 1
             /\ LostBack(V, T, o, s) <= LostBack(U, S, o, s)
             /\ Again(T, o, s) <= Again(S, o, s) + 1
             /\ AgainBack(T, o, s) <= AgainBack(S, o, s) + 1
<1> DEFINE T == S \ {x}
           V == U \ {x}
<1>1. /\ T \in SUBSET Nat /\ IsFiniteSet(T) /\ V \in SUBSET T /\ x \notin T
      /\ S = T \cup {x} /\ x \in Nat
  BY FS_Subset
<1>2. V \subseteq U /\ IsFiniteSet(U) /\ x \notin V
  BY FS_Subset
<1> HIDE DEF T, V
<1>3. /\ Cardinality(S) = Cardinality(T) + 1
      /\ Foremost(S, o) \subseteq Foremost(T, o) \cup {x}
  BY <1>1, ForemostOfMore
<1>4. PICK y : Foremost(T, o) \subseteq Foremost(S, o) \cup {y}
  BY <1>1, ForemostOfMore
<1>5. /\ IsFiniteSet(SetOf(s)) /\ Repeats(s) \in Nat /\ Cardinality(S) \in Nat
      /\ Beyond(S, o) \in Nat
  BY SetOfIs, CountsAre
<1>6. Beyond(T, o) \in Nat /\ Cardinality(T) \in Nat
  BY <1>1, CountsAre
<1>7. Lost(V, T, o, s) <= Lost(U, S, o, s) + 1
  <2>1. (V \cap Foremost(T, o)) \ SetOf(s) \subseteq
          ((U \cap Foremost(S, o)) \ SetOf(s)) \cup {y}
    BY <1>2, <1>4
  <2>2. IsFiniteSet((U \cap Foremost(S, o)) \ SetOf(s))
    BY <1>2, FS_Subset
  <2> QED
    BY <2>1, <2>2, AtMostOneMore DEF Lost
<1>8. LostBack(V, T, o, s) <= LostBack(U, S, o, s)
  <2>1. (V \ Foremost(T, o)) \ SetOf(s) \subseteq (U \ Foremost(S, o)) \ SetOf(s)
    BY <1>2, <1>3
  <2>2. IsFiniteSet((U \ Foremost(S, o)) \ SetOf(s))
    BY <1>2, FS_Subset
  <2> QED
    BY <2>1, <2>2, NoMore DEF LostBack
<1>9. Again(T, o, s) <= Again(S, o, s)
  <2> DEFINE old == SetOf(s) \cap (S \ Foremost(S, o))
             new == SetOf(s) \cap (T \ Foremost(T, o))
  <2>1. new \subseteq old
    BY <1>1, <1>3
  <2>2. IsFiniteSet(old)
    BY <1>5, FS_Intersection
  <2> HIDE DEF old, new
  <2>3. /\ Cardinality(new) \in Nat /\ Cardinality(old) \in Nat
        /\ Cardinality(new) <= Cardinality(old)
    BY <2>1, <2>2, NoMore
  <2>4. /\ Again(T, o, s) = Repeats(s) + Cardinality(new)
        /\ Again(S, o, s) = Repeats(s) + Cardinality(old)
    BY DEF Again, new, old
  <2> QED
    BY <1>5, <2>3, <2>4
<1>10. AgainBack(T, o, s) <= AgainBack(S, o, s) + 1
  <2> DEFINE old == SetOf(s) \cap Foremost(S, o)
             new == SetOf(s) \cap Foremost(T, o)
  <2>1. new \subseteq old \cup {y}
    BY <1>4
  <2>2. IsFiniteSet(old)
    BY <1>5, FS_Intersection
  <2>3. o >= Cardinality(S) => new \subseteq old
    <3> SUFFICES ASSUME o >= Cardinality(S) PROVE new \subseteq old
      OBVIOUS
    <3>1. Foremost(S, o) = S
      BY ForemostIs
    <3>2. Foremost(T, o) \subseteq S
      BY <1>1 DEF Foremost
    <3> QED
      BY <3>1, <3>2
  <2> HIDE DEF old, new
  <2>4. /\ Cardinality(new) \in Nat /\ Cardinality(old) \in Nat
        /\ Cardinality(new) <= Cardinality(old) + 1
    BY <2>1, <2>2, AtMostOneMore
  <2>5. o >= Cardinality(S) => Cardinality(new) <= Cardinality(old)
    BY <2>2, <2>3, NoMore
  <2>6. /\ AgainBack(T, o, s) = Repeats(s) + Cardinality(new) + Beyond(T, o)
        /\ AgainBack(S, o, s) = Repeats(s) + Cardinality(old) + Beyond(S, o)
    BY DEF AgainBack, new, old
  <2>7. /\ Beyond(T, o) <= Beyond(S, o) + 1
        /\ ~(o >= Cardinality(S)) => Beyond(T, o) = 0
    BY <1>3, <1>5, <1>6 DEF Beyond
  <2> QED
    BY <1>5, <1>6, <2>4, <2>5, <2>6, <2>7
<1>11. Again(T, o, s) \in Nat /\ Again(S, o, s) \in Nat
  BY <1>1, CountsAre
<1>12. Again(T, o, s) <= Again(S, o, s) + 1
  BY <1>9, <1>11
<1> QED
  BY <1>1, <1>3, <1>7, <1>8, <1>10, <1>12 DEF T, V

(* A change makes a reader miss at most one element more, and read at most *)
(* one again, wherever it is.                                              *)
LEMMA ChangeIsOne ==
  ASSUME NEW S \in SUBSET Nat, IsFiniteSet(S), NEW U \in SUBSET S,
         NEW V, NEW T, OneChange(U, S, V, T),
         NEW s \in Seq(Nat), NEW o \in Nat, NEW p \in Nat
  PROVE  /\ T \in SUBSET Nat /\ IsFiniteSet(T) /\ V \in SUBSET T
         /\ Cardinality(T) = Cardinality(S) + 1 \/ Cardinality(S) = Cardinality(T) + 1
         /\ Missing(V, s) <= Missing(U, s)
         /\ Lost(V, T, o, s) <= Lost(U, S, o, s) + 1
         /\ LostBack(V, T, o, s) <= LostBack(U, S, o, s) + 1
         /\ Again(T, o, s) <= Again(S, o, s) + 1
         /\ AgainBack(T, o, s) <= AgainBack(S, o, s) + 1
         /\ Lost(V, T, o, s) + LostBack(V, T, p, s)
              <= Lost(U, S, o, s) + LostBack(U, S, p, s) + 1
<1>1. PICK x \in Nat : \/ x \notin S /\ T = S \cup {x} /\ V = U
                       \/ x \in S /\ T = S \ {x} /\ V = U \ {x}
  BY DEF OneChange
<1>2. /\ T \in SUBSET Nat /\ IsFiniteSet(T) /\ V \in SUBSET T /\ V \subseteq U
      /\ Cardinality(T) = Cardinality(S) + 1 \/ Cardinality(S) = Cardinality(T) + 1
  <2>1. CASE x \notin S /\ T = S \cup {x} /\ V = U
    BY <2>1, PutIn
  <2>2. CASE x \in S /\ T = S \ {x} /\ V = U \ {x}
    BY <2>2, TakenOut
  <2> QED
    BY <1>1, <2>1, <2>2
<1>3. Missing(V, s) <= Missing(U, s)
  <2>1. V \ SetOf(s) \subseteq U \ SetOf(s) /\ IsFiniteSet(U \ SetOf(s))
    BY <1>2, FS_Subset
  <2> QED
    BY <2>1, NoMore DEF Missing
<1>4. /\ Lost(U, S, o, s) \in Nat /\ Lost(V, T, o, s) \in Nat
      /\ LostBack(U, S, o, s) \in Nat /\ LostBack(V, T, o, s) \in Nat
      /\ LostBack(U, S, p, s) \in Nat /\ LostBack(V, T, p, s) \in Nat
  BY <1>2, CountsAre
<1>5. CASE x \notin S /\ T = S \cup {x} /\ V = U
  <2>1. \A q \in Nat : /\ Lost(V, T, q, s) <= Lost(U, S, q, s)
                       /\ LostBack(V, T, q, s) <= LostBack(U, S, q, s) + 1
                       /\ Again(T, q, s) <= Again(S, q, s) + 1
                       /\ AgainBack(T, q, s) <= AgainBack(S, q, s) + 1
    BY <1>5, PutIn
  <2>2. /\ Lost(V, T, o, s) <= Lost(U, S, o, s)
        /\ LostBack(V, T, o, s) <= LostBack(U, S, o, s) + 1
        /\ LostBack(V, T, p, s) <= LostBack(U, S, p, s) + 1
        /\ Again(T, o, s) <= Again(S, o, s) + 1
        /\ AgainBack(T, o, s) <= AgainBack(S, o, s) + 1
    BY <2>1
  <2> QED
    BY <1>2, <1>3, <1>4, <2>2
<1>6. CASE x \in S /\ T = S \ {x} /\ V = U \ {x}
  <2>1. \A q \in Nat : /\ Lost(V, T, q, s) <= Lost(U, S, q, s) + 1
                       /\ LostBack(V, T, q, s) <= LostBack(U, S, q, s)
                       /\ Again(T, q, s) <= Again(S, q, s) + 1
                       /\ AgainBack(T, q, s) <= AgainBack(S, q, s) + 1
    BY <1>6, TakenOut
  <2>2. /\ Lost(V, T, o, s) <= Lost(U, S, o, s) + 1
        /\ LostBack(V, T, o, s) <= LostBack(U, S, o, s)
        /\ LostBack(V, T, p, s) <= LostBack(U, S, p, s)
        /\ Again(T, o, s) <= Again(S, o, s) + 1
        /\ AgainBack(T, o, s) <= AgainBack(S, o, s) + 1
    BY <2>1
  <2> QED
    BY <1>2, <1>3, <1>4, <2>2
<1> QED
  BY <1>1, <1>5, <1>6

(* A set within two others is no larger than both.                         *)
LEMMA AtMostBoth ==
  ASSUME NEW B, IsFiniteSet(B), NEW C, IsFiniteSet(C), NEW A, A \subseteq B \cup C
  PROVE  /\ Cardinality(A) \in Nat /\ Cardinality(B) \in Nat
         /\ Cardinality(C) \in Nat
         /\ Cardinality(A) <= Cardinality(B) + Cardinality(C)
<1>1. /\ IsFiniteSet(B \cup C)
      /\ Cardinality(B \cup C)
           = Cardinality(B) + Cardinality(C) - Cardinality(B \cap C)
  BY FS_Union
<1>2. IsFiniteSet(B \cap C)
  BY FS_Intersection
<1>3. /\ Cardinality(B) \in Nat /\ Cardinality(C) \in Nat
      /\ Cardinality(B \cap C) \in Nat
  BY <1>2, FS_CardinalityType
<1>4. /\ Cardinality(A) \in Nat /\ Cardinality(A) <= Cardinality(B \cup C)
  BY <1>1, NoMore
<1> QED
  BY <1>1, <1>3, <1>4

(* A page that is read on the way forth misses and repeats nothing.        *)
LEMMA ReadForth ==
  ASSUME NEW S \in SUBSET Nat, IsFiniteSet(S), NEW U \in SUBSET S,
         NEW s \in Seq(Nat), NEW o \in Nat, NEW l \in Nat,
         NEW p, p = Band(S, o, o + l)
  PROVE  /\ s \o p \in Seq(Nat) /\ Len(p) \in Nat /\ Len(p) <= l
         /\ Lost(U, S, o + Len(p), s \o p) <= Lost(U, S, o, s)
         /\ Again(S, o + Len(p), s \o p) <= Again(S, o, s)
         /\ Len(p) < l => Missing(U, s \o p) <= Lost(U, S, o, s)
         /\ Missing(U, s \o p) <= Lost(U, S, o, s) + LostBack(U, S, o + l, s)
<1> DEFINE A == SetOf(s)
           P == SetOf(p)
           n == Len(p)
           c == Cardinality(S)
           b == o + l
           F(q) == Foremost(S, q)
<1>1. b \in Nat /\ b >= o /\ b = o + l /\ c \in Nat
  BY FS_CardinalityType
<1> HIDE DEF b
<1>2. p = Band(S, o, b)
  BY DEF b
<1>3. /\ p \in Seq(S)
      /\ n = LET e == IF b < c THEN b ELSE c IN IF o < e THEN e - o ELSE 0
  <2>1. /\ Band(S, o, b) \in Seq(S)
        /\ Len(Band(S, o, b)) =
             LET e == IF b < c THEN b ELSE c IN IF o < e THEN e - o ELSE 0
    BY <1>1, BandIs
  <2> QED
    BY <1>2, <2>1
<1>4. P = F(b) \ F(o) /\ Cardinality(P) = n
  <2>1. /\ SetOf(Band(S, o, b)) = F(b) \ F(o)
        /\ Cardinality(SetOf(Band(S, o, b))) = Len(Band(S, o, b))
    BY <1>1, BandHolds
  <2> QED
    BY <1>2, <2>1
<1>5. n \in Nat /\ n <= l /\ (n < l => o + n >= c /\ b >= c)
  BY <1>1, <1>3
<1>6. p \in Seq(Nat) /\ s \o p \in Seq(Nat) /\ Len(s \o p) = Len(s) + n
      /\ SetOf(s \o p) = A \cup P
  <2>1. p \in Seq(Nat)
    BY <1>3, SeqOfMore
  <2> QED
    BY <2>1, SetOfConcat, ConcatProperties
<1>7. /\ F(o) \subseteq F(o + n) /\ F(o + n) \subseteq S /\ F(b) \subseteq S
      /\ F(o) \subseteq S
      /\ n < l => F(o + n) = S /\ F(b) = S
  BY <1>1, <1>5, ForemostIs
<1>8. P = F(o + n) \ F(o)
  <2>1. CASE n = l
    BY <1>4, <2>1 DEF b
  <2>2. CASE n < l
    BY <1>4, <1>7, <2>2
  <2> QED
    BY <1>5, <2>1, <2>2
<1>9. /\ IsFiniteSet(A) /\ IsFiniteSet(P) /\ IsFiniteSet(U)
      /\ Cardinality(A) \in Nat /\ Len(s) \in Nat
  BY <1>6, SetOfIs, FS_Subset
<1>10. Lost(U, S, o + n, s \o p) <= Lost(U, S, o, s)
  <2>1. (U \cap F(o + n)) \ (A \cup P) \subseteq (U \cap F(o)) \ A
    BY <1>8
  <2>2. IsFiniteSet((U \cap F(o)) \ A)
    BY <1>9, FS_Subset
  <2> QED
    BY <1>6, <2>1, <2>2, NoMore DEF Lost
<1>11. Again(S, o + n, s \o p) <= Again(S, o, s)
  <2> DEFINE X == S \ F(o)
             Y == S \ F(o + n)
  <2>1. Y \subseteq X /\ P \subseteq X /\ P \cap Y = {}
    BY <1>7, <1>8
  <2> HIDE DEF X, Y
  <2>2. /\ Cardinality(P) - Cardinality(A \cup P) + Cardinality((A \cup P) \cap Y)
             <= Cardinality(A \cap X) - Cardinality(A)
        /\ Cardinality(A \cup P) \in Nat /\ Cardinality((A \cup P) \cap Y) \in Nat
        /\ Cardinality(A \cap X) \in Nat
    BY <1>9, <2>1, TakenOnce
  <2>3. Again(S, o + n, s \o p) =
          ((Len(s) + n) - Cardinality(A \cup P)) + Cardinality((A \cup P) \cap Y)
    <3>1. Again(S, o + n, s \o p) =
            Repeats(s \o p) + Cardinality(SetOf(s \o p) \cap Y)
      BY DEF Again, Y
    <3>2. Repeats(s \o p) = (Len(s) + n) - Cardinality(A \cup P)
      <4>1. Cardinality(SetOf(s \o p)) = Cardinality(A \cup P)
        BY <1>6
      <4> QED
        BY <1>6, <4>1 DEF Repeats
    <3> QED
      BY <1>6, <3>1, <3>2
  <2>4. Again(S, o, s) = Len(s) - Cardinality(A) + Cardinality(A \cap X)
    BY DEF Again, Repeats, X
  <2> QED
    BY <1>4, <1>5, <1>9, <2>2, <2>3, <2>4
<1>12. Missing(U, s \o p) <= Lost(U, S, o, s) + LostBack(U, S, b, s)
  <2>1. U \ (A \cup P) \subseteq ((U \cap F(o)) \ A) \cup ((U \ F(b)) \ A)
    BY <1>4
  <2>2. IsFiniteSet((U \cap F(o)) \ A) /\ IsFiniteSet((U \ F(b)) \ A)
    BY <1>9, FS_Subset
  <2> QED
    BY <1>6, <2>1, <2>2, AtMostBoth DEF Missing, Lost, LostBack
<1>13. n < l => Missing(U, s \o p) <= Lost(U, S, o, s)
  <2> SUFFICES ASSUME n < l PROVE Missing(U, s \o p) <= Lost(U, S, o, s)
    OBVIOUS
  <2>1. (U \cap F(o + n)) \ SetOf(s \o p) = U \ SetOf(s \o p)
    BY <1>7
  <2>2. Missing(U, s \o p) = Lost(U, S, o + n, s \o p)
    BY <2>1 DEF Missing, Lost
  <2> QED
    BY <1>10, <2>2
<1> QED
  BY <1>5, <1>6, <1>10, <1>11, <1>12, <1>13 DEF b

(* Nor does a page that is read on the way back.                           *)
LEMMA ReadBack ==
  ASSUME NEW S \in SUBSET Nat, IsFiniteSet(S), NEW U \in SUBSET S,
         NEW s \in Seq(Nat), NEW o \in Nat, NEW b \in Nat, o <= b,
         NEW p, p = Band(S, o, b)
  PROVE  /\ p \o s \in Seq(Nat) /\ Len(p) \in Nat /\ b - Len(p) \in Nat
         /\ LostBack(U, S, b - Len(p), p \o s) <= LostBack(U, S, b, s)
         /\ AgainBack(S, b - Len(p), p \o s) <= AgainBack(S, b, s)
<1> DEFINE A == SetOf(s)
           P == SetOf(p)
           n == Len(p)
           t == b - n
           c == Cardinality(S)
           F(q) == Foremost(S, q)
<1>1. c \in Nat
  BY FS_CardinalityType
<1>2. /\ p \in Seq(S)
      /\ n = LET e == IF b < c THEN b ELSE c IN IF o < e THEN e - o ELSE 0
  BY BandIs
<1>3. P = F(b) \ F(o) /\ Cardinality(P) = n
  BY BandHolds
<1>4. n \in Nat /\ t \in Nat /\ t >= o /\ t <= b
  BY <1>1, <1>2
<1>5. p \in Seq(Nat) /\ p \o s \in Seq(Nat) /\ Len(p \o s) = n + Len(s)
      /\ SetOf(p \o s) = A \cup P
  <2>1. p \in Seq(Nat)
    BY <1>2, SeqOfMore
  <2> QED
    BY <2>1, SetOfConcat, ConcatProperties
<1>6. /\ IsFiniteSet(A) /\ IsFiniteSet(P) /\ IsFiniteSet(U)
      /\ Cardinality(A) \in Nat /\ Len(s) \in Nat
  <2>1. IsFiniteSet(A) /\ Cardinality(A) \in Nat /\ Len(s) \in Nat
    BY SetOfIs
  <2>2. IsFiniteSet(P)
    BY <1>2, SetOfIs
  <2> QED
    BY <2>1, <2>2, FS_Subset
<1>7. Cardinality(F(t) \ F(o)) + Beyond(S, t) <= Beyond(S, b)
  <2>1. Cardinality(F(t) \ F(o)) = Len(Band(S, o, t))
    <3>1. t \in Nat
      BY <1>4
    <3> HIDE DEF t
    <3>2. /\ SetOf(Band(S, o, t)) = F(t) \ F(o)
          /\ Cardinality(SetOf(Band(S, o, t))) = Len(Band(S, o, t))
      BY <3>1, BandHolds
    <3> QED
      BY <3>2
  <2>2. Len(Band(S, o, t)) =
          LET e == IF t < c THEN t ELSE c IN IF o < e THEN e - o ELSE 0
    BY <1>4, BandIs
  <2>3. Beyond(S, t) = (IF t > c THEN t - c ELSE 0)
        /\ Beyond(S, b) = (IF b > c THEN b - c ELSE 0)
    BY DEF Beyond
  <2>4. t = b - n
    OBVIOUS
  <2> HIDE DEF t, c, n
  <2> QED
    BY <1>1, <1>2, <1>4, <2>1, <2>2, <2>3, <2>4
<1>8. F(o) \subseteq F(t) /\ F(o) \subseteq F(b) /\ IsFiniteSet(F(t))
  BY <1>4, ForemostIs
<1>9. Beyond(S, t) \in Nat /\ Beyond(S, b) \in Nat
  BY <1>4, CountsAre
<1> HIDE DEF t
<1>10. LostBack(U, S, t, p \o s) <= LostBack(U, S, b, s)
  <2>1. (U \ F(t)) \ (A \cup P) \subseteq (U \ F(b)) \ A
    BY <1>3, <1>8
  <2>2. IsFiniteSet((U \ F(b)) \ A)
    BY <1>6, FS_Subset
  <2> QED
    BY <1>5, <2>1, <2>2, NoMore DEF LostBack
<1>11. AgainBack(S, t, p \o s) <= AgainBack(S, b, s)
  <2> DEFINE X == F(b)
             Y == F(o)
             Z == (A \cup P) \cap F(t)
             gap == F(t) \ F(o)
             taken == Cardinality(A \cup P)
             ahead == Cardinality((A \cup P) \cap Y)
  <2>1. Y \subseteq X /\ P \subseteq X /\ P \cap Y = {}
    BY <1>3, <1>8
  <2>2. Z \subseteq ((A \cup P) \cap Y) \cup gap
    OBVIOUS
  <2>3. IsFiniteSet((A \cup P) \cap Y) /\ IsFiniteSet(gap)
    BY <1>6, <1>8, FS_Union, FS_Intersection, FS_Subset
  <2> HIDE DEF X, Y, Z, gap
  <2>4. /\ Cardinality(P) - taken + ahead <= Cardinality(A \cap X) - Cardinality(A)
        /\ taken \in Nat /\ ahead \in Nat
        /\ Cardinality(A \cap X) \in Nat
    BY <1>6, <2>1, TakenOnce
  <2>5. /\ Cardinality(Z) \in Nat /\ Cardinality(gap) \in Nat
        /\ Cardinality(Z) <= ahead + Cardinality(gap)
    BY <2>2, <2>3, AtMostBoth
  <2>6. AgainBack(S, t, p \o s) =
          ((n + Len(s)) - taken) + Cardinality(Z) + Beyond(S, t)
    <3>1. AgainBack(S, t, p \o s) =
            Repeats(p \o s) + Cardinality(SetOf(p \o s) \cap F(t)) + Beyond(S, t)
      BY DEF AgainBack
    <3>2. Repeats(p \o s) = (n + Len(s)) - Cardinality(A \cup P)
      <4>1. Cardinality(SetOf(p \o s)) = Cardinality(A \cup P)
        BY <1>5
      <4> QED
        BY <1>5, <4>1 DEF Repeats
    <3> QED
      BY <1>5, <3>1, <3>2 DEF Z
  <2>7. AgainBack(S, b, s) =
          (Len(s) - Cardinality(A)) + Cardinality(A \cap X) + Beyond(S, b)
    BY DEF AgainBack, Repeats, X
  <2>8. Cardinality(gap) + Beyond(S, t) <= Beyond(S, b)
    BY <1>7 DEF gap
  <2>9. Len(s) \in Nat /\ Cardinality(A) \in Nat /\ Cardinality(P) = n /\ n \in Nat
    BY <1>3, <1>4, <1>6
  <2> HIDE DEF A, P, n, taken, ahead
  <2> QED
    BY <1>9, <2>4, <2>5, <2>6, <2>7, <2>8, <2>9
<1> QED
  BY <1>4, <1>5, <1>10, <1>11 DEF t

(* How many elements lie between two positions.                            *)
LEMMA Between ==
  ASSUME NEW S \in SUBSET Nat, IsFiniteSet(S), NEW a \in Nat, NEW b \in Nat,
         a <= b
  PROVE  /\ IsFiniteSet(Foremost(S, b) \ Foremost(S, a))
         /\ Cardinality(Foremost(S, b) \ Foremost(S, a)) \in Nat
         /\ Cardinality(Foremost(S, b) \ Foremost(S, a)) <= b - a
<1>1. IsFiniteSet(Foremost(S, b) \ Foremost(S, a))
  BY ForemostIs, FS_Subset
<1>2. Cardinality(Foremost(S, b) \ Foremost(S, a)) = Len(Band(S, a, b))
  <2>1. /\ SetOf(Band(S, a, b)) = Foremost(S, b) \ Foremost(S, a)
        /\ Cardinality(SetOf(Band(S, a, b))) = Len(Band(S, a, b))
    BY BandHolds
  <2> QED
    BY <2>1
<1>3. Len(Band(S, a, b)) =
        LET e == IF b < Cardinality(S) THEN b ELSE Cardinality(S)
        IN  IF a < e THEN e - a ELSE 0
  BY BandIs
<1>4. Cardinality(S) \in Nat
  BY FS_CardinalityType
<1> QED
  BY <1>1, <1>2, <1>3, <1>4

(* The position of the n-th element from the end.                          *)
Rear(S, n) == IF Cardinality(S) > n THEN Cardinality(S) - n ELSE 0

(* The last n elements are read of a set of which k elements were counted. *)
LEMMA ReadRear ==
  ASSUME NEW S \in SUBSET Nat, IsFiniteSet(S), NEW U \in SUBSET S,
         NEW k \in Nat, NEW n \in Nat, NEW d \in Nat,
         k - Cardinality(S) <= d, Cardinality(S) - k <= d,
         NEW q, q = IF k > n THEN k - n ELSE 0, NEW p, p = Band(S, q, q + n)
  PROVE  /\ p \in Seq(Nat)
         /\ LostBack(U, S, Rear(S, n), p) <= d
         /\ AgainBack(S, Rear(S, n), p) <= d
<1> DEFINE c == Cardinality(S)
           t == Rear(S, n)
           e == q + n
           F(o) == Foremost(S, o)
<1>1. /\ c \in Nat /\ q \in Nat /\ e \in Nat /\ t \in Nat /\ e >= k /\ t <= c
      /\ k >= c => t <= q /\ q - t <= k - c
      /\ k < c => q <= t /\ t - q <= c - k
      /\ k - c <= d /\ c - k <= d
  BY FS_CardinalityType DEF Rear
<1>2. p = Band(S, q, e)
  OBVIOUS
<1> HIDE DEF c, t, e
<1>3. /\ Band(S, q, e) \in Seq(S)
      /\ SetOf(Band(S, q, e)) = F(e) \ F(q)
      /\ Cardinality(SetOf(Band(S, q, e))) = Len(Band(S, q, e))
  <2>1. Band(S, q, e) \in Seq(S)
    BY <1>1, BandIs
  <2>2. /\ SetOf(Band(S, q, e)) = F(e) \ F(q)
        /\ Cardinality(SetOf(Band(S, q, e))) = Len(Band(S, q, e))
    BY <1>1, BandHolds
  <2> QED
    BY <2>1, <2>2
<1>4. p \in Seq(Nat)
  <2>1. p \in Seq(S)
    BY <1>2, <1>3
  <2> QED
    BY <2>1, SeqOfMore
<1>5. /\ F(e) \subseteq S /\ F(q) \subseteq S /\ F(t) \subseteq S
      /\ e >= c => F(e) = S
      /\ q <= t => F(q) \subseteq F(t)
      /\ t <= q => F(t) \subseteq F(q)
      /\ F(k) \subseteq F(e) /\ F(c) = S
  <2>1. /\ e >= Cardinality(S) => F(e) = S
        /\ c >= Cardinality(S) => F(c) = S
        /\ F(e) \subseteq S /\ F(q) \subseteq S /\ F(t) \subseteq S
        /\ q <= t => F(q) \subseteq F(t)
        /\ t <= q => F(t) \subseteq F(q)
        /\ k <= e => F(k) \subseteq F(e)
    BY <1>1, ForemostIs
  <2> QED
    BY <1>1, <2>1 DEF c
<1>6. LostBack(U, S, t, p) <= d
  <2> DEFINE lost == (U \ F(t)) \ SetOf(p)
  <2>1. CASE k >= c
    <3>1. e >= c /\ t <= q /\ q - t <= d
      BY <1>1, <2>1
    <3>2. lost \subseteq F(q) \ F(t)
      BY <1>2, <1>3, <1>5, <3>1
    <3>3. /\ IsFiniteSet(F(q) \ F(t)) /\ Cardinality(F(q) \ F(t)) \in Nat
          /\ Cardinality(F(q) \ F(t)) <= q - t
      BY <1>1, <3>1, Between
    <3>4. Cardinality(lost) \in Nat /\ Cardinality(lost) <= Cardinality(F(q) \ F(t))
      BY <3>2, <3>3, NoMore
    <3>5. LostBack(U, S, t, p) = Cardinality(lost)
      BY DEF LostBack
    <3> HIDE DEF lost
    <3> QED
      BY <1>1, <3>1, <3>3, <3>4, <3>5
  <2>2. CASE k < c
    <3>1. q <= t /\ k <= c /\ c - k <= d
      BY <1>1, <2>2
    <3>2. lost \subseteq F(c) \ F(k)
      BY <1>2, <1>3, <1>5, <3>1
    <3>3. /\ IsFiniteSet(F(c) \ F(k)) /\ Cardinality(F(c) \ F(k)) \in Nat
          /\ Cardinality(F(c) \ F(k)) <= c - k
      BY <1>1, <3>1, Between
    <3>4. Cardinality(lost) \in Nat /\ Cardinality(lost) <= Cardinality(F(c) \ F(k))
      BY <3>2, <3>3, NoMore
    <3>5. LostBack(U, S, t, p) = Cardinality(lost)
      BY DEF LostBack
    <3> HIDE DEF lost
    <3> QED
      BY <1>1, <3>1, <3>3, <3>4, <3>5
  <2> QED
    BY <1>1, <2>1, <2>2
<1>7. AgainBack(S, t, p) <= d
  <2> DEFINE again == SetOf(p) \cap F(t)
  <2>1. Repeats(p) = 0
    <3>1. Cardinality(SetOf(p)) = Len(p) /\ Len(p) \in Nat
      BY <1>2, <1>3, <1>4, SetOfIs
    <3> QED
      BY <3>1 DEF Repeats
  <2>2. Beyond(S, t) = 0
    BY <1>1 DEF Beyond, c
  <2>3. AgainBack(S, t, p) = 0 + Cardinality(again) + 0
    BY <2>1, <2>2 DEF AgainBack
  <2>4. again \subseteq F(t) \ F(q)
    BY <1>2, <1>3
  <2>5. IsFiniteSet({}) /\ Cardinality({}) = 0
    BY FS_EmptySet
  <2>6. CASE k >= c
    <3>1. t <= q
      BY <1>1, <2>6
    <3>2. again = {}
      BY <1>5, <2>4, <3>1
    <3>3. Cardinality(again) = 0
      BY <2>5, <3>2
    <3> HIDE DEF again
    <3> QED
      BY <1>1, <2>3, <3>3
  <2>7. CASE k < c
    <3>1. q <= t /\ t - q <= d
      BY <1>1, <2>7
    <3>2. /\ IsFiniteSet(F(t) \ F(q)) /\ Cardinality(F(t) \ F(q)) \in Nat
          /\ Cardinality(F(t) \ F(q)) <= t - q
      BY <1>1, <3>1, Between
    <3>3. Cardinality(again) \in Nat /\ Cardinality(again) <= Cardinality(F(t) \ F(q))
      BY <2>4, <3>2, NoMore
    <3> HIDE DEF again
    <3> QED
      BY <1>1, <2>3, <3>1, <3>2, <3>3
  <2> QED
    BY <1>1, <2>6, <2>7
<1> QED
  BY <1>4, <1>6, <1>7 DEF t

(* A change moves the position from the end with the elements.             *)
LEMMA RearIsOne ==
  ASSUME NEW S \in SUBSET Nat, IsFiniteSet(S), NEW U \in SUBSET S,
         NEW V, NEW T, OneChange(U, S, V, T), NEW s \in Seq(Nat), NEW n \in Nat
  PROVE  /\ Rear(S, n) \in Nat /\ Rear(T, n) \in Nat
         /\ LostBack(V, T, Rear(T, n), s) <= LostBack(U, S, Rear(S, n), s) + 1
         /\ AgainBack(T, Rear(T, n), s) <= AgainBack(S, Rear(S, n), s) + 1
<1> DEFINE c == Cardinality(S)
           t == Rear(S, n)
           r == Rear(T, n)
<1>1. /\ T \in SUBSET Nat /\ IsFiniteSet(T) /\ V \in SUBSET T
      /\ c \in Nat /\ Cardinality(T) \in Nat /\ IsFiniteSet(U) /\ IsFiniteSet(V)
  <2>1. T \in SUBSET Nat /\ IsFiniteSet(T) /\ V \in SUBSET T
    BY ChangeIsOne, SetOfIs
  <2> QED
    BY <2>1, FS_CardinalityType, FS_Subset
<1>2. t \in Nat /\ r \in Nat /\ t <= c /\ r <= Cardinality(T)
  BY <1>1 DEF Rear
<1>3. CASE t = r
  BY <1>2, <1>3, ChangeIsOne
<1>4. CASE t # r
  <2>1. PICK x \in Nat : \/ x \notin S /\ T = S \cup {x} /\ V = U
                         \/ x \in S /\ T = S \ {x} /\ V = U \ {x}
    BY DEF OneChange
  <2> DEFINE ahead(A, o) == SetOf(s) \cap Foremost(A, o)
             lost(A, B, o) == (A \ Foremost(B, o)) \ SetOf(s)
  <2>2. /\ Beyond(S, t) = 0 /\ Beyond(T, r) = 0 /\ Repeats(s) \in Nat
    BY <1>1, <1>2, CountsAre DEF Beyond
  <2>3. /\ IsFiniteSet(ahead(S, t)) /\ IsFiniteSet(lost(U, S, t))
    BY <1>1, SetOfIs, FS_Intersection, FS_Subset
  <2>4. (\E y : ahead(T, r) \subseteq ahead(S, t) \cup {y})
        /\ (\E y : lost(V, T, r) \subseteq lost(U, S, t) \cup {y})
    <3>1. CASE x \notin S /\ T = S \cup {x} /\ V = U
      <4>1. Cardinality(T) = c + 1
        BY <3>1, ForemostOfMore
      <4>2. r = t + 1
        BY <1>1, <1>4, <4>1 DEF Rear
      <4>3. Foremost(S, t) \subseteq Foremost(T, t + 1)
            /\ \E y : Foremost(T, t + 1) \subseteq Foremost(S, t) \cup {y}
        BY <1>2, <3>1, RearOfMore
      <4> HIDE DEF t, r
      <4>4. PICK y : Foremost(T, r) \subseteq Foremost(S, t) \cup {y}
        BY <4>2, <4>3
      <4>5. ahead(T, r) \subseteq ahead(S, t) \cup {y}
        BY <4>4
      <4>6. lost(V, T, r) \subseteq lost(U, S, t) \cup {y}
        BY <3>1, <4>2, <4>3
      <4> QED
        BY <4>5, <4>6
    <3>2. CASE x \in S /\ T = S \ {x} /\ V = U \ {x}
      <4>1. x \notin T /\ S = T \cup {x}
        BY <3>2
      <4>2. c = Cardinality(T) + 1
        BY <1>1, <4>1, ForemostOfMore
      <4>3. t = r + 1
        BY <1>1, <1>4, <4>2 DEF Rear
      <4>4. r \in Nat
        BY <1>2
      <4> HIDE DEF t, r
      <4>5. LET W == T \cup {x}
            IN  /\ Foremost(T, r) \subseteq Foremost(W, r + 1)
                /\ \E y : Foremost(W, r + 1) \subseteq Foremost(T, r) \cup {y}
        BY <1>1, <4>1, <4>4, RearOfMore
      <4>6. Foremost(T, r) \subseteq Foremost(S, r + 1)
            /\ \E y : Foremost(S, r + 1) \subseteq Foremost(T, r) \cup {y}
        BY <4>1, <4>5
      <4>7. PICK y : Foremost(S, t) \subseteq Foremost(T, r) \cup {y}
        BY <4>3, <4>6
      <4>8. ahead(T, r) \subseteq ahead(S, t) \cup {y}
        BY <4>3, <4>6
      <4>9. lost(V, T, r) \subseteq lost(U, S, t) \cup {y}
        BY <3>2, <4>7
      <4> QED
        BY <4>8, <4>9
    <3> QED
      BY <2>1, <3>1, <3>2
  <2>5. /\ AgainBack(S, t, s) = Repeats(s) + Cardinality(ahead(S, t)) + 0
        /\ AgainBack(T, r, s) = Repeats(s) + Cardinality(ahead(T, r)) + 0
        /\ LostBack(U, S, t, s) = Cardinality(lost(U, S, t))
        /\ LostBack(V, T, r, s) = Cardinality(lost(V, T, r))
    BY <2>2 DEF AgainBack, LostBack
  <2> HIDE DEF ahead, lost, t, r
  <2>6. /\ Cardinality(ahead(T, r)) \in Nat /\ Cardinality(ahead(S, t)) \in Nat
        /\ Cardinality(ahead(T, r)) <= Cardinality(ahead(S, t)) + 1
        /\ Cardinality(lost(V, T, r)) <= Cardinality(lost(U, S, t)) + 1
    BY <2>3, <2>4, AtMostOneMore
  <2>7. t \in Nat /\ r \in Nat
    BY <1>2
  <2>8. /\ LostBack(V, T, r, s) <= LostBack(U, S, t, s) + 1
        /\ AgainBack(T, r, s) <= AgainBack(S, t, s) + 1
    BY <2>2, <2>5, <2>6
  <2> QED
    BY <2>7, <2>8 DEF t, r
<1> QED
  BY <1>3, <1>4
=============================================================================
