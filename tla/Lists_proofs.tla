---------------------------- MODULE Lists_proofs ----------------------------
(***************************************************************************)
(* What the operators of module Lists return, for lists of any length.     *)
(***************************************************************************)
EXTENDS Lists, FiniteSetTheorems, TLAPS

StrictTotal(S, before) ==
  /\ \A x \in S : <<x, x>> \notin before
  /\ \A x, y \in S : x # y => <<x, y>> \in before \/ <<y, x>> \in before
  /\ \A x, y, z \in S : <<x, y>> \in before /\ <<y, z>> \in before => <<x, z>> \in before

\* Counting what comes before an element gives each its own place, and no place
\* stays empty.
LEMMA OrderedIsSorted ==
  ASSUME NEW S, IsFiniteSet(S), NEW before, StrictTotal(S, before)
  PROVE  /\ Cardinality(S) \in Nat
         /\ Ordered(S, before) \in [1..Cardinality(S) -> S]
         /\ \A x \in S : \E k \in 1..Cardinality(S) : Ordered(S, before)[k] = x
         /\ \A j, k \in 1..Cardinality(S) :
              j < k => <<Ordered(S, before)[j], Ordered(S, before)[k]>> \in before
<1> DEFINE Below(x) == {y \in S : <<y, x>> \in before}
           n == Cardinality(S)
           rank == [x \in S |-> Cardinality(Below(x)) + 1]
<1>1. n \in Nat
  BY FS_CardinalityType
<1>2. ASSUME NEW x \in S
      PROVE  IsFiniteSet(Below(x)) /\ Cardinality(Below(x)) \in 0..(n - 1)
  <2>1. x \notin Below(x) /\ Below(x) \in SUBSET S
    BY DEF StrictTotal
  <2>2. IsFiniteSet(Below(x)) /\ Cardinality(Below(x)) =< n /\ (n = Cardinality(Below(x)) => S = Below(x))
    BY <2>1, FS_Subset DEF StrictTotal
  <2> QED BY <1>1, <2>1, <2>2, FS_CardinalityType
<1>3. ASSUME NEW x \in S, NEW y \in S, <<x, y>> \in before
      PROVE  rank[x] < rank[y]
  <2>1. Below(x) \cup {x} \in SUBSET Below(y) /\ x \notin Below(x)
    BY <1>3 DEF StrictTotal
  <2>2. Cardinality(Below(x) \cup {x}) = Cardinality(Below(x)) + 1
    BY <1>2, <2>1, FS_AddElement
  <2>3. Cardinality(Below(x) \cup {x}) =< Cardinality(Below(y))
    BY <1>2, <2>1, FS_Subset
  <2> QED BY <1>2, <2>2, <2>3
<1>4. rank \in [S -> 1..n]
  <2>1. \A x \in S : rank[x] = Cardinality(Below(x)) + 1
    OBVIOUS
  <2>2. \A x \in S : rank[x] \in 1..n
    BY <1>1, <1>2, <2>1
  <2> QED BY <2>2
<1>5. \A x, y \in S : rank[x] = rank[y] => x = y
  <2> SUFFICES ASSUME NEW x \in S, NEW y \in S, rank[x] = rank[y], x # y
               PROVE  FALSE
    OBVIOUS
  <2>1. rank[x] \in Int /\ rank[y] \in Int
    BY <1>1, <1>4
  <2>2. <<x, y>> \in before \/ <<y, x>> \in before
    BY DEF StrictTotal
  <2> HIDE DEF rank
  <2> QED BY <1>3, <2>1, <2>2
<1>6. rank \in Surjection(S, 1..n)
  <2>1. IsFiniteSet(1..n) /\ Cardinality(1..n) = n
    BY <1>1, FS_Interval
  <2> HIDE DEF rank
  <2>2. rank \in Injection(S, 1..n)
    BY <1>4, <1>5 DEF Injection, IsInjective
  <2> QED BY <2>1, <2>2, FS_Injection
<1>7. \A k \in 1..n : \E x \in S : rank[x] = k
  BY <1>6 DEF Surjection
<1>8. ASSUME NEW k \in 1..n
      PROVE  Ordered(S, before)[k] \in S /\ rank[Ordered(S, before)[k]] = k
  <2>1. Ordered(S, before)[k] = CHOOSE x \in S : Cardinality(Below(x)) = k - 1
    BY DEF Ordered
  <2>2. PICK x \in S : rank[x] = k
    BY <1>7
  <2>3. rank[x] = Cardinality(Below(x)) + 1 /\ Cardinality(Below(x)) \in Int
    BY <1>1, <1>2
  <2> HIDE DEF Below, rank
  <2>4. Ordered(S, before)[k] \in S /\ Cardinality(Below(Ordered(S, before)[k])) = k - 1
    BY <2>1, <2>2, <2>3
  <2> QED BY <1>1, <1>2, <2>4 DEF rank
<1>9. DOMAIN Ordered(S, before) = 1..n /\ Ordered(S, before) \in [1..n -> S]
  BY <1>8 DEF Ordered
<1> HIDE DEF n, rank, Below
<1>10. \A x \in S : \E k \in 1..n : Ordered(S, before)[k] = x
  BY <1>4, <1>5, <1>8
<1>11. ASSUME NEW j \in 1..n, NEW k \in 1..n, j < k
       PROVE  <<Ordered(S, before)[j], Ordered(S, before)[k]>> \in before
  <2> DEFINE x == Ordered(S, before)[j]
             y == Ordered(S, before)[k]
  <2>1. x \in S /\ y \in S /\ rank[x] = j /\ rank[y] = k
    BY <1>8
  <2>2. x # y /\ ~(rank[y] < rank[x])
    BY <1>1, <1>11, <2>1
  <2> HIDE DEF x, y
  <2>3. <<x, y>> \in before \/ <<y, x>> \in before
    BY <2>1, <2>2 DEF StrictTotal
  <2>4. <<x, y>> \in before
    BY <1>3, <2>1, <2>2, <2>3
  <2> QED BY <2>4 DEF x, y
<1> QED BY <1>1, <1>9, <1>10, <1>11 DEF n

-----------------------------------------------------------------------------
(* Ascending and Pick *)

\* A list that is not empty has a first element.
LEMMA HasHead ==
  ASSUME NEW X, NEW s \in Seq(X), s # <<>>
  PROVE  /\ Len(s) \in Nat \ {0} /\ DOMAIN s = 1..Len(s)
         /\ 1 \in DOMAIN s /\ Head(s) = s[1] /\ Head(s) \in X
OBVIOUS

\* 1..n has n elements.
LEMMA Interval ==
  \A n \in Nat : IsFiniteSet(1..n) /\ Cardinality(1..n) = n
<1> SUFFICES ASSUME NEW n \in Nat
             PROVE  IsFiniteSet(1..n) /\ Cardinality(1..n) = n
  OBVIOUS
<1> QED BY FS_Interval

\* Numbers sort into a strictly increasing list of all of them.
LEMMA AscendingIsSorted ==
  ASSUME NEW I \in SUBSET Int, IsFiniteSet(I)
  PROVE  /\ Cardinality(I) \in Nat
         /\ Ascending(I) \in [1..Cardinality(I) -> I]
         /\ \A x \in I : \E k \in 1..Cardinality(I) : Ascending(I)[k] = x
         /\ \A j, k \in 1..Cardinality(I) : j < k => Ascending(I)[j] < Ascending(I)[k]
<1> DEFINE before == {p \in I \X I : p[1] < p[2]}
<1>1. \A x, y \in I : <<x, y>> \in before <=> x < y
  OBVIOUS
<1>2. I \subseteq Int
  OBVIOUS
<1> HIDE DEF before
<1>3. StrictTotal(I, before)
  BY <1>1, <1>2 DEF StrictTotal
<1>4. Ascending(I) = Ordered(I, before)
  BY DEF Ascending, before
<1>5. ASSUME NEW j \in 1..Cardinality(I), NEW k \in 1..Cardinality(I), j < k
      PROVE  Ascending(I)[j] < Ascending(I)[k]
  <2>1. Ascending(I)[j] \in I /\ Ascending(I)[k] \in I
    BY <1>3, <1>4, OrderedIsSorted
  <2>2. <<Ascending(I)[j], Ascending(I)[k]>> \in before
    BY <1>3, <1>4, <1>5, OrderedIsSorted
  <2> QED BY <1>1, <2>1, <2>2
<1> QED BY <1>3, <1>4, <1>5, OrderedIsSorted

\* 1..n is sorted.
LEMMA AscendingInterval ==
  ASSUME NEW n \in Nat
  PROVE  Ascending(1..n) = [k \in 1..n |-> k]
<1>1. IsFiniteSet(1..n) /\ Cardinality(1..n) = n
  BY Interval
<1>2. ASSUME NEW x \in 1..n
      PROVE  Cardinality({y \in 1..n : y < x}) = x - 1
  <2>1. {y \in 1..n : y < x} = 1..(x - 1)
    OBVIOUS
  <2>2. x - 1 \in Nat
    OBVIOUS
  <2> QED BY <2>1, <2>2, Interval
<1>3. ASSUME NEW k \in 1..n
      PROVE  (CHOOSE x \in 1..n : Cardinality({y \in 1..n : y < x}) = k - 1) = k
  <2> DEFINE C(x) == Cardinality({y \in 1..n : y < x})
  <2>1. \A x \in 1..n : C(x) = x - 1
    BY <1>2
  <2> HIDE DEF C
  <2>2. (CHOOSE x \in 1..n : C(x) = k - 1) = k
    BY <2>1
  <2> QED BY <2>2 DEF C
<1>4. ASSUME NEW k \in 1..n
      PROVE  Ascending(1..n)[k] = k
  <2> DEFINE before == {p \in (1..n) \X (1..n) : p[1] < p[2]}
  <2>1. \A x \in 1..n : {y \in 1..n : <<y, x>> \in before} = {y \in 1..n : y < x}
    OBVIOUS
  <2>2. Ascending(1..n)[k] = CHOOSE x \in 1..n : Cardinality({y \in 1..n : <<y, x>> \in before}) = k - 1
    BY <1>1 DEF Ascending, Ordered
  <2> HIDE DEF before
  <2> DEFINE D(x) == Cardinality({y \in 1..n : <<y, x>> \in before})
             C(x) == Cardinality({y \in 1..n : y < x})
  <2>3. \A x \in 1..n : D(x) = C(x)
    BY <2>1
  <2>4. \A x \in 1..n : C(x) = x - 1
    BY <1>2
  <2> HIDE DEF C
  <2>5. Ascending(1..n)[k] = CHOOSE x \in 1..n : D(x) = k - 1
    BY <2>2
  <2> HIDE DEF D
  <2> QED BY <2>3, <2>4, <2>5
<1>5. DOMAIN Ascending(1..n) = 1..n
  BY <1>1 DEF Ascending, Ordered
<1>6. Ascending(1..n) \in [1..n -> 1..n]
  BY <1>1, AscendingIsSorted
<1> QED BY <1>4, <1>5, <1>6

\* The picked elements, in the order of their places.
LEMMA PickIsSubsequence ==
  ASSUME NEW X, NEW s \in Seq(X), NEW I \in SUBSET DOMAIN s
  PROVE  /\ Cardinality(I) \in 0..Len(s)
         /\ Ascending(I) \in [1..Cardinality(I) -> I]
         /\ \A i \in I : \E k \in 1..Cardinality(I) : Ascending(I)[k] = i
         /\ \A j, k \in 1..Cardinality(I) : j < k => Ascending(I)[j] < Ascending(I)[k]
         /\ Pick(s, I) \in Seq(X)
         /\ Len(Pick(s, I)) = Cardinality(I)
         /\ DOMAIN Pick(s, I) = 1..Cardinality(I)
         /\ \A k \in 1..Cardinality(I) : Pick(s, I)[k] = s[Ascending(I)[k]]
<1>1. DOMAIN s = 1..Len(s) /\ Len(s) \in Nat
  OBVIOUS
<1>2. IsFiniteSet(1..Len(s)) /\ Cardinality(1..Len(s)) = Len(s)
  BY <1>1, Interval
<1>3. I \in SUBSET Int /\ IsFiniteSet(I) /\ Cardinality(I) =< Len(s)
  BY <1>1, <1>2, FS_Subset
<1> DEFINE at == Ascending(I)
<1>4. /\ Cardinality(I) \in Nat
      /\ at \in [1..Cardinality(I) -> I]
      /\ \A x \in I : \E k \in 1..Cardinality(I) : at[k] = x
      /\ \A j, k \in 1..Cardinality(I) : j < k => at[j] < at[k]
  BY <1>3, AscendingIsSorted
<1>5. Pick(s, I) = [k \in 1..Cardinality(I) |-> s[at[k]]]
  BY <1>4 DEF Pick
<1> HIDE DEF at
<1>6. \A k \in 1..Cardinality(I) : s[at[k]] \in X
  BY <1>1, <1>4
<1>7. Pick(s, I) \in [1..Cardinality(I) -> X]
  BY <1>5, <1>6
<1>8. Pick(s, I) \in Seq(X) /\ Len(Pick(s, I)) = Cardinality(I)
  BY <1>4, <1>7
<1>9. \A k \in 1..Cardinality(I) : Pick(s, I)[k] = s[at[k]]
  BY <1>5
<1>10. Cardinality(I) \in 0..Len(s)
  BY <1>1, <1>3, <1>4
<1> QED BY <1>4, <1>7, <1>8, <1>9, <1>10 DEF at

\* The places that a comprehension takes, each once.
LEMMA PickPlaces ==
  ASSUME NEW X, NEW s \in Seq(X), NEW I \in SUBSET DOMAIN s
  PROVE  /\ Pick(s, I) \in Seq(X)
         /\ DOMAIN Pick(s, I) = 1..Len(Pick(s, I)) /\ Len(Pick(s, I)) \in Nat
         /\ \A k \in DOMAIN Pick(s, I) :
              Ascending(I)[k] \in I /\ Pick(s, I)[k] = s[Ascending(I)[k]]
         /\ \A j, k \in DOMAIN Pick(s, I) : j # k => Ascending(I)[j] # Ascending(I)[k]
         /\ \A i \in I : \E k \in DOMAIN Pick(s, I) : Ascending(I)[k] = i
<1> DEFINE at == Ascending(I)
           n == Cardinality(I)
           p == Pick(s, I)
<1>1. /\ n \in Int /\ n >= 0 /\ at \in [1..n -> I]
      /\ \A i \in I : \E k \in 1..n : at[k] = i
      /\ \A j, k \in 1..n : j < k => at[j] < at[k]
      /\ p \in Seq(X) /\ Len(p) = n /\ DOMAIN p = 1..n
      /\ \A k \in 1..n : p[k] = s[at[k]]
  BY PickIsSubsequence
<1>2. \A i \in I : i \in Int
  OBVIOUS
<1> HIDE DEF n, at, p
<1>3. \A k \in 1..n : at[k] \in Int
  BY <1>1, <1>2
<1>4. \A j, k \in 1..n : j # k => at[j] # at[k]
  BY <1>1, <1>3
<1>5. /\ DOMAIN p = 1..Len(p) /\ Len(p) \in Nat
      /\ \A k \in DOMAIN p : at[k] \in I /\ p[k] = s[at[k]]
      /\ \A i \in I : \E k \in DOMAIN p : at[k] = i
  <2>1. \A k \in 1..n : at[k] \in I
    BY <1>1
  <2>2. DOMAIN p = 1..Len(p) /\ Len(p) \in Nat /\ 1..Len(p) = 1..n
    BY <1>1
  <2>3. /\ \A k \in 1..n : p[k] = s[at[k]]
        /\ \A i \in I : \E k \in 1..n : at[k] = i
    BY <1>1
  <2> HIDE DEF p
  <2> QED BY <2>1, <2>2, <2>3
<1>6. \A j, k \in DOMAIN p : j # k => at[j] # at[k]
  BY <1>1, <1>4
<1> QED BY <1>1, <1>5, <1>6 DEF at, p

\* A comprehension keeps exactly the elements of A, in order and as often as
\* they occur.
LEMMA OnlyKeeps ==
  ASSUME NEW X, NEW s \in Seq(X), NEW A
  PROVE  /\ Only(s, A) \in Seq(X)
         /\ Len(Only(s, A)) =< Len(s)
         /\ ToSet(Only(s, A)) = ToSet(s) \cap A
         /\ IsInjective(s) => IsInjective(Only(s, A))
         /\ ToSet(s) \subseteq A => Only(s, A) = s
<1> DEFINE I == {i \in DOMAIN s : s[i] \in A}
           at == Ascending(I)
           n == Cardinality(I)
<1>1. /\ n \in 0..Len(s)
      /\ at \in [1..n -> I]
      /\ \A i \in I : \E k \in 1..n : at[k] = i
      /\ \A j, k \in 1..n : j < k => at[j] < at[k]
      /\ Pick(s, I) \in Seq(X)
      /\ Len(Pick(s, I)) = n
      /\ DOMAIN Pick(s, I) = 1..n
      /\ \A k \in 1..n : Pick(s, I)[k] = s[at[k]]
  <2>1. I \in SUBSET DOMAIN s
    OBVIOUS
  <2> HIDE DEF I
  <2> QED BY <2>1, PickIsSubsequence
<1>2. Only(s, A) = Pick(s, I)
  BY DEF Only
<1>3. \A i \in I : i \in DOMAIN s /\ s[i] \in A
  OBVIOUS
<1>4. \A i \in DOMAIN s : s[i] \in A => i \in I
  OBVIOUS
<1>5. ASSUME ToSet(s) \subseteq A
      PROVE  Only(s, A) = s
  <2>1. I = 1..Len(s) /\ Len(s) \in Nat
    BY <1>5 DEF ToSet
  <2>2. n = Len(s)
    BY <2>1, Interval
  <2>3. at = [k \in 1..Len(s) |-> k]
    BY <2>1, AscendingInterval
  <2>4. \A k \in 1..Len(s) : Pick(s, I)[k] = s[k]
    BY <1>1, <2>2, <2>3
  <2> QED BY <1>1, <1>2, <2>2, <2>4
<1> HIDE DEF I, at, n
<1>6. ToSet(Only(s, A)) = ToSet(s) \cap A
  BY <1>1, <1>2, <1>3, <1>4 DEF ToSet
<1>7. ASSUME IsInjective(s)
      PROVE  IsInjective(Only(s, A))
  <2> SUFFICES ASSUME NEW j \in 1..n, NEW k \in 1..n, Only(s, A)[j] = Only(s, A)[k]
               PROVE  j = k
    BY <1>1, <1>2 DEF IsInjective
  <2>1. at[j] = at[k]
    BY <1>1, <1>2, <1>3, <1>7 DEF IsInjective
  <2>2. at[j] \in Int /\ at[k] \in Int
    BY <1>1, <1>3
  <2> QED BY <1>1, <2>1, <2>2
<1> QED BY <1>1, <1>2, <1>5, <1>6, <1>7

\* Sequences without repetition of the same elements are equally long.
LEMMA SameElementsSameLength ==
  ASSUME NEW X, NEW s \in Seq(X), NEW t \in Seq(X),
         IsInjective(s), IsInjective(t), ToSet(s) = ToSet(t)
  PROVE  Len(s) = Len(t)
<1>1. ASSUME NEW q \in Seq(X), IsInjective(q)
      PROVE  Cardinality(ToSet(q)) = Len(q)
  <2>1. q \in [1..Len(q) -> ToSet(q)] /\ Len(q) \in Nat
    BY DEF ToSet
  <2>2. q \in Bijection(1..Len(q), ToSet(q))
    BY <1>1, <2>1 DEF Bijection, Injection, Surjection, ToSet, IsInjective
  <2> QED BY <2>1, <2>2, FS_CountingElements DEF ExistsBijection
<1> QED BY <1>1

\* A finite set of numbers has a least and a greatest one.
LEMMA Extremes ==
  ASSUME NEW I \in SUBSET Int, IsFiniteSet(I), I # {}
  PROVE  (\E p \in I : \A q \in I : p =< q) /\ (\E p \in I : \A q \in I : p >= q)
<1> DEFINE n == Cardinality(I)
           at == Ascending(I)
<1>1. /\ n \in Nat
      /\ at \in [1..n -> I]
      /\ \A x \in I : \E k \in 1..n : at[k] = x
      /\ \A j, k \in 1..n : j < k => at[j] < at[k]
  BY AscendingIsSorted
<1> HIDE DEF n, at
<1>2. 1 \in 1..n /\ n \in 1..n
  <2>1. PICK x \in I : TRUE
    OBVIOUS
  <2>2. PICK k \in 1..n : at[k] = x
    BY <1>1, <2>1
  <2> QED BY <1>1, <2>2
<1>3. \A k \in 1..n : at[k] \in I /\ at[k] \in Int
  BY <1>1
<1>4. ASSUME NEW j \in 1..n, NEW k \in 1..n, j =< k
      PROVE  at[j] =< at[k]
  <2>1. at[j] \in Int /\ at[k] \in Int
    BY <1>3
  <2>2. j = k \/ j < k
    BY <1>1, <1>4
  <2> QED BY <1>1, <2>1, <2>2
<1>5. \A q \in I : at[1] =< q /\ at[n] >= q
  <2> SUFFICES ASSUME NEW q \in I
               PROVE  at[1] =< q /\ at[n] >= q
    OBVIOUS
  <2>1. PICK k \in 1..n : at[k] = q
    BY <1>1
  <2>2. 1 =< k /\ k =< n
    BY <1>1
  <2>3. at[1] =< at[k] /\ at[k] =< at[n]
    BY <1>2, <1>4, <2>2
  <2> QED BY <1>2, <1>3, <2>1, <2>3
<1> QED BY <1>2, <1>3, <1>5

\* The first occurrences: every element, once.
LEMMA DistinctKeeps ==
  ASSUME NEW X, NEW s \in Seq(X)
  PROVE  /\ Distinct(s) \in Seq(X)
         /\ IsInjective(Distinct(s))
         /\ ToSet(Distinct(s)) = ToSet(s)
<1> DEFINE I == {i \in DOMAIN s : \A j \in DOMAIN s : s[j] = s[i] => i =< j}
           at == Ascending(I)
           n == Cardinality(I)
<1>0. DOMAIN s = 1..Len(s) /\ Len(s) \in Nat
  OBVIOUS
<1>1. /\ n \in 0..Len(s)
      /\ at \in [1..n -> I]
      /\ \A i \in I : \E k \in 1..n : at[k] = i
      /\ \A j, k \in 1..n : j < k => at[j] < at[k]
      /\ Pick(s, I) \in Seq(X)
      /\ Len(Pick(s, I)) = n
      /\ DOMAIN Pick(s, I) = 1..n
      /\ \A k \in 1..n : Pick(s, I)[k] = s[at[k]]
  <2>1. I \in SUBSET DOMAIN s
    OBVIOUS
  <2> HIDE DEF I
  <2> QED BY <2>1, PickIsSubsequence
<1>2. Distinct(s) = Pick(s, I)
  BY DEF Distinct
<1>3. \A i, j \in I : s[i] = s[j] => i = j
  BY <1>0
<1>4. ASSUME NEW i \in DOMAIN s
      PROVE  \E j \in I : s[j] = s[i]
  <2> DEFINE same == {j \in 1..Len(s) : s[j] = s[i]}
  <2>1. same \in SUBSET Int /\ IsFiniteSet(same) /\ i \in same
    BY <1>0, Interval, FS_Subset
  <2>2. PICK j \in same : \A k \in same : j =< k
    BY <2>1, Extremes
  <2>3. j \in 1..Len(s) /\ s[j] = s[i]
    OBVIOUS
  <2>4. \A k \in 1..Len(s) : s[k] = s[j] => j =< k
    BY <2>2, <2>3
  <2> QED BY <1>0, <2>3, <2>4
<1>5. \A i \in I : i \in DOMAIN s
  OBVIOUS
<1> HIDE DEF I, at, n
<1>6. ToSet(Distinct(s)) = ToSet(s)
  <2>1. \A k \in 1..n : s[at[k]] \in ToSet(s)
    BY <1>1, <1>5 DEF ToSet
  <2>2. ASSUME NEW x \in ToSet(s) PROVE \E k \in 1..n : x = s[at[k]]
    <3>1. PICK i \in DOMAIN s : x = s[i]
      BY DEF ToSet
    <3>2. PICK j \in I : s[j] = x
      BY <1>4, <3>1
    <3> QED BY <1>1, <3>2
  <2>3. \A x \in ToSet(Distinct(s)) : \E k \in 1..n : x = s[at[k]]
    BY <1>1, <1>2 DEF ToSet
  <2>4. \A k \in 1..n : s[at[k]] \in ToSet(Distinct(s))
    BY <1>1, <1>2 DEF ToSet
  <2>5. ASSUME NEW x \in ToSet(s) PROVE x \in ToSet(Distinct(s))
    BY <2>2, <2>4
  <2>6. ASSUME NEW x \in ToSet(Distinct(s)) PROVE x \in ToSet(s)
    BY <2>1, <2>3
  <2> QED BY <2>5, <2>6
<1>7. IsInjective(Distinct(s))
  <2> SUFFICES ASSUME NEW j \in 1..n, NEW k \in 1..n, Distinct(s)[j] = Distinct(s)[k]
               PROVE  j = k
    BY <1>1, <1>2 DEF IsInjective
  <2>1. at[j] = at[k]
    BY <1>1, <1>2, <1>3
  <2>2. at[j] \in Int /\ at[k] \in Int
    BY <1>0, <1>1, <1>5
  <2> QED BY <1>1, <2>1, <2>2
<1> QED BY <1>1, <1>2, <1>6, <1>7

-----------------------------------------------------------------------------
(* StableSort and FirstMin *)

\* Sorting permutes: the same elements, as often, and the keys in order.
LEMMA StableSortSorts ==
  ASSUME NEW X, NEW s \in Seq(X), NEW key, \A i \in DOMAIN s : key[s[i]] \in Int
  PROVE  /\ StableSort(s, key) \in Seq(X)
         /\ Len(StableSort(s, key)) = Len(s)
         /\ ToSet(StableSort(s, key)) = ToSet(s)
         /\ IsInjective(s) => IsInjective(StableSort(s, key))
         /\ \A j, k \in DOMAIN s : j =< k =>
              key[StableSort(s, key)[j]] =< key[StableSort(s, key)[k]]
<1> DEFINE n == Len(s)
           before == EarlierBy(s, key)
           at == Ordered(1..n, before)
<1>1. n \in Nat /\ DOMAIN s = 1..n /\ IsFiniteSet(1..n) /\ Cardinality(1..n) = n
  BY Interval
<1>2. \A i, j \in 1..n : <<i, j>> \in before <=>
        key[s[i]] < key[s[j]] \/ (key[s[i]] = key[s[j]] /\ i < j)
  BY <1>1 DEF EarlierBy
<1>3. \A i \in 1..n : key[s[i]] \in Int
  BY <1>1
<1> HIDE DEF n, before
<1>4. StrictTotal(1..n, before)
  <2>1. \A x \in 1..n : <<x, x>> \notin before
    BY <1>1, <1>2, <1>3
  <2>2. \A x, y \in 1..n : x # y => <<x, y>> \in before \/ <<y, x>> \in before
    BY <1>1, <1>2, <1>3
  <2>3. ASSUME NEW x \in 1..n, NEW y \in 1..n, NEW z \in 1..n,
               <<x, y>> \in before, <<y, z>> \in before
        PROVE  <<x, z>> \in before
    <3>1. key[s[x]] \in Int /\ key[s[y]] \in Int /\ key[s[z]] \in Int
      BY <1>3
    <3>2. key[s[x]] < key[s[z]] \/ (key[s[x]] = key[s[z]] /\ x < z)
      BY <1>1, <1>2, <2>3, <3>1
    <3> QED BY <1>2, <3>2
  <2> QED BY <2>1, <2>2, <2>3 DEF StrictTotal
<1>5. /\ at \in [1..n -> 1..n]
      /\ \A x \in 1..n : \E k \in 1..n : at[k] = x
      /\ \A j, k \in 1..n : j < k => <<at[j], at[k]>> \in before
  <2>1. /\ at \in [1..Cardinality(1..n) -> 1..n]
        /\ \A x \in 1..n : \E k \in 1..Cardinality(1..n) : at[k] = x
        /\ \A j, k \in 1..Cardinality(1..n) : j < k => <<at[j], at[k]>> \in before
    BY <1>1, <1>4, OrderedIsSorted
  <2> QED BY <1>1, <2>1
<1> HIDE DEF at
<1>6. StableSort(s, key) = [k \in 1..n |-> s[at[k]]]
  BY <1>1, <1>5 DEF StableSort, before, at
<1>7. \A k \in 1..n : s[at[k]] \in X
  BY <1>1, <1>5
<1>8. StableSort(s, key) \in [1..n -> X]
  BY <1>6, <1>7
<1>9. StableSort(s, key) \in Seq(X) /\ Len(StableSort(s, key)) = n
  BY <1>1, <1>8
<1>10. \A j, k \in 1..n : at[j] = at[k] => j = k
  <2> SUFFICES ASSUME NEW j \in 1..n, NEW k \in 1..n, at[j] = at[k], j < k
               PROVE  FALSE
    BY <1>1
  <2> QED BY <1>4, <1>5 DEF StrictTotal
<1>11. ToSet(StableSort(s, key)) = ToSet(s)
  <2>1. \A x \in ToSet(s) : \E k \in 1..n : x = s[at[k]]
    BY <1>1, <1>5 DEF ToSet
  <2>2. \A k \in 1..n : s[at[k]] \in ToSet(s)
    BY <1>1, <1>5 DEF ToSet
  <2>3. \A x \in ToSet(StableSort(s, key)) : \E k \in 1..n : x = s[at[k]]
    BY <1>6 DEF ToSet
  <2>4. \A k \in 1..n : s[at[k]] \in ToSet(StableSort(s, key))
    BY <1>6 DEF ToSet
  <2>5. ASSUME NEW x \in ToSet(s) PROVE x \in ToSet(StableSort(s, key))
    BY <2>1, <2>4
  <2>6. ASSUME NEW x \in ToSet(StableSort(s, key)) PROVE x \in ToSet(s)
    BY <2>2, <2>3
  <2> QED BY <2>5, <2>6
<1>12. IsInjective(s) => IsInjective(StableSort(s, key))
  BY <1>1, <1>5, <1>6, <1>10 DEF IsInjective
<1>13. ASSUME NEW j \in 1..n, NEW k \in 1..n, j =< k
       PROVE  key[StableSort(s, key)[j]] =< key[StableSort(s, key)[k]]
  <2>1. PICK a \in 1..n : a = at[j]
    BY <1>5
  <2>2. PICK b \in 1..n : b = at[k]
    BY <1>5
  <2>3. key[s[a]] \in Int /\ key[s[b]] \in Int
    BY <1>3
  <2>4. a = b \/ <<a, b>> \in before
    BY <1>1, <1>5, <1>13, <2>1, <2>2
  <2>5. key[s[a]] =< key[s[b]]
    BY <1>2, <2>3, <2>4
  <2> QED BY <1>6, <2>1, <2>2, <2>5
<1> QED BY <1>1, <1>9, <1>11, <1>12, <1>13 DEF n

\* min(s, key) is an element of s that none precedes.
LEMMA FirstMinIsLeast ==
  ASSUME NEW X, NEW s \in Seq(X), s # <<>>, NEW key, \A i \in DOMAIN s : key[s[i]] \in Int
  PROVE  /\ FirstMin(s, key) \in ToSet(s)
         /\ \A x \in ToSet(s) : key[FirstMin(s, key)] =< key[x]
<1> DEFINE t == StableSort(s, key)
<1>1. Len(s) \in Nat \ {0} /\ DOMAIN s = 1..Len(s)
  OBVIOUS
<1>2. /\ t \in Seq(X) /\ Len(t) = Len(s) /\ ToSet(t) = ToSet(s)
      /\ \A j, k \in DOMAIN s : j =< k => key[t[j]] =< key[t[k]]
  BY StableSortSorts
<1> HIDE DEF t
<1>3. FirstMin(s, key) = t[1] /\ 1 \in DOMAIN s /\ DOMAIN t = DOMAIN s
  BY <1>1, <1>2 DEF FirstMin, t
<1>4. t[1] \in ToSet(t)
  BY <1>3 DEF ToSet
<1>5. ASSUME NEW x \in ToSet(s)
      PROVE  key[t[1]] =< key[x]
  <2>1. PICK k \in DOMAIN s : x = t[k]
    BY <1>2, <1>3 DEF ToSet
  <2> QED BY <1>1, <1>2, <1>3, <2>1
<1> QED BY <1>2, <1>3, <1>4, <1>5

-----------------------------------------------------------------------------
(* Concat *)

\* Two lists without an element in common.
Apart(s, t) == \A x \in ToSet(s) : x \notin ToSet(t)

\* A finite list of lists has finitely many places.
LEMMA PlacesAreFinite ==
  ASSUME NEW X, NEW ss \in Seq(Seq(X))
  PROVE  IsFiniteSet(Places(ss))
<1> DEFINE n == Len(ss)
           f == [i \in 1..n |-> {i} \X DOMAIN ss[i]]
           T == {{i} \X DOMAIN ss[i] : i \in DOMAIN ss}
<1>1. n \in Nat /\ DOMAIN ss = 1..n /\ IsFiniteSet(1..n)
  BY Interval
<1>2. \A i \in 1..n : IsFiniteSet({i} \X DOMAIN ss[i])
  <2> SUFFICES ASSUME NEW i \in 1..n
               PROVE  IsFiniteSet({i} \X DOMAIN ss[i])
    OBVIOUS
  <2>1. ss[i] \in Seq(X)
    BY <1>1
  <2>2. DOMAIN ss[i] = 1..Len(ss[i]) /\ Len(ss[i]) \in Nat
    BY <2>1
  <2>3. IsFiniteSet(DOMAIN ss[i])
    BY <2>2, Interval
  <2>4. IsFiniteSet({i})
    BY FS_Singleton
  <2> QED BY <2>3, <2>4, FS_Product
<1>3. f \in Surjection(1..n, T)
  BY <1>1 DEF Surjection
<1>4. IsFiniteSet(T)
  BY <1>1, <1>3, FS_Surjection
<1>5. \A t \in T : IsFiniteSet(t)
  BY <1>1, <1>2
<1> QED BY <1>4, <1>5, FS_UNION DEF Places

\* Joining lists keeps every element of each, and nothing is twice in the result
\* that was in one place of one list.
LEMMA ConcatJoins ==
  ASSUME NEW X, NEW ss \in Seq(Seq(X))
  PROVE  /\ Concat(ss) \in Seq(X)
         /\ \A i \in DOMAIN ss : \A x \in ToSet(ss[i]) : x \in ToSet(Concat(ss))
         /\ \A x \in ToSet(Concat(ss)) : \E i \in DOMAIN ss : x \in ToSet(ss[i])
         /\ /\ \A i \in DOMAIN ss : IsInjective(ss[i])
            /\ \A i, j \in DOMAIN ss : i # j => Apart(ss[i], ss[j])
            => IsInjective(Concat(ss))
<1> DEFINE P == Places(ss)
           before == {p \in P \X P : \/ p[1][1] < p[2][1]
                                     \/ p[1][1] = p[2][1] /\ p[1][2] < p[2][2]}
           at == Ordered(P, before)
           n == Cardinality(P)
<1>1. IsFiniteSet(P)
  BY PlacesAreFinite
<1>2. \A p \in P : /\ p = <<p[1], p[2]>> /\ p[1] \in Int /\ p[2] \in Int
                   /\ p[1] \in DOMAIN ss /\ p[2] \in DOMAIN ss[p[1]]
  <2> SUFFICES ASSUME NEW p \in P
               PROVE  /\ p = <<p[1], p[2]>> /\ p[1] \in Int /\ p[2] \in Int
                      /\ p[1] \in DOMAIN ss /\ p[2] \in DOMAIN ss[p[1]]
    OBVIOUS
  <2>1. PICK i \in DOMAIN ss : p \in {i} \X DOMAIN ss[i]
    BY DEF Places
  <2>2. ss[i] \in Seq(X) /\ i \in Int
    BY <2>1
  <2>3. \A k \in DOMAIN ss[i] : k \in Int
    BY <2>2
  <2> QED BY <2>1, <2>2, <2>3
<1>3. \A i \in DOMAIN ss : \A k \in DOMAIN ss[i] : <<i, k>> \in P
  BY DEF Places
<1>4. \A p, q \in P : <<p, q>> \in before <=> p[1] < q[1] \/ (p[1] = q[1] /\ p[2] < q[2])
  OBVIOUS
<1> HIDE DEF P, before
<1>5. StrictTotal(P, before)
  <2>1. \A p \in P : <<p, p>> \notin before
    BY <1>2, <1>4
  <2>2. ASSUME NEW p \in P, NEW q \in P, p # q
        PROVE  <<p, q>> \in before \/ <<q, p>> \in before
    <3>1. p[1] # q[1] \/ p[2] # q[2]
      BY <1>2, <2>2
    <3>2. p[1] \in Int /\ p[2] \in Int /\ q[1] \in Int /\ q[2] \in Int
      BY <1>2
    <3>3. \/ p[1] < q[1] \/ (p[1] = q[1] /\ p[2] < q[2])
          \/ q[1] < p[1] \/ (q[1] = p[1] /\ q[2] < p[2])
      BY <3>1, <3>2
    <3> QED BY <1>4, <3>3
  <2>3. ASSUME NEW p \in P, NEW q \in P, NEW t \in P, <<p, q>> \in before, <<q, t>> \in before
        PROVE  <<p, t>> \in before
    <3>1. /\ p[1] \in Int /\ p[2] \in Int /\ q[1] \in Int /\ q[2] \in Int
          /\ t[1] \in Int /\ t[2] \in Int
      BY <1>2
    <3>2. /\ p[1] < q[1] \/ (p[1] = q[1] /\ p[2] < q[2])
          /\ q[1] < t[1] \/ (q[1] = t[1] /\ q[2] < t[2])
      BY <1>4, <2>3
    <3>3. p[1] < t[1] \/ (p[1] = t[1] /\ p[2] < t[2])
      BY <3>1, <3>2
    <3> QED BY <1>4, <3>3
  <2> QED BY <2>1, <2>2, <2>3 DEF StrictTotal
<1>6. /\ n \in Nat
      /\ at \in [1..n -> P]
      /\ \A p \in P : \E k \in 1..n : at[k] = p
      /\ \A j, k \in 1..n : j < k => <<at[j], at[k]>> \in before
  BY <1>1, <1>5, OrderedIsSorted
<1>7. Concat(ss) = [k \in 1..n |-> ss[at[k][1]][at[k][2]]]
  BY <1>6 DEF Concat, P, before
<1> HIDE DEF at, n
<1>8. ASSUME NEW k \in 1..n
      PROVE  /\ at[k] \in P /\ at[k][1] \in DOMAIN ss /\ at[k][2] \in DOMAIN ss[at[k][1]]
             /\ ss[at[k][1]][at[k][2]] \in X
  <2>1. at[k] \in P /\ at[k][1] \in DOMAIN ss /\ at[k][2] \in DOMAIN ss[at[k][1]]
    BY <1>2, <1>6
  <2>2. ss[at[k][1]] \in Seq(X)
    BY <2>1
  <2> QED BY <2>1, <2>2
<1>9. Concat(ss) \in Seq(X)
  <2>1. Concat(ss) \in [1..n -> X]
    BY <1>7, <1>8
  <2> QED BY <1>6, <2>1
<1>10. ASSUME NEW i \in DOMAIN ss, NEW x \in ToSet(ss[i])
       PROVE  x \in ToSet(Concat(ss))
  <2>1. PICK m \in DOMAIN ss[i] : ss[i][m] = x
    BY DEF ToSet
  <2>2. PICK k \in 1..n : at[k] = <<i, m>>
    BY <1>3, <1>6
  <2>3. Concat(ss)[k] = x
    BY <1>7, <2>1, <2>2
  <2> QED BY <1>7, <2>3 DEF ToSet
<1>11. ASSUME NEW x \in ToSet(Concat(ss))
       PROVE  \E i \in DOMAIN ss : x \in ToSet(ss[i])
  <2>1. PICK k \in 1..n : x = ss[at[k][1]][at[k][2]]
    BY <1>7 DEF ToSet
  <2> QED BY <1>8, <2>1 DEF ToSet
<1>12. ASSUME \A i \in DOMAIN ss : IsInjective(ss[i]),
              \A i, j \in DOMAIN ss : i # j => Apart(ss[i], ss[j])
       PROVE  IsInjective(Concat(ss))
  <2> SUFFICES ASSUME NEW j \in 1..n, NEW k \in 1..n, Concat(ss)[j] = Concat(ss)[k]
               PROVE  j = k
    BY <1>7 DEF IsInjective
  <2>1. at[j][1] = at[k][1]
    <3>1. Concat(ss)[j] \in ToSet(ss[at[j][1]])
      BY <1>7, <1>8 DEF ToSet
    <3>2. Concat(ss)[k] \in ToSet(ss[at[k][1]])
      BY <1>7, <1>8 DEF ToSet
    <3> QED BY <1>8, <1>12, <3>1, <3>2 DEF Apart
  <2>2. at[j][2] = at[k][2]
    BY <1>7, <1>8, <1>12, <2>1 DEF IsInjective
  <2>3. at[j] = at[k]
    BY <1>2, <1>8, <2>1, <2>2
  <2>4. at[j] \in P /\ <<at[j], at[j]>> \notin before
    BY <1>5, <1>8 DEF StrictTotal
  <2> QED BY <1>6, <2>3, <2>4
<1> QED BY <1>9, <1>10, <1>11, <1>12

\* Where the elements of two lists are in the list of both.
LEMMA JoinPlaces ==
  ASSUME NEW X, NEW s \in Seq(X), NEW t \in Seq(X)
  PROVE  /\ s \o t \in Seq(X) /\ Len(s \o t) = Len(s) + Len(t)
         /\ \A i \in 1..Len(s) : (s \o t)[i] = s[i]
         /\ \A i \in 1..Len(t) : (s \o t)[Len(s) + i] = t[i]
OBVIOUS

\* One list after another.
LEMMA JoinOfTwo ==
  ASSUME NEW X, NEW s \in Seq(X), NEW t \in Seq(X)
  PROVE  /\ s \o t \in Seq(X)
         /\ \A x : x \in ToSet(s \o t) <=> x \in ToSet(s) \/ x \in ToSet(t)
         /\ /\ IsInjective(s) /\ IsInjective(t) /\ Apart(s, t)
            => IsInjective(s \o t)
<1> DEFINE u == s \o t
           n == Len(s)
           m == Len(t)
<1>1. /\ u \in Seq(X) /\ n \in Nat /\ m \in Nat /\ DOMAIN u = 1..(n + m)
      /\ DOMAIN s = 1..n /\ DOMAIN t = 1..m
      /\ \A i \in 1..n : u[i] = s[i]
      /\ \A i \in 1..m : u[n + i] = t[i] /\ n + i \in 1..(n + m)
  OBVIOUS
<1>2. ASSUME NEW i \in 1..(n + m)
      PROVE  \/ i \in 1..n /\ u[i] = s[i]
             \/ i - n \in 1..m /\ u[i] = t[i - n] /\ i = n + (i - n)
  <2>1. CASE i =< n
    BY <1>1, <2>1
  <2>2. CASE i > n
    <3>1. i - n \in 1..m /\ n + (i - n) = i
      BY <1>1, <2>2
    <3> HIDE DEF u, n, m
    <3>2. u[n + (i - n)] = t[i - n]
      BY <1>1, <3>1
    <3> QED BY <3>1, <3>2
  <2> QED BY <1>1, <2>1, <2>2
<1> HIDE DEF u, n, m
<1>3. ASSUME NEW x, x \in ToSet(s) \/ x \in ToSet(t)
      PROVE  x \in ToSet(u)
  <2>1. CASE x \in ToSet(s)
    <3>1. PICK i \in 1..n : s[i] = x
      BY <1>1, <2>1 DEF ToSet
    <3>2. i \in 1..(n + m) /\ u[i] = x
      BY <1>1, <3>1
    <3> QED BY <1>1, <3>2 DEF ToSet
  <2>2. CASE x \in ToSet(t)
    <3>1. PICK i \in 1..m : t[i] = x
      BY <1>1, <2>2 DEF ToSet
    <3> QED BY <1>1, <3>1 DEF ToSet
  <2> QED BY <1>3, <2>1, <2>2
<1>4. ASSUME NEW x \in ToSet(u)
      PROVE  x \in ToSet(s) \/ x \in ToSet(t)
  <2>1. PICK i \in 1..(n + m) : u[i] = x
    BY <1>1 DEF ToSet
  <2> QED BY <1>1, <1>2, <2>1 DEF ToSet
<1>5. ASSUME IsInjective(s), IsInjective(t), Apart(s, t)
      PROVE  IsInjective(u)
  <2> SUFFICES ASSUME NEW i \in 1..(n + m), NEW j \in 1..(n + m), u[i] = u[j]
               PROVE  i = j
    BY <1>1 DEF IsInjective
  <2>1. /\ \A k \in 1..n : \A l \in 1..m : s[k] # t[l]
        /\ \A k, l \in 1..n : s[k] = s[l] => k = l
        /\ \A k, l \in 1..m : t[k] = t[l] => k = l
    <3>1. \A k \in 1..n : \A l \in 1..m : s[k] \in ToSet(s) /\ t[l] \in ToSet(t)
      BY <1>1 DEF ToSet
    <3>2. \A k, l \in 1..n : s[k] = s[l] => k = l
      BY <1>1, <1>5 DEF IsInjective
    <3>3. \A k, l \in 1..m : t[k] = t[l] => k = l
      BY <1>1, <1>5 DEF IsInjective
    <3> QED BY <1>5, <3>1, <3>2, <3>3 DEF Apart
  <2>2. CASE i \in 1..n /\ u[i] = s[i]
    <3>1. j \in 1..n /\ u[j] = s[j]
      BY <1>2, <2>1, <2>2
    <3> QED BY <2>1, <2>2, <3>1
  <2>3. CASE i - n \in 1..m /\ u[i] = t[i - n] /\ i = n + (i - n)
    <3>1. j - n \in 1..m /\ u[j] = t[j - n] /\ j = n + (j - n)
      <4>1. ASSUME j \in 1..n, u[j] = s[j] PROVE FALSE
        <5>1. s[j] = t[i - n]
          BY <2>3, <4>1
        <5> QED BY <2>1, <2>3, <4>1, <5>1
      <4> QED BY <1>2, <4>1
    <3>2. i - n = j - n
      BY <2>1, <2>3, <3>1
    <3> QED BY <2>3, <3>1, <3>2
  <2> QED BY <1>2, <2>2, <2>3
<1> QED BY <1>1, <1>3, <1>4, <1>5 DEF u

\* What is left of a list after its head.
LEMMA TailPlaces ==
  ASSUME NEW X, NEW s \in Seq(X), s # <<>>
  PROVE  /\ Tail(s) \in Seq(X) /\ Len(Tail(s)) = Len(s) - 1
         /\ \A i \in DOMAIN Tail(s) : i + 1 \in DOMAIN s /\ Tail(s)[i] = s[i + 1]
         /\ \A x \in ToSet(s) : x = Head(s) \/ x \in ToSet(Tail(s))
         /\ \A x \in ToSet(Tail(s)) : x \in ToSet(s)
         /\ IsInjective(s) => IsInjective(Tail(s)) /\ Head(s) \notin ToSet(Tail(s))
<1> DEFINE t == Tail(s)
           n == Len(s)
<1>1. /\ n \in Nat \ {0} /\ DOMAIN s = 1..n /\ Head(s) = s[1]
      /\ t \in Seq(X) /\ Len(t) = n - 1 /\ DOMAIN t = 1..(n - 1)
      /\ \A i \in 1..(n - 1) : t[i] = s[i + 1]
  OBVIOUS
<1> HIDE DEF t, n
<1>2. \A i \in 1..(n - 1) : i + 1 \in 1..n
  BY <1>1
<1>3. ASSUME NEW x \in ToSet(s), x # Head(s)
      PROVE  x \in ToSet(t)
  <2>1. PICK i \in 1..n : s[i] = x
    BY <1>1 DEF ToSet
  <2>2. i # 1
    BY <1>1, <1>3, <2>1
  <2>3. i - 1 \in 1..(n - 1) /\ (i - 1) + 1 = i
    BY <1>1, <2>2
  <2>4. t[i - 1] = x
    BY <1>1, <2>1, <2>3
  <2> QED BY <1>1, <2>3, <2>4 DEF ToSet
<1>4. ASSUME NEW x \in ToSet(t)
      PROVE  x \in ToSet(s)
  <2>1. PICK i \in 1..(n - 1) : t[i] = x
    BY <1>1 DEF ToSet
  <2>2. i + 1 \in DOMAIN s /\ s[i + 1] = x
    BY <1>1, <1>2, <2>1
  <2> QED BY <2>2 DEF ToSet
<1>5. ASSUME IsInjective(s)
      PROVE  IsInjective(t) /\ Head(s) \notin ToSet(t)
  <2>1. \A i, j \in 1..n : s[i] = s[j] => i = j
    BY <1>1, <1>5 DEF IsInjective
  <2>2. \A i, j \in 1..(n - 1) : t[i] = t[j] => i = j
    <3> SUFFICES ASSUME NEW i \in 1..(n - 1), NEW j \in 1..(n - 1), t[i] = t[j]
                 PROVE  i = j
      OBVIOUS
    <3>1. i + 1 = j + 1
      BY <1>1, <1>2, <2>1
    <3> QED BY <1>1, <3>1
  <2>3. \A i \in 1..(n - 1) : t[i] # Head(s)
    <3> SUFFICES ASSUME NEW i \in 1..(n - 1), t[i] = Head(s)
                 PROVE  FALSE
      OBVIOUS
    <3>1. s[i + 1] = s[1] /\ 1 \in 1..n /\ i + 1 \in 1..n
      BY <1>1, <1>2
    <3>2. i + 1 = 1
      BY <2>1, <3>1
    <3> QED BY <1>1, <3>2
  <2> QED BY <1>1, <2>2, <2>3 DEF IsInjective, ToSet
<1>6. \A i \in DOMAIN t : i + 1 \in DOMAIN s /\ t[i] = s[i + 1]
  BY <1>1, <1>2
<1> QED BY <1>1, <1>3, <1>4, <1>5, <1>6 DEF t, n

\* A list with one more element.
LEMMA AppendPlaces ==
  ASSUME NEW X, NEW s \in Seq(X), NEW e \in X
  PROVE  /\ Append(s, e) \in Seq(X) /\ Len(Append(s, e)) = Len(s) + 1
         /\ \A i \in DOMAIN s : i \in DOMAIN Append(s, e) /\ Append(s, e)[i] = s[i]
         /\ Append(s, e)[Len(s) + 1] = e
         /\ \A x : x \in ToSet(Append(s, e)) <=> x \in ToSet(s) \/ x = e
         /\ IsInjective(s) /\ e \notin ToSet(s) => IsInjective(Append(s, e))
<1> DEFINE t == Append(s, e)
           n == Len(s)
<1>1. /\ n \in Nat /\ DOMAIN s = 1..n
      /\ t \in Seq(X) /\ Len(t) = n + 1 /\ DOMAIN t = 1..(n + 1)
      /\ \A i \in 1..n : t[i] = s[i]
      /\ t[n + 1] = e
  OBVIOUS
<1> HIDE DEF t, n
<1>2. \A i \in 1..(n + 1) : i \in 1..n \/ i = n + 1
  BY <1>1
<1>3. \A i \in 1..n : i \in 1..(n + 1)
  BY <1>1
<1>4. n + 1 \in 1..(n + 1)
  BY <1>1
<1>5. \A x : x \in ToSet(t) <=> x \in ToSet(s) \/ x = e
  <2>1. ASSUME NEW x, x \in ToSet(t) PROVE x \in ToSet(s) \/ x = e
    <3>1. PICK i \in 1..(n + 1) : t[i] = x
      BY <1>1, <2>1 DEF ToSet
    <3> QED BY <1>1, <1>2, <3>1 DEF ToSet
  <2>2. ASSUME NEW x, x \in ToSet(s) PROVE x \in ToSet(t)
    <3>1. PICK i \in 1..n : s[i] = x
      BY <1>1, <2>2 DEF ToSet
    <3>2. i \in DOMAIN t /\ t[i] = x
      BY <1>1, <1>3, <3>1
    <3> QED BY <3>2 DEF ToSet
  <2>3. e \in ToSet(t)
    BY <1>1, <1>4 DEF ToSet
  <2> QED BY <2>1, <2>2, <2>3
<1>6. ASSUME IsInjective(s), e \notin ToSet(s)
      PROVE  IsInjective(t)
  <2>1. \A i, j \in 1..n : s[i] = s[j] => i = j
    BY <1>1, <1>6 DEF IsInjective
  <2>2. \A i \in 1..n : s[i] # e
    BY <1>1, <1>6 DEF ToSet
  <2> SUFFICES ASSUME NEW i \in 1..(n + 1), NEW j \in 1..(n + 1), t[i] = t[j]
               PROVE  i = j
    BY <1>1 DEF IsInjective
  <2>3. i \in 1..n /\ j \in 1..n => i = j
    BY <1>1, <2>1
  <2>4. i = n + 1 /\ j \in 1..n => FALSE
    BY <1>1, <2>2
  <2>5. j = n + 1 /\ i \in 1..n => FALSE
    BY <1>1, <2>2
  <2> QED BY <1>2, <2>3, <2>4, <2>5
<1> QED BY <1>1, <1>3, <1>5, <1>6 DEF t, n
=============================================================================
