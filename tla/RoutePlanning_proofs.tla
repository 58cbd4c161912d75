------------------------ MODULE RoutePlanning_proofs ------------------------
(***************************************************************************)
(* Theorems about module RoutePlanning, for every request.                 *)
(***************************************************************************)
EXTENDS RoutePlanning, Lists_proofs

-----------------------------------------------------------------------------
(* The request *)

\* What list_tasks returns: rows, each once, and which.
LEMMA SelectedRows ==
  ASSUME NEW r, RequestOK(r)
  PROVE  /\ Selected(r) \in Seq(DOMAIN r.taskAt)
         /\ IsInjective(Selected(r))
         /\ \A t \in ToSet(Selected(r)) : Named(r, t) /\ InRange(r, t)
         /\ r.limit = None /\ r.offset = None => \A t \in DOMAIN r.taskAt :
              Named(r, t) /\ InRange(r, t) /\ t \in r.land => t \in ToSet(Selected(r))
<1> DEFINE I == {t \in DOMAIN r.taskAt : Named(r, t) /\ InRange(r, t)}
           sql == Ascending(I)
           skip == IF r.offset = None THEN 0 ELSE r.offset
           end == IF r.limit = None THEN Len(sql) ELSE Smaller(Len(sql), skip + r.limit)
           page == SubSeq(sql, skip + 1, end)
<1>1. DOMAIN r.taskAt = 1..Len(r.taskAt) /\ Len(r.taskAt) \in Nat
  BY DEF RequestOK
<1>2. I \in SUBSET Int /\ I \in SUBSET DOMAIN r.taskAt /\ IsFiniteSet(I)
  BY <1>1, Interval, FS_Subset
<1>3. \A t \in I : Named(r, t) /\ InRange(r, t)
  OBVIOUS
<1>4. \A t \in DOMAIN r.taskAt : Named(r, t) /\ InRange(r, t) => t \in I
  OBVIOUS
<1> HIDE DEF I
<1>5. /\ Cardinality(I) \in Nat
      /\ sql \in [1..Cardinality(I) -> I]
      /\ \A x \in I : \E k \in 1..Cardinality(I) : sql[k] = x
      /\ \A j, k \in 1..Cardinality(I) : j < k => sql[j] < sql[k]
  BY <1>2, AscendingIsSorted
<1> HIDE DEF sql
<1>6. sql \in Seq(I) /\ Len(sql) = Cardinality(I) /\ DOMAIN sql = 1..Len(sql) /\ ToSet(sql) = I
  BY <1>5 DEF ToSet
<1>7. IsInjective(sql)
  <2> SUFFICES ASSUME NEW j \in 1..Len(sql), NEW k \in 1..Len(sql), sql[j] = sql[k]
               PROVE  j = k
    BY <1>6 DEF IsInjective
  <2>1. sql[j] \in Int
    BY <1>2, <1>5, <1>6
  <2> QED BY <1>5, <1>6, <2>1
<1>8. page \in Seq(I) /\ IsInjective(page) /\ (r.limit = None /\ r.offset = None => page = sql)
  <2>1. skip \in Nat /\ end \in 0..Len(sql)
    BY <1>6 DEF RequestOK, Smaller
  <2>2. r.limit = None /\ r.offset = None => skip = 0 /\ end = Len(sql)
    OBVIOUS
  <2> HIDE DEF skip, end
  <2>3. page \in Seq(I)
    BY <1>6, <2>1
  <2>4. Len(page) = IF skip + 1 =< end THEN end - skip ELSE 0
    BY <1>6, <2>1
  <2>5. \A k \in 1..Len(page) : k + skip \in 1..Len(sql) /\ page[k] = sql[k + skip]
    BY <1>6, <2>1, <2>4
  <2>6. DOMAIN page = 1..Len(page) /\ Len(page) \in Nat
    BY <2>3
  <2>7. skip = 0 /\ end = Len(sql) => page = sql
    <3> SUFFICES ASSUME skip = 0, end = Len(sql) PROVE page = sql
      OBVIOUS
    <3>1. Len(page) = Len(sql)
      BY <1>6, <2>4
    <3>2. \A k \in 1..Len(sql) : page[k] = sql[k]
      BY <2>5, <3>1
    <3> HIDE DEF page
    <3> QED BY <1>6, <2>3, <3>1, <3>2
  <2> HIDE DEF page
  <2>8. IsInjective(page)
    <3> SUFFICES ASSUME NEW j \in 1..Len(page), NEW k \in 1..Len(page), page[j] = page[k]
                 PROVE  j = k
      BY <2>6 DEF IsInjective
    <3>1. j + skip = k + skip
      BY <1>6, <1>7, <2>5 DEF IsInjective
    <3> QED BY <2>1, <3>1
  <2> QED BY <2>2, <2>3, <2>7, <2>8
<1>9. Selected(r) = Only(page, r.land)
  BY DEF Selected, sql, skip, end, page, I
<1> HIDE DEF page
<1>10. /\ Selected(r) \in Seq(I)
       /\ ToSet(Selected(r)) = ToSet(page) \cap r.land
       /\ IsInjective(Selected(r))
  BY <1>8, <1>9, OnlyKeeps
<1>11. ToSet(Selected(r)) \subseteq I
  BY <1>10 DEF ToSet
<1>12. Selected(r) \in Seq(DOMAIN r.taskAt)
  BY <1>2, <1>10
<1> QED BY <1>3, <1>4, <1>6, <1>8, <1>10, <1>11, <1>12

\* Every area that optimize gives to a task is one of those asked for.
LEMMA AreaOfIsAsked ==
  ASSUME NEW r, r.areas \in Seq(Int), r.areas # <<>>, NEW at
  PROVE  AreaOf(r, at) \in ToSet(r.areas) /\ AreaOf(r, at) \in Int
<1> DEFINE I == {i \in DOMAIN AreaConfigs : /\ Contains(r.areas, AreaConfigs[i][1])
                                            /\ Away(AreaConfigs[i][2], at) =< AreaRadius}
           near == Pick(AreaConfigs, I)
<1>1. AreaConfigs \in Seq(Int \X Int)
  BY ScopeAssumption
<1>2. I \in SUBSET DOMAIN AreaConfigs
  OBVIOUS
<1>3. \A i \in I : Contains(r.areas, AreaConfigs[i][1])
  OBVIOUS
<1> HIDE DEF I
<1>4. /\ Ascending(I) \in [1..Cardinality(I) -> I]
      /\ near \in Seq(Int \X Int) /\ DOMAIN near = 1..Cardinality(I)
      /\ \A k \in 1..Cardinality(I) : near[k] = AreaConfigs[Ascending(I)[k]]
  BY <1>1, <1>2, PickIsSubsequence
<1>5. AreaOf(r, at) = IF near # <<>> THEN Head(near)[1] ELSE Head(r.areas)
  BY DEF AreaOf, near, I
<1> HIDE DEF near
<1>6. CASE near # <<>>
  <2>1. 1 \in DOMAIN near /\ Head(near) = near[1]
    BY <1>4, <1>6, HasHead
  <2>2. Contains(r.areas, near[1][1])
    BY <1>3, <1>4, <2>1
  <2> QED BY <1>5, <1>6, <2>1, <2>2 DEF Contains, ToSet
<1>7. CASE near = <<>>
  BY <1>5, <1>7 DEF ToSet
<1> QED BY <1>6, <1>7

\* The areas that optimize adds leave a request in order, and every task has one of
\* the areas asked for.
LEMMA WithAreasKeepsOK ==
  ASSUME NEW r, RequestOK(r)
  PROVE  /\ RequestOK(WithAreas(r))
         /\ \A x \in DOMAIN r \ {"areaIds", "areaMap"} : WithAreas(r)[x] = r[x]
         /\ r.areas # <<>> /\ r.taskAt # <<>> =>
              \A t \in DOMAIN r.taskAt : /\ t \in DOMAIN WithAreas(r).areaMap
                                         /\ WithAreas(r).areaMap[t] \in WithAreas(r).areaIds
<1>1. CASE r.areas = <<>> \/ r.taskAt = <<>>
  BY <1>1 DEF WithAreas
<1>2. CASE r.areas # <<>> /\ r.taskAt # <<>>
  <2>1. WithAreas(r) = [r EXCEPT !.areaIds = ToSet(r.areas), !.areaMap = AreaMap(r)]
    BY <1>2 DEF WithAreas
  <2>2. DOMAIN AreaMap(r) = DOMAIN r.taskAt
    BY DEF AreaMap
  <2>3. \A t \in DOMAIN r.taskAt : AreaMap(r)[t] \in ToSet(r.areas) /\ AreaMap(r)[t] \in Int
    BY <1>2, AreaOfIsAsked DEF AreaMap, RequestOK
  <2> DEFINE w == WithAreas(r)
  <2>4. /\ DOMAIN w = DOMAIN r /\ w.areaIds = ToSet(r.areas) /\ w.areaMap = AreaMap(r)
        /\ \A x \in DOMAIN r \ {"areaIds", "areaMap"} : w[x] = r[x]
    BY <2>1 DEF RequestOK
  <2> HIDE DEF w
  <2>5. /\ w.via = r.via /\ w.range = r.range /\ w.limit = r.limit /\ w.offset = r.offset
        /\ w.areas = r.areas
        /\ w.tasks = r.tasks /\ w.fieldmen = r.fieldmen /\ w.strategy = r.strategy
        /\ w.resolution = r.resolution /\ w.fmAreas = r.fmAreas /\ w.taskAt = r.taskAt
        /\ w.fmAt = r.fmAt /\ w.priority = r.priority /\ w.manual = r.manual
    BY <2>4 DEF RequestOK
  <2>6. RequestOK(w)
    BY <2>2, <2>3, <2>4, <2>5 DEF RequestOK
  <2> QED BY <2>2, <2>3, <2>4, <2>6 DEF w
<1> QED BY <1>1, <1>2

\* Division rounds down, so it keeps order and bounds.
LEMMA DivisionKeepsOrder ==
  ASSUME NEW a \in Int, NEW b \in Int, a =< b, NEW d \in Nat \ {0}
  PROVE  a \div d \in Int /\ a \div d =< b \div d
<1> DEFINE q == a \div d
           p == b \div d
<1>1. q \in Int /\ p \in Int /\ d * q =< a /\ a < d * q + d /\ d * p =< b /\ b < d * p + d
  OBVIOUS
<1> HIDE DEF q, p
<1>2. ASSUME q >= p + 1
      PROVE  FALSE
  <2>1. d * q >= d * (p + 1)
    BY <1>1, <1>2
  <2> QED BY <1>1, <2>1
<1> QED BY <1>1, <1>2 DEF q, p

\* Rounding keeps order too: it adds 1 to one quotient and not to the same quotient
\* of a larger number only if the rest is larger.
LEMMA RoundingKeepsOrder ==
  ASSUME NEW n \in Int, NEW m \in Int, n =< m, NEW d \in Nat \ {0}
  PROVE  Rounded(n, d) \in Int /\ Rounded(n, d) =< Rounded(m, d)
<1> DEFINE q == n \div d
           p == m \div d
<1>1. q \in Int /\ p \in Int /\ q =< p
  BY DivisionKeepsOrder
<1>2. /\ Rounded(n, d) = IF 2 * (n - d * q) > d \/ (2 * (n - d * q) = d /\ q % 2 = 1)
                        THEN q + 1 ELSE q
      /\ Rounded(m, d) = IF 2 * (m - d * p) > d \/ (2 * (m - d * p) = d /\ p % 2 = 1)
                        THEN p + 1 ELSE p
  BY DEF Rounded
<1> HIDE DEF q, p
<1>3. Rounded(n, d) \in {q, q + 1} /\ Rounded(m, d) \in {p, p + 1}
  BY <1>2
<1>4. CASE q < p
  BY <1>1, <1>3, <1>4
<1>5. CASE q = p
  <2>1. d * q = d * p /\ d * q \in Int /\ 2 * (n - d * q) =< 2 * (m - d * p)
    BY <1>1, <1>5
  <2>2. CASE Rounded(n, d) = q + 1
    <3>1. 2 * (n - d * q) > d \/ (2 * (n - d * q) = d /\ q % 2 = 1)
      BY <1>1, <1>2, <2>2
    <3>2. 2 * (m - d * p) > d \/ (2 * (m - d * p) = d /\ p % 2 = 1)
      BY <1>5, <2>1, <3>1
    <3> QED BY <1>1, <1>2, <1>5, <2>2, <3>2
  <2> QED BY <1>1, <1>3, <1>5, <2>2
<1> QED BY <1>1, <1>3, <1>4, <1>5

\* What is rounded moves by a half at most.
LEMMA RoundingIsNear ==
  ASSUME NEW n \in Int, NEW d \in Nat \ {0}
  PROVE  2 * (d * Rounded(n, d)) =< 2 * n + d /\ 2 * n - d =< 2 * (d * Rounded(n, d))
<1> DEFINE q == n \div d
<1>1. q \in Int /\ d * q =< n /\ n < d * q + d
  OBVIOUS
<1>2. Rounded(n, d) = IF 2 * (n - d * q) > d \/ (2 * (n - d * q) = d /\ q % 2 = 1)
                      THEN q + 1 ELSE q
  BY DEF Rounded
<1> HIDE DEF q
<1>3. d * (q + 1) = d * q + d /\ d * q \in Int
  BY <1>1
<1>4. CASE Rounded(n, d) = q
  <2>1. 2 * (n - d * q) =< d
    BY <1>1, <1>2, <1>3, <1>4
  <2> QED BY <1>1, <1>3, <1>4, <2>1
<1>5. CASE Rounded(n, d) = q + 1
  <2>1. 2 * (n - d * q) >= d
    BY <1>1, <1>2, <1>3, <1>5
  <2> QED BY <1>1, <1>3, <1>5, <2>1
<1> QED BY <1>2, <1>4, <1>5

\* A positive factor can be left out of an inequality.
LEMMA FactorCancels ==
  ASSUME NEW d \in Nat \ {0}, NEW a \in Int, NEW b \in Int, d * a =< d * b
  PROVE  a =< b
<1>1. ASSUME a >= b + 1
      PROVE  FALSE
  <2>1. d * a >= d * (b + 1)
    BY <1>1
  <2> QED BY <2>1
<1> QED BY <1>1

\* The scaling of one priority, x above the least of them, to the range from lo to
\* lo + d, as the numerator that is divided by span * Tenth and rounded.
LEMMA ScalingKeepsOrder ==
  ASSUME NEW span \in Nat \ {0}, NEW lo \in Int, NEW d \in Nat
  PROVE  /\ \A x, y \in 0..span : x =< y =>
              Tenth * Rounded(lo * span + x * d, span * Tenth) =<
                Tenth * Rounded(lo * span + y * d, span * Tenth)
         /\ \A x \in 0..span :
              LET new == Tenth * Rounded(lo * span + x * d, span * Tenth)
              IN new \in Int /\ 2 * lo - Tenth =< 2 * new /\ 2 * new =< 2 * (lo + d) + Tenth
<1> DEFINE N(x) == lo * span + x * d
           w == span * Tenth
<1>1. Tenth \in Nat \ {0}
  BY ScopeAssumption
<1>2. w \in Nat \ {0} /\ \A x \in 0..span : N(x) \in Int
  BY <1>1
<1>3. ASSUME NEW x \in 0..span, NEW y \in 0..span, x =< y
      PROVE  N(x) =< N(y)
  <2>1. x * d =< y * d
    BY <1>3
  <2>2. x * d \in Int /\ y * d \in Int /\ lo * span \in Int
    OBVIOUS
  <2> QED BY <2>1, <2>2
<1>4. \A x \in 0..span : N(0) =< N(x) /\ N(x) =< N(span)
  BY <1>3
<1>5. N(0) = span * lo /\ N(span) = span * (lo + d)
  OBVIOUS
<1> HIDE DEF N, w
<1>6. ASSUME NEW x \in 0..span
      PROVE  Rounded(N(x), w) \in Int
  BY <1>2, RoundingKeepsOrder
<1>7. ASSUME NEW x \in 0..span, NEW y \in 0..span, x =< y
      PROVE  Tenth * Rounded(N(x), w) =< Tenth * Rounded(N(y), w)
  <2>1. Rounded(N(x), w) =< Rounded(N(y), w)
    BY <1>2, <1>3, <1>7, RoundingKeepsOrder
  <2> DEFINE a == Rounded(N(x), w)
             b == Rounded(N(y), w)
  <2>2. a \in Int /\ b \in Int /\ a =< b
    BY <1>6, <2>1
  <2> HIDE DEF a, b
  <2>3. Tenth * a =< Tenth * b
    BY <1>1, <2>2
  <2> QED BY <2>3 DEF a, b
<1>8. ASSUME NEW x \in 0..span
      PROVE  LET new == Tenth * Rounded(N(x), w)
             IN new \in Int /\ 2 * lo - Tenth =< 2 * new /\ 2 * new =< 2 * (lo + d) + Tenth
  <2> DEFINE R == Rounded(N(x), w)
             new == Tenth * R
  <2>1. R \in Int /\ N(x) \in Int
    BY <1>2, <1>6
  <2>2. 2 * (w * R) =< 2 * N(x) + w /\ 2 * N(x) - w =< 2 * (w * R)
    BY <1>2, RoundingIsNear
  <2> HIDE DEF R
  <2>3. new \in Int /\ 2 * (w * R) = span * (2 * new) /\ w = span * Tenth
    BY <1>1, <2>1 DEF w
  <2> HIDE DEF new
  <2>4. /\ span * (2 * new) =< 2 * (span * (lo + d)) + span * Tenth
        /\ 2 * (span * lo) - span * Tenth =< span * (2 * new)
    BY <1>2, <1>4, <1>5, <2>1, <2>2, <2>3
  <2>5. /\ 2 * (span * (lo + d)) + span * Tenth = span * (2 * (lo + d) + Tenth)
        /\ 2 * (span * lo) - span * Tenth = span * (2 * lo - Tenth)
    BY <1>1
  <2>6. 2 * new \in Int /\ 2 * (lo + d) + Tenth \in Int /\ 2 * lo - Tenth \in Int
    BY <1>1, <2>3
  <2>7. 2 * new =< 2 * (lo + d) + Tenth /\ 2 * lo - Tenth =< 2 * new
    BY <2>4, <2>5, <2>6, FactorCancels
  <2> QED BY <2>3, <2>7 DEF new, R
<1> QED BY <1>7, <1>8 DEF N, w

\* The legacy rescaling keeps the order of the priorities, and the bounds asked for
\* to half a tenth.
LEMMA RescaledIsOrdered ==
  ASSUME NEW r, RequestOK(r)
  PROVE  /\ Rescaled(r) \in [DOMAIN r.taskAt -> Int]
         /\ \A t, u \in DOMAIN r.taskAt :
              r.priority[t] =< r.priority[u] => Rescaled(r)[t] =< Rescaled(r)[u]
         /\ r.range.min # None /\ r.range.max # None => \A t \in DOMAIN r.taskAt :
              /\ 2 * Rescaled(r)[t] >= 2 * Smaller(r.range.min, r.range.max) - Tenth
              /\ 2 * Rescaled(r)[t] =< 2 * Larger(r.range.min, r.range.max) + Tenth
<1> DEFINE T == DOMAIN r.taskAt
           all == {r.priority[t] : t \in T}
           least == CHOOSE p \in all : \A q \in all : p =< q
           most == CHOOSE p \in all : \A q \in all : p >= q
           from == IF r.range.min = None THEN least ELSE r.range.min
           to == IF r.range.max = None THEN most ELSE r.range.max
           lo == Smaller(from, to)
           d == Larger(from, to) - lo
           span == Larger(most - least, 1)
           new(t) == Tenth * Rounded(lo * span + (r.priority[t] - least) * d, span * Tenth)
<1>1. r.priority \in [T -> Int]
  BY DEF RequestOK
<1>2. Rescaled(r) = [t \in T |-> new(t)]
  BY <1>1 DEF Rescaled
<1>3. CASE T = {}
  BY <1>2, <1>3
<1>4. CASE T # {}
  <2>1. all \in SUBSET Int /\ all # {}
    BY <1>1, <1>4
  <2>2. IsFiniteSet(all)
    <3>1. T = 1..Len(r.taskAt) /\ Len(r.taskAt) \in Nat
      BY DEF RequestOK
    <3>2. IsFiniteSet(T)
      BY <3>1, Interval
    <3>3. r.priority \in Surjection(T, all)
      BY <1>1 DEF Surjection
    <3> QED BY <3>2, <3>3, FS_Surjection
  <2>3. \A t \in T : r.priority[t] \in all
    OBVIOUS
  <2> HIDE DEF all
  <2>4. least \in all /\ (\A q \in all : least =< q) /\ most \in all /\ (\A q \in all : most >= q)
    BY <2>1, <2>2, Extremes
  <2> HIDE DEF least, most
  <2>5. least \in Int /\ most \in Int /\ \A t \in T : r.priority[t] \in Int
    BY <1>1, <2>1, <2>4
  <2>6. from \in Int /\ to \in Int
    BY <2>5 DEF RequestOK
  <2> HIDE DEF from, to
  <2>7. lo \in Int /\ d \in Nat
    BY <2>6 DEF Smaller, Larger
  <2>8. span \in Nat \ {0} /\ most - least =< span
    BY <2>5 DEF Larger
  <2>9. ASSUME NEW t \in T
        PROVE  r.priority[t] - least \in 0..span
    <3>1. least =< r.priority[t] /\ r.priority[t] =< most
      BY <2>3, <2>4
    <3> HIDE DEF span
    <3> QED BY <2>5, <2>8, <3>1
  <2>10. lo + d = Larger(from, to) /\ lo = Smaller(from, to)
    BY <2>6, <2>7 DEF Larger, Smaller
  <2> HIDE DEF lo, d, span
  <2>11. ASSUME NEW t \in T
         PROVE  new(t) \in Int /\ 2 * lo - Tenth =< 2 * new(t) /\ 2 * new(t) =< 2 * (lo + d) + Tenth
    BY <2>7, <2>8, <2>9, ScalingKeepsOrder
  <2>12. ASSUME NEW t \in T, NEW u \in T, r.priority[t] =< r.priority[u]
         PROVE  new(t) =< new(u)
    <3> DEFINE x == r.priority[t] - least
               y == r.priority[u] - least
    <3>1. x \in 0..span /\ y \in 0..span /\ x =< y
      BY <2>5, <2>9, <2>12
    <3> HIDE DEF x, y
    <3>2. Tenth * Rounded(lo * span + x * d, span * Tenth) =<
            Tenth * Rounded(lo * span + y * d, span * Tenth)
      BY <2>7, <2>8, <3>1, ScalingKeepsOrder
    <3> QED BY <3>2 DEF x, y
  <2>13. r.range.min # None /\ r.range.max # None => from = r.range.min /\ to = r.range.max
    BY DEF from, to
  <2> HIDE DEF new
  <2> QED BY <1>2, <2>10, <2>11, <2>12, <2>13
<1> QED BY <1>3, <1>4

\* So does what the legacy endpoint makes of a request.
LEMMA LegacyOptimizedKeepsOK ==
  ASSUME NEW r, RequestOK(r)
  PROVE  /\ RequestOK(LegacyOptimized(r))
         /\ \A x \in DOMAIN r \ {"areaIds", "areaMap", "priority", "range"} :
              LegacyOptimized(r)[x] = r[x]
         /\ r.range # NoRange => LegacyOptimized(r).priority = Rescaled(r)
         /\ r.areas # <<>> /\ r.taskAt # <<>> =>
              \A t \in DOMAIN r.taskAt :
                /\ t \in DOMAIN LegacyOptimized(r).areaMap
                /\ LegacyOptimized(r).areaMap[t] \in LegacyOptimized(r).areaIds
<1>1. CASE r.range = NoRange
  BY <1>1, WithAreasKeepsOK DEF LegacyOptimized
<1>2. CASE r.range # NoRange
  <2> DEFINE w == [r EXCEPT !.priority = Rescaled(r), !.range = NoRange]
  <2>1. /\ DOMAIN w = DOMAIN r /\ w.range = NoRange /\ w.priority = Rescaled(r)
        /\ \A x \in DOMAIN r \ {"priority", "range"} : w[x] = r[x]
    BY DEF RequestOK
  <2>2. LegacyOptimized(r) = WithAreas(w)
    BY <1>2 DEF LegacyOptimized
  <2> HIDE DEF w
  <2>3. /\ w.via = r.via /\ w.limit = r.limit /\ w.offset = r.offset
        /\ w.areas = r.areas
        /\ w.tasks = r.tasks /\ w.fieldmen = r.fieldmen /\ w.strategy = r.strategy
        /\ w.resolution = r.resolution /\ w.fmAreas = r.fmAreas /\ w.taskAt = r.taskAt
        /\ w.fmAt = r.fmAt /\ w.areaMap = r.areaMap /\ w.manual = r.manual
    BY <2>1 DEF RequestOK
  <2>7. Rescaled(r) \in [DOMAIN r.taskAt -> Int]
    BY RescaledIsOrdered
  <2>8. w.range \in [min : Int \cup {None}, max : Int \cup {None}]
    BY <2>1 DEF NoRange
  <2>4. RequestOK(w)
    BY <2>1, <2>3, <2>7, <2>8 DEF RequestOK
  <2>5. /\ RequestOK(WithAreas(w))
        /\ \A x \in DOMAIN w \ {"areaIds", "areaMap"} : WithAreas(w)[x] = w[x]
        /\ w.areas # <<>> /\ w.taskAt # <<>> =>
              \A t \in DOMAIN w.taskAt : /\ t \in DOMAIN WithAreas(w).areaMap
                                         /\ WithAreas(w).areaMap[t] \in WithAreas(w).areaIds
    BY <2>4, WithAreasKeepsOK
  <2>6. WithAreas(w).priority = w.priority
    BY <2>1, <2>5 DEF RequestOK
  <2> QED BY <1>2, <2>1, <2>2, <2>3, <2>5, <2>6
<1> QED BY <1>1, <1>2

-----------------------------------------------------------------------------
(* Assignment and chunks *)

\* What the proofs use of positions, priorities and cells: they are numbers.
LEMMA Measures ==
  ASSUME NEW r, RequestOK(r)
  PROVE  /\ \A t \in ToSet(r.tasks) : /\ t \in DOMAIN r.taskAt
                                      /\ r.taskAt[t] \in Int /\ EffectivePriority(r, t) \in Int
                                      /\ CellOf(r, r.taskAt[t]) \in Int
                                      /\ CoarseCellOf(r, r.taskAt[t]) \in Int
         /\ \A f \in ToSet(r.fieldmen) : r.fmAt[f] \in Int
         /\ \A x, y \in Int : Haversine(x, y) \in Nat
<1>1. \A t \in ToSet(r.tasks) : t \in DOMAIN r.taskAt /\ r.taskAt[t] \in Int
  BY DEF RequestOK, ToSet
<1>2. \A t \in DOMAIN r.taskAt : EffectivePriority(r, t) \in Int
  BY DEF RequestOK, EffectivePriority
<1>3. \A f \in ToSet(r.fieldmen) : r.fmAt[f] \in Int
  BY DEF RequestOK, ToSet
<1>4. CellSize[r.resolution] \in Nat \ {0}
  <2>1. r.resolution \in 0..15
    BY DEF RequestOK
  <2> QED BY <2>1, H3Assumption
<1>5. CellSize[Larger(0, r.resolution - 2)] \in Nat \ {0}
  <2>1. r.resolution \in 1..15
    BY DEF RequestOK
  <2>2. Larger(0, r.resolution - 2) \in 0..15
    BY <2>1 DEF Larger
  <2> QED BY <2>2, H3Assumption
<1>6. \A x \in Int : CellOf(r, x) \in Int /\ CoarseCellOf(r, x) \in Int
  BY <1>4, <1>5 DEF CellOf, CoarseCellOf
<1>7. \A x, y \in Int : Haversine(x, y) \in Nat
  BY DEF Haversine, GridDistance
<1> QED BY <1>1, <1>2, <1>3, <1>6, <1>7

\* The spatial sort permutes.
LEMMA SpatialSortPermutes ==
  ASSUME NEW r, RequestOK(r), NEW s \in Seq(ToSet(r.tasks))
  PROVE  /\ SpatialSort(r, s) \in Seq(ToSet(r.tasks))
         /\ Len(SpatialSort(r, s)) = Len(s)
         /\ ToSet(SpatialSort(r, s)) = ToSet(s)
         /\ IsInjective(s) => IsInjective(SpatialSort(r, s))
<1> DEFINE key == [t \in ToSet(s) |-> CellOf(r, r.taskAt[t])]
<1>1. \A i \in DOMAIN s : s[i] \in ToSet(s) /\ s[i] \in ToSet(r.tasks)
  BY DEF ToSet
<1>2. \A i \in DOMAIN s : key[s[i]] \in Int
  BY <1>1, Measures
<1>3. SpatialSort(r, s) = StableSort(s, key)
  BY DEF SpatialSort
<1> HIDE DEF key
<1> QED BY <1>2, <1>3, StableSortSorts

\* So does the order in which the tasks choose a fieldman.
LEMMA ByPriorityPermutes ==
  ASSUME NEW r, RequestOK(r)
  PROVE  /\ ByPriority(r) \in Seq(ToSet(r.tasks))
         /\ ToSet(ByPriority(r)) = ToSet(r.tasks)
         /\ IsInjective(ByPriority(r))
<1> DEFINE key == [t \in ToSet(r.tasks) |-> -EffectivePriority(r, t)]
<1>1. r.tasks \in Seq(ToSet(r.tasks)) /\ IsInjective(r.tasks)
  BY DEF RequestOK, ToSet
<1>2. \A i \in DOMAIN r.tasks : r.tasks[i] \in ToSet(r.tasks)
  BY DEF ToSet
<1>3. \A i \in DOMAIN r.tasks : key[r.tasks[i]] \in Int
  BY <1>2, Measures
<1>4. ByPriority(r) = StableSort(r.tasks, key)
  BY DEF ByPriority
<1> HIDE DEF key
<1> QED BY <1>1, <1>3, <1>4, StableSortSorts

\* Consecutive pieces: none too long, none empty, nothing lost, nothing twice.
LEMMA ChunksCut ==
  ASSUME NEW X, NEW s \in Seq(X), s # <<>>, IsInjective(s), NEW size \in Nat \ {0}
  PROVE  /\ Chunks(s, size) \in Seq(Seq(X)) /\ Chunks(s, size) # <<>>
         /\ \A i \in DOMAIN Chunks(s, size) :
              /\ Len(Chunks(s, size)[i]) \in 1..size
              /\ IsInjective(Chunks(s, size)[i])
              /\ ToSet(Chunks(s, size)[i]) \subseteq ToSet(s)
         /\ \A i, j \in DOMAIN Chunks(s, size) : i # j =>
              Apart(Chunks(s, size)[i], Chunks(s, size)[j])
         /\ \A x \in ToSet(s) : \E i \in DOMAIN Chunks(s, size) : x \in ToSet(Chunks(s, size)[i])
<1> DEFINE n == Len(s)
           m == (n + size - 1) \div size
           hi(i) == Min({i * size, n})
<1>1. n \in Nat \ {0} /\ DOMAIN s = 1..n
  BY HasHead
<1>2. m \in Nat \ {0} /\ size * m >= n /\ size * m =< n + size - 1
  <2>1. m \in Int /\ size * m =< n + size - 1 /\ n + size - 1 < size * m + size
    BY <1>1
  <2> HIDE DEF m
  <2>2. ASSUME m =< 0 PROVE FALSE
    <3>1. size * m =< 0
      BY <2>1, <2>2
    <3> QED BY <1>1, <2>1, <3>1
  <2> QED BY <1>1, <2>1, <2>2
<1> HIDE DEF n, m
<1>3. ASSUME NEW i \in 1..m
      PROVE  /\ hi(i) \in Int /\ hi(i) =< i * size /\ hi(i) =< n
             /\ (hi(i) = i * size \/ hi(i) = n) /\ (i - 1) * size + 1 =< hi(i)
             /\ 0 =< (i - 1) * size
  <2>1. i * size \in Int /\ n \in Int
    BY <1>1, <1>2
  <2>2. hi(i) \in {i * size, n} /\ \A y \in {i * size, n} : hi(i) =< y
    <3>1. \E x \in {i * size, n} : \A y \in {i * size, n} : x =< y
      BY <2>1
    <3> QED BY <3>1 DEF Min
  <2>3. (i - 1) * size =< size * m - size /\ 0 =< (i - 1) * size /\ (i - 1) * size + size = i * size
    BY <1>1, <1>2
  <2> HIDE DEF hi
  <2> QED BY <1>1, <1>2, <2>1, <2>2, <2>3
<1>4. Chunks(s, size) = [i \in 1..m |-> SubSeq(s, (i - 1) * size + 1, hi(i))]
  BY DEF Chunks, n, m
<1> HIDE DEF hi
<1> DEFINE c == Chunks(s, size)
           lo(i) == (i - 1) * size
<1>5. ASSUME NEW i \in 1..m
      PROVE  /\ c[i] \in Seq(X) /\ Len(c[i]) = hi(i) - lo(i) /\ DOMAIN c[i] = 1..(hi(i) - lo(i))
             /\ \A k \in 1..(hi(i) - lo(i)) : c[i][k] = s[lo(i) + k] /\ lo(i) + k \in 1..n
             /\ Len(c[i]) \in 1..size
  <2>1. c[i] = SubSeq(s, lo(i) + 1, hi(i))
    BY <1>4
  <2>2. /\ lo(i) \in Nat /\ hi(i) \in Nat /\ lo(i) + 1 =< hi(i) /\ hi(i) =< n
        /\ hi(i) - lo(i) =< size
    <3>1. lo(i) \in Int /\ i * size = lo(i) + size
      BY <1>2
    <3> HIDE DEF lo
    <3> QED BY <1>1, <1>3, <3>1 DEF lo
  <2> HIDE DEF lo, c
  <2>3. \A k \in (lo(i) + 1)..hi(i) : k \in 1..Len(s)
    BY <1>1, <2>2 DEF n
  <2>4. c[i] \in Seq(X) /\ Len(c[i]) = hi(i) - lo(i)
    BY <1>1, <2>1, <2>2, <2>3 DEF n
  <2>5. \A k \in 1..(hi(i) - lo(i)) : c[i][k] = s[lo(i) + k] /\ lo(i) + k \in 1..n
    BY <1>1, <2>1, <2>2, <2>3
  <2> QED BY <2>2, <2>4, <2>5
<1>6. DOMAIN c = 1..m /\ c \in Seq(Seq(X)) /\ c # <<>>
  <2>1. c \in [1..m -> Seq(X)]
    BY <1>4, <1>5
  <2> HIDE DEF c
  <2> QED BY <1>2, <2>1
<1> HIDE DEF c
<1>7. ASSUME NEW i \in 1..m
      PROVE  IsInjective(c[i]) /\ ToSet(c[i]) \subseteq ToSet(s)
  <2>1. lo(i) \in Int
    BY <1>2
  <2> HIDE DEF lo
  <2>2. IsInjective(c[i])
    <3> SUFFICES ASSUME NEW j \in DOMAIN c[i], NEW k \in DOMAIN c[i], c[i][j] = c[i][k]
                 PROVE  j = k
      BY DEF IsInjective
    <3>1. lo(i) + j = lo(i) + k
      BY <1>1, <1>5 DEF IsInjective
    <3>2. j \in Int /\ k \in Int
      BY <1>5
    <3> QED BY <2>1, <3>1, <3>2
  <2>3. ToSet(c[i]) \subseteq ToSet(s)
    <3> SUFFICES ASSUME NEW k \in DOMAIN c[i]
                 PROVE  c[i][k] \in ToSet(s)
      BY DEF ToSet
    <3>1. c[i][k] = s[lo(i) + k] /\ lo(i) + k \in 1..n
      BY <1>5
    <3> QED BY <1>1, <3>1 DEF ToSet
  <2> QED BY <2>2, <2>3
<1>8. ASSUME NEW i \in 1..m, NEW j \in 1..m, i < j
      PROVE  Apart(c[i], c[j]) /\ Apart(c[j], c[i])
  <2>1. lo(i) \in Int /\ lo(j) \in Int /\ hi(i) =< lo(j) /\ hi(i) \in Int
    <3>1. i =< j - 1 /\ i \in Int /\ j - 1 \in Int
      BY <1>2, <1>8
    <3>2. i * size =< (j - 1) * size /\ (i - 1) * size \in Int /\ (j - 1) * size \in Int
      BY <3>1
    <3>3. hi(i) \in Int /\ hi(i) =< i * size
      BY <1>3
    <3> QED BY <3>1, <3>2, <3>3
  <2> HIDE DEF lo
  <2> SUFFICES ASSUME NEW a \in DOMAIN c[i], NEW b \in DOMAIN c[j], c[i][a] = c[j][b]
               PROVE  FALSE
    BY DEF ToSet, Apart
  <2>2. lo(i) + a = lo(j) + b
    <3>1. /\ c[i][a] = s[lo(i) + a] /\ lo(i) + a \in 1..n
          /\ c[j][b] = s[lo(j) + b] /\ lo(j) + b \in 1..n
      BY <1>5
    <3> QED BY <1>1, <3>1 DEF IsInjective
  <2>3. a \in 1..(hi(i) - lo(i)) /\ b \in Int /\ b >= 1
    BY <1>5
  <2> QED BY <2>1, <2>2, <2>3
<1>9. ASSUME NEW x \in ToSet(s)
      PROVE  \E i \in 1..m : x \in ToSet(c[i])
  <2>1. PICK k \in 1..n : s[k] = x
    BY <1>1 DEF ToSet
  <2> DEFINE i == ((k - 1) \div size) + 1
  <2>2. (k - 1) \div size \in Int /\ size * ((k - 1) \div size) =< k - 1 /\ k - 1 < size * ((k - 1) \div size) + size
    BY <1>1
  <2>3. i \in Int /\ lo(i) =< k - 1 /\ k - 1 < lo(i) + size /\ lo(i) + size = i * size
    <3> DEFINE q == (k - 1) \div size
    <3> HIDE DEF q
    <3> QED BY <2>2 DEF q
  <2> HIDE DEF i
  <2>4. i \in 1..m
    <3>1. ASSUME i =< 0 PROVE FALSE
      <4>1. i * size =< 0
        BY <2>3, <3>1
      <4> QED BY <1>1, <2>3, <4>1
    <3>2. ASSUME i >= m + 1 PROVE FALSE
      <4>1. (i - 1) * size >= m * size
        BY <1>2, <2>3, <3>2
      <4> QED BY <1>1, <1>2, <2>3, <4>1
    <3> QED BY <1>2, <2>3, <3>1, <3>2
  <2>5. k - lo(i) \in 1..(hi(i) - lo(i)) /\ lo(i) + (k - lo(i)) = k
    <3>1. lo(i) \in Int /\ hi(i) \in Int /\ (hi(i) = i * size \/ hi(i) = n)
      BY <1>2, <1>3, <2>4
    <3> HIDE DEF lo
    <3> QED BY <1>1, <2>3, <3>1
  <2> HIDE DEF lo
  <2>6. c[i][k - lo(i)] = x
    BY <1>5, <2>1, <2>4, <2>5
  <2> QED BY <1>5, <2>4, <2>5, <2>6 DEF ToSet
<1>10. \A i, j \in 1..m : i # j => Apart(c[i], c[j])
  BY <1>2, <1>8
<1> QED BY <1>5, <1>6, <1>7, <1>9, <1>10 DEF c

\* The score's denominators.
LEMMA LargestOfTwo ==
  ASSUME NEW a \in Nat, NEW b \in Nat
  PROVE  Max({a, b}) \in Nat /\ a =< Max({a, b}) /\ b =< Max({a, b})
<1>1. \E x \in {a, b} : \A y \in {a, b} : x >= y
  OBVIOUS
<1>2. Max({a, b}) \in {a, b} /\ \A y \in {a, b} : Max({a, b}) >= y
  BY <1>1 DEF Max
<1> QED BY <1>2

\* A task goes to one of the request's fieldmen; and, as long as somebody is within
\* its reach, to none who has more tasks than another at the same place.
LEMMA ChosenFieldman ==
  ASSUME NEW r, RequestOK(r), r.fieldmen # <<>>,
         NEW load \in [ToSet(r.fieldmen) -> Nat], NEW t \in ToSet(r.tasks)
  PROVE  /\ ChooseFieldman(r, load, t) \in ToSet(r.fieldmen)
         /\ WithinReach(r, t) # <<>> => \A g \in ToSet(r.fieldmen) :
              r.fmAt[ChooseFieldman(r, load, t)] = r.fmAt[g] =>
                load[ChooseFieldman(r, load, t)] =< load[g]
<1> DEFINE M == ToSet(r.fieldmen)
           F == Len(r.fieldmen)
           T == Len(r.tasks)
           S == [f \in M |-> Score(r, load, t, f)]
           D == [f \in M |-> Haversine(r.fmAt[f], r.taskAt[t])]
           c == ChooseFieldman(r, load, t)
<1>1. F \in Nat \ {0} /\ T \in Nat /\ Max({T, F}) \in Nat
  <2>1. F \in Nat \ {0} /\ T \in Nat
    BY HasHead DEF RequestOK
  <2> QED BY <2>1, LargestOfTwo
<1>2. \A f \in M : D[f] \in Nat
  BY Measures
<1>3. \A f \in M : S[f] = D[f] * Max({T, F}) + 3 * F * load[f]
  BY DEF Score
<1>4. \A f \in M : S[f] \in Int
  <2> SUFFICES ASSUME NEW f \in M PROVE S[f] \in Int
    OBVIOUS
  <2>1. D[f] * Max({T, F}) \in Int /\ 3 * F * load[f] \in Int
    BY <1>1, <1>2
  <2>2. S[f] = D[f] * Max({T, F}) + 3 * F * load[f]
    BY <1>3
  <2> DEFINE a == D[f] * Max({T, F})
             b == 3 * F * load[f]
  <2>3. a \in Int /\ b \in Int /\ S[f] = a + b
    BY <2>1, <2>2
  <2> HIDE DEF a, b, S
  <2> QED BY <2>3
<1>5. r.fieldmen \in Seq(M) /\ r.fieldmen # <<>> /\ \A i \in DOMAIN r.fieldmen : r.fieldmen[i] \in M
  <2>1. \A i \in DOMAIN r.fieldmen : r.fieldmen[i] \in M
    BY DEF ToSet
  <2>2. r.fieldmen \in Seq(DOMAIN r.fmAt)
    BY DEF RequestOK
  <2> HIDE DEF M
  <2> QED BY <2>1, <2>2
<1>6. c = IF SameCell(r, t) # <<>> THEN FirstMin(SameCell(r, t), S)
          ELSE IF WithinReach(r, t) # <<>> THEN FirstMin(WithinReach(r, t), S)
          ELSE FirstMin(r.fieldmen, D)
  BY DEF ChooseFieldman
<1> HIDE DEF S, D, c
<1>7. ASSUME NEW f \in M, NEW g \in M, S[f] =< S[g], D[f] = D[g]
      PROVE  load[f] =< load[g]
  <2>1. D[f] * Max({T, F}) \in Int
    BY <1>1, <1>2
  <2>2. 3 * F * load[f] \in Int /\ 3 * F * load[g] \in Int
    BY <1>1
  <2>3. 3 * F * load[f] =< 3 * F * load[g]
    BY <1>3, <1>7, <2>1, <2>2
  <2>4. ASSUME load[f] >= load[g] + 1 PROVE FALSE
    <3> DEFINE a == load[f]
               b == load[g]
    <3>1. a \in Nat /\ b \in Nat /\ F \in Nat \ {0} /\ a >= b + 1
      BY <1>1, <2>4
    <3>2. 3 * F * a =< 3 * F * b
      BY <2>3
    <3> HIDE DEF a, b, F
    <3>3. F * a >= F * (b + 1)
      BY <3>1
    <3>4. F * (b + 1) = F * b + F /\ F * b \in Int /\ F * a \in Int
      BY <3>1
    <3>5. F * a =< F * b
      BY <3>1, <3>2, <3>4
    <3> QED BY <3>1, <3>3, <3>4, <3>5
  <2> QED BY <2>4
<1>8. ASSUME NEW A \in SUBSET M, Only(r.fieldmen, A) # <<>>
      PROVE  /\ FirstMin(Only(r.fieldmen, A), S) \in A
             /\ \A g \in A : S[FirstMin(Only(r.fieldmen, A), S)] =< S[g]
  <2> DEFINE s == Only(r.fieldmen, A)
  <2>1. s \in Seq(M) /\ ToSet(s) = A
    BY <1>5, OnlyKeeps
  <2>2. s # <<>>
    BY <1>8
  <2> HIDE DEF s
  <2>3. \A i \in DOMAIN s : S[s[i]] \in Int
    BY <1>4, <2>1
  <2> QED BY <2>1, <2>2, <2>3, FirstMinIsLeast DEF s
<1>9. CASE SameCell(r, t) # <<>>
  <2> DEFINE A == {f \in M : CellOf(r, r.fmAt[f]) = CellOf(r, r.taskAt[t])}
  <2>1. SameCell(r, t) = Only(r.fieldmen, A) /\ A \in SUBSET M
    BY DEF SameCell
  <2>2. c \in A /\ \A g \in A : S[c] =< S[g]
    BY <1>6, <1>8, <1>9, <2>1
  <2>3. ASSUME NEW g \in M, r.fmAt[c] = r.fmAt[g]
        PROVE  load[c] =< load[g]
    <3>1. g \in A /\ D[c] = D[g]
      BY <2>2, <2>3 DEF D
    <3> QED BY <1>7, <2>2, <3>1
  <2> QED BY <2>2, <2>3 DEF c
<1>10. CASE SameCell(r, t) = <<>> /\ WithinReach(r, t) # <<>>
  <2> DEFINE A == {f \in M :
                     GridDistance(CellOf(r, r.fmAt[f]), CellOf(r, r.taskAt[t])) =< MaxK}
  <2>1. WithinReach(r, t) = Only(r.fieldmen, A) /\ A \in SUBSET M
    BY DEF WithinReach
  <2>2. c \in A /\ \A g \in A : S[c] =< S[g]
    BY <1>6, <1>8, <1>10, <2>1
  <2>3. ASSUME NEW g \in M, r.fmAt[c] = r.fmAt[g]
        PROVE  load[c] =< load[g]
    <3>1. g \in A /\ D[c] = D[g]
      BY <2>2, <2>3 DEF D
    <3> QED BY <1>7, <2>2, <3>1
  <2> QED BY <2>2, <2>3 DEF c
<1>11. CASE SameCell(r, t) = <<>> /\ WithinReach(r, t) = <<>>
  <2>1. c = FirstMin(r.fieldmen, D)
    BY <1>6, <1>11
  <2>2. c \in M
    BY <1>2, <1>5, <2>1, FirstMinIsLeast
  <2> QED BY <1>11, <2>2 DEF c
<1> QED BY <1>9, <1>10, <1>11

-----------------------------------------------------------------------------
(* Regions *)

\* Regions share no cell and no task, and have every task between them.
RegionsOK(r, regions) ==
  /\ regions \in Seq([cell : Int, tasks : Seq(ToSet(r.tasks))])
  /\ \A i \in DOMAIN regions : IsInjective(regions[i].tasks)
  /\ \A i, j \in DOMAIN regions : i # j =>
       /\ regions[i].cell # regions[j].cell
       /\ Apart(regions[i].tasks, regions[j].tasks)
  /\ \A t \in ToSet(r.tasks) : \E i \in DOMAIN regions : t \in ToSet(regions[i].tasks)

\* The coarse cells of the tasks are such regions.
LEMMA RegionsAreOK ==
  ASSUME NEW r, RequestOK(r)
  PROVE  RegionsOK(r, Regions(r))
<1> DEFINE Coarse(t) == CoarseCellOf(r, r.taskAt[t])
           met == [i \in DOMAIN r.tasks |-> Coarse(r.tasks[i])]
           cells == Distinct(met)
           Own(c) == Only(r.tasks, {t \in ToSet(r.tasks) : Coarse(t) = c})
           g == Regions(r)
<1>1. g = [i \in DOMAIN cells |-> [cell |-> cells[i], tasks |-> Own(cells[i])]]
  BY DEF Regions
<1>2. \A t \in ToSet(r.tasks) : Coarse(t) \in Int
  BY Measures
<1> HIDE DEF Coarse
<1>3. \A i \in DOMAIN r.tasks : r.tasks[i] \in ToSet(r.tasks)
  BY DEF ToSet
<1>4. r.tasks \in Seq(ToSet(r.tasks)) /\ IsInjective(r.tasks)
  BY <1>3 DEF RequestOK
<1>5. met \in Seq(Int)
  <2>1. DOMAIN r.tasks = 1..Len(r.tasks) /\ Len(r.tasks) \in Nat
    BY <1>4
  <2>2. met \in [1..Len(r.tasks) -> Int]
    BY <1>2, <1>3, <2>1
  <2> QED BY <2>1, <2>2
<1>6. \A t \in ToSet(r.tasks) : Coarse(t) \in ToSet(met)
  BY DEF ToSet
<1> HIDE DEF met
<1>7. cells \in Seq(Int) /\ IsInjective(cells) /\ ToSet(cells) = ToSet(met)
  BY <1>5, DistinctKeeps
<1> HIDE DEF cells
<1>8. ASSUME NEW c
      PROVE  /\ Own(c) \in Seq(ToSet(r.tasks)) /\ IsInjective(Own(c))
             /\ ToSet(Own(c)) = {t \in ToSet(r.tasks) : Coarse(t) = c}
  <2> DEFINE A == {t \in ToSet(r.tasks) : Coarse(t) = c}
  <2>1. ToSet(r.tasks) \cap A = A
    OBVIOUS
  <2> HIDE DEF A
  <2>2. Own(c) = Only(r.tasks, A)
    BY DEF A
  <2>3. Own(c) \in Seq(ToSet(r.tasks)) /\ IsInjective(Own(c)) /\ ToSet(Own(c)) = A
    BY <1>4, <2>1, <2>2, OnlyKeeps
  <2> QED BY <2>3 DEF A
<1> HIDE DEF Own
<1>9. DOMAIN g = DOMAIN cells /\ \A i \in DOMAIN cells : g[i].cell = cells[i] /\ g[i].tasks = Own(cells[i])
  BY <1>1
<1>10. g \in Seq([cell : Int, tasks : Seq(ToSet(r.tasks))])
  <2>1. DOMAIN cells = 1..Len(cells) /\ Len(cells) \in Nat /\ \A i \in DOMAIN cells : cells[i] \in Int
    BY <1>7
  <2> DEFINE R == [cell : Int, tasks : Seq(ToSet(r.tasks))]
  <2>3. \A i \in DOMAIN cells : [cell |-> cells[i], tasks |-> Own(cells[i])] \in R
    BY <1>8, <2>1
  <2> HIDE DEF R
  <2>2. g \in [1..Len(cells) -> R]
    BY <1>1, <2>1, <2>3
  <2>4. g \in Seq(R)
    <3> HIDE DEF g
    <3> QED BY <2>1, <2>2
  <2> QED BY <2>4 DEF R
<1> HIDE DEF g
<1>11. \A i, j \in DOMAIN g : i # j =>
         g[i].cell # g[j].cell /\ Apart(g[i].tasks, g[j].tasks)
  <2> SUFFICES ASSUME NEW i \in DOMAIN g, NEW j \in DOMAIN g, i # j
               PROVE  g[i].cell # g[j].cell /\ Apart(g[i].tasks, g[j].tasks)
    OBVIOUS
  <2>1. cells[i] # cells[j]
    BY <1>7, <1>9 DEF IsInjective
  <2> QED BY <1>8, <1>9, <2>1 DEF Apart
<1>12. \A t \in ToSet(r.tasks) : \E i \in DOMAIN g : t \in ToSet(g[i].tasks)
  <2> SUFFICES ASSUME NEW t \in ToSet(r.tasks)
               PROVE  \E i \in DOMAIN g : t \in ToSet(g[i].tasks)
    OBVIOUS
  <2>1. PICK i \in DOMAIN cells : cells[i] = Coarse(t)
    BY <1>6, <1>7 DEF ToSet
  <2> QED BY <1>8, <1>9, <2>1
<1> QED BY <1>8, <1>9, <1>10, <1>11, <1>12 DEF RegionsOK, g

\* Merging the small regions into the large ones neither loses nor doubles a task.
LEMMA MergeKeepsOK ==
  ASSUME NEW r, RequestOK(r), NEW regions, RegionsOK(r, regions)
  PROVE  RegionsOK(r, MergeSmallRegions(regions))
<1> DEFINE R == [cell : Int, tasks : Seq(ToSet(r.tasks))]
           X == ToSet(r.tasks)
           big == {i \in DOMAIN regions : Len(regions[i].tasks) >= MinRegion}
           large == Pick(regions, big)
           rest == DOMAIN regions \ big
           small == Pick(regions, rest)
           Target(g) == FirstMin(large, [h \in ToSet(large) |-> GridDistance(g.cell, h.cell)])
           K(c) == {k \in DOMAIN small : Target(small[k]).cell = c}
           Joining(h) == Pick(small, {k \in DOMAIN small : Target(small[k]).cell = h.cell})
           Merged(h) == h.tasks \o Concat([k \in DOMAIN Joining(h) |-> Joining(h)[k].tasks])
           m == MergeSmallRegions(regions)
<1>1. CASE large = <<>>
  <2>1. m = regions
    BY <1>1 DEF MergeSmallRegions
  <2> QED BY <2>1
<1>2. CASE large # <<>>
  <2>1. m = [i \in DOMAIN large |-> [cell |-> large[i].cell, tasks |-> Merged(large[i])]]
    BY <1>2 DEF MergeSmallRegions
  <2>2. /\ regions \in Seq(R)
        /\ \A i \in DOMAIN regions : IsInjective(regions[i].tasks)
        /\ \A t \in X : \E i \in DOMAIN regions : t \in ToSet(regions[i].tasks)
    BY DEF RegionsOK
  <2>21. \A i, j \in DOMAIN regions : i # j =>
           /\ regions[i].cell # regions[j].cell
           /\ Apart(regions[i].tasks, regions[j].tasks)
    BY DEF RegionsOK
  <2>19. \A g \in R : g.cell \in Int /\ g.tasks \in Seq(X)
    OBVIOUS
  <2> HIDE DEF R, X
  <2>20. \A i \in DOMAIN regions : regions[i] \in R
    BY <2>2
  <2>3. /\ big \in SUBSET DOMAIN regions /\ rest \in SUBSET DOMAIN regions
        /\ \A i \in rest : i \notin big
        /\ \A i \in DOMAIN regions : i \in big \/ i \in rest
    OBVIOUS
  <2> HIDE DEF big, rest
  <2> DEFINE aL == Ascending(big)
             aS == Ascending(rest)
  <2>4. /\ large \in Seq(R) /\ DOMAIN large = 1..Len(large) /\ Len(large) \in Nat
        /\ \A i \in DOMAIN large : aL[i] \in big /\ large[i] = regions[aL[i]]
        /\ \A i, j \in DOMAIN large : i # j => aL[i] # aL[j]
        /\ \A q \in big : \E i \in DOMAIN large : aL[i] = q
    BY <2>2, <2>3, PickPlaces
  <2>5. /\ small \in Seq(R) /\ DOMAIN small = 1..Len(small) /\ Len(small) \in Nat
        /\ \A i \in DOMAIN small : aS[i] \in rest /\ small[i] = regions[aS[i]]
        /\ \A i, j \in DOMAIN small : i # j => aS[i] # aS[j]
        /\ \A q \in rest : \E i \in DOMAIN small : aS[i] = q
    BY <2>2, <2>3, PickPlaces
  <2> HIDE DEF aL, aS, large, small
  <2>6. \A i \in DOMAIN large : /\ large[i].cell \in Int /\ large[i].tasks \in Seq(X)
                                /\ IsInjective(large[i].tasks)
    BY <2>2, <2>3, <2>4, <2>19, <2>20
  <2>7. \A k \in DOMAIN small : /\ small[k].cell \in Int /\ small[k].tasks \in Seq(X)
                                /\ IsInjective(small[k].tasks)
    BY <2>2, <2>3, <2>5, <2>19, <2>20
  <2>8. \A i, j \in DOMAIN large : i # j =>
          /\ large[i].cell # large[j].cell
          /\ Apart(large[i].tasks, large[j].tasks)
    BY <2>3, <2>4, <2>21
  <2>9. \A i, j \in DOMAIN small : i # j => Apart(small[i].tasks, small[j].tasks)
    BY <2>3, <2>5, <2>21
  <2>10. \A i \in DOMAIN large : \A k \in DOMAIN small :
           Apart(large[i].tasks, small[k].tasks)
    <3> SUFFICES ASSUME NEW i \in DOMAIN large, NEW k \in DOMAIN small
                 PROVE  Apart(large[i].tasks, small[k].tasks)
      OBVIOUS
    <3>1. aL[i] # aS[k] /\ aL[i] \in DOMAIN regions /\ aS[k] \in DOMAIN regions
      BY <2>3, <2>4, <2>5
    <3> QED BY <2>4, <2>5, <2>21, <3>1
  <2>11. \A k \in DOMAIN small : Target(small[k]) \in ToSet(large)
    <3> SUFFICES ASSUME NEW k \in DOMAIN small
                 PROVE  Target(small[k]) \in ToSet(large)
      OBVIOUS
    <3> DEFINE key == [h \in ToSet(large) |-> GridDistance(small[k].cell, h.cell)]
    <3>1. \A i \in DOMAIN large : key[large[i]] \in Int
      <4>1. \A i \in DOMAIN large : large[i] \in ToSet(large)
        BY DEF ToSet
      <4> QED BY <2>6, <2>7, <4>1 DEF GridDistance
    <3> HIDE DEF key
    <3>2. FirstMin(large, key) \in ToSet(large)
      BY <1>2, <2>4, <3>1, FirstMinIsLeast
    <3> QED BY <3>2 DEF key
  <2> HIDE DEF Target
  <2>12. ASSUME NEW h, h.tasks \in Seq(X), IsInjective(h.tasks), NEW i \in DOMAIN large, h = large[i]
         PROVE  /\ Merged(h) \in Seq(X) /\ IsInjective(Merged(h))
                /\ \A x : x \in ToSet(Merged(h)) <=>
                     \/ x \in ToSet(h.tasks)
                     \/ \E k \in K(h.cell) : x \in ToSet(small[k].tasks)
    <3> DEFINE A == K(h.cell)
               a == Ascending(A)
               J == Pick(small, A)
               T == [k \in DOMAIN J |-> J[k].tasks]
    <3>1. A \in SUBSET DOMAIN small
      OBVIOUS
    <3>2. Merged(h) = h.tasks \o Concat(T)
      OBVIOUS
    <3> HIDE DEF A, Merged
    <3>3. /\ DOMAIN J = 1..Len(J) /\ Len(J) \in Nat
          /\ \A k \in DOMAIN J : a[k] \in A /\ J[k] = small[a[k]]
          /\ \A k, l \in DOMAIN J : k # l => a[k] # a[l]
          /\ \A q \in A : \E k \in DOMAIN J : a[k] = q
      BY <2>5, <3>1, PickPlaces
    <3> HIDE DEF a, J
    <3>6. DOMAIN T = DOMAIN J /\ \A k \in DOMAIN J : T[k] = small[a[k]].tasks
      BY <3>3
    <3>7. T \in Seq(Seq(X))
      <4>1. T \in [1..Len(J) -> Seq(X)]
        BY <2>7, <3>1, <3>3
      <4> QED BY <3>3, <4>1
    <3> HIDE DEF T
    <3>8. /\ \A k \in DOMAIN T : IsInjective(T[k])
          /\ \A k, l \in DOMAIN T : k # l => Apart(T[k], T[l])
      BY <2>7, <2>9, <3>1, <3>3, <3>6
    <3>9. /\ Concat(T) \in Seq(X) /\ IsInjective(Concat(T))
          /\ \A k \in DOMAIN T : \A x \in ToSet(T[k]) : x \in ToSet(Concat(T))
          /\ \A x \in ToSet(Concat(T)) : \E k \in DOMAIN T : x \in ToSet(T[k])
      BY <3>7, <3>8, ConcatJoins
    <3>10. \A x : x \in ToSet(Concat(T)) <=> \E k \in A : x \in ToSet(small[k].tasks)
      BY <3>3, <3>6, <3>9
    <3>11. Apart(h.tasks, Concat(T))
      BY <2>10, <2>12, <3>1, <3>10 DEF Apart
    <3> QED BY <2>12, <3>2, <3>9, <3>10, <3>11, JoinOfTwo DEF A
  <2>13. \A i \in DOMAIN large :
           /\ Merged(large[i]) \in Seq(X) /\ IsInjective(Merged(large[i]))
           /\ \A x : x \in ToSet(Merged(large[i])) <=>
                \/ x \in ToSet(large[i].tasks)
                \/ \E k \in K(large[i].cell) : x \in ToSet(small[k].tasks)
    BY <2>6, <2>12
  <2> HIDE DEF Merged
  <2>14. DOMAIN m = DOMAIN large
         /\ \A i \in DOMAIN large : m[i].cell = large[i].cell /\ m[i].tasks = Merged(large[i])
    BY <2>1
  <2>15. m \in Seq(R)
    <3>3. \A c \in Int : \A s \in Seq(X) : [cell |-> c, tasks |-> s] \in R
      BY DEF R, X
    <3>1. \A i \in DOMAIN large : [cell |-> large[i].cell, tasks |-> Merged(large[i])] \in R
      BY <2>6, <2>13, <3>3
    <3>2. m \in [1..Len(large) -> R]
      BY <2>1, <2>4, <3>1
    <3> HIDE DEF m
    <3> QED BY <2>4, <3>2
  <2> HIDE DEF m
  <2>16. \A i, j \in DOMAIN m : i # j =>
           m[i].cell # m[j].cell /\ Apart(m[i].tasks, m[j].tasks)
    <3> SUFFICES ASSUME NEW i \in DOMAIN large, NEW j \in DOMAIN large, i # j
                 PROVE  /\ large[i].cell # large[j].cell
                        /\ Apart(Merged(large[i]), Merged(large[j]))
      BY <2>14
    <3>1. large[i].cell # large[j].cell /\ Apart(large[i].tasks, large[j].tasks)
      BY <2>8
    <3>2. \A k \in K(large[i].cell) : k \in DOMAIN small /\ k \notin K(large[j].cell)
      BY <3>1
    <3>3. \A k \in K(large[j].cell) : k \in DOMAIN small
      OBVIOUS
    <3> HIDE DEF K
    <3>4. ASSUME NEW x, x \in ToSet(Merged(large[i])), x \in ToSet(Merged(large[j]))
          PROVE  FALSE
      <4>1. \/ x \in ToSet(large[i].tasks)
            \/ \E k \in K(large[i].cell) : x \in ToSet(small[k].tasks)
        BY <2>13, <3>4
      <4>2. \/ x \in ToSet(large[j].tasks)
            \/ \E k \in K(large[j].cell) : x \in ToSet(small[k].tasks)
        BY <2>13, <3>4
      <4> QED BY <2>9, <2>10, <3>1, <3>2, <3>3, <4>1, <4>2 DEF Apart
    <3> QED BY <3>1, <3>4 DEF Apart
  <2>17. \A t \in X : \E i \in DOMAIN m : t \in ToSet(m[i].tasks)
    <3> SUFFICES ASSUME NEW t \in X
                 PROVE  \E i \in DOMAIN large : t \in ToSet(Merged(large[i]))
      BY <2>14
    <3>1. PICK q \in DOMAIN regions : t \in ToSet(regions[q].tasks)
      BY <2>2
    <3>2. CASE q \in big
      <4>1. PICK i \in DOMAIN large : aL[i] = q
        BY <2>4, <3>2
      <4> QED BY <2>4, <2>13, <3>1, <4>1
    <3>3. CASE q \notin big
      <4>1. PICK k \in DOMAIN small : aS[k] = q
        BY <2>3, <2>5, <3>3
      <4>2. PICK i \in DOMAIN large : Target(small[k]) = large[i]
        BY <2>11 DEF ToSet
      <4>3. k \in K(large[i].cell) /\ t \in ToSet(small[k].tasks)
        BY <2>5, <3>1, <4>1, <4>2
      <4> HIDE DEF K
      <4> QED BY <2>13, <4>3
    <3> QED BY <3>2, <3>3
  <2>18. \A i \in DOMAIN m : IsInjective(m[i].tasks)
    BY <2>13, <2>14
  <2> QED BY <2>15, <2>16, <2>17, <2>18 DEF RegionsOK, m, R, X
<1> QED BY <1>1, <1>2

\* A region's fieldmen are some of the request's, each once, whoever is taken.
LEMMA RegionFieldmenServe ==
  ASSUME NEW r, RequestOK(r), r.fieldmen # <<>>, NEW taken, NEW cell
  PROVE  LET own == RegionFieldmen(r, taken, cell)
         IN own \in Seq(ToSet(r.fieldmen)) /\ own # <<>> /\ IsInjective(own)
<1> DEFINE M == ToSet(r.fieldmen)
           nearOnes == {f \in M : CoarseCellOf(r, r.fmAt[f]) \in KRing(cell, 2)}
           free == Only(r.fieldmen, M \ taken)
           near == Only(free, nearOnes)
           any == Only(r.fieldmen, nearOnes) \o r.fieldmen
           own == RegionFieldmen(r, taken, cell)
<1>1. own = IF near # <<>> THEN near ELSE IF free # <<>> THEN <<Head(free)>> ELSE <<Head(any)>>
  BY DEF RegionFieldmen
<1>2. r.fieldmen \in Seq(M) /\ IsInjective(r.fieldmen)
  <2>1. \A i \in DOMAIN r.fieldmen : r.fieldmen[i] \in M
    BY DEF ToSet
  <2>2. r.fieldmen \in Seq(DOMAIN r.fmAt) /\ IsInjective(r.fieldmen)
    BY DEF RequestOK
  <2> HIDE DEF M
  <2> QED BY <2>1, <2>2
<1> HIDE DEF M, nearOnes
<1>3. free \in Seq(M) /\ IsInjective(free)
  BY <1>2, OnlyKeeps
<1> HIDE DEF free
<1>4. near \in Seq(M) /\ IsInjective(near)
  BY <1>3, OnlyKeeps
<1>5. any \in Seq(M) /\ any # <<>>
  <2> DEFINE s == Only(r.fieldmen, nearOnes)
  <2>1. s \in Seq(M)
    BY <1>2, OnlyKeeps
  <2> HIDE DEF s
  <2>2. any = s \o r.fieldmen
    BY DEF s
  <2> QED BY <1>2, <2>1, <2>2
<1> HIDE DEF any, near, own
<1>6. \A f \in M : <<f>> \in Seq(M) /\ <<f>> # <<>> /\ IsInjective(<<f>>)
  BY DEF IsInjective
<1>7. free # <<>> => Head(free) \in M
  BY <1>3
<1>8. Head(any) \in M
  BY <1>5
<1> QED BY <1>1, <1>4, <1>6, <1>7, <1>8 DEF own, M

\* Partitions: each with somebody to serve it, no fieldman or task twice in one, and
\* no task in two.
PartsOK(r, parts) ==
  /\ parts \in Seq([tasks : Seq(ToSet(r.tasks)), fieldmen : Seq(ToSet(r.fieldmen))])
  /\ \A i \in DOMAIN parts : /\ IsInjective(parts[i].tasks) /\ IsInjective(parts[i].fieldmen)
                             /\ parts[i].fieldmen # <<>>
  /\ \A i, j \in DOMAIN parts : i # j => Apart(parts[i].tasks, parts[j].tasks)

Covers(r, parts) ==
  \A t \in ToSet(r.tasks) : \E i \in DOMAIN parts : t \in ToSet(parts[i].tasks)

\* f gives each region in turn fieldmen in view of those given before it.
Gives(r, regions, f, n) ==
  f = [i \in 1..n |->
        RegionFieldmen(r, UNION {ToSet(f[j]) : j \in 1..(i - 1)}, regions[i].cell)]

\* There is such a function: the recursion of partition_problem is well founded.
LEMMA GivenExists ==
  ASSUME NEW r, NEW regions, NEW n \in Nat
  PROVE  \E f : Gives(r, regions, f, n)
<1> DEFINE V(f, i) == RegionFieldmen(r, UNION {ToSet(f[j]) : j \in 1..(i - 1)}, regions[i].cell)
           Fits(f, k) == f = [i \in 1..k |-> V(f, i)]
           Bad == {k \in 0..n : ~ \E f : Fits(f, k)}
<1>1. ASSUME NEW f, NEW g, NEW i \in Nat, \A j \in 1..(i - 1) : f[j] = g[j]
      PROVE  V(f, i) = V(g, i)
  <2>1. {ToSet(f[j]) : j \in 1..(i - 1)} = {ToSet(g[j]) : j \in 1..(i - 1)}
    BY <1>1
  <2> QED BY <2>1
<1>2. \E f : Fits(f, 0)
  <2> DEFINE g == [i \in 1..0 |-> i]
  <2>1. Fits(g, 0)
    OBVIOUS
  <2> QED BY <2>1
<1>3. ASSUME NEW k \in Nat, NEW f, Fits(f, k)
      PROVE  \E g : Fits(g, k + 1)
  <2> DEFINE g == [i \in 1..(k + 1) |-> IF i = k + 1 THEN V(f, k + 1) ELSE f[i]]
  <2> HIDE DEF V
  <2>1. \A i \in 1..(k + 1) : \A j \in 1..(i - 1) : f[j] = g[j]
    OBVIOUS
  <2>2. \A i \in 1..(k + 1) : V(f, i) = V(g, i)
    BY <1>1, <2>1
  <2>3. \A i \in 1..k : f[i] = V(f, i)
    BY <1>3
  <2>4. \A i \in 1..(k + 1) : g[i] = V(g, i)
    BY <2>2, <2>3
  <2>5. g = [i \in 1..(k + 1) |-> g[i]]
    OBVIOUS
  <2> HIDE DEF g
  <2>6. Fits(g, k + 1)
    BY <2>4, <2>5
  <2> QED BY <2>6
<1> HIDE DEF Fits
<1>4. Bad = {}
  <2> SUFFICES ASSUME Bad # {} PROVE FALSE
    OBVIOUS
  <2>1. Bad \in SUBSET Int /\ IsFiniteSet(Bad)
    <3>1. IsFiniteSet(0..n)
      BY FS_Interval
    <3> QED BY <3>1, FS_Subset
  <2>2. PICK k \in Bad : \A q \in Bad : k =< q
    BY <2>1, Extremes
  <2>3. k # 0
    BY <1>2
  <2>4. k - 1 \in 0..n /\ k - 1 \notin Bad
    BY <2>2, <2>3
  <2>5. PICK f : Fits(f, k - 1)
    BY <2>4
  <2>6. k - 1 \in Nat /\ (k - 1) + 1 = k
    BY <2>4
  <2>7. \E g : Fits(g, k)
    BY <1>3, <2>5, <2>6
  <2> QED BY <2>7
<1>5. n \in 0..n
  OBVIOUS
<1>6. \E f : Fits(f, n)
  BY <1>4, <1>5
<1> QED BY <1>6 DEF Fits, Gives

\* The regions of a large problem, or the whole of a small one, are such partitions
\* and have every task between them.
LEMMA ProblemIsDivided ==
  ASSUME NEW r, RequestOK(r), r.fieldmen # <<>>, NEW maxSize
  PROVE  PartsOK(r, PartitionProblem(r, maxSize)) /\ Covers(r, PartitionProblem(r, maxSize))
<1> DEFINE X == ToSet(r.tasks)
           M == ToSet(r.fieldmen)
           P == [tasks : Seq(X), fieldmen : Seq(M)]
           p == PartitionProblem(r, maxSize)
<1>1. r.tasks \in Seq(X) /\ IsInjective(r.tasks) /\ r.fieldmen \in Seq(M) /\ IsInjective(r.fieldmen)
  <2>1. /\ \A i \in DOMAIN r.fieldmen : r.fieldmen[i] \in M
        /\ \A i \in DOMAIN r.tasks : r.tasks[i] \in X
    BY DEF ToSet
  <2>2. /\ r.fieldmen \in Seq(DOMAIN r.fmAt) /\ IsInjective(r.fieldmen)
        /\ r.tasks \in Seq(DOMAIN r.taskAt) /\ IsInjective(r.tasks)
    BY DEF RequestOK
  <2> HIDE DEF M, X
  <2> QED BY <2>1, <2>2
<1> HIDE DEF X, M
<1>2. \A s \in Seq(X) : \A f \in Seq(M) : [tasks |-> s, fieldmen |-> f] \in P
  OBVIOUS
<1> HIDE DEF P
<1>3. CASE Len(r.tasks) =< maxSize
  <2> DEFINE q == [tasks |-> r.tasks, fieldmen |-> r.fieldmen]
  <2>1. p = <<q>>
    BY <1>3 DEF PartitionProblem
  <2>2. q \in P /\ q.tasks = r.tasks /\ q.fieldmen = r.fieldmen
    BY <1>1, <1>2
  <2> HIDE DEF q, p
  <2>3. p \in Seq(P) /\ DOMAIN p = {1} /\ p[1] = q
    BY <2>1, <2>2
  <2>4. PartsOK(r, p)
    BY <1>1, <2>2, <2>3 DEF PartsOK, P, X, M
  <2>5. Covers(r, p)
    BY <2>2, <2>3 DEF Covers
  <2> QED BY <2>4, <2>5 DEF p
<1>4. CASE ~(Len(r.tasks) =< maxSize)
  <2> DEFINE regions == MergeSmallRegions(Regions(r))
             given == CHOOSE f : f = [i \in DOMAIN regions |->
               RegionFieldmen(r, UNION {ToSet(f[j]) : j \in 1..(i - 1)}, regions[i].cell)]
  <2>1. p = [i \in DOMAIN regions |-> [tasks |-> regions[i].tasks, fieldmen |-> given[i]]]
    BY <1>4 DEF PartitionProblem
  <2>2. RegionsOK(r, regions)
    BY RegionsAreOK, MergeKeepsOK
  <2> HIDE DEF regions
  <2>3. /\ DOMAIN regions = 1..Len(regions) /\ Len(regions) \in Nat
        /\ \A i \in DOMAIN regions : regions[i].tasks \in Seq(X) /\ IsInjective(regions[i].tasks)
        /\ \A i, j \in DOMAIN regions : i # j => Apart(regions[i].tasks, regions[j].tasks)
        /\ \A t \in X : \E i \in DOMAIN regions : t \in ToSet(regions[i].tasks)
    <3> DEFINE R == [cell : Int, tasks : Seq(X)]
    <3>1. /\ regions \in Seq(R)
          /\ \A i \in DOMAIN regions : IsInjective(regions[i].tasks)
          /\ \A i, j \in DOMAIN regions : i # j => Apart(regions[i].tasks, regions[j].tasks)
          /\ \A t \in X : \E i \in DOMAIN regions : t \in ToSet(regions[i].tasks)
      BY <2>2 DEF RegionsOK, X
    <3>2. \A g \in R : g.tasks \in Seq(X)
      OBVIOUS
    <3> HIDE DEF R
    <3> QED BY <3>1, <3>2
  <2>4. \E f : f = [i \in DOMAIN regions |->
               RegionFieldmen(r, UNION {ToSet(f[j]) : j \in 1..(i - 1)}, regions[i].cell)]
    <3>1. Len(regions) \in Nat /\ DOMAIN regions = 1..Len(regions)
      BY <2>3
    <3>2. PICK f : Gives(r, regions, f, Len(regions))
      BY <3>1, GivenExists
    <3> QED BY <3>1, <3>2 DEF Gives
  <2>5. given = [i \in DOMAIN regions |->
               RegionFieldmen(r, UNION {ToSet(given[j]) : j \in 1..(i - 1)}, regions[i].cell)]
    BY <2>4
  <2> HIDE DEF given
  <2>6. \A i \in DOMAIN regions : /\ given[i] \in Seq(M) /\ given[i] # <<>> /\ IsInjective(given[i])
    BY <2>5, RegionFieldmenServe DEF M
  <2>7. /\ DOMAIN p = DOMAIN regions
        /\ \A i \in DOMAIN regions : p[i].tasks = regions[i].tasks /\ p[i].fieldmen = given[i]
    BY <2>1
  <2>8. p \in Seq(P)
    <3>1. \A i \in DOMAIN regions : [tasks |-> regions[i].tasks, fieldmen |-> given[i]] \in P
      BY <1>2, <2>3, <2>6
    <3>2. p \in [1..Len(regions) -> P]
      BY <2>1, <2>3, <3>1
    <3> HIDE DEF p
    <3> QED BY <2>3, <3>2
  <2> HIDE DEF p
  <2>9. PartsOK(r, p)
    <3>1. /\ \A i \in DOMAIN p : /\ IsInjective(p[i].tasks) /\ IsInjective(p[i].fieldmen)
                                 /\ p[i].fieldmen # <<>>
          /\ \A i, j \in DOMAIN p : i # j => Apart(p[i].tasks, p[j].tasks)
      BY <2>3, <2>6, <2>7
    <3> QED BY <2>8, <3>1 DEF PartsOK, P, X, M
  <2>10. Covers(r, p)
    BY <2>3, <2>7 DEF Covers, X
  <2> QED BY <2>9, <2>10 DEF p
<1> QED BY <1>3, <1>4

\* The tasks of each fieldman, in pieces no larger than the limit.
LEMMA OwnTasksArePieces ==
  ASSUME RequestOK(request), NEW f \in ToSet(request.fieldmen),
         assigned[f] \in Seq(ToSet(request.tasks)), IsInjective(assigned[f]), assigned[f] # <<>>
  PROVE  /\ PartitionsOf(f) \in Seq([tasks : Seq(ToSet(request.tasks)),
                                     fieldmen : Seq(ToSet(request.fieldmen))])
         /\ \A i \in DOMAIN PartitionsOf(f) :
              /\ PartitionsOf(f)[i].fieldmen = <<f>>
              /\ Len(PartitionsOf(f)[i].tasks) \in 1..MaxPerPartition
              /\ IsInjective(PartitionsOf(f)[i].tasks)
              /\ \A x \in ToSet(PartitionsOf(f)[i].tasks) : x \in ToSet(assigned[f])
         /\ \A i, j \in DOMAIN PartitionsOf(f) : i # j =>
              Apart(PartitionsOf(f)[i].tasks, PartitionsOf(f)[j].tasks)
         /\ \A x \in ToSet(assigned[f]) : \E i \in DOMAIN PartitionsOf(f) :
              x \in ToSet(PartitionsOf(f)[i].tasks)
<1> DEFINE X == ToSet(request.tasks)
           M == ToSet(request.fieldmen)
           P == [tasks : Seq(X), fieldmen : Seq(M)]
           own == assigned[f]
           s == SpatialSort(request, own)
           pieces == IF Len(own) =< MaxPerPartition THEN <<own>> ELSE Chunks(s, MaxPerPartition)
           ps == PartitionsOf(f)
<1>1. ps = [i \in DOMAIN pieces |-> [tasks |-> pieces[i], fieldmen |-> <<f>>]]
  BY DEF PartitionsOf
<1>2. /\ s \in Seq(X) /\ Len(s) = Len(own) /\ ToSet(s) = ToSet(own) /\ IsInjective(s)
  BY SpatialSortPermutes
<1>3. own \in Seq(X) /\ Len(own) \in Nat \ {0} /\ IsInjective(own)
  BY HasHead
<1>4. <<f>> \in Seq(M)
  OBVIOUS
<1>5. \A t \in Seq(X) : [tasks |-> t, fieldmen |-> <<f>>] \in P
  BY <1>4
<1>6. MaxPerPartition \in Nat \ {0}
  BY PlanningAssumption
<1> HIDE DEF X, M, P, own, s
<1>7. /\ pieces \in Seq(Seq(X))
      /\ \A i \in DOMAIN pieces : /\ Len(pieces[i]) \in 1..MaxPerPartition /\ IsInjective(pieces[i])
                                  /\ \A x \in ToSet(pieces[i]) : x \in ToSet(own)
      /\ \A i, j \in DOMAIN pieces : i # j => Apart(pieces[i], pieces[j])
      /\ \A x \in ToSet(own) : \E i \in DOMAIN pieces : x \in ToSet(pieces[i])
  <2>1. CASE Len(own) =< MaxPerPartition
    <3>1. pieces = <<own>>
      BY <2>1
    <3> HIDE DEF pieces
    <3>2. pieces \in Seq(Seq(X)) /\ DOMAIN pieces = {1} /\ pieces[1] = own
      BY <1>3, <3>1
    <3> QED BY <1>3, <1>6, <2>1, <3>2
  <2>2. CASE ~(Len(own) =< MaxPerPartition)
    <3> DEFINE c == Chunks(s, MaxPerPartition)
    <3>1. pieces = c
      BY <2>2
    <3>2. s # <<>>
      BY <1>2, <1>3
    <3>3. /\ c \in Seq(Seq(X))
          /\ \A i \in DOMAIN c :
              /\ Len(c[i]) \in 1..MaxPerPartition
              /\ IsInjective(c[i])
              /\ ToSet(c[i]) \subseteq ToSet(s)
          /\ \A i, j \in DOMAIN c : i # j => Apart(c[i], c[j])
          /\ \A x \in ToSet(s) : \E i \in DOMAIN c : x \in ToSet(c[i])
      BY <1>2, <1>6, <3>2, ChunksCut
    <3> HIDE DEF c
    <3> QED BY <1>2, <3>1, <3>3
  <2> QED BY <2>1, <2>2
<1> HIDE DEF pieces
<1>8. DOMAIN ps = DOMAIN pieces /\ \A i \in DOMAIN pieces : ps[i].tasks = pieces[i] /\ ps[i].fieldmen = <<f>>
  BY <1>1
<1>9. ps \in Seq(P)
  <2>1. DOMAIN pieces = 1..Len(pieces) /\ Len(pieces) \in Nat /\ \A i \in DOMAIN pieces : pieces[i] \in Seq(X)
    BY <1>7
  <2>2. \A i \in DOMAIN pieces : [tasks |-> pieces[i], fieldmen |-> <<f>>] \in P
    BY <1>5, <2>1
  <2>3. ps \in [1..Len(pieces) -> P]
    BY <1>1, <2>1, <2>2
  <2> HIDE DEF ps
  <2> QED BY <2>1, <2>3
<1> HIDE DEF ps
<1>10. /\ \A i \in DOMAIN ps :
            /\ ps[i].fieldmen = <<f>>
            /\ Len(ps[i].tasks) \in 1..MaxPerPartition
            /\ IsInjective(ps[i].tasks)
            /\ \A x \in ToSet(ps[i].tasks) : x \in ToSet(own)
       /\ \A i, j \in DOMAIN ps : i # j => Apart(ps[i].tasks, ps[j].tasks)
       /\ \A x \in ToSet(own) : \E i \in DOMAIN ps : x \in ToSet(ps[i].tasks)
  BY <1>7, <1>8
<1> QED BY <1>9, <1>10 DEF ps, own, P, X, M

\* What Split makes of the assignment: partitions in order, none too large, and no
\* assigned task left out.
LEMMA SplitDivides ==
  ASSUME RequestOK(request),
         \A f \in ToSet(request.fieldmen) :
           assigned[f] \in Seq(ToSet(request.tasks)) /\ IsInjective(assigned[f]),
         \A f, g \in ToSet(request.fieldmen) : f # g => Apart(assigned[f], assigned[g]),
         DOMAIN assigned = ToSet(request.fieldmen),
         NEW all,
         all = LET busy == Only(request.fieldmen, {f \in DOMAIN assigned : assigned[f] # <<>>})
               IN Concat([i \in DOMAIN busy |-> PartitionsOf(busy[i])])
  PROVE  /\ PartsOK(request, all)
         /\ \A i \in DOMAIN all : Len(all[i].tasks) =< MaxPerPartition
         /\ \A f \in ToSet(request.fieldmen) : \A x \in ToSet(assigned[f]) :
              \E i \in DOMAIN all : x \in ToSet(all[i].tasks)
<1> DEFINE X == ToSet(request.tasks)
           M == ToSet(request.fieldmen)
           P == [tasks : Seq(X), fieldmen : Seq(M)]
           A == {f \in DOMAIN assigned : assigned[f] # <<>>}
           busy == Only(request.fieldmen, A)
           ss == [i \in DOMAIN busy |-> PartitionsOf(busy[i])]
<1>1. request.fieldmen \in Seq(M) /\ IsInjective(request.fieldmen)
  <2>1. \A i \in DOMAIN request.fieldmen : request.fieldmen[i] \in M
    BY DEF ToSet
  <2>2. request.fieldmen \in Seq(DOMAIN request.fmAt) /\ IsInjective(request.fieldmen)
    BY DEF RequestOK
  <2> HIDE DEF M
  <2> QED BY <2>1, <2>2
<1>2. ToSet(request.fieldmen) \cap A = A
  OBVIOUS
<1>3. \A f \in A : f \in M /\ assigned[f] # <<>>
  OBVIOUS
<1>4. \A f \in M : assigned[f] # <<>> => f \in A
  OBVIOUS
<1>5. all = Concat(ss)
  OBVIOUS
<1> HIDE DEF A
<1>6. busy \in Seq(M) /\ IsInjective(busy) /\ ToSet(busy) = A
  BY <1>1, <1>2, OnlyKeeps
<1> HIDE DEF busy
<1>7. DOMAIN busy = 1..Len(busy) /\ Len(busy) \in Nat /\ \A i \in DOMAIN busy : busy[i] \in A /\ busy[i] \in M
  BY <1>3, <1>6 DEF ToSet
<1>8. \A i \in DOMAIN busy : ss[i] = PartitionsOf(busy[i])
  OBVIOUS
<1>9. \A i \in DOMAIN ss :
        /\ ss[i] \in Seq(P)
        /\ \A k \in DOMAIN ss[i] :
              /\ ss[i][k].fieldmen = <<busy[i]>>
              /\ Len(ss[i][k].tasks) \in 1..MaxPerPartition
              /\ IsInjective(ss[i][k].tasks)
              /\ \A x \in ToSet(ss[i][k].tasks) : x \in ToSet(assigned[busy[i]])
        /\ \A k, l \in DOMAIN ss[i] : k # l => Apart(ss[i][k].tasks, ss[i][l].tasks)
        /\ \A x \in ToSet(assigned[busy[i]]) : \E k \in DOMAIN ss[i] : x \in ToSet(ss[i][k].tasks)
  <2> SUFFICES ASSUME NEW i \in DOMAIN busy
               PROVE  LET s == PartitionsOf(busy[i]) IN
          /\ s \in Seq(P)
          /\ \A k \in DOMAIN s :
              /\ s[k].fieldmen = <<busy[i]>>
              /\ Len(s[k].tasks) \in 1..MaxPerPartition
              /\ IsInjective(s[k].tasks)
              /\ \A x \in ToSet(s[k].tasks) : x \in ToSet(assigned[busy[i]])
          /\ \A k, l \in DOMAIN s : k # l => Apart(s[k].tasks, s[l].tasks)
          /\ \A x \in ToSet(assigned[busy[i]]) : \E k \in DOMAIN s : x \in ToSet(s[k].tasks)
    BY <1>8
  <2>1. busy[i] \in M /\ assigned[busy[i]] # <<>>
    BY <1>3, <1>7
  <2>2. assigned[busy[i]] \in Seq(X) /\ IsInjective(assigned[busy[i]])
    BY <2>1
  <2> QED BY <2>1, <2>2, OwnTasksArePieces
<1>10. \A p \in P : p.tasks \in Seq(X) /\ p.fieldmen \in Seq(M)
  OBVIOUS
<1> HIDE DEF P, X
<1>11. ss \in Seq(Seq(P)) /\ DOMAIN ss = DOMAIN busy
  <2>1. \A i \in 1..Len(busy) : PartitionsOf(busy[i]) \in Seq(P)
    BY <1>7, <1>8, <1>9
  <2>2. ss \in [1..Len(busy) -> Seq(P)]
    BY <1>7, <2>1
  <2> HIDE DEF ss
  <2> QED BY <1>7, <2>2
<1> HIDE DEF ss
<1>12. \A i \in DOMAIN ss : \A k \in DOMAIN ss[i] : \E x \in ToSet(ss[i][k].tasks) : TRUE
  <2> SUFFICES ASSUME NEW i \in DOMAIN ss, NEW k \in DOMAIN ss[i]
               PROVE  \E x \in ToSet(ss[i][k].tasks) : TRUE
    OBVIOUS
  <2>1. ss[i] \in Seq(P)
    BY <1>9
  <2>2. ss[i][k] \in P
    BY <2>1
  <2>3. ss[i][k].tasks \in Seq(X) /\ Len(ss[i][k].tasks) \in 1..MaxPerPartition
    BY <1>9, <1>10, <2>2
  <2>4. 1 \in DOMAIN ss[i][k].tasks
    BY <2>3, PlanningAssumption
  <2> QED BY <2>4 DEF ToSet
<1>13. \A i, j \in DOMAIN ss : i # j =>
         \A k \in DOMAIN ss[i] : \A l \in DOMAIN ss[j] : Apart(ss[i][k].tasks, ss[j][l].tasks)
  <2> SUFFICES ASSUME NEW i \in DOMAIN ss, NEW j \in DOMAIN ss, i # j,
                      NEW k \in DOMAIN ss[i], NEW l \in DOMAIN ss[j],
                      NEW x, x \in ToSet(ss[i][k].tasks), x \in ToSet(ss[j][l].tasks)
               PROVE  FALSE
    BY DEF Apart
  <2>1. busy[i] # busy[j] /\ busy[i] \in M /\ busy[j] \in M
    BY <1>6, <1>7, <1>11 DEF IsInjective
  <2>2. Apart(assigned[busy[i]], assigned[busy[j]])
    BY <2>1
  <2>3. x \in ToSet(assigned[busy[i]]) /\ x \in ToSet(assigned[busy[j]])
    BY <1>9
  <2> QED BY <2>2, <2>3 DEF Apart
<1>14. \A i \in DOMAIN ss : IsInjective(ss[i])
  <2> SUFFICES ASSUME NEW i \in DOMAIN ss, NEW k \in DOMAIN ss[i], NEW l \in DOMAIN ss[i],
                      ss[i][k] = ss[i][l], k # l
               PROVE  FALSE
    BY DEF IsInjective
  <2>1. Apart(ss[i][k].tasks, ss[i][l].tasks)
    BY <1>9
  <2> QED BY <1>12, <2>1 DEF Apart
<1>15. \A i, j \in DOMAIN ss : i # j => Apart(ss[i], ss[j])
  <2> SUFFICES ASSUME NEW i \in DOMAIN ss, NEW j \in DOMAIN ss, i # j,
                      NEW k \in DOMAIN ss[i], NEW l \in DOMAIN ss[j], ss[i][k] = ss[j][l]
               PROVE  FALSE
    BY DEF Apart, ToSet
  <2>1. Apart(ss[i][k].tasks, ss[j][l].tasks)
    BY <1>13
  <2> QED BY <1>12, <2>1 DEF Apart
<1>16. /\ all \in Seq(P) /\ IsInjective(all)
       /\ \A i \in DOMAIN ss : \A p \in ToSet(ss[i]) : p \in ToSet(all)
       /\ \A p \in ToSet(all) : \E i \in DOMAIN ss : p \in ToSet(ss[i])
  BY <1>5, <1>11, <1>14, <1>15, ConcatJoins
<1>17. \A a \in DOMAIN all : \E i \in DOMAIN ss : \E k \in DOMAIN ss[i] : all[a] = ss[i][k]
  <2> SUFFICES ASSUME NEW a \in DOMAIN all
               PROVE  \E i \in DOMAIN ss : \E k \in DOMAIN ss[i] : all[a] = ss[i][k]
    OBVIOUS
  <2>1. all[a] \in ToSet(all)
    BY DEF ToSet
  <2>2. PICK i \in DOMAIN ss : all[a] \in ToSet(ss[i])
    BY <1>16, <2>1
  <2> QED BY <2>2 DEF ToSet
<1>18. \A a \in DOMAIN all : /\ IsInjective(all[a].tasks) /\ IsInjective(all[a].fieldmen)
                             /\ all[a].fieldmen # <<>>
                             /\ Len(all[a].tasks) =< MaxPerPartition
  <2> SUFFICES ASSUME NEW a \in DOMAIN all
               PROVE  /\ IsInjective(all[a].tasks) /\ IsInjective(all[a].fieldmen)
                      /\ all[a].fieldmen # <<>>
                      /\ Len(all[a].tasks) =< MaxPerPartition
    OBVIOUS
  <2>1. PICK i \in DOMAIN ss : \E k \in DOMAIN ss[i] : all[a] = ss[i][k]
    BY <1>17
  <2>4. PICK k \in DOMAIN ss[i] : all[a] = ss[i][k]
    BY <2>1
  <2>2. all[a].fieldmen = <<busy[i]>> /\ Len(all[a].tasks) \in 1..MaxPerPartition /\ IsInjective(all[a].tasks)
    BY <1>9, <2>4
  <2>3. IsInjective(<<busy[i]>>) /\ <<busy[i]>> # <<>>
    BY DEF IsInjective
  <2>5. Len(all[a].tasks) =< MaxPerPartition
    BY <2>2, PlanningAssumption
  <2>6. IsInjective(all[a].fieldmen) /\ all[a].fieldmen # <<>>
    BY <2>2, <2>3
  <2> QED BY <2>2, <2>5, <2>6
<1>19. \A a, b \in DOMAIN all : a # b => Apart(all[a].tasks, all[b].tasks)
  <2> SUFFICES ASSUME NEW a \in DOMAIN all, NEW b \in DOMAIN all, a # b
               PROVE  Apart(all[a].tasks, all[b].tasks)
    OBVIOUS
  <2>1. all[a] # all[b]
    BY <1>16 DEF IsInjective
  <2>2. PICK i \in DOMAIN ss : \E k \in DOMAIN ss[i] : all[a] = ss[i][k]
    BY <1>17
  <2>3. PICK j \in DOMAIN ss : \E k \in DOMAIN ss[j] : all[b] = ss[j][k]
    BY <1>17
  <2>4. CASE i # j
    BY <1>13, <2>2, <2>3, <2>4
  <2>5. CASE i = j
    BY <1>9, <2>1, <2>2, <2>3, <2>5
  <2> QED BY <2>4, <2>5
<1>20. \A f \in M : \A x \in ToSet(assigned[f]) : \E a \in DOMAIN all : x \in ToSet(all[a].tasks)
  <2> SUFFICES ASSUME NEW f \in M, NEW x \in ToSet(assigned[f])
               PROVE  \E a \in DOMAIN all : x \in ToSet(all[a].tasks)
    OBVIOUS
  <2>1. assigned[f] # <<>>
    BY DEF ToSet
  <2>2. PICK i \in DOMAIN busy : busy[i] = f
    BY <1>4, <1>6, <2>1 DEF ToSet
  <2>3. PICK k \in DOMAIN ss[i] : x \in ToSet(ss[i][k].tasks)
    <3>1. \A y \in ToSet(assigned[busy[i]]) : \E k \in DOMAIN ss[i] : y \in ToSet(ss[i][k].tasks)
      BY <1>9, <1>11
    <3> QED BY <2>2, <3>1
  <2>4. ss[i][k] \in ToSet(all)
    BY <1>11, <1>16 DEF ToSet
  <2>5. PICK a \in DOMAIN all : all[a] = ss[i][k]
    BY <2>4 DEF ToSet
  <2> QED BY <2>3, <2>5
<1> QED BY <1>16, <1>18, <1>19, <1>20 DEF PartsOK, P, X, M

-----------------------------------------------------------------------------
(* The request while it is worked on *)

\* A request's tasks and fieldmen are lists without repetitions.
LEMMA ListsOfRequest ==
  ASSUME NEW r, RequestOK(r)
  PROVE  /\ r.tasks \in Seq(ToSet(r.tasks)) /\ IsInjective(r.tasks)
         /\ r.fieldmen \in Seq(ToSet(r.fieldmen)) /\ IsInjective(r.fieldmen)
<1> DEFINE M == ToSet(r.fieldmen)
           X == ToSet(r.tasks)
<1>1. /\ \A i \in DOMAIN r.fieldmen : r.fieldmen[i] \in M
      /\ \A i \in DOMAIN r.tasks : r.tasks[i] \in X
  BY DEF ToSet
<1>2. /\ r.fieldmen \in Seq(DOMAIN r.fmAt) /\ IsInjective(r.fieldmen)
      /\ r.tasks \in Seq(DOMAIN r.taskAt) /\ IsInjective(r.tasks)
  BY DEF RequestOK
<1> HIDE DEF M, X
<1>3. r.tasks \in Seq(X) /\ r.fieldmen \in Seq(M)
  BY <1>1, <1>2
<1> QED BY <1>2, <1>3 DEF M, X

\* Other rows of the tasks leave a request in order.
LEMMA OtherTasksKeepOK ==
  ASSUME NEW r, RequestOK(r), NEW s \in Seq(DOMAIN r.taskAt), IsInjective(s)
  PROVE  /\ RequestOK([r EXCEPT !.tasks = s])
         /\ [r EXCEPT !.tasks = s].tasks = s
         /\ \A x \in DOMAIN r \ {"tasks"} : [r EXCEPT !.tasks = s][x] = r[x]
<1> DEFINE w == [r EXCEPT !.tasks = s]
<1>1. DOMAIN w = DOMAIN r /\ w.tasks = s /\ \A x \in DOMAIN r \ {"tasks"} : w[x] = r[x]
  BY DEF RequestOK
<1> HIDE DEF w
<1>2. /\ w.via = r.via /\ w.range = r.range /\ w.limit = r.limit /\ w.offset = r.offset
      /\ w.areas = r.areas
      /\ w.fieldmen = r.fieldmen /\ w.strategy = r.strategy
      /\ w.resolution = r.resolution /\ w.fmAreas = r.fmAreas /\ w.taskAt = r.taskAt
      /\ w.fmAt = r.fmAt /\ w.priority = r.priority /\ w.manual = r.manual
      /\ w.areaMap = r.areaMap
  BY <1>1 DEF RequestOK
<1>3. RequestOK(w)
  BY <1>1, <1>2 DEF RequestOK
<1> QED BY <1>1, <1>3 DEF w

\* So does another resolution.
LEMMA OtherResolutionKeepsOK ==
  ASSUME NEW r, RequestOK(r), NEW k \in 1..15
  PROVE  /\ RequestOK([r EXCEPT !.resolution = k])
         /\ \A x \in DOMAIN r \ {"resolution"} : [r EXCEPT !.resolution = k][x] = r[x]
<1> DEFINE w == [r EXCEPT !.resolution = k]
<1>1. DOMAIN w = DOMAIN r /\ w.resolution = k /\ \A x \in DOMAIN r \ {"resolution"} : w[x] = r[x]
  BY DEF RequestOK
<1> HIDE DEF w
<1>2. /\ w.via = r.via /\ w.range = r.range /\ w.limit = r.limit /\ w.offset = r.offset
      /\ w.areas = r.areas
      /\ w.fieldmen = r.fieldmen /\ w.strategy = r.strategy
      /\ w.tasks = r.tasks /\ w.fmAreas = r.fmAreas /\ w.taskAt = r.taskAt
      /\ w.fmAt = r.fmAt /\ w.priority = r.priority /\ w.manual = r.manual
      /\ w.areaMap = r.areaMap
  BY <1>1 DEF RequestOK
<1>3. RequestOK(w)
  BY <1>1, <1>2 DEF RequestOK
<1> QED BY <1>1, <1>3 DEF w

\* The resolution that a job ends up with is one.
LEMMA ResolutionIsOne ==
  ASSUME NEW r, RequestOK(r)
  PROVE  Resolution(r) \in 1..15
<1>1. SuggestResolution(r) \in {6, 7, 8, 9}
  BY DEF SuggestResolution
<1>2. r.resolution \in 1..15
  BY DEF RequestOK
<1> QED BY <1>1, <1>2 DEF Resolution

\* What each of the steps before the assignment makes of the request.
LEMMA AskKeepsOK ==
  ASSUME RequestOK(request), Ask
  PROVE  /\ RequestOK(request')
         /\ \A x \in DOMAIN request \ {"areaIds", "areaMap", "priority", "range"} :
              request'[x] = request[x]
         /\ request.via # "jobs" /\ request.areas # <<>> /\ request.taskAt # <<>> =>
              \A t \in DOMAIN request.taskAt :
                t \in DOMAIN request'.areaMap /\ request'.areaMap[t] \in request'.areaIds
<1>1. request.via \in {"jobs", "optimize", "legacy"}
  BY DEF RequestOK
<1>2. CASE request.via = "jobs"
  <2>1. request' = request
    BY <1>2 DEF Ask
  <2> QED BY <1>2, <2>1
<1>3. CASE request.via = "optimize"
  <2>1. request' = WithAreas(request)
    BY <1>3 DEF Ask, Optimized
  <2> QED BY <1>3, <2>1, WithAreasKeepsOK
<1>4. CASE request.via = "legacy"
  <2>1. request' = LegacyOptimized(request)
    BY <1>4 DEF Ask
  <2> QED BY <1>4, <2>1, LegacyOptimizedKeepsOK
<1> QED BY <1>1, <1>2, <1>3, <1>4

\* Loading replaces the tasks by the rows selected, and nothing else.
LEMMA LoadKeepsOK ==
  ASSUME RequestOK(request), Load
  PROVE  /\ RequestOK(request') /\ request'.tasks = Selected(request)
         /\ \A x \in DOMAIN request \ {"tasks"} : request'[x] = request[x]
<1>1. request' = [request EXCEPT !.tasks = Selected(request)]
  BY DEF Load
<1>2. Selected(request) \in Seq(DOMAIN request.taskAt) /\ IsInjective(Selected(request))
  BY SelectedRows
<1> QED BY <1>1, <1>2, OtherTasksKeepOK

\* The filter keeps the allowed tasks in their order.
LEMMA FilterKeepsOK ==
  ASSUME RequestOK(request), FilterByArea
  PROVE  /\ RequestOK(request')
         /\ request'.tasks = Only(request.tasks, {t \in ToSet(request.tasks) : Allowed(t)})
         /\ request'.tasks \in Seq(ToSet(request.tasks))
         /\ ToSet(request'.tasks) = {t \in ToSet(request.tasks) : Allowed(t)}
         /\ \A x \in DOMAIN request \ {"tasks", "resolution"} : request'[x] = request[x]
<1> DEFINE A == {t \in ToSet(request.tasks) : Allowed(t)}
           s == Only(request.tasks, A)
           w == [request EXCEPT !.tasks = s]
<1>1. request' = [w EXCEPT !.resolution = Resolution(w)]
  BY DEF FilterByArea
<1>2. ToSet(request.tasks) \cap A = A
  OBVIOUS
<1> HIDE DEF A
<1>3. s \in Seq(ToSet(request.tasks)) /\ IsInjective(s) /\ ToSet(s) = A
  BY <1>2, ListsOfRequest, OnlyKeeps
<1>4. s \in Seq(DOMAIN request.taskAt)
  <2>1. request.tasks \in Seq(DOMAIN request.taskAt)
    BY DEF RequestOK
  <2> QED BY <2>1, OnlyKeeps
<1> HIDE DEF s
<1>5. /\ RequestOK(w) /\ w.tasks = s
      /\ \A x \in DOMAIN request \ {"tasks"} : w[x] = request[x]
  BY <1>3, <1>4, OtherTasksKeepOK
<1>6. DOMAIN w = DOMAIN request
  BY DEF RequestOK
<1> HIDE DEF w
<1>7. /\ RequestOK(request')
      /\ \A x \in DOMAIN w \ {"resolution"} : request'[x] = w[x]
  BY <1>1, <1>5, ResolutionIsOne, OtherResolutionKeepsOK
<1>8. request'.tasks = s
  BY <1>5, <1>7 DEF RequestOK
<1> QED BY <1>3, <1>5, <1>6, <1>7, <1>8 DEF s, A

-----------------------------------------------------------------------------
(* VROOM *)

Partition == [tasks : Seq(ToSet(request.tasks)), fieldmen : Seq(ToSet(request.fieldmen))]

\* What strategy manual_area promises of a task and its fieldman.
AreaFits(f, t) ==
  request.strategy = "manual_area" /\ t \in DOMAIN request.areaMap =>
    request.areaMap[t] \in request.fmAreas[f]

\* The ids of the payloads are those of the tasks in cell order and of the fieldmen;
\* and whoever has, after the renumbering, all skills that a task needs has its area.
LEMMA PayloadsSpeakOfPart ==
  ASSUME RequestOK(request), NEW part \in Partition
  PROVE  LET p == PartPayloads(part)
             sorted == SpatialSort(request, part.tasks)
         IN /\ DOMAIN p.jobs = DOMAIN sorted /\ DOMAIN p.vehicles = DOMAIN part.fieldmen
            /\ \A i \in DOMAIN sorted : p.jobs[i].id = sorted[i]
            /\ \A v \in DOMAIN part.fieldmen : p.vehicles[v].id = part.fieldmen[v]
            /\ \A i \in DOMAIN sorted : \A v \in DOMAIN part.fieldmen :
                 p.jobs[i].skills \subseteq p.vehicles[v].skills =>
                   AreaFits(part.fieldmen[v], sorted[i])
<1> DEFINE loc == Locations(part)
           index == [x \in ToSet(loc) |-> CHOOSE i \in DOMAIN loc : loc[i] = x]
           sorted == SpatialSort(request, part.tasks)
           men == part.fieldmen
           J0 == JobPayloads(request, PartStrategy, part.tasks, index)
           V0 == VehiclePayloads(request, PartStrategy, men, index)
           skills == SkillsOf(J0) \cup SkillsOf(V0)
           order == Ascending(skills)
           J == Renumber(J0, skills)
           V == Renumber(V0, skills)
<1>1. PartPayloads(part) = [jobs |-> J, vehicles |-> V]
  BY DEF PartPayloads, NormalizeSkills
<1> HIDE DEF index
<1>2. /\ part.tasks \in Seq(ToSet(request.tasks)) /\ men \in Seq(ToSet(request.fieldmen))
  BY DEF Partition
<1>3. sorted \in Seq(ToSet(request.tasks))
  BY <1>2, SpatialSortPermutes
<1> HIDE DEF sorted, men
<1>4. J0 = [i \in DOMAIN sorted |->
             [id |-> sorted[i], skills |-> JobSkills(request, PartStrategy, sorted[i]),
              location |-> index[request.taskAt[sorted[i]]]]]
  BY DEF JobPayloads, sorted
<1>5. V0 = [i \in DOMAIN men |->
             [id |-> men[i], skills |-> VehicleSkills(request, PartStrategy, men[i]),
              location |-> index[request.fmAt[men[i]]]]]
  BY DEF VehiclePayloads
<1> HIDE DEF J0, V0
<1>6. /\ DOMAIN J0 = DOMAIN sorted
      /\ \A i \in DOMAIN sorted :
           J0[i].id = sorted[i] /\ J0[i].skills = JobSkills(request, PartStrategy, sorted[i])
  BY <1>4
<1>7. /\ DOMAIN V0 = DOMAIN men
      /\ \A v \in DOMAIN men :
           V0[v].id = men[v] /\ V0[v].skills = VehicleSkills(request, PartStrategy, men[v])
  BY <1>5
<1> HIDE DEF skills
<1>8. J = [i \in DOMAIN J0 |-> [J0[i] EXCEPT !.skills = {n \in DOMAIN order : order[n] \in @}]]
  BY DEF Renumber
<1>9. V = [i \in DOMAIN V0 |-> [V0[i] EXCEPT !.skills = {n \in DOMAIN order : order[n] \in @}]]
  BY DEF Renumber
<1> HIDE DEF J, V, order
<1>10. /\ DOMAIN J = DOMAIN sorted
       /\ \A i \in DOMAIN sorted :
            J[i].id = sorted[i] /\ J[i].skills = {n \in DOMAIN order : order[n] \in J0[i].skills}
  BY <1>4, <1>6, <1>8
<1>11. /\ DOMAIN V = DOMAIN men
       /\ \A v \in DOMAIN men :
            V[v].id = men[v] /\ V[v].skills = {n \in DOMAIN order : order[n] \in V0[v].skills}
  BY <1>5, <1>7, <1>9
<1>12. ASSUME NEW i \in DOMAIN sorted, NEW v \in DOMAIN men, J[i].skills \subseteq V[v].skills,
              request.strategy = "manual_area", sorted[i] \in DOMAIN request.areaMap
       PROVE  request.areaMap[sorted[i]] \in request.fmAreas[men[v]]
  <2> DEFINE a == request.areaMap[sorted[i]]
  <2>1. PartStrategy = "manual_area"
    BY <1>12 DEF PartStrategy
  <2>2. J0[i].skills = {a} /\ V0[v].skills = request.fmAreas[men[v]]
    BY <1>6, <1>7, <1>12, <2>1 DEF JobSkills, VehicleSkills
  <2>3. a \in skills
    BY <1>6, <2>2 DEF skills, SkillsOf
  <2>4. skills \in SUBSET Int /\ IsFiniteSet(skills)
    <3>1. DOMAIN sorted = 1..Len(sorted) /\ Len(sorted) \in Nat /\ DOMAIN men = 1..Len(men) /\ Len(men) \in Nat
      BY <1>2, <1>3
    <3>2. \A k \in DOMAIN sorted : JobSkills(request, PartStrategy, sorted[k]) \in SUBSET Int
                                   /\ IsFiniteSet(JobSkills(request, PartStrategy, sorted[k]))
      <4>1. \A x \in DOMAIN request.areaMap : request.areaMap[x] \in Int
        BY DEF RequestOK
      <4>2. \A x : IsFiniteSet({}) /\ IsFiniteSet({x})
        BY FS_EmptySet, FS_Singleton
      <4>3. ASSUME NEW x PROVE JobSkills(request, PartStrategy, x) = {}
                \/ /\ x \in DOMAIN request.areaMap
                   /\ JobSkills(request, PartStrategy, x) = {request.areaMap[x]}
        BY DEF JobSkills
      <4> QED BY <4>1, <4>2, <4>3
    <3>3. \A k \in DOMAIN men : VehicleSkills(request, PartStrategy, men[k]) \in SUBSET Int
                                /\ IsFiniteSet(VehicleSkills(request, PartStrategy, men[k]))
      <4>1. \A k \in DOMAIN men : men[k] \in ToSet(request.fieldmen)
        BY <1>2
      <4> QED BY <2>1, <4>1 DEF VehicleSkills, RequestOK
    <3> DEFINE SJ == {J0[k].skills : k \in DOMAIN J0}
               SV == {V0[k].skills : k \in DOMAIN V0}
    <3>4. IsFiniteSet(DOMAIN sorted) /\ IsFiniteSet(DOMAIN men)
      BY <3>1, Interval
    <3>5. IsFiniteSet(SJ)
      <4> DEFINE g == [k \in DOMAIN sorted |-> J0[k].skills]
      <4>1. g \in Surjection(DOMAIN sorted, SJ)
        BY <1>6 DEF Surjection
      <4> QED BY <3>4, <4>1, FS_Surjection
    <3>6. IsFiniteSet(SV)
      <4> DEFINE g == [k \in DOMAIN men |-> V0[k].skills]
      <4>1. g \in Surjection(DOMAIN men, SV)
        BY <1>7 DEF Surjection
      <4> QED BY <3>4, <4>1, FS_Surjection
    <3>7. IsFiniteSet(UNION SJ) /\ UNION SJ \in SUBSET Int
      <4>1. \A S \in SJ : IsFiniteSet(S) /\ S \in SUBSET Int
        BY <1>6, <3>2
      <4> QED BY <3>5, <4>1, FS_UNION
    <3>8. IsFiniteSet(UNION SV) /\ UNION SV \in SUBSET Int
      <4>1. \A S \in SV : IsFiniteSet(S) /\ S \in SUBSET Int
        BY <1>7, <3>3
      <4> QED BY <3>6, <4>1, FS_UNION
    <3>9. skills = (UNION SJ) \cup (UNION SV)
      BY DEF skills, SkillsOf
    <3> HIDE DEF SJ, SV
    <3> QED BY <3>7, <3>8, <3>9, FS_Union
  <2>5. PICK n \in DOMAIN order : order[n] = a
    <3>1. order \in [1..Cardinality(skills) -> skills]
          /\ \A x \in skills : \E k \in 1..Cardinality(skills) : order[k] = x
      BY <2>4, AscendingIsSorted DEF order
    <3> QED BY <2>3, <3>1
  <2>6. n \in J[i].skills
    BY <1>10, <2>2, <2>5
  <2>7. order[n] \in V0[v].skills
    BY <1>11, <1>12, <2>6
  <2> QED BY <2>2, <2>5, <2>7
<1>13. \A i \in DOMAIN sorted : \A v \in DOMAIN men :
         J[i].skills \subseteq V[v].skills => AreaFits(men[v], sorted[i])
  BY <1>12 DEF AreaFits
<1> QED BY <1>1, <1>10, <1>11, <1>13 DEF sorted, men

\* Routes: the request's tasks with its fieldmen, no fieldman with two routes, no
\* task on two, and each with a fieldman of its area.
RoutesOK(found) ==
  /\ found \in Seq([fieldman : ToSet(request.fieldmen), tasks : SUBSET ToSet(request.tasks)])
  /\ \A i, j \in DOMAIN found : i # j =>
       found[i].fieldman # found[j].fieldman /\ \A t \in found[i].tasks : t \notin found[j].tasks
  /\ \A i \in DOMAIN found : \A t \in found[i].tasks : AreaFits(found[i].fieldman, t)

Within(found, part) ==
  \A i \in DOMAIN found : /\ found[i].fieldman \in ToSet(part.fieldmen)
                          /\ \A t \in found[i].tasks : t \in ToSet(part.tasks)

\* Whatever VROOM answers, what is read of it are such routes of the partition.
LEMMA SolutionServes ==
  ASSUME RequestOK(request), NEW part \in Partition,
         IsInjective(part.tasks), IsInjective(part.fieldmen),
         NEW s \in Solutions(Numbered(PartPayloads(part).jobs),
                             Numbered(PartPayloads(part).vehicles)),
         NEW found,
         found = ParseSolution(s, Ids(PartPayloads(part).jobs), Ids(PartPayloads(part).vehicles))
  PROVE  RoutesOK(found) /\ Within(found, part)
<1> DEFINE X == ToSet(request.tasks)
           M == ToSet(request.fieldmen)
           J == PartPayloads(part).jobs
           V == PartPayloads(part).vehicles
           sorted == SpatialSort(request, part.tasks)
           men == part.fieldmen
           served == {s[j] : j \in DOMAIN s}
           used == Ascending(served \ {0})
<1>1. part.tasks \in Seq(X) /\ men \in Seq(M)
  BY DEF Partition
<1>2. sorted \in Seq(X) /\ ToSet(sorted) = ToSet(part.tasks) /\ IsInjective(sorted)
  BY <1>1, SpatialSortPermutes
<1>3. /\ DOMAIN J = DOMAIN sorted /\ DOMAIN V = DOMAIN men
      /\ \A i \in DOMAIN sorted : J[i].id = sorted[i]
      /\ \A v \in DOMAIN men : V[v].id = men[v]
      /\ \A i \in DOMAIN sorted : \A v \in DOMAIN men :
           J[i].skills \subseteq V[v].skills => AreaFits(men[v], sorted[i])
  BY PayloadsSpeakOfPart
<1> HIDE DEF J, V, sorted
<1>4. /\ Ids(J) = [i \in DOMAIN sorted |-> sorted[i]]
      /\ Ids(V) = [v \in DOMAIN men |-> men[v]]
  BY <1>3 DEF Ids
<1>5. /\ DOMAIN Numbered(J) = DOMAIN sorted /\ DOMAIN Numbered(V) = DOMAIN men
      /\ \A i \in DOMAIN sorted : Numbered(J)[i].skills = J[i].skills
      /\ \A v \in DOMAIN men : Numbered(V)[v].skills = V[v].skills
  BY <1>3 DEF Numbered
<1>6. DOMAIN sorted = 1..Len(sorted) /\ Len(sorted) \in Nat /\ DOMAIN men = 1..Len(men) /\ Len(men) \in Nat
  BY <1>1, <1>2
<1>7. Len(Numbered(V)) = Len(men)
  <2>1. Numbered(V) \in [1..Len(men) -> {Numbered(V)[v] : v \in 1..Len(men)}]
    BY <1>3, <1>6 DEF Numbered
  <2> HIDE DEF V
  <2> QED BY <1>6, <2>1
<1>8. /\ s \in [DOMAIN sorted -> 0..Len(men)]
      /\ \A j \in DOMAIN sorted : s[j] # 0 => AreaFits(men[s[j]], sorted[j])
  <2> DEFINE NJ == Numbered(J)
             NV == Numbered(V)
  <2>1. s \in Solutions(NJ, NV)
    BY DEF J, V
  <2> HIDE DEF NJ, NV
  <2>2. /\ s \in [DOMAIN NJ -> 0..Len(NV)]
        /\ \A j \in DOMAIN NJ : s[j] = 0 \/ (s[j] \in DOMAIN NV /\ NJ[j].skills \subseteq NV[s[j]].skills)
    BY <2>1 DEF Solutions
  <2>3. DOMAIN NJ = DOMAIN sorted /\ DOMAIN NV = DOMAIN men /\ Len(NV) = Len(men)
    BY <1>5, <1>7 DEF NJ, NV
  <2>4. ASSUME NEW j \in DOMAIN sorted, s[j] # 0
        PROVE  AreaFits(men[s[j]], sorted[j])
    <3>1. s[j] \in DOMAIN men /\ NJ[j].skills \subseteq NV[s[j]].skills
      BY <2>2, <2>3, <2>4
    <3>2. NJ[j].skills = J[j].skills /\ NV[s[j]].skills = V[s[j]].skills
      BY <1>5, <3>1 DEF NJ, NV
    <3> QED BY <1>3, <3>1, <3>2
  <2> QED BY <2>2, <2>3, <2>4
<1>9. /\ served \ {0} \in SUBSET Int /\ IsFiniteSet(served \ {0})
      /\ \A u \in served \ {0} : u \in DOMAIN men
  <2>1. served \ {0} \subseteq 1..Len(men)
    BY <1>6, <1>8
  <2> HIDE DEF served
  <2> QED BY <1>6, <2>1, Interval, FS_Subset
<1>10. /\ Cardinality(served \ {0}) \in Nat
       /\ used \in [1..Cardinality(served \ {0}) -> served \ {0}]
       /\ \A j, k \in 1..Cardinality(served \ {0}) : j < k => used[j] < used[k]
  <2> HIDE DEF served
  <2> QED BY <1>9, AscendingIsSorted
<1> DEFINE n == Cardinality(served \ {0})
<1>11. n \in Nat /\ DOMAIN used = 1..n /\ \A i \in 1..n : used[i] \in DOMAIN men /\ used[i] \in Int /\ used[i] # 0
  <2> HIDE DEF served
  <2>1. \A i \in 1..n : used[i] \in served \ {0}
    BY <1>10
  <2> QED BY <1>9, <1>10, <2>1
<1>12. \A i, j \in 1..n : i # j => used[i] # used[j]
  <2> HIDE DEF served, n, used
  <2>1. \A j, k \in 1..n : j < k => used[j] < used[k]
    BY <1>10 DEF n
  <2>2. n \in Nat
    BY <1>11
  <2> SUFFICES ASSUME NEW i \in 1..n, NEW j \in 1..n, i # j
               PROVE  used[i] # used[j]
    OBVIOUS
  <2>3. i < j \/ j < i
    BY <2>2
  <2>4. used[i] \in Int /\ used[j] \in Int
    BY <1>11
  <2> QED BY <2>1, <2>3, <2>4
<1> DEFINE On(i) == {sorted[j] : j \in {k \in DOMAIN sorted : s[k] = used[i]}}
<1>13. found = [i \in 1..n |-> [fieldman |-> men[used[i]], tasks |-> On(i)]]
  <2>1. DOMAIN s = DOMAIN sorted
    BY <1>8
  <2>2. found = ParseSolution(s, Ids(J), Ids(V))
    BY DEF J, V
  <2>3. found = [i \in DOMAIN used |->
                  [fieldman |-> Ids(V)[used[i]],
                   tasks |-> {Ids(J)[j] : j \in {k \in DOMAIN s : s[k] = used[i]}}]]
    BY <2>2 DEF ParseSolution
  <2> HIDE DEF used, n, served
  <2>4. \A i \in 1..n : Ids(V)[used[i]] = men[used[i]]
    BY <1>4, <1>11
  <2>5. \A i \in 1..n : {Ids(J)[j] : j \in {k \in DOMAIN s : s[k] = used[i]}} = On(i)
    BY <1>4, <2>1
  <2> HIDE DEF On
  <2> QED BY <1>11, <2>3, <2>4, <2>5
<1> HIDE DEF used, n, served
<1>14. ASSUME NEW i \in 1..n
       PROVE  /\ On(i) \in SUBSET X
              /\ \A t \in On(i) : \E j \in DOMAIN sorted : t = sorted[j] /\ s[j] = used[i]
  <2>1. \A t \in On(i) : \E j \in DOMAIN sorted : t = sorted[j] /\ s[j] = used[i]
    OBVIOUS
  <2> HIDE DEF On
  <2>2. \A j \in DOMAIN sorted : sorted[j] \in X
    BY <1>2
  <2> QED BY <2>1, <2>2
<1> HIDE DEF On
<1>15. ASSUME NEW i \in 1..n
       PROVE  men[used[i]] \in M /\ men[used[i]] \in ToSet(men)
  <2>1. used[i] \in DOMAIN men
    BY <1>11
  <2> HIDE DEF M, men
  <2>2. men[used[i]] \in M
    BY <1>1, <2>1
  <2> QED BY <2>1, <2>2 DEF ToSet
<1>16. /\ DOMAIN found = 1..n
       /\ \A i \in 1..n : found[i].fieldman = men[used[i]] /\ found[i].tasks = On(i)
  BY <1>13
<1>17. found \in Seq([fieldman : M, tasks : SUBSET X])
  <2> DEFINE R == [fieldman : M, tasks : SUBSET X]
  <2>1. \A i \in 1..n : [fieldman |-> men[used[i]], tasks |-> On(i)] \in R
    BY <1>14, <1>15
  <2> HIDE DEF R
  <2>2. found \in [1..n -> R]
    BY <1>13, <2>1
  <2>3. found \in Seq(R)
    BY <1>11, <2>2
  <2> QED BY <2>3 DEF R
<1>18. ASSUME NEW i \in 1..n, NEW j \in 1..n, i # j
       PROVE  men[used[i]] # men[used[j]] /\ \A t \in On(i) : t \notin On(j)
  <2>1. used[i] # used[j]
    BY <1>12, <1>18
  <2>2. men[used[i]] # men[used[j]]
    BY <1>11, <2>1 DEF IsInjective
  <2>3. ASSUME NEW t, t \in On(i), t \in On(j)
        PROVE  FALSE
    <3>1. PICK k \in DOMAIN sorted : t = sorted[k] /\ s[k] = used[i]
      BY <1>14, <2>3
    <3>2. PICK l \in DOMAIN sorted : t = sorted[l] /\ s[l] = used[j]
      BY <1>14, <2>3
    <3>3. k = l
      BY <1>2, <3>1, <3>2 DEF IsInjective
    <3> QED BY <2>1, <3>1, <3>2, <3>3
  <2> QED BY <2>2, <2>3
<1>19. ASSUME NEW i \in 1..n, NEW t \in On(i)
       PROVE  AreaFits(men[used[i]], t) /\ t \in ToSet(part.tasks)
  <2>1. PICK k \in DOMAIN sorted : t = sorted[k] /\ s[k] = used[i]
    BY <1>14
  <2>2. AreaFits(men[used[i]], t)
    BY <1>8, <1>11, <2>1
  <2>3. t \in ToSet(sorted)
    BY <2>1 DEF ToSet
  <2> QED BY <1>2, <2>2, <2>3
<1>20. RoutesOK(found)
  BY <1>16, <1>17, <1>18, <1>19 DEF RoutesOK
<1>21. Within(found, part)
  BY <1>15, <1>16, <1>19 DEF Within
<1> QED BY <1>20, <1>21

-----------------------------------------------------------------------------
(* OSRM *)

\* A road takes some time, if there is one.
LEMMA RoadsTakeTime ==
  ASSUME NEW x \in Int, NEW y \in Int
  PROVE  Road(x, y) = Null \/ Road(x, y) \in Nat
BY DEF Road

\* Each leg of a trip is the road between its ends.
LEMMA LegsAreRoads ==
  ASSUME NEW coords \in Seq(Int), NEW k \in DOMAIN Legs(coords)
  PROVE  /\ k \in 1..(Len(coords) - 1)
         /\ Legs(coords)[k] = Road(coords[k], coords[k + 1])
         /\ Legs(coords)[k] \in Nat
<1> DEFINE n == Len(coords)
           legs == [i \in 1..(n - 1) |-> Road(coords[i], coords[i + 1])]
<1>1. n \in Nat
  OBVIOUS
<1>2. Legs(coords) = IF n < 2 \/ Contains(legs, Null) THEN <<>> ELSE legs
  BY DEF Legs
<1>3. ~ (n < 2 \/ Contains(legs, Null))
  <2>1. ASSUME Legs(coords) = <<>> PROVE FALSE
    BY <2>1
  <2> QED BY <1>2, <2>1
<1>4. Legs(coords) = legs
  BY <1>2, <1>3
<1>5. k \in 1..(n - 1)
  BY <1>4
<1>6. legs[k] = Road(coords[k], coords[k + 1])
  BY <1>5
<1>7. coords[k] \in Int /\ coords[k + 1] \in Int
  BY <1>1, <1>5
<1>8. Len(legs) = n - 1
  <2>1. n - 1 \in Nat
    BY <1>1, <1>3
  <2> QED BY <2>1
<1>9. legs[k] # Null
  <2> HIDE DEF legs
  <2> QED BY <1>3, <1>5, <1>8 DEF Contains
<1> QED BY <1>4, <1>5, <1>6, <1>7, <1>9, RoadsTakeTime

\* The legs into the stops of a route: from the fieldman's place, then from stop to
\* stop; 0 stands for a leg that is missing.
LegInto(f, tasks, i) ==
  LET legs == Legs(RouteCoords(f, tasks)) IN IF i \in DOMAIN legs THEN legs[i] ELSE 0
StopBefore(f, tasks, i) ==
  IF i = 1 THEN request.fmAt[f] ELSE request.taskAt[tasks[i - 1]]

\* A leg into a stop that is not missing is the road from the stop before it.
LEMMA LegIntoIsRoad ==
  ASSUME RequestOK(request), NEW f \in ToSet(request.fieldmen),
         NEW tasks \in Seq(ToSet(request.tasks)), NEW i \in DOMAIN tasks
  PROVE  /\ LegInto(f, tasks, i) \in Nat
         /\ LegInto(f, tasks, i) # 0 =>
              LegInto(f, tasks, i) = Road(StopBefore(f, tasks, i), request.taskAt[tasks[i]])
<1> DEFINE n == Len(tasks)
           home == <<request.fmAt[f]>>
           at == [k \in DOMAIN tasks |-> request.taskAt[tasks[k]]]
           coords == RouteCoords(f, tasks)
           legs == Legs(coords)
<1>1. /\ request.fmAt[f] \in Int
      /\ \A k \in DOMAIN tasks : request.taskAt[tasks[k]] \in Int
  <2>1. \A k \in DOMAIN tasks : tasks[k] \in ToSet(request.tasks)
    OBVIOUS
  <2> QED BY <2>1, Measures
<1>2. n \in Nat /\ DOMAIN tasks = 1..n
  OBVIOUS
<1>3. home \in Seq(Int) /\ Len(home) = 1 /\ home[1] = request.fmAt[f]
  BY <1>1
<1>4. at \in Seq(Int) /\ Len(at) = n /\ \A k \in 1..n : at[k] = request.taskAt[tasks[k]]
  <2>1. at \in [1..n -> Int]
    BY <1>1, <1>2
  <2>2. \A k \in 1..n : at[k] = request.taskAt[tasks[k]]
    BY <1>2
  <2> HIDE DEF at
  <2> QED BY <1>2, <2>1, <2>2
<1>5. coords = (home \o at) \o home
  BY DEF RouteCoords
<1> HIDE DEF n, home, at, coords
<1>6. /\ coords \in Seq(Int) /\ Len(coords) = n + 2
      /\ coords[1] = request.fmAt[f]
      /\ \A k \in 1..n : coords[k + 1] = request.taskAt[tasks[k]]
  <2> DEFINE c == home \o at
  <2>1. /\ c \in Seq(Int) /\ Len(c) = n + 1 /\ c[1] = home[1]
        /\ \A k \in 1..n : c[k + 1] = at[k]
    <3>1. /\ c \in Seq(Int) /\ Len(c) = Len(home) + Len(at)
          /\ \A k \in 1..Len(home) : c[k] = home[k]
          /\ \A k \in 1..Len(at) : c[Len(home) + k] = at[k]
      <4>1. home \in Seq(Int) /\ at \in Seq(Int)
        BY <1>3, <1>4
      <4> QED BY ONLY <4>1, JoinPlaces
    <3> HIDE DEF c
    <3>2. Len(c) = n + 1 /\ c[1] = home[1]
      BY <1>2, <1>3, <1>4, <3>1
    <3>3. \A k \in 1..n : c[1 + k] = at[k] /\ 1 + k = k + 1
      BY <1>2, <1>3, <1>4, <3>1
    <3> QED BY <3>1, <3>2, <3>3
  <2> HIDE DEF c
  <2>2. coords = c \o home
    BY <1>5 DEF c
  <2>3. /\ coords \in Seq(Int) /\ Len(coords) = n + 2
        /\ \A k \in 1..(n + 1) : coords[k] = c[k]
    <3>1. /\ c \o home \in Seq(Int) /\ Len(c \o home) = Len(c) + Len(home)
          /\ \A k \in 1..Len(c) : (c \o home)[k] = c[k]
      <4>1. c \in Seq(Int) /\ home \in Seq(Int)
        BY <1>3, <2>1
      <4> QED BY ONLY <4>1, JoinPlaces
    <3> QED BY <1>2, <1>3, <2>1, <2>2, <3>1
  <2>4. \A k \in 1..n : k + 1 \in 1..(n + 1)
    BY <1>2
  <2>5. 1 \in 1..(n + 1)
    BY <1>2
  <2> QED BY <1>3, <1>4, <2>1, <2>3, <2>4, <2>5
<1>7. LegInto(f, tasks, i) = IF i \in DOMAIN legs THEN legs[i] ELSE 0
  BY DEF LegInto, coords
<1>8. ASSUME i \in DOMAIN legs
      PROVE  legs[i] \in Nat /\ legs[i] = Road(StopBefore(f, tasks, i), request.taskAt[tasks[i]])
  <2>1. legs[i] \in Nat /\ legs[i] = Road(coords[i], coords[i + 1])
    BY <1>6, <1>8, LegsAreRoads
  <2>2. coords[i + 1] = request.taskAt[tasks[i]]
    BY <1>2, <1>6
  <2>3. coords[i] = StopBefore(f, tasks, i)
    <3>1. CASE i = 1
      BY <1>6, <3>1 DEF StopBefore
    <3>2. CASE i # 1
      <4>1. i - 1 \in 1..n /\ (i - 1) + 1 = i
        BY <1>2, <3>2
      <4>2. coords[(i - 1) + 1] = request.taskAt[tasks[i - 1]]
        BY <1>6, <4>1
      <4> QED BY <3>2, <4>1, <4>2 DEF StopBefore
    <3> QED BY <3>1, <3>2
  <2> QED BY <2>1, <2>2, <2>3
<1> HIDE DEF legs
<1> QED BY <1>7, <1>8

-----------------------------------------------------------------------------
(* The domains of the worker's locals *)

Tasks == ToSet(request.tasks)
Men == ToSet(request.fieldmen)

\* Before the assignment the locals are as they were set up.
Early ==
  /\ phase \in {"asked", "load", "validate"} =>
       todo = <<>> /\ assigned = [f \in Men |-> <<>>]
  /\ phase \in {"asked", "load", "validate", "assign"} =>
       /\ partitions = <<>> /\ number = 0 /\ payload = NoPayload
       /\ routes = <<>> /\ chain = <<>> /\ rows = {}

\* While the tasks are assigned each is waiting or with one fieldman.
AssignmentOK ==
  /\ todo \in Seq(Tasks) /\ IsInjective(todo)
  /\ assigned \in [Men -> Seq(Tasks)]
  /\ \A f \in Men : IsInjective(assigned[f]) /\ Apart(assigned[f], todo)
  /\ \A f, g \in Men : f # g => Apart(assigned[f], assigned[g])
  /\ phase = "assign" =>
       \A t \in Tasks : t \in ToSet(todo) \/ \E f \in Men : t \in ToSet(assigned[f])

\* The routes are those of the first partition, the chain is of the first route.
RoutesTyped ==
  /\ RoutesOK(routes)
  /\ phase \in {"submit", "solve"} => routes = <<>> /\ chain = <<>>
  /\ phase = "order" => routes # <<>> /\ Within(routes, Head(partitions))
  /\ chain \in Seq(Tasks) /\ IsInjective(chain)
  /\ chain # <<>> => phase = "order" /\ \A t \in ToSet(chain) : t \in Head(routes).tasks

\* VROOM is sent the payload of the current partition.
Sent ==
  phase = "solve" =>
    payload = [jobs |-> Numbered(PartPayloads(Current).jobs),
               vehicles |-> Numbered(PartPayloads(Current).vehicles),
               matrix |-> Costs(DistanceMatrix(Locations(Current)))]

RowsTyped ==
  \A w \in rows :
    /\ w = [fieldman |-> w.fieldman, partition |-> w.partition, task |-> w.task,
            sequence |-> w.sequence, duration |-> w.duration]
    /\ w.fieldman \in Men /\ w.partition \in Nat /\ w.task \in Tasks
    /\ w.sequence \in Nat \ {0} /\ w.duration \in Nat

Typed ==
  /\ RequestOK(request)
  /\ phase \in Phases
  /\ Early
  /\ AssignmentOK
  /\ number \in Nat
  /\ PartsOK(request, partitions)
  /\ phase \in {"assign", "submit", "solve", "order"} => request.fieldmen # <<>>
  /\ phase \in {"submit", "solve", "order"} => partitions # <<>>
  /\ Sent
  /\ RoutesTyped
  /\ RowsTyped

\* Nothing is fine as partitions and as routes.
LEMMA NothingIsOK ==
  ASSUME NEW r
  PROVE  PartsOK(r, <<>>) /\ RoutesOK(<<>>)
BY DEF PartsOK, RoutesOK

\* Partitions stay in order without the first.
LEMMA TailKeepsParts ==
  ASSUME NEW r, NEW parts, PartsOK(r, parts), parts # <<>>
  PROVE  PartsOK(r, Tail(parts))
<1> DEFINE P == [tasks : Seq(ToSet(r.tasks)), fieldmen : Seq(ToSet(r.fieldmen))]
           t == Tail(parts)
<1> HIDE DEF P
<1>1. parts \in Seq(P)
  BY DEF PartsOK, P
<1>2. /\ t \in Seq(P) /\ Len(t) = Len(parts) - 1
      /\ \A i \in DOMAIN t : i + 1 \in DOMAIN parts /\ t[i] = parts[i + 1]
  BY <1>1, TailPlaces
<1>3. \A i \in DOMAIN t : i \in Int
  BY <1>2
<1> HIDE DEF t
<1>4. \A i \in DOMAIN t : /\ IsInjective(t[i].tasks) /\ IsInjective(t[i].fieldmen)
                          /\ t[i].fieldmen # <<>>
  BY <1>2 DEF PartsOK
<1>5. \A i, j \in DOMAIN t : i # j => Apart(t[i].tasks, t[j].tasks)
  <2> SUFFICES ASSUME NEW i \in DOMAIN t, NEW j \in DOMAIN t, i # j
               PROVE  Apart(t[i].tasks, t[j].tasks)
    OBVIOUS
  <2>1. i + 1 # j + 1
    BY <1>3
  <2> QED BY <1>2, <2>1 DEF PartsOK
<1> QED BY <1>2, <1>4, <1>5 DEF PartsOK, P, t

\* So do routes.
LEMMA TailKeepsRoutes ==
  ASSUME RoutesOK(routes), routes # <<>>
  PROVE  RoutesOK(Tail(routes))
<1> DEFINE R == [fieldman : ToSet(request.fieldmen), tasks : SUBSET ToSet(request.tasks)]
           t == Tail(routes)
<1> HIDE DEF R
<1>1. routes \in Seq(R)
  BY DEF RoutesOK, R
<1>2. /\ t \in Seq(R) /\ Len(t) = Len(routes) - 1
      /\ \A i \in DOMAIN t : i + 1 \in DOMAIN routes /\ t[i] = routes[i + 1]
  BY <1>1, TailPlaces
<1>3. \A i \in DOMAIN t : i \in Int
  BY <1>2
<1> HIDE DEF t
<1>4. \A i, j \in DOMAIN t : i # j =>
        t[i].fieldman # t[j].fieldman /\ \A x \in t[i].tasks : x \notin t[j].tasks
  <2> SUFFICES ASSUME NEW i \in DOMAIN t, NEW j \in DOMAIN t, i # j
               PROVE  t[i].fieldman # t[j].fieldman /\ \A x \in t[i].tasks : x \notin t[j].tasks
    OBVIOUS
  <2>1. i + 1 # j + 1
    BY <1>3
  <2> QED BY <1>2, <2>1 DEF RoutesOK
<1>5. \A i \in DOMAIN t : \A x \in t[i].tasks : AreaFits(t[i].fieldman, x)
  BY <1>2 DEF RoutesOK
<1> QED BY <1>2, <1>4, <1>5 DEF RoutesOK, R, t

\* What the elements of the lists are.
LEMMA FirstRoute ==
  ASSUME RoutesOK(routes), routes # <<>>
  PROVE  /\ 1 \in DOMAIN routes /\ Head(routes) = routes[1]
         /\ Head(routes).fieldman \in Men /\ Head(routes).tasks \in SUBSET Tasks
         /\ \A t \in Head(routes).tasks : AreaFits(Head(routes).fieldman, t)
<1> DEFINE R == [fieldman : ToSet(request.fieldmen), tasks : SUBSET ToSet(request.tasks)]
<1>1. \A x \in R : x.fieldman \in Men /\ x.tasks \in SUBSET Tasks
  BY DEF Men, Tasks
<1> HIDE DEF R
<1>2. routes \in Seq(R)
  BY DEF RoutesOK, R
<1>3. 1 \in DOMAIN routes /\ Head(routes) = routes[1] /\ Head(routes) \in R
  BY <1>2, HasHead
<1> QED BY <1>1, <1>3 DEF RoutesOK

\* The current partition is one, of the request's tasks and fieldmen.
LEMMA FirstPartition ==
  ASSUME PartsOK(request, partitions), partitions # <<>>
  PROVE  /\ 1 \in DOMAIN partitions /\ Current = partitions[1] /\ Current \in Partition
         /\ Current.tasks \in Seq(Tasks) /\ IsInjective(Current.tasks)
         /\ Current.fieldmen \in Seq(Men) /\ IsInjective(Current.fieldmen)
<1>1. \A x \in Partition : x.fieldmen \in Seq(Men) /\ x.tasks \in Seq(Tasks)
  BY DEF Partition, Men, Tasks
<1>2. partitions \in Seq(Partition)
  BY DEF PartsOK, Partition
<1>3. 1 \in DOMAIN partitions /\ Current = partitions[1] /\ Current \in Partition
  BY <1>2, HasHead DEF Current
<1> QED BY <1>1, <1>3 DEF PartsOK

\* The domains hold at the start.
LEMMA TypedInit == Init => Typed
<1> SUFFICES ASSUME Init PROVE Typed
  OBVIOUS
<1>1. RequestOK(request)
  BY RequestsAssumption DEF Init
<1>2. /\ phase = "asked" /\ todo = <<>> /\ assigned = [f \in Men |-> <<>>] /\ partitions = <<>>
      /\ number = 0 /\ payload = NoPayload /\ routes = <<>> /\ chain = <<>> /\ rows = {}
  BY DEF Init, Men
<1>3. phase \in Phases /\ Early /\ number \in Nat
  BY <1>2 DEF Phases, Early
<1>4. AssignmentOK
  BY <1>2 DEF AssignmentOK, IsInjective, Apart, ToSet
<1>5. RoutesTyped /\ RowsTyped /\ PartsOK(request, partitions)
  BY <1>2, NothingIsOK DEF RoutesTyped, RowsTyped, IsInjective
<1> QED BY <1>1, <1>2, <1>3, <1>4, <1>5 DEF Typed, Sent

\* The steps that only change the request, before anything else is set.
LEMMA EarlyStepKeepsTyped ==
  ASSUME Typed, phase \in {"asked", "load", "validate"},
         phase' \in {"asked", "load", "validate", "failed"},
         RequestOK(request'), request'.fieldmen = request.fieldmen,
         UNCHANGED <<todo, assigned, partitions, number, payload, routes, chain, rows>>
  PROVE  Typed'
<1>1. Men' = Men
  BY DEF Men
<1>2. /\ todo' = <<>> /\ assigned' = [f \in Men |-> <<>>] /\ partitions' = <<>>
      /\ number' = 0 /\ payload' = NoPayload /\ routes' = <<>> /\ chain' = <<>> /\ rows' = {}
  BY DEF Typed, Early
<1>3. phase' \in Phases /\ Early' /\ number' \in Nat
  BY <1>1, <1>2 DEF Phases, Early
<1>4. AssignmentOK'
  BY <1>1, <1>2 DEF AssignmentOK, IsInjective, Apart, ToSet
<1>5. RoutesOK(routes)'
  BY <1>2 DEF RoutesOK
<1>6. PartsOK(request, partitions)'
  BY <1>2 DEF PartsOK
<1>7. RoutesTyped' /\ RowsTyped'
  BY <1>2, <1>5 DEF RoutesTyped, RowsTyped, IsInjective
<1> QED BY <1>3, <1>4, <1>6, <1>7 DEF Typed, Sent

\* Without an assignment the filter makes the partitions.
LEMMA FilterMakes ==
  ASSUME RequestOK(request), FilterByArea, request.strategy # "h3", request'.fieldmen # <<>>
  PROVE  PartsOK(request', partitions') /\ Covers(request', partitions') /\ partitions' # <<>>
<1>1. RequestOK(request')
  BY FilterKeepsOK
<1>2. CASE Len(request'.tasks) > PartitionThreshold
  <2>1. partitions' = PartitionProblem(request', MaxPartitionSize)
    BY <1>2 DEF FilterByArea
  <2>2. PartsOK(request', partitions') /\ Covers(request', partitions')
    BY <1>1, <2>1, ProblemIsDivided
  <2>3. request'.tasks \in Seq(Tasks') /\ request'.tasks # <<>>
    <3>1. request'.tasks \in Seq(Tasks')
      BY <1>1, ListsOfRequest DEF Tasks
    <3>2. Len(request'.tasks) # 0
      BY <1>2, <3>1, PlanningAssumption
    <3> QED BY <3>1, <3>2
  <2>4. Head(request'.tasks) \in ToSet(request'.tasks)
    BY <2>3 DEF ToSet
  <2>5. partitions' # <<>>
    BY <2>2, <2>4 DEF Covers
  <2> QED BY <2>2, <2>5
<1>3. CASE ~ (Len(request'.tasks) > PartitionThreshold)
  <2> DEFINE q == [tasks |-> request'.tasks, fieldmen |-> request'.fieldmen]
             P == [tasks : Seq(ToSet(request'.tasks)), fieldmen : Seq(ToSet(request'.fieldmen))]
  <2>1. partitions' = <<q>>
    BY <1>3 DEF FilterByArea
  <2>2. q \in P /\ q.tasks = request'.tasks /\ q.fieldmen = request'.fieldmen
    BY <1>1, ListsOfRequest
  <2>3. IsInjective(q.tasks) /\ IsInjective(q.fieldmen)
    BY <1>1, ListsOfRequest
  <2> HIDE DEF P, q
  <2>4. partitions' \in Seq(P) /\ DOMAIN partitions' = {1} /\ partitions'[1] = q
    BY <2>1, <2>2
  <2>5. \A i \in DOMAIN partitions' : partitions'[i] = q
    BY <2>4
  <2>6. \A i, j \in DOMAIN partitions' : i = j
    BY <2>4
  <2>7. partitions' # <<>>
    BY <2>1
  <2>8. PartsOK(request', partitions')
    BY <2>2, <2>3, <2>4, <2>5, <2>6 DEF PartsOK, P
  <2>9. Covers(request', partitions')
    BY <2>2, <2>4 DEF Covers
  <2> QED BY <2>7, <2>8, <2>9
<1> QED BY <1>2, <1>3

\* The filter sets up the assignment, or the partitions of a problem without one.
LEMMA FilterKeepsTyped ==
  ASSUME Typed, FilterByArea
  PROVE  Typed'
<1>1. RequestOK(request) /\ phase = "validate"
  BY DEF Typed, FilterByArea
<1>2. /\ RequestOK(request')
      /\ \A x \in DOMAIN request \ {"tasks", "resolution"} : request'[x] = request[x]
  BY <1>1, FilterKeepsOK
<1>3. request'.fieldmen = request.fieldmen /\ request'.strategy = request.strategy
  BY <1>1, <1>2 DEF RequestOK
<1>4. request.fieldmen # <<>> /\ request'.fieldmen # <<>> /\ Men' = Men
  BY <1>3 DEF FilterByArea, Refused, Men
<1>5. /\ assigned' = [f \in Men |-> <<>>]
      /\ number' = 0 /\ payload' = NoPayload /\ routes' = <<>> /\ chain' = <<>> /\ rows' = {}
  BY <1>1 DEF Typed, Early, FilterByArea, Keep, LaterLocals
<1>6. RoutesOK(routes)'
  BY <1>5 DEF RoutesOK
<1>7. RowsTyped'
  BY <1>5 DEF RowsTyped
<1>8. CASE request.strategy = "h3"
  <2>1. phase' = "assign" /\ todo' = ByPriority(request') /\ partitions' = <<>>
    BY <1>8 DEF FilterByArea
  <2>2. /\ todo' \in Seq(Tasks') /\ ToSet(todo') = Tasks' /\ IsInjective(todo')
    BY <1>2, <2>1, ByPriorityPermutes DEF Tasks
  <2>3. AssignmentOK'
    BY <1>4, <1>5, <2>2 DEF AssignmentOK, IsInjective, Apart, ToSet
  <2>4. PartsOK(request, partitions)'
    BY <2>1 DEF PartsOK
  <2>5. RoutesTyped'
    BY <1>5, <1>6, <2>1 DEF RoutesTyped, IsInjective
  <2>6. Early' /\ phase' \in Phases
    BY <1>5, <2>1 DEF Early, Phases
  <2> QED BY <1>2, <1>4, <1>5, <1>7, <2>1, <2>3, <2>4, <2>5, <2>6 DEF Typed, Sent
<1>9. CASE request.strategy # "h3"
  <2>1. phase' = "submit" /\ todo' = <<>>
    BY <1>9 DEF FilterByArea
  <2>2. AssignmentOK'
    BY <1>4, <1>5, <2>1 DEF AssignmentOK, IsInjective, Apart, ToSet
  <2>3. PartsOK(request, partitions)' /\ partitions' # <<>>
    BY <1>1, <1>2, <1>4, <1>9, FilterMakes DEF PartsOK
  <2>4. RoutesTyped'
    BY <1>5, <1>6, <2>1 DEF RoutesTyped, IsInjective
  <2>5. Early' /\ phase' \in Phases
    BY <2>1 DEF Early, Phases
  <2> QED BY <1>2, <1>4, <1>5, <1>7, <2>1, <2>2, <2>3, <2>4, <2>5 DEF Typed, Sent
<1> QED BY <1>8, <1>9

\* What a step of the assignment does: the first waiting task goes to one fieldman.
LEMMA AssignNextGives ==
  ASSUME Typed, AssignNext
  PROVE  LET t == Head(todo)
             load == [f \in DOMAIN assigned |-> Len(assigned[f])]
             c == ChooseFieldman(request, load, t)
         IN /\ t \in Tasks /\ t \in ToSet(todo) /\ c \in Men /\ load \in [Men -> Nat]
            /\ assigned' = [assigned EXCEPT ![c] = Append(@, t)]
            /\ request' = request /\ todo' = Tail(todo)
            /\ WithinReach(request, t) # <<>> => \A g \in Men :
                 request.fmAt[c] = request.fmAt[g] => Len(assigned[c]) =< Len(assigned[g])
<1> DEFINE t == Head(todo)
           load == [f \in DOMAIN assigned |-> Len(assigned[f])]
           c == ChooseFieldman(request, load, t)
<1>1. /\ RequestOK(request) /\ request.fieldmen # <<>>
      /\ todo \in Seq(Tasks) /\ todo # <<>> /\ assigned \in [Men -> Seq(Tasks)]
  BY DEF Typed, AssignNext, AssignmentOK
<1>2. t \in Tasks /\ t \in ToSet(todo)
  BY <1>1 DEF ToSet
<1>3. load \in [Men -> Nat] /\ \A g \in Men : load[g] = Len(assigned[g])
  BY <1>1
<1> HIDE DEF load
<1>4. /\ c \in Men
      /\ WithinReach(request, t) # <<>> => \A g \in Men :
           request.fmAt[c] = request.fmAt[g] => load[c] =< load[g]
  BY <1>1, <1>2, <1>3, ChosenFieldman DEF Men, Tasks
<1>5. /\ assigned' = [assigned EXCEPT ![c] = Append(@, t)]
      /\ request' = request /\ todo' = Tail(todo)
  BY DEF AssignNext, Keep, load
<1> HIDE DEF c, t
<1> QED BY <1>2, <1>3, <1>4, <1>5 DEF load, c, t

\* A step of the assignment loses no task and gives none to two fieldmen.
LEMMA AssignNextKeepsTyped ==
  ASSUME Typed, AssignNext
  PROVE  Typed'
<1> DEFINE t == Head(todo)
<1>1. PICK c \in Men : /\ assigned' = [assigned EXCEPT ![c] = Append(@, t)]
                       /\ request' = request /\ todo' = Tail(todo) /\ t \in Tasks /\ t \in ToSet(todo)
  BY AssignNextGives
<1>2. /\ todo \in Seq(Tasks) /\ IsInjective(todo) /\ todo # <<>>
      /\ assigned \in [Men -> Seq(Tasks)]
      /\ \A f \in Men : IsInjective(assigned[f]) /\ Apart(assigned[f], todo)
      /\ \A f, g \in Men : f # g => Apart(assigned[f], assigned[g])
      /\ \A x \in Tasks : x \in ToSet(todo) \/ \E f \in Men : x \in ToSet(assigned[f])
      /\ phase = "assign"
  BY DEF Typed, AssignmentOK, AssignNext
<1>3. Men' = Men /\ Tasks' = Tasks
  BY <1>1 DEF Men, Tasks
<1>4. /\ Tail(todo) \in Seq(Tasks) /\ IsInjective(Tail(todo)) /\ t \notin ToSet(Tail(todo))
      /\ \A x \in ToSet(Tail(todo)) : x \in ToSet(todo)
      /\ \A x \in ToSet(todo) : x = t \/ x \in ToSet(Tail(todo))
  BY <1>2, TailPlaces
<1> HIDE DEF t
<1>5. t \notin ToSet(assigned[c])
  BY <1>1, <1>2 DEF Apart
<1>6. /\ Append(assigned[c], t) \in Seq(Tasks) /\ IsInjective(Append(assigned[c], t))
      /\ \A x : x \in ToSet(Append(assigned[c], t)) <=> x \in ToSet(assigned[c]) \/ x = t
  BY <1>1, <1>2, <1>5, AppendPlaces
<1>7. /\ assigned' \in [Men -> Seq(Tasks)]
      /\ \A f \in Men : assigned'[f] = IF f = c THEN Append(assigned[c], t) ELSE assigned[f]
  BY <1>1, <1>2, <1>6
<1>8. \A f \in Men : /\ IsInjective(assigned'[f]) /\ Apart(assigned'[f], todo')
  <2> SUFFICES ASSUME NEW f \in Men
               PROVE  IsInjective(assigned'[f]) /\ \A x \in ToSet(assigned'[f]) : x \notin ToSet(todo')
    BY DEF Apart
  <2>1. CASE f = c
    BY <1>1, <1>2, <1>4, <1>6, <1>7, <2>1 DEF Apart
  <2>2. CASE f # c
    BY <1>1, <1>2, <1>4, <1>7, <2>2 DEF Apart
  <2> QED BY <2>1, <2>2
<1>9. \A f, g \in Men : f # g => Apart(assigned'[f], assigned'[g])
  <2> SUFFICES ASSUME NEW f \in Men, NEW g \in Men, f # g,
                      NEW x, x \in ToSet(assigned'[f]), x \in ToSet(assigned'[g])
               PROVE  FALSE
    BY DEF Apart
  <2>1. \A h \in Men : t \notin ToSet(assigned[h])
    BY <1>1, <1>2 DEF Apart
  <2>2. /\ x \in ToSet(assigned[f]) \/ (f = c /\ x = t)
        /\ x \in ToSet(assigned[g]) \/ (g = c /\ x = t)
    BY <1>6, <1>7
  <2>3. x \in ToSet(assigned[f]) => x \notin ToSet(assigned[g])
    BY <1>2 DEF Apart
  <2> QED BY <2>1, <2>2, <2>3
<1>10. \A x \in Tasks : x \in ToSet(todo') \/ \E f \in Men : x \in ToSet(assigned'[f])
  <2> SUFFICES ASSUME NEW x \in Tasks, x \notin ToSet(todo')
               PROVE  \E f \in Men : x \in ToSet(assigned'[f])
    OBVIOUS
  <2>1. CASE x \in ToSet(todo)
    BY <1>1, <1>4, <1>6, <1>7, <2>1
  <2>2. CASE x \notin ToSet(todo)
    BY <1>2, <1>6, <1>7, <2>2
  <2> QED BY <2>1, <2>2
<1>11. AssignmentOK'
  BY <1>1, <1>3, <1>4, <1>7, <1>8, <1>9, <1>10 DEF AssignmentOK
<1>12. /\ partitions' = partitions /\ phase' = phase /\ number' = number /\ payload' = payload
       /\ routes' = routes /\ chain' = chain /\ rows' = rows
  BY DEF AssignNext, Keep, LaterLocals
<1>13. /\ partitions = <<>> /\ number = 0 /\ payload = NoPayload
       /\ routes = <<>> /\ chain = <<>> /\ rows = {}
  BY <1>2 DEF Typed, Early
<1>14. PartsOK(request, partitions)' /\ RoutesOK(routes)'
  BY <1>12, <1>13 DEF PartsOK, RoutesOK
<1>15. RoutesTyped' /\ RowsTyped' /\ Early'
  BY <1>2, <1>12, <1>13, <1>14 DEF RoutesTyped, RowsTyped, IsInjective, Early
<1> QED BY <1>1, <1>2, <1>11, <1>12, <1>14, <1>15 DEF Typed, Sent

\* The partitions of Split.
LEMMA SplitMakes ==
  ASSUME Typed, Split
  PROVE  /\ PartsOK(request, partitions') /\ Covers(request, partitions')
         /\ \A i \in DOMAIN partitions' : Len(partitions'[i].tasks) =< MaxPerPartition
<1>1. /\ RequestOK(request)
      /\ DOMAIN assigned = ToSet(request.fieldmen)
      /\ \A f \in ToSet(request.fieldmen) :
           assigned[f] \in Seq(ToSet(request.tasks)) /\ IsInjective(assigned[f])
      /\ \A f, g \in ToSet(request.fieldmen) : f # g => Apart(assigned[f], assigned[g])
      /\ \A t \in ToSet(request.tasks) : \E f \in ToSet(request.fieldmen) : t \in ToSet(assigned[f])
  BY DEF Typed, AssignmentOK, Split, Men, Tasks, ToSet
<1>2. partitions' = LET busy == Only(request.fieldmen, {f \in DOMAIN assigned : assigned[f] # <<>>})
                    IN Concat([i \in DOMAIN busy |-> PartitionsOf(busy[i])])
  BY DEF Split
<1> DEFINE all == partitions'
<1> HIDE DEF all
<1>3. /\ PartsOK(request, all)
      /\ \A i \in DOMAIN all : Len(all[i].tasks) =< MaxPerPartition
      /\ \A f \in ToSet(request.fieldmen) : \A x \in ToSet(assigned[f]) :
              \E i \in DOMAIN all : x \in ToSet(all[i].tasks)
  BY <1>1, <1>2, SplitDivides DEF all
<1> QED BY <1>1, <1>3 DEF all, Covers

\* The split makes partitions of what each fieldman was given.
LEMMA SplitKeepsTyped ==
  ASSUME Typed, Split
  PROVE  Typed'
<1>1. /\ request' = request /\ todo' = todo /\ assigned' = assigned /\ number' = number
      /\ payload' = payload /\ routes' = routes /\ chain' = chain /\ rows' = rows
      /\ phase = "assign" /\ phase' = IF partitions' = <<>> THEN "failed" ELSE "submit"
  BY DEF Split, Keep, LaterLocals
<1>2. Men' = Men /\ Tasks' = Tasks
  BY <1>1 DEF Men, Tasks
<1>3. /\ number = 0 /\ payload = NoPayload
      /\ routes = <<>> /\ chain = <<>> /\ rows = {}
  BY <1>1 DEF Typed, Early
<1>4. AssignmentOK'
  BY <1>1, <1>2 DEF Typed, AssignmentOK
<1>5. PartsOK(request, partitions)'
  BY <1>1, SplitMakes DEF PartsOK
<1>6. RoutesOK(routes)'
  BY <1>1, <1>3 DEF RoutesOK
<1>7. RoutesTyped' /\ RowsTyped' /\ Early' /\ phase' \in Phases
  BY <1>1, <1>3, <1>6 DEF RoutesTyped, RowsTyped, IsInjective, Early, Phases
<1> QED BY <1>1, <1>4, <1>5, <1>7 DEF Typed, Sent

\* The next partition is like the one before, with everything about it still to do.
LEMMA NextPartitionKeepsTyped ==
  ASSUME Typed, NextPartition, phase \in {"submit", "solve", "order"},
         UNCHANGED <<request, todo, assigned>>, RowsTyped'
  PROVE  Typed'
<1>1. /\ partitions' = Tail(partitions) /\ number' = number + 1 /\ payload' = NoPayload
      /\ routes' = <<>> /\ chain' = <<>>
      /\ phase' = IF Len(partitions) = 1 THEN "ready" ELSE "submit"
      /\ request' = request /\ todo' = todo /\ assigned' = assigned
  BY DEF NextPartition
<1>2. Men' = Men /\ Tasks' = Tasks
  BY <1>1 DEF Men, Tasks
<1>3. phase' \in Phases /\ Early' /\ number' \in Nat
  BY <1>1 DEF Phases, Early, Typed
<1>4. AssignmentOK'
  BY <1>1, <1>2, <1>3 DEF Typed, AssignmentOK
<1>5. partitions # <<>> /\ request.fieldmen # <<>> /\ PartsOK(request, partitions)
  BY DEF Typed
<1>6. PartsOK(request, Tail(partitions))
  BY <1>5, TailKeepsParts
<1>7. PartsOK(request, partitions)'
  BY <1>1, <1>6 DEF PartsOK
<1>8. phase' # "ready" => partitions' # <<>>
  <2> DEFINE P == [tasks : Seq(ToSet(request.tasks)), fieldmen : Seq(ToSet(request.fieldmen))]
  <2>1. partitions \in Seq(P)
    BY <1>5 DEF PartsOK
  <2> HIDE DEF P
  <2>2. Tail(partitions) \in Seq(P) /\ Len(Tail(partitions)) = Len(partitions) - 1
    BY <1>5, <2>1, TailPlaces
  <2>3. Len(partitions) # 1 => Len(Tail(partitions)) # 0
    BY <2>1, <2>2
  <2> QED BY <1>1, <2>2, <2>3
<1>9. RoutesOK(routes)'
  BY <1>1 DEF RoutesOK
<1>10. RoutesTyped'
  BY <1>1, <1>9 DEF RoutesTyped, IsInjective
<1> QED BY <1>1, <1>3, <1>4, <1>5, <1>7, <1>8, <1>10 DEF Typed, Phases, Sent

\* The steps of one partition that change neither the request nor the lists.
LEMMA LocalStepKeepsTyped ==
  ASSUME Typed, phase \in {"submit", "solve", "order"}, phase' \in {"submit", "solve", "order"},
         UNCHANGED <<request, todo, assigned, partitions, number>>,
         Sent', RoutesTyped', RowsTyped'
  PROVE  Typed'
<1>1. Men' = Men /\ Tasks' = Tasks
  BY DEF Men, Tasks
<1>2. phase' \in Phases /\ Early' /\ number' \in Nat
  BY DEF Phases, Early, Typed
<1>3. AssignmentOK'
  BY <1>1, <1>2 DEF Typed, AssignmentOK
<1>4. PartsOK(request, partitions)'
  BY DEF Typed, PartsOK
<1> QED BY <1>2, <1>3, <1>4 DEF Typed

\* The rows do not change while the request does not, unless a route ends.
LEMMA SameRowsTyped ==
  ASSUME Typed, UNCHANGED <<request, rows>>
  PROVE  RowsTyped'
<1>1. Men' = Men /\ Tasks' = Tasks
  BY DEF Men, Tasks
<1> QED BY <1>1 DEF Typed, RowsTyped

\* The routes of an answer, with nothing ordered yet.
LEMMA SolveKeepsTyped ==
  ASSUME Typed, Solve
  PROVE  Typed'
<1>1. phase = "solve" /\ request' = request /\ todo' = todo /\ assigned' = assigned /\ rows' = rows
  BY DEF Solve, Keep
<1>2. RowsTyped'
  BY <1>1, SameRowsTyped
<1>3. CASE NextPartition
  BY <1>1, <1>2, <1>3, NextPartitionKeepsTyped
<1>4. CASE ~ NextPartition

  <2> DEFINE jobs == PartPayloads(Current).jobs
             vehicles == PartPayloads(Current).vehicles
  <2>1. PICK s \in Solutions(payload.jobs, payload.vehicles) :
          /\ routes' = ParseSolution(s, Ids(jobs), Ids(vehicles))
          /\ routes' # <<>> /\ phase' = "order"
          /\ partitions' = partitions /\ number' = number /\ payload' = payload /\ chain' = chain
    BY <1>4 DEF Solve, Keep
  <2>2. payload.jobs = Numbered(jobs) /\ payload.vehicles = Numbered(vehicles)
    BY <1>1 DEF Typed, Sent
  <2>3. /\ RequestOK(request) /\ Current \in Partition /\ Current = Head(partitions)
        /\ IsInjective(Current.tasks) /\ IsInjective(Current.fieldmen)
    BY <1>1, FirstPartition DEF Typed, Current
  <2>4. RoutesOK(routes') /\ Within(routes', Head(partitions))
    BY <2>1, <2>2, <2>3, SolutionServes
  <2>5. RoutesOK(routes)' /\ Within(routes', Head(partitions'))
    BY <1>1, <2>1, <2>4 DEF RoutesOK, AreaFits
  <2>6. chain' = <<>>
    BY <1>1, <2>1 DEF Typed, RoutesTyped
  <2>7. RoutesTyped'
    BY <2>1, <2>5, <2>6 DEF RoutesTyped, IsInjective
  <2>8. Sent'
    BY <2>1 DEF Sent
  <2> QED BY <1>1, <1>2, <2>1, <2>7, <2>8, LocalStepKeepsTyped
<1> QED BY <1>3, <1>4

\* The request that is sent, with no answer yet.
LEMMA SubmitKeepsTyped ==
  ASSUME Typed, Submit
  PROVE  Typed'
<1>1. /\ phase = "submit" /\ phase' = "solve" /\ request' = request /\ todo' = todo
      /\ assigned' = assigned /\ partitions' = partitions /\ number' = number
      /\ routes' = routes /\ chain' = chain /\ rows' = rows
  BY DEF Submit, Keep
<1>2. RowsTyped'
  BY <1>1, SameRowsTyped
<1>3. routes' = <<>> /\ chain' = <<>>
  BY <1>1 DEF Typed, RoutesTyped
<1>4. RoutesOK(routes)'
  BY <1>3 DEF RoutesOK
<1>5. RoutesTyped'
  BY <1>1, <1>3, <1>4 DEF RoutesTyped, IsInjective
<1>6. Current' = Current /\ PartPayloads(Current)' = PartPayloads(Current)
      /\ Locations(Current)' = Locations(Current)
  BY <1>1 DEF Current, PartPayloads, Locations, PartStrategy
<1>7. payload' = [jobs |-> Numbered(PartPayloads(Current).jobs),
                  vehicles |-> Numbered(PartPayloads(Current).vehicles),
                  matrix |-> Costs(DistanceMatrix(Locations(Current)))]
  BY DEF Submit
<1>8. Sent'
  BY <1>6, <1>7 DEF Sent
<1> QED BY <1>1, <1>2, <1>5, <1>8, LocalStepKeepsTyped

\* A partition without tasks is passed over.
LEMMA SkipKeepsTyped ==
  ASSUME Typed, SkipPartition
  PROVE  Typed'
<1>1. /\ NextPartition /\ phase = "submit" /\ request' = request /\ todo' = todo
      /\ assigned' = assigned /\ rows' = rows
  BY DEF SkipPartition, Keep
<1> QED BY <1>1, SameRowsTyped, NextPartitionKeepsTyped

\* The chain grows by a task of the route that it does not have yet.
LEMMA ChainGrows ==
  ASSUME Typed, OrderNext
  PROVE  \E t \in NextInChain :
           /\ t \in Head(routes).tasks /\ t \in Tasks /\ t \notin ToSet(chain)
           /\ chain \in Seq(Tasks)
           /\ chain' = Append(chain, t) /\ chain' \in Seq(Tasks) /\ IsInjective(chain')
           /\ \A x : x \in ToSet(chain') <=> x \in ToSet(chain) \/ x = t
<1>1. RoutesOK(routes) /\ routes # <<>> /\ chain \in Seq(Tasks) /\ IsInjective(chain)
  BY DEF Typed, RoutesTyped, OrderNext
<1>2. PICK t \in NextInChain : chain' = Append(chain, t)
  BY DEF OrderNext
<1>3. t \in Head(routes).tasks /\ t \notin ToSet(chain)
  BY DEF NextInChain, Unordered
<1>4. t \in Tasks
  BY <1>1, <1>3, FirstRoute
<1>5. /\ Append(chain, t) \in Seq(Tasks) /\ IsInjective(Append(chain, t))
      /\ \A x : x \in ToSet(Append(chain, t)) <=> x \in ToSet(chain) \/ x = t
  BY <1>1, <1>3, <1>4, AppendPlaces
<1> QED BY <1>1, <1>2, <1>3, <1>4, <1>5

\* The chain stays one of different tasks of its route.
LEMMA OrderNextKeepsTyped ==
  ASSUME Typed, OrderNext
  PROVE  Typed'
<1>1. /\ phase = "order" /\ phase' = "order" /\ request' = request /\ todo' = todo
      /\ assigned' = assigned /\ partitions' = partitions /\ number' = number
      /\ routes' = routes /\ rows' = rows
  BY DEF OrderNext, Keep
<1>2. RowsTyped'
  BY <1>1, SameRowsTyped
<1>3. Tasks' = Tasks
  BY <1>1 DEF Tasks
<1>4. /\ \A x \in ToSet(chain') : x \in Head(routes).tasks
      /\ chain' \in Seq(Tasks) /\ IsInjective(chain')
  <2>1. PICK t \in NextInChain :
          /\ t \in Head(routes).tasks /\ chain' \in Seq(Tasks) /\ IsInjective(chain')
          /\ \A x : x \in ToSet(chain') <=> x \in ToSet(chain) \/ x = t
    BY ChainGrows
  <2>2. \A x \in ToSet(chain) : x \in Head(routes).tasks
    <3>1. CASE chain = <<>>
      BY <3>1 DEF ToSet
    <3>2. CASE chain # <<>>
      BY <3>2 DEF Typed, RoutesTyped
    <3> QED BY <3>1, <3>2
  <2> QED BY <2>1, <2>2
<1>5. RoutesOK(routes)'
  BY <1>1 DEF Typed, RoutesTyped, RoutesOK, AreaFits
<1>6. RoutesTyped'
  BY <1>1, <1>3, <1>4, <1>5 DEF Typed, RoutesTyped, Within
<1>7. Sent'
  BY <1>1 DEF Sent
<1> QED BY <1>1, <1>2, <1>6, <1>7, LocalStepKeepsTyped

\* The rows of a route, one for each stop of its chain.
LEMMA RowsOfRoute ==
  ASSUME NEW f, NEW tasks
  PROVE  /\ \A w \in RouteRows(f, tasks) : \E i \in DOMAIN tasks :
              w = [fieldman |-> f, partition |-> number, task |-> tasks[i], sequence |-> i,
                   duration |-> LegInto(f, tasks, i)]
         /\ \A i \in DOMAIN tasks :
              [fieldman |-> f, partition |-> number, task |-> tasks[i], sequence |-> i,
               duration |-> LegInto(f, tasks, i)] \in RouteRows(f, tasks)
BY DEF RouteRows, LegInto

\* The end of a route adds rows of its tasks.
LEMMA EndRouteKeepsTyped ==
  ASSUME Typed, EndRoute
  PROVE  Typed'
<1> DEFINE f == Head(routes).fieldman
<1>1. /\ phase = "order" /\ request' = request /\ todo' = todo /\ assigned' = assigned
      /\ rows' = rows \cup RouteRows(f, chain)
  BY DEF EndRoute, Keep
<1>2. RequestOK(request) /\ RoutesOK(routes) /\ routes # <<>> /\ chain \in Seq(Tasks) /\ number \in Nat
  BY <1>1 DEF Typed, RoutesTyped
<1>3. f \in Men
  BY <1>2, FirstRoute
<1> HIDE DEF f
<1>4. Men' = Men /\ Tasks' = Tasks
  BY <1>1 DEF Men, Tasks
<1>5. RowsTyped'
  <2> SUFFICES ASSUME NEW w \in RouteRows(f, chain)
               PROVE  /\ w = [fieldman |-> w.fieldman, partition |-> w.partition, task |-> w.task,
                              sequence |-> w.sequence, duration |-> w.duration]
                      /\ w.fieldman \in Men /\ w.partition \in Nat /\ w.task \in Tasks
                      /\ w.sequence \in Nat \ {0} /\ w.duration \in Nat
    BY <1>1, <1>4 DEF Typed, RowsTyped
  <2>1. PICK i \in DOMAIN chain :
          w = [fieldman |-> f, partition |-> number, task |-> chain[i], sequence |-> i,
               duration |-> LegInto(f, chain, i)]
    BY RowsOfRoute
  <2>2. chain[i] \in Tasks /\ i \in Nat \ {0}
    BY <1>2
  <2>3. LegInto(f, chain, i) \in Nat
    BY <1>2, <1>3, LegIntoIsRoad DEF Men, Tasks
  <2> QED BY <1>2, <1>3, <2>1, <2>2, <2>3
<1>6. CASE NextPartition
  BY <1>1, <1>5, <1>6, NextPartitionKeepsTyped
<1>7. CASE ~ NextPartition
  <2>1. /\ routes' = Tail(routes) /\ chain' = <<>> /\ phase' = "order" /\ Len(routes) > 1
        /\ partitions' = partitions /\ number' = number /\ payload' = payload
    BY <1>1, <1>7 DEF EndRoute, Keep
  <2>2. RoutesOK(Tail(routes))
    BY <1>2, TailKeepsRoutes
  <2>3. RoutesOK(routes)'
    BY <1>1, <2>1, <2>2 DEF RoutesOK, AreaFits
  <2>4. routes' # <<>> /\ Within(routes', Head(partitions'))
    <3> DEFINE R == [fieldman : ToSet(request.fieldmen), tasks : SUBSET ToSet(request.tasks)]
    <3>1. routes \in Seq(R)
      BY <1>2 DEF RoutesOK
    <3> HIDE DEF R
    <3>2. /\ Tail(routes) \in Seq(R) /\ Len(Tail(routes)) = Len(routes) - 1
          /\ \A i \in DOMAIN Tail(routes) : i + 1 \in DOMAIN routes /\ Tail(routes)[i] = routes[i + 1]
      BY <1>2, <3>1, TailPlaces
    <3>3. Len(Tail(routes)) # 0
      BY <2>1, <3>1, <3>2
    <3>4. Within(routes, Head(partitions))
      BY <1>1 DEF Typed, RoutesTyped
    <3>5. Tail(routes) # <<>>
      BY <3>2, <3>3
    <3> QED BY <2>1, <3>2, <3>4, <3>5 DEF Within
  <2>5. RoutesTyped'
    BY <2>1, <2>3, <2>4 DEF RoutesTyped, IsInjective
  <2>6. Sent'
    BY <2>1 DEF Sent
  <2> QED BY <1>1, <1>5, <2>1, <2>5, <2>6, LocalStepKeepsTyped
<1> QED BY <1>6, <1>7

\* Every step keeps the domains.
LEMMA TypedStep ==
  ASSUME Typed, [Next]_vars
  PROVE  Typed'
<1>1. CASE Ask
  <2>1. RequestOK(request) /\ phase = "asked" /\ phase' = "load"
        /\ UNCHANGED <<todo, assigned, partitions, number, payload, routes, chain, rows>>
    BY <1>1 DEF Typed, Ask, Keep, LaterLocals
  <2>2. RequestOK(request') /\ request'.fieldmen = request.fieldmen
    BY <1>1, <2>1, AskKeepsOK DEF RequestOK
  <2> QED BY <2>1, <2>2, EarlyStepKeepsTyped
<1>2. CASE Load
  <2>1. RequestOK(request) /\ phase = "load" /\ phase' = "validate"
        /\ UNCHANGED <<todo, assigned, partitions, number, payload, routes, chain, rows>>
    BY <1>2 DEF Typed, Load, Keep, LaterLocals
  <2>2. RequestOK(request') /\ request'.fieldmen = request.fieldmen
    BY <1>2, <2>1, LoadKeepsOK DEF RequestOK
  <2> QED BY <2>1, <2>2, EarlyStepKeepsTyped
<1>3. CASE Refuse
  <2>1. RequestOK(request) /\ phase = "validate" /\ phase' = "failed" /\ request' = request
        /\ UNCHANGED <<todo, assigned, partitions, number, payload, routes, chain, rows>>
    BY <1>3 DEF Typed, Refuse, Keep, LaterLocals
  <2> QED BY <2>1, EarlyStepKeepsTyped
<1>4. CASE FilterByArea
  BY <1>4, FilterKeepsTyped
<1>5. CASE AssignNext
  BY <1>5, AssignNextKeepsTyped
<1>6. CASE Split
  BY <1>6, SplitKeepsTyped
<1>7. CASE SkipPartition
  BY <1>7, SkipKeepsTyped
<1>8. CASE Submit
  BY <1>8, SubmitKeepsTyped
<1>9. CASE Solve
  BY <1>9, SolveKeepsTyped
<1>10. CASE OrderNext
  BY <1>10, OrderNextKeepsTyped
<1>11. CASE EndRoute
  BY <1>11, EndRouteKeepsTyped
<1>12. CASE UNCHANGED vars
  <2>1. /\ request' = request /\ phase' = phase /\ todo' = todo /\ assigned' = assigned
        /\ partitions' = partitions /\ number' = number /\ payload' = payload
        /\ routes' = routes /\ chain' = chain /\ rows' = rows
    BY <1>12 DEF vars
  <2>2. PartsOK(request, partitions)' /\ RoutesOK(routes)' /\ Men' = Men /\ Tasks' = Tasks
    BY <2>1 DEF Typed, RoutesTyped, PartsOK, RoutesOK, AreaFits, Men, Tasks
  <2>3. RoutesTyped' /\ RowsTyped'
    BY <2>1, <2>2 DEF Typed, RoutesTyped, RowsTyped, Within
  <2>4. AssignmentOK' /\ Early'
    BY <2>1, <2>2 DEF Typed, AssignmentOK, Early
  <2>5. Sent'
    <3>1. Current' = Current /\ PartPayloads(Current)' = PartPayloads(Current)
          /\ Locations(Current)' = Locations(Current)
      BY <2>1 DEF Current, PartPayloads, Locations, PartStrategy
    <3> QED BY <2>1, <3>1 DEF Typed, Sent
  <2> QED BY <2>1, <2>2, <2>3, <2>4, <2>5 DEF Typed
<1> QED BY <1>1, <1>2, <1>3, <1>4, <1>5, <1>6, <1>7, <1>8, <1>9, <1>10, <1>11, <1>12 DEF Next

\* The worker's locals keep their domains, and more: the request stays in order,
\* every task is waiting or with one fieldman while tasks are assigned, the
\* partitions share no task and have somebody to serve them, and the routes read
\* of an answer share neither tasks nor fieldmen and respect the areas.
THEOREM LocalsStayTyped == Spec => []Typed
<1> QED BY TypedInit, TypedStep, PTL DEF Spec

\* The type invariant that TLC checks follows from it.
THEOREM PlanTypeInvariant == Spec => []PlanTypeOK
<1>1. ASSUME Typed PROVE PlanTypeOK
  <2>1. request.tasks \in Seq(Nat) /\ request.fieldmen \in Seq(Nat)
    <3>1. /\ request.taskAt \in Seq(Int) /\ request.tasks \in Seq(DOMAIN request.taskAt)
          /\ request.fmAt \in Seq(Int) /\ request.fieldmen \in Seq(DOMAIN request.fmAt)
      BY <1>1 DEF Typed, RequestOK
    <3>2. DOMAIN request.taskAt \subseteq Nat /\ DOMAIN request.fmAt \subseteq Nat
      BY <3>1
    <3> QED BY <3>1, <3>2
  <2>2. phase \in Phases /\ todo \in Seq(ToSet(request.tasks)) /\ number \in Nat
        /\ DOMAIN assigned = ToSet(request.fieldmen)
    BY <1>1 DEF Typed, AssignmentOK, Men, Tasks
  <2>3. \A i \in DOMAIN routes : routes[i].fieldman \in ToSet(request.fieldmen)
    <3> DEFINE R == [fieldman : ToSet(request.fieldmen), tasks : SUBSET ToSet(request.tasks)]
    <3>1. \A x \in R : x.fieldman \in ToSet(request.fieldmen)
      OBVIOUS
    <3>2. routes \in Seq(R)
      BY <1>1 DEF Typed, RoutesTyped, RoutesOK
    <3> HIDE DEF R
    <3>3. \A i \in DOMAIN routes : routes[i] \in R
      BY <3>2
    <3> QED BY <3>1, <3>3
  <2>4. ToSet(chain) \subseteq ToSet(request.tasks)
    BY <1>1 DEF Typed, RoutesTyped, Tasks, ToSet
  <2>5. \A w \in rows : w.sequence >= 1 /\ w.duration >= 0
    BY <1>1 DEF Typed, RowsTyped
  <2> QED BY <2>1, <2>2, <2>3, <2>4, <2>5 DEF PlanTypeOK
<1> QED BY <1>1, LocalsStayTyped, PTL

-----------------------------------------------------------------------------
(* The priorities and the assignment *)

\* The order of the priorities survives the rescaling, which ends within half
\* a tenth of the bounds, at any precision.
THEOREM RescalingKeepsOrder == Spec => RescaleKeepsOrder
<1> DEFINE A == phase = "asked" /\ request.via = "legacy" /\ request.range # NoRange =>
       \A t, u \in DOMAIN request.taskAt :
         /\ request.priority[t] =< request.priority[u] =>
              request'.priority[t] =< request'.priority[u]
         /\ request.range.min # None /\ request.range.max # None =>
              /\ 2 * request'.priority[t] >=
                   2 * Smaller(request.range.min, request.range.max) - Tenth
              /\ 2 * request'.priority[t] =<
                   2 * Larger(request.range.min, request.range.max) + Tenth
<1>1. ASSUME Typed, Next, phase = "asked", request.via = "legacy", request.range # NoRange
      PROVE  A
  <2>1. Ask /\ RequestOK(request)
    BY <1>1 DEF Next, Load, Refuse, FilterByArea, AssignNext, Split, SkipPartition, Submit, Solve,
                OrderNext, EndRoute, Typed
  <2>2. request' = LegacyOptimized(request)
    BY <1>1, <2>1 DEF Ask
  <2>3. request'.priority = Rescaled(request)
    BY <1>1, <2>1, <2>2, LegacyOptimizedKeepsOK
  <2> QED BY <1>1, <2>1, <2>3, RescaledIsOrdered
<1>2. ASSUME Typed, [Next]_vars
      PROVE  [A]_vars
  BY <1>1, <1>2
<1> QED BY <1>2, LocalsStayTyped, PTL DEF Spec, RescaleKeepsOrder

\* Twins have the same load, or one task more, while everybody is within reach.
THEOREM TwinsShareTheLoad == Spec => []TwinsShareLoad
<1>1. Init => TwinsShareLoad
  BY DEF Init, TwinsShareLoad
<1>2. ASSUME Typed, Typed', TwinsShareLoad, [Next]_vars
      PROVE  TwinsShareLoad'
  <2>1. CASE AssignNext
    <3> DEFINE t == Head(todo)
               c == ChooseFieldman(request, [f \in DOMAIN assigned |-> Len(assigned[f])], t)
    <3>1. /\ t \in Tasks /\ c \in Men
          /\ assigned' = [assigned EXCEPT ![c] = Append(@, t)] /\ request' = request
          /\ WithinReach(request, t) # <<>> => \A g \in Men :
               request.fmAt[c] = request.fmAt[g] => Len(assigned[c]) =< Len(assigned[g])
      BY <1>2, <2>1, AssignNextGives
    <3>2. assigned \in [Men -> Seq(Tasks)]
      BY <1>2 DEF Typed, AssignmentOK
    <3> HIDE DEF c, t
    <3>3. \A g \in Men : Len(assigned'[g]) = IF g = c THEN Len(assigned[g]) + 1 ELSE Len(assigned[g])
      BY <3>1, <3>2
    <3>4. DOMAIN assigned = Men /\ DOMAIN assigned' = Men
      BY <3>1, <3>2
    <3>5. \A g \in Men : Len(assigned[g]) \in Nat
      BY <3>2
    <3>6. SUFFICES ASSUME \A i \in DOMAIN request.tasks : WithinReach(request, request.tasks[i]) # <<>>,
                          NEW f \in Men, NEW g \in Men, request.fmAt[f] = request.fmAt[g]
                   PROVE  Len(assigned'[f]) =< Len(assigned'[g]) + 1
      BY <3>1, <3>4 DEF TwinsShareLoad
    <3>7. WithinReach(request, t) # <<>>
      BY <3>1, <3>6 DEF Tasks, ToSet
    <3>8. Len(assigned[f]) =< Len(assigned[g]) + 1
      BY <1>2, <3>4, <3>6 DEF TwinsShareLoad
    <3>9. f = c => Len(assigned[f]) =< Len(assigned[g])
      BY <3>1, <3>6, <3>7
    <3> QED BY <3>3, <3>5, <3>8, <3>9
  <2>2. CASE phase \in {"asked", "load", "validate"} /\ ~ AssignNext
    <3>1. assigned' = [f \in Men |-> <<>>]
      BY <1>2, <2>2 DEF Typed, Early, Next, Ask, Load, Refuse, FilterByArea, Split, SkipPartition,
                        Submit, Solve, OrderNext, EndRoute, Keep, vars
    <3> QED BY <3>1 DEF TwinsShareLoad
  <2>3. CASE phase \notin {"asked", "load", "validate"} /\ ~ AssignNext
    <3>1. assigned' = assigned /\ request' = request
      BY <1>2, <2>3 DEF Next, Ask, Load, Refuse, FilterByArea, Split, SkipPartition,
                        Submit, Solve, OrderNext, EndRoute, Keep, vars
    <3> QED BY <1>2, <3>1 DEF TwinsShareLoad
  <2> QED BY <2>1, <2>2, <2>3
<1> QED BY <1>1, <1>2, LocalsStayTyped, PTL DEF Spec

-----------------------------------------------------------------------------
(* The scope of a job *)

\* Which rows are selected does not depend on the tasks or the resolution.
LEMMA SelectionIsOfTheRows ==
  ASSUME NEW r, NEW q, r.taskAt = q.taskAt, r.ids = q.ids, r.range = q.range,
         r.priority = q.priority, r.limit = q.limit, r.offset = q.offset,
         r.land = q.land
  PROVE  Selected(r) = Selected(q)
BY DEF Selected, Named, InRange

\* The tasks are the rows selected, then those of them that the areas allow; and
\* the areas of an optimized request allow every row.
Scoped ==
  /\ phase # "asked" /\ request.via # "jobs" /\ request.areas # <<>> =>
       \A t \in DOMAIN request.taskAt : Allowed(t)
  /\ phase = "validate" => request.tasks = Selected(request)
  /\ phase \notin {"asked", "load", "validate"} =>
       \/ phase = "failed" /\ request.tasks = Selected(request)
       \/ request.tasks = Only(Selected(request), {t \in ToSet(Selected(request)) : Allowed(t)})

\* It is established step by step, and kept while the request does not change.
LEMMA ScopedStep ==
  ASSUME Typed, Scoped, [Next]_vars
  PROVE  Scoped'
<1>1. RequestOK(request)
  BY DEF Typed
<1>2. CASE Ask
  <2>1. phase' = "load"
    BY <1>2 DEF Ask
  <2>2. /\ request'.via = request.via /\ request'.areas = request.areas
        /\ request'.taskAt = request.taskAt
        /\ request.via # "jobs" /\ request.areas # <<>> /\ request.taskAt # <<>> =>
              \A t \in DOMAIN request.taskAt :
                t \in DOMAIN request'.areaMap /\ request'.areaMap[t] \in request'.areaIds
    BY <1>1, <1>2, AskKeepsOK DEF RequestOK
  <2>3. request'.via # "jobs" /\ request'.areas # <<>> =>
          \A t \in DOMAIN request'.taskAt : Allowed(t)'
    BY <2>2 DEF Allowed
  <2> QED BY <2>1, <2>3 DEF Scoped
<1>3. CASE Load
  <2>1. phase = "load" /\ phase' = "validate" /\ request'.tasks = Selected(request)
        /\ \A x \in DOMAIN request \ {"tasks"} : request'[x] = request[x]
    BY <1>1, <1>3, LoadKeepsOK DEF Load
  <2>2. Selected(request') = Selected(request)
    <3>1. /\ request'.taskAt = request.taskAt /\ request'.ids = request.ids
          /\ request'.range = request.range /\ request'.priority = request.priority
          /\ request'.limit = request.limit /\ request'.offset = request.offset
          /\ request'.land = request.land
      BY <1>1, <2>1 DEF RequestOK
    <3> QED BY <3>1, SelectionIsOfTheRows
  <2>3. /\ request'.via = request.via /\ request'.areas = request.areas
        /\ request'.taskAt = request.taskAt /\ request'.areaIds = request.areaIds
        /\ request'.areaMap = request.areaMap
    BY <1>1, <2>1 DEF RequestOK
  <2> QED BY <2>1, <2>2, <2>3 DEF Scoped, Allowed
<1>4. CASE Refuse
  <2>1. phase = "validate" /\ phase' = "failed" /\ request' = request
    BY <1>4 DEF Refuse, Keep
  <2> QED BY <2>1 DEF Scoped, Allowed
<1>5. CASE FilterByArea
  <2>1. /\ phase = "validate" /\ phase' \notin {"asked", "load", "validate"}
        /\ request'.tasks = Only(request.tasks, {t \in ToSet(request.tasks) : Allowed(t)})
        /\ \A x \in DOMAIN request \ {"tasks", "resolution"} : request'[x] = request[x]
    BY <1>1, <1>5, FilterKeepsOK DEF FilterByArea
  <2>2. /\ request'.via = request.via /\ request'.areas = request.areas
        /\ request'.taskAt = request.taskAt /\ request'.areaIds = request.areaIds
        /\ request'.areaMap = request.areaMap
    BY <1>1, <2>1 DEF RequestOK
  <2>3. Selected(request') = Selected(request)
    <3>1. /\ request'.taskAt = request.taskAt /\ request'.ids = request.ids
          /\ request'.range = request.range /\ request'.priority = request.priority
          /\ request'.limit = request.limit /\ request'.offset = request.offset
          /\ request'.land = request.land
      BY <1>1, <2>1 DEF RequestOK
    <3> QED BY <3>1, SelectionIsOfTheRows
  <2>4. request.tasks = Selected(request)
    BY <2>1 DEF Scoped
  <2>5. \A t : Allowed(t)' <=> Allowed(t)
    BY <2>2 DEF Allowed
  <2>6. {t \in ToSet(Selected(request')) : Allowed(t)'} = {t \in ToSet(request.tasks) : Allowed(t)}
    BY <2>3, <2>4, <2>5
  <2>7. request'.tasks = Only(Selected(request'), {t \in ToSet(Selected(request')) : Allowed(t)'})
    BY <2>1, <2>3, <2>4, <2>6
  <2>8. request'.via # "jobs" /\ request'.areas # <<>> =>
          \A t \in DOMAIN request'.taskAt : Allowed(t)'
    BY <2>1, <2>2, <2>5 DEF Scoped
  <2> QED BY <2>1, <2>7, <2>8 DEF Scoped
<1>6. CASE AssignNext \/ Split \/ SkipPartition \/ Submit \/ Solve \/ OrderNext \/ EndRoute
  <2>1. phase \in {"assign", "submit", "solve", "order"} /\ request' = request
    BY <1>6 DEF AssignNext, Split, SkipPartition, Submit, Solve, OrderNext, EndRoute, Keep
  <2>2. phase' \in {"assign", "submit", "solve", "order", "ready", "failed"}
    BY <1>6 DEF AssignNext, Split, SkipPartition, Submit, Solve, OrderNext, EndRoute, Keep,
                NextPartition
  <2> QED BY <2>1, <2>2 DEF Scoped, Allowed
<1>7. CASE UNCHANGED vars
  BY <1>7 DEF vars, Scoped, Allowed
<1> QED BY <1>2, <1>3, <1>4, <1>5, <1>6, <1>7 DEF Next

\* So it always holds.
LEMMA ScopeIsKept == Spec => []Scoped
<1>1. Init => Scoped
  BY DEF Init, Scoped
<1> QED BY <1>1, ScopedStep, LocalsStayTyped, PTL DEF Spec

\* Optimizing for areas drops no task: the area filter keeps every row selected.
THEOREM OptimizingKeepsScope == Spec => []OptimizeKeepsScope
<1>1. ASSUME Typed, Scoped PROVE OptimizeKeepsScope
  <2>1. SUFFICES ASSUME request.via # "jobs", request.areas # <<>>,
                        phase \notin {"asked", "load", "validate"}
                 PROVE  request.tasks = Selected(request)
    BY DEF OptimizeKeepsScope
  <2> DEFINE s == Selected(request)
             A == {t \in ToSet(s) : Allowed(t)}
  <2>2. s \in Seq(DOMAIN request.taskAt)
    BY <1>1, SelectedRows DEF Typed
  <2>3. \A t \in DOMAIN request.taskAt : Allowed(t)
    BY <1>1, <2>1 DEF Scoped
  <2>4. request.tasks = s \/ request.tasks = Only(s, A)
    BY <1>1, <2>1 DEF Scoped
  <2> HIDE DEF s
  <2>5. ToSet(s) \subseteq A
    BY <2>2, <2>3 DEF ToSet
  <2> HIDE DEF A
  <2>6. Only(s, A) = s
    BY <2>2, <2>5, OnlyKeeps
  <2> QED BY <2>4, <2>6 DEF s
<1> QED BY <1>1, LocalsStayTyped, ScopeIsKept, PTL

\* What plan-ahead announces is what the worker plans.
THEOREM PlanningAheadIsExact == Spec => []PlanAheadIsExact
<1>1. ASSUME Typed, Scoped PROVE PlanAheadIsExact
  <2>1. SUFFICES ASSUME phase = "submit"
                 PROVE  /\ ToSet(request.tasks) \subseteq PlannedAhead(request)
                        /\ request.range = NoRange /\ request.limit = None
                           /\ request.offset = None
                           /\ DOMAIN request.taskAt \subseteq request.land
                           /\ (request.areaIds # {} =>
                                 DOMAIN request.areaMap \subseteq DOMAIN request.taskAt) =>
                             ToSet(request.tasks) = PlannedAhead(request)
    BY DEF PlanAheadIsExact
  <2> DEFINE s == Selected(request)
             A == {t \in ToSet(s) : Allowed(t)}
  <2>2. /\ s \in Seq(DOMAIN request.taskAt)
        /\ \A t \in ToSet(s) : Named(request, t) /\ InRange(request, t)
        /\ request.limit = None /\ request.offset = None => \A t \in DOMAIN request.taskAt :
             Named(request, t) /\ InRange(request, t) /\ t \in request.land => t \in ToSet(s)
    BY <1>1, SelectedRows DEF Typed
  <2>3. request.tasks = Only(s, A)
    BY <1>1, <2>1 DEF Scoped
  <2>4. ToSet(s) \cap A = A
    OBVIOUS
  <2>5. \A t \in A : t \in ToSet(s) /\ Allowed(t)
    OBVIOUS
  <2>6. \A t \in ToSet(s) : Allowed(t) => t \in A
    OBVIOUS
  <2> HIDE DEF s, A
  <2>7. ToSet(request.tasks) = A
    BY <2>2, <2>3, <2>4, OnlyKeeps
  <2>8. \A t \in ToSet(s) : t \in DOMAIN request.taskAt
    BY <2>2 DEF ToSet
  <2>9. ToSet(request.tasks) \subseteq PlannedAhead(request)
    BY <2>2, <2>5, <2>7, <2>8 DEF PlannedAhead, Allowed
  <2>10. ASSUME request.range = NoRange, request.limit = None, request.offset = None,
                DOMAIN request.taskAt \subseteq request.land,
                request.areaIds # {} => DOMAIN request.areaMap \subseteq DOMAIN request.taskAt,
                NEW t \in PlannedAhead(request)
         PROVE  t \in A
    <3>1. t \in DOMAIN request.taskAt /\ Named(request, t) /\ Allowed(t)
      BY <2>10 DEF PlannedAhead, Allowed
    <3>2. InRange(request, t)
      BY <2>10 DEF InRange, NoRange
    <3> QED BY <2>2, <2>6, <2>10, <3>1, <3>2
  <2> QED BY <2>7, <2>9, <2>10
<1> QED BY <1>1, LocalsStayTyped, ScopeIsKept, PTL

-----------------------------------------------------------------------------
(* The partitions *)

\* At the start the partitions have every task, and none of h3 is too large.
Whole ==
  phase = "submit" /\ number = 0 =>
    /\ Covers(request, partitions)
    /\ request.strategy = "h3" =>
         \A i \in DOMAIN partitions : Len(partitions[i].tasks) =< MaxPerPartition

\* They are made whole, by the filter or by the split, and counted when they end.
LEMMA WholeStep ==
  ASSUME Typed, Whole, [Next]_vars
  PROVE  Whole'
<1>1. RequestOK(request) /\ number \in Nat
  BY DEF Typed
<1>2. CASE FilterByArea
  <2>1. CASE request.strategy = "h3"
    <3>1. phase' = "assign"
      BY <1>2, <2>1 DEF FilterByArea
    <3> QED BY <3>1 DEF Whole
  <2>2. CASE request.strategy # "h3"
    <3>1. \A x \in DOMAIN request \ {"tasks", "resolution"} : request'[x] = request[x]
      BY <1>1, <1>2, FilterKeepsOK
    <3>2. request'.strategy = request.strategy /\ request'.fieldmen # <<>>
      BY <1>1, <1>2, <3>1 DEF RequestOK, FilterByArea, Refused
    <3>3. Covers(request', partitions')
      BY <1>1, <1>2, <2>2, <3>2, FilterMakes
    <3> QED BY <2>2, <3>2, <3>3 DEF Whole, Covers
  <2> QED BY <2>1, <2>2
<1>3. CASE Split
  <2>1. request' = request
    BY <1>3 DEF Split, Keep
  <2>2. /\ Covers(request, partitions')
        /\ \A i \in DOMAIN partitions' : Len(partitions'[i].tasks) =< MaxPerPartition
    BY <1>3, SplitMakes
  <2> QED BY <2>1, <2>2 DEF Whole, Covers
<1>4. ASSUME NextPartition PROVE Whole'
  <2>1. number' # 0
    BY <1>1, <1>4 DEF NextPartition
  <2> QED BY <2>1 DEF Whole
<1>5. CASE Ask \/ Load \/ Refuse \/ AssignNext \/ Submit \/ OrderNext
  <2>1. phase' # "submit"
    BY <1>5 DEF Ask, Load, Refuse, AssignNext, Submit, OrderNext, Keep
  <2> QED BY <2>1 DEF Whole
<1>6. CASE SkipPartition
  BY <1>4, <1>6 DEF SkipPartition
<1>7. CASE Solve
  <2>1. NextPartition \/ phase' = "order"
    BY <1>7 DEF Solve
  <2> QED BY <1>4, <2>1 DEF Whole
<1>8. CASE EndRoute
  <2>1. NextPartition \/ phase' = "order"
    BY <1>8 DEF EndRoute, Keep
  <2> QED BY <1>4, <2>1 DEF Whole
<1>9. CASE UNCHANGED vars
  BY <1>9 DEF vars, Whole, Covers
<1> QED BY <1>2, <1>3, <1>5, <1>6, <1>7, <1>8, <1>9 DEF Next

\* No task in scope is lost or doubled on the way to the solver.
THEOREM PartitionsCoverTheScope == Spec => []PartitionsCoverScope
<1>1. ASSUME Typed, Whole PROVE PartitionsCoverScope
  <2> DEFINE P == [tasks : Seq(ToSet(request.tasks)), fieldmen : Seq(ToSet(request.fieldmen))]
             ss == [i \in DOMAIN partitions |-> partitions[i].tasks]
             all == Concat(ss)
  <2>1. SUFFICES ASSUME phase = "submit", number = 0
                 PROVE  /\ Len(all) = Len(request.tasks)
                        /\ ToSet(all) = ToSet(request.tasks)
                        /\ \A i \in DOMAIN partitions :
                             /\ partitions[i].fieldmen # <<>>
                             /\ request.strategy = "h3" => Len(partitions[i].tasks) =< MaxPerPartition
    BY DEF PartitionsCoverScope
  <2>2. /\ RequestOK(request) /\ PartsOK(request, partitions) /\ Covers(request, partitions)
        /\ request.strategy = "h3" =>
             \A i \in DOMAIN partitions : Len(partitions[i].tasks) =< MaxPerPartition
    BY <1>1, <2>1 DEF Typed, Whole
  <2>3. partitions \in Seq(P)
    BY <2>2 DEF PartsOK
  <2>4. \A x \in P : x.tasks \in Seq(Tasks)
    BY DEF Tasks
  <2> HIDE DEF P
  <2>5. \A i \in DOMAIN partitions : partitions[i].tasks \in Seq(Tasks)
    BY <2>3, <2>4
  <2>6. DOMAIN partitions = 1..Len(partitions) /\ Len(partitions) \in Nat
    BY <2>3
  <2>7. ss \in [1..Len(partitions) -> Seq(Tasks)]
    BY <2>5, <2>6
  <2>8. ss \in Seq(Seq(Tasks)) /\ DOMAIN ss = DOMAIN partitions
    BY <2>6, <2>7
  <2>9. \A i \in DOMAIN ss : ss[i] = partitions[i].tasks
    OBVIOUS
  <2> HIDE DEF ss
  <2>10. /\ \A i \in DOMAIN ss : IsInjective(ss[i])
         /\ \A i, j \in DOMAIN ss : i # j => Apart(ss[i], ss[j])
    BY <2>2, <2>8, <2>9 DEF PartsOK
  <2>11. /\ all \in Seq(Tasks) /\ IsInjective(all)
         /\ \A i \in DOMAIN ss : \A x \in ToSet(ss[i]) : x \in ToSet(all)
    BY <2>8, <2>10, ConcatJoins
  <2> HIDE DEF all
  <2>12. ToSet(all) = ToSet(request.tasks)
    <3>1. \A x \in ToSet(all) : x \in Tasks
      BY <2>11 DEF ToSet
    <3>2. \A x \in Tasks : x \in ToSet(all)
      BY <2>2, <2>8, <2>9, <2>11 DEF Covers, Tasks
    <3> QED BY <3>1, <3>2 DEF Tasks
  <2>13. request.tasks \in Seq(Tasks) /\ IsInjective(request.tasks)
    BY <2>2, ListsOfRequest DEF Tasks
  <2>14. Len(all) = Len(request.tasks)
    BY <2>11, <2>12, <2>13, SameElementsSameLength
  <2> QED BY <2>2, <2>12, <2>14 DEF PartsOK
<1>2. Init => Whole
  BY DEF Init, Whole
<1> QED BY <1>1, <1>2, WholeStep, LocalsStayTyped, PTL DEF Spec

-----------------------------------------------------------------------------
(* The rows *)

\* The rows change when a route ends and not otherwise, and the request does not
\* change once there are rows.
LEMMA RowsAppear ==
  ASSUME Typed, [Next]_vars
  PROVE  \/ rows' = {}
         \/ request' = request /\ rows' = rows
         \/ EndRoute /\ request' = request
            /\ rows' = rows \cup RouteRows(Head(routes).fieldman, chain)
<1>1. CASE phase \in {"asked", "load", "validate"} /\ Next
  BY <1>1 DEF Typed, Early, Next, Ask, Load, Refuse, FilterByArea, AssignNext, Split,
              SkipPartition, Submit, Solve, OrderNext, EndRoute, Keep, LaterLocals
<1>2. CASE phase \notin {"asked", "load", "validate"} /\ Next
  BY <1>2 DEF Next, Ask, Load, Refuse, FilterByArea, AssignNext, Split,
              SkipPartition, Submit, Solve, OrderNext, EndRoute, Keep, LaterLocals
<1>3. CASE UNCHANGED vars
  BY <1>3 DEF vars
<1> QED BY <1>1, <1>2, <1>3

\* Under manual_area a task with an area is only stored with a fieldman of the area.
THEOREM AreasAreRespected == Spec => []AreasRespected
<1> DEFINE Fit == \A w \in rows : AreaFits(w.fieldman, w.task)
<1>1. Init => Fit
  BY DEF Init
<1>2. ASSUME Typed, Fit, [Next]_vars PROVE Fit'
  <2>1. CASE rows' = {}
    BY <2>1
  <2>2. CASE request' = request /\ rows' = rows
    BY <1>2, <2>2 DEF AreaFits
  <2>3. CASE EndRoute /\ request' = request
             /\ rows' = rows \cup RouteRows(Head(routes).fieldman, chain)
    <3>1. /\ RoutesOK(routes) /\ routes # <<>> /\ chain \in Seq(Tasks)
          /\ \A t \in ToSet(chain) : t \in Head(routes).tasks
      BY <1>2, <2>3 DEF Typed, RoutesTyped, EndRoute, ToSet
    <3>2. \A t \in Head(routes).tasks : AreaFits(Head(routes).fieldman, t)
      BY <3>1, FirstRoute
    <3>3. ASSUME NEW w \in RouteRows(Head(routes).fieldman, chain)
          PROVE  AreaFits(w.fieldman, w.task)
      <4>1. PICK i \in DOMAIN chain : w.fieldman = Head(routes).fieldman /\ w.task = chain[i]
        BY RowsOfRoute
      <4>2. chain[i] \in ToSet(chain)
        BY <3>1 DEF ToSet
      <4> QED BY <3>1, <3>2, <4>1, <4>2
    <3> QED BY <1>2, <2>3, <3>3 DEF AreaFits
  <2> QED BY <1>2, <2>1, <2>2, <2>3, RowsAppear
<1>3. Fit => AreasRespected
  BY DEF AreaFits, AreasRespected
<1> QED BY <1>1, <1>2, <1>3, LocalsStayTyped, PTL DEF Spec

-----------------------------------------------------------------------------
(* The order of the stops *)

\* Each stop comes before the later ones for its priority, or else for its distance
\* from the stop before it.
Precedes(f, ch, i, t) ==
  /\ EffectivePriority(request, ch[i]) >= EffectivePriority(request, t)
  /\ EffectivePriority(request, ch[i]) = EffectivePriority(request, t) =>
       Haversine(StopBefore(f, ch, i), request.taskAt[ch[i]])
         =< Haversine(StopBefore(f, ch, i), request.taskAt[t])
Chained(f, ch) == \A i, j \in DOMAIN ch : i < j => Precedes(f, ch, i, ch[j])

\* The chain of the current route is in order, also before the tasks left to it.
ChainOrdered ==
  chain # <<>> =>
    /\ Chained(Head(routes).fieldman, chain)
    /\ \A i \in DOMAIN chain : \A t \in Unordered : Precedes(Head(routes).fieldman, chain, i, t)

\* The next stop is before those that are left, and those before it stay.
LEMMA ChainStaysOrdered ==
  ASSUME Typed, ChainOrdered, OrderNext
  PROVE  ChainOrdered'
<1> DEFINE f == Head(routes).fieldman
           n == Len(chain)
<1>1. PICK t \in NextInChain :
        /\ t \in Head(routes).tasks /\ t \in Tasks /\ t \notin ToSet(chain)
        /\ chain \in Seq(Tasks)
        /\ chain' = Append(chain, t) /\ chain' \in Seq(Tasks)
        /\ \A x : x \in ToSet(chain') <=> x \in ToSet(chain) \/ x = t
  BY ChainGrows
<1>2. request' = request /\ routes' = routes
  BY DEF OrderNext, Keep
<1>3. /\ n \in Nat /\ DOMAIN chain = 1..n /\ DOMAIN chain' = 1..(n + 1)
      /\ \A i \in 1..n : chain'[i] = chain[i]
      /\ chain'[n + 1] = t
  BY <1>1
<1>4. t \in Unordered /\ \A u \in Unordered' : u \in Unordered
  BY <1>1, <1>2 DEF Unordered, NextInChain
<1>5. Position = StopBefore(f, chain', n + 1)
  <2>1. CASE chain = <<>>
    BY <1>3, <2>1 DEF Position, StopBefore
  <2>2. CASE chain # <<>>
    <3>1. n \in 1..n /\ n + 1 # 1 /\ (n + 1) - 1 = n /\ Last(chain) = chain[n]
      BY <1>1, <1>3, <2>2 DEF Last
    <3>2. chain'[(n + 1) - 1] = chain[n]
      BY <1>3, <3>1
    <3> QED BY <2>2, <3>1, <3>2 DEF Position, StopBefore
  <2> QED BY <2>1, <2>2
<1>6. \A u \in Unordered : Precedes(f, chain', n + 1, u)
  <2> SUFFICES ASSUME NEW u \in Unordered
               PROVE  Precedes(f, chain', n + 1, u)
    OBVIOUS
  <2> DEFINE top == {x \in Unordered : \A y \in Unordered :
                EffectivePriority(request, x) >= EffectivePriority(request, y)}
  <2>1. /\ \A y \in Unordered : EffectivePriority(request, t) >= EffectivePriority(request, y)
        /\ \A y \in top : Haversine(Position, request.taskAt[t]) =< Haversine(Position, request.taskAt[y])
    BY <1>1 DEF NextInChain
  <2>2. ASSUME EffectivePriority(request, t) = EffectivePriority(request, u)
        PROVE  Haversine(Position, request.taskAt[t]) =< Haversine(Position, request.taskAt[u])
    <3>1. u \in top
      BY <2>1, <2>2
    <3> QED BY <2>1, <3>1
  <2> QED BY <1>3, <1>5, <2>1, <2>2 DEF Precedes
<1>7. \A i \in 1..n : \A u : Precedes(f, chain, i, u) => Precedes(f, chain', i, u)
  <2> SUFFICES ASSUME NEW i \in 1..n, NEW u, Precedes(f, chain, i, u)
               PROVE  Precedes(f, chain', i, u)
    OBVIOUS
  <2>1. StopBefore(f, chain', i) = StopBefore(f, chain, i)
    <3>1. i = 1 \/ i - 1 \in 1..n
      BY <1>3
    <3> QED BY <1>3, <3>1 DEF StopBefore
  <2> QED BY <1>3, <2>1 DEF Precedes
<1>8. /\ \A i, j \in 1..n : i < j => Precedes(f, chain, i, chain[j])
      /\ \A i \in 1..n : \A u \in Unordered : Precedes(f, chain, i, u)
  <2>1. CASE chain = <<>>
    BY <1>3, <2>1
  <2>2. CASE chain # <<>>
    BY <1>3, <2>2 DEF ChainOrdered, Chained
  <2> QED BY <2>1, <2>2
<1> HIDE DEF f
<1>9. Chained(f, chain')
  <2> SUFFICES ASSUME NEW i \in 1..(n + 1), NEW j \in 1..(n + 1), i < j
               PROVE  Precedes(f, chain', i, chain'[j])
    BY <1>3 DEF Chained
  <2>1. i \in 1..n
    BY <1>3
  <2>2. CASE j \in 1..n
    BY <1>3, <1>7, <1>8, <2>1, <2>2
  <2>3. CASE j \notin 1..n
    <3>1. j = n + 1
      BY <1>3, <2>3
    <3> QED BY <1>3, <1>4, <1>7, <1>8, <2>1, <3>1
  <2> QED BY <2>2, <2>3
<1>10. \A i \in DOMAIN chain' : \A u \in Unordered' : Precedes(f, chain', i, u)
  <2> SUFFICES ASSUME NEW i \in 1..(n + 1), NEW u \in Unordered
               PROVE  Precedes(f, chain', i, u)
    BY <1>3, <1>4
  <2>1. CASE i \in 1..n
    BY <1>7, <1>8, <2>1
  <2>2. CASE i \notin 1..n
    <3>1. i = n + 1
      BY <1>3, <2>2
    <3> QED BY <1>6, <3>1 DEF f
  <2> QED BY <2>1, <2>2
<1>11. /\ Chained(f, chain)' <=> Chained(f', chain')
       /\ f' = f
  BY <1>2 DEF Chained, Precedes, StopBefore, f
<1> QED BY <1>2, <1>9, <1>10, <1>11 DEF ChainOrdered, f, Chained, Precedes, StopBefore

-----------------------------------------------------------------------------
(* What is stored *)

StopRow(f, p, ch, i) ==
  [fieldman |-> f, partition |-> p, task |-> ch[i], sequence |-> i, duration |-> LegInto(f, ch, i)]

\* The rows of fieldman f in partition p among `stored` are the stops of the route ch.
RouteIn(stored, f, p, ch) ==
  /\ ch \in Seq(Tasks) /\ IsInjective(ch) /\ Chained(f, ch)
  /\ \A i \in DOMAIN ch : StopRow(f, p, ch, i) \in stored
  /\ \A w \in stored : w.fieldman = f /\ w.partition = p =>
       \E i \in DOMAIN ch : w = StopRow(f, p, ch, i)

\* The rows make up whole routes, which are done with: their fieldmen are not among
\* those of the routes left, nor their tasks in those routes or in other partitions.
Stored ==
  /\ \A w \in rows : \E ch : RouteIn(rows, w.fieldman, w.partition, ch)
  /\ \A v, w \in rows : v.task = w.task => v = w
Done ==
  \A w \in rows :
    /\ w.partition =< number
    /\ w.partition = number =>
         phase = "order" /\ \A i \in DOMAIN routes : routes[i].fieldman # w.fieldman
    /\ \A i \in DOMAIN routes : w.task \notin routes[i].tasks
    /\ \A i \in DOMAIN partitions :
         w.task \in ToSet(partitions[i].tasks) => i = 1 /\ w.partition = number

\* A route does not change with anything but the request.
LEMMA SameRoutes ==
  ASSUME request' = request, \A w \in rows' : \E ch : RouteIn(rows', w.fieldman, w.partition, ch)
  PROVE  \A w \in rows' : \E ch : RouteIn(rows, w.fieldman, w.partition, ch)'
<1> SUFFICES ASSUME NEW w \in rows'
             PROVE  \E ch : RouteIn(rows, w.fieldman, w.partition, ch)'
  OBVIOUS
<1>1. PICK ch : RouteIn(rows', w.fieldman, w.partition, ch)
  OBVIOUS
<1>2. Tasks' = Tasks
  BY DEF Tasks
<1>3. \A i : LegInto(w.fieldman, ch, i)' = LegInto(w.fieldman, ch, i)
  BY DEF LegInto, RouteCoords
<1>4. \A i : StopRow(w.fieldman, w.partition, ch, i)' = StopRow(w.fieldman, w.partition, ch, i)
  BY <1>3 DEF StopRow
<1>5. Chained(w.fieldman, ch) => Chained(w.fieldman, ch)'
  BY DEF Chained, Precedes, StopBefore
<1> QED BY <1>1, <1>2, <1>4, <1>5 DEF RouteIn

\* The stops that EndRoute stores.
LEMMA EndRouteStores ==
  ASSUME Typed, ChainOrdered, EndRoute
  PROVE  LET f == Head(routes).fieldman
         IN /\ request' = request /\ phase = "order" /\ f = routes[1].fieldman
            /\ routes # <<>> /\ 1 \in DOMAIN routes /\ 1 \in DOMAIN partitions
            /\ chain \in Seq(Tasks) /\ IsInjective(chain) /\ Chained(f, chain)
            /\ \A t \in ToSet(chain) : t \in routes[1].tasks /\ t \in ToSet(partitions[1].tasks)
            /\ \A w \in rows' : w \in rows \/ \E i \in DOMAIN chain : w = StopRow(f, number, chain, i)
            /\ \A w \in rows : w \in rows'
            /\ \A i \in DOMAIN chain : StopRow(f, number, chain, i) \in rows'
<1> DEFINE f == Head(routes).fieldman
<1>1. /\ request' = request /\ phase = "order"
      /\ rows' = rows \cup RouteRows(f, chain)
  BY DEF EndRoute, Keep
<1>2. /\ RoutesOK(routes) /\ routes # <<>> /\ chain \in Seq(Tasks) /\ IsInjective(chain)
      /\ Within(routes, Head(partitions)) /\ PartsOK(request, partitions) /\ partitions # <<>>
      /\ \A t \in ToSet(chain) : t \in Head(routes).tasks
  BY <1>1 DEF Typed, RoutesTyped, ToSet
<1>3. 1 \in DOMAIN routes /\ Head(routes) = routes[1]
  BY <1>2, FirstRoute
<1>4. 1 \in DOMAIN partitions /\ Head(partitions) = partitions[1]
  BY <1>2, FirstPartition DEF Current
<1>5. Chained(f, chain)
  <2>1. CASE chain = <<>>
    BY <2>1 DEF Chained
  <2>2. CASE chain # <<>>
    BY <2>2 DEF ChainOrdered
  <2> QED BY <2>1, <2>2
<1>6. \A t \in ToSet(chain) : t \in routes[1].tasks /\ t \in ToSet(partitions[1].tasks)
  BY <1>2, <1>3, <1>4 DEF Within
<1>7. f = routes[1].fieldman
  BY <1>3
<1> HIDE DEF f
<1>8. /\ \A w \in RouteRows(f, chain) : \E i \in DOMAIN chain : w = StopRow(f, number, chain, i)
      /\ \A i \in DOMAIN chain : StopRow(f, number, chain, i) \in RouteRows(f, chain)
  BY RowsOfRoute DEF StopRow
<1> QED BY <1>1, <1>2, <1>3, <1>4, <1>5, <1>6, <1>7, <1>8 DEF f

\* A route's rows join the others without meeting their tasks or their route.
LEMMA EndRouteKeepsStored ==
  ASSUME Typed, ChainOrdered, Stored, Done, EndRoute
  PROVE  Stored'
<1> DEFINE f == Head(routes).fieldman
           n == number
           New(i) == StopRow(f, n, chain, i)
<1>1. /\ request' = request /\ phase = "order" /\ f = routes[1].fieldman /\ 1 \in DOMAIN routes
      /\ chain \in Seq(Tasks) /\ IsInjective(chain) /\ Chained(f, chain)
      /\ \A t \in ToSet(chain) : t \in routes[1].tasks
      /\ \A w \in rows' : w \in rows \/ \E i \in DOMAIN chain : w = New(i)
      /\ \A w \in rows : w \in rows'
      /\ \A i \in DOMAIN chain : New(i) \in rows'
  BY EndRouteStores
<1>2. \A i \in DOMAIN chain : /\ New(i).fieldman = f /\ New(i).partition = n
                              /\ New(i).task = chain[i] /\ chain[i] \in ToSet(chain)
  BY DEF StopRow, ToSet
<1>3. \A w \in rows : ~ (w.fieldman = f /\ w.partition = n)
  BY <1>1 DEF Done
<1>4. \A w \in rows : \A i \in DOMAIN chain : w.task # chain[i]
  BY <1>1, <1>2 DEF Done
<1> HIDE DEF f, n
<1>5. RouteIn(rows', f, n, chain)
  <2>1. \A w \in rows' : w.fieldman = f /\ w.partition = n =>
          \E i \in DOMAIN chain : w = StopRow(f, n, chain, i)
    BY <1>1, <1>3
  <2> QED BY <1>1, <2>1 DEF RouteIn
<1>6. ASSUME NEW v \in rows, NEW ch, RouteIn(rows, v.fieldman, v.partition, ch)
      PROVE  RouteIn(rows', v.fieldman, v.partition, ch)
  <2>1. \A w \in rows' : w.fieldman = v.fieldman /\ w.partition = v.partition => w \in rows
    BY <1>1, <1>2, <1>3
  <2> QED BY <1>1, <1>6, <2>1 DEF RouteIn
<1> HIDE DEF New
<1>7. \A w \in rows' : \E ch : RouteIn(rows', w.fieldman, w.partition, ch)
  <2> SUFFICES ASSUME NEW w \in rows'
               PROVE  \E ch : RouteIn(rows', w.fieldman, w.partition, ch)
    OBVIOUS
  <2>1. CASE w \in rows
    BY <1>6, <2>1 DEF Stored
  <2>2. CASE w \notin rows
    BY <1>1, <1>2, <1>5, <2>2
  <2> QED BY <2>1, <2>2

<1>8. \A w \in rows' : \E ch : RouteIn(rows, w.fieldman, w.partition, ch)'
  BY <1>1, <1>7, SameRoutes
<1>9. \A v, w \in rows' : v.task = w.task => v = w
  <2> SUFFICES ASSUME NEW v \in rows', NEW w \in rows', v.task = w.task
               PROVE  v = w
    OBVIOUS
  <2>1. CASE v \in rows /\ w \in rows
    BY <2>1 DEF Stored
  <2>2. CASE v \in rows /\ w \notin rows
    BY <1>1, <1>2, <1>4, <2>2
  <2>3. CASE v \notin rows /\ w \in rows
    BY <1>1, <1>2, <1>4, <2>3
  <2>4. CASE v \notin rows /\ w \notin rows
    <3>1. PICK i \in DOMAIN chain : v = New(i)
      BY <1>1, <2>4
    <3>2. PICK j \in DOMAIN chain : w = New(j)
      BY <1>1, <2>4
    <3>3. chain[i] = chain[j]
      BY <1>2, <3>1, <3>2
    <3>4. i = j
      BY <1>1, <3>3 DEF IsInjective
    <3> QED BY <3>1, <3>2, <3>4
  <2> QED BY <2>1, <2>2, <2>3, <2>4
<1> QED BY <1>8, <1>9 DEF Stored

\* The partitions after the first.
LEMMA PartitionsLeft ==
  ASSUME PartsOK(request, partitions), partitions # <<>>
  PROVE  \A i \in DOMAIN Tail(partitions) :
           i + 1 # 1 /\ i + 1 \in DOMAIN partitions /\ Tail(partitions)[i] = partitions[i + 1]
<1> DEFINE P == [tasks : Seq(ToSet(request.tasks)), fieldmen : Seq(ToSet(request.fieldmen))]
           t == Tail(partitions)
<1>1. partitions \in Seq(P)
  BY DEF PartsOK
<1> HIDE DEF P
<1>2. /\ t \in Seq(P)
      /\ \A i \in DOMAIN t : i + 1 \in DOMAIN partitions /\ t[i] = partitions[i + 1]
  BY <1>1, TailPlaces
<1>3. \A i \in DOMAIN t : i + 1 # 1
  BY <1>2
<1> QED BY <1>2, <1>3

\* After EndRoute its route is done with, and so is a partition after its last route.
LEMMA EndRouteKeepsDone ==
  ASSUME Typed, ChainOrdered, Done, EndRoute
  PROVE  Done'
<1> DEFINE f == Head(routes).fieldman
<1>1. /\ phase = "order" /\ f = routes[1].fieldman /\ routes # <<>> /\ 1 \in DOMAIN routes
      /\ 1 \in DOMAIN partitions
      /\ \A t \in ToSet(chain) : t \in routes[1].tasks /\ t \in ToSet(partitions[1].tasks)
      /\ \A w \in rows' : w \in rows \/ \E i \in DOMAIN chain : w = StopRow(f, number, chain, i)
  BY EndRouteStores
<1>2. number \in Nat /\ PartsOK(request, partitions) /\ RoutesOK(routes) /\ RowsTyped
  BY DEF Typed, RoutesTyped
<1> HIDE DEF f
<1>3. \A w \in rows' : w \in rows \/
        (/\ w.fieldman = routes[1].fieldman /\ w.partition = number
         /\ w.task \in routes[1].tasks /\ w.task \in ToSet(partitions[1].tasks))
  BY <1>1 DEF StopRow, ToSet
<1>4. \A w \in rows' : w.partition \in Nat /\ w.partition =< number
  BY <1>2, <1>3 DEF RowsTyped, Done
<1>5. \A w \in rows' : \A i \in DOMAIN partitions :
        w.task \in ToSet(partitions[i].tasks) => i = 1 /\ w.partition = number
  <2> SUFFICES ASSUME NEW w \in rows', NEW i \in DOMAIN partitions,
                      w.task \in ToSet(partitions[i].tasks)
               PROVE  i = 1 /\ w.partition = number
    OBVIOUS
  <2>1. CASE w \in rows
    BY <2>1 DEF Done
  <2>2. CASE w \notin rows
    BY <1>1, <1>2, <1>3, <2>2 DEF PartsOK, Apart
  <2> QED BY <2>1, <2>2
<1>6. CASE NextPartition
  <2>1. routes' = <<>> /\ number' = number + 1 /\ partitions' = Tail(partitions)
    BY <1>6 DEF NextPartition
  <2> DEFINE t == Tail(partitions)
  <2>2. \A i \in DOMAIN t : i + 1 # 1 /\ i + 1 \in DOMAIN partitions /\ t[i] = partitions[i + 1]
    BY <1>1, <1>2, PartitionsLeft
  <2> HIDE DEF t
  <2>5. \A w \in rows' : \A i \in DOMAIN t : w.task \notin ToSet(t[i].tasks)
    BY <1>5, <2>2
  <2>6. \A w \in rows' : w.partition =< number' /\ w.partition # number'
    BY <1>2, <1>4, <2>1
  <2> QED BY <2>1, <2>5, <2>6 DEF Done, t
<1>7. CASE ~ NextPartition
  <2>1. /\ routes' = Tail(routes) /\ phase' = "order"
        /\ partitions' = partitions /\ number' = number
    BY <1>1, <1>7 DEF EndRoute, Keep
  <2> DEFINE R == [fieldman : ToSet(request.fieldmen), tasks : SUBSET ToSet(request.tasks)]
             t == Tail(routes)
  <2>2. routes \in Seq(R)
    BY <1>2 DEF RoutesOK
  <2> HIDE DEF R
  <2>3. /\ t \in Seq(R)
        /\ \A i \in DOMAIN t : i + 1 \in DOMAIN routes /\ t[i] = routes[i + 1]
    BY <1>1, <2>2, TailPlaces
  <2>4. \A i \in DOMAIN t : i \in Nat /\ i + 1 # 1
    BY <2>3
  <2> HIDE DEF t
  <2>5. \A i \in DOMAIN t : /\ t[i].fieldman # routes[1].fieldman
                            /\ \A x \in routes[1].tasks : x \notin t[i].tasks
    BY <1>1, <1>2, <2>3, <2>4 DEF RoutesOK
  <2>6. \A w \in rows' : \A i \in DOMAIN t : w.task \notin t[i].tasks
    BY <1>3, <2>3, <2>5 DEF Done
  <2>7. \A w \in rows' : w.partition = number => \A i \in DOMAIN t : t[i].fieldman # w.fieldman
    BY <1>3, <2>3, <2>5 DEF Done
  <2> QED BY <1>4, <1>5, <2>1, <2>6, <2>7 DEF Done, t
<1> QED BY <1>6, <1>7

\* What is stored stays so: only EndRoute adds rows, only OrderNext and Solve
\* bring tasks and routes in.
LEMMA StoredStep ==
  ASSUME Typed, Typed', ChainOrdered, Stored, Done, [Next]_vars
  PROVE  ChainOrdered' /\ Stored' /\ Done'
<1>1. CASE EndRoute
  <2>1. chain' = <<>>
    BY <1>1 DEF EndRoute, NextPartition
  <2>2. ChainOrdered'
    BY <2>1 DEF ChainOrdered
  <2> QED BY <1>1, <2>2, EndRouteKeepsStored, EndRouteKeepsDone
<1>2. CASE phase \in {"asked", "load", "validate"} /\ Next
  <2>1. rows' = {} /\ chain' = <<>>
    BY <1>2 DEF Typed, Early, Next, Ask, Load, Refuse, FilterByArea, AssignNext, Split,
                SkipPartition, Submit, Solve, OrderNext, EndRoute, Keep, LaterLocals
  <2> QED BY <2>1 DEF ChainOrdered, Stored, Done
<1>3. CASE phase = "assign" /\ Next
  <2>1. rows' = {} /\ chain' = <<>>
    BY <1>3 DEF Typed, Early, Next, Ask, Load, Refuse, FilterByArea, AssignNext, Split,
                SkipPartition, Submit, Solve, OrderNext, EndRoute, Keep, LaterLocals
  <2> QED BY <2>1 DEF ChainOrdered, Stored, Done
<1>4. ASSUME request' = request, rows' = rows PROVE Stored'
  <2>1. \A w \in rows' : \E ch : RouteIn(rows', w.fieldman, w.partition, ch)
    BY <1>4 DEF Stored
  <2>2. \A w \in rows' : \E ch : RouteIn(rows, w.fieldman, w.partition, ch)'
    BY <1>4, <2>1, SameRoutes
  <2> QED BY <1>4, <2>2 DEF Stored
<1>6. ASSUME NextPartition, rows' = rows, phase \in {"submit", "solve"}
      PROVE  ChainOrdered' /\ Done'
  <2>1. /\ routes' = <<>> /\ chain' = <<>> /\ number' = number + 1
        /\ partitions' = Tail(partitions)
    BY <1>6 DEF NextPartition
  <2>2. PartsOK(request, partitions) /\ partitions # <<>> /\ number \in Nat /\ RowsTyped
    BY <1>6 DEF Typed
  <2> DEFINE t == Tail(partitions)
  <2>3. \A i \in DOMAIN t : i + 1 # 1 /\ i + 1 \in DOMAIN partitions /\ t[i] = partitions[i + 1]
    BY <2>2, PartitionsLeft
  <2> HIDE DEF t
  <2>4. \A w \in rows : \A i \in DOMAIN t : w.task \notin ToSet(t[i].tasks)
    BY <2>3 DEF Done
  <2>5. \A w \in rows : w.partition =< number + 1 /\ w.partition # number + 1
    BY <2>2 DEF Done, RowsTyped
  <2>6. Done'
    BY <1>6, <2>1, <2>4, <2>5 DEF Done, t
  <2> QED BY <2>1, <2>6 DEF ChainOrdered
<1>7. CASE SkipPartition
  <2>1. request' = request /\ rows' = rows /\ NextPartition /\ phase = "submit"
    BY <1>7 DEF SkipPartition, Keep
  <2> QED BY <1>4, <1>6, <2>1
<1>8. CASE Submit
  <2>1. /\ request' = request /\ rows' = rows /\ phase = "submit" /\ phase' = "solve"
        /\ routes' = routes /\ partitions' = partitions /\ number' = number /\ chain' = chain
    BY <1>8 DEF Submit, Keep
  <2>2. chain' = <<>>
    BY <2>1 DEF Typed, RoutesTyped
  <2> QED BY <1>4, <2>1, <2>2 DEF ChainOrdered, Done
<1>9. CASE Solve
  <2>1. request' = request /\ rows' = rows /\ phase = "solve"
    BY <1>9 DEF Solve, Keep
  <2>2. CASE NextPartition
    BY <1>4, <1>6, <2>1, <2>2
  <2>3. CASE ~ NextPartition
    <3>1. phase' = "order" /\ partitions' = partitions /\ number' = number /\ chain' = chain
      BY <1>9, <2>3 DEF Solve, Keep
    <3>2. chain' = <<>>
      BY <2>1, <3>1 DEF Typed, RoutesTyped
    <3>3. Within(routes', partitions[1]) /\ 1 \in DOMAIN partitions
      <4>1. Within(routes, Head(partitions))'
        BY <3>1 DEF Typed, RoutesTyped
      <4>2. 1 \in DOMAIN partitions /\ Head(partitions) = partitions[1]
        BY <2>1, FirstPartition DEF Typed, Current
      <4> QED BY <3>1, <4>1, <4>2 DEF Within
    <3>4. \A w \in rows : w.partition # number
      BY <2>1 DEF Done
    <3>5. \A w \in rows : \A i \in DOMAIN routes' : w.task \notin routes'[i].tasks
      BY <3>3, <3>4 DEF Done, Within
    <3> QED BY <1>4, <2>1, <3>1, <3>2, <3>4, <3>5 DEF ChainOrdered, Done
  <2> QED BY <2>2, <2>3
<1>10. CASE OrderNext
  <2>1. /\ request' = request /\ rows' = rows /\ phase' = phase
        /\ routes' = routes /\ partitions' = partitions /\ number' = number
    BY <1>10 DEF OrderNext, Keep
  <2> QED BY <1>4, <1>10, <2>1, ChainStaysOrdered DEF Done
<1>11. CASE UNCHANGED vars
  <2>1. /\ request' = request /\ rows' = rows /\ phase' = phase /\ chain' = chain
        /\ routes' = routes /\ partitions' = partitions /\ number' = number
    BY <1>11 DEF vars
  <2>2. Done'
    BY <2>1 DEF Done
  <2>3. ChainOrdered'
    BY <2>1 DEF ChainOrdered, Unordered, Chained, Precedes, StopBefore
  <2> QED BY <1>4, <2>1, <2>2, <2>3
<1>12. CASE phase \notin {"asked", "load", "validate", "assign"} /\ Next
  BY <1>1, <1>7, <1>8, <1>9, <1>10, <1>12 DEF Next, Ask, Load, Refuse, FilterByArea, AssignNext, Split
<1> QED BY <1>2, <1>3, <1>11, <1>12

\* So it always is.
LEMMA StoredIsKept == Spec => [](ChainOrdered /\ Stored /\ Done)
<1>1. Init => ChainOrdered /\ Stored /\ Done
  BY DEF Init, ChainOrdered, Stored, Done
<1> QED BY <1>1, StoredStep, LocalsStayTyped, PTL DEF Spec

\* What the rows of a route say, two rows at a time.
LEMMA RowsOfOneRoute ==
  ASSUME Typed, Stored, NEW v \in rows
  PROVE  \E ch :
           /\ RouteIn(rows, v.fieldman, v.partition, ch) /\ ch \in Seq(Tasks)
           /\ \A w \in rows : w.fieldman = v.fieldman /\ w.partition = v.partition =>
                \E i \in DOMAIN ch :
                  /\ w = StopRow(v.fieldman, v.partition, ch, i)
                  /\ w.sequence = i /\ w.task = ch[i]
                  /\ w.duration # 0 =>
                       w.duration = Road(StopBefore(v.fieldman, ch, i), request.taskAt[ch[i]])
<1>1. PICK ch : RouteIn(rows, v.fieldman, v.partition, ch)
  BY DEF Stored
<1>2. ch \in Seq(Tasks) /\ v.fieldman \in Men /\ RequestOK(request)
  BY <1>1 DEF RouteIn, Typed, RowsTyped
<1>3. ASSUME NEW w \in rows, w.fieldman = v.fieldman, w.partition = v.partition
      PROVE  \E i \in DOMAIN ch :
                  /\ w = StopRow(v.fieldman, v.partition, ch, i)
                  /\ w.sequence = i /\ w.task = ch[i]
                  /\ w.duration # 0 =>
                       w.duration = Road(StopBefore(v.fieldman, ch, i), request.taskAt[ch[i]])
  <2>1. PICK i \in DOMAIN ch : w = StopRow(v.fieldman, v.partition, ch, i)
    BY <1>1, <1>3 DEF RouteIn
  <2>2. w.sequence = i /\ w.task = ch[i] /\ w.duration = LegInto(v.fieldman, ch, i)
    BY <2>1 DEF StopRow
  <2>3. LegInto(v.fieldman, ch, i) # 0 => LegInto(v.fieldman, ch, i)
          = Road(StopBefore(v.fieldman, ch, i), request.taskAt[ch[i]])
    BY <1>2, LegIntoIsRoad DEF Men, Tasks
  <2> QED BY <2>1, <2>2, <2>3
<1> QED BY <1>1, <1>2, <1>3

\* A row's duration is that of the road into its task, and no task has two rows.
THEOREM RowsMeasureLegs == Spec => []RowsMeasureTheirLegs
<1>1. ASSUME Typed, Stored PROVE RowsMeasureTheirLegs
  <2> SUFFICES ASSUME NEW v \in rows, NEW w \in rows
               PROVE  /\ v.task = w.task => v = w
                      /\ v.fieldman = w.fieldman /\ v.partition = w.partition
                         /\ w.sequence = v.sequence + 1 /\ w.duration # 0 =>
                           w.duration = Road(request.taskAt[v.task], request.taskAt[w.task])
                      /\ w.sequence = 1 /\ w.duration # 0 =>
                           w.duration = Road(request.fmAt[w.fieldman], request.taskAt[w.task])
    BY DEF RowsMeasureTheirLegs
  <2>1. v.task = w.task => v = w
    BY <1>1 DEF Stored
  <2>2. PICK ch :
          /\ ch \in Seq(Tasks)
          /\ \A u \in rows : u.fieldman = w.fieldman /\ u.partition = w.partition =>
               \E i \in DOMAIN ch :
                 /\ u.sequence = i /\ u.task = ch[i]
                 /\ u.duration # 0 =>
                      u.duration = Road(StopBefore(w.fieldman, ch, i), request.taskAt[ch[i]])
    BY <1>1, RowsOfOneRoute
  <2>3. PICK j \in DOMAIN ch :
          /\ w.sequence = j /\ w.task = ch[j]
          /\ w.duration # 0 => w.duration = Road(StopBefore(w.fieldman, ch, j), request.taskAt[ch[j]])
    BY <2>2
  <2>4. ASSUME v.fieldman = w.fieldman, v.partition = w.partition, w.sequence = v.sequence + 1
        PROVE  StopBefore(w.fieldman, ch, j) = request.taskAt[v.task]
    <3>1. PICK i \in DOMAIN ch : v.sequence = i /\ v.task = ch[i]
      BY <2>2, <2>4
    <3>2. i \in Nat \ {0} /\ j = i + 1
      BY <2>2, <2>3, <2>4, <3>1
    <3>3. j # 1 /\ j - 1 = i
      BY <3>2
    <3> QED BY <3>1, <3>3 DEF StopBefore
  <2>5. w.sequence = 1 => StopBefore(w.fieldman, ch, j) = request.fmAt[w.fieldman]
    BY <2>3 DEF StopBefore
  <2> QED BY <2>1, <2>3, <2>4, <2>5
<1> QED BY <1>1, LocalsStayTyped, StoredIsKept, PTL

\* A higher priority always comes first; among equals, the nearest to the stop before.
THEOREM RoutesKeepPriority == Spec => []RoutesFollowPriority
<1>1. ASSUME Typed, Stored PROVE RoutesFollowPriority
  <2> SUFFICES ASSUME NEW v \in rows, NEW w \in rows,
                      v.fieldman = w.fieldman, v.partition = w.partition, v.sequence < w.sequence
               PROVE
      /\ EffectivePriority(request, v.task) >= EffectivePriority(request, w.task)
      /\ EffectivePriority(request, v.task) = EffectivePriority(request, w.task) =>
           LET before == {u \in rows : u.fieldman = v.fieldman
                            /\ u.partition = v.partition /\ u.sequence = v.sequence - 1}
               from == IF before = {} THEN request.fmAt[v.fieldman]
                       ELSE request.taskAt[(CHOOSE u \in before : TRUE).task]
           IN Haversine(from, request.taskAt[v.task]) =< Haversine(from, request.taskAt[w.task])
    BY DEF RoutesFollowPriority
  <2> DEFINE before == {u \in rows : u.fieldman = v.fieldman
                            /\ u.partition = v.partition /\ u.sequence = v.sequence - 1}
             from == IF before = {} THEN request.fmAt[v.fieldman]
                     ELSE request.taskAt[(CHOOSE u \in before : TRUE).task]
  <2>1. PICK ch :
          /\ RouteIn(rows, v.fieldman, v.partition, ch) /\ ch \in Seq(Tasks)
          /\ \A u \in rows : u.fieldman = v.fieldman /\ u.partition = v.partition =>
               \E i \in DOMAIN ch : u.sequence = i /\ u.task = ch[i]
    BY <1>1, RowsOfOneRoute
  <2>2. PICK i \in DOMAIN ch : v.sequence = i /\ v.task = ch[i]
    BY <2>1
  <2>3. PICK j \in DOMAIN ch : w.sequence = j /\ w.task = ch[j]
    BY <2>1
  <2>4. Precedes(v.fieldman, ch, i, ch[j])
    BY <2>1, <2>2, <2>3 DEF RouteIn, Chained
  <2>5. DOMAIN ch = 1..Len(ch) /\ Len(ch) \in Nat
    BY <2>1
  <2>6. from = StopBefore(v.fieldman, ch, i)
    <3>1. CASE i = 1
      <4>1. ASSUME NEW u \in before PROVE FALSE
        <5>1. PICK k \in DOMAIN ch : u.sequence = k
          BY <2>1
        <5> QED BY <2>2, <2>5, <3>1, <5>1
      <4>2. before = {}
        BY <4>1
      <4> QED BY <3>1, <4>2 DEF StopBefore
    <3>2. CASE i # 1
      <4> DEFINE b == StopRow(v.fieldman, v.partition, ch, i - 1)
      <4>1. i - 1 \in DOMAIN ch
        BY <2>5, <3>2
      <4>2. b \in rows
        BY <2>1, <4>1 DEF RouteIn
      <4>3. b.fieldman = v.fieldman /\ b.partition = v.partition /\ b.sequence = i - 1
        BY DEF StopRow
      <4>4. b \in before
        BY <2>2, <4>2, <4>3
      <4>5. (CHOOSE u \in before : TRUE) \in before
        BY <4>4
      <4>6. \A u \in before : u.task = ch[i - 1]
        BY <2>1, <2>2
      <4> HIDE DEF before
      <4>7. from = request.taskAt[ch[i - 1]]
        BY <4>4, <4>5, <4>6
      <4> QED BY <3>2, <4>7 DEF StopBefore
    <3> QED BY <3>1, <3>2
  <2> HIDE DEF before
  <2> QED BY <2>2, <2>3, <2>4, <2>6 DEF Precedes, before
<1> QED BY <1>1, LocalsStayTyped, StoredIsKept, PTL

-----------------------------------------------------------------------------
(* The matrix *)

\* A table says what the roads between its sources and destinations take.
LEMMA TableTells ==
  ASSUME NEW coords, NEW sources, NEW dests, NEW i \in DOMAIN sources, NEW j \in DOMAIN dests
  PROVE  Table(coords, sources, dests)[i][j] = Road(coords[sources[i]], coords[dests[j]])
BY DEF Table

\* The k-th location is in batch (k - 1) \div BatchSize + 1, where it has its place.
LEMMA BatchesPlace ==
  ASSUME NEW n \in Nat, NEW k \in 1..n
  PROVE  LET b == ((k - 1) \div BatchSize) + 1
             i == ((k - 1) % BatchSize) + 1
         IN /\ b \in DOMAIN Batches(n) /\ i \in DOMAIN Batches(n)[b] /\ Batches(n)[b][i] = k
            /\ Batches(n)[b] \in Seq(1..n)
<1> DEFINE B == BatchSize
           q == (k - 1) \div B
           r == (k - 1) % B
           m == (n + B - 1) \div B
           size == Min({B, n - q * B})
<1>1. B \in Nat \ {0}
  <2>1. MaxLocations \div 2 \in Nat
    BY OsrmAssumption
  <2>2. Max({2, MaxLocations \div 2}) \in Nat /\ 2 =< Max({2, MaxLocations \div 2})
    BY <2>1, LargestOfTwo
  <2> QED BY <2>2 DEF BatchSize
<1>2. Batches(n) = [b \in 1..m |-> [i \in 1..Min({B, n - (b - 1) * B}) |-> (b - 1) * B + i]]
  BY DEF Batches
<1> HIDE DEF B
<1>3. /\ q \in Int /\ r \in Int /\ k - 1 = B * q + r /\ 0 =< r /\ r < B
  BY <1>1
<1>4. m \in Int /\ B * m =< n + B - 1 /\ n + B - 1 < B * m + B
  BY <1>1
<1> HIDE DEF q, r, m
<1>5. q >= 0
  <2>1. ASSUME q + 1 =< 0 PROVE FALSE
    <3>1. B * (q + 1) =< 0
      BY <1>1, <1>3, <2>1
    <3> QED BY <1>1, <1>3, <3>1
  <2> QED BY <1>3, <2>1
<1>6. q + 1 \in 1..m
  <2>1. ASSUME q >= m PROVE FALSE
    <3>1. B * q >= B * m
      BY <1>1, <1>3, <1>4, <2>1
    <3> QED BY <1>1, <1>3, <1>4, <3>1
  <2> QED BY <1>3, <1>4, <1>5, <2>1
<1>7. n - q * B \in Int /\ q * B = B * q /\ q * B \in Nat
  BY <1>1, <1>3, <1>5
<1>8. size \in Int /\ (size = B \/ size = n - q * B) /\ size =< n - q * B
  <2>1. \E x \in {B, n - q * B} : \A y \in {B, n - q * B} : x =< y
    BY <1>1, <1>7
  <2>2. size \in {B, n - q * B} /\ \A y \in {B, n - q * B} : size =< y
    BY <2>1 DEF Min
  <2> HIDE DEF size
  <2> QED BY <1>1, <1>7, <2>2
<1> DEFINE batch == Batches(n)[q + 1]
<1>9. batch = [i \in 1..size |-> q * B + i]
  <2>1. (q + 1) - 1 = q
    BY <1>3
  <2> QED BY <1>2, <1>6, <2>1
<1> HIDE DEF size
<1>10. r + 1 \in 1..size
  BY <1>3, <1>7, <1>8
<1>11. batch[r + 1] = k
  BY <1>3, <1>7, <1>9, <1>10
<1>12. batch \in Seq(1..n)
  <2>1. size \in Nat
    BY <1>8, <1>10
  <2>2. \A i \in 1..size : q * B + i \in 1..n
    BY <1>7, <1>8
  <2> QED BY <1>9, <2>1, <2>2
<1>13. DOMAIN Batches(n) = 1..m /\ DOMAIN batch = 1..size
  BY <1>2, <1>9
<1> HIDE DEF batch
<1> QED BY <1>6, <1>10, <1>11, <1>12, <1>13 DEF batch, q, r, B

\* The places in a list made of two.
LEMMA PlacesOfTwo ==
  ASSUME NEW s, NEW t, NEW n \in Nat, NEW m \in Nat, s \in [1..n -> Int], t \in [1..m -> Int],
         NEW i \in 1..n, NEW j \in 1..m
  PROVE  (s \o t)[i] = s[i] /\ (s \o t)[n + j] = t[j]
<1>1. s \in Seq(Int) /\ Len(s) = n
  OBVIOUS
<1>2. t \in Seq(Int) /\ Len(t) = m
  OBVIOUS
<1> QED BY <1>1, <1>2, JoinPlaces

\* A sub-request speaks of the locations whose numbers it is given.
LEMMA FetchTells ==
  ASSUME NEW locations, NEW sb, NEW db, NEW i, NEW j,
         locations \in Seq(Int), sb \in Seq(DOMAIN locations), db \in Seq(DOMAIN locations),
         i \in DOMAIN sb, j \in DOMAIN db
  PROVE  FetchSub(locations, sb, db)[i][j] = Road(locations[sb[i]], locations[db[j]])
<1> DEFINE first == [k \in DOMAIN sb |-> locations[sb[k]]]
           second == [k \in DOMAIN db |-> locations[db[k]]]
           sources == Indexes(sb)
           dests == [k \in DOMAIN db |-> Len(sb) + k]
           coords == first \o second
<1>1. /\ DOMAIN sb = 1..Len(sb) /\ Len(sb) \in Nat /\ \A k \in DOMAIN sb : sb[k] \in DOMAIN locations
      /\ DOMAIN db = 1..Len(db) /\ Len(db) \in Nat /\ \A k \in DOMAIN db : db[k] \in DOMAIN locations
      /\ \A k \in DOMAIN locations : locations[k] \in Int
  OBVIOUS
<1>2. first \in [1..Len(sb) -> Int] /\ second \in [1..Len(db) -> Int]
  BY <1>1
<1>3. /\ first[i] = locations[sb[i]] /\ second[j] = locations[db[j]]
      /\ i \in DOMAIN sources /\ j \in DOMAIN dests /\ sources[i] = i /\ dests[j] = Len(sb) + j
  BY DEF Indexes
<1>4. FetchSub(locations, sb, db) = Table(coords, sources, dests)
  BY DEF FetchSub
<1> HIDE DEF first, second, sources, dests
<1>5. coords[i] = first[i] /\ coords[Len(sb) + j] = second[j]
  <2>1. Len(sb) \in Nat /\ Len(db) \in Nat /\ i \in 1..Len(sb) /\ j \in 1..Len(db)
    BY <1>1
  <2> DEFINE n == Len(sb)
             m == Len(db)
  <2>2. n \in Nat /\ m \in Nat /\ i \in 1..n /\ j \in 1..m
        /\ first \in [1..n -> Int] /\ second \in [1..m -> Int]
    BY <1>2, <2>1
  <2> HIDE DEF n, m
  <2>3. (first \o second)[i] = first[i] /\ (first \o second)[n + j] = second[j]
    BY ONLY <2>2, PlacesOfTwo
  <2> QED BY <2>3 DEF n
<1> HIDE DEF coords
<1>6. Table(coords, sources, dests)[i][j] = Road(coords[sources[i]], coords[dests[j]])
  BY <1>3 DEF Table
<1> QED BY <1>3, <1>4, <1>5, <1>6

\* The assembled matrix says what the roads take, and 0 where there is none.
LEMMA AssembledTells ==
  ASSUME NEW locations \in Seq(Int), NEW a \in DOMAIN locations, NEW c \in DOMAIN locations
  PROVE  Assembled(locations)[a][c] =
           LET road == Road(locations[a], locations[c]) IN IF road = Null THEN 0 ELSE road
<1> DEFINE n == Len(locations)
           batches == Batches(n)
           Sub == [b \in DOMAIN batches |-> [d \in DOMAIN batches |->
                    FetchSub(locations, batches[b], batches[d])]]
           BatchOf(i) == ((i - 1) \div BatchSize) + 1
           Row(i) == ((i - 1) % BatchSize) + 1
           Value(i, j) == Sub[BatchOf(i)][BatchOf(j)][Row(i)][Row(j)]
<1>1. n \in Nat /\ DOMAIN locations = 1..n /\ a \in 1..n /\ c \in 1..n
  OBVIOUS
<1>2. Assembled(locations) = [i \in 1..n |-> [j \in 1..n |-> IF Value(i, j) = Null THEN 0 ELSE Value(i, j)]]
  BY DEF Assembled
<1>3. \A k \in 1..n : /\ BatchOf(k) \in DOMAIN batches /\ Row(k) \in DOMAIN batches[BatchOf(k)]
                      /\ batches[BatchOf(k)][Row(k)] = k
                      /\ batches[BatchOf(k)] \in Seq(1..n)
  BY <1>1, BatchesPlace
<1> HIDE DEF BatchOf, Row, batches
<1> DEFINE sb == batches[BatchOf(a)]
           db == batches[BatchOf(c)]
           i == Row(a)
           j == Row(c)
<1>4. Value(a, c) = FetchSub(locations, sb, db)[i][j]
  BY <1>1, <1>3
<1>5. /\ locations \in Seq(Int) /\ sb \in Seq(DOMAIN locations) /\ db \in Seq(DOMAIN locations)
      /\ i \in DOMAIN sb /\ j \in DOMAIN db /\ sb[i] = a /\ db[j] = c
  BY <1>1, <1>3
<1> HIDE DEF Value, sb, db, i, j
<1>6. FetchSub(locations, sb, db)[i][j] = Road(locations[sb[i]], locations[db[j]])
  BY ONLY <1>5, FetchTells
<1> QED BY <1>1, <1>2, <1>4, <1>5, <1>6

\* What VROOM is sent: the roads; without one the worker's MAX_COST, or the 0 of the
\* assembled matrix.
LEMMA CostsTell ==
  ASSUME NEW locations \in Seq(Int), NEW a \in DOMAIN locations, NEW c \in DOMAIN locations
  PROVE  LET costs == Costs(DistanceMatrix(locations))
             road == Road(locations[a], locations[c])
         IN /\ Len(costs) = Len(locations)
            /\ costs[a][c] = IF road # Null THEN road
                             ELSE IF Len(locations) =< MaxLocations THEN MaxCost ELSE 0
<1> DEFINE m == DistanceMatrix(locations)
           n == Len(locations)
           road == Road(locations[a], locations[c])
<1>1. n \in Nat /\ DOMAIN locations = 1..n /\ a \in 1..n /\ c \in 1..n
  OBVIOUS
<1>2. Indexes(locations) = [i \in 1..n |-> i]
  BY <1>1 DEF Indexes
<1>3. DOMAIN m = 1..n /\ DOMAIN m[a] = 1..n
  <2>1. CASE n =< MaxLocations
    BY <1>1, <1>2, <2>1 DEF DistanceMatrix, Table
  <2>2. CASE ~ (n =< MaxLocations)
    BY <1>1, <2>2 DEF DistanceMatrix, Assembled
  <2> QED BY <2>1, <2>2
<1>4. m[a][c] = IF n =< MaxLocations THEN road ELSE IF road = Null THEN 0 ELSE road
  <2>1. CASE n =< MaxLocations
    <3>1. m = Table(locations, Indexes(locations), Indexes(locations))
      BY <2>1 DEF DistanceMatrix
    <3> QED BY <1>1, <1>2, <2>1, <3>1, TableTells
  <2>2. CASE ~ (n =< MaxLocations)
    <3>1. m = Assembled(locations)
      BY <2>2 DEF DistanceMatrix
    <3> QED BY <2>2, <3>1, AssembledTells
  <2> QED BY <2>1, <2>2
<1>5. Null # 0
  BY OsrmAssumption
<1> HIDE DEF m, road
<1>6. /\ DOMAIN Costs(m) = 1..n
      /\ Costs(m)[a][c] = IF m[a][c] = Null THEN MaxCost ELSE m[a][c]
  BY <1>1, <1>3 DEF Costs
<1>7. Len(Costs(m)) = n
  <2>1. Costs(m) = [i \in DOMAIN m |-> [j \in DOMAIN m[i] |-> IF m[i][j] = Null THEN MaxCost ELSE m[i][j]]]
    BY DEF Costs
  <2> QED BY <1>1, <1>3, <2>1
<1> QED BY <1>4, <1>5, <1>6, <1>7 DEF m, road

\* A job's location is the place of its task's position in the list that the matrix
\* is about, and its id is still the task's.
LEMMA JobsHaveTheirPlace ==
  ASSUME RequestOK(request), NEW part \in Partition
  PROVE  LET jobs == PartPayloads(part).jobs
             loc == Locations(part)
         IN /\ loc \in Seq(Int) /\ DOMAIN jobs = DOMAIN Ids(jobs)
            /\ \A i \in DOMAIN jobs : /\ jobs[i].location \in DOMAIN loc
                                      /\ loc[jobs[i].location] = request.taskAt[Ids(jobs)[i]]
<1> DEFINE loc == Locations(part)
           index == [x \in ToSet(loc) |-> CHOOSE i \in DOMAIN loc : loc[i] = x]
           sorted == SpatialSort(request, part.tasks)
           men == part.fieldmen
           J0 == JobPayloads(request, PartStrategy, part.tasks, index)
           V0 == VehiclePayloads(request, PartStrategy, men, index)
           skills == SkillsOf(J0) \cup SkillsOf(V0)
           order == Ascending(skills)
           J == Renumber(J0, skills)
           homes == [i \in DOMAIN men |-> request.fmAt[men[i]]]
           at == [i \in DOMAIN part.tasks |-> request.taskAt[part.tasks[i]]]
<1>1. PartPayloads(part).jobs = J
  BY DEF PartPayloads, NormalizeSkills
<1>2. /\ part.tasks \in Seq(ToSet(request.tasks)) /\ men \in Seq(ToSet(request.fieldmen))
  BY DEF Partition
<1>3. sorted \in Seq(ToSet(request.tasks)) /\ ToSet(sorted) = ToSet(part.tasks)
  BY <1>2, SpatialSortPermutes
<1>4. /\ \A t \in ToSet(request.tasks) : request.taskAt[t] \in Int
      /\ \A f \in ToSet(request.fieldmen) : request.fmAt[f] \in Int
  BY Measures
<1>5. loc = Distinct(homes \o at)
  BY DEF Locations
<1>6. J0 = [i \in DOMAIN sorted |->
             [id |-> sorted[i], skills |-> JobSkills(request, PartStrategy, sorted[i]),
              location |-> index[request.taskAt[sorted[i]]]]]
  BY DEF JobPayloads
<1>7. J = [i \in DOMAIN J0 |-> [J0[i] EXCEPT !.skills = {n \in DOMAIN order : order[n] \in @}]]
  BY DEF Renumber
<1>8. homes \in Seq(Int)
  <2>1. \A i \in DOMAIN men : men[i] \in ToSet(request.fieldmen)
    BY <1>2
  <2>2. DOMAIN men = 1..Len(men) /\ Len(men) \in Nat
    BY <1>2
  <2>3. homes \in [1..Len(men) -> Int]
    BY <1>4, <2>1, <2>2
  <2> HIDE DEF homes
  <2> QED BY <2>2, <2>3
<1>9. at \in Seq(Int)
  <2>1. \A i \in DOMAIN part.tasks : part.tasks[i] \in ToSet(request.tasks)
    BY <1>2
  <2>2. DOMAIN part.tasks = 1..Len(part.tasks) /\ Len(part.tasks) \in Nat
    BY <1>2
  <2>3. at \in [1..Len(part.tasks) -> Int]
    BY <1>4, <2>1, <2>2
  <2> HIDE DEF at
  <2> QED BY <2>2, <2>3
<1>10. \A t \in ToSet(part.tasks) : request.taskAt[t] \in ToSet(at)
  BY DEF ToSet
<1> HIDE DEF homes, at, loc
<1>11. /\ homes \o at \in Seq(Int)
       /\ \A x \in ToSet(at) : x \in ToSet(homes \o at)
  BY <1>8, <1>9, JoinOfTwo
<1>12. loc \in Seq(Int) /\ ToSet(loc) = ToSet(homes \o at)
  <2> DEFINE all == homes \o at
  <2>1. all \in Seq(Int)
    BY <1>11
  <2> HIDE DEF all
  <2>2. Distinct(all) \in Seq(Int) /\ ToSet(Distinct(all)) = ToSet(all)
    BY <2>1, DistinctKeeps
  <2> QED BY <1>5, <2>2 DEF all
<1>13. \A x \in ToSet(loc) : index[x] \in DOMAIN loc /\ loc[index[x]] = x
  <2> SUFFICES ASSUME NEW x \in ToSet(loc)
               PROVE  index[x] \in DOMAIN loc /\ loc[index[x]] = x
    OBVIOUS
  <2>1. \E i \in DOMAIN loc : loc[i] = x
    BY DEF ToSet
  <2> QED BY <2>1
<1> HIDE DEF index
<1>14. \A i \in DOMAIN sorted : request.taskAt[sorted[i]] \in ToSet(loc)
  <2> SUFFICES ASSUME NEW i \in DOMAIN sorted
               PROVE  request.taskAt[sorted[i]] \in ToSet(loc)
    OBVIOUS
  <2>1. sorted[i] \in ToSet(sorted)
    BY DEF ToSet
  <2> QED BY <1>3, <1>10, <1>11, <1>12, <2>1
<1> HIDE DEF sorted, men, order, J0, J
<1>15. DOMAIN J = DOMAIN sorted /\ \A i \in DOMAIN sorted :
         J[i].id = sorted[i] /\ J[i].location = index[request.taskAt[sorted[i]]]
  BY <1>6, <1>7
<1>16. DOMAIN Ids(J) = DOMAIN J /\ \A i \in DOMAIN J : Ids(J)[i] = J[i].id
  BY DEF Ids
<1>17. \A i \in DOMAIN J : /\ J[i].location \in DOMAIN loc
                           /\ loc[J[i].location] = request.taskAt[Ids(J)[i]]
  BY <1>13, <1>14, <1>15, <1>16
<1> QED BY <1>1, <1>12, <1>16, <1>17 DEF loc

\* The matrix sent to VROOM says, at the indexes of two jobs, what the road between
\* their tasks takes.
THEOREM MatrixTellsTheRoads == Spec => []MatrixTellsRoads
<1>1. ASSUME Typed PROVE MatrixTellsRoads
  <2> DEFINE jobs == PartPayloads(Current).jobs
             ids == Ids(jobs)
             loc == Locations(Current)
  <2>1. SUFFICES ASSUME phase = "solve", NEW i \in DOMAIN ids, NEW j \in DOMAIN ids
                 PROVE  LET cost == payload.matrix[payload.jobs[i].location][payload.jobs[j].location]
                            road == Road(request.taskAt[ids[i]], request.taskAt[ids[j]])
                        IN cost = IF road # Null THEN road
                                  ELSE IF Len(payload.matrix) =< MaxLocations THEN MaxCost ELSE 0
    BY DEF MatrixTellsRoads
  <2>2. /\ payload.jobs = Numbered(jobs) /\ payload.matrix = Costs(DistanceMatrix(loc))
        /\ RequestOK(request)
    BY <1>1, <2>1 DEF Typed, Sent
  <2>3. Current \in Partition
    BY <1>1, <2>1, FirstPartition DEF Typed
  <2>4. /\ loc \in Seq(Int) /\ DOMAIN jobs = DOMAIN ids
        /\ \A k \in DOMAIN jobs : /\ jobs[k].location \in DOMAIN loc
                                  /\ loc[jobs[k].location] = request.taskAt[ids[k]]
    BY <2>2, <2>3, JobsHaveTheirPlace
  <2> HIDE DEF jobs, ids, loc
  <2>5. /\ payload.jobs[i].location = jobs[i].location
        /\ payload.jobs[j].location = jobs[j].location
    BY <2>2, <2>4 DEF Numbered
  <2> DEFINE a == jobs[i].location
             c == jobs[j].location
  <2>6. /\ a \in DOMAIN loc /\ loc[a] = request.taskAt[ids[i]]
        /\ c \in DOMAIN loc /\ loc[c] = request.taskAt[ids[j]]
    BY <2>4
  <2> HIDE DEF a, c
  <2>7. LET costs == Costs(DistanceMatrix(loc))
            road == Road(loc[a], loc[c])
        IN /\ Len(costs) = Len(loc)
           /\ costs[a][c] = IF road # Null THEN road
                            ELSE IF Len(loc) =< MaxLocations THEN MaxCost ELSE 0
    BY <2>4, <2>6, CostsTell
  <2> QED BY <2>2, <2>5, <2>6, <2>7 DEF a, c
<1> QED BY <1>1, LocalsStayTyped, PTL
=============================================================================
