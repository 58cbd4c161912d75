------------------------------ MODULE JobScope -------------------------------
(***************************************************************************)
(* Which tasks a job is about: how the optimize endpoints complete the     *)
(* request they store, what plan-ahead announces for a request, and which  *)
(* rows the worker loads for it.  The rows are 1..n in the order of their  *)
(* ids, at r.taskAt, with r.priority.  The code rounds priorities to one   *)
(* decimal and takes range bounds of any precision, so both are counted    *)
(* here in units of which Tenth make 0.1.                                  *)
(***************************************************************************)
EXTENDS Lists

CONSTANTS None,
          AreaConfigs,  \* AREA_CONFIGS: <<name, center>> in the order declared
          AreaRadius,   \* 20 km
          Tenth         \* the units of priority in 0.1

ASSUME ScopeAssumption ==
  /\ None \notin Int
  /\ AreaConfigs \in Seq(Int \X Int) /\ AreaRadius \in Nat
  /\ Tenth \in Nat \ {0}

Named(r, t) == r.ids = {} \/ t \in r.ids

Smaller(a, b) == IF a < b THEN a ELSE b
Larger(a, b) == IF a < b THEN b ELSE a

\* list_tasks: the ids and the priority range in SQL, on the stored priority
\* and not the manual one, then LIMIT and OFFSET; rows off stable land are left
\* out of the page after.
InRange(r, t) == /\ r.range.min # None => r.priority[t] >= r.range.min
                 /\ r.range.max # None => r.priority[t] =< r.range.max
Selected(r) ==
  LET sql == Ascending({t \in DOMAIN r.taskAt : Named(r, t) /\ InRange(r, t)})
      skip == IF r.offset = None THEN 0 ELSE r.offset
      end == IF r.limit = None THEN Len(sql) ELSE Smaller(Len(sql), skip + r.limit)
  IN Only(SubSeq(sql, skip + 1, end), r.land)

\* Mutant: the areas asked for are not looked at.
PlannedAhead_AnyArea(r) ==
  IF r.areaIds # {} THEN {t \in DOMAIN r.areaMap : Named(r, t)}
                    ELSE {t \in DOMAIN r.taskAt : Named(r, t)}

\* plan_ahead: the rows named, or the named entries of the area map.
PlannedAhead(r) ==
  IF r.areaIds # {}
    THEN {t \in DOMAIN r.areaMap : Named(r, t) /\ r.areaMap[t] \in r.areaIds}
    ELSE {t \in DOMAIN r.taskAt : Named(r, t)}

-----------------------------------------------------------------------------
(* The optimize endpoints *)

Away(a, b) == IF a > b THEN a - b ELSE b - a

\* The first configured area, among those asked for, whose center is within the
\* radius; a task of none is given to the first area asked for.
AreaOf(r, at) ==
  LET near == Pick(AreaConfigs, {i \in DOMAIN AreaConfigs :
                     /\ Contains(r.areas, AreaConfigs[i][1])
                     /\ Away(AreaConfigs[i][2], at) =< AreaRadius})
  IN IF near # <<>> THEN Head(near)[1] ELSE Head(r.areas)

\* Mutant: a task near no area asked for is given none.
AreaMap_NearOnly(r) ==
  [t \in {u \in DOMAIN r.taskAt : \E i \in DOMAIN AreaConfigs :
            /\ Contains(r.areas, AreaConfigs[i][1])
            /\ Away(AreaConfigs[i][2], r.taskAt[u]) =< AreaRadius}
     |-> AreaOf(r, r.taskAt[t])]

AreaMap(r) == [t \in DOMAIN r.taskAt |-> AreaOf(r, r.taskAt[t])]

WithAreas(r) ==
  IF r.areas = <<>> \/ r.taskAt = <<>> THEN r
  ELSE [r EXCEPT !.areaIds = ToSet(r.areas), !.areaMap = AreaMap(r)]

NoRange == [min |-> None, max |-> None]

\* round(n / d) of Python: a half goes to the even neighbour.
Rounded(n, d) ==
  LET q == n \div d
      rest == 2 * (n - d * q)
  IN IF rest > d \/ (rest = d /\ q % 2 = 1) THEN q + 1 ELSE q

\* Mutant: a range given the wrong way round is taken as it is.
Rescaled_NoSwap(r) ==
  LET all == {r.priority[t] : t \in DOMAIN r.taskAt}
      old == [min |-> CHOOSE p \in all : \A q \in all : p =< q,
              max |-> CHOOSE p \in all : \A q \in all : p >= q]
      lo == IF r.range.min = None THEN old.min ELSE r.range.min
      hi == IF r.range.max = None THEN old.max ELSE r.range.max
      span == Larger(old.max - old.min, 1)
  IN [t \in DOMAIN r.priority |->
        Tenth * Rounded(lo * span + (r.priority[t] - old.min) * (hi - lo), span * Tenth)]

\* The legacy endpoint rescales the stored priority of every task into the range,
\* rounded to one decimal, and takes the range out of the request.
Rescaled(r) ==
  LET all == {r.priority[t] : t \in DOMAIN r.taskAt}
      old == [min |-> CHOOSE p \in all : \A q \in all : p =< q,
              max |-> CHOOSE p \in all : \A q \in all : p >= q]
      from == IF r.range.min = None THEN old.min ELSE r.range.min
      to == IF r.range.max = None THEN old.max ELSE r.range.max
      lo == Smaller(from, to)
      hi == Larger(from, to)
      span == Larger(old.max - old.min, 1)
  IN [t \in DOMAIN r.priority |->
        Tenth * Rounded(lo * span + (r.priority[t] - old.min) * (hi - lo), span * Tenth)]

Optimized(r) == WithAreas(r)

LegacyOptimized(r) ==
  WithAreas(IF r.range = NoRange THEN r
            ELSE [r EXCEPT !.priority = Rescaled(r), !.range = NoRange])
=============================================================================
