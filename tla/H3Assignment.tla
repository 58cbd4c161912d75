---------------------------- MODULE H3Assignment ----------------------------
(***************************************************************************)
(* services/h3_utils.py: which fieldman gets which task, and how a large   *)
(* problem is cut into regions.                                            *)
(*                                                                         *)
(* The map is a line: a position is a number of hundreds of metres, an H3  *)
(* cell an interval of it, so that a cell's neighbours, the grid distance  *)
(* and the great-circle distance keep their relation to each other.  Task  *)
(* and fieldman ids are numbers in the order of the lists that the worker  *)
(* loaded, which is the order the code breaks ties in.                     *)
(*                                                                         *)
(* A request `r` is a record with `tasks` and `fieldmen` (sequences),      *)
(* `taskAt`, `fmAt` (positions), `priority`, `manual` (manual_priority, or *)
(* None), `resolution`, and `dense`: more than 50 tasks per square km.     *)
(***************************************************************************)
EXTENDS JobScope

CONSTANTS CellSize,   \* the width of a cell of each resolution
          MaxK,       \* settings.h3_max_k
          MinRegion   \* the size under which a region is merged

ASSUME H3Assumption ==
  /\ CellSize \in [0..15 -> Nat \ {0}]
  /\ MaxK \in Nat /\ MinRegion \in Nat

-----------------------------------------------------------------------------
(* The H3 library *)

CellOf(r, x) == x \div CellSize[r.resolution]
CoarseCellOf(r, x) == x \div CellSize[Larger(0, r.resolution - 2)]
GridDistance(c, d) == IF c < d THEN d - c ELSE c - d
KRing(c, k) == (c - k)..(c + k)
Haversine(x, y) == GridDistance(x, y)

-----------------------------------------------------------------------------
(* The resolution that the spread of the tasks suggests *)

SuggestResolution(r) ==
  LET at == {r.taskAt[r.tasks[i]] : i \in DOMAIN r.tasks}
      diagonal == Max(at) - Min(at)
      bySpread == IF diagonal < 50 THEN 9 ELSE IF diagonal < 200 THEN 8
                  ELSE IF diagonal < 800 THEN 7 ELSE 6
  IN IF r.tasks = <<>> THEN 7
     ELSE IF Len(r.tasks) = 1 THEN 9
     ELSE IF diagonal > 0 /\ r.dense /\ bySpread < 9 THEN bySpread + 1
     ELSE bySpread

-----------------------------------------------------------------------------
(* Assignment of tasks to fieldmen *)

EffectivePriority(r, t) ==
  IF r.manual[t] # None THEN r.manual[t] ELSE r.priority[t]

\* The tasks in the order in which they choose a fieldman.
ByPriority(r) ==
  StableSort(r.tasks, [t \in ToSet(r.tasks) |-> -EffectivePriority(r, t)])

SameCell(r, t) ==
  Only(r.fieldmen, {f \in ToSet(r.fieldmen) :
                     CellOf(r, r.fmAt[f]) = CellOf(r, r.taskAt[t])})

WithinReach(r, t) ==
  Only(r.fieldmen, {f \in ToSet(r.fieldmen) :
    GridDistance(CellOf(r, r.fmAt[f]), CellOf(r, r.taskAt[t])) =< MaxK})

\* dist_km + 0.3 * load / max(1, tasks / fieldmen), in hundreds of metres and
\* times the denominators.
Score(r, load, t, f) ==
  LET T == Len(r.tasks)
      F == Len(r.fieldmen)
  IN Haversine(r.fmAt[f], r.taskAt[t]) * Max({T, F}) + 3 * F * load[f]

\* Mutant: the load is left out of the score.
ChooseFieldman_NoLoad(r, load, t) ==
  LET D == [f \in ToSet(r.fieldmen) |-> Haversine(r.fmAt[f], r.taskAt[t])]
  IN IF SameCell(r, t) # <<>> THEN FirstMin(SameCell(r, t), D)
     ELSE FirstMin(r.fieldmen, D)

\* A fieldman of the task's own cell, else one within reach, the best score
\* first; if nobody is within reach, the nearest, whatever the load.
ChooseFieldman(r, load, t) ==
  LET S == [f \in ToSet(r.fieldmen) |-> Score(r, load, t, f)]
      D == [f \in ToSet(r.fieldmen) |-> Haversine(r.fmAt[f], r.taskAt[t])]
  IN IF SameCell(r, t) # <<>> THEN FirstMin(SameCell(r, t), S)
     ELSE IF WithinReach(r, t) # <<>> THEN FirstMin(WithinReach(r, t), S)
     ELSE FirstMin(r.fieldmen, D)

SpatialSort(r, s) == StableSort(s, [t \in ToSet(s) |-> CellOf(r, r.taskAt[t])])

-----------------------------------------------------------------------------
(* Regions of a large problem *)

\* Tasks by coarse cell, the cells in the order in which the list meets them.
Regions(r) ==
  LET Coarse(t) == CoarseCellOf(r, r.taskAt[t])
      cells == Distinct([i \in DOMAIN r.tasks |-> Coarse(r.tasks[i])])
  IN [i \in DOMAIN cells |->
       [cell |-> cells[i],
        tasks |-> Only(r.tasks, {t \in ToSet(r.tasks) : Coarse(t) = cells[i]})]]

MergeSmallRegions(regions) ==
  LET big == {i \in DOMAIN regions : Len(regions[i].tasks) >= MinRegion}
      large == Pick(regions, big)
      small == Pick(regions, DOMAIN regions \ big)
      Target(g) == FirstMin(large, [h \in ToSet(large) |-> GridDistance(g.cell, h.cell)])
      Joining(h) == Pick(small, {k \in DOMAIN small : Target(small[k]).cell = h.cell})
      Merged(h) == h.tasks \o Concat([k \in DOMAIN Joining(h) |-> Joining(h)[k].tasks])
  IN IF large = <<>> THEN regions
     ELSE [i \in DOMAIN large |-> [cell |-> large[i].cell, tasks |-> Merged(large[i])]]

\* The fieldmen of a region: those in or near it and not taken by an earlier
\* one; else the first that is free; else one that another region has too.
RegionFieldmen(r, taken, cell) ==
  LET Near(f) == CoarseCellOf(r, r.fmAt[f]) \in KRing(cell, 2)
      nearOnes == {f \in ToSet(r.fieldmen) : Near(f)}
      free == Only(r.fieldmen, ToSet(r.fieldmen) \ taken)
      near == Only(free, nearOnes)
  IN IF near # <<>> THEN near
     ELSE IF free # <<>> THEN <<Head(free)>>
     ELSE <<Head(Only(r.fieldmen, nearOnes) \o r.fieldmen)>>

PartitionProblem(r, maxSize) ==
  IF Len(r.tasks) =< maxSize
  THEN <<[tasks |-> r.tasks, fieldmen |-> r.fieldmen]>>
  ELSE LET regions == MergeSmallRegions(Regions(r))
           given[i \in DOMAIN regions] ==
             RegionFieldmen(r, UNION {ToSet(given[j]) : j \in 1..(i - 1)}, regions[i].cell)
       IN [i \in DOMAIN regions |-> [tasks |-> regions[i].tasks, fieldmen |-> given[i]]]

\* Consecutive pieces of at most `size` elements.
Chunks(s, size) ==
  [i \in 1..((Len(s) + size - 1) \div size) |->
    SubSeq(s, (i - 1) * size + 1, Min({i * size, Len(s)}))]
=============================================================================
