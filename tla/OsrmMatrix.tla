----------------------------- MODULE OsrmMatrix -----------------------------
(***************************************************************************)
(* services/osrm_service.py: the duration matrix of a partition's          *)
(* locations, asked for in one request or assembled from the requests of   *)
(* all pairs of batches, and the legs of a finished route.                 *)
(***************************************************************************)
EXTENDS Integers, SequencesExt

CONSTANTS Null,         \* what OSRM answers for a pair without a road
          MaxLocations, \* settings.osrm_max_locations
          MaxCost,      \* the worker's MAX_COST
          Island        \* positions with no road to the others

ASSUME OsrmAssumption == MaxLocations \in Nat /\ MaxCost \in Nat /\ Null \notin Int

\* OSRM itself: the seconds from one position to another, more on the way back.
Road(x, y) ==
  IF (x \in Island) # (y \in Island) THEN Null
  ELSE IF x < y THEN y - x ELSE 2 * (x - y)

\* /table/v1/driving: durations between two lists of indexes into `coords`.
Table(coords, sources, dests) ==
  [i \in DOMAIN sources |-> [j \in DOMAIN dests |->
    Road(coords[sources[i]], coords[dests[j]])]]

Indexes(s) == [i \in DOMAIN s |-> i]

BatchSize == Max({2, MaxLocations \div 2})

Batches(n) ==
  [b \in 1..((n + BatchSize - 1) \div BatchSize) |->
    [i \in 1..Min({BatchSize, n - (b - 1) * BatchSize}) |->
      (b - 1) * BatchSize + i]]

\* Mutant: the destinations are indexed from the start of the list.
FetchSub_NoOffset(locations, sb, db) ==
  LET coords == [i \in DOMAIN sb |-> locations[sb[i]]]
                \o [i \in DOMAIN db |-> locations[db[i]]]
  IN Table(coords, Indexes(sb), Indexes(db))

\* One sub-request: the sources' coordinates first, then the destinations'.
FetchSub(locations, sb, db) ==
  LET coords == [i \in DOMAIN sb |-> locations[sb[i]]]
                \o [i \in DOMAIN db |-> locations[db[i]]]
  IN Table(coords, Indexes(sb), [i \in DOMAIN db |-> Len(sb) + i])

\* The assembled matrix writes `float(value or 0.0)`: no road becomes 0.
Assembled(locations) ==
  LET n == Len(locations)
      batches == Batches(n)
      Sub == [b \in DOMAIN batches |-> [c \in DOMAIN batches |->
               FetchSub(locations, batches[b], batches[c])]]
      BatchOf(i) == ((i - 1) \div BatchSize) + 1
      Row(i) == ((i - 1) % BatchSize) + 1
  IN [i \in 1..n |-> [j \in 1..n |->
       LET value == Sub[BatchOf(i)][BatchOf(j)][Row(i)][Row(j)]
       IN IF value = Null THEN 0 ELSE value]]

DistanceMatrix(locations) ==
  IF Len(locations) =< MaxLocations
  THEN Table(locations, Indexes(locations), Indexes(locations))
  ELSE Assembled(locations)

\* The worker's durations_matrix.
Costs(matrix) ==
  [i \in DOMAIN matrix |-> [j \in DOMAIN matrix[i] |->
    IF matrix[i][j] = Null THEN MaxCost ELSE matrix[i][j]]]

\* /route/v1/driving: one leg per consecutive pair of coordinates; no route,
\* and so no legs, when one of them has no road.
Legs(coords) ==
  LET legs == [i \in 1..(Len(coords) - 1) |-> Road(coords[i], coords[i + 1])]
  IN IF Len(coords) < 2 \/ Contains(legs, Null) THEN <<>> ELSE legs
=============================================================================
