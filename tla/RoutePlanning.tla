--------------------------- MODULE RoutePlanning ----------------------------
(***************************************************************************)
(* What becomes of a request between its endpoint and its rows (workers/   *)
(* vrp_tasks.py, steps 3 to 10), for one job whose external calls all      *)
(* succeed: the endpoint completes the request, the worker loads its tasks *)
(* (module JobScope), validates and filters them, tasks are                *)
(* given to fieldmen (strategy h3) or to regions, each partition is turned *)
(* into a VROOM request, the answer's routes are put in strict priority    *)
(* order and become rows.  Partitions are independent of each other and    *)
(* are taken one by one here; module PartitionRun is about their           *)
(* concurrency and their failures.                                         *)
(***************************************************************************)
EXTENDS VroomRequest, OsrmMatrix

CONSTANTS Requests,          \* the requests, with the rows they select
          PartitionThreshold,\* settings.h3_partition_threshold
          MaxPartitionSize,  \* settings.h3_max_partition_size
          MaxPerPartition    \* settings.max_tasks_per_partition

ASSUME PlanningAssumption ==
  /\ MaxPerPartition \in Nat \ {0}
  /\ MaxPartitionSize \in Nat /\ PartitionThreshold \in Nat

\* What the schema, the Pydantic models and the repositories guarantee of a request
\* and of the rows it selects: ids are unique, and every statement that writes a
\* stored priority writes a number.
\* (A map of areas may well name tasks that do not exist.)
RequestOK(r) ==
  /\ DOMAIN r = {"via", "ids", "range", "limit", "offset", "land", "areas", "tasks",
                 "fieldmen", "strategy", "auto", "resolution", "dense", "areaIds", "areaMap",
                 "fmAreas", "taskAt", "fmAt", "priority", "manual"}
  /\ r.via \in {"jobs", "optimize", "legacy"}
  /\ r.strategy \in {"h3", "manual_area", "km"}
  /\ r.range \in [min : Int \cup {None}, max : Int \cup {None}]
  /\ r.limit \in Nat \cup {None} /\ r.offset \in Nat \cup {None}
  /\ r.resolution \in 1..15
  /\ r.taskAt \in Seq(Int)
  /\ r.tasks \in Seq(DOMAIN r.taskAt) /\ IsInjective(r.tasks)
  /\ r.priority \in [DOMAIN r.taskAt -> Int]
  /\ r.manual \in [DOMAIN r.taskAt -> Int \cup {None}]
  /\ r.fmAt \in Seq(Int)
  /\ r.fieldmen \in Seq(DOMAIN r.fmAt) /\ IsInjective(r.fieldmen)
  /\ r.areas \in Seq(Int)
  /\ \A t \in DOMAIN r.areaMap : r.areaMap[t] \in Int
  /\ \A f \in ToSet(r.fieldmen) : r.fmAreas[f] \in SUBSET Int /\ IsFiniteSet(r.fmAreas[f])

ASSUME RequestsAssumption == \A r \in Requests : RequestOK(r)

VARIABLES
  request,    \* the request; its `tasks` are those loaded, then those of its areas
  phase,      \* the step the worker is at
  todo,       \* assign: the tasks without a fieldman yet
  assigned,   \* assign: the tasks of each fieldman so far
  partitions, \* the partitions not finished yet, the current one first
  number,     \* how many partitions were finished
  payload,    \* the VROOM request of the current partition
  routes,     \* its routes without rows yet, the current one first
  chain,      \* the current route as far as it is ordered
  rows        \* all_assignment_rows

vars == <<request, phase, todo, assigned, partitions, number, payload, routes,
          chain, rows>>

Phases == {"asked", "load", "validate", "assign", "submit", "solve", "order", "ready", "failed"}
NoPayload == [jobs |-> <<>>, vehicles |-> <<>>, matrix |-> <<>>]

\* The domains of the worker's locals.
PlanTypeOK ==
  /\ request.tasks \in Seq(Nat) /\ request.fieldmen \in Seq(Nat)
  /\ phase \in Phases
  /\ todo \in Seq(ToSet(request.tasks))
  /\ DOMAIN assigned = ToSet(request.fieldmen)
  /\ number \in Nat
  /\ \A i \in DOMAIN routes : routes[i].fieldman \in ToSet(request.fieldmen)
  /\ ToSet(chain) \subseteq ToSet(request.tasks)
  /\ \A w \in rows : w.sequence >= 1 /\ w.duration >= 0

Init ==
  /\ request \in Requests
  /\ phase = "asked"
  /\ todo = <<>>
  /\ assigned = [f \in ToSet(request.fieldmen) |-> <<>>]
  /\ partitions = <<>>
  /\ number = 0
  /\ payload = NoPayload
  /\ routes = <<>>
  /\ chain = <<>>
  /\ rows = {}

-----------------------------------------------------------------------------
(* The endpoint, and steps 3 to 5 *)

Keep(s) == UNCHANGED s
LaterLocals == <<number, payload, routes, chain, rows>>

\* The endpoint that creates the job; POST /vrp/jobs stores the request as it is.
Ask ==
  /\ phase = "asked"
  /\ request' = CASE request.via = "jobs" -> request
                   [] request.via = "optimize" -> Optimized(request)
                   [] request.via = "legacy" -> LegacyOptimized(request)
  /\ phase' = "load"
  /\ Keep(<<todo, assigned, partitions>>) /\ Keep(LaterLocals)

Load ==
  /\ phase = "load"
  /\ request' = [request EXCEPT !.tasks = Selected(request)]
  /\ phase' = "validate"
  /\ Keep(<<todo, assigned, partitions>>) /\ Keep(LaterLocals)

\* The early returns.  A Python test of a list or a map asks if it is empty.
Refused ==
  \/ request.tasks = <<>> \/ request.fieldmen = <<>>
  \/ request.areaIds # {} /\ DOMAIN request.areaMap = {}
  \/ request.strategy = "manual_area" /\ DOMAIN request.areaMap = {}

Refuse ==
  /\ phase = "validate" /\ Refused
  /\ phase' = "failed"
  /\ Keep(<<request, todo, assigned, partitions>>) /\ Keep(LaterLocals)

Allowed(t) ==
  request.areaIds = {} \/
  (t \in DOMAIN request.areaMap /\ request.areaMap[t] \in request.areaIds)

\* Only strategy h3 replaces the resolution, unless h3_auto_resolution is off.
Resolution(r) ==
  IF r.strategy = "h3" /\ r.auto THEN SuggestResolution(r) ELSE r.resolution

FilterByArea ==
  /\ phase = "validate" /\ ~Refused
  /\ LET r == [request EXCEPT !.tasks = Only(@, {t \in ToSet(@) : Allowed(t)})]
     IN request' = [r EXCEPT !.resolution = Resolution(r)]
  /\ phase' = IF request.strategy = "h3" THEN "assign" ELSE "submit"
  /\ todo' = IF request.strategy = "h3" THEN ByPriority(request') ELSE <<>>
  /\ partitions' = IF request.strategy = "h3" THEN <<>>
       ELSE IF Len(request'.tasks) > PartitionThreshold
       THEN PartitionProblem(request', MaxPartitionSize)
       ELSE <<[tasks |-> request'.tasks, fieldmen |-> request'.fieldmen]>>
  /\ Keep(assigned) /\ Keep(LaterLocals)

AssignNext ==
  /\ phase = "assign" /\ todo # <<>>
  /\ LET load == [f \in DOMAIN assigned |-> Len(assigned[f])]
         f == ChooseFieldman(request, load, Head(todo))
     IN assigned' = [assigned EXCEPT ![f] = Append(@, Head(todo))]
  /\ todo' = Tail(todo)
  /\ Keep(<<request, phase, partitions>>) /\ Keep(LaterLocals)

\* Mutant: an oversized list loses what does not fill a piece.
PartitionsOf_Floor(f) ==
  LET own == assigned[f]
  IN IF Len(own) =< MaxPerPartition
     THEN <<[tasks |-> own, fieldmen |-> <<f>>]>>
     ELSE [i \in 1..(Len(own) \div MaxPerPartition) |->
            [tasks |-> Chunks(SpatialSort(request, own), MaxPerPartition)[i],
             fieldmen |-> <<f>>]]

\* The partition of a fieldman's tasks, or its pieces when it is oversized.
PartitionsOf(f) ==
  LET own == assigned[f]
      pieces == IF Len(own) =< MaxPerPartition THEN <<own>>
                ELSE Chunks(SpatialSort(request, own), MaxPerPartition)
  IN [i \in DOMAIN pieces |-> [tasks |-> pieces[i], fieldmen |-> <<f>>]]

\* With no task left by the area filter there is no partition, and "all 0
\* partitions failed".
Split ==
  /\ phase = "assign" /\ todo = <<>>
  /\ LET busy == Only(request.fieldmen, {f \in DOMAIN assigned : assigned[f] # <<>>})
     IN partitions' = Concat([i \in DOMAIN busy |-> PartitionsOf(busy[i])])
  /\ phase' = IF partitions' = <<>> THEN "failed" ELSE "submit"
  /\ Keep(<<request, todo, assigned>>) /\ Keep(LaterLocals)

-----------------------------------------------------------------------------
(* Steps 6 to 10, one partition *)

Current == Head(partitions)

\* route_only: the tasks of an h3 partition have their fieldman already.
PartStrategy == IF request.strategy = "h3" THEN "route_only" ELSE request.strategy

\* location_list: each position once, the fieldmen's before the tasks'.
Locations(part) ==
  Distinct([i \in DOMAIN part.fieldmen |-> request.fmAt[part.fieldmen[i]]]
           \o [i \in DOMAIN part.tasks |-> request.taskAt[part.tasks[i]]])

\* location_index_map, and the payloads built with it.
PartPayloads(part) ==
  LET loc == Locations(part)
      index == [x \in ToSet(loc) |-> CHOOSE i \in DOMAIN loc : loc[i] = x]
  IN NormalizeSkills(JobPayloads(request, PartStrategy, part.tasks, index),
                     VehiclePayloads(request, PartStrategy, part.fieldmen, index))

NextPartition ==
  /\ partitions' = Tail(partitions)
  /\ number' = number + 1
  /\ payload' = NoPayload
  /\ routes' = <<>> /\ chain' = <<>>
  /\ phase' = IF Len(partitions) = 1 THEN "ready" ELSE "submit"

SkipPartition ==
  /\ phase = "submit"
  /\ Current.tasks = <<>> \/ Current.fieldmen = <<>>
  /\ NextPartition
  /\ Keep(<<request, todo, assigned, rows>>)

Submit ==
  /\ phase = "submit"
  /\ Current.tasks # <<>> /\ Current.fieldmen # <<>>
  /\ LET p == PartPayloads(Current)
     IN payload' = [jobs |-> Numbered(p.jobs), vehicles |-> Numbered(p.vehicles),
                    matrix |-> Costs(DistanceMatrix(Locations(Current)))]
  /\ phase' = "solve"
  /\ Keep(<<request, todo, assigned, partitions, number, routes, chain, rows>>)

Solve ==
  /\ phase = "solve"
  /\ \E s \in Solutions(payload.jobs, payload.vehicles) :
       LET p == PartPayloads(Current)
           found == ParseSolution(s, Ids(p.jobs), Ids(p.vehicles))
       IN \/ /\ found # <<>>
             /\ routes' = found /\ phase' = "order"
             /\ Keep(<<partitions, number, payload, chain>>)
          \/ found = <<>> /\ NextPartition
  /\ Keep(<<request, todo, assigned, rows>>)

\* Step 9b.  Among the tasks of the highest priority left, the nearest to the
\* end of the chain, in whichever order the set is iterated.
Unordered == Head(routes).tasks \ ToSet(chain)
Position == IF chain = <<>> THEN request.fmAt[Head(routes).fieldman]
            ELSE request.taskAt[Last(chain)]

\* Mutant: distances are measured from the fieldman's start location.
NextInChain_FromHome ==
  LET top == {t \in Unordered : \A u \in Unordered :
                EffectivePriority(request, t) >= EffectivePriority(request, u)}
      D(t) == Haversine(request.fmAt[Head(routes).fieldman], request.taskAt[t])
  IN {t \in top : \A u \in top : D(t) =< D(u)}

NextInChain ==
  LET top == {t \in Unordered : \A u \in Unordered :
                EffectivePriority(request, t) >= EffectivePriority(request, u)}
      D(t) == Haversine(Position, request.taskAt[t])
  IN {t \in top : \A u \in top : D(t) =< D(u)}

OrderNext ==
  /\ phase = "order" /\ Unordered # {}
  /\ \E t \in NextInChain : chain' = Append(chain, t)
  /\ Keep(<<request, phase, todo, assigned, partitions, number, payload, routes, rows>>)

\* Step 10: the legs of the round trip; a missing leg counts 0.
RouteCoords(f, tasks) ==
  <<request.fmAt[f]>> \o [i \in DOMAIN tasks |-> request.taskAt[tasks[i]]]
  \o <<request.fmAt[f]>>

\* Mutant: sequence numbers start at 0.
RouteRows_ZeroBased(f, tasks) ==
  {[fieldman |-> f, partition |-> number, task |-> tasks[i], sequence |-> i - 1,
    duration |-> 0] : i \in DOMAIN tasks}

\* Mutant: the trip is asked for without the way from the start.
RouteRows_NoStart(f, tasks) ==
  LET legs == Legs(Tail(RouteCoords(f, tasks)))
  IN {[fieldman |-> f, partition |-> number, task |-> tasks[i], sequence |-> i,
       duration |-> IF i \in DOMAIN legs THEN legs[i] ELSE 0] : i \in DOMAIN tasks}

RouteRows(f, tasks) ==
  LET legs == Legs(RouteCoords(f, tasks))
  IN {[fieldman |-> f, partition |-> number, task |-> tasks[i], sequence |-> i,
       duration |-> IF i \in DOMAIN legs THEN legs[i] ELSE 0] : i \in DOMAIN tasks}

EndRoute ==
  /\ phase = "order" /\ Unordered = {}
  /\ rows' = rows \cup RouteRows(Head(routes).fieldman, chain)
  /\ \/ /\ Len(routes) > 1
        /\ routes' = Tail(routes) /\ chain' = <<>>
        /\ Keep(<<phase, partitions, number, payload>>)
     \/ Len(routes) = 1 /\ NextPartition
  /\ Keep(<<request, todo, assigned>>)

Next ==
  \/ Ask \/ Load \/ Refuse \/ FilterByArea \/ AssignNext \/ Split
  \/ SkipPartition \/ Submit \/ Solve \/ OrderNext \/ EndRoute

Spec == Init /\ [][Next]_vars

-----------------------------------------------------------------------------
(* Properties *)

\* The area filter drops no task that a request with areas loaded through optimize:
\* every task was given one of the areas asked for, near them or not.
OptimizeKeepsScope ==
  request.via # "jobs" /\ request.areas # <<>> /\ phase \notin {"asked", "load", "validate"} =>
    request.tasks = Selected(request)

\* "Rescale ALL existing task priorities into that range": the legacy optimize
\* puts no task before one that had a higher priority, and every priority ends
\* within half a tenth of the range asked for, whichever bound is given first.
\* (Not always within it: rounding to one decimal makes 1.2 of 1.25 to 1.25.)
RescaleKeepsOrder ==
  [][phase = "asked" /\ request.via = "legacy" /\ request.range # NoRange =>
       \A t, u \in DOMAIN request.taskAt :
         /\ request.priority[t] =< request.priority[u] =>
              request'.priority[t] =< request'.priority[u]
         /\ request.range.min # None /\ request.range.max # None =>
              /\ 2 * request'.priority[t] >=
                   2 * Smaller(request.range.min, request.range.max) - Tenth
              /\ 2 * request'.priority[t] =<
                   2 * Larger(request.range.min, request.range.max) + Tenth]_vars

\* "Count tasks that would be included in a job": exactly the tasks the worker
\* will plan, unless a range, a limit or an offset narrows them, some are not on
\* land, or areas are asked for with a map that names tasks that do not exist.
PlanAheadIsExact ==
  phase = "submit" /\ number = 0 =>
    /\ ToSet(request.tasks) \subseteq PlannedAhead(request)
    /\ request.range = NoRange /\ request.limit = None /\ request.offset = None
       /\ DOMAIN request.taskAt \subseteq request.land
       /\ (request.areaIds # {} => DOMAIN request.areaMap \subseteq DOMAIN request.taskAt) =>
         ToSet(request.tasks) = PlannedAhead(request)

\* Load balancing: while somebody is within reach of every task, two fieldmen
\* who stand at the same place have as many tasks as each other, one more at
\* most.  (Without that, the fallback of assign_tasks_to_fieldmen_h3 gives
\* every isolated task to the first of them.)
TwinsShareLoad ==
  (\A i \in DOMAIN request.tasks : WithinReach(request, request.tasks[i]) # <<>>) =>
  \A f, g \in DOMAIN assigned :
    request.fmAt[f] = request.fmAt[g] => Len(assigned[f]) =< Len(assigned[g]) + 1

\* No task is lost or doubled between the request and the solver: at the start
\* the partitions hold every task in scope exactly once, each with somebody to
\* serve it, and an h3 partition is no larger than the limit.
PartitionsCoverScope ==
  phase = "submit" /\ number = 0 =>
    LET all == Concat([i \in DOMAIN partitions |-> partitions[i].tasks])
    IN /\ Len(all) = Len(request.tasks)
       /\ ToSet(all) = ToSet(request.tasks)
       /\ \A i \in DOMAIN partitions :
            /\ partitions[i].fieldmen # <<>>
            /\ request.strategy = "h3" => Len(partitions[i].tasks) =< MaxPerPartition

\* The matrix that VROOM gets says, at the indexes of two jobs, what the road
\* between them takes, whether it was one request or assembled from batches.
\* Without a road it is prohibitive if it was one request (and 0 if not).
MatrixTellsRoads ==
  phase = "solve" =>
    LET ids == Ids(PartPayloads(Current).jobs)
    IN \A i, j \in DOMAIN ids :
         LET cost == payload.matrix[payload.jobs[i].location][payload.jobs[j].location]
             road == Road(request.taskAt[ids[i]], request.taskAt[ids[j]])
         IN cost = IF road # Null THEN road
                   ELSE IF Len(payload.matrix) =< MaxLocations THEN MaxCost ELSE 0

\* Under manual_area a task with an area is only ever stored with a fieldman of
\* that area: its skill survives the renumbering of skills and of ids.
AreasRespected ==
  request.strategy = "manual_area" =>
    \A w \in rows : w.task \in DOMAIN request.areaMap =>
      request.areaMap[w.task] \in request.fmAreas[w.fieldman]

\* "A higher-priority task always comes before a lower-priority one regardless
\* of distance", and among equals each stop is the nearest one to the stop
\* before it.
RoutesFollowPriority ==
  \A v, w \in rows :
    v.fieldman = w.fieldman /\ v.partition = w.partition /\ v.sequence < w.sequence =>
      /\ EffectivePriority(request, v.task) >= EffectivePriority(request, w.task)
      /\ EffectivePriority(request, v.task) = EffectivePriority(request, w.task) =>
           LET before == {u \in rows : u.fieldman = v.fieldman
                            /\ u.partition = v.partition /\ u.sequence = v.sequence - 1}
               from == IF before = {} THEN request.fmAt[v.fieldman]
                       ELSE request.taskAt[(CHOOSE u \in before : TRUE).task]
           IN Haversine(from, request.taskAt[v.task]) =< Haversine(from, request.taskAt[w.task])

\* A row's duration is that of the leg into its task in the order stored, or 0
\* when OSRM found no round trip; and no task has two rows (the `Plans` of
\* module JobWorker).
RowsMeasureTheirLegs ==
  \A v, w \in rows :
    /\ v.task = w.task => v = w
    /\ v.fieldman = w.fieldman /\ v.partition = w.partition
       /\ w.sequence = v.sequence + 1 /\ w.duration # 0 =>
         w.duration = Road(request.taskAt[v.task], request.taskAt[w.task])
    /\ w.sequence = 1 /\ w.duration # 0 =>
         w.duration = Road(request.fmAt[w.fieldman], request.taskAt[w.task])
=============================================================================
