# Verification of the vehicle routing planner

TLA+ models of the service in `src/backend`, model-checked with TLC, and theorems
about them proved with TLAPS. File names below are relative to `src/backend`;
`VT` is `workers/vrp_tasks.py`, `VS` `services/vrp_service.py`, `VR`
`repositories/vrp_repository.py`, `DS` `services/data_service.py`.

## 1. The system

A planner selects tasks and field agents ("fieldmen"); the service partitions
the tasks, asks OSRM for travel times and VROOM for routes, and stores an
assignment. It consists of API processes (FastAPI on uvicorn), Celery pool
processes, PostgreSQL, Redis (broker, cache and publish/subscribe) and the
external OSRM, VROOM and Nominatim services.

```
client --HTTP--> API --INSERT vrp_jobs--> PostgreSQL
                  |--send_task---> Redis broker ---> worker --SQL--> PostgreSQL
                  |<--get/set/del--> Redis cache <--invalidate_job--|
client <--WebSocket-- API <------- Redis pub/sub <---publish--------|
                                                    worker --HTTP--> OSRM, VROOM
```

asyncpg commits every statement that is not inside `conn.transaction()`, and the
code opens no transaction for jobs. API processes, worker processes and clients
therefore interleave between any two SQL statements or Redis calls.

| Component | State | Operations | Hard behaviour | What makes it correct |
|---|---|---|---|---|
| Job tables (`VR`, `scripts/init_db.sql`) | `vrp_jobs`, `vrp_assignments`, `vrp_job_routes`, with foreign keys that cascade or set NULL | create, update status, finalize, delete, store assignments and routes, reset | several autocommitted statements make one operation; a reset drops foreign keys | tables of a ready job agree; no orphan rows |
| Worker (`VT`) | the steps and locals of `process_vrp_job` | load, plan, store, announce, fail | early acknowledgement, killed processes, an exception at any line, an exception handler that raises | every run leaves a verdict; rows before status |
| Job and reset requests (`VS`, `DS`) | the progress of each request | create, optimize, finalize, delete, reset, picker deletions | requests race each other and the run | one message per job; nobody but the run decides |
| Cache (`services/cache_service.py`) | Redis entries with a time to live | cache-aside readers, invalidation by key or pattern; errors swallowed | stale sets after an invalidation; several reads make one entry | a ready preview is complete; entries converge |
| Plan (`VT` 205-667) | partitions run in parallel under semaphores | select, filter, split, solve, order by priority, number rows | partial failure, cuts and renumberings, nested waits | each task in one route at most, in priority order; only an all-failed plan fails the job |
| H3 assignment (`services/h3_utils.py`) | none (pure) | assign tasks by load and distance, merge and cut regions | load bounds, fallbacks, merge order | each task assigned once, load shared |
| OSRM client (`services/osrm_service.py`) | matrix cache, connections | matrix in batches, route legs, retries | indices across batches, unreachable pairs | a batched matrix is the matrix |
| VROOM client (`services/vroom_service.py`) | none | build the payload, parse the solution | ids and skills renumbered and read back | what is parsed names the tasks sent, skills respected |
| Task completion (`VS` 1199-1276, `VR` 352-420) | `vrp_assignments.status` | complete a task with check-then-act | two requests complete one task; rows of several jobs | ready views complete; views converge |
| Job events (`api/v1/ws_routes.py`, `frontend/static/app.js`) | subscriptions | publish, subscribe, poll | an event before the subscription is lost | an announced outcome is decided; the client learns it |
| Background geocoding (`workers/background_tasks.py`, `services/geocode_service.py`) | breaker, two address caches | batches under permits | rate limits, late answers | addresses follow positions, the fallback of a failure is not cached as the address |
| Reference data (`DS`, `task_repository.py`, `fieldman_repository.py`) | `tasks`, `fm_home_locations`, areas | randomize, create, move, delete | several statements, some fail | no reference to deleted rows; views stale only after a race |
| Legacy routes (`api/vrp_routes.py`) | a preview entry of their own | as the v1 services, older | priority rescaling, other entries and filters | order kept; entries converge |
| Frontend, middleware, models, scripts | | | | the polling loop and the WebSocket client are modelled, the rest is not (section 7) |

`PROJECT.json` lists every component with its status, and under `hazards` every
place that is hard to test, at its line, with the property that watches it.

## 2. Modules

| Module | Models |
|---|---|
| `JobStore` | the job tables and the Celery message: **one operator per SQL statement**, with what its foreign keys cascade, nullify or refuse |
| `JobWorker` | the pool processes: **one action per statement or Redis call** of `process_vrp_job` |
| `JobApi` | the requests that write: **one action per awaited call** |
| `JobContract` | abstract specification: what the service promises about a job's record and its single run |
| `JobSystem` | the composition `JobWorker` / `JobApi` over `JobStore`; properties; refinement mapping to `JobContract` |
| `JobCache` | `JobSystem` with the Redis entries for status and preview, and their readers |
| `JobPolling` | `JobCache` with the browser that polls a job |
| `JobEvents` | `JobSystem` with the publish/subscribe channel of each job and the WebSocket handler |
| `Lists` | what Python does with lists: comprehensions, `sorted`, `min` with a key, first occurrences, concatenation |
| `JobScope` | which tasks a request is about: list filters, optimize, legacy rescaling, plan-ahead (extends `Lists`) |
| `H3Assignment` | resolution, assignment, sorting, regions, chunks: operators over an abstract map (extends `JobScope`) |
| `VroomRequest` | payloads, skills, ids, the solver's possible answers, their reading (extends `H3Assignment`) |
| `OsrmMatrix` | the duration matrix, whole or from batches, and the legs of a route |
| `RoutePlanning` | one job from its endpoint to its rows, over the five modules above |
| `PartitionRun` | the partitions of one job in parallel: permits, connections, retries, lost calls, results |
| `TaskCompletion` | stops completed while several jobs plan them, and every view that shows them |
| `DataAdmin` | reference data, geocoding, and the overview and grid entries |
| `..._proofs` | theorems about `JobSystem`, `JobCache`, `JobEvents`, `RoutePlanning`, `PartitionRun`, `TaskCompletion`, `DataAdmin`, and lemmas about `Lists` |
| `MC...` | instances for TLC: symmetry sets, requests, constraints |

How they fit: `JobWorker` takes the computation of a plan as one step, `MakePlan`,
which chooses any plan that gives each task to at most one fieldman. `RoutePlanning`
opens that step for the data (`RowsMeasureTheirLegs` shows that every plan it makes
is one `MakePlan` may choose) and `PartitionRun` for the concurrency and the
failures (its `job = "raised"` is one cause of `Raise`). `TaskCompletion` and
`DataAdmin` keep only as much of a job's run as their entries and rows depend on.

**Jobs** (`JobStore`, `JobWorker`, `JobApi`, `JobSystem`). `status[j]` is the row of
`vrp_jobs` ("unborn" before, "deleted" after it exists). An assignment row is a pair
<<fieldman, task>> either part of which becomes NULL (`None`) when its row is
deleted. `routed[j]` holds the pairs of the task snapshots of the job's routes.
`routesFk` holds the foreign keys that `vrp_job_routes` still has; `truncate_all`
drops them one statement at a time. `message[j]` is the Celery message. `wpc`, `apc`
are program counters, the other `w*` and `a*` variables the locals that outlive a
step. `lost` and `purging` are ghosts: `lost` collects the jobs whose run an
infrastructure failure prevented or cut short, `purging` the jobs a DELETE request
has named; no guard reads either. `Connect` and `ConnectFails` stand for
`_get_pool`/`_get_redis`, which precede the `try`. From `MarkStarted` to `SayReady`
each statement of the `try` is an action, and `Raise` may leave any of them for the
`except` branch: a lost connection, an OSRM timeout, "All partitions failed", a
failed publish, or a foreign key that refuses a row (the guard of `InsertAssignments`
or `InsertRoutes` is then false and `Raise` is the step that remains). `Refuse` is
the two early returns. `Crash` is a killed process or a handler whose own UPDATE
raises. `CreateJob`, `Enqueue`, `Audit`, `Forget` are `create_job`; without the audit
they are `optimize` and the job creation of `randomize`. `Abort` ends a request
between any two awaits.

**Cache and client** (`JobCache`, `JobPolling`). Each reader misses, reads (one
statement for the status, three for the preview) and sets its entry; a hit changes
nothing. A failed `get` is a miss, a failed `set` or `delete` leaves the entry.
`Invalidate` attaches the deletes to the steps of `JobSystem` that call
`CacheService`. `delete_pattern` scans and deletes key by key; on one key that amounts
to a single delete at the moment the scan passes it or its delete runs, so one step is
as good. The browser sends one poll at a time through the same readers until a final
status arrives or it gives up; the number of its attempts is left open.

**Events** (`JobEvents`). Each publishing step of a worker reaches the client if its
handler is subscribed at that moment. `Unsay` is a publish that raises: inside the
`try` it leads to the `except` branch, so a client may hear "job_ready" and then
"job_failed". A handler whose client left ends when it next sends.

**Planning** (`RoutePlanning` and below). A request is a record with the rows it
selects; `Ask`, `Load`, `FilterByArea`, `AssignNext`, `Split`, `Submit`, `Solve`,
`OrderNext`, `EndRoute` are the numbered steps of `_process_vrp_job_async`, with one
task, route or partition at a time where the code loops. The map is a line: a position
is a number, an H3 cell an interval of it, so that neighbours, grid distance and
great-circle distance keep their relation. It is not the same in both directions for
OSRM: a road may be longer one way, so that a transposed matrix would show. Priorities
and the bounds of a range are counted in units of which `Tenth` make 0.1: the legacy
endpoint rounds the rescaled ones to whole tenths, a half to the even one as Python
does, and takes bounds of any precision. The arithmetic is exact where the code's is
floating point. The solver may leave out any job and serve the others with any vehicle
that has their skills; where the greedy order has ties the model takes any.

**Partitions** (`PartitionRun`). A call waits for a permit of its partition
("queued"), for a connection ("wanting"), for the answer ("asking"), and is tried a few
times. A lost call ends its partition, which returns its permit at once while its
other calls go on: `asyncio.gather` does not cancel them.

**Completion** (`TaskCompletion`). A completion looks at one row of its stop in any
job, updates the rows of all jobs, and deletes two entries of the job it looked at.
One cached view of one job (`Seen`) is followed at a time, chosen in `Init`: views have
keys of their own and share nothing. Their readers differ by the statements they make
and by what they refuse to cache.

**Reference data** (`DataAdmin`). An address is what it was resolved from and how it
reads. What Nominatim knows of a place (`Knows`) is a street, a text with its house
number first, bare coordinates, or "?, ?", as `_format_address` may make either of the
last two of a successful answer; "fallback" is what `reverse_geocode` returns of a
failure. `StartsWithDigit` is the test `resolved[0].isdigit()`, which is true of house
numbers and of northern coordinates. Requests are one action per awaited statement: a
bulk geocoding request reads the tasks (`CollectTasks`), then the fieldmen
(`CollectFieldmen`), then sends one message (`Dispatch`), and rows may move in between.
Each worker process may run one bulk task; a task takes batches, holds each answer
between the geocoder and its UPDATE, and may be killed by its time limits. The views
are followed in the part that shows one entity, `seen`, chosen in `Init`: the overview
shows its position, address and, of a task, its priority (`prio`), the grid its position.
`Rescale` is the UPDATE of the legacy optimize, which rewrites the priorities and tells
no cache. An entry remembers which endpoint filled it (`by`), for the legacy overview
shows rows that the other does not. PostgreSQL and Redis do not fail here and requests
are not aborted: such failures are in `JobApi` and `JobCache`, and a geocoder that
answers 429 or nothing is modelled. `raced`, the causes `off` of an entry and the count
`refused` of a bulk task are history that no guard reads.

**Abstractions.** Wording, geometry and distances (which follow durations) are left
out. Row ids are never reused. In the job modules a loaded set is any subset of a
table, and a task inserted later is not in the selection of a job, so `tasks` and
`fieldmen` start arbitrary and only shrink. The schema is `scripts/init_db.sql`.

## 3. Properties and runs

| Run | Bounds | Checks |
|---|---|---|
| `job_system` | 1 job, 2 tasks, 1 fieldman, 2 workers, 2 requests, symmetry; 626,345 states | `TypeOK`, `RowsAgree`, `NoSilentStranding`, `NoOrphans`, `IInv`, `KeepsContract` |
| `job_events` | 1 job, 1 task, 1 fieldman, 1 worker, 1 request, 1 client, no data reset (constraint `NoReset`); 59,022 states | `OutcomeIsDecided`, `JobsSettle`, `SubscribersAreTold`, `AbandonedHandlersEnd` |
| `job_preview` | 1 job, 1 task, 1 fieldman, 1 worker, 1 request, 1 preview reader; 2,364,668 states | `CacheTypeOK`, `ReadyPreviewIsComplete` |
| `job_status` | as above with 1 status reader that may poll, `NoReset`; 305,772 states | `PollersAreTold`, `StatusCacheConverges` |
| `planning` | 3 or 4 tasks, 2 fieldmen, `MCRequests`; 177,041 states | the ten properties of `RoutePlanning` |
| `partitions` | 2 partitions, 1 permit, 1 connection, 2 attempts, up to 2 routes; 14,677 states | `RunTypeOK`, `PermitsReturn`, `PartitionsAreWhole`, `IndexesDiffer`, `JobDecides` |
| `completion` | 2 jobs, 1 task, 1 fieldman, 2 completions, 1 reader of any of 5 views; 332,400 states | `ViewsTypeOK`, `ReadyViewIsComplete`, `ViewsConverge` |
| `reference_data` | 1 task, 1 fieldman, 2 positions, 2 requests (symmetric), 2 priorities, 2 worker processes (symmetric), 1 reader, batches of 2; 1,569,151 states | `DataTypeOK`, `AddressFollowsPosition`, `FallbackIsNotCached`, `StaleOnlyWhenRaced` |
| `finalized_committed`, `delete_complete`, `refusals_deserved`, `breaker` | as `job_system`, `completion`, `reference_data`, or smaller | one claim of the documentation each, violated (section 6) |

Jobs:

* **RowsAgree**: `store_assignments` and `store_routes` are four statements, and
  anything may run between them. Still, of a job that says "ready", the two
  tables show the same plan up to deletions of tasks and fieldmen since. Only a
  DELETE of that very job may be seen half done.
* **NoSilentStranding**: an undecided job has its message queued, a process
  running it, a request about to send the message, or it is in `lost`. It says
  that no early return, exception path or race leaves a job undecided, so that
  infrastructure failures are the only way; the places where they do are the
  partial-failure hazards.
* **NoOrphans**: a worker that stores rows while its job is deleted leaves none,
  as long as the tables have the foreign keys of their job.
* **KeepsContract**: at most one run per job; only the run starts or decides it;
  after it, only finalize and delete write the record.
* **JobsSettle**: an undecided job is decided, finalized or deleted, or lost.
* **OutcomeIsDecided**: whoever hears "job_ready" or "job_failed" finds a decided job,
  whatever finalize, delete or a second failure do meanwhile.
* **SubscribersAreTold**, **AbandonedHandlersEnd**: each way out of a run, the early
  returns included, announces its outcome; a client that is subscribed hears it, and
  a handler without a client ends at the next event.

Cached status and previews:

* **ReadyPreviewIsComplete**, and **ReadyViewIsComplete** for both kinds of preview: one
  that says "ready", however interleaved and however long cached, shows every stop the
  job still has. It depends on the reader taking the status first and the writer
  writing it last.
* **StatusCacheConverges**: the worker invalidates the status entry *before* it
  writes "ready", and a slow reader may set an old value after any invalidation;
  for each job the entry nevertheless ends up right or absent.
* **PollersAreTold**: no browser polls for ever a job that stays ready or failed,
  although its own first polls put the old status into the cache.
* **ViewsConverge**: a completion updates the rows of all jobs and drops two entries of
  one; deletions drop none. What is left is wrong only until its time to live ends, and
  every kind of entry has one.
* **StaleOnlyWhenRaced**: once no request runs, a cached overview or grid says what the
  rows say, except for four causes. A reader filled it with rows that had changed under
  it; or, each in its own part only, the address is an older one because a bulk task was
  killed before it invalidated, the priority is an older one because legacy optimize
  rescaled it, or the grid shows a row that a reset deleted, as a reset does not drop it.

Planning:

* **OptimizeKeepsScope**, **PlanAheadIsExact**: the areas that optimize gives to tasks
  never make the worker drop one. Plan-ahead announces at least the tasks that will be
  planned, and exactly those unless one of five things narrows them: a range, a limit, an
  offset, tasks that are not on land, or a map of areas that names unknown tasks.
  (`plan_ahead`, `VS` 174-198, is given neither range nor limit nor offset.)
* **RescaleKeepsOrder**: legacy optimize rescales stored priorities without putting a
  task before one that was more urgent, and to within half a tenth of the range asked
  for; rounding may leave the range by that much.
* **TwinsShareLoad**: two fieldmen at one place get equally many tasks, give or take
  one, while every task has somebody within reach.
* **PartitionsCoverScope**: grouping, merging and cutting lose no task and double none,
  and no partition is without a fieldman.
* **MatrixTellsRoads**: at the indexes of two jobs the solver sees the road between
  them, in one request or from batches. Without a road the two differ; the property
  says how.
* **AreasRespected**: a task with an area is stored with a fieldman of that area,
  through the renumbering of skills and ids and back.
* **RoutesFollowPriority**, **RowsMeasureTheirLegs**: stored sequences follow priority,
  then nearness to the previous stop; legs are those of the order stored.

Partitions and reference data:

* **PermitsReturn**, **JobDecides**: no failure loses a permit, and the nested waits for
  permits and connections never close a cycle, even with calls left behind by failed partitions.
* **PartitionsAreWhole**: stored routes are those of partitions that lost nothing, all
  of them; a job fails here only if each partition lost a call.
* **IndexesDiffer**: up to 100 routes a partition, `route_index` is unique.
* **AddressFollowsPosition**: an address belongs to the place where its row is, unless it
  was moved while an older answer was still to be written.
* **FallbackIsNotCached**: the coordinates that `reverse_geocode` falls back to when a
  request fails never enter its cache, so the next request asks again. Coordinates or
  "?, ?" that a *successful* answer was formatted to do enter it, for a day, and whatever
  `reverse_geocode` returned enters the bulk task's own (section 6).

**Why the bounds are enough.** Steps of different jobs meet only in a reset, in a
deletion of reference data and in the pool of workers, none of which reads a
job's record; with one job, two workers and two requests every race on a record
is present (create against delete, finalize against run, two deletions, reset
between two of a worker's statements). Two tasks allow partial plans, one task
losing its row while the other stays, and NULL rows. Every safety property is
proved for all sizes (section 4), so the bounds matter for liveness only. One reader of one kind is enough for an
entry: readers of different keys share nothing, and two readers of one key
interact only through the entry, which expiry and failing deletes already vary.
`NoReset` keeps data resets out of two runs: a reset touches neither a job's
status nor a reader of it, and ends in the same invalidation of every job as a
creation or a deletion. Completions meet in one stop, and two jobs are the least for
which a request can look at one row and change another. In `reference_data` one
entity of each kind suffices as no statement relates two rows of a kind; two
positions are one on land and one not, one with a house number and one of which only
coordinates are known. Two priorities make an old and a new one, and two processes let
two bulk tasks overlap. Two
partitions on one permit and one connection make each wait for the other's
leftovers. `MCRequests` enumerates the cases of each decision in the planning code:
tasks in the same cell, within reach, out of reach; equal and different priorities;
areas near, far, unknown; more tasks than each limit (`PartitionThreshold`,
`MaxPerPartition`, `MaxLocations` are 3, 2, 3 in place of thousands, so that
partitions are cut and matrices assembled from four requests); places without roads.
The only counters that grow are `MatrixCalls` and `MaxRoutes`, up to 2 (bounds
in the guards), the ids of `DataAdmin`, each inserted once, and `refused`, which is
counted up to `MaxConsecutive429`.

**Deadlock** is not checked: an idle service, with every job created and no
request, may wait for ever, and a planned or partitioned job ends.

**Fairness.** `WF(Advance(w))`: a pool process that is not killed goes on, as the
OSRM and VROOM calls have timeouts. `WF` of taking each message: an idle process
consumes the queue. `WF(Continue(r))`, `WF(FinishStatus(s))`, `WF(PollNext(s))`,
`WF(Read(v))`: the event loop resumes every request, and the browser its loop.
`WF(ExpireStatus(j))`, `WF(Expire)`: each entry is set with a time to live.
`WF(Next)` in `PartitionRun`: the loop runs whatever is ready, and every call has a
timeout. `StatusCacheConverges`, `PollersAreTold` and `ViewsConverge` assume nothing of
workers and writing requests, which may stop anywhere. Crashes, aborted requests, new
requests, disconnections and giving up are never forced, and weak fairness suffices
everywhere.

## 4. Proofs

Every invariant and action property that a run checks is a theorem, for any sets of
jobs, tasks, fieldmen, workers, requests, readers and partitions, any limits and lists
of any length.

| Module | Theorems (the property stated) |
|---|---|
| `JobSystem_proofs` | `TypeCorrect` (`TypeOK`), `ProtocolHolds`, `InductiveInvariant` (`IInv`), `ReadyRowsAgree` (`RowsAgree`), `NobodyStrands` (`NoSilentStranding`), `DeletedLeaveNoRows` (`NoOrphans`), `Implements` (the refinement, `KeepsContract`) |
| `JobCache_proofs` | `CacheTypeCorrect` (`CacheTypeOK`), `ReadyPreviewsAreComplete` (`ReadyPreviewIsComplete`) |
| `JobEvents_proofs` | `OutcomesAreDecided` (`OutcomeIsDecided`) |
| `RoutePlanning_proofs` | `LocalsStayTyped`, `PlanTypeInvariant` (`PlanTypeOK`), `OptimizingKeepsScope`, `PlanningAheadIsExact`, `RescalingKeepsOrder`, `TwinsShareTheLoad`, `PartitionsCoverTheScope`, `MatrixTellsTheRoads`, `AreasAreRespected`, `RoutesKeepPriority`, `RowsMeasureLegs` (the properties of nearly the same names) |
| `PartitionRun_proofs` | `TypeCorrect` (`RunTypeOK`), `NoPermitIsLost` (`PermitsReturn`), `AllOrNothing` (`PartitionsAreWhole`), `RouteIndexesDiffer` (`IndexesDiffer`) |
| `TaskCompletion_proofs` | `ViewsTypeCorrect` (`ViewsTypeOK`), `ReadyViewsAreComplete` (`ReadyViewIsComplete`) |
| `DataAdmin_proofs` | `DataTypeCorrect` (`DataTypeOK`), `FallbackNeverCached` (`FallbackIsNotCached`), `AddressesFollow` (`AddressFollowsPosition`), `ViewsFollowTheRows` (`StaleOnlyWhenRaced`) |
| `Lists_proofs` | lemmas only |

**Assumptions.** `NoneIsNoId`, `NoneIsNoValue` and the first line of `ScopeAssumption`:
SQL's NULL is no id and no value, and nothing that a view shows; the same of OSRM's null in `OsrmAssumption`. The
rest give constants their types: limits from the settings are natural numbers and
`MaxPerPartition` is not 0, the cell of each of the 16 resolutions has a width, areas
have a name and a center, a tenth is a whole number of units, a successful answer about
a place reads in one of four ways, there is a priority (`ScopeAssumption`, `H3Assumption`, `OsrmAssumption`,
`PlanningAssumption`, `PartitionAssumption`, `DataAssumption`, `SeenAssumption`).
`RequestsAssumption` is about the input: a request has the fields of its Pydantic model
(a resolution from 1 to 15, a strategy that exists), ids are unique because they are
primary keys, and a task's priority is a number, as every statement that inserts or
rescales tasks writes one (the column has a default but may be NULL). It says nothing about the
map of areas, which is the client's.

**Jobs.** `TypeOK` alone is not inductive: `Crash` puts the process's job in `lost`,
so a busy process must have a job (`Placed`); `Typed` is both. `Protocol` adds who may
touch a job: an unborn id is known to nobody (`Fresh`), one request sends its message,
once (`OneSender`), one process runs it, after taking it (`OneRunner`), deleters are in
`purging`, and "ready" is written only from the step after the rows (`VerdictInOrder`).
Given `Protocol`, the row properties need `RowsStored`: what the two tables hold at
each step between the first clear and "ready", up to `Joined`. Deletions of tasks and
fieldmen take the same pairs out of the rows, of the snapshots and of the worker's
plan (`DeleteTaskJoined`, `DeleteFieldmanJoined`), so equality up to `Joined` survives
them, even when the routes no longer cascade. `IInv` is checked by TLC in `job_system`
as well. For the refinement, `RunOfRunner`, `WorkerMoves`, `WorkerLeaves` and
`RunsUnchanged` say how the program counters determine the abstract run; each action is
then one step of the contract or a stutter.

**Cache and events** build on it. A job that is ready with no run left that writes its
rows stays so (`Settled`), so what a reader collects after it read "ready" holds all
stops still to come: `Shown` says it of the entries and of each reader between its
three statements. A decided job has been taken from the broker and its run is past the
step that writes "started", so it stays decided (`Decided`); `Heard` says that of
every job whose outcome a client has heard.

**Planning.** `Typed` says where every local is in its domain *and* that no task is
with two fieldmen, in two partitions or on two routes (`AssignmentOK`, `PartsOK`,
`RoutesOK`): without the second half the rows could not be told apart. `Scoped` ties
the tasks of each phase to those selected; `Whole` says that the partitions have all of
them when the first is submitted; `ChainOrdered`, `Stored` and `Done` say that the
chain, and each stored route, is in priority order, and that the rows are those of
whole routes that are done with. Under them are lemmas on each helper of
`h3_utils.py`, `osrm_service.py` and `vroom_service.py`: the regions partition the
tasks and merging keeps that (`RegionsOK`), pieces of a cut are disjoint and complete,
a batched matrix has the same roads at the same indexes, a vehicle that has the
renumbered skills of a job has its area. `TwinsShareLoad` needs only that at a choice
of the least score the twin with the larger load has the larger score.

`Lists` says at which *place* each element of a result is, by counting the elements
before it, instead of recursing along a list as a fold does: what a fold computes for
every list is an induction over data, which the prover cannot do with an operator as
induction hypothesis. `Lists_proofs` shows once that this gives what Python's functions
give: `sorted` is a permutation in order and stable, `min` is a least element and the
first of them, a comprehension keeps order and multiplicity, a concatenation has the
elements of its parts and their total length.

**Partitions.** Free permits and partitions inside add up to all permits, so a
partition that leaves always finds room (`Typed`); a partition that is done lost no
call, and what is stored of it is all it got (`Whole`). **Completion.** A reader that
read "ready" began after the plan was stored, and rows are only lost since
(`ViewsComplete`). **Reference data.** `Aligned`: of a row that was not moved under an
answer, every handler, item and address on the way was resolved from where the row is.
`Covered` says of each entry that it is fresh up to its causes; or that only its address
is older, while a bulk task is writing that will drop it; or that a request is still
going to drop it. One lemma per kind of step moves an entry from one case to another:
`FreshStays`, `MarkAddsReason`, `PassesOn`, `OthersCover`. Under it `PrioTyped` says that
`seen` has a priority exactly while it is a task with a row. `FallbackIsNotCached` is
inductive with the types.

**Only model-checked.** Liveness, which is out of this prover's reach as ENABLED is:
`JobsSettle`, `SubscribersAreTold`, `AbandonedHandlersEnd`, `PollersAreTold`,
`StatusCacheConverges`, `JobDecides`, `ViewsConverge`. The four claims of section 6 are
false, so there is nothing to prove.

## 5. Mutants

Each property of a passing run has a mutant in `PROJECT.json` that breaks it, next
to the definition it replaces: among others "ready" before the routes are written, an
early return without its verdict or its event, inserts without foreign keys, a message
not acknowledged on receipt, an unbounded retry, a status read after the rows, an entry
that polling keeps alive or that never expires, a client that does not know "ready", a
range not swapped, areas only for tasks near them, a score without the load, the last
piece of a cut lost, destinations indexed from the wrong end, skills numbered apart for
jobs and vehicles, distances from home, a trip without its first leg, a permit not
returned, lost routes tolerated, a stride too short, a fallback cached, an overview not
invalidated.

## 6. Where documentation and code disagree

* `FinalizedIsCommitted` (README.md 319, "Finalize and commit a job"): the worker's
  `update_status` (`VR` 128-141) looks at no earlier status, so a job finalized
  before its run ends is overwritten. `JobContract` promises no more than that.
* `DeleteIsComplete` (`api/v1/vrp_routes.py` 197, "Delete a job and all associated
  assignments/routes."): `truncate_all` drops the foreign keys of `vrp_job_routes`
  and nothing restores them; after a reset, a run racing a deletion leaves routes.
* `RefusalsAreDeserved` (`VS` 1191, "ValidationError: task is already completed"): the
  check reads one row of the stop, `LIMIT 1` without an order (`VR` 387), so a stop
  completed in an older job may be refused while it is pending in a newer one.
* `BreakerStops` (`workers/background_tasks.py` 170, "Propagate 429 to trigger circuit
  breaker", and 194, "Stop after 5 consecutive 429 errors"): `reverse_geocode` catches
  everything (`services/geocode_service.py` 70), so the count stays 0, the batches go
  on, and each refusal is cached for a day as the address.

Smaller observations, for which there is no run:

* A task out of everybody's reach goes to the nearest fieldman whatever his load
  (`services/h3_utils.py` 445): of two at one place, always to the first.
* "Find nearest unassigned FM" (`services/h3_utils.py` 515) takes the first one of the
  list; the docstring of `assign_tasks_to_fieldmen_h3` speaks of grid distance where the
  score takes kilometres.
* The skills of strategy h3 (`services/vroom_service.py` 107-128) are unreachable: the
  worker routes h3 partitions as `route_only`.
* With no task left by the area filter, strategy h3 fails with "All 0 partitions
  failed"; the other strategies end ready and empty.
* Sub-partitions of one fieldman number their rows from 1 each; an unreachable pair is
  prohibitive in a whole matrix and costs 0 in a batched one.
* The metrics of a job that does not exist are zeros, and cached.
* `list_tasks` filters on the stored priority, not the manual one, and cuts at LIMIT
  before it drops the tasks that are not on land.
* Legacy optimize rescales the priorities "so the displayed values match what the user
  configured" (`api/vrp_routes.py` 1076-1078) and drops no entry: a cached overview goes
  on displaying the old ones. It rescales them "into that range", but rounds to one
  decimal afterwards: 1.25..1.25 makes 1.2.
* Legacy views do not drop rows that are not on land but share the overview's key.
* An address that begins with its house number is never stored by a picker, and
  southern coordinates pass the same test (`resolved[0].isdigit()`).
* A failed publish of job_ready turns a ready job into a failed one, and a subscriber
  may hear both.

## 7. Not modelled

* A second delivery of a message by the Redis transport: messages are acknowledged on
  receipt, and delivery is at most once.
* Coverage maps, `choose_adaptive_resolution` and the grid's geometry (`h3_service.py`):
  computed from the rows, then shown or logged; nothing reads them back.
* How randomize chooses places and names, and recommends a number of fieldmen: random
  data. Its statements are in `DataAdmin`, its jobs in `JobApi`.
* The entries of OSRM answers: a matrix or a route is answered by the cache or not
  (`PartitionRun`); roads do not change.
* OSRM, VROOM, Nominatim, PostgreSQL and Redis beyond what the code relies on: external.
* `warm_overview_cache` and `background_geocode`: no code sends them.
* Legacy routes where they repeat the v1 services, HTTP envelopes, middleware, health,
  logging, settings, Pydantic declarations, seeds, migrations, audit listings, frontend
  rendering: no state or behaviour of their own to check.

## 8. Plan

The modules are done, and every safety property is proved. What may follow is sharper:

1. An abstract specification of planning, "every task of the scope is left out or on
   one route, once", that `RoutePlanning` implements and whose result is what `MakePlan`
   of `JobWorker` may choose, so that the two models meet in a theorem.
2. The safety half of convergence: a status entry that is wrong is always one that a
   reader is about to set or that is going to expire, which leaves `StatusCacheConverges`
   to fairness alone.
3. The safety half of `JobDecides`: while the job is undecided some call or partition
   holds what the others wait for and waits for nothing itself.
