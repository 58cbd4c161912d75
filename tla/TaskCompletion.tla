--------------------------- MODULE TaskCompletion ---------------------------
(***************************************************************************)
(* Fieldmen complete their stops while planners look at the jobs.  A task  *)
(* is planned again by each job that selects it, so one stop (a fieldman   *)
(* and a task) may have a row in several jobs; a completion request names  *)
(* the stop and no job.                                                    *)
(*                                                                         *)
(* The views of a job (its preview, the preview of the unversioned API,    *)
(* its metrics, its assignments, the assignments of all jobs) are cached   *)
(* under keys of their own, so one entry is followed at a time: `view` of  *)
(* the job `Seen`.  Entries are written and expire as in module JobCache.  *)
(***************************************************************************)
CONSTANTS Jobs, Tasks, Fieldmen,
          Completers, \* completion requests in flight
          Viewers,    \* GET requests for the view
          Seen,       \* the job whose view is followed; any will do
          None

ASSUME SeenAssumption == Seen \in Jobs

VARIABLES
  run,      \* how far the run of each job has stored its plan
  plan,     \* the stops it plans
  rows,     \* vrp_assignments: the stops of each job whose task exists
  finished, \* those with status 'completed'
  routed,   \* vrp_job_routes: the stops in the snapshots
  tasks,    \* the tasks that exist
  cpc, cstop, crow,         \* a request's next step, its stop, the job of the
                            \* row it looked at
  view, entry,              \* the entry followed and its value
  vpc, vread                \* a reader's next step and what it has read

dbVars == <<run, plan, rows, finished, routed, tasks>>
requestVars == <<cpc, cstop, crow>>
viewVars == <<view, entry, vpc, vread>>
vars == <<dbVars, requestVars, viewVars>>

Stops == Fieldmen \X Tasks
Views == {"preview", "legacy", "metrics", "assignments", "all"}
Values == [ready : BOOLEAN, routes : SUBSET Stops, stops : SUBSET Stops,
           done : SUBSET Stops]
Nothing == [ready |-> FALSE, routes |-> {}, stops |-> {}, done |-> {}]

\* The domains of rows, requests and readers.
ViewsTypeOK ==
  /\ run \in [Jobs -> {"new", "rows", "routes", "forgotten", "ready"}]
  /\ \A j \in Jobs : finished[j] \subseteq rows[j] /\ rows[j] \subseteq plan[j]
  /\ plan \in [Jobs -> SUBSET Stops] /\ routed \in [Jobs -> SUBSET Stops]
  /\ tasks \subseteq Tasks
  /\ \A j \in Jobs, s \in Stops : s \in rows[j] => s[2] \in tasks
  /\ cpc \in [Completers -> {"idle", "look", "write", "forget", "forget_legacy"}]
  /\ cstop \in [Completers -> Stops \cup {None}]
  /\ crow \in [Completers -> Jobs \cup {None}]
  /\ view \in Views /\ entry \in Values \cup {None}
  /\ vpc \in [Viewers -> {"idle", "status", "routes", "rows", "set"}]
  /\ vread \in [Viewers -> Values]

Init ==
  /\ run = [j \in Jobs |-> "new"]
  /\ rows = [j \in Jobs |-> {}]
  /\ finished = rows /\ routed = rows /\ plan = rows
  /\ tasks = Tasks
  /\ cpc = [c \in Completers |-> "idle"]
  /\ cstop = [c \in Completers |-> None]
  /\ crow = cstop
  /\ view \in Views
  /\ entry = None
  /\ vpc = [v \in Viewers |-> "idle"]
  /\ vread = [v \in Viewers |-> Nothing]

-----------------------------------------------------------------------------
(* Step 11 of a job's run, and what the data routes do to its rows *)

Advance(j, from, to) == run[j] = from /\ run' = [run EXCEPT ![j] = to]

\* A plan serves each of its tasks once.
StoreRows(j) ==
  /\ Advance(j, "new", "rows")
  /\ \E served \in SUBSET tasks, by \in [Tasks -> Fieldmen] :
       plan' = [plan EXCEPT ![j] = {<<by[t], t>> : t \in served}]
  /\ rows' = [rows EXCEPT ![j] = plan'[j]]
  /\ UNCHANGED <<finished, routed, tasks, requestVars, viewVars>>

\* The routes hold snapshots of the plan, whatever was deleted since.
StoreRoutes(j) ==
  /\ Advance(j, "rows", "routes")
  /\ routed' = [routed EXCEPT ![j] = plan[j]]
  /\ UNCHANGED <<plan, rows, finished, tasks, requestVars, viewVars>>

\* cache.invalidate_job: the keys vrp:cache:job:<id>:* and vrp:cache:assignments:*.
InvalidateJob(j) ==
  /\ Advance(j, "routes", "forgotten")
  /\ entry' = IF view = "all" \/ (view # "legacy" /\ Seen = j) THEN None ELSE entry
  /\ UNCHANGED <<plan, rows, finished, routed, tasks, requestVars, view, vpc, vread>>

MarkReady(j) ==
  /\ Advance(j, "forgotten", "ready")
  /\ UNCHANGED <<plan, rows, finished, routed, tasks, requestVars, viewVars>>

\* DELETE of a picked task: its rows lose their task (SET NULL), and with it their
\* place in every query that names it or joins tasks; the routes stay, and only the
\* overview is invalidated.
DeleteTask(t) ==
  /\ t \in tasks
  /\ tasks' = tasks \ {t}
  /\ rows' = [j \in Jobs |-> {s \in rows[j] : s[2] # t}]
  /\ finished' = [j \in Jobs |-> {s \in finished[j] : s[2] # t}]
  /\ UNCHANGED <<run, plan, routed, requestVars, viewVars>>

-----------------------------------------------------------------------------
(* complete_fieldman_task *)

GoTo(c, from, to) == cpc[c] = from /\ cpc' = [cpc EXCEPT ![c] = to]

\* The fieldman and the task exist.
Begin(c, s) ==
  /\ GoTo(c, "idle", "look") /\ s[2] \in tasks
  /\ cstop' = [cstop EXCEPT ![c] = s]
  /\ UNCHANGED <<crow, dbVars, viewVars>>

Answer(c) ==
  /\ cstop' = [cstop EXCEPT ![c] = None]
  /\ crow' = [crow EXCEPT ![c] = None]

NotAssigned(c) ==
  /\ GoTo(c, "look", "idle")
  /\ \A j \in Jobs : cstop[c] \notin rows[j]
  /\ Answer(c)
  /\ UNCHANGED <<dbVars, viewVars>>

\* LIMIT 1 without an order: a row of any of the jobs.
AlreadyCompleted(c) ==
  /\ GoTo(c, "look", "idle")
  /\ \E j \in Jobs : cstop[c] \in finished[j]
  /\ Answer(c)
  /\ UNCHANGED <<dbVars, viewVars>>

LookAtRow(c) ==
  /\ GoTo(c, "look", "write")
  /\ \E j \in Jobs :
       cstop[c] \in rows[j] \ finished[j] /\ crow' = [crow EXCEPT ![c] = j]
  /\ UNCHANGED <<cstop, dbVars, viewVars>>

\* Mutant: an upsert: a row deleted since comes back.
CompleteTask_Upsert(c) ==
  /\ GoTo(c, "write", "forget")
  /\ rows' = [rows EXCEPT ![crow[c]] = @ \cup {cstop[c]}]
  /\ finished' = [j \in Jobs |-> finished[j] \cup ({cstop[c]} \cap rows'[j])]
  /\ UNCHANGED <<run, plan, routed, tasks, cstop, crow, viewVars>>

\* The UPDATE takes the rows of the stop in all jobs.
CompleteTask(c) ==
  /\ GoTo(c, "write", "forget")
  /\ finished' = [j \in Jobs |-> finished[j] \cup ({cstop[c]} \cap rows[j])]
  /\ UNCHANGED <<run, plan, rows, routed, tasks, cstop, crow, viewVars>>

\* The entries of one job only; a delete that fails leaves the entry.
ForgetPreview(c, from, to, v) ==
  /\ GoTo(c, from, to)
  /\ \/ UNCHANGED entry
     \/ view = v /\ Seen = crow[c] /\ entry' = None
  /\ UNCHANGED <<dbVars, view, vpc, vread>>

Forget(c) ==
  /\ ForgetPreview(c, "forget", "forget_legacy", "preview")
  /\ UNCHANGED <<cstop, crow>>

ForgetLegacy(c) ==
  /\ ForgetPreview(c, "forget_legacy", "idle", "legacy")
  /\ Answer(c)

-----------------------------------------------------------------------------
(* The views *)

Turn(v, from, to) == vpc[v] = from /\ vpc' = [vpc EXCEPT ![v] = to]
Keep == UNCHANGED <<dbVars, requestVars, view>>

\* A miss.  The metrics and the assignments begin with the rows.
Miss(v) ==
  /\ Turn(v, "idle", IF view \in {"preview", "legacy"} THEN "status" ELSE "rows")
  /\ UNCHANGED <<entry, vread>> /\ Keep

ReadStatus(v) ==
  /\ Turn(v, "status", "routes")
  /\ vread' = [vread EXCEPT ![v].ready = (run[Seen] = "ready")]
  /\ UNCHANGED entry /\ Keep

ReadRoutes(v) ==
  /\ Turn(v, "routes", "rows")
  /\ vread' = [vread EXCEPT ![v].routes = routed[Seen]]
  /\ UNCHANGED entry /\ Keep

\* A route shows the rows of its fieldman; preview_job falls back on the
\* snapshots of the route, which do not say what was completed.
Preview(read, live) ==
  LET shown == {s \in live : \E r \in read.routes : r[1] = s[1]}
      snapshots == {r \in read.routes : \A s \in live : s[1] # r[1]}
  IN [read EXCEPT !.stops = shown \cup snapshots, !.done = shown \cap finished[Seen]]

\* The unversioned preview has no such fallback.
LegacyPreview(read, live) ==
  LET shown == {s \in live : \E r \in read.routes : r[1] = s[1]}
  IN [read EXCEPT !.stops = shown, !.done = shown \cap finished[Seen]]

\* COUNT(*) takes the rows that lost their task as well.
Metrics(read) == [read EXCEPT !.stops = plan[Seen]]
Assignments(read) == [read EXCEPT !.stops = rows[Seen]]
AllAssignments(read) == [read EXCEPT !.stops = UNION {rows[j] : j \in Jobs}]

Value(read) ==
  CASE view = "preview" -> Preview(read, rows[Seen])
    [] view = "legacy" -> LegacyPreview(read, rows[Seen])
    [] view = "metrics" -> Metrics(read)
    [] view = "assignments" -> Assignments(read)
    [] view = "all" -> AllAssignments(read)

ReadRows(v) ==
  /\ Turn(v, "rows", "set")
  /\ vread' = [vread EXCEPT ![v] = Value(@)]
  /\ UNCHANGED entry /\ Keep

\* Mutant: the unversioned preview of any job is cached.
Cacheable_Always(read) ==
  view \in {"assignments", "all"} => read.stops # {}

\* The unversioned preview is cached if the job was ready, the assignments if
\* there were any (the fallback for none is not cached).
Cacheable(read) ==
  /\ view = "legacy" => read.ready
  /\ view \in {"assignments", "all"} => read.stops # {}

SetEntry(v) ==
  /\ Turn(v, "set", "idle")
  /\ \/ UNCHANGED entry
     \/ Cacheable(vread[v]) /\ entry' = vread[v]
  /\ vread' = [vread EXCEPT ![v] = Nothing]
  /\ Keep

\* Mutant: an unversioned preview is kept for ever, being immutable.
Expire_Never ==
  /\ entry # None /\ view # "legacy"
  /\ entry' = None
  /\ UNCHANGED <<vpc, vread>> /\ Keep

Expire ==
  /\ entry # None
  /\ entry' = None
  /\ UNCHANGED <<vpc, vread>> /\ Keep

-----------------------------------------------------------------------------
Store(j) == StoreRows(j) \/ StoreRoutes(j) \/ InvalidateJob(j) \/ MarkReady(j)
Look(c) == NotAssigned(c) \/ AlreadyCompleted(c) \/ LookAtRow(c)
Read(v) == ReadStatus(v) \/ ReadRoutes(v) \/ ReadRows(v) \/ SetEntry(v)

Next ==
  \/ \E j \in Jobs : Store(j)
  \/ \E t \in Tasks : DeleteTask(t)
  \/ \E c \in Completers :
       (\E s \in Stops : Begin(c, s)) \/ Look(c) \/ CompleteTask(c) \/ Forget(c)
         \/ ForgetLegacy(c)
  \/ \E v \in Viewers : Miss(v) \/ Read(v)
  \/ Expire

Spec == Init /\ [][Next]_vars

\* The event loop resumes the readers, and every entry has a time to live.
FairSpec ==
  /\ Spec
  /\ \A v \in Viewers : WF_vars(Read(v))
  /\ WF_vars(Expire)

-----------------------------------------------------------------------------
(* Properties *)

\* Neither preview, once it says ready, lacks a stop that the job has: a plan
\* half stored is shown as such, and the unversioned API does not cache it.
\* (vrp_service.py 446-541, api/vrp_routes.py 649-764)
ReadyViewIsComplete ==
  view \in {"preview", "legacy"} /\ entry # None =>
    /\ entry.ready => rows[Seen] \subseteq entry.stops
    /\ view = "legacy" => entry.ready

\* Whatever a completion, a deletion or a slow reader leaves in the cache, each
\* view ends up with what the tables say or with no entry: also for the jobs
\* whose rows a completion changed without invalidating their previews.
ViewsConverge ==
  <>[](entry = None \/
       (entry.stops = Value([ready |-> entry.ready, routes |-> routed[Seen],
                             stops |-> {}, done |-> {}]).stops
        /\ entry.done = Value([ready |-> entry.ready, routes |-> routed[Seen],
                               stops |-> {}, done |-> {}]).done))

-----------------------------------------------------------------------------
(* What the documentation says and the code does not do *)

\* vrp_service.py 1191: "ValidationError: task is already completed".  A request
\* is refused for that reason only if no job has the stop pending.
RefusalsAreDeserved ==
  [][\A c \in Completers : AlreadyCompleted(c) =>
       \A j \in Jobs : cstop[c] \notin rows[j] \ finished[j]]_vars
=============================================================================
