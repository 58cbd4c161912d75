------------------------------ MODULE JobCache ------------------------------
(***************************************************************************)
(* The Redis cache in front of two endpoints, GET /jobs/{id} and           *)
(* GET /jobs/{id}/preview: cache-aside readers that miss, read the         *)
(* database by one or several statements and set the entry, while          *)
(* JobSystem writes and invalidates.                                       *)
(*                                                                         *)
(* CacheService swallows the errors of Redis: a get that fails is a miss,  *)
(* a set or a delete that fails leaves the entry as it was.  The scan and  *)
(* the deletes of delete_pattern are not atomic, but on one key they are   *)
(* as good as one delete, at the scan if it saw no key, else at its delete.*)
(***************************************************************************)
EXTENDS JobSystem

CONSTANTS StatusReaders, PreviewReaders \* GET requests in flight

VARIABLES
  statusCache,  \* job:<id>:status of each job, or None
  previewCache, \* job:<id>:preview, the status and stops it shows, or None
  spc, sjob, sread,       \* the next step of each status request, its job and
                          \* the status it read
  ppc, pjob, pread        \* the same of a preview request

statusVars == <<statusCache, spc, sjob, sread>>
previewVars == <<previewCache, ppc, pjob, pread>>
cacheVars == <<statusVars, previewVars>>
allVars == <<vars, cacheVars>>

\* A preview shows a status and, of the geometry and the task details, here
\* only which fieldman visits which task.
Previews == [status : RowStatus, stops : SUBSET Pairs]
Unread == [status |-> None, stops |-> {}]

\* The domains of the entries and the readers; in particular an entry never shows
\* the status of a job without a row.  (vrp_service.py 231-264 and 446-541)
CacheTypeOK ==
  /\ statusCache \in [Jobs -> RowStatus \cup {None}]
  /\ previewCache \in [Jobs -> Previews \cup {None}]
  /\ spc \in [StatusReaders -> {"idle", "read", "set"}]
  /\ sjob \in [StatusReaders -> Jobs \cup {None}]
  /\ sread \in [StatusReaders -> RowStatus \cup {None}]
  /\ ppc \in [PreviewReaders -> {"idle", "status", "routes", "tasks", "set"}]
  /\ pjob \in [PreviewReaders -> Jobs \cup {None}]
  /\ pread \in [PreviewReaders -> Previews \cup {Unread}]

CacheInit ==
  /\ statusCache = [j \in Jobs |-> None]
  /\ previewCache = [j \in Jobs |-> None]
  /\ spc = [s \in StatusReaders |-> "idle"]
  /\ sjob = [s \in StatusReaders |-> None]
  /\ sread = [s \in StatusReaders |-> None]
  /\ ppc = [p \in PreviewReaders |-> "idle"]
  /\ pjob = [p \in PreviewReaders |-> None]
  /\ pread = [p \in PreviewReaders |-> Unread]

-----------------------------------------------------------------------------
(* get_job_status *)

\* Mutant: a hit is written back, so that polling keeps the entry alive.
MissStatus_Sliding(s, j) ==
  /\ spc[s] = "idle"
  /\ sjob' = [sjob EXCEPT ![s] = j]
  /\ spc' = [spc EXCEPT ![s] = IF statusCache[j] = None THEN "read" ELSE "set"]
  /\ sread' = [sread EXCEPT ![s] = statusCache[j]]
  /\ UNCHANGED statusCache

\* A miss, or a Redis error: a hit returns the entry and leaves no trace.
MissStatus(s, j) ==
  /\ spc[s] = "idle"
  /\ spc' = [spc EXCEPT ![s] = "read"]
  /\ sjob' = [sjob EXCEPT ![s] = j]
  /\ UNCHANGED <<statusCache, sread>>

EndStatus(s) ==
  /\ spc' = [spc EXCEPT ![s] = "idle"]
  /\ sjob' = [sjob EXCEPT ![s] = None]
  /\ sread' = [sread EXCEPT ![s] = None]

ReadStatus(s) ==
  /\ spc[s] = "read"
  /\ IF Exists(sjob[s])
     THEN /\ spc' = [spc EXCEPT ![s] = "set"]
          /\ sread' = [sread EXCEPT ![s] = status[sjob[s]]]
          /\ UNCHANGED sjob
     ELSE EndStatus(s)
  /\ UNCHANGED statusCache

SetStatus(s) ==
  /\ spc[s] = "set"
  /\ EndStatus(s)
  /\ statusCache' \in {statusCache, [statusCache EXCEPT ![sjob[s]] = sread[s]]}

ExpireStatus(j) ==
  /\ statusCache[j] # None
  /\ statusCache' = [statusCache EXCEPT ![j] = None]
  /\ UNCHANGED <<spc, sjob, sread>>

-----------------------------------------------------------------------------
(* preview_job: the status, then the route rows, then the assignment rows *)

\* get_preview_routes joins the assignments with tasks, not with fieldmen.
LiveRows(j) == {r \in assigned[j] : r[2] \in tasks}

\* Each route shows its fieldman's live rows or, when there are none, the
\* snapshots stored with it.
Stops(routes, rows) ==
  {r \in rows : \E q \in routes : q[1] = r[1]}
    \cup {q \in routes : \A r \in rows : r[1] # q[1]}

MissPreview(p, j) ==
  /\ ppc[p] = "idle"
  /\ ppc' = [ppc EXCEPT ![p] = "status"]
  /\ pjob' = [pjob EXCEPT ![p] = j]
  /\ UNCHANGED <<previewCache, pread>>

EndPreview(p) ==
  /\ ppc' = [ppc EXCEPT ![p] = "idle"]
  /\ pjob' = [pjob EXCEPT ![p] = None]
  /\ pread' = [pread EXCEPT ![p] = Unread]

\* Mutant: without the 404 of a job that has no row.
ReadPreviewStatus_Unchecked(p) ==
  /\ ppc[p] = "status"
  /\ ppc' = [ppc EXCEPT ![p] = "routes"]
  /\ pread' = [pread EXCEPT ![p].status = status[pjob[p]]]
  /\ UNCHANGED <<previewCache, pjob>>

ReadPreviewStatus(p) ==
  /\ ppc[p] = "status"
  /\ IF Exists(pjob[p])
     THEN /\ ppc' = [ppc EXCEPT ![p] = "routes"]
          /\ pread' = [pread EXCEPT ![p].status = status[pjob[p]]]
          /\ UNCHANGED pjob
     ELSE EndPreview(p)
  /\ UNCHANGED previewCache

ReadRoutes(p) ==
  /\ ppc[p] = "routes"
  /\ ppc' = [ppc EXCEPT ![p] = "tasks"]
  /\ pread' = [pread EXCEPT ![p].stops = routed[pjob[p]]]
  /\ UNCHANGED <<previewCache, pjob>>

\* Mutant: the status is read again after the rows.
ReadTasks_StatusLast(p) ==
  /\ ppc[p] = "tasks" /\ Exists(pjob[p])
  /\ ppc' = [ppc EXCEPT ![p] = "set"]
  /\ pread' = [pread EXCEPT ![p] =
        [status |-> status[pjob[p]], stops |-> Stops(@.stops, LiveRows(pjob[p]))]]
  /\ UNCHANGED <<previewCache, pjob>>

ReadTasks(p) ==
  /\ ppc[p] = "tasks"
  /\ ppc' = [ppc EXCEPT ![p] = "set"]
  /\ pread' = [pread EXCEPT ![p].stops = Stops(@, LiveRows(pjob[p]))]
  /\ UNCHANGED <<previewCache, pjob>>

SetPreview(p) ==
  /\ ppc[p] = "set"
  /\ EndPreview(p)
  /\ previewCache' \in {previewCache, [previewCache EXCEPT ![pjob[p]] = pread[p]]}

ExpirePreview(j) ==
  /\ previewCache[j] # None
  /\ previewCache' = [previewCache EXCEPT ![j] = None]
  /\ UNCHANGED <<ppc, pjob, pread>>

-----------------------------------------------------------------------------
(* Invalidation: the steps of JobSystem that call CacheService *)

Without(cache, S) == [j \in Jobs |-> IF j \in S THEN None ELSE cache[j]]

Drop(S) ==
  /\ statusCache' \in {statusCache, Without(statusCache, S)}
  /\ previewCache' \in {previewCache, Without(previewCache, S)}
  /\ UNCHANGED <<spc, sjob, sread, ppc, pjob, pread>>

\* invalidate_all_jobs and invalidate_all, or invalidate_job.
Forgotten(r) == IF apc[r] \in {"forget_jobs", "forget_all"} THEN Jobs ELSE {ajob[r]}

Invalidate ==
  \/ \E w \in Workers :
        InvalidateJob(w) /\ UNCHANGED apiVars /\ Drop({wjob[w]})
  \/ \E r \in Requests :
        Forget(r) /\ UNCHANGED workerVars /\ Drop(Forgotten(r))

-----------------------------------------------------------------------------
FinishStatus(s) == ReadStatus(s) \/ SetStatus(s)
FinishPreview(p) ==
  ReadPreviewStatus(p) \/ ReadRoutes(p) \/ ReadTasks(p) \/ SetPreview(p)

StatusNext ==
  \/ \E s \in StatusReaders : FinishStatus(s) \/ \E j \in Jobs : MissStatus(s, j)
  \/ \E j \in Jobs : ExpireStatus(j)
PreviewNext ==
  \/ \E p \in PreviewReaders : FinishPreview(p) \/ \E j \in Jobs : MissPreview(p, j)
  \/ \E j \in Jobs : ExpirePreview(j)

\* JobSystem and the readers of previews; JobPolling composes those of the status.
\* A step of JobSystem that calls CacheService is in the second disjunct too, as
\* the call whose deletes all failed.
PreviewSystemNext ==
  \/ Invalidate
  \/ Next /\ UNCHANGED cacheVars
  \/ PreviewNext /\ UNCHANGED <<vars, statusVars>>

PreviewSpec == Init /\ CacheInit /\ [][PreviewSystemNext]_allVars

-----------------------------------------------------------------------------
\* A preview that says "ready", however long it has been cached or in the making,
\* shows every stop the job still has: never the empty or half-written plan.
\* The reader reads the status before the rows, the worker writes it after them.
\* (vrp_service.py 446-541, vrp_tasks.py 670-682)
ReadyPreviewIsComplete ==
  \A j \in Jobs \ purging :
    previewCache[j] # None /\ previewCache[j].status = "ready"
      => Joined(routed[j]) \subseteq previewCache[j].stops

\* Whatever stale entry a slow reader or a worker's early invalidation leaves, the
\* cache ends up with the job's last status or with none; that of a deleted job
\* goes away.  (vrp_service.py 231-264, cache_service.py 43 and 104-119)
StatusCacheConverges ==
  \A j \in Jobs : <>[](statusCache[j] \in {None, status[j]})
=============================================================================
