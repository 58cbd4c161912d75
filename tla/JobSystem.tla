----------------------------- MODULE JobSystem ------------------------------
(***************************************************************************)
(* API requests and Celery workers over the shared tables and the broker.  *)
(***************************************************************************)
EXTENDS JobWorker, JobApi

vars == <<storeVars, workerVars, apiVars>>

Init == StoreInit /\ WorkerInit /\ ApiInit

Next ==
  \/ WorkerNext /\ UNCHANGED apiVars
  \/ ApiNext /\ UNCHANGED workerVars

\* A pool process that is not killed goes on with its task (OSRM and VROOM are
\* called with timeouts) and, idle, takes the next message; the event loop
\* resumes every request.  Nothing makes a client send one.
Fairness ==
  /\ \A w \in Workers : WF_vars(Advance(w) /\ UNCHANGED apiVars)
  /\ \A j \in Jobs : WF_vars((\E w \in Workers : Take(w, j)) /\ UNCHANGED apiVars)
  /\ \A r \in Requests : WF_vars(Continue(r) /\ UNCHANGED workerVars)

Spec == Init /\ [][Next]_vars
FairSpec == Spec /\ Fairness

-----------------------------------------------------------------------------
\* The type invariant.  No run writes a status word of its own: vrp_jobs.status
\* is one of the five words the readers know.  (vrp_repository.py 128-154)
TypeOK == StoreTypeOK /\ WorkerTypeOK /\ ApiTypeOK

Running(j) == \E w \in Workers : wjob[w] = j
Undecided(j) == status[j] \in {"queued", "started"}

\* The two tables describe the same plan whenever a job is "ready": up to tasks
\* and fieldmen deleted since, the rows of vrp_assignments are the snapshots of
\* vrp_job_routes.  A worker writes the tables by four statements, while resets,
\* picker deletions and other jobs' runs go on; only a DELETE of the job itself,
\* whose first two statements empty the tables one after the other, may be seen
\* half done.  (vrp_tasks.py 670-682)
RowsAgree ==
  \A j \in Jobs \ purging :
    status[j] = "ready" => Joined(assigned[j]) = Joined(routed[j])

\* A job that shows "queued" or "started" is still going to be decided: its
\* message waits in the broker, a worker runs it, its creation is about to send
\* the message, or a failure of the infrastructure struck its run.  No early
\* return, exception path or race with finalize, delete or reset strands a job.
NoSilentStranding ==
  \A j \in Jobs : Undecided(j) =>
    \/ message[j] = "queued"
    \/ Running(j)
    \/ \E r \in Requests : apc[r] \in EnqueueSteps /\ ajob[r] = j
    \/ j \in lost

\* A worker that stores its rows while its job is being deleted leaves none
\* behind, as long as vrp_job_routes has its foreign key.  (init_db.sql 54-79)
NoOrphans ==
  \A j \in Jobs : ~Exists(j) =>
    assigned[j] = {} /\ ("job" \in routesFk => routed[j] = {})

\* The job service keeps JobContract: at most one run, no status written after
\* it but by finalize or delete, no run ending in order without a verdict.
RunOf(j) ==
  IF message[j] = "unsent" THEN "none"
  ELSE IF message[j] = "queued" \/ \E w \in Workers : Runs(w, j, {"connect", "start"})
  THEN "waiting"
  ELSE IF Running(j) THEN "running" ELSE "over"

Contract == INSTANCE JobContract WITH
  record <- status, run <- [j \in Jobs |-> RunOf(j)]
KeepsContract == Contract!Spec

\* Every job that is created is decided in the end, deleted or finalized, unless
\* the infrastructure failed it.
JobsSettle == \A j \in Jobs : Undecided(j) ~> ~Undecided(j) \/ j \in lost

-----------------------------------------------------------------------------
(* Why these hold: the parts of an inductive invariant *)

\* An id without a row is known to nobody.
Fresh ==
  \A j \in Jobs : status[j] = "unborn" =>
    message[j] = "unsent" /\ assigned[j] = {} /\ routed[j] = {}

\* A busy process has a job, and so has a request that is about to use one.
Placed ==
  /\ \A w \in Workers : wpc[w] = "idle" <=> wjob[w] = None
  /\ \A r \in Requests : apc[r] \in EnqueueSteps \cup DeleteSteps => ajob[r] # None

\* One request sends the message of a job, once.
OneSender ==
  /\ \A r \in Requests : apc[r] \in EnqueueSteps =>
       /\ message[ajob[r]] = "unsent"
       /\ status[ajob[r]] # "unborn"
  /\ \A r, s \in Requests :
       apc[r] \in EnqueueSteps /\ apc[s] \in EnqueueSteps /\ ajob[r] = ajob[s]
         => r = s

\* One process runs a job, after taking its message.
OneRunner ==
  /\ \A w \in Workers : wjob[w] # None => message[wjob[w]] = "taken"
  /\ \A w, x \in Workers : wjob[w] # None /\ wjob[w] = wjob[x] => w = x

\* The requests that delete rows are those of the ghost `purging`.
DeletersNamed ==
  \A r \in Requests : apc[r] \in DeleteSteps => ajob[r] \in purging

WritingSteps == BeforeRows \cup
  {"connect", "clear_routes", "insert_routes", "invalidate", "ready"}
DoneSteps == {"say_rejected", "say_ready", "say_failed"}

\* A job is "ready" only after its run has written the rows, and decided when
\* its run announces the outcome.
VerdictInOrder ==
  /\ \A j \in Jobs : message[j] # "taken" => status[j] # "ready"
  /\ \A w \in Workers : wpc[w] \in WritingSteps => status[wjob[w]] # "ready"
  /\ \A w \in Workers : wpc[w] \in DoneSteps => ~Undecided(wjob[w])

\* What a run has stored by each step, unless the job is being deleted.
RowsStored ==
  \A w \in Workers : wjob[w] \notin purging =>
    /\ wpc[w] = "insert_assignments" => Joined(assigned[wjob[w]]) = {}
    /\ wpc[w] \in {"clear_routes", "insert_routes", "invalidate", "ready"} =>
         Joined(assigned[wjob[w]]) = Joined(wplan[w])
    /\ wpc[w] = "insert_routes" => Joined(routed[wjob[w]]) = {}
    /\ wpc[w] \in {"invalidate", "ready"} =>
         Joined(routed[wjob[w]]) = Joined(wplan[w])

\* Who may touch a job, and when: the part of the inductive invariant that does
\* not look at the rows.  (vrp_service.py 202-227, vrp_tasks.py 118-700)
Protocol ==
  /\ TypeOK /\ Placed
  /\ Fresh /\ OneSender /\ OneRunner /\ DeletersNamed /\ VerdictInOrder

\* The inductive invariant: with what a run has stored by each of its steps, the
\* four safety properties carry themselves.  (vrp_tasks.py 669-682)
IInv == Protocol /\ RowsStored /\ RowsAgree /\ NoSilentStranding /\ NoOrphans

-----------------------------------------------------------------------------
(* What the documentation says and the code does not do *)

\* README.md 319: "Finalize and commit a job".  A row whose finalized_at is set
\* has status "finalized", until it is deleted.
FinalizedIsCommitted ==
  \A j \in finalizedAt : status[j] \in {"finalized", "deleted"}

\* v1/vrp_routes.py 197: "Delete a job and all associated assignments/routes."
DeleteIsComplete ==
  \A j \in Jobs : status[j] = "deleted" => assigned[j] = {} /\ routed[j] = {}
=============================================================================
