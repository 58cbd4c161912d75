----------------------------- MODULE JobWorker ------------------------------
(***************************************************************************)
(* The Celery pool processes and the task they run, process_vrp_job: one   *)
(* step per statement on the database or message to Redis, in the order    *)
(* of _process_vrp_job_async.  The optimisation itself (partitioning, OSRM *)
(* matrices, VROOM) touches no shared state and is one step, MakePlan.     *)
(***************************************************************************)
EXTENDS JobStore

CONSTANT Workers

VARIABLES
  wpc,       \* the next step of each pool process; "idle" between tasks
  wjob,      \* the job it is running
  wtasks,    \* the tasks and
  wfieldmen, \* the fieldmen it loaded
  wplan      \* all_assignment_rows / all_route_rows: the pairs it will store

workerVars == <<wpc, wjob, wtasks, wfieldmen, wplan>>

\* The steps inside the `try` of _process_vrp_job_async, in program order.
BeforeRows == {"start", "say_started", "payload", "tasks", "fieldmen", "plan",
               "reject", "say_rejected", "clear_assignments",
               "insert_assignments"}
TrySteps == BeforeRows \cup
  {"clear_routes", "insert_routes", "invalidate", "ready", "say_ready"}
ExceptSteps == {"except", "say_failed"}
WorkerPc == {"idle", "connect"} \cup TrySteps \cup ExceptSteps

\* A task goes to one fieldman at most; VROOM may leave tasks unassigned and a
\* failed partition drops its tasks, so any part of the tasks may be missing.
Plans(T, F) ==
  {p \in SUBSET (F \X T) : \A a, b \in p : a[2] = b[2] => a = b}

\* The domains of a process's program counter and locals (vrp_tasks.py 134-352).
WorkerTypeOK ==
  /\ wpc \in [Workers -> WorkerPc]
  /\ wjob \in [Workers -> Jobs \cup {None}]
  /\ wtasks \in [Workers -> SUBSET Tasks]
  /\ wfieldmen \in [Workers -> SUBSET Fieldmen]
  /\ wplan \in [Workers -> SUBSET Pairs]

WorkerInit ==
  /\ wpc = [w \in Workers |-> "idle"]
  /\ wjob = [w \in Workers |-> None]
  /\ wtasks = [w \in Workers |-> {}]
  /\ wfieldmen = [w \in Workers |-> {}]
  /\ wplan = [w \in Workers |-> {}]

\* `w` runs `j`, at a step of S.
Runs(w, j, S) == wpc[w] \in S /\ wjob[w] = j

-----------------------------------------------------------------------------
Step(w, from, to) ==
  /\ wpc[w] = from
  /\ wpc' = [wpc EXCEPT ![w] = to]

\* The task function returns or raises: its locals are gone.
Finish(w) ==
  /\ wpc' = [wpc EXCEPT ![w] = "idle"]
  /\ wjob' = [wjob EXCEPT ![w] = None]
  /\ wtasks' = [wtasks EXCEPT ![w] = {}]
  /\ wfieldmen' = [wfieldmen EXCEPT ![w] = {}]
  /\ wplan' = [wplan EXCEPT ![w] = {}]

Unstored == UNCHANGED storeVars
KeepLocals == UNCHANGED <<wjob, wtasks, wfieldmen, wplan>>

-----------------------------------------------------------------------------
(* Start of the task *)

Take(w, j) ==
  /\ wpc[w] = "idle"
  /\ ReceiveTask(j)
  /\ wpc' = [wpc EXCEPT ![w] = "connect"]
  /\ wjob' = [wjob EXCEPT ![w] = j]
  /\ UNCHANGED <<dbVars, lost, wtasks, wfieldmen, wplan>>

\* _get_pool and _get_redis stand before the `try`.
Connect(w) == Step(w, "connect", "start") /\ KeepLocals /\ Unstored

\* An exception of theirs leaves the job's row as it was.
ConnectFails(w) ==
  /\ wpc[w] = "connect"
  /\ Finish(w)
  /\ Lose(wjob[w])
  /\ UNCHANGED <<dbVars, message>>

MarkStarted(w) ==
  /\ Step(w, "start", "say_started") /\ KeepLocals
  /\ UpdateStatus(wjob[w], "started")
  /\ UNCHANGED queueVars

SayStarted(w) == Step(w, "say_started", "payload") /\ KeepLocals /\ Unstored

LoadPayload(w) ==
  /\ Step(w, "payload", IF Exists(wjob[w]) THEN "tasks" ELSE "except")
  /\ KeepLocals /\ Unstored

\* The request's ids, limits and priority bounds select any part of a table.
LoadTasks(w) ==
  /\ Step(w, "tasks", "fieldmen")
  /\ \E T \in SUBSET tasks : wtasks' = [wtasks EXCEPT ![w] = T]
  /\ UNCHANGED <<wjob, wfieldmen, wplan>> /\ Unstored

LoadFieldmen(w) ==
  /\ Step(w, "fieldmen", "plan")
  /\ \E F \in SUBSET fieldmen : wfieldmen' = [wfieldmen EXCEPT ![w] = F]
  /\ UNCHANGED <<wjob, wtasks, wplan>> /\ Unstored

-----------------------------------------------------------------------------
(* The early returns: no tasks or fieldmen, area parameters without a map *)

Refuse(w) == Step(w, "plan", "reject") /\ KeepLocals /\ Unstored

\* Mutant: the early return that forgets to write its verdict.
MarkRejected_Silent(w) ==
  Step(w, "reject", "say_rejected") /\ KeepLocals /\ Unstored

\* Mutant: the early return that writes its verdict and tells nobody.
MarkRejected_Unannounced(w) ==
  /\ wpc[w] = "reject"
  /\ Finish(w)
  /\ UpdateStatus(wjob[w], "failed")
  /\ UNCHANGED queueVars

MarkRejected(w) ==
  /\ Step(w, "reject", "say_rejected") /\ KeepLocals
  /\ UpdateStatus(wjob[w], "failed")
  /\ UNCHANGED queueVars

SayRejected(w) == wpc[w] = "say_rejected" /\ Finish(w) /\ Unstored

-----------------------------------------------------------------------------
(* Planning and storing *)

MakePlan(w) ==
  /\ wtasks[w] # {} /\ wfieldmen[w] # {}
  /\ Step(w, "plan", "clear_assignments")
  /\ \E p \in Plans(wtasks[w], wfieldmen[w]) : wplan' = [wplan EXCEPT ![w] = p]
  /\ UNCHANGED <<wjob, wtasks, wfieldmen>> /\ Unstored

ClearOldAssignments(w) ==
  /\ Step(w, "clear_assignments", "insert_assignments") /\ KeepLocals
  /\ ClearAssignments(wjob[w])
  /\ UNCHANGED queueVars

StoreAssignments(w) ==
  /\ Step(w, "insert_assignments", "clear_routes") /\ KeepLocals
  /\ InsertAssignments(wjob[w], wplan[w])
  /\ UNCHANGED queueVars

\* Mutant: the job is declared ready before its routes are written.
ClearOldRoutes_ReadyEarly(w) ==
  /\ Step(w, "clear_routes", "insert_routes") /\ KeepLocals
  /\ UpdateStatus(wjob[w], "ready")
  /\ UNCHANGED queueVars

ClearOldRoutes(w) ==
  /\ Step(w, "clear_routes", "insert_routes") /\ KeepLocals
  /\ ClearRoutes(wjob[w])
  /\ UNCHANGED queueVars

StoreRoutes(w) ==
  /\ Step(w, "insert_routes", "invalidate") /\ KeepLocals
  /\ InsertRoutes(wjob[w], wplan[w])
  /\ UNCHANGED queueVars

\* cache.invalidate_job, before the status below is written; its errors are
\* swallowed by CacheService.  What it removes is JobCache's matter.
InvalidateJob(w) == Step(w, "invalidate", "ready") /\ KeepLocals /\ Unstored

\* Mutant: the status word that the API's readers also accept.
MarkReady_Completed(w) ==
  /\ Step(w, "ready", "say_ready") /\ KeepLocals
  /\ UpdateStatus(wjob[w], "completed")
  /\ UNCHANGED queueVars

MarkReady(w) ==
  /\ Step(w, "ready", "say_ready") /\ KeepLocals
  /\ UpdateStatus(wjob[w], "ready")
  /\ UNCHANGED queueVars

SayReady(w) == wpc[w] = "say_ready" /\ Finish(w) /\ Unstored

-----------------------------------------------------------------------------
(* Failures *)

\* Mutant: an exception starts the task over, without a bound.
Raise_Retry(w) ==
  /\ wpc[w] \in TrySteps
  /\ wpc' = [wpc EXCEPT ![w] = "start"]
  /\ KeepLocals /\ Unstored

\* Any call inside the `try` may raise: a refused connection, a timeout, a
\* foreign key, "All partitions failed", or the publish of the last line.
Raise(w) ==
  /\ wpc[w] \in TrySteps
  /\ wpc' = [wpc EXCEPT ![w] = "except"]
  /\ KeepLocals /\ Unstored

\* Mutant: the handler of exceptions that only announces the failure.
MarkFailed_Silent(w) ==
  Step(w, "except", "say_failed") /\ KeepLocals /\ Unstored

MarkFailed(w) ==
  /\ Step(w, "except", "say_failed") /\ KeepLocals
  /\ UpdateStatus(wjob[w], "failed")
  /\ UNCHANGED queueVars

\* The publish may raise as well: nothing is left to undo.
SayFailed(w) == wpc[w] = "say_failed" /\ Finish(w) /\ Unstored

\* The handler's own UPDATE raises, or the process is killed: the message is
\* acknowledged already, so nobody runs the job again.
Crash(w) ==
  /\ wpc[w] # "idle"
  /\ Finish(w)
  /\ Lose(wjob[w])
  /\ UNCHANGED <<dbVars, message>>

-----------------------------------------------------------------------------
\* What a running task does when it is not killed.
Advance(w) ==
  \/ Connect(w) \/ ConnectFails(w) \/ MarkStarted(w) \/ SayStarted(w)
  \/ LoadPayload(w) \/ LoadTasks(w) \/ LoadFieldmen(w)
  \/ Refuse(w) \/ MarkRejected(w) \/ SayRejected(w)
  \/ MakePlan(w) \/ ClearOldAssignments(w) \/ StoreAssignments(w)
  \/ ClearOldRoutes(w) \/ StoreRoutes(w) \/ InvalidateJob(w)
  \/ MarkReady(w) \/ SayReady(w)
  \/ Raise(w) \/ MarkFailed(w) \/ SayFailed(w)

WorkerNext == \E w \in Workers :
  \/ \E j \in Jobs : Take(w, j)
  \/ Advance(w)
  \/ Crash(w)
=============================================================================
