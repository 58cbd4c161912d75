------------------------------- MODULE JobApi -------------------------------
(***************************************************************************)
(* The requests that write jobs and reference data, as VRPService and      *)
(* DataService serve them in the API's uvicorn processes.  A request is a  *)
(* sequence of awaited calls, each a step, so requests interleave with one *)
(* another and with the workers; an exception (a lost connection, Redis    *)
(* down, a killed process) ends a request between any two of them.         *)
(***************************************************************************)
EXTENDS JobStore

CONSTANT Requests \* the requests in flight at one time

VARIABLES
  apc,     \* the next step of each request; "idle" when there is none
  ajob,    \* the job id it names
  purging  \* ghost: the jobs a DELETE request has named

apiVars == <<apc, ajob, purging>>

EnqueueSteps == {"enqueue", "enqueue_plain"}
DeleteSteps == {"delete_routes", "delete_row"}
ApiPc == {"idle", "audit_create", "forget_jobs", "audit_finalize",
          "forget_finalized", "audit_delete", "forget_deleted", "truncate",
          "forget_all"} \cup EnqueueSteps \cup DeleteSteps

\* The domains of the requests in flight (vrp_service.py 202-227 and 934-974).
ApiTypeOK ==
  /\ apc \in [Requests -> ApiPc]
  /\ ajob \in [Requests -> Jobs \cup {None}]
  /\ purging \subseteq Jobs

ApiInit ==
  /\ apc = [r \in Requests |-> "idle"]
  /\ ajob = [r \in Requests |-> None]
  /\ purging = {}

-----------------------------------------------------------------------------
Begin(r, j, to) ==
  /\ apc[r] = "idle"
  /\ apc' = [apc EXCEPT ![r] = to]
  /\ ajob' = [ajob EXCEPT ![r] = j]

Go(r, from, to) ==
  /\ apc[r] = from
  /\ apc' = [apc EXCEPT ![r] = to]
  /\ ajob' = [ajob EXCEPT ![r] = IF to = "idle" THEN None ELSE @]

-----------------------------------------------------------------------------
(* POST /jobs (audited), POST /optimize and the jobs of POST /randomize *)

CreateJob(r, j) ==
  /\ \E to \in EnqueueSteps : Begin(r, j, to)
  /\ InsertJob(j)
  /\ UNCHANGED <<queueVars, purging>>

Enqueue(r) ==
  /\ \/ Go(r, "enqueue", "audit_create")
     \/ Go(r, "enqueue_plain", "idle")
  /\ SendTask(ajob[r])
  /\ UNCHANGED <<dbVars, lost, purging>>

\* audit.record, which touches no table modelled here.
Audit(r) ==
  /\ \/ Go(r, "audit_create", "forget_jobs")
     \/ Go(r, "audit_finalize", "forget_finalized")
     \/ Go(r, "audit_delete", "forget_deleted")
  /\ UNCHANGED <<storeVars, purging>>

-----------------------------------------------------------------------------
(* POST /jobs/{id}/finalize: an id without a row, or finalized, is a 404 *)

Finalize(r, j) ==
  /\ Begin(r, j, "audit_finalize")
  /\ FinalizeRow(j)
  /\ UNCHANGED <<queueVars, purging>>

-----------------------------------------------------------------------------
(* DELETE /jobs/{id}: three statements; the row is looked for by the last.   *)
(* An id the API never issued matches nothing.                               *)

DeleteJob(r, j) ==
  /\ status[j] # "unborn"
  /\ Begin(r, j, "delete_routes")
  /\ ClearAssignments(j)
  /\ purging' = purging \cup {j}
  /\ UNCHANGED queueVars

DeleteRoutes(r) ==
  /\ Go(r, "delete_routes", "delete_row")
  /\ ClearRoutes(ajob[r])
  /\ UNCHANGED <<queueVars, purging>>

DeleteRow(r) ==
  /\ Go(r, "delete_row", IF Exists(ajob[r]) THEN "audit_delete" ELSE "idle")
  /\ DeleteJobRow(ajob[r])
  /\ UNCHANGED <<queueVars, purging>>

-----------------------------------------------------------------------------
(* POST /data/reset and the picker's deletions *)

\* truncate_all lists the foreign keys of vrp_job_routes and drops the first,
Reset(r) ==
  /\ Begin(r, None, "truncate")
  /\ DropRouteFk \/ (routesFk = {} /\ UNCHANGED dbVars)
  /\ UNCHANGED <<queueVars, purging>>

\* then the next (IF EXISTS: another reset may be at it),
DropFk(r) ==
  /\ apc[r] = "truncate"
  /\ DropRouteFk
  /\ UNCHANGED <<queueVars, apiVars>>

\* and truncates when none of the list, hence none at all, is left.
Truncate(r) ==
  /\ routesFk = {}
  /\ Go(r, "truncate", "forget_all")
  /\ TruncateReference
  /\ UNCHANGED <<queueVars, purging>>

PickerDelete ==
  /\ \/ \E t \in Tasks : DeleteTask(t)
     \/ \E f \in Fieldmen : DeleteFieldman(f)
  /\ UNCHANGED <<queueVars, apiVars>>

-----------------------------------------------------------------------------
\* cache.invalidate_all_jobs, invalidate_job and invalidate_all close a request.
Forget(r) ==
  /\ \/ Go(r, "forget_jobs", "idle")
     \/ Go(r, "forget_finalized", "idle")
     \/ Go(r, "forget_deleted", "forget_jobs")
     \/ Go(r, "forget_all", "idle")
  /\ UNCHANGED <<storeVars, purging>>

\* Before the message is sent, this leaves a queued job that nobody will run.
Abort(r) ==
  /\ apc[r] # "idle"
  /\ Go(r, apc[r], "idle")
  /\ IF apc[r] \in EnqueueSteps THEN Lose(ajob[r]) ELSE UNCHANGED lost
  /\ UNCHANGED <<dbVars, message, purging>>

-----------------------------------------------------------------------------
\* What a request in flight does when nothing goes wrong.
Continue(r) ==
  \/ Enqueue(r) \/ Audit(r) \/ DeleteRoutes(r) \/ DeleteRow(r)
  \/ DropFk(r) \/ Truncate(r) \/ Forget(r)

ApiNext ==
  \/ \E r \in Requests :
        \/ \E j \in Jobs : CreateJob(r, j) \/ Finalize(r, j) \/ DeleteJob(r, j)
        \/ Reset(r)
        \/ Continue(r)
        \/ Abort(r)
  \/ PickerDelete
=============================================================================
