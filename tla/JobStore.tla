------------------------------ MODULE JobStore ------------------------------
(***************************************************************************)
(* The state that the API processes and the Celery workers share: the      *)
(* PostgreSQL tables of scripts/init_db.sql, as the statements of          *)
(* VRPJobRepository read and write them, and the Celery message that       *)
(* carries a job's id from the API to a worker.                            *)
(*                                                                         *)
(* asyncpg runs every statement issued on the pool, or on a connection     *)
(* outside `conn.transaction()`, in a transaction of its own, so the unit  *)
(* of atomicity is the statement: one operator per statement.              *)
(*                                                                         *)
(* A row of vrp_assignments is the pair <<fieldman, task>> it links, a     *)
(* route of vrp_job_routes the pairs of its task snapshots; distances,     *)
(* sequences and geometry are left out.                                    *)
(***************************************************************************)
CONSTANTS Jobs, Tasks, Fieldmen, \* the ids that rows may carry
          None                   \* SQL's NULL

ASSUME NoneIsNoId == None \notin Jobs \cup Tasks \cup Fieldmen

VARIABLES
  status,      \* vrp_jobs.status of each job id, or "unborn" / "deleted"
  finalizedAt, \* the jobs whose vrp_jobs.finalized_at is set
  tasks,       \* the ids in table tasks
  fieldmen,    \* the ids in table fm_home_locations
  assigned,    \* the vrp_assignments rows of each job
  routed,      \* the task snapshots in the vrp_job_routes rows of each job
  routesFk,    \* the foreign keys that vrp_job_routes still has
  message,     \* the process_vrp_job message: "unsent", "queued" or "taken"
  lost         \* ghost: the jobs an infrastructure failure left without a run

dbVars == <<status, finalizedAt, tasks, fieldmen, assigned, routed, routesFk>>
queueVars == <<message, lost>>
storeVars == <<dbVars, queueVars>>

RowStatus == {"queued", "started", "ready", "failed", "finalized"}
RouteFks == {"job", "fieldman"}
Pairs == Fieldmen \X Tasks
Rows == (Fieldmen \cup {None}) \X (Tasks \cup {None})

\* The domains of the tables, the broker and the ghost (init_db.sql 12-79).
StoreTypeOK ==
  /\ status \in [Jobs -> RowStatus \cup {"unborn", "deleted"}]
  /\ finalizedAt \subseteq Jobs
  /\ tasks \subseteq Tasks
  /\ fieldmen \subseteq Fieldmen
  /\ assigned \in [Jobs -> SUBSET Rows]
  /\ routed \in [Jobs -> SUBSET Pairs]
  /\ routesFk \subseteq RouteFks
  /\ message \in [Jobs -> {"unsent", "queued", "taken"}]
  /\ lost \subseteq Jobs

\* The deployment starts on init_db.sql's schema; which tasks and fieldmen the
\* operators have loaded by then is arbitrary.
StoreInit ==
  /\ status = [j \in Jobs |-> "unborn"]
  /\ finalizedAt = {}
  /\ tasks \in SUBSET Tasks
  /\ fieldmen \in SUBSET Fieldmen
  /\ assigned = [j \in Jobs |-> {}]
  /\ routed = [j \in Jobs |-> {}]
  /\ routesFk = RouteFks
  /\ message = [j \in Jobs |-> "unsent"]
  /\ lost = {}

-----------------------------------------------------------------------------
(* Queries *)

Exists(j) == status[j] \in RowStatus

\* The pairs of `rows` whose task and fieldman are both still in their tables:
\* what JOIN tasks ... JOIN fm_home_locations keeps.
Joined(rows) == rows \cap (fieldmen \X tasks)

\* The foreign keys of vrp_assignments accept the rows of this plan.
AssignmentsFkOK(j, plan) == plan # {} => Exists(j) /\ plan = Joined(plan)

\* The foreign keys that vrp_job_routes still has accept the routes of this plan.
RoutesFkOK(j, plan) ==
  plan # {} => /\ "job" \in routesFk => Exists(j)
               /\ "fieldman" \in routesFk => \A p \in plan : p[1] \in fieldmen

-----------------------------------------------------------------------------
(* Statements on vrp_jobs *)

InsertJob(j) ==
  /\ status[j] = "unborn"
  /\ status' = [status EXCEPT ![j] = "queued"]
  /\ UNCHANGED <<finalizedAt, tasks, fieldmen, assigned, routed, routesFk>>

\* Unconditional: it looks at no earlier status, and updates no row when there
\* is none.
UpdateStatus(j, s) ==
  /\ status' = [status EXCEPT ![j] = IF Exists(j) THEN s ELSE @]
  /\ UNCHANGED <<finalizedAt, tasks, fieldmen, assigned, routed, routesFk>>

FinalizeRow(j) ==
  /\ Exists(j)
  /\ status[j] # "finalized"
  /\ status' = [status EXCEPT ![j] = "finalized"]
  /\ finalizedAt' = finalizedAt \cup {j}
  /\ UNCHANGED <<tasks, fieldmen, assigned, routed, routesFk>>

\* DELETE FROM vrp_jobs; ON DELETE CASCADE takes the rows that refer to it.
DeleteJobRow(j) ==
  /\ status' = [status EXCEPT ![j] = IF Exists(j) THEN "deleted" ELSE @]
  /\ assigned' = [assigned EXCEPT ![j] = IF Exists(j) THEN {} ELSE @]
  /\ routed' = [routed EXCEPT ![j] = IF Exists(j) /\ "job" \in routesFk THEN {} ELSE @]
  /\ UNCHANGED <<finalizedAt, tasks, fieldmen, routesFk>>

-----------------------------------------------------------------------------
(* Statements on vrp_assignments and vrp_job_routes *)

ClearAssignments(j) ==
  /\ assigned' = [assigned EXCEPT ![j] = {}]
  /\ UNCHANGED <<status, finalizedAt, tasks, fieldmen, routed, routesFk>>

\* executemany: all the rows or, when a foreign key refuses one, none.
InsertAssignments(j, plan) ==
  /\ AssignmentsFkOK(j, plan)
  /\ assigned' = [assigned EXCEPT ![j] = @ \cup plan]
  /\ UNCHANGED <<status, finalizedAt, tasks, fieldmen, routed, routesFk>>

ClearRoutes(j) ==
  /\ routed' = [routed EXCEPT ![j] = {}]
  /\ UNCHANGED <<status, finalizedAt, tasks, fieldmen, assigned, routesFk>>

\* Mutant: the table that ensure_routes_table creates, without foreign keys.
InsertRoutes_NoFk(j, plan) ==
  /\ routed' = [routed EXCEPT ![j] = @ \cup plan]
  /\ UNCHANGED <<status, finalizedAt, tasks, fieldmen, assigned, routesFk>>

InsertRoutes(j, plan) ==
  /\ RoutesFkOK(j, plan)
  /\ routed' = [routed EXCEPT ![j] = @ \cup plan]
  /\ UNCHANGED <<status, finalizedAt, tasks, fieldmen, assigned, routesFk>>

-----------------------------------------------------------------------------
(* Statements on tasks and fm_home_locations *)

\* ON DELETE SET NULL in vrp_assignments; the snapshots in the routes stay.
DeleteTask(t) ==
  /\ t \in tasks
  /\ tasks' = tasks \ {t}
  /\ assigned' = [j \in Jobs |->
        {<<r[1], IF r[2] = t THEN None ELSE r[2]>> : r \in assigned[j]}]
  /\ UNCHANGED <<status, finalizedAt, fieldmen, routed, routesFk>>

\* ON DELETE SET NULL in vrp_assignments, ON DELETE CASCADE in vrp_job_routes.
DeleteFieldman(f) ==
  /\ f \in fieldmen
  /\ fieldmen' = fieldmen \ {f}
  /\ assigned' = [j \in Jobs |->
        {<<IF r[1] = f THEN None ELSE r[1], r[2]>> : r \in assigned[j]}]
  /\ routed' = [j \in Jobs |->
        IF "fieldman" \in routesFk THEN {p \in routed[j] : p[1] # f} ELSE routed[j]]
  /\ UNCHANGED <<status, finalizedAt, tasks, routesFk>>

\* ALTER TABLE ... DROP CONSTRAINT, the first statements of truncate_all.
DropRouteFk ==
  /\ \E k \in routesFk : routesFk' = routesFk \ {k}
  /\ UNCHANGED <<status, finalizedAt, tasks, fieldmen, assigned, routed>>

\* TRUNCATE ... CASCADE empties every table with a foreign key to a named one.
\* The snapshot UPDATE before it fills only routes whose task list is empty, and
\* the worker writes no such route, so it changes nothing.
TruncateReference ==
  /\ tasks' = {}
  /\ fieldmen' = {}
  /\ assigned' = [j \in Jobs |-> {}]
  /\ routed' = [j \in Jobs |-> IF "fieldman" \in routesFk THEN {} ELSE routed[j]]
  /\ UNCHANGED <<status, finalizedAt, routesFk>>

-----------------------------------------------------------------------------
(* The broker.  Celery acknowledges a message when a worker process takes it *)
(* (task_acks_late is left at its default), so it is delivered at most once. *)

SendTask(j) == message' = [message EXCEPT ![j] = "queued"]

\* Mutant: the message is handed to a worker and stays deliverable.
ReceiveTask_NoAck(j) == message[j] = "queued" /\ UNCHANGED message

ReceiveTask(j) ==
  /\ message[j] = "queued"
  /\ message' = [message EXCEPT ![j] = "taken"]

Lose(j) == lost' = lost \cup {j}
=============================================================================
