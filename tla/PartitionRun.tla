---------------------------- MODULE PartitionRun ----------------------------
(***************************************************************************)
(* The partitions of one job, run in parallel (workers/vrp_tasks.py, steps *)
(* 6 to 10): _bounded_partition takes a permit of partition_sem, asks OSRM *)
(* for the matrix, VROOM for the routes, and OSRM for each route under a   *)
(* semaphore of the partition.  Every HTTP call needs a connection of its  *)
(* client's pool, waits a limited time for it, and is tried again a few    *)
(* times (OSRMService._get, VROOMService.solve_vrp).                       *)
(*                                                                         *)
(* An inner gather raises at its first failure and leaves the other calls  *)
(* running: they go on after their partition has failed and has given its  *)
(* permit back.  The outer gather keeps exceptions as results.             *)
(***************************************************************************)
EXTENDS Integers, Sequences, FiniteSets

CONSTANTS N,               \* how many partitions there are
          Slots,           \* permits of partition_sem, 10 in the code
          OsrmConcurrency, \* settings.osrm_concurrency
          Connections,     \* max_connections of the OSRM client
          Attempts,        \* how often a call is tried, 3 in the code
          Stride,          \* route_index of a partition's routes, 100 in the code
          MatrixCalls,     \* bound: how many requests a matrix may take
          MaxRoutes        \* bound: how many routes VROOM may answer

ASSUME PartitionAssumption ==
  /\ N \in Nat /\ MaxRoutes \in Nat /\ MatrixCalls \subseteq Nat
  /\ Slots \in Nat \ {0} /\ OsrmConcurrency \in Nat \ {0}
  /\ Connections \in Nat \ {0} /\ Attempts \in Nat \ {0} /\ Stride \in Nat \ {0}

VARIABLES stage,   \* how far each partition is
          calls,   \* the HTTP calls of its stage; the leftovers if it failed
          slots,   \* free permits of partition_sem
          job,     \* what becomes of the job
          stored   \* the rows of all_route_rows, as <<partition, route>>

vars == <<stage, calls, slots, job, stored>>

Partitions == 0..(N - 1)
Inside == {"matrix", "solve", "routing"}
Stages == Inside \cup {"waiting", "done", "failed"}
Call == [at : {"queued", "wanting", "asking", "got", "lost"}, try : 1..Attempts]

\* The domains of the coroutines' states.
RunTypeOK ==
  /\ stage \in [Partitions -> Stages]
  /\ calls \in [Partitions -> Seq(Call)]
  /\ slots \in 0..Slots
  /\ job \in {"running", "ready", "raised"}
  /\ stored \subseteq Partitions \X (Nat \ {0})

Init ==
  /\ stage = [p \in Partitions |-> "waiting"]
  /\ calls = [p \in Partitions |-> <<>>]
  /\ slots = Slots
  /\ job = "running"
  /\ stored = {}

-----------------------------------------------------------------------------
(* _bounded_partition and _process_partition *)

Fresh(k, at) == [c \in 1..k |-> [at |-> at, try |-> 1]]

GoTo(p, s, cs) ==
  /\ stage' = [stage EXCEPT ![p] = s]
  /\ calls' = [calls EXCEPT ![p] = cs]
  /\ UNCHANGED <<job, stored>>

\* Mutant: a partition does not wait for a permit.
Enter_NoWait(p) ==
  /\ job = "running" /\ stage[p] = "waiting"
  /\ slots' = slots - 1
  /\ \E k \in MatrixCalls : GoTo(p, "matrix", Fresh(k, "wanting"))

\* A matrix from the cache takes no call, a large one the calls of its batches.
Enter(p) ==
  /\ job = "running" /\ stage[p] = "waiting" /\ slots > 0
  /\ slots' = slots - 1
  /\ \E k \in MatrixCalls : GoTo(p, "matrix", Fresh(k, "wanting"))

\* A partition without tasks or fieldmen returns at once.
EnterEmpty(p) ==
  /\ job = "running" /\ stage[p] = "waiting" /\ slots > 0
  /\ UNCHANGED slots
  /\ GoTo(p, "done", <<>>)

AllGot(p) == \A c \in DOMAIN calls[p] : calls[p][c].at = "got"

MatrixReady(p) ==
  /\ job = "running" /\ stage[p] = "matrix" /\ AllGot(p)
  /\ UNCHANGED slots
  /\ GoTo(p, "solve", Fresh(1, "wanting"))

Solved(p) ==
  /\ job = "running" /\ stage[p] = "solve" /\ AllGot(p)
  /\ UNCHANGED slots
  /\ \E k \in 0..MaxRoutes : GoTo(p, "routing", Fresh(k, "queued"))

PartitionDone(p) ==
  /\ job = "running" /\ stage[p] = "routing" /\ AllGot(p)
  /\ slots' = slots + 1
  /\ GoTo(p, "done", calls[p])

\* Mutant: acquire and release by hand, and an exception skips the release.
PartitionFails_NoRelease(p) ==
  /\ job = "running" /\ stage[p] \in Inside
  /\ \E c \in DOMAIN calls[p] : calls[p][c].at = "lost"
  /\ UNCHANGED slots
  /\ GoTo(p, "failed", calls[p])

\* Mutant: return_exceptions for the routes too, a lost one is left out.
PartitionFails_Tolerant(p) ==
  /\ job = "running" /\ stage[p] \in Inside
  /\ \E c \in DOMAIN calls[p] : calls[p][c].at = "lost"
  /\ slots' = slots + 1
  /\ GoTo(p, IF stage[p] = "routing" THEN "done" ELSE "failed", calls[p])

PartitionFails(p) ==
  /\ job = "running" /\ stage[p] \in Inside
  /\ \E c \in DOMAIN calls[p] : calls[p][c].at = "lost"
  /\ slots' = slots + 1
  /\ GoTo(p, "failed", calls[p])

-----------------------------------------------------------------------------
(* One HTTP call *)

Set(p, c, call) ==
  /\ calls' = [calls EXCEPT ![p][c] = call]
  /\ UNCHANGED <<stage, slots, job, stored>>

Holding(p) == {c \in DOMAIN calls[p] : calls[p][c].at \in {"wanting", "asking"}}

\* The OSRM client's connections in use.  VROOM's client has more of them than
\* there are permits for partitions.
Busy == {x \in UNION {{p} \X DOMAIN calls[p] : p \in Partitions} :
           stage[x[1]] # "solve" /\ calls[x[1]][x[2]].at = "asking"}
PoolFull(p) == stage[p] # "solve" /\ Cardinality(Busy) >= Connections

\* async with semaphore: the call is made, or answered by the cache.
Acquire(p, c) ==
  /\ job = "running" /\ calls[p][c].at = "queued"
  /\ Cardinality(Holding(p)) < OsrmConcurrency
  /\ \E at \in {"wanting", "got"} : Set(p, c, [calls[p][c] EXCEPT !.at = at])

Connect(p, c) ==
  /\ job = "running" /\ calls[p][c].at = "wanting" /\ ~PoolFull(p)
  /\ Set(p, c, [calls[p][c] EXCEPT !.at = "asking"])

Answer(p, c) ==
  /\ job = "running" /\ calls[p][c].at = "asking"
  /\ Set(p, c, [calls[p][c] EXCEPT !.at = "got"])

\* No connection in time, a transport error or a 5xx: try again, after a pause
\* that holds the permit and no connection.
Transient(p, c) ==
  calls[p][c].at = "asking" \/ (calls[p][c].at = "wanting" /\ PoolFull(p))

Retry(p, c) ==
  /\ job = "running" /\ Transient(p, c) /\ calls[p][c].try < Attempts
  /\ Set(p, c, [at |-> "wanting", try |-> calls[p][c].try + 1])

\* The last attempt failed, or the answer is an error that no retry mends.
GiveUp(p, c) ==
  /\ job = "running"
  /\ calls[p][c].at = "asking" \/ (Transient(p, c) /\ calls[p][c].try = Attempts)
  /\ Set(p, c, [calls[p][c] EXCEPT !.at = "lost"])

-----------------------------------------------------------------------------
(* The results *)

Failed == {p \in Partitions : stage[p] = "failed"}
Rows == UNION {{p} \X DOMAIN calls[p] : p \in Partitions \ Failed}

Collect ==
  /\ job = "running"
  /\ \A p \in Partitions : stage[p] \in {"done", "failed"}
  /\ job' = IF Rows = {} /\ Cardinality(Failed) = N THEN "raised" ELSE "ready"
  /\ stored' = IF job' = "raised" THEN {} ELSE Rows
  /\ UNCHANGED <<stage, calls, slots>>

\* Mutant: a stride that is one short.
RouteIndex_Short(p, i) == p * (Stride - 1) + i

RouteIndex(p, i) == p * Stride + i

StepCall(p) ==
  \E c \in DOMAIN calls[p] :
    Acquire(p, c) \/ Connect(p, c) \/ Answer(p, c) \/ Retry(p, c) \/ GiveUp(p, c)

StepPartition(p) ==
  \/ Enter(p) \/ EnterEmpty(p) \/ MatrixReady(p) \/ Solved(p)
  \/ PartitionDone(p) \/ PartitionFails(p)

Next == Collect \/ \E p \in Partitions : StepPartition(p) \/ StepCall(p)

Spec == Init /\ [][Next]_vars

\* The event loop runs whatever is ready, and every call has a timeout.
FairSpec == Spec /\ WF_vars(Next)

-----------------------------------------------------------------------------
(* Properties *)

\* The partitions that hold a permit.
UnderWay == {p \in Partitions : stage[p] \in Inside}

\* Whatever a partition does or throws, partition_sem gets its permit back: the
\* permits that are missing are those of the partitions under way.
PermitsReturn == slots + Cardinality(UnderWay) = Slots

\* A partition is all or nothing.  A stored route belongs to a partition none
\* of whose calls was lost, and every route of that partition is stored; the
\* job fails only if each of its partitions lost a call.
PartitionsAreWhole ==
  /\ \A x \in stored : \A c \in DOMAIN calls[x[1]] :
       calls[x[1]][c].at = "got" /\ <<x[1], c>> \in stored
  /\ job = "raised" =>
       \A p \in Partitions : \E c \in DOMAIN calls[p] : calls[p][c].at = "lost"

\* As long as no partition has more than Stride routes, no two stored routes
\* have the same route_index, which readers sort by.
IndexesDiffer ==
  (\A p \in Partitions : Len(calls[p]) =< Stride) =>
    \A x, y \in stored : RouteIndex(x[1], x[2]) = RouteIndex(y[1], y[2]) => x = y

\* The nested waits (a permit of partition_sem, one of the partition's
\* semaphore, a connection that leftovers of failed partitions may hold) never
\* close a cycle: every job is decided.
JobDecides == <>(job # "running")
=============================================================================
