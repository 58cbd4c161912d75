----------------------- MODULE TaskCompletion_proofs ------------------------
(***************************************************************************)
(* Proofs about TaskCompletion, for any numbers of jobs, tasks, fieldmen,  *)
(* requests and readers.                                                   *)
(***************************************************************************)
EXTENDS TaskCompletion, TLAPS

USE SeenAssumption DEF Stops, Views

-----------------------------------------------------------------------------
(* Type correctness: that a completion finds its rows in the tables, and that *)
(* a plan is stored once, is part of it.                                      *)

Stored ==
  /\ rows \in [Jobs -> SUBSET Stops] /\ finished \in [Jobs -> SUBSET Stops]
  /\ \A j \in Jobs : run[j] = "new" => rows[j] = {}
  /\ \A j \in Jobs : run[j] \in {"routes", "forgotten", "ready"} => routed[j] = plan[j]
  /\ \A c \in Completers :
       /\ cpc[c] # "idle" => cstop[c] \in Stops
       /\ cpc[c] \in {"write", "forget", "forget_legacy"} => crow[c] \in Jobs

Typed == ViewsTypeOK /\ Stored

\* Nothing is planned, stored or read at first.
LEMMA InitTyped == Init => Typed
BY DEF Init, Typed, ViewsTypeOK, Stored, Values, Nothing

\* The run of a job stores its plan and then its routes, once.
LEMMA RunKeepsTyped == ASSUME Typed, NEW j \in Jobs, Store(j) PROVE Typed'
<1> USE DEF Typed, ViewsTypeOK, Stored, requestVars, viewVars, Advance
<1>1. CASE StoreRows(j)
  <2>1. PICK served \in SUBSET tasks, by \in [Tasks -> Fieldmen] :
          plan' = [plan EXCEPT ![j] = {<<by[t], t>> : t \in served}]
    BY <1>1 DEF StoreRows
  <2>2. plan'[j] \in SUBSET Stops /\ \A s \in plan'[j] : s[2] \in tasks
    BY <2>1
  <2>3. plan' = [plan EXCEPT ![j] = plan'[j]] /\ finished[j] = {}
    BY <1>1, <2>1 DEF StoreRows
  <2> QED BY <1>1, <2>2, <2>3 DEF StoreRows
<1>2. CASE StoreRoutes(j)
  BY <1>2 DEF StoreRoutes
<1>3. CASE InvalidateJob(j)
  BY <1>3 DEF InvalidateJob
<1>4. CASE MarkReady(j)
  BY <1>4 DEF MarkReady
<1> QED BY <1>1, <1>2, <1>3, <1>4 DEF Store

\* A deleted task takes its rows along, pending or completed.
LEMMA DeleteKeepsTyped == ASSUME Typed, NEW t \in Tasks, DeleteTask(t) PROVE Typed'
BY DEF Typed, ViewsTypeOK, Stored, requestVars, viewVars, DeleteTask

\* A completion marks rows that are there.
LEMMA CompletionKeepsTyped ==
  ASSUME Typed, NEW c \in Completers,
         \/ \E s \in Stops : Begin(c, s)
         \/ Look(c) \/ CompleteTask(c) \/ Forget(c) \/ ForgetLegacy(c)
  PROVE  Typed'
<1> USE DEF Typed, ViewsTypeOK, Stored, dbVars, viewVars, GoTo, Answer
<1>1. ASSUME NEW s \in Stops, Begin(c, s) PROVE Typed'
  BY <1>1 DEF Begin
<1>2. CASE NotAssigned(c)
  BY <1>2 DEF NotAssigned
<1>3. CASE AlreadyCompleted(c)
  BY <1>3 DEF AlreadyCompleted
<1>4. CASE LookAtRow(c)
  BY <1>4 DEF LookAtRow
<1>5. CASE CompleteTask(c)
  BY <1>5 DEF CompleteTask
<1>6. CASE Forget(c)
  BY <1>6 DEF Forget, ForgetPreview
<1>7. CASE ForgetLegacy(c)
  BY <1>7 DEF ForgetLegacy, ForgetPreview
<1> QED BY <1>1, <1>2, <1>3, <1>4, <1>5, <1>6, <1>7 DEF Look

\* What a reader makes of the rows is a value of its view.
LEMMA ValueIsTyped == ASSUME Typed, NEW read \in Values PROVE Value(read) \in Values
<1> USE DEF Typed, ViewsTypeOK, Stored, Values
<1>1. Preview(read, rows[Seen]) \in Values
  BY DEF Preview
<1>2. LegacyPreview(read, rows[Seen]) \in Values
  BY DEF LegacyPreview
<1>3. Metrics(read) \in Values /\ Assignments(read) \in Values
  BY DEF Metrics, Assignments
<1>4. AllAssignments(read) \in Values
  <2>1. UNION {rows[j] : j \in Jobs} \in SUBSET Stops
    OBVIOUS
  <2> QED BY <2>1 DEF AllAssignments
<1>5. view \in Views
  OBVIOUS
<1> HIDE DEF Values, Typed, ViewsTypeOK, Stored
<1> QED BY <1>1, <1>2, <1>3, <1>4, <1>5 DEF Value

\* A value with another field of its domain is a value.
LEMMA ValueFields ==
  ASSUME NEW read \in Values
  PROVE  /\ \A b \in BOOLEAN : [read EXCEPT !.ready = b] \in Values
         /\ \A R \in SUBSET Stops : [read EXCEPT !.routes = R] \in Values
BY DEF Values

\* A reader keeps what it has read in its domain, and so is the entry it makes.
LEMMA ReaderKeepsTyped ==
  ASSUME Typed, (\E v \in Viewers : Miss(v) \/ Read(v)) \/ Expire PROVE Typed'
<1> USE DEF Typed, ViewsTypeOK, Stored, dbVars, requestVars, Turn, Keep
<1>1. ASSUME NEW v \in Viewers, Miss(v) PROVE Typed'
  BY <1>1 DEF Miss
<1>2. ASSUME NEW v \in Viewers, ReadStatus(v) PROVE Typed'
  <2>1. [vread[v] EXCEPT !.ready = (run[Seen] = "ready")] \in Values
    <3>1. \A b \in BOOLEAN : [vread[v] EXCEPT !.ready = b] \in Values
      BY ValueFields
    <3>2. (run[Seen] = "ready") \in BOOLEAN
      OBVIOUS
    <3> QED BY <3>1, <3>2
  <2> QED BY <1>2, <2>1 DEF ReadStatus
<1>3. ASSUME NEW v \in Viewers, ReadRoutes(v) PROVE Typed'
  <2>1. [vread[v] EXCEPT !.routes = routed[Seen]] \in Values
    BY ValueFields
  <2> QED BY <1>3, <2>1 DEF ReadRoutes
<1>4. ASSUME NEW v \in Viewers, ReadRows(v) PROVE Typed'
  BY <1>4, ValueIsTyped DEF ReadRows
<1>5. ASSUME NEW v \in Viewers, SetEntry(v) PROVE Typed'
  <2>1. Nothing \in Values
    BY DEF Nothing, Values
  <2> QED BY <1>5, <2>1 DEF SetEntry
<1>6. CASE Expire
  BY <1>6 DEF Expire
<1> QED BY <1>1, <1>2, <1>3, <1>4, <1>5, <1>6 DEF Read

\* Typed is inductive.
LEMMA NextKeepsTyped == Typed /\ [Next]_vars => Typed'
<1>1. Typed /\ UNCHANGED vars => Typed'
  BY DEF vars, dbVars, requestVars, viewVars, Typed, ViewsTypeOK, Stored
<1> QED BY <1>1, RunKeepsTyped, DeleteKeepsTyped, CompletionKeepsTyped, ReaderKeepsTyped DEF Next

\* Rows, requests, readers and the entry stay in their domains: a row belongs to
\* the plan of its job and to a task that exists, and a completed one is a row,
\* whoever deletes it between a completion's look and its UPDATE.
\* (vrp_service.py 1184-1240, vrp_repository.py 331-350)
THEOREM ViewsTypeCorrect == Spec => []ViewsTypeOK
<1>1. Typed => ViewsTypeOK
  BY DEF Typed
<1> QED BY <1>1, InitTyped, NextKeepsTyped, PTL DEF Spec
-----------------------------------------------------------------------------
(* Previews: one that says ready was begun when the plan was stored, and the *)
(* job has only lost rows since.                                             *)

Complete(read) == read.ready => run[Seen] = "ready" /\ rows[Seen] \subseteq read.stops

ViewsComplete ==
  view \in {"preview", "legacy"} =>
    /\ entry # None => Complete(entry) /\ (view = "legacy" => entry.ready)
    /\ \A v \in Viewers :
         /\ vpc[v] \in {"routes", "rows"} /\ vread[v].ready => run[Seen] = "ready"
         /\ vpc[v] = "rows" /\ vread[v].ready => rows[Seen] \subseteq vread[v].routes
         /\ vpc[v] = "set" => Complete(vread[v])

\* A ready job stays ready and gets no new row.
LEMMA ReadyLosesRowsOnly ==
  ASSUME Typed, [Next]_vars, run[Seen] = "ready"
  PROVE  run'[Seen] = "ready" /\ rows'[Seen] \subseteq rows[Seen]
<1> USE DEF dbVars, requestVars, viewVars
<1>1. ASSUME NEW j \in Jobs, Store(j)
      PROVE  run'[Seen] = "ready" /\ rows'[Seen] \subseteq rows[Seen]
  BY <1>1 DEF Store, StoreRows, StoreRoutes, InvalidateJob, MarkReady, Advance,
              Typed, Stored, ViewsTypeOK
<1>2. ASSUME NEW t \in Tasks, DeleteTask(t)
      PROVE  run'[Seen] = "ready" /\ rows'[Seen] \subseteq rows[Seen]
  BY <1>2 DEF DeleteTask
<1>3. CASE UNCHANGED <<run, rows>>
  BY <1>3
<1>4. ASSUME NEW c \in Completers,
             \/ \E s \in Stops : Begin(c, s)
             \/ Look(c) \/ CompleteTask(c) \/ Forget(c) \/ ForgetLegacy(c)
      PROVE  UNCHANGED <<run, rows>>
  BY <1>4 DEF Begin, Look, NotAssigned, AlreadyCompleted, LookAtRow, CompleteTask,
              Forget, ForgetLegacy, ForgetPreview
<1>5. ASSUME NEW v \in Viewers, Miss(v) \/ Read(v) PROVE UNCHANGED <<run, rows>>
  BY <1>5 DEF Miss, Read, ReadStatus, ReadRoutes, ReadRows, SetEntry, Keep
<1>6. CASE Expire \/ UNCHANGED vars
  BY <1>3, <1>6 DEF Expire, Keep, vars
<1> QED BY <1>1, <1>2, <1>3, <1>4, <1>5, <1>6 DEF Next

\* Whoever writes no preview leaves those that are there complete.
LEMMA OthersKeepComplete ==
  ASSUME Typed, ViewsComplete, [Next]_vars, UNCHANGED <<view, vpc, vread>>,
         entry' \in {entry, None}
  PROVE  ViewsComplete'
BY ReadyLosesRowsOnly DEF ViewsComplete, Complete

\* Live rows and routes that hold every row of the job make a complete preview,
\* with the fallback on the snapshots or without it.
LEMMA PreviewsAreComplete ==
  ASSUME NEW read \in Values, view \in {"preview", "legacy"}
  PROVE  /\ Value(read).ready = read.ready
         /\ rows[Seen] \subseteq read.routes => rows[Seen] \subseteq Value(read).stops
<1>1. /\ Preview(read, rows[Seen]).ready = read.ready
      /\ rows[Seen] \subseteq read.routes =>
           rows[Seen] \subseteq Preview(read, rows[Seen]).stops
  BY DEF Preview, Values
<1>2. /\ LegacyPreview(read, rows[Seen]).ready = read.ready
      /\ rows[Seen] \subseteq read.routes =>
           rows[Seen] \subseteq LegacyPreview(read, rows[Seen]).stops
  BY DEF LegacyPreview, Values
<1> QED BY <1>1, <1>2 DEF Value

\* A preview is begun with the status, and so misses no row.
LEMMA ReaderKeepsComplete ==
  ASSUME Typed, ViewsComplete, NEW v \in Viewers, Read(v), view \in {"preview", "legacy"}
  PROVE  ViewsComplete'
<1>0. /\ vpc \in [Viewers -> {"idle", "status", "routes", "rows", "set"}]
      /\ vread \in [Viewers -> Values]
      /\ run[Seen] = "ready" => routed[Seen] = plan[Seen] /\ rows[Seen] \subseteq plan[Seen]
  BY DEF Typed, ViewsTypeOK, Stored
<1>1. UNCHANGED <<view, run, rows>>
  BY DEF Read, ReadStatus, ReadRoutes, ReadRows, SetEntry, Keep, dbVars
<1> USE <1>0, <1>1 DEF Turn, ViewsComplete, Complete
<1>2. CASE ReadStatus(v)
  <2>1. vread'[v].ready => run[Seen] = "ready"
    BY <1>2 DEF ReadStatus, Values
  <2> QED BY <1>2, <2>1 DEF ReadStatus
<1>3. CASE ReadRoutes(v)
  <2>1. vread'[v].ready = vread[v].ready /\ vread'[v].routes = routed[Seen]
    BY <1>3 DEF ReadRoutes, Values
  <2> QED BY <1>3, <2>1 DEF ReadRoutes
<1>4. CASE ReadRows(v)
  <2>1. vread'[v].ready = vread[v].ready
        /\ (vread[v].ready => rows[Seen] \subseteq vread'[v].stops)
    <3>1. vread'[v] = Value(vread[v])
      BY <1>4 DEF ReadRows
    <3> QED BY <1>4, <3>1, PreviewsAreComplete DEF ReadRows
  <2> QED BY <1>4, <2>1 DEF ReadRows
<1>5. CASE SetEntry(v)
  BY <1>5 DEF SetEntry, Cacheable
<1> QED BY <1>2, <1>3, <1>4, <1>5 DEF Read

\* ViewsComplete is inductive.
LEMMA NextKeepsComplete == Typed /\ ViewsComplete /\ [Next]_vars => ViewsComplete'
<1> SUFFICES ASSUME Typed, ViewsComplete, [Next]_vars PROVE ViewsComplete'
  OBVIOUS
<1>1. UNCHANGED view
  BY DEF Next, Store, StoreRows, StoreRoutes, InvalidateJob, MarkReady, DeleteTask, Begin, Look,
         NotAssigned, AlreadyCompleted, LookAtRow, CompleteTask, Forget, ForgetLegacy,
         ForgetPreview, Miss, Read, ReadStatus, ReadRoutes, ReadRows, SetEntry, Expire, Keep,
         vars, viewVars
<1>2. CASE view \notin {"preview", "legacy"}
  BY <1>1, <1>2 DEF ViewsComplete
<1>3. ASSUME NEW v \in Viewers, Miss(v), view \in {"preview", "legacy"} PROVE ViewsComplete'
  BY <1>3 DEF Typed, ViewsTypeOK, Miss, Turn, Keep, dbVars, ViewsComplete, Complete
<1>4. ASSUME UNCHANGED <<vpc, vread>>, entry' \in {entry, None} PROVE ViewsComplete'
  BY <1>1, <1>4, OthersKeepComplete
<1>5. ASSUME NEW j \in Jobs, Store(j) PROVE ViewsComplete'
  BY <1>4, <1>5 DEF Store, StoreRows, StoreRoutes, InvalidateJob, MarkReady, viewVars
<1>6. ASSUME NEW t \in Tasks, DeleteTask(t) PROVE ViewsComplete'
  BY <1>4, <1>6 DEF DeleteTask, viewVars
<1>7. ASSUME NEW c \in Completers,
             \/ \E s \in Stops : Begin(c, s)
             \/ Look(c) \/ CompleteTask(c) \/ Forget(c) \/ ForgetLegacy(c)
      PROVE  ViewsComplete'
  BY <1>4, <1>7 DEF Begin, Look, NotAssigned, AlreadyCompleted, LookAtRow, CompleteTask,
                    Forget, ForgetLegacy, ForgetPreview, viewVars
<1>8. CASE Expire \/ UNCHANGED vars
  BY <1>4, <1>8 DEF Expire, vars, viewVars
<1> QED BY <1>2, <1>3, <1>5, <1>6, <1>7, <1>8, ReaderKeepsComplete DEF Next

\* Neither preview, once it says ready, lacks a stop that the job has, and the
\* unversioned API caches ready ones only.
\* (vrp_service.py 446-541, api/vrp_routes.py 649-764)
THEOREM ReadyViewsAreComplete == Spec => []ReadyViewIsComplete
<1>1. Init => ViewsComplete
  BY DEF Init, ViewsComplete
<1>2. ViewsComplete => ReadyViewIsComplete
  BY DEF ViewsComplete, Complete, ReadyViewIsComplete
<1> QED BY <1>1, <1>2, InitTyped, NextKeepsTyped, NextKeepsComplete, PTL DEF Spec
=============================================================================
