-------------------------- MODULE JobCache_proofs ---------------------------
(***************************************************************************)
(* Proofs about the cached previews of JobCache, for any numbers of jobs,  *)
(* workers, requests and readers.                                          *)
(***************************************************************************)
EXTENDS JobCache, JobSystem_proofs

USE DEF RowStatus, Pairs, Rows, Exists, EnqueueSteps, DeleteSteps, TrySteps, BeforeRows

-----------------------------------------------------------------------------
(* A settled job: no run will write its rows any more, and they agree. *)

Settled(j) ==
  /\ message[j] = "taken"
  /\ \A w \in Workers : wjob[w] = j => wpc[w] \notin WritingSteps
  /\ Joined(assigned[j]) = Joined(routed[j])

\* What a step may do to a settled job that nobody deletes.
Settles(j) == Settled(j)' /\ Joined(routed[j])' \subseteq Joined(routed[j])

\* A "ready" job that nobody deletes is settled.
LEMMA ReadyIsSettled ==
  ASSUME IInv, NEW j \in Jobs \ purging, status[j] = "ready" PROVE Settled(j)
BY DEF IInv, Protocol, TypeOK, StoreTypeOK, WorkerTypeOK, VerdictInOrder, RowsAgree, Settled

\* The workers leave the rows of a settled job alone.
LEMMA WorkerSettles ==
  ASSUME IInv, UNCHANGED apiVars, NEW j \in Jobs \ purging', Settled(j), NEW w \in Workers,
         (\E k \in Jobs : Take(w, k)) \/ Advance(w) \/ Crash(w)
  PROVE  Settles(j)
<1>0. /\ wjob[w] \in Jobs \cup {None} /\ wpc[w] \in WorkerPc
      /\ wpc[w] = "idle" <=> wjob[w] = None
      /\ message \in [Jobs -> {"unsent", "queued", "taken"}]
      /\ assigned \in [Jobs -> SUBSET Rows] /\ routed \in [Jobs -> SUBSET Pairs]
      /\ wjob \in [Workers -> Jobs \cup {None}] /\ wpc \in [Workers -> WorkerPc]
  BY DEF IInv, Protocol, TypeOK, StoreTypeOK, WorkerTypeOK, Placed
<1> USE <1>0, NoneIsNoId
    DEF Settled, Settles, WritingSteps, storeVars, dbVars, queueVars, KeepLocals,
        Unstored, Step, Finish, UpdateStatus, Lose, Joined
<1>1. CASE \E k \in Jobs : Take(w, k) BY <1>1 DEF Take, ReceiveTask
<1>2. CASE Connect(w) BY <1>2 DEF Connect
<1>3. CASE ConnectFails(w) BY <1>3 DEF ConnectFails
<1>4. CASE MarkStarted(w) BY <1>4 DEF MarkStarted
<1>5. CASE SayStarted(w) BY <1>5 DEF SayStarted
<1>6. CASE LoadPayload(w) BY <1>6 DEF LoadPayload
<1>7. CASE LoadTasks(w) BY <1>7 DEF LoadTasks
<1>8. CASE LoadFieldmen(w) BY <1>8 DEF LoadFieldmen
<1>9. CASE Refuse(w) BY <1>9 DEF Refuse
<1>10. CASE MarkRejected(w) BY <1>10 DEF MarkRejected
<1>11. CASE SayRejected(w) BY <1>11 DEF SayRejected
<1>12. CASE MakePlan(w) BY <1>12 DEF MakePlan
<1>13. CASE ClearOldAssignments(w) BY <1>13 DEF ClearOldAssignments, ClearAssignments
<1>14. CASE StoreAssignments(w) BY <1>14 DEF StoreAssignments, InsertAssignments
<1>15. CASE ClearOldRoutes(w) BY <1>15 DEF ClearOldRoutes, ClearRoutes
<1>16. CASE StoreRoutes(w) BY <1>16 DEF StoreRoutes, InsertRoutes
<1>17. CASE InvalidateJob(w) BY <1>17 DEF InvalidateJob
<1>18. CASE MarkReady(w) BY <1>18 DEF MarkReady
<1>19. CASE SayReady(w) BY <1>19 DEF SayReady
<1>20. CASE Raise(w) BY <1>20 DEF Raise
<1>21. CASE MarkFailed(w) BY <1>21 DEF MarkFailed
<1>22. CASE SayFailed(w) BY <1>22 DEF SayFailed
<1>23. CASE Crash(w) BY <1>23 DEF Crash
<1> QED BY <1>1, <1>2, <1>3, <1>4, <1>5, <1>6, <1>7, <1>8, <1>9, <1>10, <1>11, <1>12,
           <1>13, <1>14, <1>15, <1>16, <1>17, <1>18, <1>19, <1>20, <1>21, <1>22, <1>23
        DEF Advance

\* The requests only take from both tables what they take from either.
LEMMA ApiSettles ==
  ASSUME IInv, ApiNext, UNCHANGED workerVars, NEW j \in Jobs \ purging', Settled(j)
  PROVE  Settles(j)
<1>0. TypeOK /\ OneSender /\ DeletersNamed
  BY DEF IInv, Protocol
<1> USE <1>0 DEF TypeOK, StoreTypeOK, ApiTypeOK, OneSender, DeletersNamed,
        Settled, Settles, storeVars, dbVars, queueVars, workerVars, apiVars, Begin, Go, Joined
<1>1. ASSUME NEW r \in Requests, NEW k \in Jobs, CreateJob(r, k) PROVE Settles(j)
  BY <1>1 DEF CreateJob, InsertJob
<1>2. ASSUME NEW r \in Requests, NEW k \in Jobs, Finalize(r, k) PROVE Settles(j)
  BY <1>2 DEF Finalize, FinalizeRow
<1>3. ASSUME NEW r \in Requests, NEW k \in Jobs, DeleteJob(r, k) PROVE Settles(j)
  BY <1>3 DEF DeleteJob, ClearAssignments
<1>4. ASSUME NEW r \in Requests, Reset(r) PROVE Settles(j)
  BY <1>4 DEF Reset, DropRouteFk
<1>5. ASSUME NEW r \in Requests, Enqueue(r) PROVE Settles(j)
  BY <1>5 DEF Enqueue, SendTask
<1>6. ASSUME NEW r \in Requests, Audit(r) PROVE Settles(j)
  BY <1>6 DEF Audit
<1>7. ASSUME NEW r \in Requests, DeleteRoutes(r) PROVE Settles(j)
  BY <1>7 DEF DeleteRoutes, ClearRoutes
<1>8. ASSUME NEW r \in Requests, DeleteRow(r) PROVE Settles(j)
  BY <1>8 DEF DeleteRow, DeleteJobRow
<1>9. ASSUME NEW r \in Requests, Truncate(r) PROVE Settles(j)
  BY <1>9 DEF Truncate, TruncateReference
<1>10. ASSUME NEW r \in Requests, Forget(r) PROVE Settles(j)
  BY <1>10 DEF Forget
<1>11. ASSUME NEW r \in Requests, Abort(r) PROVE Settles(j)
  BY <1>11 DEF Abort, Lose
<1>12. ASSUME NEW t \in Tasks, DeleteTask(t), UNCHANGED <<queueVars, apiVars>>
       PROVE  Settles(j)
  <2>1. UNCHANGED <<message, wjob, wpc>>
    BY <1>12
  <2> QED BY <1>12, <2>1, DeleteTaskJoined DEF Settled, Settles
<1>13. ASSUME NEW f \in Fieldmen, DeleteFieldman(f), UNCHANGED <<queueVars, apiVars>>
       PROVE  Settles(j)
  <2>1. UNCHANGED <<message, wjob, wpc>>
    BY <1>13
  <2> QED BY <1>13, <2>1, DeleteFieldmanJoined DEF Settled, Settles
<1>14. ASSUME NEW r \in Requests, DropFk(r) PROVE Settles(j)
  BY <1>14 DEF DropFk, DropRouteFk
<1> QED BY <1>1, <1>2, <1>3, <1>4, <1>5, <1>6, <1>7, <1>8, <1>9, <1>10, <1>11, <1>12, <1>13,
           <1>14 DEF ApiNext, Continue, PickerDelete

\* A settled job stays so until it is deleted, and shows no new stop.
LEMMA StaysSettled ==
  ASSUME IInv, [Next]_vars, NEW j \in Jobs \ purging', Settled(j) PROVE Settles(j)
<1>1. CASE UNCHANGED vars
  BY <1>1 DEF vars, storeVars, dbVars, queueVars, workerVars, Settles, Settled, Joined
<1> QED BY <1>1, WorkerSettles, ApiSettles DEF Next, WorkerNext

\* A job that a DELETE request has named is not forgotten.
LEMMA PurgingGrows == [Next]_vars => purging \subseteq purging'
BY DEF Next, vars, apiVars, ApiNext, CreateJob, Finalize, DeleteJob, Reset, Continue, Enqueue,
       Audit, DeleteRoutes, DeleteRow, Truncate, DropFk, Forget, Abort, PickerDelete

-----------------------------------------------------------------------------
(* The readers of previews *)

\* A busy reader has a job, and the status that it read.
ReadersPlaced ==
  \A p \in PreviewReaders :
    /\ ppc[p] # "idle" => pjob[p] \in Jobs
    /\ ppc[p] \in {"routes", "tasks", "set"} => pread[p] \in Previews

\* What an entry, or a reader that has read the routes, shows of job j is all of
\* it, if it shows it ready: the job was settled, so nothing was added since.
Shows(j, view) ==
  view.status = "ready" => Settled(j) /\ Joined(routed[j]) \subseteq view.stops

Shown ==
  /\ \A j \in Jobs \ purging : previewCache[j] # None => Shows(j, previewCache[j])
  /\ \A p \in PreviewReaders : pjob[p] \notin purging =>
       /\ ppc[p] = "routes" /\ pread[p].status = "ready" => Settled(pjob[p])
       /\ ppc[p] \in {"tasks", "set"} => Shows(pjob[p], pread[p])

CacheInv == IInv /\ CacheTypeOK /\ ReadersPlaced /\ Shown

\* A step of the job system drops entries at most: those that stay still show
\* everything, for a settled job loses rows only.
LEMMA SystemKeepsShown ==
  ASSUME IInv, CacheTypeOK, ReadersPlaced, Shown, [Next]_vars,
         UNCHANGED <<ppc, pjob, pread>>,
         \A j \in Jobs : previewCache'[j] \in {None, previewCache[j]}
  PROVE  Shown'
<1>1. purging \subseteq purging'
  BY PurgingGrows
<1>2. ASSUME NEW j \in Jobs \ purging', NEW view, Shows(j, view) PROVE Shows(j, view)'
  BY <1>2, StaysSettled DEF Shows, Settles
<1>3. ASSUME NEW j \in Jobs \ purging', Settled(j) PROVE Settled(j)'
  BY <1>3, StaysSettled DEF Settles
<1>4. ASSUME NEW j \in Jobs \ purging', previewCache'[j] # None
      PROVE  Shows(j, previewCache[j])'
  BY <1>1, <1>2, <1>4 DEF Shown
<1>5. ASSUME NEW p \in PreviewReaders, pjob[p] \notin purging'
      PROVE  /\ ppc[p] = "routes" /\ pread[p].status = "ready" => Settled(pjob[p])'
             /\ ppc[p] \in {"tasks", "set"} => Shows(pjob[p], pread[p])'
  BY <1>1, <1>2, <1>3, <1>5 DEF Shown, ReadersPlaced
<1> QED BY <1>4, <1>5 DEF Shown

\* The stops that a reader makes of the routes it read and of the rows it reads
\* now are all that the job has, if the job is settled.
LEMMA StopsAreComplete ==
  ASSUME NEW j \in Jobs, Settled(j), NEW S, Joined(routed[j]) \subseteq S
  PROVE  Joined(routed[j]) \subseteq Stops(S, LiveRows(j))
BY DEF Settled, Joined, Stops, LiveRows

\* A reader's step reads more, or makes an entry of what it read.
LEMMA ReaderKeepsShown ==
  ASSUME IInv, CacheTypeOK, ReadersPlaced, Shown, PreviewNext, UNCHANGED vars
  PROVE  Shown'
<1>1. /\ UNCHANGED purging /\ \A j \in Jobs : Settled(j)' <=> Settled(j)
      /\ \A j \in Jobs : Joined(routed[j])' = Joined(routed[j])
  BY DEF vars, storeVars, dbVars, queueVars, workerVars, apiVars, Settled, Joined
<1>2. \A j \in Jobs : \A view : Shows(j, view)' <=> Shows(j, view)
  BY <1>1 DEF Shows
<1> USE DEF CacheTypeOK, ReadersPlaced, Shown
<1>3. ASSUME NEW p \in PreviewReaders, NEW j \in Jobs, MissPreview(p, j) PROVE Shown'
  BY <1>1, <1>2, <1>3 DEF MissPreview
<1>4. ASSUME NEW p \in PreviewReaders, ReadPreviewStatus(p) PROVE Shown'
  <2>1. pjob[p] \in Jobs
    BY <1>4 DEF ReadPreviewStatus
  <2>2. pjob[p] \notin purging /\ status[pjob[p]] = "ready" => Settled(pjob[p])
    BY <2>1, ReadyIsSettled
  <2>3. /\ UNCHANGED previewCache
        /\ \A q \in PreviewReaders \ {p} : UNCHANGED <<ppc[q], pjob[q], pread[q]>>
    BY <1>4 DEF ReadPreviewStatus, EndPreview
  <2>4. \/ ppc'[p] = "routes" /\ pjob'[p] = pjob[p] /\ pread'[p].status = status[pjob[p]]
        \/ ppc'[p] = "idle"
    BY <1>4 DEF ReadPreviewStatus, EndPreview, Previews, Unread
  <2>5. \A q \in PreviewReaders \ {p} : pjob'[q] \notin purging' =>
          /\ ppc'[q] = "routes" /\ pread'[q].status = "ready" => Settled(pjob[q])'
          /\ ppc'[q] \in {"tasks", "set"} => Shows(pjob[q], pread[q])'
    BY <1>1, <1>2, <2>3
  <2>6. pjob'[p] \notin purging' =>
          /\ ppc'[p] = "routes" /\ pread'[p].status = "ready" => Settled(pjob[p])'
          /\ ppc'[p] \notin {"tasks", "set"}
    BY <1>1, <2>1, <2>2, <2>4
  <2> QED BY <1>1, <1>2, <2>3, <2>5, <2>6
<1>5. ASSUME NEW p \in PreviewReaders, ReadRoutes(p) PROVE Shown'
  <2>1. pjob[p] \in Jobs
    BY <1>5 DEF ReadRoutes
  <2>2. pjob[p] \notin purging => Shows(pjob[p], [pread[p] EXCEPT !.stops = routed[pjob[p]]])
    BY <1>5, <2>1 DEF ReadRoutes, Shows, Joined, Previews
  <2> QED BY <1>1, <1>2, <1>5, <2>1, <2>2 DEF ReadRoutes
<1>6. ASSUME NEW p \in PreviewReaders, ReadTasks(p) PROVE Shown'
  <2>1. pjob[p] \in Jobs
    BY <1>6 DEF ReadTasks
  <2>2. pjob[p] \notin purging =>
          Shows(pjob[p], [pread[p] EXCEPT !.stops = Stops(@, LiveRows(pjob[p]))])
    BY <1>6, <2>1, StopsAreComplete DEF ReadTasks, Shows, Previews
  <2> QED BY <1>1, <1>2, <1>6, <2>1, <2>2 DEF ReadTasks
<1>7. ASSUME NEW p \in PreviewReaders, SetPreview(p) PROVE Shown'
  BY <1>1, <1>2, <1>7 DEF SetPreview, EndPreview
<1>8. ASSUME NEW j \in Jobs, ExpirePreview(j) PROVE Shown'
  BY <1>1, <1>2, <1>8 DEF ExpirePreview
<1> QED BY <1>3, <1>4, <1>5, <1>6, <1>7, <1>8 DEF PreviewNext, FinishPreview

\* Stops only gathers stops it was given.
LEMMA StopsAreStops ==
  ASSUME TypeOK, NEW j \in Jobs, NEW S \in SUBSET Pairs
  PROVE  Stops(S, LiveRows(j)) \subseteq Pairs
BY DEF TypeOK, StoreTypeOK, Stops, LiveRows

\* A reader's step keeps the domains, and never makes an entry of a view it has
\* not read a status into.
LEMMA ReaderKeepsTyped ==
  ASSUME TypeOK, CacheTypeOK, ReadersPlaced, PreviewNext, UNCHANGED <<vars, statusVars>>
  PROVE  (CacheTypeOK /\ ReadersPlaced)'
<1> USE DEF CacheTypeOK, ReadersPlaced, statusVars
<1>0. ASSUME NEW p \in PreviewReaders, ppc[p] # "idle" PROVE pjob[p] \in Jobs
  BY <1>0
<1>1. ASSUME NEW p \in PreviewReaders, NEW j \in Jobs, MissPreview(p, j)
      PROVE  (CacheTypeOK /\ ReadersPlaced)'
  BY <1>1 DEF MissPreview
<1>2. ASSUME NEW p \in PreviewReaders, NEW to \in {"routes", "tasks", "set"},
             NEW view \in Previews, pjob[p] \in Jobs,
             ppc' = [ppc EXCEPT ![p] = to], pread' = [pread EXCEPT ![p] = view],
             UNCHANGED <<previewCache, pjob>>
      PROVE  (CacheTypeOK /\ ReadersPlaced)'
  BY <1>2
<1>3. ASSUME NEW p \in PreviewReaders, EndPreview(p), UNCHANGED previewCache
      PROVE  (CacheTypeOK /\ ReadersPlaced)'
  BY <1>3 DEF EndPreview
<1>4. ASSUME NEW p \in PreviewReaders, ReadPreviewStatus(p)
      PROVE  (CacheTypeOK /\ ReadersPlaced)'
  <2>1. CASE Exists(pjob[p])
    <3>1. [pread[p] EXCEPT !.status = status[pjob[p]]] \in Previews
      BY <2>1 DEF Previews, Unread
    <3> QED BY <1>2, <1>4, <2>1, <3>1 DEF ReadPreviewStatus
  <2> QED BY <1>3, <1>4, <2>1 DEF ReadPreviewStatus
<1>5. ASSUME NEW p \in PreviewReaders, ReadRoutes(p)
      PROVE  (CacheTypeOK /\ ReadersPlaced)'
  <2>1. [pread[p] EXCEPT !.stops = routed[pjob[p]]] \in Previews
    BY <1>5 DEF ReadRoutes, TypeOK, StoreTypeOK, Previews
  <2> QED BY <1>2, <1>5, <2>1 DEF ReadRoutes
<1>6. ASSUME NEW p \in PreviewReaders, ReadTasks(p)
      PROVE  (CacheTypeOK /\ ReadersPlaced)'
  <2>1. [pread[p] EXCEPT !.stops = Stops(@, LiveRows(pjob[p]))] \in Previews
    BY <1>6, StopsAreStops DEF ReadTasks, Previews
  <2> QED BY <1>2, <1>6, <2>1 DEF ReadTasks
<1>7. ASSUME NEW p \in PreviewReaders, SetPreview(p)
      PROVE  (CacheTypeOK /\ ReadersPlaced)'
  BY <1>7 DEF SetPreview, EndPreview
<1>8. ASSUME NEW j \in Jobs, ExpirePreview(j) PROVE (CacheTypeOK /\ ReadersPlaced)'
  BY <1>8 DEF ExpirePreview
<1> QED BY <1>1, <1>4, <1>5, <1>6, <1>7, <1>8 DEF PreviewNext, FinishPreview

\* Nothing is cached at first, and nobody reads.
LEMMA InitCacheInv == Init /\ CacheInit => CacheInv
BY InitIInv DEF CacheInit, CacheInv, CacheTypeOK, ReadersPlaced, Shown

\* CacheInv is inductive.
LEMMA NextKeepsCacheInv == CacheInv /\ [PreviewSystemNext]_allVars => CacheInv'
<1> SUFFICES ASSUME CacheInv, [PreviewSystemNext]_allVars PROVE CacheInv'
  OBVIOUS
<1> USE DEF CacheInv
<1>1. ASSUME [Next]_vars, NEW S, Drop(S) PROVE CacheInv'
  <2>1. \A j \in Jobs : /\ previewCache'[j] \in {None, previewCache[j]}
                        /\ statusCache'[j] \in {None, statusCache[j]}
    BY <1>1 DEF Drop, Without, CacheTypeOK
  <2>2. IInv' /\ Shown'
    BY <1>1, <2>1, NextKeepsIInv, SystemKeepsShown DEF Drop
  <2>3. (CacheTypeOK /\ ReadersPlaced)'
    BY <1>1, <2>1 DEF Drop, Without, CacheTypeOK, ReadersPlaced
  <2> QED BY <2>2, <2>3
<1>2. CASE Invalidate
  BY <1>1, <1>2
     DEF Invalidate, Next, WorkerNext, Advance, ApiNext, Continue
<1>3. ASSUME [Next]_vars, UNCHANGED cacheVars PROVE CacheInv'
  <2>1. UNCHANGED <<statusVars, ppc, pjob, pread, previewCache>>
    BY <1>3 DEF cacheVars, previewVars
  <2>2. IInv' /\ Shown'
    BY <1>3, <2>1, NextKeepsIInv, SystemKeepsShown
  <2>3. (CacheTypeOK /\ ReadersPlaced)'
    BY <2>1 DEF statusVars, CacheTypeOK, ReadersPlaced
  <2> QED BY <2>2, <2>3
<1>4. CASE PreviewNext /\ UNCHANGED <<vars, statusVars>>
  <2>1. TypeOK
    BY DEF IInv, Protocol
  <2> QED BY <1>4, <2>1, NextKeepsIInv, ReaderKeepsShown, ReaderKeepsTyped
<1> QED BY <1>2, <1>3, <1>4 DEF PreviewSystemNext, allVars

\* CacheInv holds in every reachable state.
LEMMA CacheInvHolds == PreviewSpec => []CacheInv
BY InitCacheInv, NextKeepsCacheInv, PTL DEF PreviewSpec

\* Entries and readers keep their domains: an entry never shows the status of a
\* job without a row.  (vrp_service.py 446-541)
THEOREM CacheTypeCorrect == PreviewSpec => []CacheTypeOK
<1>1. CacheInv => CacheTypeOK
  BY DEF CacheInv
<1> QED BY <1>1, CacheInvHolds, PTL

\* A preview that says "ready" shows every stop the job still has, whoever made
\* it and whenever.  (vrp_service.py 446-541, vrp_tasks.py 670-682)
THEOREM ReadyPreviewsAreComplete == PreviewSpec => []ReadyPreviewIsComplete
<1>1. CacheInv => ReadyPreviewIsComplete
  BY DEF CacheInv, Shown, Shows, ReadyPreviewIsComplete
<1> QED BY <1>1, CacheInvHolds, PTL
=============================================================================
