-------------------------- MODULE JobEvents_proofs --------------------------
(***************************************************************************)
(* Proof that a client which hears an outcome of a job finds it decided,   *)
(* for any numbers of jobs, workers, requests and clients.                 *)
(***************************************************************************)
EXTENDS JobEvents, JobSystem_proofs

USE DEF RowStatus, Exists, EnqueueSteps, DeleteSteps, TrySteps, BeforeRows

-----------------------------------------------------------------------------
(* A decided job, and why it stays decided: it has been taken from the broker *)
(* and its run is past the one step that writes "started".                    *)

Decided(j) ==
  /\ message[j] = "taken"
  /\ ~Undecided(j)
  /\ \A w \in Workers : wjob[w] = j => wpc[w] \notin {"connect", "start"}

\* The job that a run announces the outcome of is decided.
LEMMA AnnouncedIsDecided ==
  ASSUME Protocol, NEW w \in Workers, wpc[w] \in DoneSteps
  PROVE  wjob[w] \in Jobs /\ Decided(wjob[w])
BY DEF Protocol, TypeOK, WorkerTypeOK, Placed, OneRunner, VerdictInOrder, DoneSteps, Decided

\* No worker takes a decision back.
LEMMA WorkerKeepsDecided ==
  ASSUME Protocol, NEW j \in Jobs, Decided(j), NEW w \in Workers,
         (\E k \in Jobs : Take(w, k)) \/ Advance(w) \/ Crash(w)
  PROVE  Decided(j)'
<1>0. TypeOK /\ Placed
  BY DEF Protocol
<1> USE <1>0, NoneIsNoId DEF TypeOK, StoreTypeOK, WorkerTypeOK, Placed, Decided, Undecided,
        storeVars, dbVars, queueVars, KeepLocals, Unstored, Step, Finish, UpdateStatus, Lose
<1>1. CASE \E k \in Jobs : Take(w, k) BY <1>1 DEF Take, ReceiveTask
<1>2. CASE Connect(w) BY <1>2 DEF Connect
<1>3. CASE ConnectFails(w) BY <1>3 DEF ConnectFails
<1>4. CASE MarkStarted(w) BY <1>4 DEF MarkStarted
<1>5. CASE SayStarted(w) BY <1>5 DEF SayStarted
<1>6. CASE LoadPayload(w) BY <1>6 DEF LoadPayload
<1>7. CASE LoadTasks(w) BY <1>7 DEF LoadTasks
<1>8. CASE LoadFieldmen(w) BY <1>8 DEF LoadFieldmen
<1>9. CASE Refuse(w) BY <1>9 DEF Refuse
<1>10. CASE MarkRejected(w) BY <1>10 DEF MarkRejected
<1>11. CASE SayRejected(w) BY <1>11 DEF SayRejected
<1>12. CASE MakePlan(w) BY <1>12 DEF MakePlan
<1>13. CASE ClearOldAssignments(w) BY <1>13 DEF ClearOldAssignments, ClearAssignments
<1>14. CASE StoreAssignments(w) BY <1>14 DEF StoreAssignments, InsertAssignments
<1>15. CASE ClearOldRoutes(w) BY <1>15 DEF ClearOldRoutes, ClearRoutes
<1>16. CASE StoreRoutes(w) BY <1>16 DEF StoreRoutes, InsertRoutes
<1>17. CASE InvalidateJob(w) BY <1>17 DEF InvalidateJob
<1>18. CASE MarkReady(w) BY <1>18 DEF MarkReady
<1>19. CASE SayReady(w) BY <1>19 DEF SayReady
<1>20. CASE Raise(w) BY <1>20 DEF Raise
<1>21. CASE MarkFailed(w) BY <1>21 DEF MarkFailed
<1>22. CASE SayFailed(w) BY <1>22 DEF SayFailed
<1>23. CASE Crash(w) BY <1>23 DEF Crash
<1> QED BY <1>1, <1>2, <1>3, <1>4, <1>5, <1>6, <1>7, <1>8, <1>9, <1>10, <1>11, <1>12,
           <1>13, <1>14, <1>15, <1>16, <1>17, <1>18, <1>19, <1>20, <1>21, <1>22, <1>23
        DEF Advance

\* No request does: what it writes is "queued" for an id that is new,
\* "finalized", or nothing.
LEMMA ApiKeepsDecided ==
  ASSUME Protocol, NEW j \in Jobs, Decided(j), ApiNext, UNCHANGED workerVars
  PROVE  Decided(j)'
<1>0. TypeOK /\ OneSender /\ Fresh
  BY DEF Protocol
<1> USE <1>0 DEF TypeOK, StoreTypeOK, ApiTypeOK, OneSender, Fresh, Decided, Undecided,
        storeVars, dbVars, queueVars, workerVars, Begin, Go
<1>1. ASSUME NEW r \in Requests, NEW k \in Jobs, CreateJob(r, k) PROVE Decided(j)'
  BY <1>1 DEF CreateJob, InsertJob
<1>2. ASSUME NEW r \in Requests, NEW k \in Jobs, Finalize(r, k) PROVE Decided(j)'
  BY <1>2 DEF Finalize, FinalizeRow
<1>3. ASSUME NEW r \in Requests, NEW k \in Jobs, DeleteJob(r, k) PROVE Decided(j)'
  BY <1>3 DEF DeleteJob, ClearAssignments
<1>4. ASSUME NEW r \in Requests, Reset(r) PROVE Decided(j)'
  BY <1>4 DEF Reset, DropRouteFk
<1>5. ASSUME NEW r \in Requests, Enqueue(r) PROVE Decided(j)'
  BY <1>5 DEF Enqueue, SendTask
<1>6. ASSUME NEW r \in Requests, DeleteRow(r) PROVE Decided(j)'
  BY <1>6 DEF DeleteRow, DeleteJobRow
<1>7. ASSUME NEW r \in Requests, Abort(r) PROVE Decided(j)'
  BY <1>7 DEF Abort, Lose
<1>8. CASE UNCHANGED <<status, message>>
  BY <1>8
<1>9. ASSUME NEW r \in Requests,
             Audit(r) \/ DeleteRoutes(r) \/ DropFk(r) \/ Truncate(r) \/ Forget(r)
      PROVE  Decided(j)'
  BY <1>8, <1>9 DEF Audit, DeleteRoutes, ClearRoutes, DropFk, DropRouteFk, Truncate,
                    TruncateReference, Forget
<1>10. CASE PickerDelete
  BY <1>8, <1>10 DEF PickerDelete, DeleteTask, DeleteFieldman
<1> QED BY <1>1, <1>2, <1>3, <1>4, <1>5, <1>6, <1>7, <1>9, <1>10 DEF ApiNext, Continue

\* A decided job stays decided.
LEMMA StaysDecided ==
  ASSUME Protocol, [Next]_vars, NEW j \in Jobs, Decided(j) PROVE Decided(j)'
<1>1. CASE UNCHANGED vars
  BY <1>1 DEF vars, storeVars, dbVars, queueVars, workerVars, Decided, Undecided
<1> QED BY <1>1, WorkerKeepsDecided, ApiKeepsDecided DEF Next, WorkerNext

-----------------------------------------------------------------------------
(* What the clients have heard *)

Heard ==
  /\ heard \in [Jobs -> Outcomes \cup {"nothing", "job_started"}]
  /\ \A j \in Jobs : heard[j] \in Outcomes => Decided(j)

\* The events change nothing for the job system.
LEMMA EventsAreStepsOfRuns == [EventNext]_systemVars => [Next]_vars
BY DEF EventNext, WorkerStep, KilledStep, systemVars, Next, WorkerNext

\* What is heard of a job is what its own run says at this step.
LEMMA OnlyRunsSpeak ==
  ASSUME Heard, [EventNext]_systemVars
  PROVE  \/ UNCHANGED heard
         \/ \E w \in Workers :
              /\ wpc[w] \in SaySteps
              /\ heard' \in {heard, [heard EXCEPT ![wjob[w]] = EventOf[wpc[w]]]}
<1>1. ASSUME NEW w \in Workers, WorkerStep(w) \/ KilledStep(w)
      PROVE  \/ UNCHANGED heard
             \/ /\ wpc[w] \in SaySteps
                /\ heard' \in {heard, [heard EXCEPT ![wjob[w]] = EventOf[wpc[w]]]}
  <2>1. heard' = [heard EXCEPT ![wjob[w]] = IF socket[wjob[w]] = "open"
                                            THEN EventOf[wpc[w]] ELSE @]
          => heard' \in {heard, [heard EXCEPT ![wjob[w]] = EventOf[wpc[w]]]}
    BY DEF Heard
  <2> QED BY <1>1, <2>1 DEF WorkerStep, KilledStep, Unsay, Say, Publish, eventVars
<1> QED BY <1>1 DEF EventNext, SocketNext, Subscribe, Leave, Disconnect, eventVars, systemVars

\* Heard is inductive: an outcome is said of a decided job, and stays true.
LEMMA NextKeepsHeard == Protocol /\ Heard /\ [EventNext]_systemVars => Heard'
<1> SUFFICES ASSUME Protocol, Heard, [EventNext]_systemVars PROVE Heard'
  OBVIOUS
<1>1. \A j \in Jobs : Decided(j) => Decided(j)'
  BY EventsAreStepsOfRuns, StaysDecided
<1>2. CASE UNCHANGED heard
  BY <1>1, <1>2 DEF Heard
<1>3. ASSUME NEW w \in Workers, wpc[w] \in SaySteps,
             heard' = [heard EXCEPT ![wjob[w]] = EventOf[wpc[w]]]
      PROVE  Heard'
  <2>1. \/ wpc[w] \in DoneSteps /\ EventOf[wpc[w]] \in Outcomes
        \/ EventOf[wpc[w]] = "job_started"
    BY <1>3 DEF SaySteps, EventOf, DoneSteps, Outcomes
  <2>2. wpc[w] \in DoneSteps => wjob[w] \in Jobs /\ Decided(wjob[w])
    BY AnnouncedIsDecided
  <2> QED BY <1>1, <1>3, <2>1, <2>2 DEF Heard, Outcomes
<1> QED BY <1>2, <1>3, OnlyRunsSpeak

\* A client that hears an outcome finds the job decided, then and later.
\* (vrp_tasks.py 179-203, 682-697)
THEOREM OutcomesAreDecided == EventSpec => []OutcomeIsDecided
<1>1. Init /\ EventInit => Protocol /\ Heard
  BY InitProtocol DEF EventInit, Heard, Outcomes
<1>2. Protocol /\ [EventNext]_systemVars => Protocol'
  BY EventsAreStepsOfRuns, NextKeepsProtocol
<1>3. Heard => OutcomeIsDecided
  BY DEF Heard, Decided, OutcomeIsDecided
<1> QED BY <1>1, <1>2, <1>3, NextKeepsHeard, PTL DEF EventSpec
=============================================================================
