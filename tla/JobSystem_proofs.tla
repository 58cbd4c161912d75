-------------------------- MODULE JobSystem_proofs --------------------------
(***************************************************************************)
(* Proofs about JobSystem, for any numbers of jobs, tasks, fieldmen,       *)
(* workers and requests.                                                   *)
(***************************************************************************)
EXTENDS JobSystem, TLAPS

USE DEF RowStatus, Pairs, Rows, Exists, Joined, ApiPc, EnqueueSteps, DeleteSteps,
        WorkerPc, TrySteps, ExceptSteps, BeforeRows

-----------------------------------------------------------------------------
(* Type correctness.  A failure adds the job it strikes to `lost`: that this *)
(* is a job at all takes Placed, so the two are proved together.             *)

Typed == TypeOK /\ Placed

\* The initial states are typed.
LEMMA InitTyped == Init => Typed
BY DEF Init, StoreInit, WorkerInit, ApiInit,
       Typed, TypeOK, Placed, StoreTypeOK, WorkerTypeOK, ApiTypeOK

\* No worker step leaves the domains, or a process busy without a job.
LEMMA WorkerKeepsTyped == Typed /\ WorkerNext /\ UNCHANGED apiVars => Typed'
<1> SUFFICES ASSUME Typed, UNCHANGED apiVars, NEW w \in Workers,
                    (\E j \in Jobs : Take(w, j)) \/ Advance(w) \/ Crash(w)
             PROVE  Typed'
  BY DEF WorkerNext
<1> USE DEF Typed, TypeOK, Placed, StoreTypeOK, WorkerTypeOK, ApiTypeOK, storeVars, dbVars,
            queueVars, apiVars, KeepLocals, Unstored, Step, Finish, UpdateStatus, Lose
<1>1. CASE \E j \in Jobs : Take(w, j) BY <1>1, NoneIsNoId DEF Take, ReceiveTask
<1>2. CASE Connect(w) BY <1>2 DEF Connect
<1>3. CASE ConnectFails(w) BY <1>3 DEF ConnectFails
<1>4. CASE MarkStarted(w) BY <1>4 DEF MarkStarted
<1>5. CASE SayStarted(w) BY <1>5 DEF SayStarted
<1>6. CASE LoadPayload(w) BY <1>6 DEF LoadPayload
<1>7. CASE LoadTasks(w) BY <1>7 DEF LoadTasks
<1>8. CASE LoadFieldmen(w) BY <1>8 DEF LoadFieldmen
<1>9. CASE Refuse(w) BY <1>9 DEF Refuse
<1>10. CASE MarkRejected(w) BY <1>10 DEF MarkRejected
<1>11. CASE SayRejected(w) BY <1>11 DEF SayRejected
<1>12. CASE MakePlan(w) BY <1>12 DEF MakePlan, Plans
<1>13. CASE ClearOldAssignments(w) BY <1>13 DEF ClearOldAssignments, ClearAssignments
<1>14. CASE StoreAssignments(w) BY <1>14 DEF StoreAssignments, InsertAssignments
<1>15. CASE ClearOldRoutes(w) BY <1>15 DEF ClearOldRoutes, ClearRoutes
<1>16. CASE StoreRoutes(w) BY <1>16 DEF StoreRoutes, InsertRoutes
<1>17. CASE InvalidateJob(w) BY <1>17 DEF InvalidateJob
<1>18. CASE MarkReady(w) BY <1>18 DEF MarkReady
<1>19. CASE SayReady(w) BY <1>19 DEF SayReady
<1>20. CASE Raise(w) BY <1>20 DEF Raise
<1>21. CASE MarkFailed(w) BY <1>21 DEF MarkFailed
<1>22. CASE SayFailed(w) BY <1>22 DEF SayFailed
<1>23. CASE Crash(w) BY <1>23 DEF Crash
<1> QED BY <1>1, <1>2, <1>3, <1>4, <1>5, <1>6, <1>7, <1>8, <1>9, <1>10, <1>11,
           <1>12, <1>13, <1>14, <1>15, <1>16, <1>17, <1>18, <1>19, <1>20,
           <1>21, <1>22, <1>23 DEF Advance

\* No request step leaves the domains, or a sender or deleter without a job.
LEMMA ApiKeepsTyped == Typed /\ ApiNext /\ UNCHANGED workerVars => Typed'
<1> SUFFICES ASSUME Typed, UNCHANGED workerVars, ApiNext PROVE Typed'
  OBVIOUS
<1> USE DEF Typed, TypeOK, Placed, StoreTypeOK, WorkerTypeOK, ApiTypeOK, storeVars, dbVars,
            queueVars, apiVars, workerVars, Begin, Go, ClearRoutes
<1>1. ASSUME NEW r \in Requests, NEW j \in Jobs, CreateJob(r, j) PROVE Typed'
  BY <1>1, NoneIsNoId DEF CreateJob, InsertJob
<1>2. ASSUME NEW r \in Requests, NEW j \in Jobs, Finalize(r, j) PROVE Typed'
  BY <1>2 DEF Finalize, FinalizeRow
<1>3. ASSUME NEW r \in Requests, NEW j \in Jobs, DeleteJob(r, j) PROVE Typed'
  BY <1>3, NoneIsNoId DEF DeleteJob, ClearAssignments
<1>4. ASSUME NEW r \in Requests, Reset(r) PROVE Typed'
  BY <1>4 DEF Reset, DropRouteFk
<1>5. ASSUME NEW r \in Requests, Enqueue(r) PROVE Typed'
  BY <1>5 DEF Enqueue, SendTask
<1>6. ASSUME NEW r \in Requests, Audit(r) PROVE Typed'
  BY <1>6 DEF Audit
<1>7. ASSUME NEW r \in Requests, DeleteRoutes(r) PROVE Typed'
  BY <1>7 DEF DeleteRoutes
<1>8. ASSUME NEW r \in Requests, DeleteRow(r) PROVE Typed'
  BY <1>8 DEF DeleteRow, DeleteJobRow
<1>9. ASSUME NEW r \in Requests, Truncate(r) PROVE Typed'
  BY <1>9 DEF Truncate, TruncateReference
<1>10. ASSUME NEW r \in Requests, Forget(r) PROVE Typed'
  BY <1>10 DEF Forget
<1>11. ASSUME NEW r \in Requests, Abort(r) PROVE Typed'
  BY <1>11 DEF Abort, Lose
<1>12. ASSUME NEW t \in Tasks, DeleteTask(t), UNCHANGED <<queueVars, apiVars>>
       PROVE  Typed'
  BY <1>12 DEF DeleteTask
<1>13. ASSUME NEW f \in Fieldmen, DeleteFieldman(f), UNCHANGED <<queueVars, apiVars>>
       PROVE  Typed'
  BY <1>13 DEF DeleteFieldman
<1>14. ASSUME NEW r \in Requests, DropFk(r) PROVE Typed'
  BY <1>14 DEF DropFk, DropRouteFk
<1> QED BY <1>1, <1>2, <1>3, <1>4, <1>5, <1>6, <1>7, <1>8, <1>9, <1>10, <1>11,
           <1>12, <1>13, <1>14 DEF ApiNext, Continue, PickerDelete

\* Typed is inductive.
LEMMA NextKeepsTyped == Typed /\ [Next]_vars => Typed'
<1> SUFFICES ASSUME Typed, [Next]_vars PROVE Typed'
  OBVIOUS
<1>1. CASE UNCHANGED vars
  BY <1>1 DEF vars, Typed, TypeOK, Placed, StoreTypeOK, WorkerTypeOK, ApiTypeOK, storeVars,
              dbVars, queueVars, workerVars, apiVars
<1> QED BY <1>1, WorkerKeepsTyped, ApiKeepsTyped DEF Next

\* Every row, message, worker local and request stays in its domain.
THEOREM TypeCorrect == Spec => []TypeOK
<1>1. Typed => TypeOK
  BY DEF Typed
<1> QED BY <1>1, InitTyped, NextKeepsTyped, PTL DEF Spec
-----------------------------------------------------------------------------
(* The protocol between the requests, the broker and the workers *)

\* Nobody has touched a job yet.
LEMMA InitProtocol == Init => Protocol
BY InitTyped DEF Typed, Protocol, Init, StoreInit, WorkerInit, ApiInit, Fresh,
   OneSender, OneRunner, DeletersNamed, VerdictInOrder, Undecided, WritingSteps, DoneSteps

\* The worker steps of vrp_tasks.py keep the protocol, one by one.
LEMMA WorkerKeepsProtocol ==
  Protocol /\ WorkerNext /\ UNCHANGED apiVars => Protocol'
<1> SUFFICES ASSUME Protocol, UNCHANGED apiVars, NEW w \in Workers,
                    (\E j \in Jobs : Take(w, j)) \/ Advance(w) \/ Crash(w)
             PROVE  Protocol'
  BY DEF WorkerNext
<1>0. Typed'
  BY WorkerKeepsTyped DEF WorkerNext, Typed, Protocol
<1> SUFFICES (Fresh /\ OneSender /\ OneRunner /\ DeletersNamed /\ VerdictInOrder)'
  BY <1>0 DEF Protocol, Typed
<1> USE DEF Protocol, TypeOK, StoreTypeOK, WorkerTypeOK, ApiTypeOK, Placed, Fresh,
            OneSender, OneRunner, DeletersNamed, VerdictInOrder, Undecided,
            WritingSteps, DoneSteps, storeVars, dbVars, queueVars, apiVars,
            KeepLocals, Unstored, Step, Finish, UpdateStatus, Lose
<1>1. CASE \E j \in Jobs : Take(w, j)
  BY <1>1, NoneIsNoId DEF Take, ReceiveTask
<1>2. CASE Connect(w)
  BY <1>2, NoneIsNoId DEF Connect
<1>3. CASE ConnectFails(w)
  BY <1>3, NoneIsNoId DEF ConnectFails
<1>4. CASE MarkStarted(w)
  BY <1>4, NoneIsNoId DEF MarkStarted
<1>5. CASE SayStarted(w)
  BY <1>5, NoneIsNoId DEF SayStarted
<1>6. CASE LoadPayload(w)
  BY <1>6, NoneIsNoId DEF LoadPayload
<1>7. CASE LoadTasks(w)
  BY <1>7, NoneIsNoId DEF LoadTasks
<1>8. CASE LoadFieldmen(w)
  BY <1>8, NoneIsNoId DEF LoadFieldmen
<1>9. CASE Refuse(w)
  BY <1>9, NoneIsNoId DEF Refuse
<1>10. CASE MarkRejected(w)
  BY <1>10, NoneIsNoId DEF MarkRejected
<1>11. CASE SayRejected(w)
  BY <1>11, NoneIsNoId DEF SayRejected
<1>12. CASE MakePlan(w)
  BY <1>12, NoneIsNoId DEF MakePlan
<1>13. CASE ClearOldAssignments(w)
  BY <1>13, NoneIsNoId DEF ClearOldAssignments, ClearAssignments
<1>14. CASE StoreAssignments(w)
  BY <1>14, NoneIsNoId DEF StoreAssignments, InsertAssignments, AssignmentsFkOK
<1>15. CASE ClearOldRoutes(w)
  BY <1>15, NoneIsNoId DEF ClearOldRoutes, ClearRoutes
<1>16. CASE StoreRoutes(w)
  BY <1>16, NoneIsNoId DEF StoreRoutes, InsertRoutes, RoutesFkOK
<1>17. CASE InvalidateJob(w)
  BY <1>17, NoneIsNoId DEF InvalidateJob
<1>18. CASE MarkReady(w)
  BY <1>18, NoneIsNoId DEF MarkReady
<1>19. CASE SayReady(w)
  BY <1>19, NoneIsNoId DEF SayReady
<1>20. CASE Raise(w)
  BY <1>20, NoneIsNoId DEF Raise
<1>21. CASE MarkFailed(w)
  BY <1>21, NoneIsNoId DEF MarkFailed
<1>22. CASE SayFailed(w)
  BY <1>22, NoneIsNoId DEF SayFailed
<1>23. CASE Crash(w)
  BY <1>23, NoneIsNoId DEF Crash
<1> QED BY <1>1, <1>2, <1>3, <1>4, <1>5, <1>6, <1>7, <1>8, <1>9, <1>10, <1>11, <1>12, <1>13, <1>14, <1>15, <1>16, <1>17, <1>18, <1>19, <1>20, <1>21, <1>22, <1>23 DEF Advance

\* The request steps of vrp_service.py and data_service.py keep the protocol.
LEMMA ApiKeepsProtocol ==
  Protocol /\ ApiNext /\ UNCHANGED workerVars => Protocol'
<1> SUFFICES ASSUME Protocol, UNCHANGED workerVars, ApiNext PROVE Protocol'
  OBVIOUS
<1>0. Typed'
  BY ApiKeepsTyped DEF Typed, Protocol
<1> DEFINE Kept == Fresh /\ OneSender /\ OneRunner /\ DeletersNamed /\ VerdictInOrder
<1> SUFFICES Kept'
  BY <1>0 DEF Protocol, Typed
<1> USE DEF Protocol, TypeOK, StoreTypeOK, WorkerTypeOK, ApiTypeOK, Placed, Fresh,
            OneSender, OneRunner, DeletersNamed, VerdictInOrder, Undecided,
            WritingSteps, DoneSteps, storeVars, dbVars, queueVars, apiVars,
            workerVars, Begin, Go, ClearRoutes
<1>1. ASSUME NEW r \in Requests, NEW j \in Jobs, CreateJob(r, j)
       PROVE  Kept'
  BY <1>1, NoneIsNoId DEF CreateJob, InsertJob
<1>2. ASSUME NEW r \in Requests, NEW j \in Jobs, Finalize(r, j)
       PROVE  Kept'
  BY <1>2, NoneIsNoId DEF Finalize, FinalizeRow
<1>3. ASSUME NEW r \in Requests, NEW j \in Jobs, DeleteJob(r, j)
       PROVE  Kept'
  BY <1>3, NoneIsNoId DEF DeleteJob, ClearAssignments
<1>4. ASSUME NEW r \in Requests, Reset(r)
       PROVE  Kept'
  BY <1>4, NoneIsNoId DEF Reset, DropRouteFk
<1>5. ASSUME NEW r \in Requests, Enqueue(r)
       PROVE  Kept'
  BY <1>5, NoneIsNoId DEF Enqueue, SendTask
<1>6. ASSUME NEW r \in Requests, Audit(r)
       PROVE  Kept'
  BY <1>6, NoneIsNoId DEF Audit
<1>7. ASSUME NEW r \in Requests, DeleteRoutes(r)
       PROVE  Kept'
  BY <1>7, NoneIsNoId DEF DeleteRoutes
<1>8. ASSUME NEW r \in Requests, DeleteRow(r)
       PROVE  Kept'
  BY <1>8, NoneIsNoId DEF DeleteRow, DeleteJobRow
<1>9. ASSUME NEW r \in Requests, Truncate(r)
       PROVE  Kept'
  BY <1>9, NoneIsNoId DEF Truncate, TruncateReference
<1>10. ASSUME NEW r \in Requests, Forget(r)
       PROVE  Kept'
  BY <1>10, NoneIsNoId DEF Forget
<1>11. ASSUME NEW r \in Requests, Abort(r)
       PROVE  Kept'
  BY <1>11, NoneIsNoId DEF Abort, Lose
<1>12. ASSUME NEW t \in Tasks, DeleteTask(t), UNCHANGED <<queueVars, apiVars>>
       PROVE  Kept'
  BY <1>12, NoneIsNoId DEF DeleteTask
<1>13. ASSUME NEW f \in Fieldmen, DeleteFieldman(f), UNCHANGED <<queueVars, apiVars>>
       PROVE  Kept'
  BY <1>13, NoneIsNoId DEF DeleteFieldman
<1>14. ASSUME NEW r \in Requests, DropFk(r)
       PROVE  Kept'
  BY <1>14, NoneIsNoId DEF DropFk, DropRouteFk
<1> QED BY <1>1, <1>2, <1>3, <1>4, <1>5, <1>6, <1>7, <1>8, <1>9, <1>10, <1>11, <1>12, <1>13, <1>14
        DEF ApiNext, Continue, PickerDelete

\* Protocol is inductive.
LEMMA NextKeepsProtocol == Protocol /\ [Next]_vars => Protocol'
<1> SUFFICES ASSUME Protocol, [Next]_vars PROVE Protocol'
  OBVIOUS
<1>1. CASE UNCHANGED vars
  BY <1>1 DEF vars, Protocol, TypeOK, StoreTypeOK, WorkerTypeOK, ApiTypeOK, Placed,
              Fresh, OneSender, OneRunner, DeletersNamed, VerdictInOrder,
              Undecided, storeVars, dbVars, queueVars, workerVars, apiVars
<1> QED BY <1>1, WorkerKeepsProtocol, ApiKeepsProtocol DEF Next

\* A job has one sender and at most one runner, whatever happens to its row; it
\* is "ready" only after its run wrote the rows, and a run that ends in order
\* has decided it.  (vrp_service.py 202-227, vrp_tasks.py 118-700)
THEOREM ProtocolHolds == Spec => []Protocol
BY InitProtocol, NextKeepsProtocol, PTL DEF Spec

-----------------------------------------------------------------------------
(* IInv is inductive: what the two tables of a job's plan hold at every step *)
(* of its run, and who still decides it.                                     *)

RowParts == RowsStored /\ RowsAgree /\ NoSilentStranding /\ NoOrphans

\* A deletion takes the same pairs out of what both tables show.
LEMMA DeleteTaskJoined ==
  ASSUME TypeOK, UNCHANGED workerVars, NEW t \in Tasks, DeleteTask(t)
  PROVE  /\ \A j \in Jobs :
              /\ Joined(assigned[j])' = {p \in Joined(assigned[j]) : p[2] # t}
              /\ Joined(routed[j])' = {p \in Joined(routed[j]) : p[2] # t}
         /\ \A w \in Workers :
              Joined(wplan[w])' = {p \in Joined(wplan[w]) : p[2] # t}
<1> USE DEF DeleteTask, TypeOK, StoreTypeOK, WorkerTypeOK, workerVars
<1>1. ASSUME NEW j \in Jobs
      PROVE  Joined(assigned[j])' = {p \in Joined(assigned[j]) : p[2] # t}
  <2>1. ASSUME NEW p \in Joined(assigned[j])'
        PROVE  p \in Joined(assigned[j]) /\ p[2] # t
    <3>1. PICK r \in assigned[j] : p = <<r[1], IF r[2] = t THEN None ELSE r[2]>>
      BY <2>1 DEF Joined
    <3>2. p \in fieldmen \X (tasks \ {t})
      BY <2>1 DEF Joined
    <3>3. r[2] # t
      BY <3>1, <3>2, NoneIsNoId
    <3>4. r \in Rows
      OBVIOUS
    <3>5. p = r
      BY <3>1, <3>3, <3>4
    <3> QED BY <3>2, <3>3, <3>5 DEF Joined
  <2>2. ASSUME NEW p \in Joined(assigned[j]), p[2] # t
        PROVE  p \in Joined(assigned[j])'
    <3>1. p \in assigned[j] /\ p \in fieldmen \X (tasks \ {t})
      BY <2>2 DEF Joined
    <3>2. p = <<p[1], IF p[2] = t THEN None ELSE p[2]>>
      BY <2>2, <3>1
    <3> QED BY <3>1, <3>2 DEF Joined
  <2> QED BY <2>1, <2>2
<1>2. ASSUME NEW j \in Jobs
      PROVE  Joined(routed[j])' = {p \in Joined(routed[j]) : p[2] # t}
  BY DEF Joined
<1>3. ASSUME NEW w \in Workers
      PROVE  Joined(wplan[w])' = {p \in Joined(wplan[w]) : p[2] # t}
  BY DEF Joined
<1> QED BY <1>1, <1>2, <1>3

\* The same of a fieldman, while the routes cascade or not.
LEMMA DeleteFieldmanJoined ==
  ASSUME TypeOK, UNCHANGED workerVars, NEW f \in Fieldmen, DeleteFieldman(f)
  PROVE  /\ \A j \in Jobs :
              /\ Joined(assigned[j])' = {p \in Joined(assigned[j]) : p[1] # f}
              /\ Joined(routed[j])' = {p \in Joined(routed[j]) : p[1] # f}
         /\ \A w \in Workers :
              Joined(wplan[w])' = {p \in Joined(wplan[w]) : p[1] # f}
<1> USE DEF DeleteFieldman, TypeOK, StoreTypeOK, WorkerTypeOK, workerVars
<1>1. ASSUME NEW j \in Jobs
      PROVE  Joined(assigned[j])' = {p \in Joined(assigned[j]) : p[1] # f}
  <2>1. ASSUME NEW p \in Joined(assigned[j])'
        PROVE  p \in Joined(assigned[j]) /\ p[1] # f
    <3>1. PICK r \in assigned[j] : p = <<IF r[1] = f THEN None ELSE r[1], r[2]>>
      BY <2>1 DEF Joined
    <3>2. p \in (fieldmen \ {f}) \X tasks
      BY <2>1 DEF Joined
    <3>3. r[1] # f
      BY <3>1, <3>2, NoneIsNoId
    <3>4. r \in Rows
      OBVIOUS
    <3>5. p = r
      BY <3>1, <3>3, <3>4
    <3> QED BY <3>2, <3>3, <3>5 DEF Joined
  <2>2. ASSUME NEW p \in Joined(assigned[j]), p[1] # f
        PROVE  p \in Joined(assigned[j])'
    <3>1. p \in assigned[j] /\ p \in (fieldmen \ {f}) \X tasks
      BY <2>2 DEF Joined
    <3>2. p = <<IF p[1] = f THEN None ELSE p[1], p[2]>>
      BY <2>2, <3>1
    <3> QED BY <3>1, <3>2 DEF Joined
  <2> QED BY <2>1, <2>2
<1>2. ASSUME NEW j \in Jobs
      PROVE  Joined(routed[j])' = {p \in Joined(routed[j]) : p[1] # f}
  BY DEF Joined
<1>3. ASSUME NEW w \in Workers
      PROVE  Joined(wplan[w])' = {p \in Joined(wplan[w]) : p[1] # f}
  BY DEF Joined
<1> QED BY <1>1, <1>2, <1>3

\* The worker steps keep the parts about the rows, given the protocol.
LEMMA WorkerKeepsRows ==
  IInv /\ WorkerNext /\ UNCHANGED apiVars => RowParts'
<1> SUFFICES ASSUME IInv, UNCHANGED apiVars, NEW w \in Workers,
                    (\E j \in Jobs : Take(w, j)) \/ Advance(w) \/ Crash(w)
             PROVE  RowParts'
  BY DEF WorkerNext
<1> USE DEF Protocol, TypeOK, StoreTypeOK, WorkerTypeOK, ApiTypeOK, Placed, Fresh,
            OneSender, OneRunner, DeletersNamed, VerdictInOrder, Undecided,
            WritingSteps, DoneSteps, storeVars, dbVars, queueVars, apiVars,
            KeepLocals, Unstored, Step, Finish, UpdateStatus, Lose, IInv, RowParts,
            RowsStored, RowsAgree, NoSilentStranding, NoOrphans, Running, Joined
<1>1. CASE \E j \in Jobs : Take(w, j)
  <2>1. PICK j \in Jobs : Take(w, j)
    BY <1>1
  <2>2. Running(j)'
    BY <2>1 DEF Take
  <2>3. ASSUME NEW k \in Jobs \ {j}
        PROVE  /\ message'[k] = message[k]
               /\ Running(k) => Running(k)'
    BY <2>1, NoneIsNoId DEF Take, ReceiveTask
  <2>4. NoSilentStranding'
    <3> HIDE DEF Running
    <3> QED BY <2>1, <2>2, <2>3 DEF Take
  <2>5. (RowsStored /\ RowsAgree /\ NoOrphans)'
    BY <2>1, NoneIsNoId DEF Take, ReceiveTask
  <2> QED BY <2>4, <2>5
<1>2. CASE Connect(w)
  BY <1>2, NoneIsNoId DEF Connect
<1>3. CASE ConnectFails(w)
  BY <1>3, NoneIsNoId DEF ConnectFails
<1>4. CASE MarkStarted(w)
  BY <1>4, NoneIsNoId DEF MarkStarted
<1>5. CASE SayStarted(w)
  BY <1>5, NoneIsNoId DEF SayStarted
<1>6. CASE LoadPayload(w)
  BY <1>6, NoneIsNoId DEF LoadPayload
<1>7. CASE LoadTasks(w)
  BY <1>7, NoneIsNoId DEF LoadTasks
<1>8. CASE LoadFieldmen(w)
  BY <1>8, NoneIsNoId DEF LoadFieldmen
<1>9. CASE Refuse(w)
  BY <1>9, NoneIsNoId DEF Refuse
<1>10. CASE MarkRejected(w)
  BY <1>10, NoneIsNoId DEF MarkRejected
<1>11. CASE SayRejected(w)
  BY <1>11, NoneIsNoId DEF SayRejected
<1>12. CASE MakePlan(w)
  BY <1>12, NoneIsNoId DEF MakePlan
<1>13. CASE ClearOldAssignments(w)
  BY <1>13, NoneIsNoId DEF ClearOldAssignments, ClearAssignments
<1>14. CASE StoreAssignments(w)
  BY <1>14, NoneIsNoId DEF StoreAssignments, InsertAssignments, AssignmentsFkOK
<1>15. CASE ClearOldRoutes(w)
  BY <1>15, NoneIsNoId DEF ClearOldRoutes, ClearRoutes
<1>16. CASE StoreRoutes(w)
  BY <1>16, NoneIsNoId DEF StoreRoutes, InsertRoutes, RoutesFkOK
<1>17. CASE InvalidateJob(w)
  BY <1>17, NoneIsNoId DEF InvalidateJob
<1>18. CASE MarkReady(w)
  <2>1. RowsStored' /\ NoOrphans'
    BY <1>18, NoneIsNoId DEF MarkReady
  <2>2. RowsAgree'
    BY <1>18, NoneIsNoId DEF MarkReady
  <2>3. NoSilentStranding'
    BY <1>18, NoneIsNoId DEF MarkReady
  <2> QED BY <2>1, <2>2, <2>3
<1>19. CASE SayReady(w)
  BY <1>19, NoneIsNoId DEF SayReady
<1>20. CASE Raise(w)
  BY <1>20, NoneIsNoId DEF Raise
<1>21. CASE MarkFailed(w)
  BY <1>21, NoneIsNoId DEF MarkFailed
<1>22. CASE SayFailed(w)
  BY <1>22, NoneIsNoId DEF SayFailed
<1>23. CASE Crash(w)
  BY <1>23, NoneIsNoId DEF Crash
<1> QED BY <1>1, <1>2, <1>3, <1>4, <1>5, <1>6, <1>7, <1>8, <1>9, <1>10, <1>11, <1>12, <1>13, <1>14, <1>15, <1>16, <1>17, <1>18, <1>19, <1>20, <1>21, <1>22, <1>23 DEF Advance

\* So do the request steps; a job being deleted is in `purging`.
LEMMA ApiKeepsRows ==
  IInv /\ ApiNext /\ UNCHANGED workerVars => RowParts'
<1> SUFFICES ASSUME IInv, UNCHANGED workerVars, ApiNext PROVE RowParts'
  OBVIOUS
<1> USE DEF Protocol, TypeOK, StoreTypeOK, WorkerTypeOK, ApiTypeOK, Placed, Fresh,
            OneSender, OneRunner, DeletersNamed, VerdictInOrder, Undecided,
            WritingSteps, DoneSteps, storeVars, dbVars, queueVars, apiVars,
            workerVars, Begin, Go, ClearRoutes, IInv, RowParts,
            RowsStored, RowsAgree, NoSilentStranding, NoOrphans, Running, Joined
<1>1. ASSUME NEW r \in Requests, NEW j \in Jobs, CreateJob(r, j)
       PROVE  RowParts'
  BY <1>1, NoneIsNoId DEF CreateJob, InsertJob
<1>2. ASSUME NEW r \in Requests, NEW j \in Jobs, Finalize(r, j)
       PROVE  RowParts'
  BY <1>2, NoneIsNoId DEF Finalize, FinalizeRow
<1>3. ASSUME NEW r \in Requests, NEW j \in Jobs, DeleteJob(r, j)
       PROVE  RowParts'
  BY <1>3, NoneIsNoId DEF DeleteJob, ClearAssignments
<1>4. ASSUME NEW r \in Requests, Reset(r)
       PROVE  RowParts'
  BY <1>4, NoneIsNoId DEF Reset, DropRouteFk
<1>5. ASSUME NEW r \in Requests, Enqueue(r)
       PROVE  RowParts'
  <2>1. message'[ajob[r]] = "queued"
    BY <1>5, NoneIsNoId DEF Enqueue, SendTask
  <2>2. \A s \in Requests \ {r} : apc'[s] = apc[s] /\ ajob'[s] = ajob[s]
    BY <1>5 DEF Enqueue
  <2>3. \A k \in Jobs : message'[k] = message[k] \/ message'[k] = "queued"
    BY <1>5 DEF Enqueue, SendTask
  <2>4. NoSilentStranding'
    <3>1. SUFFICES ASSUME NEW k \in Jobs, Undecided(k)', message'[k] # "queued"
                   PROVE  \/ Running(k)' \/ k \in lost'
                          \/ \E s \in Requests : apc'[s] \in EnqueueSteps /\ ajob'[s] = k
      OBVIOUS
    <3>2. Undecided(k) /\ message[k] # "queued"
      BY <1>5, <2>3, <3>1 DEF Enqueue, SendTask
    <3>3. CASE Running(k) \/ k \in lost
      BY <1>5, <3>3 DEF Enqueue
    <3>4. CASE \E s \in Requests : apc[s] \in EnqueueSteps /\ ajob[s] = k
      BY <2>1, <2>2, <3>1, <3>4
    <3> QED BY <3>2, <3>3, <3>4
  <2>5. (RowsStored /\ RowsAgree /\ NoOrphans)'
    BY <1>5 DEF Enqueue
  <2> QED BY <2>4, <2>5
<1>6. ASSUME NEW r \in Requests, Audit(r)
       PROVE  RowParts'
  BY <1>6, NoneIsNoId DEF Audit
<1>7. ASSUME NEW r \in Requests, DeleteRoutes(r)
       PROVE  RowParts'
  BY <1>7, NoneIsNoId DEF DeleteRoutes
<1>8. ASSUME NEW r \in Requests, DeleteRow(r)
       PROVE  RowParts'
  BY <1>8, NoneIsNoId DEF DeleteRow, DeleteJobRow
<1>9. ASSUME NEW r \in Requests, Truncate(r)
       PROVE  RowParts'
  BY <1>9, NoneIsNoId DEF Truncate, TruncateReference
<1>10. ASSUME NEW r \in Requests, Forget(r)
       PROVE  RowParts'
  BY <1>10, NoneIsNoId DEF Forget
<1>11. ASSUME NEW r \in Requests, Abort(r)
       PROVE  RowParts'
  BY <1>11, NoneIsNoId DEF Abort, Lose
<1>12. ASSUME NEW t \in Tasks, DeleteTask(t), UNCHANGED <<queueVars, apiVars>>
       PROVE  RowParts'
  <2>0. UNCHANGED <<status, message, lost, purging, workerVars, apiVars>>
    BY <1>12 DEF DeleteTask
  <2>1. RowsAgree'
    BY <1>12, <2>0, DeleteTaskJoined
  <2>3. RowsStored'
    <3>1. ASSUME NEW x \in Workers, wjob[x] \notin purging, wpc[x] \in TrySteps
          PROVE  wjob[x] \in Jobs
      BY <3>1, NoneIsNoId
    <3> QED BY <1>12, <2>0, <3>1, DeleteTaskJoined
  <2>2. (NoSilentStranding /\ NoOrphans)'
    BY <1>12 DEF DeleteTask
  <2> QED BY <2>1, <2>2, <2>3
<1>13. ASSUME NEW f \in Fieldmen, DeleteFieldman(f), UNCHANGED <<queueVars, apiVars>>
       PROVE  RowParts'
  <2>0. UNCHANGED <<status, message, lost, purging, workerVars, apiVars>>
    BY <1>13 DEF DeleteFieldman
  <2>1. RowsAgree'
    BY <1>13, <2>0, DeleteFieldmanJoined
  <2>3. RowsStored'
    <3>1. ASSUME NEW x \in Workers, wjob[x] \notin purging, wpc[x] \in TrySteps
          PROVE  wjob[x] \in Jobs
      BY <3>1, NoneIsNoId
    <3> QED BY <1>13, <2>0, <3>1, DeleteFieldmanJoined
  <2>2. (NoSilentStranding /\ NoOrphans)'
    BY <1>13 DEF DeleteFieldman
  <2> QED BY <2>1, <2>2, <2>3
<1>14. ASSUME NEW r \in Requests, DropFk(r)
       PROVE  RowParts'
  BY <1>14, NoneIsNoId DEF DropFk, DropRouteFk
<1> QED BY <1>1, <1>2, <1>3, <1>4, <1>5, <1>6, <1>7, <1>8, <1>9, <1>10, <1>11, <1>12, <1>13, <1>14
        DEF ApiNext, Continue, PickerDelete

\* The tables start empty.
LEMMA InitIInv == Init => IInv
BY InitProtocol DEF IInv, Init, StoreInit, WorkerInit, ApiInit, RowsStored,
   RowsAgree, NoSilentStranding, NoOrphans, Undecided, Joined

\* IInv is inductive.
LEMMA NextKeepsIInv == IInv /\ [Next]_vars => IInv'
<1> SUFFICES ASSUME IInv, [Next]_vars PROVE IInv'
  OBVIOUS
<1>1. Protocol'
  BY NextKeepsProtocol DEF IInv
<1>2. RowParts'
  <2>1. CASE UNCHANGED vars
    BY <2>1 DEF vars, storeVars, dbVars, queueVars, workerVars, apiVars, IInv, RowParts,
                RowsStored, RowsAgree, NoSilentStranding, NoOrphans, Undecided,
                Running, Joined
  <2> QED BY <2>1, WorkerKeepsRows, ApiKeepsRows DEF Next
<1> QED BY <1>1, <1>2 DEF IInv, RowParts

-----------------------------------------------------------------------------
\* IInv holds in every reachable state: at each step of a run the two tables hold
\* what the run has stored so far.  (vrp_tasks.py 669-682)
THEOREM InductiveInvariant == Spec => []IInv
BY InitIInv, NextKeepsIInv, PTL DEF Spec

\* A ready job's assignments and route snapshots agree, up to deletions made
\* since.  (vrp_tasks.py 670-682, vrp_repository.py 331-350 and 481-512)
THEOREM ReadyRowsAgree == Spec => []RowsAgree
<1>1. IInv => RowsAgree
  BY DEF IInv
<1> QED BY <1>1, InductiveInvariant, PTL

\* A job left "queued" or "started" without a run is one that a failure of the
\* infrastructure struck.  (vrp_service.py 212-214, vrp_tasks.py 118-700)
THEOREM NobodyStrands == Spec => []NoSilentStranding
<1>1. IInv => NoSilentStranding
  BY DEF IInv
<1> QED BY <1>1, InductiveInvariant, PTL

\* While vrp_job_routes has its foreign keys, a deleted job leaves no rows,
\* even to a worker that was storing them.  (init_db.sql 54-79)
THEOREM DeletedLeaveNoRows == Spec => []NoOrphans
<1>1. IInv => NoOrphans
  BY DEF IInv
<1> QED BY <1>1, InductiveInvariant, PTL

-----------------------------------------------------------------------------
(* JobSystem implements JobContract under the mapping of its definition      *)
(* Contract: every step is a step of the contract or a stutter.              *)

RunMap == [j \in Jobs |-> RunOf(j)]
RunBegins == {"connect", "start"}
RunAt(pc) == IF pc \in RunBegins THEN "waiting" ELSE "running"

-----------------------------------------------------------------------------
(* What the worker's program counter says of the run of its job *)

\* A busy process determines the abstract run of its job.
LEMMA RunOfRunner ==
  ASSUME Protocol, NEW w \in Workers, wpc[w] # "idle"
  PROVE  /\ wjob[w] \in Jobs
         /\ RunOf(wjob[w]) = RunAt(wpc[w])
BY DEF Protocol, TypeOK, WorkerTypeOK, StoreTypeOK, Placed, OneRunner, RunOf, RunAt,
       RunBegins, Runs, Running

\* A step of a process changes the abstract run of no other job.
LEMMA WorkerMoves ==
  ASSUME Protocol, Protocol', NEW w \in Workers, wpc[w] # "idle", wpc'[w] # "idle",
         wpc' = [wpc EXCEPT ![w] = wpc'[w]], UNCHANGED <<wjob, message>>
  PROVE  RunMap' = [RunMap EXCEPT ![wjob[w]] = RunAt(wpc'[w])]
<1>1. wjob[w] \in Jobs /\ RunOf(wjob[w])' = RunAt(wpc'[w])
  BY DEF Protocol, TypeOK, WorkerTypeOK, StoreTypeOK, Placed, OneRunner, RunOf, RunAt,
         RunBegins, Runs, Running
<1>2. \A k \in Jobs \ {wjob[w]} : RunOf(k)' = RunOf(k)
  BY DEF Protocol, TypeOK, WorkerTypeOK, RunOf, Runs, Running
<1> QED BY <1>1, <1>2 DEF RunMap

\* A process that lets go of its job ends the run of that job only.
LEMMA WorkerLeaves ==
  ASSUME Protocol, NEW w \in Workers, wpc[w] # "idle", Finish(w), UNCHANGED message
  PROVE  /\ wjob[w] \in Jobs
         /\ RunMap' = [RunMap EXCEPT ![wjob[w]] = "over"]
<1>1. PICK j \in Jobs : wjob[w] = j
  BY DEF Protocol, TypeOK, WorkerTypeOK, Placed
<1>2. RunOf(j)' = "over"
  BY <1>1, NoneIsNoId
     DEF Protocol, TypeOK, WorkerTypeOK, OneRunner, Finish, RunOf, Runs, Running
<1>3. \A k \in Jobs \ {j} : RunOf(k)' = RunOf(k)
  BY <1>1, NoneIsNoId
     DEF Protocol, TypeOK, WorkerTypeOK, Finish, RunOf, Runs, Running
<1> QED BY <1>1, <1>2, <1>3 DEF RunMap

\* The abstract runs depend on the broker and the processes only.
LEMMA RunsUnchanged ==
  UNCHANGED <<wpc, wjob, message>> => UNCHANGED RunMap
BY DEF RunMap, RunOf, Runs, Running

-----------------------------------------------------------------------------
\* The initial states map to the initial state of the contract.
LEMMA InitContract == Init => Contract!Init
BY DEF Init, StoreInit, WorkerInit, Contract!Init, RunOf

\* A worker step is a step of the contract or a stutter.
LEMMA WorkerKeepsContract ==
  Protocol /\ Protocol' /\ WorkerNext => [Contract!Next]_Contract!cvars
<1> DEFINE Abstract(j) == \/ Contract!Start(j) \/ Contract!Decide(j)
                          \/ Contract!End(j) \/ Contract!Break(j)
           Stutter == UNCHANGED <<status, RunMap, lost>>
<1> SUFFICES ASSUME Protocol, Protocol', NEW w \in Workers,
                    (\E j \in Jobs : Take(w, j)) \/ Advance(w) \/ Crash(w)
             PROVE  Stutter \/ \E j \in Jobs : Abstract(j)
  BY DEF WorkerNext, Contract!Next, Contract!cvars, RunMap
<1> DEFINE j == wjob[w]
           Moves(pc) == RunMap' = [RunMap EXCEPT ![j] = RunAt(pc)]
<1> USE DEF storeVars, dbVars, queueVars, KeepLocals, Unstored, Step
<1>0. /\ RunMap \in [Jobs -> {"none", "waiting", "running", "over"}]
      /\ wpc \in [Workers -> WorkerPc]
  BY DEF Protocol, TypeOK, WorkerTypeOK, RunMap, RunOf
<1>1. ASSUME NEW from \in RunBegins, NEW to \in WorkerPc \ ({"idle"} \cup RunBegins),
             Step(w, from, to), UNCHANGED <<wjob, message>>
      PROVE  /\ j \in Jobs /\ RunMap[j] = "waiting"
             /\ RunMap' = [RunMap EXCEPT ![j] = "running"]
  <2>1. /\ wpc[w] = from /\ wpc'[w] = to
        /\ wpc' = [wpc EXCEPT ![w] = wpc'[w]]
        /\ wpc[w] # "idle" /\ wpc'[w] # "idle"
    BY <1>0, <1>1 DEF RunBegins
  <2>2. j \in Jobs /\ RunMap[j] = RunAt(from)
    BY <2>1, RunOfRunner DEF RunMap
  <2>3. RunMap' = [RunMap EXCEPT ![j] = RunAt(to)]
    BY <1>1, <2>1, WorkerMoves
  <2> QED BY <2>2, <2>3 DEF RunAt
<1>2. ASSUME NEW from \in WorkerPc \ ({"idle"} \cup RunBegins),
             NEW to \in WorkerPc \ ({"idle"} \cup RunBegins),
             Step(w, from, to), UNCHANGED <<wjob, message>>
      PROVE  /\ j \in Jobs /\ RunMap[j] = "running"
             /\ RunMap' = RunMap
  <2>1. /\ wpc[w] = from /\ wpc'[w] = to
        /\ wpc' = [wpc EXCEPT ![w] = wpc'[w]]
        /\ wpc[w] # "idle" /\ wpc'[w] # "idle"
    BY <1>0, <1>2 DEF RunBegins
  <2>2. j \in Jobs /\ RunMap[j] = RunAt(from)
    BY <2>1, RunOfRunner DEF RunMap
  <2>3. RunMap' = [RunMap EXCEPT ![j] = RunAt(to)]
    BY <1>2, <2>1, WorkerMoves
  <2> QED BY <1>0, <2>2, <2>3 DEF RunAt
<1>3. ASSUME wpc[w] # "idle", Finish(w), UNCHANGED message
      PROVE  /\ j \in Jobs
             /\ RunMap' = [RunMap EXCEPT ![j] = "over"]
             /\ RunMap[j] = RunAt(wpc[w])
  BY <1>3, RunOfRunner, WorkerLeaves DEF RunMap
<1>4. CASE \E k \in Jobs : Take(w, k)
  <2>1. PICK k \in Jobs : Take(w, k)
    BY <1>4
  <2>2. wjob[w] = None /\ wjob' = [wjob EXCEPT ![w] = k]
        /\ wpc' = [wpc EXCEPT ![w] = "connect"]
        /\ message[k] = "queued" /\ message' = [message EXCEPT ![k] = "taken"]
    BY <2>1 DEF Take, ReceiveTask, Protocol, Placed
  <2>3. RunOf(k) = "waiting" /\ RunOf(k)' = "waiting"
    BY <2>2 DEF RunOf, Runs, Protocol, TypeOK, StoreTypeOK, WorkerTypeOK
  <2>4. \A i \in Jobs \ {k} : RunOf(i)' = RunOf(i)
    BY <2>2, NoneIsNoId DEF RunOf, Runs, Running, Protocol, TypeOK, StoreTypeOK, WorkerTypeOK
  <2> QED BY <2>1, <2>3, <2>4 DEF Take, RunMap
<1>5. CASE Connect(w)
  <2>1. /\ wpc[w] # "idle" /\ wpc'[w] # "idle" /\ wpc' = [wpc EXCEPT ![w] = wpc'[w]]
        /\ wpc[w] = "connect" /\ wpc'[w] = "start" /\ UNCHANGED <<wjob, message, status, lost>>
    BY <1>0, <1>5 DEF Connect
  <2>2. RunMap' = [RunMap EXCEPT ![j] = "waiting"]
    BY <2>1, WorkerMoves DEF RunAt, RunBegins
  <2>3. j \in Jobs /\ RunMap[j] = "waiting"
    BY <2>1, RunOfRunner DEF RunMap, RunAt, RunBegins
  <2>4. RunMap' = RunMap
    BY <2>2, <2>3 DEF RunMap
  <2> QED BY <2>1, <2>4
<1>6. ASSUME Finish(w), wpc[w] # "idle", Lose(j), UNCHANGED <<dbVars, message>>
      PROVE  Contract!Break(j) /\ j \in Jobs
  <2>1. RunMap[j] # "none"
    BY <1>3, <1>6 DEF RunAt
  <2> QED BY <1>3, <1>6, <2>1 DEF Contract!Break, Lose, RunMap
<1>7. CASE MarkStarted(w)
  <2>1. j \in Jobs /\ RunMap[j] = "waiting" /\ RunMap' = [RunMap EXCEPT ![j] = "running"]
    BY <1>1, <1>7 DEF MarkStarted, UpdateStatus, RunBegins, WorkerPc
  <2>2. (status' = [status EXCEPT ![j] = "started"] /\ Exists(j)) \/ UNCHANGED status
    BY <1>7 DEF MarkStarted, UpdateStatus, Protocol, TypeOK, StoreTypeOK
  <2> QED BY <1>7, <2>1, <2>2 DEF MarkStarted, Contract!Start, Contract!HasRecord, RunMap
<1>8. CASE Raise(w)
  <2>1. CASE wpc[w] = "start"
    <3>1. Step(w, "start", "except") /\ UNCHANGED <<wjob, message, status, lost>>
      BY <1>8, <2>1 DEF Raise
    <3>2. j \in Jobs /\ RunMap[j] = "waiting" /\ RunMap' = [RunMap EXCEPT ![j] = "running"]
      BY <1>1, <3>1 DEF RunBegins, WorkerPc, ExceptSteps
    <3> QED BY <3>1, <3>2 DEF Contract!Start, RunMap
  <2>2. CASE wpc[w] # "start"
    <3>1. Step(w, wpc[w], "except") /\ UNCHANGED <<wjob, message, status, lost>>
      BY <1>8, <2>2 DEF Raise
    <3>2. wpc[w] \in WorkerPc \ ({"idle"} \cup RunBegins)
      BY <1>8, <2>2 DEF Raise, RunBegins, WorkerPc
    <3> QED BY <1>2, <3>1, <3>2 DEF RunBegins, WorkerPc, ExceptSteps
  <2> QED BY <2>1, <2>2
<1>9. CASE SayStarted(w) \/ LoadPayload(w) \/ LoadTasks(w) \/ LoadFieldmen(w)
           \/ Refuse(w) \/ MakePlan(w) \/ ClearOldAssignments(w)
           \/ StoreAssignments(w) \/ ClearOldRoutes(w) \/ StoreRoutes(w)
           \/ InvalidateJob(w)
  <2>1. \E from, to \in WorkerPc \ ({"idle"} \cup RunBegins) :
           Step(w, from, to) /\ UNCHANGED <<wjob, message, status, lost>>
    BY <1>9 DEF SayStarted, LoadPayload, LoadTasks, LoadFieldmen, Refuse, MakePlan,
                ClearOldAssignments, StoreAssignments, ClearOldRoutes, StoreRoutes,
                InvalidateJob, ClearAssignments, InsertAssignments, ClearRoutes,
                InsertRoutes, RunBegins, WorkerPc, ExceptSteps
  <2> QED BY <1>2, <2>1
<1>10. CASE MarkRejected(w) \/ MarkReady(w) \/ MarkFailed(w)
  <2>1. PICK verdict \in {"ready", "failed"} :
           /\ UpdateStatus(j, verdict)
           /\ \E from, to \in WorkerPc \ ({"idle"} \cup RunBegins) :
                Step(w, from, to) /\ UNCHANGED <<wjob, message, lost>>
    BY <1>10 DEF MarkRejected, MarkReady, MarkFailed, RunBegins, WorkerPc, ExceptSteps
  <2>2. j \in Jobs /\ RunMap[j] = "running" /\ RunMap' = RunMap
    BY <1>2, <2>1
  <2>3. (Exists(j) /\ status' = [status EXCEPT ![j] = verdict]) \/ UNCHANGED status
    BY <2>1 DEF UpdateStatus, Protocol, TypeOK, StoreTypeOK
  <2> QED BY <2>1, <2>2, <2>3 DEF Contract!Decide, Contract!HasRecord, RunMap
<1>11. CASE SayRejected(w) \/ SayReady(w) \/ SayFailed(w)
  <2>1. /\ wpc[w] \in DoneSteps /\ wpc[w] # "idle" /\ Finish(w)
        /\ UNCHANGED <<message, status, lost>>
    BY <1>11 DEF SayRejected, SayReady, SayFailed, DoneSteps
  <2>2. ~Undecided(j)
    BY <2>1 DEF Protocol, VerdictInOrder
  <2>3. /\ j \in Jobs /\ RunMap[j] = "running"
        /\ RunMap' = [RunMap EXCEPT ![j] = "over"]
    BY <1>3, <2>1 DEF RunAt, RunBegins, DoneSteps
  <2> QED BY <2>1, <2>2, <2>3 DEF Contract!End, Contract!Undecided, Undecided, RunMap
<1>12. CASE ConnectFails(w) \/ Crash(w)
  BY <1>6, <1>12 DEF ConnectFails, Crash
<1> QED BY <1>4, <1>5, <1>7, <1>8, <1>9, <1>10, <1>11, <1>12 DEF Advance

\* A request step is a step of the contract or a stutter.
LEMMA ApiKeepsContract ==
  Protocol /\ ApiNext /\ UNCHANGED workerVars => [Contract!Next]_Contract!cvars
<1> DEFINE Abstract(j) == \/ Contract!Create(j) \/ Contract!Submit(j) \/ Contract!Break(j)
                          \/ Contract!Finalize(j) \/ Contract!Delete(j)
           Stutter == UNCHANGED <<status, RunMap, lost>>
<1> SUFFICES ASSUME Protocol, UNCHANGED workerVars, ApiNext
             PROVE  Stutter \/ \E j \in Jobs : Abstract(j)
  BY DEF Contract!Next, Contract!cvars, RunMap
<1> USE DEF storeVars, dbVars, queueVars, workerVars
<1>1. ASSUME UNCHANGED message PROVE RunMap' = RunMap
  BY <1>1, RunsUnchanged
<1>2. ASSUME NEW r \in Requests, NEW j \in Jobs, CreateJob(r, j) PROVE Contract!Create(j)
  BY <1>1, <1>2 DEF CreateJob, InsertJob, Contract!Create, RunMap
<1>3. ASSUME NEW r \in Requests, NEW j \in Jobs, Finalize(r, j) PROVE Contract!Finalize(j)
  BY <1>1, <1>3 DEF Finalize, FinalizeRow, Contract!Finalize, Contract!HasRecord, RunMap
<1>4. ASSUME NEW r \in Requests, Enqueue(r) PROVE Contract!Submit(ajob[r]) /\ ajob[r] \in Jobs
  <2>1. /\ ajob[r] \in Jobs /\ message[ajob[r]] = "unsent" /\ status[ajob[r]] # "unborn"
        /\ message' = [message EXCEPT ![ajob[r]] = "queued"]
        /\ UNCHANGED <<status, lost, wpc, wjob>>
    BY <1>4 DEF Enqueue, SendTask, Go, Protocol, Placed, OneSender, TypeOK, ApiTypeOK
  <2>2. RunMap' = [RunMap EXCEPT ![ajob[r]] = "waiting"]
    <3>1. PICK j \in Jobs : ajob[r] = j
      BY <2>1
    <3>2. RunOf(j)' = "waiting"
      BY <2>1, <3>1 DEF RunOf, Protocol, TypeOK, StoreTypeOK
    <3>3. \A k \in Jobs \ {j} : RunOf(k)' = RunOf(k)
      BY <2>1, <3>1 DEF RunOf, Runs, Running, Protocol, TypeOK, StoreTypeOK
    <3> QED BY <3>1, <3>2, <3>3 DEF RunMap
  <2>3. RunMap[ajob[r]] = "none"
    BY <2>1 DEF RunMap, RunOf
  <2> QED BY <2>1, <2>2, <2>3 DEF Contract!Submit, RunMap
<1>5. ASSUME NEW r \in Requests, DeleteRow(r)
      PROVE  Stutter \/ (Contract!Delete(ajob[r]) /\ ajob[r] \in Jobs)
  <2>1. ajob[r] \in Jobs
    BY <1>5 DEF DeleteRow, Go, Protocol, Placed, TypeOK, ApiTypeOK
  <2>2. UNCHANGED status \/ (Exists(ajob[r]) /\ status' = [status EXCEPT ![ajob[r]] = "deleted"])
    BY <1>5 DEF DeleteRow, DeleteJobRow, Protocol, TypeOK, StoreTypeOK
  <2> QED BY <1>1, <1>5, <2>1, <2>2
          DEF DeleteRow, DeleteJobRow, Contract!Delete, Contract!HasRecord, RunMap
<1>6. ASSUME NEW r \in Requests, Abort(r)
      PROVE  Stutter \/ (Contract!Break(ajob[r]) /\ ajob[r] \in Jobs)
  <2>1. CASE apc[r] \in EnqueueSteps
    <3>1. ajob[r] \in Jobs /\ RunMap[ajob[r]] = "none"
      BY <2>1 DEF Protocol, Placed, OneSender, TypeOK, ApiTypeOK, RunMap, RunOf
    <3>2. RunMap' = [RunMap EXCEPT ![ajob[r]] = "none"]
      BY <1>1, <1>6, <3>1 DEF Abort, RunMap
    <3> QED BY <1>6, <2>1, <3>1, <3>2 DEF Abort, Lose, Contract!Break, RunMap
  <2>2. CASE apc[r] \notin EnqueueSteps
    BY <1>1, <1>6, <2>2 DEF Abort
  <2> QED BY <2>1, <2>2
<1>7. ASSUME NEW r \in Requests,
             \/ \E j \in Jobs : DeleteJob(r, j)
             \/ Reset(r) \/ Audit(r) \/ DeleteRoutes(r) \/ DropFk(r)
             \/ Truncate(r) \/ Forget(r)
      PROVE  Stutter
  BY <1>1, <1>7 DEF DeleteJob, Reset, Audit, DeleteRoutes, DropFk, Truncate, Forget,
     ClearAssignments, ClearRoutes, DropRouteFk, TruncateReference
<1>8. CASE PickerDelete
  BY <1>1, <1>8 DEF PickerDelete, DeleteTask, DeleteFieldman
<1> QED BY <1>2, <1>3, <1>4, <1>5, <1>6, <1>7, <1>8 DEF ApiNext, Continue

\* The job service implements JobContract: a job runs at most once, only its run
\* decides it, and once the run is over nothing but a finalize or a delete
\* writes its status.  (vrp_tasks.py 118-700, vrp_service.py 202-227)
THEOREM Implements == Spec => KeepsContract
<1>1. Protocol /\ Protocol' /\ [Next]_vars => [Contract!Next]_Contract!cvars
  <2>1. UNCHANGED vars => UNCHANGED Contract!cvars
    BY RunsUnchanged DEF vars, storeVars, dbVars, queueVars, workerVars, Contract!cvars, RunMap
  <2> QED BY <2>1, WorkerKeepsContract, ApiKeepsContract DEF Next
<1> QED BY <1>1, InitContract, ProtocolHolds, PTL DEF Spec, KeepsContract, Contract!Spec
=============================================================================
