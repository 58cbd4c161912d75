----------------------------- MODULE JobEvents ------------------------------
(***************************************************************************)
(* The events of a run, published on the Redis channel of its job, and the *)
(* WebSocket handler that passes them on to a client.  Redis keeps no      *)
(* history: what is published before the handler has subscribed, or after  *)
(* its connection broke, reaches nobody.  The handler waits for messages   *)
(* only, so it learns that its client left when it next sends to it.       *)
(***************************************************************************)
EXTENDS JobSystem

VARIABLES
  socket, \* the handler of a client that follows the job: "none", "open" once
          \* it has subscribed, or "left" by its client
  heard,  \* the last event that reached the client of the job, or "nothing"
  unsaid  \* ghost: the jobs whose last publish failed

eventVars == <<socket, heard, unsaid>>
systemVars == <<vars, eventVars>>

EventOf == [say_started |-> "job_started", say_rejected |-> "job_failed",
            say_ready |-> "job_ready", say_failed |-> "job_failed"]
SaySteps == DOMAIN EventOf

EventInit ==
  /\ socket = [j \in Jobs |-> "none"]
  /\ heard = [j \in Jobs |-> "nothing"]
  /\ unsaid = {}

-----------------------------------------------------------------------------
(* vrp_ws *)

\* A client connects, perhaps again, and its handler has subscribed; before that
\* the client hears nothing, as if it had not connected.
Subscribe(j) ==
  /\ socket[j] = "none"
  /\ socket' = [socket EXCEPT ![j] = "open"]
  /\ UNCHANGED <<heard, unsaid>>

Leave(j) ==
  /\ socket[j] = "open"
  /\ socket' = [socket EXCEPT ![j] = "left"]
  /\ UNCHANGED <<heard, unsaid>>

\* Redis, or the process, drops the connection: the `finally` of the handler.
Disconnect(j) ==
  /\ socket[j] # "none"
  /\ socket' = [socket EXCEPT ![j] = "none"]
  /\ UNCHANGED <<heard, unsaid>>

\* Mutant: the handler takes a client that is gone for a message that is not JSON.
Publish_Swallow(j, e) ==
  /\ heard' = [heard EXCEPT ![j] = IF socket[j] = "open" THEN e ELSE @]
  /\ UNCHANGED socket

\* send_json reaches the client or, when it is gone, raises and ends the handler.
Publish(j, e) ==
  /\ heard' = [heard EXCEPT ![j] = IF socket[j] = "open" THEN e ELSE @]
  /\ socket' = [socket EXCEPT ![j] = IF @ = "left" THEN "none" ELSE @]

-----------------------------------------------------------------------------
(* _notify_job *)

Say(w) == Publish(wjob[w], EventOf[wpc[w]]) /\ UNCHANGED unsaid

\* An exception of the publish, in the `try` or in the handler of exceptions;
\* the message may be out all the same.
Unsay(w) ==
  \/ Say(w)
  \/ /\ wpc[w] = "say_failed" \/ wpc'[w] = "except"
     /\ unsaid' = IF wpc[w] = "say_failed" THEN unsaid \cup {wjob[w]} ELSE unsaid
     /\ UNCHANGED <<socket, heard>>

WorkerStep(w) ==
  /\ Advance(w) /\ UNCHANGED apiVars
  /\ IF wpc[w] \in SaySteps THEN Unsay(w) ELSE UNCHANGED eventVars

\* A process killed while it publishes.
KilledStep(w) ==
  /\ Crash(w) /\ UNCHANGED apiVars
  /\ UNCHANGED eventVars \/ (wpc[w] \in SaySteps /\ Say(w))

SocketNext == \E j \in Jobs : Subscribe(j) \/ Leave(j) \/ Disconnect(j)

EventNext ==
  \/ \E w \in Workers : WorkerStep(w) \/ KilledStep(w)
  \/ \E w \in Workers, j \in Jobs : Take(w, j) /\ UNCHANGED <<apiVars, eventVars>>
  \/ ApiNext /\ UNCHANGED <<workerVars, eventVars>>
  \/ SocketNext /\ UNCHANGED vars

\* As in JobSystem; clients and connections come and go as they like.
EventFairness ==
  /\ \A w \in Workers : WF_systemVars(WorkerStep(w))
  /\ \A j \in Jobs :
        WF_systemVars((\E w \in Workers : Take(w, j)) /\ UNCHANGED <<apiVars, eventVars>>)
  /\ \A r \in Requests :
        WF_systemVars(Continue(r) /\ UNCHANGED <<workerVars, eventVars>>)

EventSpec == Init /\ EventInit /\ [][EventNext]_systemVars
FairEventSpec == EventSpec /\ EventFairness

-----------------------------------------------------------------------------
Outcomes == {"job_ready", "job_failed"}

\* A client that hears an outcome may fetch the job at once: the record is
\* decided before the event is published, whatever finalize, delete or reset do
\* meanwhile, and no later step takes the decision back.  (vrp_tasks.py 179-203,
\* 682-688 and 694-697, app.js 2893-2900)
OutcomeIsDecided ==
  \A j \in Jobs : heard[j] \in Outcomes => ~Undecided(j)

\* Every way out of a run announces its outcome: a client subscribed while the
\* job is undecided hears it, unless it leaves, its connection breaks, or the
\* run was killed or could not publish.  (vrp_tasks.py 179-203 and 683-697)
SubscribersAreTold ==
  \A j \in Jobs : socket[j] = "open" /\ Undecided(j) ~>
    heard[j] \in Outcomes \/ socket[j] # "open" \/ j \in lost \cup unsaid

\* A handler whose client left before the outcome ends with the job's next event
\* at the latest.  (One whose client leaves after it waits for ever: nothing more
\* is published.)  (v1/ws_routes.py 30-45)
AbandonedHandlersEnd ==
  \A j \in Jobs : socket[j] = "left" /\ Undecided(j) ~>
    socket[j] # "left" \/ j \in lost \cup unsaid
=============================================================================
