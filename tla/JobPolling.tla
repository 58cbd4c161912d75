----------------------------- MODULE JobPolling -----------------------------
(***************************************************************************)
(* The client that created a job and polls GET /jobs/{id}, one request a   *)
(* second, until a status it knows as final arrives or its attempts run    *)
(* out.  The answers are JobCache's: an entry up to a minute old, or the   *)
(* row as it was when the request read it.                                 *)
(***************************************************************************)
EXTENDS JobCache

VARIABLE polled \* the job that each client polls, or None

clientVars == <<allVars, polled>>

\* The requests in flight are JobCache's, each that of the client of its name.
Polling(s) == polled[s] # None

StartPolling(s, j) ==
  /\ ~Polling(s) /\ status[j] # "unborn" /\ spc[s] = "idle"
  /\ polled' = [polled EXCEPT ![s] = j]
  /\ UNCHANGED allVars

\* Mutant: the client knows the word of an older worker only.
Final_Completed(answer) == answer \in {"completed", "failed"}

\* "finalized" is an answer like "started": the client asks again.
Final(answer) == answer \in {"completed", "ready", "failed"}

Hear(s, answer) ==
  polled' = [polled EXCEPT ![s] = IF Final(answer) THEN None ELSE @]

PollHit(s) ==
  /\ Polling(s) /\ spc[s] = "idle"
  /\ statusCache[polled[s]] # None /\ Hear(s, statusCache[polled[s]])
  /\ UNCHANGED allVars

PollMiss(s) ==
  /\ Polling(s) /\ MissStatus(s, polled[s])
  /\ UNCHANGED <<vars, previewVars, polled>>

\* A 404, in ReadStatus, is an error to the client, which asks again.
PollRead(s) == Polling(s) /\ ReadStatus(s) /\ UNCHANGED <<vars, previewVars, polled>>

PollSet(s) ==
  /\ Polling(s) /\ SetStatus(s) /\ Hear(s, sread[s])
  /\ UNCHANGED <<vars, previewVars>>

\* The 120 attempts are used up.
GiveUp(s) ==
  /\ Polling(s) /\ spc[s] = "idle"
  /\ polled' = [polled EXCEPT ![s] = None]
  /\ UNCHANGED allVars

PollNext(s) == PollHit(s) \/ PollMiss(s) \/ PollRead(s) \/ PollSet(s)

\* Requests of clients that do not poll, and the expiry of entries.
OthersNext ==
  /\ StatusNext /\ UNCHANGED <<vars, previewVars, polled>>
  /\ \A s \in StatusReaders : Polling(s) => spc'[s] = spc[s]

PollInit == polled = [s \in StatusReaders |-> None]

ClientNext ==
  \/ \E s \in StatusReaders :
        PollNext(s) \/ GiveUp(s) \/ \E j \in Jobs : StartPolling(s, j)
  \/ OthersNext
  \/ Invalidate /\ UNCHANGED polled
  \/ Next /\ UNCHANGED <<cacheVars, polled>>

\* The browser and the event loop go on with a poll or another request, and every
\* entry has a time to live; jobs, workers and writing requests may stop anywhere,
\* and nobody has to give up.
FairClientSpec ==
  /\ Init /\ CacheInit /\ PollInit /\ [][ClientNext]_clientVars
  /\ \A s \in StatusReaders :
        WF_clientVars(PollNext(s)) /\ WF_clientVars(FinishStatus(s) /\ OthersNext)
  /\ \A j \in Jobs : WF_clientVars(ExpireStatus(j) /\ OthersNext)

-----------------------------------------------------------------------------
\* A client does not poll for ever a job that stays ready or failed: it reads that
\* status in spite of the entry that its own first polls cached, of a run that
\* invalidates before it writes "ready" and not at all before "failed", and of
\* Redis calls that fail.  (app.js 1302-1367, vrp_service.py 231-264, vrp_tasks.py
\* 672-696)  A job that stays finalized is polled until the attempts run out.
PollersAreTold ==
  \A s \in StatusReaders, j \in Jobs :
    ~<>[](polled[s] = j /\ status[j] \in {"ready", "failed"})
=============================================================================
