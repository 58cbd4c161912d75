---------------------------- MODULE JobContract -----------------------------
(***************************************************************************)
(* What the job service promises about a job's record, whatever the order  *)
(* of requests and worker steps: a job is run at most once; only its run   *)
(* starts it or decides it, and no status is written once the run is over  *)
(* except by finalizing or deleting; a run that ends in order leaves a     *)
(* verdict.  A job that infrastructure failures cut off is in `lost`.      *)
(*                                                                         *)
(* The contract does NOT promise that a finalized job stays finalized: a   *)
(* job may be finalized before its run is over, and the run then goes on   *)
(* to write its own status.                                                *)
(***************************************************************************)
CONSTANT Jobs

VARIABLES record, \* the status of each job's record, "unborn", or "deleted"
          run,    \* "none", "waiting" for a worker, "running" or "over"
          lost    \* the jobs whose run a failure prevented or cut short

cvars == <<record, run, lost>>

HasRecord(j) == record[j] \in {"queued", "started", "ready", "failed", "finalized"}
Undecided(j) == record[j] \in {"queued", "started"}

Init ==
  /\ record = [j \in Jobs |-> "unborn"]
  /\ run = [j \in Jobs |-> "none"]
  /\ lost = {}

Create(j) ==
  /\ record[j] = "unborn"
  /\ record' = [record EXCEPT ![j] = "queued"]
  /\ UNCHANGED <<run, lost>>

Submit(j) ==
  /\ record[j] # "unborn" /\ run[j] = "none"
  /\ run' = [run EXCEPT ![j] = "waiting"]
  /\ UNCHANGED <<record, lost>>

\* A run whose first call fails begins without marking the record.
Start(j) ==
  /\ run[j] = "waiting"
  /\ run' = [run EXCEPT ![j] = "running"]
  /\ \/ HasRecord(j) /\ record' = [record EXCEPT ![j] = "started"]
     \/ UNCHANGED record
  /\ UNCHANGED lost

Decide(j) ==
  /\ run[j] = "running" /\ HasRecord(j)
  /\ \E verdict \in {"ready", "failed"} :
        record' = [record EXCEPT ![j] = verdict]
  /\ UNCHANGED <<run, lost>>

End(j) ==
  /\ run[j] = "running" /\ ~Undecided(j)
  /\ run' = [run EXCEPT ![j] = "over"]
  /\ UNCHANGED <<record, lost>>

Break(j) ==
  /\ lost' = lost \cup {j}
  /\ run' = [run EXCEPT ![j] = IF @ = "none" THEN "none" ELSE "over"]
  /\ UNCHANGED record

Finalize(j) ==
  /\ HasRecord(j) /\ record[j] # "finalized"
  /\ record' = [record EXCEPT ![j] = "finalized"]
  /\ UNCHANGED <<run, lost>>

Delete(j) ==
  /\ HasRecord(j)
  /\ record' = [record EXCEPT ![j] = "deleted"]
  /\ UNCHANGED <<run, lost>>

Next == \E j \in Jobs :
  \/ Create(j) \/ Submit(j) \/ Start(j) \/ Decide(j)
  \/ End(j) \/ Break(j) \/ Finalize(j) \/ Delete(j)

Spec == Init /\ [][Next]_cvars
=============================================================================
