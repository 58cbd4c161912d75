------------------------ MODULE PartitionRun_proofs -------------------------
(***************************************************************************)
(* Proofs about PartitionRun, for any number of partitions, permits,       *)
(* connections, attempts and routes.                                       *)
(***************************************************************************)
EXTENDS PartitionRun, FiniteSetTheorems, SequenceTheorems, TLAPS

USE PartitionAssumption DEF Partitions, Inside, Stages

-----------------------------------------------------------------------------
(* The permits: how many are free is known from who is inside, and so is   *)
(* that a partition that leaves finds room for the one it returns.         *)

Typed == RunTypeOK /\ PermitsReturn

\* The partitions under way are finitely many.
LEMMA UnderWayFinite == IsFiniteSet(UnderWay) /\ Cardinality(UnderWay) \in Nat
<1>1. IsFiniteSet(Partitions)
  BY FS_Interval
<1> QED BY <1>1, FS_Subset, FS_CardinalityType DEF UnderWay

\* New calls are calls.
LEMMA FreshCalls ==
  ASSUME NEW k \in Nat, NEW at \in {"queued", "wanting"}
  PROVE  Fresh(k, at) \in Seq(Call)
<1>1. [at |-> at, try |-> 1] \in Call
  BY DEF Call
<1> QED BY <1>1 DEF Fresh

\* Every permit is free at first.
LEMMA InitTyped == Init => Typed
<1> SUFFICES ASSUME Init PROVE Typed
  OBVIOUS
<1>1. UnderWay = {}
  BY DEF Init, UnderWay
<1>2. PermitsReturn
  BY <1>1, FS_EmptySet DEF Init, PermitsReturn
<1>3. <<>> \in Seq(Call)
  OBVIOUS
<1> QED BY <1>2, <1>3 DEF Init, Typed, RunTypeOK

\* A partition that goes inside takes a permit.
LEMMA EnterKeepsTyped ==
  ASSUME Typed, NEW p \in Partitions, Enter(p) PROVE Typed'
<1>1. PICK k \in MatrixCalls : GoTo(p, "matrix", Fresh(k, "wanting"))
  BY DEF Enter
<1>2. Fresh(k, "wanting") \in Seq(Call)
  BY FreshCalls
<1>3. RunTypeOK'
  BY <1>1, <1>2 DEF Enter, GoTo, Typed, RunTypeOK
<1>4. UnderWay' = UnderWay \cup {p} /\ p \notin UnderWay
  BY <1>1 DEF Enter, GoTo, UnderWay, Typed, RunTypeOK
<1>5. Cardinality(UnderWay)' = Cardinality(UnderWay) + 1
  BY <1>4, UnderWayFinite, FS_AddElement
<1>6. PermitsReturn'
  BY <1>5, UnderWayFinite DEF Enter, Typed, PermitsReturn, RunTypeOK
<1> QED BY <1>3, <1>6 DEF Typed

\* One that leaves returns it.
LEMMA LeaveKeepsTyped ==
  ASSUME Typed, NEW p \in Partitions, stage[p] \in Inside,
         NEW s \in Stages \ Inside, slots' = slots + 1, GoTo(p, s, calls[p])
  PROVE  Typed'
<1>1. UnderWay' = UnderWay \ {p} /\ p \in UnderWay
  BY DEF GoTo, UnderWay, Typed, RunTypeOK
<1>2. Cardinality(UnderWay)' = Cardinality(UnderWay) - 1
  BY <1>1, UnderWayFinite, FS_RemoveElement
<1>3. PermitsReturn'
  BY <1>2, UnderWayFinite DEF Typed, PermitsReturn, RunTypeOK
<1>4. slots' \in 0..Slots
  <2>1. Cardinality(UnderWay) # 0
    BY <1>1, UnderWayFinite, FS_EmptySet
  <2> QED BY <2>1, UnderWayFinite DEF PermitsReturn, Typed, RunTypeOK
<1>5. RunTypeOK'
  BY <1>4 DEF GoTo, Typed, RunTypeOK
<1> QED BY <1>3, <1>5 DEF Typed

\* One that goes from step to step, or stays outside, changes no permit.
LEMMA MoveKeepsTyped ==
  ASSUME Typed, NEW p \in Partitions, NEW s \in Stages,
         s \in Inside <=> stage[p] \in Inside, UNCHANGED slots,
         NEW cs \in Seq(Call), GoTo(p, s, cs)
  PROVE  Typed'
<1>1. UnderWay' = UnderWay
  BY DEF GoTo, UnderWay, Typed, RunTypeOK
<1> QED BY <1>1 DEF GoTo, Typed, RunTypeOK, PermitsReturn

\* What one call may do: it stays a call, "got" and "lost" are its ends, and
\* nothing else changes.
LEMMA CallSteps ==
  ASSUME RunTypeOK, NEW p \in Partitions, StepCall(p)
  PROVE  /\ job = "running" /\ UNCHANGED <<stage, slots, job, stored>>
         /\ calls' \in [Partitions -> Seq(Call)]
         /\ \A q \in Partitions : DOMAIN calls'[q] = DOMAIN calls[q]
         /\ \A q \in Partitions : \A c \in DOMAIN calls[q] :
              calls[q][c].at \in {"got", "lost"} => calls'[q][c] = calls[q][c]
<1>1. PICK c \in DOMAIN calls[p] :
        Acquire(p, c) \/ Connect(p, c) \/ Answer(p, c) \/ Retry(p, c) \/ GiveUp(p, c)
  BY DEF StepCall
<1>2. calls[p] \in Seq(Call) /\ calls[p][c] \in Call
  BY <1>1, ElementOfSeq DEF RunTypeOK
<1>3. /\ job = "running" /\ calls[p][c].at \notin {"got", "lost"}
      /\ \E call \in Call : Set(p, c, call)
  <2> DEFINE Ends(call) == /\ job = "running" /\ calls[p][c].at \notin {"got", "lost"}
                           /\ call \in Call /\ Set(p, c, call)
  <2> SUFFICES \E call : Ends(call)
    OBVIOUS
  <2>0. \A at \in {"queued", "wanting", "asking", "got", "lost"} :
          [calls[p][c] EXCEPT !.at = at] \in Call
    BY <1>2 DEF Call
  <2>1. CASE Acquire(p, c)
    BY <2>0, <2>1 DEF Acquire
  <2>2. CASE Connect(p, c)
    BY <2>0, <2>2 DEF Connect
  <2>3. CASE Answer(p, c)
    BY <2>0, <2>3 DEF Answer
  <2>4. CASE Retry(p, c)
    <3>1. [at |-> "wanting", try |-> calls[p][c].try + 1] \in Call
      BY <1>2, <2>4 DEF Retry, Call
    <3> QED BY <2>4, <3>1 DEF Retry, Transient
  <2>5. CASE GiveUp(p, c)
    BY <2>0, <2>5 DEF GiveUp, Transient
  <2> QED BY <1>1, <2>1, <2>2, <2>3, <2>4, <2>5
<1>4. PICK call \in Call : Set(p, c, call)
  BY <1>3
<1>5. [calls[p] EXCEPT ![c] = call] \in Seq(Call)
  BY <1>1, <1>2, ExceptSeq
<1>6. calls' = [calls EXCEPT ![p] = [calls[p] EXCEPT ![c] = call]]
  BY <1>4 DEF Set
<1> QED BY <1>3, <1>4, <1>5, <1>6 DEF Set, RunTypeOK

\* Typed is inductive.
LEMMA NextKeepsTyped == Typed /\ [Next]_vars => Typed'
<1> SUFFICES ASSUME Typed, [Next]_vars PROVE Typed'
  OBVIOUS
<1> USE DEF Typed
<1>1. ASSUME NEW p \in Partitions, Enter(p) PROVE Typed'
  BY <1>1, EnterKeepsTyped
<1>2. ASSUME NEW p \in Partitions, EnterEmpty(p) PROVE Typed'
  <2>1. <<>> \in Seq(Call)
    OBVIOUS
  <2> QED BY <1>2, <2>1, MoveKeepsTyped DEF EnterEmpty
<1>3. ASSUME NEW p \in Partitions, MatrixReady(p) PROVE Typed'
  <2>1. Fresh(1, "wanting") \in Seq(Call)
    BY FreshCalls
  <2> QED BY <1>3, <2>1, MoveKeepsTyped DEF MatrixReady
<1>4. ASSUME NEW p \in Partitions, Solved(p) PROVE Typed'
  <2>1. PICK k \in 0..MaxRoutes : GoTo(p, "routing", Fresh(k, "queued"))
    BY <1>4 DEF Solved
  <2>2. Fresh(k, "queued") \in Seq(Call)
    BY FreshCalls
  <2> QED BY <1>4, <2>1, <2>2, MoveKeepsTyped DEF Solved
<1>5. ASSUME NEW p \in Partitions, PartitionDone(p) PROVE Typed'
  BY <1>5, LeaveKeepsTyped DEF PartitionDone
<1>6. ASSUME NEW p \in Partitions, PartitionFails(p) PROVE Typed'
  BY <1>6, LeaveKeepsTyped DEF PartitionFails
<1>7. ASSUME NEW p \in Partitions, StepCall(p) PROVE Typed'
  BY <1>7, CallSteps DEF RunTypeOK, PermitsReturn, UnderWay
<1>8. CASE Collect
  <2>1. Rows \subseteq Partitions \X (Nat \ {0})
    <3>1. \A p \in Partitions : DOMAIN calls[p] \subseteq Nat \ {0}
      BY DEF RunTypeOK
    <3> QED BY <3>1 DEF Rows
  <2> QED BY <1>8, <2>1 DEF Collect, RunTypeOK, PermitsReturn, UnderWay
<1>9. CASE UNCHANGED vars
  BY <1>9 DEF vars, RunTypeOK, PermitsReturn, UnderWay
<1> QED BY <1>1, <1>2, <1>3, <1>4, <1>5, <1>6, <1>7, <1>8, <1>9 DEF Next, StepPartition

\* The coroutines' states stay in their domains, however many partitions there
\* are and whatever fails.  (vrp_tasks.py 627-667)
THEOREM TypeCorrect == Spec => []RunTypeOK
<1>1. Typed => RunTypeOK
  BY DEF Typed
<1> QED BY <1>1, InitTyped, NextKeepsTyped, PTL DEF Spec

\* No permit of partition_sem is lost or made up.  (vrp_tasks.py 627-633)
THEOREM NoPermitIsLost == Spec => []PermitsReturn
<1>1. Typed => PermitsReturn
  BY DEF Typed
<1> QED BY <1>1, InitTyped, NextKeepsTyped, PTL DEF Spec
-----------------------------------------------------------------------------
(* The results: what a partition has got when it is done or has failed, and *)
(* what the job has stored of it.                                           *)

Whole ==
  /\ \A p \in Partitions : stage[p] = "done" => AllGot(p)
  /\ \A p \in Partitions : stage[p] = "failed" =>
       \E c \in DOMAIN calls[p] : calls[p][c].at = "lost"
  /\ job # "running" => \A p \in Partitions : stage[p] \in {"done", "failed"}
  /\ job # "ready" => stored = {}
  /\ job = "ready" => stored = Rows
  /\ job = "raised" => Failed = Partitions

\* When as many partitions failed as there are, all of them did.
LEMMA AllFailed == Cardinality(Failed) = N => Failed = Partitions
<1>1. IsFiniteSet(Partitions) /\ Cardinality(Partitions) = N
  BY FS_Interval
<1>2. Failed \subseteq Partitions
  BY DEF Failed
<1> QED BY <1>1, <1>2, FS_Subset

\* A partition goes on with all its calls answered, or fails with one lost.
LEMMA StageKeepsWhole ==
  ASSUME RunTypeOK, Whole, NEW p \in Partitions, StepPartition(p) PROVE Whole'
<1>1. job = "running" /\ UNCHANGED <<job, stored>>
  BY DEF StepPartition, Enter, EnterEmpty, MatrixReady, Solved, PartitionDone,
         PartitionFails, GoTo
<1>2. PICK s, cs : /\ GoTo(p, s, cs)
                   /\ s = "done" => \A c \in DOMAIN cs : cs[c].at = "got"
                   /\ s = "failed" => \E c \in DOMAIN cs : cs[c].at = "lost"
  <2>1. CASE Enter(p) BY <2>1 DEF Enter
  <2>2. CASE EnterEmpty(p) BY <2>2 DEF EnterEmpty
  <2>3. CASE MatrixReady(p) BY <2>3 DEF MatrixReady
  <2>4. CASE Solved(p) BY <2>4 DEF Solved
  <2>5. CASE PartitionDone(p) BY <2>5 DEF PartitionDone, AllGot
  <2>6. CASE PartitionFails(p) BY <2>6 DEF PartitionFails
  <2> QED BY <2>1, <2>2, <2>3, <2>4, <2>5, <2>6 DEF StepPartition
<1>3. /\ stage'[p] = s /\ calls'[p] = cs
      /\ \A q \in Partitions \ {p} : stage'[q] = stage[q] /\ calls'[q] = calls[q]
  BY <1>2 DEF GoTo, RunTypeOK
<1> QED BY <1>1, <1>2, <1>3 DEF Whole, AllGot

\* Whole is inductive: a call that is got or lost is so for good.
LEMMA NextKeepsWhole == RunTypeOK /\ Whole /\ [Next]_vars => Whole'
<1> SUFFICES ASSUME RunTypeOK, Whole, [Next]_vars PROVE Whole'
  OBVIOUS
<1>1. ASSUME NEW p \in Partitions, StepPartition(p) PROVE Whole'
  BY <1>1, StageKeepsWhole
<1>2. ASSUME NEW p \in Partitions, StepCall(p) PROVE Whole'
  <2>0. /\ job = "running" /\ UNCHANGED <<stage, slots, job, stored>>
        /\ \A q \in Partitions : DOMAIN calls'[q] = DOMAIN calls[q]
        /\ \A q \in Partitions : \A c \in DOMAIN calls[q] :
             calls[q][c].at \in {"got", "lost"} => calls'[q][c] = calls[q][c]
    BY <1>2, CallSteps
  <2>1. ASSUME NEW q \in Partitions, stage[q] = "done" PROVE AllGot(q)'
    BY <2>0, <2>1 DEF Whole, AllGot
  <2>2. ASSUME NEW q \in Partitions, stage[q] = "failed"
        PROVE  \E c \in DOMAIN calls'[q] : calls'[q][c].at = "lost"
    BY <2>0, <2>2 DEF Whole
  <2> QED BY <2>0, <2>1, <2>2 DEF Whole
<1>3. CASE Collect
  <2>1. UNCHANGED <<stage, calls>> /\ Rows' = Rows /\ Failed' = Failed
    BY <1>3 DEF Collect, Rows, Failed
  <2>2. job' = "raised" => Failed = Partitions
    BY <1>3, AllFailed DEF Collect
  <2>3. job' \in {"raised", "ready"} /\ stored' = IF job' = "raised" THEN {} ELSE Rows
    BY <1>3 DEF Collect
  <2> QED BY <1>3, <2>1, <2>2, <2>3 DEF Collect, Whole, AllGot
<1>4. CASE UNCHANGED vars
  BY <1>4 DEF vars, Whole, AllGot, Rows, Failed
<1> QED BY <1>1, <1>2, <1>3, <1>4 DEF Next

\* Whole holds in every reachable state.
LEMMA WholeHolds == Spec => []Whole
<1>1. Init => Whole
  BY DEF Init, Whole, AllGot
<1> QED BY <1>1, NextKeepsWhole, TypeCorrect, PTL DEF Spec

\* A partition is all or nothing, and only a job whose partitions all lost a
\* call is raised.  (vrp_tasks.py 635-667)
THEOREM AllOrNothing == Spec => []PartitionsAreWhole
<1>1. Whole => PartitionsAreWhole
  BY DEF Whole, PartitionsAreWhole, Rows, Failed, AllGot
<1> QED BY <1>1, WholeHolds, PTL

\* Two numbers with the same position in different strides are not equal.
LEMMA StridesDiffer ==
  ASSUME NEW p \in Nat, NEW q \in Nat, NEW c \in 1..Stride, NEW d \in 1..Stride,
         RouteIndex(p, c) = RouteIndex(q, d)
  PROVE  p = q /\ c = d
<1>1. \A m, n \in Nat : m < n => m * Stride + Stride =< n * Stride
  <2> SUFFICES ASSUME NEW m \in Nat, NEW n \in Nat, m < n
               PROVE  m * Stride + Stride =< n * Stride
    OBVIOUS
  <2>1. PICK k \in Nat : n = m + 1 + k
    <3>1. n - m - 1 \in Nat /\ n = m + 1 + (n - m - 1)
      OBVIOUS
    <3> QED BY <3>1
  <2>2. n * Stride = m * Stride + Stride + k * Stride
    BY <2>1
  <2>3. k * Stride \in Nat /\ m * Stride \in Nat
    OBVIOUS
  <2> QED BY <2>2, <2>3
<1>2. p * Stride \in Nat /\ q * Stride \in Nat
  OBVIOUS
<1>3. p = q
  BY <1>1, <1>2 DEF RouteIndex
<1> QED BY <1>2, <1>3 DEF RouteIndex

\* Stored routes of at most Stride routes to a partition have distinct
\* route_index, whatever order the partitions end in.  (vrp_tasks.py 606-610)
THEOREM RouteIndexesDiffer == Spec => []IndexesDiffer
<1>1. RunTypeOK /\ Whole => IndexesDiffer
  <2> SUFFICES ASSUME RunTypeOK, Whole, \A p \in Partitions : Len(calls[p]) =< Stride,
                      NEW x \in stored, NEW y \in stored,
                      RouteIndex(x[1], x[2]) = RouteIndex(y[1], y[2])
               PROVE  x = y
    BY DEF IndexesDiffer
  <2>1. \A z \in stored : z[1] \in Partitions /\ z[2] \in DOMAIN calls[z[1]]
                          /\ z = <<z[1], z[2]>>
    BY DEF Whole, Rows
  <2>2. \A z \in stored : z[1] \in Nat /\ z[2] \in 1..Stride
    BY <2>1 DEF RunTypeOK
  <2>3. x[1] = y[1] /\ x[2] = y[2]
    BY <2>2, StridesDiffer
  <2> QED BY <2>1, <2>3
<1> QED BY <1>1, WholeHolds, TypeCorrect, PTL
=============================================================================
