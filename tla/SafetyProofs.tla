---------------------------- MODULE SafetyProofs -----------------------------
(***************************************************************************)
(* What holds in every environment: for every number of jobs, workers,     *)
(* slots and schedulers and every budget of disturbances.  The reaper may  *)
(* rescue a job whose worker is alive, the answer of a COMMIT may get      *)
(* lost, two processes may share a WORKER_ID.                              *)
(*                                                                         *)
(* The fencing token (schema.sql:111-120, worker/index.ts:106-120).  What  *)
(* its two theorems state is not inductive: it says nothing of the leases  *)
(* that executions still hold.  FenceInv adds that no running execution    *)
(* holds a lease from the future, none that was recorded already, and no   *)
(* two of them the same.                                                   *)
(*                                                                         *)
(* No id is in Redis or in the hands of a process without its row in       *)
(* Postgres.  NoGhost says nothing of the id an API request has in its     *)
(* hand, which the LPUSH is about to put into the pending list.  GhostInv  *)
(* adds it.  Rows are never deleted, so an id that is known stays known,   *)
(* and every hand-over takes its id from a place where all ids are known.  *)
(***************************************************************************)
EXTENDS TypeProofs

-----------------------------------------------------------------------------
(* The fencing token: the inductive invariant.                             *)

Running(s) == exec[s].pc = "run"
Lease(s)   == exec[s].lease

LeasesPast ==
  \A s \in Slots : Running(s) => Lease(s) <= row[Job(s)].lease

LeasesUnused ==
  \A s \in Slots : Running(s) =>
    \A i \in DOMAIN effects[Job(s)] : effects[Job(s)][i] # Lease(s)

LeasesDistinct ==
  \A s, t \in Slots :
    Running(s) /\ Running(t) /\ Job(s) = Job(t) /\ s # t => Lease(s) # Lease(t)

EffectsPast ==
  \A j \in Jobs : \A i \in DOMAIN effects[j] : effects[j][i] <= row[j].lease

EffectsIncreasing ==
  \A j \in Jobs : \A i, k \in DOMAIN effects[j] : i < k => effects[j][i] < effects[j][k]

SucceededRecorded ==
  \A j \in Jobs : row[j].status = "succeeded" =>
    effects[j] # <<>> /\ Last(effects[j]) = row[j].lease

NoLeaseYet == \A j \in Jobs : row[j].status = "none" => row[j].lease = 0

FenceInv ==
  /\ LeasesPast /\ LeasesUnused /\ LeasesDistinct
  /\ EffectsPast /\ EffectsIncreasing /\ SucceededRecorded /\ NoLeaseYet

-----------------------------------------------------------------------------
(* Three kinds of step.  Most are quiet: they record nothing, change no    *)
(* lease and start no execution.  The others are a claim that finds its    *)
(* row claimable, and the success transaction.                             *)

Quiet ==
  /\ effects' = effects
  /\ \A j \in Jobs : /\ row'[j].lease = row[j].lease
                     /\ row'[j].status \in {"none", "succeeded"}
                          => row'[j].status = row[j].status
  /\ \A s \in Slots : exec'[s].pc = "run" => exec'[s] = exec[s]

\* The UPDATEs but the claim and the success keep the lease, and none makes a
\* row succeeded.
LEMMA QuietRows ==
  ASSUME NEW r \in Rows
  PROVE  /\ BuriedRow(r).lease = r.lease /\ BuriedRow(r).status = "dead"
         /\ ParkedRow(r).lease = r.lease /\ ParkedRow(r).status = "retrying"
         /\ PromotedRow(r).lease = r.lease /\ PromotedRow(r).status = "queued"
         /\ RescuedRow(r).lease = r.lease /\ RescuedRow(r).status = "queued"
         /\ ReplayedRow(r).lease = r.lease /\ ReplayedRow(r).status = "queued"
BY DEF Rows, BuriedRow, ParkedRow, PromotedRow, RescuedRow, ReplayedRow

\* An UPDATE of one row is quiet if it keeps the lease and the row does not
\* become a succeeded one.
LEMMA QuietUpdate ==
  ASSUME TypeInv, NEW j \in Jobs, NEW r,
         r.lease = row[j].lease,
         r.status \in {"none", "succeeded"} => r.status = row[j].status,
         row' = row \/ row' = [row EXCEPT ![j] = r]
  PROVE  \A i \in Jobs : /\ row'[i].lease = row[i].lease
                         /\ row'[i].status \in {"none", "succeeded"}
                              => row'[i].status = row[i].status
BY DEF TypeInv, TypeOK, StoresTypeOK

\* An execution that moves on to anything but its handler is quiet.
LEMMA QuietGoto ==
  ASSUME TypeInv, NEW s \in Slots, NEW to \in ExecStates \ {"run"}, Goto(s, to)
  PROVE  \A t \in Slots : exec'[t].pc = "run" => exec'[t] = exec[t]
BY DEF TypeInv, TypeOK, WorkerTypeOK, Execs, Goto

\* A quiet step keeps the fence.
LEMMA QuietKeepsFence ==
  ASSUME TypeInv, FenceInv, Quiet
  PROVE  FenceInv'
<1> USE DEF Quiet, FenceInv
<1>1. \A s \in Slots : Running(s)' => Running(s) /\ Job(s)' = Job(s) /\ Lease(s)' = Lease(s)
  BY DEF Running, Job, Lease
<1>2. \A s \in Slots : Running(s) => Job(s) \in Jobs
  BY DEF TypeInv, Assigned, SlotAssigned, Running
<1>3. LeasesPast'
  BY <1>1, <1>2 DEF LeasesPast
<1>4. LeasesUnused'
  BY <1>1, <1>2 DEF LeasesUnused
<1>5. LeasesDistinct'
  BY <1>1 DEF LeasesDistinct
<1>6. EffectsPast' /\ EffectsIncreasing'
  BY DEF EffectsPast, EffectsIncreasing
<1>7. SucceededRecorded' /\ NoLeaseYet'
  BY DEF SucceededRecorded, NoLeaseYet
<1> QED
  BY <1>3, <1>4, <1>5, <1>6, <1>7

\* A claim gives the execution a lease that is later than every one before.
LEMMA ClaimKeepsFence ==
  ASSUME TypeInv, FenceInv, NEW s \in Slots, Claim(s), Claimable(row[Job(s)])
  PROVE  FenceInv'
<1> DEFINE j == Job(s)
<1>1. /\ j \in Jobs
      /\ row[j] \in Rows
      /\ row \in [Jobs -> Rows]
      /\ row' = [row EXCEPT ![j] = ClaimedRow(row[j])]
      /\ effects' = effects
      /\ exec \in [Slots -> Execs]
      /\ exec' = [exec EXCEPT ![s] = [pc |-> "run", job |-> j,
                                      lease |-> row'[j].lease,
                                      attempts |-> row'[j].attempts]]
  BY DEF Claim, TypeInv, TypeOK, StoresTypeOK, WorkerTypeOK, Assigned, SlotAssigned
<1>2. /\ row[j].lease \in Nat
      /\ row'[j].lease = row[j].lease + 1
      /\ row'[j].status = "running"
      /\ \A i \in Jobs \ {j} : row'[i] = row[i]
  BY <1>1 DEF Rows, ClaimedRow
<1>3. Running(s)' /\ Job(s)' = j /\ Lease(s)' = row[j].lease + 1
  BY <1>1, <1>2 DEF Running, Job, Lease
<1>4. \A t \in Slots \ {s} : Running(t)' = Running(t) /\ Job(t)' = Job(t) /\ Lease(t)' = Lease(t)
  BY <1>1 DEF Running, Job, Lease
<1>5. \A t \in Slots : Running(t) => Job(t) \in Jobs /\ Lease(t) \in Nat
  BY <1>1 DEF TypeInv, Assigned, SlotAssigned, Running, Lease, Execs
<1>6. \A i \in Jobs : row[i].lease \in Nat
  BY <1>1 DEF Rows
<1>7. \A i \in Jobs : \A k \in DOMAIN effects[i] : effects[i][k] \in Nat
  BY ElementOfSeq, LenProperties DEF TypeInv, TypeOK, StoresTypeOK
<1> HIDE DEF j
<1>8. LeasesPast'
  <2>1. ASSUME NEW t \in Slots \ {s}, Running(t)
        PROVE  Lease(t) <= row'[Job(t)].lease
    BY <2>1, <1>2, <1>5, <1>6 DEF FenceInv, LeasesPast
  <2> QED
    BY <2>1, <1>2, <1>3, <1>4 DEF LeasesPast
<1>9. LeasesUnused'
  <2>1. ASSUME NEW i \in DOMAIN effects[j]
        PROVE  effects[j][i] # row[j].lease + 1
    BY <1>1, <1>2, <1>7 DEF FenceInv, EffectsPast
  <2> QED
    BY <2>1, <1>1, <1>3, <1>4 DEF FenceInv, LeasesUnused
<1>10. LeasesDistinct'
  <2>1. ASSUME NEW t \in Slots \ {s}, Running(t), Job(t) = j
        PROVE  Lease(t) # row[j].lease + 1
    BY <2>1, <1>2, <1>5 DEF FenceInv, LeasesPast
  <2> QED
    BY <2>1, <1>3, <1>4 DEF FenceInv, LeasesDistinct
<1>11. EffectsPast'
  <2>1. ASSUME NEW i \in Jobs, NEW k \in DOMAIN effects[i]
        PROVE  effects[i][k] <= row'[i].lease
    BY <1>2, <1>6, <1>7 DEF FenceInv, EffectsPast
  <2> QED
    BY <2>1, <1>1 DEF EffectsPast
<1>12. EffectsIncreasing'
  BY <1>1 DEF FenceInv, EffectsIncreasing
<1>13. SucceededRecorded' /\ NoLeaseYet'
  BY <1>1, <1>2 DEF FenceInv, SucceededRecorded, NoLeaseYet
<1> QED
  BY <1>8, <1>9, <1>10, <1>11, <1>12, <1>13 DEF FenceInv

\* The success transaction records the owner only, and its execution is over.
LEMMA RecordKeepsFence ==
  ASSUME TypeInv, FenceInv, Fencing, NEW s \in Slots,
         Running(s), RecordSuccess(s), NEW to \in {"release", "fail"}, Goto(s, to)
  PROVE  FenceInv'
<1> DEFINE j == Job(s)
<1>1. /\ j \in Jobs /\ Lease(s) \in Nat
      /\ row \in [Jobs -> Rows]
      /\ effects \in [Jobs -> Seq(Nat)]
      /\ exec \in [Slots -> Execs]
  BY DEF TypeInv, TypeOK, StoresTypeOK, WorkerTypeOK, Assigned, SlotAssigned,
         Running, Lease, Execs
<1>2. \A t \in Slots : Running(t)' => t # s /\ Running(t) /\ exec'[t] = exec[t]
  BY <1>1 DEF Goto, Running
<1>3. CASE ~Owns(row[j], exec[s].lease)
  <2>1. row' = row /\ effects' = effects
    BY <1>3 DEF RecordSuccess, postgres
  <2>2. Quiet
    BY <1>2, <2>1 DEF Quiet, Running
  <2> QED
    BY <2>2, QuietKeepsFence
<1>4. CASE Owns(row[j], exec[s].lease)
  <2> DEFINE e == Append(effects[j], Lease(s))
  <2>1. row[j].lease = Lease(s)
    BY <1>4 DEF Owns, Lease
  <2>2. /\ row' = [row EXCEPT ![j] = SucceededRow(row[j])]
        /\ effects' = [effects EXCEPT ![j] = e]
    BY <1>4 DEF RecordSuccess, Lease
  <2>3. /\ row'[j].lease = row[j].lease /\ row'[j].status = "succeeded"
        /\ \A i \in Jobs \ {j} : row'[i] = row[i] /\ effects'[i] = effects[i]
        /\ effects'[j] = e
    BY <1>1, <2>2 DEF SucceededRow, Rows
  <2>4. /\ Len(effects[j]) \in Nat
        /\ DOMAIN effects[j] = 1..Len(effects[j])
        /\ DOMAIN e = 1..(Len(effects[j]) + 1)
        /\ e # <<>>
        /\ Last(e) = Lease(s)
        /\ e[Len(effects[j]) + 1] = Lease(s)
        /\ \A i \in DOMAIN effects[j] : e[i] = effects[j][i]
    <3>1. Len(effects[j]) \in Nat /\ DOMAIN effects[j] = 1..Len(effects[j])
      BY <1>1, LenProperties
    <3>2. /\ e \in Seq(Nat) /\ e # <<>>
          /\ Len(e) = Len(effects[j]) + 1
          /\ e[Len(effects[j]) + 1] = Lease(s)
          /\ \A i \in 1..Len(effects[j]) : e[i] = effects[j][i]
      <4>1. effects[j] \in Seq(Nat) /\ Lease(s) \in Nat
        BY <1>1
      <4> HIDE DEF j
      <4> QED
        BY <4>1, AppendProperties
    <3>3. DOMAIN e = 1..Len(e)
      <4> HIDE DEF e
      <4> QED
        BY <3>2, LenProperties
    <3> QED
      BY <3>1, <3>2, <3>3 DEF Last
  <2>5. \A i \in DOMAIN effects[j] : effects[j][i] \in Nat /\ effects[j][i] < Lease(s)
    <3>1. \A i \in DOMAIN effects[j] : effects[j][i] \in Nat
      BY <1>1, <2>4, ElementOfSeq
    <3> QED
      BY <1>1, <2>1, <3>1 DEF FenceInv, EffectsPast, LeasesUnused
  <2>6. \A t \in Slots : Running(t)' => /\ t # s /\ Running(t) /\ Job(t) \in Jobs
                                        /\ Job(t)' = Job(t) /\ Lease(t)' = Lease(t)
                                        /\ Job(t) = j => Lease(t) # Lease(s)
    BY <1>2 DEF FenceInv, LeasesDistinct, Job, Lease, TypeInv, Assigned, SlotAssigned, Running
  <2> HIDE DEF j, e
  <2>7. LeasesPast'
    BY <2>3, <2>6 DEF FenceInv, LeasesPast
  <2>8. LeasesUnused'
    <3>1. ASSUME NEW t \in Slots, Running(t)', Job(t) = j, NEW i \in DOMAIN e
          PROVE  e[i] # Lease(t)
      <4>1. CASE i \in DOMAIN effects[j]
        BY <3>1, <4>1, <2>4, <2>6 DEF FenceInv, LeasesUnused
      <4>2. CASE i = Len(effects[j]) + 1
        BY <3>1, <4>2, <2>4, <2>6
      <4> QED
        BY <3>1, <4>1, <4>2, <2>4
    <3> QED
      BY <3>1, <2>3, <2>6 DEF FenceInv, LeasesUnused
  <2>9. LeasesDistinct'
    BY <2>6 DEF FenceInv, LeasesDistinct
  <2>10. EffectsPast'
    <3>1. ASSUME NEW i \in DOMAIN e
          PROVE  e[i] <= row'[j].lease
      <4>1. CASE i \in DOMAIN effects[j]
        BY <4>1, <1>1, <2>1, <2>3, <2>4, <2>5
      <4>2. CASE i = Len(effects[j]) + 1
        BY <4>2, <1>1, <2>1, <2>3, <2>4
      <4> QED
        BY <3>1, <4>1, <4>2, <2>4
    <3> QED
      BY <3>1, <2>3 DEF FenceInv, EffectsPast
  <2>11. EffectsIncreasing'
    <3>1. ASSUME NEW i \in DOMAIN e, NEW k \in DOMAIN e, i < k
          PROVE  e[i] < e[k]
      <4>1. i \in DOMAIN effects[j]
        BY <3>1, <2>4
      <4>2. CASE k \in DOMAIN effects[j]
        BY <3>1, <4>1, <4>2, <1>1, <2>4 DEF FenceInv, EffectsIncreasing
      <4>3. CASE k = Len(effects[j]) + 1
        BY <4>1, <4>3, <2>4, <2>5
      <4> QED
        BY <3>1, <4>2, <4>3, <2>4
    <3> QED
      BY <3>1, <2>3 DEF FenceInv, EffectsIncreasing
  <2>12. SucceededRecorded' /\ NoLeaseYet'
    BY <2>1, <2>3, <2>4 DEF FenceInv, SucceededRecorded, NoLeaseYet
  <2> QED
    BY <2>7, <2>8, <2>9, <2>10, <2>11, <2>12 DEF FenceInv
<1> QED
  BY <1>3, <1>4

-----------------------------------------------------------------------------
(* Every action is of one of the three kinds.                              *)

\* The API, and time, are quiet: a submitted row has no lease yet.
LEMMA ApiFenceStep ==
  ASSUME TypeInv, FenceInv, ApiStep
  PROVE  Quiet
<1> USE DEF TypeInv, TypeOK, StoresTypeOK, ApiTypeOK, postgres, redis, stores,
            workerVars, Quiet
<1>a. exec' = exec
  BY DEF ApiStep
<1>1. ASSUME NEW r \in Requests, NEW j \in Jobs, Submit(r, j)
      PROVE  Quiet
  <2>1. row[j].lease = 0 /\ InsertedRow.lease = 0 /\ InsertedRow.status = "queued"
    BY <1>1 DEF Submit, FenceInv, NoLeaseYet, InsertedRow, NoRow
  <2> QED
    BY <1>a, <1>1, <2>1 DEF Submit
<1>2. ASSUME NEW r \in Requests, NEW j \in Jobs, Replay(r, j)
      PROVE  Quiet
  BY <1>a, <1>2, QuietRows DEF Replay
<1>3. ASSUME NEW r \in Requests, Enqueue(r)
      PROVE  Quiet
  BY <1>a, <1>3 DEF Enqueue
<1>4. ASSUME NEW r \in Requests, RequestDies(r)
      PROVE  Quiet
  BY <1>a, <1>4 DEF RequestDies
<1>5. ASSUME NEW j \in Jobs, GrowOld(j)
      PROVE  Quiet
  <2>1. row' = [row EXCEPT ![j] = [row[j] EXCEPT !.old = TRUE]] /\ effects' = effects
    BY <1>5 DEF GrowOld
  <2>2. /\ [row[j] EXCEPT !.old = TRUE].lease = row[j].lease
        /\ [row[j] EXCEPT !.old = TRUE].status = row[j].status
    BY DEF Rows
  <2> QED
    BY <1>a, <2>1, <2>2, QuietUpdate
<1> QED
  BY <1>1, <1>2, <1>3, <1>4, <1>5 DEF ApiStep

\* Every step of an execution keeps the fence: a claim and a success as shown
\* above, the others are quiet.
LEMMA SlotFenceStep ==
  ASSUME TypeInv, FenceInv, Fencing, NEW s \in Slots, SlotStep(s)
  PROVE  FenceInv'
<1> USE DEF TypeInv, TypeOK, StoresTypeOK, WorkerTypeOK, postgres, redis, stores
<1>1. CASE Take(s)
  <2>1. Quiet
    BY <1>1 DEF Take, Quiet, IdleExec
  <2> QED
    BY <2>1, QuietKeepsFence
<1>2. CASE Claim(s)
  <2>1. CASE Claimable(row[Job(s)])
    BY <1>2, <2>1, ClaimKeepsFence
  <2>2. CASE ~Claimable(row[Job(s)])
    <3>1. row' = row /\ effects' = effects /\ Goto(s, "release")
      BY <1>2, <2>2 DEF Claim
    <3>2. Quiet
      BY <3>1, QuietGoto DEF ExecStates, Quiet
    <3> QED
      BY <3>2, QuietKeepsFence
  <2> QED
    BY <2>1, <2>2
<1>3. CASE Succeed(s)
  BY <1>3, RecordKeepsFence DEF Succeed, Running
<1>4. CASE LoseCommitAnswer(s)
  BY <1>4, RecordKeepsFence DEF LoseCommitAnswer, Running
<1>5. CASE FailToCommit(s)
  <2>1. Quiet
    BY <1>5 DEF FailToCommit, Goto, Quiet
  <2> QED
    BY <2>1, QuietKeepsFence
<1>6. CASE Bury(s)
  <2> DEFINE r == BuriedRow(row[Job(s)])
  <2>1. Job(s) \in Jobs /\ row[Job(s)] \in Rows
    BY <1>6 DEF Bury, Failing, Assigned, SlotAssigned
  <2>2. r.lease = row[Job(s)].lease /\ r.status = "dead"
    BY <2>1, QuietRows
  <2>3. row' = row \/ row' = [row EXCEPT ![Job(s)] = r]
    BY <1>6 DEF Bury
  <2>4. effects' = effects /\ Goto(s, "release")
    BY <1>6 DEF Bury
  <2>5. \A t \in Slots : exec'[t].pc = "run" => exec'[t] = exec[t]
    BY <2>4, QuietGoto DEF ExecStates
  <2>6. Quiet
    <3> HIDE DEF r
    <3> QED
      BY <2>1, <2>2, <2>3, <2>4, <2>5, QuietUpdate DEF Quiet
  <2> QED
    BY <2>6, QuietKeepsFence
<1>7. CASE Park(s)
  <2> DEFINE r == ParkedRow(row[Job(s)])
  <2>1. Job(s) \in Jobs /\ row[Job(s)] \in Rows
    BY <1>7 DEF Park, Failing, Assigned, SlotAssigned
  <2>2. r.lease = row[Job(s)].lease /\ r.status = "retrying"
    BY <2>1, QuietRows
  <2>3. row' = row \/ row' = [row EXCEPT ![Job(s)] = r]
    BY <1>7 DEF Park
  <2>4. effects' = effects /\ (Goto(s, "release") \/ Goto(s, "zadd"))
    BY <1>7 DEF Park
  <2>5. \A t \in Slots : exec'[t].pc = "run" => exec'[t] = exec[t]
    BY <2>4, QuietGoto DEF ExecStates
  <2>6. Quiet
    <3> HIDE DEF r
    <3> QED
      BY <2>1, <2>2, <2>3, <2>4, <2>5, QuietUpdate DEF Quiet
  <2> QED
    BY <2>6, QuietKeepsFence
<1>8. CASE Schedule(s)
  <2>1. Quiet
    BY <1>8 DEF Schedule, Goto, Quiet
  <2> QED
    BY <2>1, QuietKeepsFence
<1>9. CASE Release(s)
  <2>1. Quiet
    BY <1>9 DEF Release, FreeSlot, IdleExec, Quiet
  <2> QED
    BY <2>1, QuietKeepsFence
<1>10. CASE Abandon(s)
  <2>1. Quiet
    BY <1>10 DEF Abandon, FreeSlot, IdleExec, Quiet
  <2> QED
    BY <2>1, QuietKeepsFence
<1> QED
  BY <1>1, <1>2, <1>3, <1>4, <1>5, <1>6, <1>7, <1>8, <1>9, <1>10 DEF SlotStep

\* A worker process outside its slots is quiet: recovering its own list and
\* dying end executions and start none.
LEMMA ProcFenceStep ==
  ASSUME TypeInv, NEW p \in Procs, ProcStep(p)
  PROVE  Quiet
<1> USE DEF TypeInv, TypeOK, StoresTypeOK, WorkerTypeOK, postgres, redis, stores,
            workerVars, Quiet
<1>1. CASE Start(p) \/ FindNoHeartbeat(p) \/ LeaveListAlone(p) \/ ReadOwnList(p)
           \/ MoveBackOwn(p) \/ StartBeating(p)
  BY <1>1 DEF Start, FindNoHeartbeat, LeaveListAlone, ReadOwnList, MoveBackOwn, StartBeating
<1>2. CASE RequeueOwn(p)
  BY <1>2, QuietRows DEF RequeueOwn
<1>3. CASE TakeUnanswered(p) \/ Beat(p) \/ Stop(p)
  BY <1>3 DEF TakeUnanswered, Beat, Stop
<1>4. CASE Drained(p) \/ Crash(p)
  BY <1>4 DEF Drained, Crash, IdleExec
<1> QED
  BY <1>1, <1>2, <1>3, <1>4 DEF ProcStep

\* The schedulers are quiet: a rescue, a promotion and a burial keep the lease,
\* and it is only the next claim that moves it.
LEMMA SchedFenceStep ==
  ASSUME TypeInv, SchedStep
  PROVE  Quiet
<1> USE DEF TypeInv, TypeOK, StoresTypeOK, postgres, redis, stores, workerVars, Quiet
<1>a. exec' = exec
  BY DEF SchedStep
<1>1. PICK d \in Schedulers : PassStep(d)
  BY DEF SchedStep
<1>2. CASE RequeueDue(d)
  BY <1>a, <1>2, QuietRows DEF RequeueDue
<1>3. CASE BuryLost(d)
  BY <1>a, <1>3, QuietRows DEF BuryLost
<1>4. CASE Rescue(d)
  BY <1>a, <1>4, QuietRows DEF Rescue
<1>5. CASE \/ \E j \in Jobs : ClaimDue(d, j)
           \/ PushDue(d) \/ BeginPass(d)
           \/ \E w \in WorkerIds : VisitList(d, w)
           \/ Peek(d) \/ Inspect(d) \/ Drop(d) \/ MoveBack(d) \/ EndReap(d)
  BY <1>a, <1>5
  DEF ClaimDue, PushDue, BeginPass, VisitList, Peek, Inspect, Drop, MoveBack, EndReap
<1>6. CASE \/ Query(d) \/ ReadPending(d) \/ ScanLists(d)
           \/ \E w \in WorkerIds : ReadList(d, w)
           \/ \E j \in Jobs : PushOrphan(d, j)
           \/ EndSweep(d) \/ Interrupt(d)
  BY <1>a, <1>6
  DEF Query, ReadPending, ScanLists, ReadList, PushOrphan, EndSweep, Interrupt
<1> QED
  BY <1>1, <1>2, <1>3, <1>4, <1>5, <1>6 DEF PassStep

-----------------------------------------------------------------------------
\* A fresh installation satisfies the invariant.
LEMMA FenceInit == Init => FenceInv
<1> SUFFICES ASSUME Init PROVE FenceInv
  OBVIOUS
<1>1. LeasesPast /\ LeasesUnused /\ LeasesDistinct
  BY DEF Init, WorkerInit, IdleExec, Running, LeasesPast, LeasesUnused, LeasesDistinct
<1>2. EffectsPast /\ EffectsIncreasing
  BY DEF Init, StoresInit, EffectsPast, EffectsIncreasing
<1>3. SucceededRecorded /\ NoLeaseYet
  BY DEF Init, StoresInit, NoRow, SucceededRecorded, NoLeaseYet
<1> QED
  BY <1>1, <1>2, <1>3 DEF FenceInv

\* Every step keeps it.
LEMMA FenceInductive ==
  ASSUME Fencing, TypeInv, FenceInv, [Next]_vars
  PROVE  FenceInv'
<1>1. CASE ApiStep
  BY <1>1, ApiFenceStep, QuietKeepsFence
<1>2. CASE WorkerStep
  <2>1. ASSUME NEW w \in WorkerIds, Expire(w)
        PROVE  Quiet
    BY <2>1 DEF Expire, workerVars, postgres, Quiet
  <2> QED
    BY <1>2, <2>1, SlotFenceStep, ProcFenceStep, QuietKeepsFence DEF WorkerStep
<1>3. CASE SchedStep
  BY <1>3, SchedFenceStep, QuietKeepsFence
<1>4. CASE UNCHANGED vars
  <2>1. Quiet
    BY <1>4 DEF vars, stores, workerVars, Quiet
  <2> QED
    BY <2>1, QuietKeepsFence
<1> QED
  BY <1>1, <1>2, <1>3, <1>4 DEF Next

\* So it holds always, while the lease is checked.
LEMMA FenceInvariant == Fencing /\ Spec => []FenceInv
<1> SUFFICES ASSUME Fencing PROVE Spec => []FenceInv
  OBVIOUS
<1>1. TypeInv /\ FenceInv /\ [Next]_vars => FenceInv'
  BY FenceInductive
<1> QED
  BY <1>1, FenceInit, TypeInvariant, PTL DEF Spec

\* With fencing on, executions are recorded in the order of their claims: once
\* an execution has been recorded, none that was superseded before it ever is,
\* however late its transaction arrives (schema.sql:115-120).
THEOREM FencingOrdersEffects == Spec => []EffectsFenced
<1>1. CASE Fencing
  <2>1. FenceInv => EffectsFenced
    BY DEF FenceInv, EffectsIncreasing, EffectsFenced
  <2> QED
    BY <1>1, <2>1, FenceInvariant, PTL
<1>2. CASE ~Fencing
  <2>1. EffectsFenced
    BY <1>2 DEF EffectsFenced
  <2> QED
    BY <2>1, PTL
<1> QED
  BY <1>1, <1>2

\* With fencing on, a job that says succeeded was recorded by the execution
\* that holds its lease now (internals.md:241-243).
THEOREM SuccessIsTheOwners == Spec => []SucceededByItsOwner
<1>1. CASE Fencing
  <2>1. FenceInv => SucceededByItsOwner
    BY DEF FenceInv, SucceededRecorded, SucceededByItsOwner
  <2> QED
    BY <1>1, <2>1, FenceInvariant, PTL
<1>2. CASE ~Fencing
  <2>1. SucceededByItsOwner
    BY <1>2 DEF SucceededByItsOwner
  <2> QED
    BY <2>1, PTL
<1> QED
  BY <1>1, <1>2

-----------------------------------------------------------------------------
(* Nothing is a ghost: the inductive invariant.                            *)

Known == {j \in Jobs : Recorded(j)}

QueuesKnown ==
  /\ pending \in Seq(Known)
  /\ \A w \in WorkerIds : processing[w] \in Seq(Known)
  /\ delayed \subseteq Known

SlotsKnown  == \A s \in Slots : exec[s].job \in Known \cup {NoJob}
BootsKnown  == \A p \in Procs : stranded[p] \subseteq Known
PassesKnown == \A d \in Schedulers : /\ sched[d].job \in Known \cup {NoJob}
                                     /\ sched[d].cand \subseteq Known
HandsKnown  == \A r \in Requests : api[r] \in Known \cup {NoJob}

GhostInv == QueuesKnown /\ SlotsKnown /\ BootsKnown /\ PassesKnown /\ HandsKnown

-----------------------------------------------------------------------------
(* Rows are never deleted.                                                 *)

\* No SQL statement leaves a row without a status.
LEMMA StatusWritten ==
  ASSUME NEW r \in Rows
  PROVE  /\ InsertedRow.status # "none"
         /\ ClaimedRow(r).status # "none" /\ SucceededRow(r).status # "none"
         /\ BuriedRow(r).status # "none" /\ ParkedRow(r).status # "none"
         /\ PromotedRow(r).status # "none" /\ RescuedRow(r).status # "none"
         /\ ReplayedRow(r).status # "none"
BY DEF Rows, InsertedRow, NoRow, ClaimedRow, SucceededRow, BuriedRow, ParkedRow,
       PromotedRow, RescuedRow, ReplayedRow

\* An UPDATE of one row forgets no job.
LEMMA KnownUpdate ==
  ASSUME TypeInv, NEW j \in Jobs, NEW r,
         r.status # "none" \/ r.status = row[j].status,
         row' = row \/ row' = [row EXCEPT ![j] = r]
  PROVE  Known \subseteq Known'
BY DEF TypeInv, TypeOK, StoresTypeOK, Known, Recorded

\* Neither does a step of the API,
LEMMA ApiForgetsNothing ==
  ASSUME TypeInv, ApiStep
  PROVE  Known \subseteq Known'
<1> USE DEF TypeInv, TypeOK, StoresTypeOK, postgres, redis
<1>1. ASSUME NEW r \in Requests, NEW j \in Jobs, Submit(r, j)
      PROVE  Known \subseteq Known'
  BY <1>1, StatusWritten, KnownUpdate, RowsKept DEF Submit
<1>2. ASSUME NEW r \in Requests, NEW j \in Jobs, Replay(r, j)
      PROVE  Known \subseteq Known'
  BY <1>2, StatusWritten, KnownUpdate DEF Replay
<1>3. ASSUME NEW r \in Requests, Enqueue(r) \/ RequestDies(r)
      PROVE  Known \subseteq Known'
  BY <1>3 DEF Enqueue, RequestDies, Known, Recorded
<1>4. ASSUME NEW j \in Jobs, GrowOld(j)
      PROVE  Known \subseteq Known'
  <2> DEFINE r == [row[j] EXCEPT !.old = TRUE]
  <2>1. r.status = row[j].status
    BY DEF Rows
  <2>2. row' = [row EXCEPT ![j] = r]
    BY <1>4 DEF GrowOld
  <2> QED
    <3> HIDE DEF r
    <3> QED
      BY <2>1, <2>2, KnownUpdate
<1> QED
  BY <1>1, <1>2, <1>3, <1>4 DEF ApiStep

\* ... a step of an execution,
LEMMA SlotForgetsNothing ==
  ASSUME TypeInv, NEW s \in Slots, SlotStep(s)
  PROVE  Known \subseteq Known'
<1> DEFINE j == Job(s)
<1>a. exec[s].pc # "idle" => j \in Jobs /\ row[j] \in Rows
  BY DEF TypeInv, TypeOK, StoresTypeOK, Assigned, SlotAssigned
<1>1. CASE Claim(s)
  <2>1. row' = row \/ row' = [row EXCEPT ![j] = ClaimedRow(row[j])]
    BY <1>1 DEF Claim
  <2> QED
    BY <1>1, <1>a, <2>1, StatusWritten, KnownUpdate DEF Claim
<1>2. CASE Succeed(s) \/ LoseCommitAnswer(s)
  <2>1. row' = row \/ row' = [row EXCEPT ![j] = SucceededRow(row[j])]
    BY <1>2 DEF Succeed, LoseCommitAnswer, RecordSuccess, postgres
  <2> QED
    BY <1>2, <1>a, <2>1, StatusWritten, KnownUpdate DEF Succeed, LoseCommitAnswer
<1>3. CASE Bury(s)
  <2> DEFINE r == IF Owns(row[j], exec[s].lease) THEN BuriedRow(row[j]) ELSE row[j]
  <2>1. row' = [row EXCEPT ![j] = r]
    BY <1>3 DEF Bury
  <2>2. j \in Jobs /\ (r.status # "none" \/ r.status = row[j].status)
    BY <1>3, <1>a, StatusWritten DEF Bury, Failing
  <2> QED
    <3> HIDE DEF j, r
    <3> QED
      BY <2>1, <2>2, KnownUpdate
<1>4. CASE Park(s)
  <2>1. row' = row \/ row' = [row EXCEPT ![j] = ParkedRow(row[j])]
    BY <1>4 DEF Park
  <2> QED
    BY <1>4, <1>a, <2>1, StatusWritten, KnownUpdate DEF Park, Failing
<1>5. CASE Take(s) \/ FailToCommit(s) \/ Schedule(s) \/ Release(s) \/ Abandon(s)
  BY <1>5 DEF Take, FailToCommit, Schedule, Release, Abandon, postgres, Known, Recorded
<1> QED
  BY <1>1, <1>2, <1>3, <1>4, <1>5 DEF SlotStep

\* ... a step of a worker process outside its slots,
LEMMA ProcForgetsNothing ==
  ASSUME TypeInv, NEW p \in Procs, ProcStep(p)
  PROVE  Known \subseteq Known'
<1> USE DEF postgres, stores, Known, Recorded
<1>1. CASE RequeueOwn(p)
  BY <1>1, StatusWritten DEF RequeueOwn, TypeInv, TypeOK, StoresTypeOK
<1>2. CASE \/ Start(p) \/ FindNoHeartbeat(p) \/ LeaveListAlone(p) \/ ReadOwnList(p)
           \/ MoveBackOwn(p) \/ StartBeating(p)
           \/ TakeUnanswered(p) \/ Beat(p) \/ Stop(p) \/ Drained(p) \/ Crash(p)
  BY <1>2 DEF Start, FindNoHeartbeat, LeaveListAlone, ReadOwnList, MoveBackOwn,
              StartBeating, TakeUnanswered, Beat, Stop, Drained, Crash
<1> QED
  BY <1>1, <1>2 DEF ProcStep

\* ... or a step of a scheduler.
LEMMA SchedForgetsNothing ==
  ASSUME TypeInv, NEW d \in Schedulers, PassStep(d)
  PROVE  Known \subseteq Known'
<1> DEFINE j == sched[d].job
<1>1. CASE RequeueDue(d) \/ BuryLost(d) \/ Rescue(d)
  <2>1. j \in Jobs /\ row[j] \in Rows
    BY <1>1 DEF RequeueDue, BuryLost, Rescue, At, TypeInv, TypeOK, StoresTypeOK,
                Assigned, PassAssigned
  <2>2. \/ row' = [row EXCEPT ![j] = PromotedRow(row[j])]
        \/ row' = [row EXCEPT ![j] = BuriedRow(row[j])]
        \/ row' = [row EXCEPT ![j] = RescuedRow(row[j])]
    BY <1>1 DEF RequeueDue, BuryLost, Rescue
  <2> QED
    BY <2>1, <2>2, StatusWritten, KnownUpdate
<1>2. CASE \/ \E i \in Jobs : ClaimDue(d, i) \/ PushOrphan(d, i)
           \/ \E w \in WorkerIds : VisitList(d, w) \/ ReadList(d, w)
           \/ PushDue(d) \/ BeginPass(d) \/ Peek(d) \/ Inspect(d) \/ Drop(d)
           \/ MoveBack(d) \/ EndReap(d) \/ Query(d) \/ ReadPending(d)
           \/ ScanLists(d) \/ EndSweep(d) \/ Interrupt(d)
  BY <1>2 DEF ClaimDue, PushOrphan, VisitList, ReadList, PushDue, BeginPass, Peek,
              Inspect, Drop, MoveBack, EndReap, Query, ReadPending, ScanLists,
              EndSweep, Interrupt, postgres, stores, Known, Recorded
<1> QED
  BY <1>1, <1>2 DEF PassStep

-----------------------------------------------------------------------------
(* What a step puts anywhere was known before it, but for the id a request *)
(* has just recorded.                                                      *)

HandedOn ==
  /\ pending' \in Seq(Known)
  /\ \A w \in WorkerIds : processing'[w] \in Seq(Known)
  /\ delayed' \subseteq Known
  /\ \A s \in Slots : exec'[s].job \in Known \cup {NoJob}
  /\ \A p \in Procs : stranded'[p] \subseteq Known
  /\ \A d \in Schedulers : /\ sched'[d].job \in Known \cup {NoJob}
                           /\ sched'[d].cand \subseteq Known
  /\ \A r \in Requests : api'[r] \in Known' \cup {NoJob}

\* What is handed on keeps the invariant, since nothing is forgotten.
LEMMA HandedOnIsKnown ==
  ASSUME Known \subseteq Known', HandedOn
  PROVE  GhostInv'
<1>1. pending' \in Seq(Known') /\ \A w \in WorkerIds : processing'[w] \in Seq(Known')
  BY SeqMonotonic DEF HandedOn
<1> QED
  BY <1>1
  DEF HandedOn, GhostInv, QueuesKnown, SlotsKnown, BootsKnown, PassesKnown, HandsKnown

\* The ids of a list of known ids are known.
LEMMA ListedKnown ==
  ASSUME NEW q \in Seq(Known)
  PROVE  ToSet(q) \subseteq Known
BY ElementOfSeq, LenProperties DEF ToSet

\* BLMOVE hands an id on.
LEMMA TakeTailKnown ==
  ASSUME TypeInv, GhostInv, NEW w \in WorkerIds, TakeTail(w)
  PROVE  /\ pending' \in Seq(Known)
         /\ \A v \in WorkerIds : processing'[v] \in Seq(Known)
         /\ Last(pending) \in Known
<1> USE DEF TypeInv, TypeOK, StoresTypeOK, GhostInv, QueuesKnown, TakeTail
<1>1. Last(pending) \in Known /\ Front(pending) \in Seq(Known)
  BY TailOfList
<1>2. <<Last(pending)>> \o processing[w] \in Seq(Known)
  BY <1>1, PushType
<1> QED
  BY <1>1, <1>2

\* LMOVE does, whatever it finds at the tail.
LEMMA MoveTailKnown ==
  ASSUME TypeInv, GhostInv, NEW w \in WorkerIds, MoveTailToTail(w)
  PROVE  /\ pending' \in Seq(Known)
         /\ \A v \in WorkerIds : processing'[v] \in Seq(Known)
<1> USE DEF TypeInv, TypeOK, StoresTypeOK, GhostInv, QueuesKnown, MoveTailToTail
<1>1. CASE processing[w] = <<>>
  BY <1>1
<1>2. CASE processing[w] # <<>>
  <2>1. Last(processing[w]) \in Known /\ Front(processing[w]) \in Seq(Known)
    BY <1>2, TailOfList
  <2>2. Append(pending, Last(processing[w])) \in Seq(Known)
    BY <2>1, AppendProperties
  <2> QED
    BY <1>2, <2>1, <2>2
<1> QED
  BY <1>1, <1>2

\* The API hands on: a row is written before its id is pushed (api/index.ts:59-91).
LEMMA ApiHandsOn ==
  ASSUME TypeInv, GhostInv, ApiStep, Known \subseteq Known'
  PROVE  HandedOn
<1> USE DEF TypeInv, TypeOK, StoresTypeOK, ApiTypeOK, postgres, redis, workerVars,
            GhostInv, QueuesKnown, SlotsKnown, BootsKnown, PassesKnown, HandsKnown,
            HandedOn
<1>a. exec' = exec /\ stranded' = stranded /\ sched' = sched
  BY DEF ApiStep
<1>b. ASSUME NEW r \in Requests, NEW j \in Jobs, api' = [api EXCEPT ![r] = j],
             row'[j].status # "none", UNCHANGED redis
      PROVE  HandedOn
  <2>1. j \in Known'
    BY <1>b DEF Known, Recorded
  <2> QED
    BY <1>a, <1>b, <2>1
<1>1. ASSUME NEW r \in Requests, NEW j \in Jobs, Submit(r, j)
      PROVE  HandedOn
  <2>1. row'[j].status # "none"
    BY <1>1, StatusWritten, RowsKept DEF Submit
  <2> QED
    BY <1>1, <1>b, <2>1 DEF Submit
<1>2. ASSUME NEW r \in Requests, NEW j \in Jobs, Replay(r, j)
      PROVE  HandedOn
  <2>1. row'[j].status # "none"
    BY <1>2, StatusWritten DEF Replay
  <2> QED
    BY <1>2, <1>b, <2>1 DEF Replay
<1>3. ASSUME NEW r \in Requests, Enqueue(r)
      PROVE  HandedOn
  <2>1. api[r] \in Known
    BY <1>3 DEF Enqueue
  <2>2. pending' \in Seq(Known)
    BY <1>3, <2>1, PushType DEF Enqueue
  <2> QED
    BY <1>a, <1>3, <2>2 DEF Enqueue
<1>4. ASSUME NEW r \in Requests, RequestDies(r)
      PROVE  HandedOn
  BY <1>a, <1>4 DEF RequestDies
<1>5. ASSUME NEW j \in Jobs, GrowOld(j)
      PROVE  HandedOn
  BY <1>a, <1>5 DEF GrowOld
<1> QED
  BY <1>1, <1>2, <1>3, <1>4, <1>5 DEF ApiStep

\* An execution hands on.
LEMMA SlotHandsOn ==
  ASSUME TypeInv, GhostInv, NEW s \in Slots, SlotStep(s), UNCHANGED <<api, sched>>,
         Known \subseteq Known'
  PROVE  HandedOn
<1> USE DEF TypeInv, TypeOK, StoresTypeOK, WorkerTypeOK, postgres, redis, stores,
            GhostInv, QueuesKnown, SlotsKnown, BootsKnown, PassesKnown, HandsKnown,
            HandedOn
<1>a. HolderOf(s) \in WorkerIds
  BY IdOfAssumption, ProcOfAssumption DEF HolderOf
<1>b. exec[s].pc # "idle" => Job(s) \in Known
  BY NoJobAssumption DEF Assigned, SlotAssigned, Job
<1>c. ASSUME NEW to, Goto(s, to)
      PROVE  \A t \in Slots : exec'[t].job \in Known \cup {NoJob}
  BY <1>c DEF Goto, Execs
<1>d. ASSUME FreeSlot(s)
      PROVE  \A t \in Slots : exec'[t].job \in Known \cup {NoJob}
  BY <1>d DEF FreeSlot, IdleExec
<1>1. CASE Take(s)
  <2>1. /\ pending' \in Seq(Known)
        /\ \A w \in WorkerIds : processing'[w] \in Seq(Known)
        /\ Last(pending) \in Known
    BY <1>1, <1>a, TakeTailKnown DEF Take
  <2>2. \A t \in Slots : exec'[t].job \in Known \cup {NoJob}
    BY <1>1, <2>1 DEF Take, IdleExec
  <2> QED
    BY <1>1, <2>1, <2>2 DEF Take
<1>2. CASE Claim(s)
  <2>1. \A t \in Slots : exec'[t].job \in Known \cup {NoJob}
    <3>1. CASE Claimable(row[Job(s)])
      <4>1. PICK e : exec' = [exec EXCEPT ![s] = e] /\ e.job = Job(s)
        BY <1>2, <3>1 DEF Claim
      <4> QED
        BY <1>2, <1>b, <4>1 DEF Claim
    <3>2. CASE ~Claimable(row[Job(s)])
      BY <1>2, <1>c, <3>2 DEF Claim
    <3> QED
      BY <3>1, <3>2
  <2> QED
    BY <1>2, <2>1 DEF Claim
<1>3. CASE Succeed(s) \/ LoseCommitAnswer(s) \/ FailToCommit(s) \/ Bury(s)
  BY <1>3, <1>c DEF Succeed, LoseCommitAnswer, FailToCommit, Bury
<1>4. CASE Park(s)
  <2>1. Goto(s, "zadd") \/ Goto(s, "release")
    BY <1>4 DEF Park
  <2> QED
    BY <1>4, <1>c, <2>1 DEF Park
<1>5. CASE Schedule(s)
  <2>1. delayed' \subseteq Known
    BY <1>5, <1>b DEF Schedule
  <2> QED
    BY <1>5, <1>c, <2>1 DEF Schedule
<1>6. CASE Release(s)
  <2>1. \A w \in WorkerIds : processing'[w] \in Seq(Known)
    BY <1>6, <1>a, DropFromHeadType DEF Release
  <2> QED
    BY <1>6, <1>d, <2>1 DEF Release
<1>7. CASE Abandon(s)
  BY <1>7, <1>d DEF Abandon
<1> QED
  BY <1>1, <1>2, <1>3, <1>4, <1>5, <1>6, <1>7 DEF SlotStep

\* A worker process hands on: what it read as stranded was in its list.
LEMMA ProcHandsOn ==
  ASSUME TypeInv, GhostInv, NEW p \in Procs, ProcStep(p), UNCHANGED <<api, sched>>,
         Known \subseteq Known'
  PROVE  HandedOn
<1> USE DEF TypeInv, TypeOK, StoresTypeOK, WorkerTypeOK, postgres, redis, stores,
            workerVars,
            GhostInv, QueuesKnown, SlotsKnown, BootsKnown, PassesKnown, HandsKnown,
            HandedOn
<1>a. IdOf[p] \in WorkerIds
  BY IdOfAssumption
<1>1. CASE ReadOwnList(p)
  <2>1. ToSet(processing[IdOf[p]]) \subseteq Known
    BY <1>a, ListedKnown
  <2> QED
    BY <1>1, <2>1 DEF ReadOwnList
<1>2. CASE MoveBackOwn(p)
  BY <1>2, <1>a, MoveTailKnown DEF MoveBackOwn
<1>3. CASE TakeUnanswered(p)
  BY <1>3, <1>a, TakeTailKnown DEF TakeUnanswered
<1>4. CASE RequeueOwn(p)
  BY <1>4 DEF RequeueOwn
<1>5. CASE Drained(p) \/ Crash(p)
  <2>1. \A s \in Slots : exec'[s].job \in Known \cup {NoJob}
    BY <1>5 DEF Drained, Crash, IdleExec
  <2>2. \A q \in Procs : stranded'[q] \subseteq Known
    BY <1>5 DEF Drained, Crash
  <2> QED
    BY <1>5, <2>1, <2>2 DEF Drained, Crash
<1>6. CASE \/ Start(p) \/ FindNoHeartbeat(p) \/ LeaveListAlone(p)
           \/ StartBeating(p) \/ Beat(p) \/ Stop(p)
  BY <1>6 DEF Start, FindNoHeartbeat, LeaveListAlone, StartBeating, Beat, Stop
<1> QED
  BY <1>1, <1>2, <1>3, <1>4, <1>5, <1>6 DEF ProcStep

\* A scheduler hands on: what the sweep pushes comes from Postgres.
LEMMA SchedHandsOn ==
  ASSUME TypeInv, GhostInv, NEW d \in Schedulers, PassStep(d),
         UNCHANGED <<api, workerVars>>, Known \subseteq Known'
  PROVE  HandedOn
<1> USE DEF TypeInv, TypeOK, StoresTypeOK, SchedTypeOK, postgres, redis, stores,
            workerVars,
            GhostInv, QueuesKnown, SlotsKnown, BootsKnown, PassesKnown, HandsKnown,
            HandedOn
<1> DEFINE SchedKept == \A e \in Schedulers : /\ sched'[e].job \in Known \cup {NoJob}
                                              /\ sched'[e].cand \subseteq Known
<1>a. ASSUME NEW r, Become(d, r), r.job \in Known \cup {NoJob}, r.cand \subseteq Known
      PROVE  SchedKept
  BY <1>a DEF Become
<1>b. ASSUME NEW to, Step(d, to)
      PROVE  SchedKept
  BY <1>b DEF Step, Passes
<1>c. Become(d, IdlePass) => SchedKept
  BY <1>a DEF IdlePass
<1>d. /\ sched[d] \in Passes
      /\ sched[d].pc \in {"push", "drop", "move"} => sched[d].job \in Known
      /\ sched[d].pc \in {"peek", "drop", "move"} => sched[d].wid \in WorkerIds
  BY NoJobAssumption DEF Assigned, PassAssigned
<1>e. sched[d].job \in Known \cup {NoJob} /\ sched[d].cand \subseteq Known
  OBVIOUS
<1>1. ASSUME NEW j \in Jobs, ClaimDue(d, j)
      PROVE  HandedOn
  <2>1. SchedKept
    BY <1>1 DEF ClaimDue, Become, IdlePass
  <2> QED
    BY <1>1, <2>1 DEF ClaimDue
<1>2. CASE PushDue(d)
  <2>1. pending' \in Seq(Known)
    BY <1>2, <1>d, PushType DEF PushDue, At
  <2> QED
    BY <1>2, <1>c, <2>1 DEF PushDue
<1>3. CASE RequeueDue(d) \/ BuryLost(d) \/ Rescue(d) \/ Inspect(d) \/ EndReap(d)
  <2>1. SchedKept
    BY <1>3, <1>b DEF RequeueDue, BuryLost, Rescue, Inspect, EndReap
  <2> QED
    BY <1>3, <2>1 DEF RequeueDue, BuryLost, Rescue, Inspect, EndReap
<1>4. CASE \/ BeginPass(d) \/ \E w \in WorkerIds : VisitList(d, w) \/ ReadList(d, w)
           \/ ReadPending(d) \/ ScanLists(d)
  <2>1. ASSUME BeginPass(d)
        PROVE  SchedKept
    <3> DEFINE r == [IdlePass EXCEPT !.pc = "lists", !.lists = ProcessingKeys]
    <3>1. Become(d, r) /\ r.job = NoJob /\ r.cand = {}
      BY <2>1 DEF BeginPass, IdlePass
    <3>2. r.job \in Known \cup {NoJob} /\ r.cand \subseteq Known
      BY <1>e, <3>1
    <3> QED
      <4> HIDE DEF r, SchedKept
      <4> QED
        BY <1>a, <3>1, <3>2
  <2>2. ASSUME NEW w \in WorkerIds, VisitList(d, w)
        PROVE  SchedKept
    <3> DEFINE rest == [sched[d] EXCEPT !.lists = @ \ {w}]
               reap == [rest EXCEPT !.pc = "peek", !.wid = w]
    <3>1. /\ Become(d, rest) \/ Become(d, reap)
          /\ rest.job = sched[d].job /\ rest.cand = sched[d].cand
          /\ reap.job = sched[d].job /\ reap.cand = sched[d].cand
      BY <2>2, <1>d DEF VisitList, Passes
    <3>2. /\ rest.job \in Known \cup {NoJob} /\ rest.cand \subseteq Known
          /\ reap.job \in Known \cup {NoJob} /\ reap.cand \subseteq Known
      BY <1>e, <3>1
    <3> QED
      <4> HIDE DEF rest, reap, SchedKept
      <4> QED
        BY <1>a, <3>1, <3>2
  <2>3. ASSUME NEW w \in WorkerIds, ReadList(d, w)
        PROVE  SchedKept
    <3> DEFINE r == [sched[d] EXCEPT !.lists = @ \ {w},
                                     !.held = @ \cup ToSet(processing[w])]
    <3>1. Become(d, r) /\ r.job = sched[d].job /\ r.cand = sched[d].cand
      BY <2>3, <1>d DEF ReadList, Passes
    <3>2. r.job \in Known \cup {NoJob} /\ r.cand \subseteq Known
      BY <1>e, <3>1
    <3> QED
      <4> HIDE DEF r, SchedKept
      <4> QED
        BY <1>a, <3>1, <3>2
  <2>4. ASSUME ReadPending(d)
        PROVE  SchedKept
    <3> DEFINE r == [sched[d] EXCEPT !.pc = "scan", !.held = SeenPending]
    <3>1. Become(d, r) /\ r.job = sched[d].job /\ r.cand = sched[d].cand
      BY <2>4, <1>d DEF ReadPending, Passes
    <3>2. r.job \in Known \cup {NoJob} /\ r.cand \subseteq Known
      BY <1>e, <3>1
    <3> QED
      <4> HIDE DEF r, SchedKept
      <4> QED
        BY <1>a, <3>1, <3>2
  <2>5. ASSUME ScanLists(d)
        PROVE  SchedKept
    <3> DEFINE r == [sched[d] EXCEPT !.pc = "hold", !.lists = ProcessingKeys]
    <3>1. Become(d, r) /\ r.job = sched[d].job /\ r.cand = sched[d].cand
      BY <2>5, <1>d DEF ScanLists, Passes
    <3>2. r.job \in Known \cup {NoJob} /\ r.cand \subseteq Known
      BY <1>e, <3>1
    <3> QED
      <4> HIDE DEF r, SchedKept
      <4> QED
        BY <1>a, <3>1, <3>2
  <2>6. SchedKept
    BY <1>4, <2>1, <2>2, <2>3, <2>4, <2>5
  <2> QED
    BY <1>4, <2>6 DEF BeginPass, VisitList, ReadList, ReadPending, ScanLists
<1>5. CASE Peek(d)
  <2> DEFINE q == processing[sched[d].wid]
  <2>1. q # <<>> => Last(q) \in Known
    BY <1>5, <1>d, TailOfList DEF Peek, At
  <2>2. SchedKept
    BY <1>5, <1>d, <2>1 DEF Peek, Become, Passes
  <2> QED
    BY <1>5, <2>2 DEF Peek
<1>6. CASE Drop(d) \/ MoveBack(d)
  <2> DEFINE r == [sched[d] EXCEPT !.pc = "peek", !.job = NoJob]
  <2>0. Become(d, r) /\ r.job = NoJob /\ r.cand = sched[d].cand
    BY <1>6, <1>d DEF Drop, MoveBack, Passes
  <2>1. SchedKept
    <3> HIDE DEF r
    <3> QED
      BY <1>a, <2>0
  <2>2. CASE Drop(d)
    <3>1. \A w \in WorkerIds : processing'[w] \in Seq(Known)
      BY <2>2, <1>d, DropFromTailType DEF Drop
    <3> QED
      BY <2>1, <2>2, <3>1 DEF Drop
  <2>3. CASE MoveBack(d)
    BY <1>d, <2>1, <2>3, MoveTailKnown DEF MoveBack, At
  <2> QED
    BY <1>6, <2>2, <2>3
<1>7. CASE Query(d)
  <2>1. {j \in Jobs : Orphanable(row[j])} \subseteq Known
    BY DEF Orphanable, Known, Recorded
  <2>2. SchedKept
    BY <1>7, <1>c, <1>d, <2>1 DEF Query, Become, Passes
  <2> QED
    BY <1>7, <2>2 DEF Query
<1>8. ASSUME NEW j \in Jobs, PushOrphan(d, j)
      PROVE  HandedOn
  <2>1. pending' \in Seq(Known)
    BY <1>8, AppendProperties DEF PushOrphan
  <2>2. SchedKept
    BY <1>8, <1>d DEF PushOrphan, Become, Passes
  <2> QED
    BY <1>8, <2>1, <2>2 DEF PushOrphan
<1>9. CASE EndSweep(d) \/ Interrupt(d)
  BY <1>9, <1>c DEF EndSweep, Interrupt
<1> QED
  BY <1>1, <1>2, <1>3, <1>4, <1>5, <1>6, <1>7, <1>8, <1>9 DEF PassStep

-----------------------------------------------------------------------------
\* A fresh installation satisfies the invariant.
LEMMA GhostInit == Init => GhostInv
<1> SUFFICES ASSUME Init PROVE GhostInv
  OBVIOUS
<1>1. QueuesKnown
  BY EmptySeq DEF Init, StoresInit, QueuesKnown
<1>2. SlotsKnown /\ BootsKnown
  BY DEF Init, WorkerInit, IdleExec, SlotsKnown, BootsKnown
<1>3. PassesKnown /\ HandsKnown
  BY DEF Init, SchedInit, IdlePass, ApiInit, PassesKnown, HandsKnown
<1> QED
  BY <1>1, <1>2, <1>3 DEF GhostInv

\* Every step keeps it.
LEMMA GhostInductive == TypeInv /\ GhostInv /\ [Next]_vars => GhostInv'
<1> SUFFICES ASSUME TypeInv, GhostInv, [Next]_vars PROVE GhostInv'
  OBVIOUS
<1>1. CASE ApiStep
  BY <1>1, ApiForgetsNothing, ApiHandsOn, HandedOnIsKnown
<1>2. CASE WorkerStep
  <2>1. ASSUME NEW w \in WorkerIds, Expire(w), UNCHANGED <<api, sched>>
        PROVE  GhostInv'
    BY <2>1 DEF Expire, postgres, workerVars, GhostInv, QueuesKnown, SlotsKnown,
                BootsKnown, PassesKnown, HandsKnown, Known, Recorded
  <2>2. ASSUME NEW s \in Slots, SlotStep(s), UNCHANGED <<api, sched>>
        PROVE  GhostInv'
    BY <2>2, SlotForgetsNothing, SlotHandsOn, HandedOnIsKnown
  <2>3. ASSUME NEW p \in Procs, ProcStep(p), UNCHANGED <<api, sched>>
        PROVE  GhostInv'
    BY <2>3, ProcForgetsNothing, ProcHandsOn, HandedOnIsKnown
  <2> QED
    BY <1>2, <2>1, <2>2, <2>3 DEF WorkerStep
<1>3. CASE SchedStep
  BY <1>3, SchedForgetsNothing, SchedHandsOn, HandedOnIsKnown DEF SchedStep
<1>4. CASE UNCHANGED vars
  BY <1>4 DEF vars, stores, workerVars, GhostInv, QueuesKnown, SlotsKnown,
              BootsKnown, PassesKnown, HandsKnown, Known, Recorded
<1> QED
  BY <1>1, <1>2, <1>3, <1>4 DEF Next

\* In every instance, whatever fails: every id in a list, in the delayed set or
\* in the hands of a process has its row in Postgres, so the branches for an id
\* without a row (worker/index.ts:66-69, reaper.ts:61-65) are never taken.
THEOREM NothingIsAGhost == Spec => []NoGhost
<1>1. GhostInv => NoGhost
  <2> SUFFICES ASSUME GhostInv PROVE NoGhost
    OBVIOUS
  <2>1. ToSet(pending) \subseteq Known /\ delayed \subseteq Known
    BY ListedKnown DEF GhostInv, QueuesKnown
  <2>2. \A w \in WorkerIds : ToSet(processing[w]) \subseteq Known
    BY ListedKnown DEF GhostInv, QueuesKnown
  <2>3. \A j \in Jobs : j # NoJob
    BY NoJobAssumption
  <2> QED
    BY <2>1, <2>2, <2>3
    DEF NoGhost, GhostInv, SlotsKnown, BootsKnown, PassesKnown, Job, Known
<1> QED
  BY <1>1, GhostInit, GhostInductive, TypeInvariant, PTL DEF Spec

-----------------------------------------------------------------------------
(* Words that CrashProofs and CalmProofs share.                            *)

Waiting    == ToSet(pending)
Held(w)    == ToSet(processing[w])
Started(w) == \E p \in Procs : IdOf[p] = w /\ proc[p] \in {"up", "draining", "down"}
Gone(w)    == \E p \in Procs : IdOf[p] = w /\ proc[p] = "down"

Spending   == \A k \in Disturbances : budget[k] =< Budget[k]

-----------------------------------------------------------------------------
(* How a step of the system looks to a client (module Lifecycle).          *)

\* An UPDATE of one row moves one job along, as far as its columns change.
LEMMA UpdateShows ==
  ASSUME row \in [Jobs -> Rows], NEW j \in Jobs, NEW from, row[j].status = from,
         NEW r, row' = [row EXCEPT ![j] = r], NEW to, r.status = to
  PROVE  /\ L!Turn(j, {from}, to)
         /\ [i \in Jobs |-> row[i].attempts]'
              = [[i \in Jobs |-> row[i].attempts] EXCEPT ![j] = r.attempts]
         /\ r.attempts = row[j].attempts /\ effects' = effects => L!Keep
BY DEF L!Turn, L!Keep

\* A step that changes no status, no attempts and no effects is none.
LEMMA NothingShows ==
  ASSUME \A j \in Jobs : /\ row'[j].status = row[j].status
                         /\ row'[j].attempts = row[j].attempts,
         effects' = effects
  PROVE  UNCHANGED L!vars
BY DEF L!vars
=============================================================================
