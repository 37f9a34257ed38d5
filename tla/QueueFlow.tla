----------------------------- MODULE QueueFlow ------------------------------
(***************************************************************************)
(* QueueFlow as it is deployed: the API, the worker processes and the      *)
(* schedulers, each in its own module, interleaved on the stores they      *)
(* share.  The constants of an instance choose the environment: how many   *)
(* processes of each kind there are, which jobs can fail, and the Budget   *)
(* of disturbances (module Stores).                                        *)
(***************************************************************************)
EXTENDS Api, Worker, Scheduler

vars == <<stores, api, workerVars, sched>>

Init == StoresInit /\ ApiInit /\ WorkerInit /\ SchedInit

ApiStep ==
  /\ \/ \E r \in Requests : \/ \E j \in Jobs : Submit(r, j) \/ Replay(r, j)
                            \/ Enqueue(r)
                            \/ RequestDies(r)
     \/ \E j \in Jobs : GrowOld(j)
  /\ UNCHANGED <<workerVars, sched>>

SlotStep(s) ==
  \/ Take(s) \/ Claim(s)
  \/ Succeed(s) \/ LoseCommitAnswer(s) \/ FailToCommit(s)
  \/ Bury(s) \/ Park(s) \/ Schedule(s)
  \/ Release(s) \/ Abandon(s)

ProcStep(p) ==
  \/ Start(p) \/ FindNoHeartbeat(p) \/ LeaveListAlone(p) \/ ReadOwnList(p)
  \/ RequeueOwn(p) \/ MoveBackOwn(p) \/ StartBeating(p)
  \/ TakeUnanswered(p) \/ Beat(p) \/ Stop(p) \/ Drained(p) \/ Crash(p)

WorkerStep ==
  /\ \/ \E s \in Slots : SlotStep(s)
     \/ \E p \in Procs : ProcStep(p)
     \/ \E w \in WorkerIds : Expire(w)
  /\ UNCHANGED <<api, sched>>

PassStep(d) ==
  \/ \E j \in Jobs : ClaimDue(d, j)
  \/ RequeueDue(d) \/ PushDue(d)
  \/ BeginPass(d) \/ \E w \in WorkerIds : VisitList(d, w)
  \/ Peek(d) \/ Inspect(d) \/ Drop(d) \/ BuryLost(d) \/ Rescue(d) \/ MoveBack(d)
  \/ EndReap(d)
  \/ Query(d) \/ ReadPending(d) \/ ScanLists(d)
  \/ \E w \in WorkerIds : ReadList(d, w)
  \/ \E j \in Jobs : PushOrphan(d, j)
  \/ EndSweep(d)
  \/ Interrupt(d)

SchedStep ==
  /\ \E d \in Schedulers : PassStep(d)
  /\ UNCHANGED <<api, workerVars>>

Next == ApiStep \/ WorkerStep \/ SchedStep

Spec == Init /\ [][Next]_vars

-----------------------------------------------------------------------------
(* Fairness: every process keeps running.  A request that wrote its row    *)
(* pushes the id; an execution that holds an id goes on (its handler       *)
(* returns or throws); some idle slot takes a waiting id; the boot and     *)
(* drain sequences and the heartbeat timer advance; the orchestrator       *)
(* starts a process that has not run yet; a key nobody refreshes expires;  *)
(* rows get old.  The scheduler's loop runs promoteDue() and the recovery  *)
(* pass in turn, so each gets its chance although the other one keeps      *)
(* disabling it: strong fairness.  No disturbance is ever fair.            *)

SlotProgress(s) ==
  \/ Claim(s) \/ Succeed(s) \/ Bury(s) \/ Park(s) \/ Schedule(s) \/ Release(s)

ProcProgress(p) ==
  \/ proc[p] = "new" /\ Start(p)
  \/ FindNoHeartbeat(p) \/ LeaveListAlone(p) \/ ReadOwnList(p)
  \/ RequeueOwn(p) \/ MoveBackOwn(p) \/ StartBeating(p) \/ Drained(p)

PassProgress(d) ==
  \/ RequeueDue(d) \/ PushDue(d)
  \/ \E w \in WorkerIds : VisitList(d, w) \/ ReadList(d, w)
  \/ Peek(d) \/ Inspect(d) \/ Drop(d) \/ BuryLost(d) \/ Rescue(d) \/ MoveBack(d)
  \/ EndReap(d) \/ Query(d) \/ ReadPending(d) \/ ScanLists(d)
  \/ \E j \in Jobs : PushOrphan(d, j)
  \/ EndSweep(d)

OfWorkers(A)    == A /\ UNCHANGED <<api, sched>>
OfSchedulers(A) == A /\ UNCHANGED <<api, workerVars>>

Fairness ==
  /\ \A r \in Requests : WF_vars(Enqueue(r) /\ UNCHANGED <<workerVars, sched>>)
  /\ \A j \in Jobs : WF_vars(GrowOld(j) /\ UNCHANGED <<workerVars, sched>>)
  /\ \A s \in Slots : WF_vars(OfWorkers(SlotProgress(s)))
  /\ WF_vars(OfWorkers(\E s \in Slots : Take(s)))
  /\ \A p \in Procs : /\ WF_vars(OfWorkers(ProcProgress(p)))
                      /\ WF_vars(OfWorkers(Beat(p)))
  /\ \A w \in WorkerIds : WF_vars(OfWorkers(budget' = budget /\ Expire(w)))
  /\ \A d \in Schedulers : /\ WF_vars(OfSchedulers(PassProgress(d)))
                           /\ SF_vars(OfSchedulers(BeginPass(d)))
                           /\ \A j \in Jobs : SF_vars(OfSchedulers(ClaimDue(d, j)))

FairSpec == Spec /\ Fairness

-----------------------------------------------------------------------------
(* Properties that hold in every environment.                              *)

TypeOK == StoresTypeOK /\ ApiTypeOK /\ WorkerTypeOK /\ SchedTypeOK

\* Every id that is in Redis, or in the hands of a process, was recorded in
\* Postgres first: the branches of processOne() and reapWorker() for an id
\* without a row are never taken (worker/index.ts:66, reaper.ts:61).
NoGhost ==
  \A j \in Jobs :
    \/ j \in ToSet(pending) \cup delayed
    \/ \E w \in WorkerIds : j \in ToSet(processing[w])
    \/ \E s \in Slots : Job(s) = j
    \/ \E d \in Schedulers : sched[d].job = j \/ j \in sched[d].cand
    \/ \E p \in Procs : j \in stranded[p]
    => Recorded(j)

\* Fencing: executions record their effects in the order of their claims.
\* Once an execution has been recorded, none that was superseded before it
\* ever is, however late its transaction comes (schema.sql:115-120).
EffectsFenced ==
  Fencing =>
    \A j \in Jobs : \A i, k \in DOMAIN effects[j] : i < k => effects[j][i] < effects[j][k]

\* A row that says succeeded has an effect, and it is the effect of the very
\* execution that holds the lease now (internals.md:241-243).
SucceededByItsOwner ==
  Fencing =>
    \A j \in Jobs : row[j].status = "succeeded" =>
      effects[j] # <<>> /\ Last(effects[j]) = row[j].lease

-----------------------------------------------------------------------------
(* Properties of an environment, named by the runs that check them.        *)

Unfinished(j) == row[j].status \notin Terminal \cup {"none"}

\* No job is ever recorded twice (internals.md:238-239).
AtMostOneEffect == \A j \in Jobs : Len(effects[j]) <= 1

\* Two executions of the same job never run at the same time.
RunsAlone ==
  \A s, t \in Slots :
    exec[s].pc = "run" /\ exec[t].pc = "run" /\ Job(s) = Job(t) => s = t

\* What is finished stays finished: a succeeded row never changes again, a
\* dead one only by a replay.
FinishedStaysFinished ==
  [][\A j \in Jobs :
       /\ row[j].status = "succeeded" => row'[j].status = "succeeded"
       /\ row[j].status = "dead" =>
            \/ row'[j].status = "dead"
            \/ row'[j].status = "queued" /\ \E r \in Requests : api'[r] = j]_vars

\* Nothing is lost: an unfinished job is where some process will look for it.
\* Running: in a processing list, which its worker or the reaper empties.
\* Retrying: in the delayed set, or on its way into it or out of it.
\* Queued: in a list or on its way to one, or an orphan the sweep will see.
NothingLost ==
  \A j \in Jobs :
    LET listed == \E w \in WorkerIds : j \in ToSet(processing[w])
        inHand == \E d \in Schedulers : sched[d].pc \in {"update", "push"} /\ sched[d].job = j
    IN /\ row[j].status = "running" => listed
       /\ row[j].status = "retrying" =>
            j \in delayed \/ inHand \/ \E s \in Slots : exec[s].pc = "zadd" /\ Job(s) = j
       /\ row[j].status = "queued" =>
            \/ listed \/ inHand \/ j \in ToSet(pending)
            \/ \E r \in Requests : api[r] = j
            \/ budget["apiCrash"] < Budget["apiCrash"]

\* The copies of an id in circulation: where it is found, and who holds it to
\* pass it on.  An execution or a reaper about to LREM has given its copy up.
Places(j) ==
  LET found(q) == {i \in DOMAIN q : q[i] = j}
  IN  (UNION {{"list"} \X {w} \X found(processing[w]) : w \in WorkerIds})
      \cup ({"pending"} \X found(pending))
      \cup ({"delayed"} \X (delayed \cap {j}))
      \cup ({"request"} \X {r \in Requests : api[r] = j})
      \cup ({"scheduler"} \X {d \in Schedulers : sched[d].pc \in {"update", "push"}
                                               /\ sched[d].job = j})

Released(j) ==
  ({"slot"} \X {s \in Slots : exec[s].pc = "release" /\ Job(s) = j})
  \cup ({"scheduler"} \X {d \in Schedulers : sched[d].pc = "drop" /\ sched[d].job = j})

Copies(j) == Cardinality(Places(j)) - Cardinality(Released(j))

\* The hand-overs between API, lists, delayed set and processes neither copy
\* an id of an unfinished job nor drop it: BLMOVE and LMOVE are atomic, ZREM is
\* a claim, and a retry is only scheduled by the owner.
ExactlyOneCopy == \A j \in Jobs : Unfinished(j) => Copies(j) = 1

\* ... and no recovery path copies one either.
AtMostOneCopy == \A j \in Jobs : Unfinished(j) => Copies(j) <= 1

\* A job that is running has a live process running it under the row's lease:
\* a drain finishes what is in flight (worker/index.ts:272-298).
RunningIsAttended ==
  \A j \in Jobs : row[j].status = "running" =>
    \E s \in Slots : /\ exec[s].pc \in {"run", "fail"}
                     /\ Job(s) = j /\ exec[s].lease = row[j].lease

\* Every accepted job is finished in the end.
EverythingSettles == \A j \in Jobs : Recorded(j) ~> row[j].status \in Terminal

\* The promise to the client, as the abstract specification states it.
L == INSTANCE Lifecycle WITH
       status   <- [j \in Jobs |-> row[j].status],
       attempts <- [j \in Jobs |-> row[j].attempts],
       recorded <- [j \in Jobs |-> Len(effects[j])]

FollowsLifecycle == L!Spec
=============================================================================
