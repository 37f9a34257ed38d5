------------------------------- MODULE Worker -------------------------------
(***************************************************************************)
(* The worker process, src/worker/index.ts with src/shared/heartbeat.ts.   *)
(*                                                                         *)
(* A process p runs under the worker id IdOf[p]; two processes may be      *)
(* given the same one.  It recovers what its id still holds, starts its    *)
(* heartbeat, then takes jobs into its CONCURRENCY slots.  A slot s        *)
(* belongs to the process ProcOf[s] and runs processOne() on one job,      *)
(* interleaved with every other slot at each await.                        *)
(***************************************************************************)
EXTENDS Stores

CONSTANTS
  Procs,        \* worker processes
  IdOf,         \* the WORKER_ID of each
  Slots,        \* slots of the semaphores of all the processes
  ProcOf,       \* the process a slot belongs to
  CanFail,      \* jobs whose handler may throw
  CanSucceed    \* jobs whose handler may return

ASSUME IdOfAssumption == IdOf \in [Procs -> WorkerIds]
ASSUME ProcOfAssumption == ProcOf \in [Slots -> Procs]

VARIABLES
  proc,         \* where each process is in main()
  stranded,     \* the ids recoverOwnProcessing() read
  exec          \* what each slot is doing

workerVars == <<proc, stranded, exec>>

ProcStates ==
  { "new", "down",                                 \* not started / not running
    "boot", "list", "requeue", "moveback", "ready",  \* before the heartbeat
    "up", "draining" }                             \* main loop / drain()

(* pc of a slot: idle; "claim": holds an id and has not claimed the row;   *)
(* "run": in the handler or its success transaction; "fail": in the catch  *)
(* branch; "zadd": parked the row, about to ZADD; "release": about to LREM *)
ExecStates == {"idle", "claim", "run", "fail", "zadd", "release"}

Execs == [ pc       : ExecStates,
           job      : Jobs \cup {NoJob},
           lease    : Nat,     \* the copy of lease_id this execution keeps
           attempts : Nat ]    \* job.attempts, from RETURNING

IdleExec == [pc |-> "idle", job |-> NoJob, lease |-> 0, attempts |-> 0]

WorkerTypeOK ==
  /\ proc \in [Procs -> ProcStates]
  /\ stranded \in [Procs -> SUBSET Jobs]
  /\ exec \in [Slots -> Execs]

WorkerInit ==
  /\ proc = [p \in Procs |-> "new"]
  /\ stranded = [p \in Procs |-> {}]
  /\ exec = [s \in Slots |-> IdleExec]

HolderOf(s) == IdOf[ProcOf[s]]
Beating(p)  == proc[p] \in {"up", "draining"}
InFlight(p) == {s \in Slots : ProcOf[s] = p /\ exec[s].pc # "idle"}

Move(p, to)   == proc' = [proc EXCEPT ![p] = to]
Goto(s, to)   == exec' = [exec EXCEPT ![s].pc = to]
FreeSlot(s)   == exec' = [exec EXCEPT ![s] = IdleExec]
Job(s)        == exec[s].job

-----------------------------------------------------------------------------
(* main(): recoverOwnProcessing(), then startHeartbeat().                  *)

\* A process starts: a new one, or a dead one again under its old id.
Start(p) ==
  /\ \/ proc[p] = "new" /\ UNCHANGED budget
     \/ proc[p] = "down" /\ Spend("restart")
  /\ Move(p, "boot")
  /\ UNCHANGED <<postgres, redis, stranded, exec>>

\* No heartbeat under this id (any more): the list is this process's to recover.
FindNoHeartbeat(p) ==
  /\ proc[p] = "boot"
  /\ ~alive[IdOf[p]]
  /\ Move(p, "list")
  /\ UNCHANGED <<stores, stranded, exec>>

\* The heartbeat outlived TTL + 1 s, so another process is keeping it up.
LeaveListAlone(p) ==
  /\ proc[p] = "boot"
  /\ alive[IdOf[p]]
  /\ \E q \in Procs \ {p} : IdOf[q] = IdOf[p]
  /\ Move(p, "ready")
  /\ UNCHANGED <<stores, stranded, exec>>

\* LRANGE processing:<id> 0 -1
ReadOwnList(p) ==
  LET held == ToSet(processing[IdOf[p]]) IN
  /\ proc[p] = "list"
  /\ stranded' = [stranded EXCEPT ![p] = held]
  /\ Move(p, IF held = {} THEN "ready" ELSE "requeue")
  /\ UNCHANGED <<stores, exec>>

\* UPDATE jobs SET status = 'queued' WHERE id = ANY(stranded) AND status = 'running'
NoneStranded(r) == FALSE                                         \* a mutant
Stranded(r) == r.status = "running"

RequeueOwn(p) ==
  /\ proc[p] = "requeue"
  /\ row' = [j \in Jobs |-> IF j \in stranded[p] /\ Stranded(row[j])
                            THEN RescuedRow(row[j]) ELSE row[j]]
  /\ stranded' = [stranded EXCEPT ![p] = {}]
  /\ Move(p, "moveback")
  /\ UNCHANGED <<effects, redis, budget, exec>>

\* while (LMOVE processing pending RIGHT RIGHT) !== null
MoveBackOwn(p) ==
  /\ proc[p] = "moveback"
  /\ MoveTailToTail(IdOf[p])
  /\ IF processing[IdOf[p]] = <<>> THEN Move(p, "ready") ELSE UNCHANGED proc
  /\ UNCHANGED <<postgres, delayed, alive, budget, stranded, exec>>

\* The first beat, awaited before any job is taken.
StartBeating(p) ==
  /\ proc[p] = "ready"
  /\ alive' = [alive EXCEPT ![IdOf[p]] = TRUE]
  /\ Move(p, "up")
  /\ UNCHANGED <<postgres, pending, processing, delayed, budget, stranded, exec>>

-----------------------------------------------------------------------------
(* The main loop and processOne().                                         *)

\* BLMOVE pending processing:<id> RIGHT LEFT
TakeTail(w) ==
  /\ pending # <<>>
  /\ pending' = Front(pending)
  /\ processing' = [processing EXCEPT ![w] = <<Last(pending)>> \o @]

Take(s) ==
  /\ proc[ProcOf[s]] = "up"
  /\ exec[s].pc = "idle"
  /\ TakeTail(HolderOf(s))
  /\ exec' = [exec EXCEPT ![s] = [IdleExec EXCEPT !.pc = "claim", !.job = Last(pending)]]
  /\ UNCHANGED <<postgres, delayed, alive, budget, proc, stranded>>

\* The move happened in Redis and the connection was lost before the answer.
TakeUnanswered(p) ==
  /\ Beating(p)
  /\ TakeTail(IdOf[p])
  /\ Spend("replyLost")
  /\ UNCHANGED <<postgres, delayed, alive, workerVars>>

\* The SELECT, which reads only columns nothing changes, and the claim.  A
\* missing row and a row that is not claimable both end in the LREM.
Claim(s) ==
  LET j == Job(s) IN
  /\ exec[s].pc = "claim"
  /\ IF Claimable(row[j])
     THEN /\ row' = [row EXCEPT ![j] = ClaimedRow(@)]
          /\ exec' = [exec EXCEPT ![s] = [pc |-> "run", job |-> j,
                                          lease |-> row'[j].lease,
                                          attempts |-> row'[j].attempts]]
     ELSE Goto(s, "release") /\ UNCHANGED row
  /\ UNCHANGED <<effects, redis, budget, proc, stranded>>

\* The success transaction: the row and its job_effects row, or neither.
RecordRowOnly(s) ==                                              \* a mutant
  LET j == Job(s) IN
  /\ row' = [row EXCEPT ![j] = IF Owns(@, exec[s].lease) THEN SucceededRow(@) ELSE @]
  /\ UNCHANGED effects

RecordSuccess(s) ==
  LET j == Job(s) IN
  IF Owns(row[j], exec[s].lease)
  THEN /\ row' = [row EXCEPT ![j] = SucceededRow(@)]
       /\ effects' = [effects EXCEPT ![j] = Append(@, exec[s].lease)]
  ELSE UNCHANGED postgres

Succeed(s) ==
  /\ exec[s].pc = "run"
  /\ Job(s) \in CanSucceed
  /\ RecordSuccess(s)
  /\ Goto(s, "release")
  /\ UNCHANGED <<redis, budget, proc, stranded>>

\* The COMMIT happened, its answer did not arrive: pg throws, ROLLBACK finds
\* nothing to undo, and the catch branch takes the execution for a failure.
LoseCommitAnswer(s) ==
  /\ exec[s].pc = "run"
  /\ Job(s) \in CanSucceed
  /\ Spend("ackLost")
  /\ RecordSuccess(s)
  /\ Goto(s, "fail")
  /\ UNCHANGED <<redis, proc, stranded>>

\* The success transaction fails and is rolled back.
FailToCommit(s) ==
  /\ exec[s].pc = "run"
  /\ Spend("dbError")
  /\ Goto(s, "fail")
  /\ UNCHANGED <<postgres, redis, proc, stranded>>

\* The catch branch, entered from the handler or from the transaction.
Failing(s) == \/ exec[s].pc = "run" /\ Job(s) \in CanFail
              \/ exec[s].pc = "fail"

OneMore(e) == e.attempts > MaxAttempts                           \* a mutant
Exhausted(e)  == e.attempts >= MaxAttempts

\* Out of attempts: UPDATE ... SET status = 'dead', if still the owner.
Bury(s) ==
  LET j == Job(s) IN
  /\ Failing(s)
  /\ Exhausted(exec[s])
  /\ row' = [row EXCEPT ![j] = IF Owns(@, exec[s].lease) THEN BuriedRow(@) ELSE @]
  /\ Goto(s, "release")
  /\ UNCHANGED <<effects, redis, budget, proc, stranded>>

\* Attempts left: UPDATE ... SET status = 'retrying', if still the owner.
Park(s) ==
  LET j == Job(s) IN
  /\ Failing(s)
  /\ ~Exhausted(exec[s])
  /\ IF Owns(row[j], exec[s].lease)
     THEN /\ row' = [row EXCEPT ![j] = ParkedRow(@)]
          /\ Goto(s, "zadd")
     ELSE Goto(s, "release") /\ UNCHANGED row
  /\ UNCHANGED <<effects, redis, budget, proc, stranded>>

\* ZADD delayed
ForgetToSchedule(s) ==                                           \* a mutant
  /\ exec[s].pc = "zadd"
  /\ Goto(s, "release")
  /\ UNCHANGED <<postgres, redis, budget, proc, stranded>>

Schedule(s) ==
  /\ exec[s].pc = "zadd"
  /\ delayed' = delayed \cup {Job(s)}
  /\ Goto(s, "release")
  /\ UNCHANGED <<postgres, pending, processing, alive, budget, proc, stranded>>

\* processOne() resolved: LREM processing:<id> 1 id, and the slot is free.
Release(s) ==
  /\ exec[s].pc = "release"
  /\ processing' = [processing EXCEPT ![HolderOf(s)] = DropFromHead(@, Job(s))]
  /\ FreeSlot(s)
  /\ UNCHANGED <<postgres, pending, delayed, alive, budget, proc, stranded>>

\* processOne() or the LREM rejected: the error is logged, the id stays in the
\* list, the slot is free.
Abandon(s) ==
  /\ exec[s].pc \in {"claim", "fail", "zadd", "release"}
  /\ Spend("dbError")
  /\ FreeSlot(s)
  /\ UNCHANGED <<postgres, redis, proc, stranded>>

-----------------------------------------------------------------------------
(* Heartbeat, shutdown and death.                                          *)

\* The interval timer rewrites the key.
Beat(p) ==
  /\ Beating(p)
  /\ ~alive[IdOf[p]]
  /\ alive' = [alive EXCEPT ![IdOf[p]] = TRUE]
  /\ UNCHANGED <<postgres, pending, processing, delayed, budget, workerVars>>

\* TTL_S without a beat: nobody beats under this id, or whoever does stalled.
Expire(w) ==
  /\ alive[w]
  /\ IF \E p \in Procs : IdOf[p] = w /\ Beating(p)
     THEN Spend("lapse") ELSE UNCHANGED budget
  /\ alive' = [alive EXCEPT ![w] = FALSE]
  /\ UNCHANGED <<postgres, pending, processing, delayed, workerVars>>

\* SIGTERM: drain() sets `stopping` and disconnects the blocking connection.
Stop(p) ==
  /\ proc[p] = "up"
  /\ Spend("stop")
  /\ Move(p, "draining")
  /\ UNCHANGED <<postgres, redis, stranded, exec>>

\* Nothing is in flight any more: the heartbeat key goes, then the process.
QuitBusy(p) == TRUE                                              \* a mutant
MayQuit(p) == InFlight(p) = {}

Drained(p) ==
  /\ proc[p] = "draining"
  /\ MayQuit(p)
  /\ alive' = [alive EXCEPT ![IdOf[p]] = FALSE]
  /\ Move(p, "down")
  /\ exec' = [s \in Slots |-> IF ProcOf[s] = p THEN IdleExec ELSE exec[s]]
  /\ UNCHANGED <<postgres, pending, processing, delayed, budget, stranded>>

\* The process dies (SIGKILL, a fatal error), or drain() gives up at
\* SHUTDOWN_TIMEOUT_MS with jobs in flight: its heartbeat key stays.
Crash(p) ==
  /\ proc[p] \notin {"new", "down"}
  /\ Spend("crash")
  /\ Move(p, "down")
  /\ stranded' = [stranded EXCEPT ![p] = {}]
  /\ exec' = [s \in Slots |-> IF ProcOf[s] = p THEN IdleExec ELSE exec[s]]
  /\ UNCHANGED <<postgres, redis>>
=============================================================================
