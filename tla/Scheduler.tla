----------------------------- MODULE Scheduler ------------------------------
(***************************************************************************)
(* The scheduler process: promoteDue() of src/scheduler/index.ts, and the  *)
(* recovery pass it runs, reapDead() then sweepOrphans(), both of          *)
(* src/scheduler/reaper.ts.  One action per call to Redis or Postgres, in  *)
(* the order the code awaits them; the backoff and the intervals are time  *)
(* and only decide when an action that is enabled happens.                 *)
(***************************************************************************)
EXTENDS Stores

CONSTANT Schedulers

VARIABLE sched       \* what each scheduler is in the middle of

(* pc: "update", "push": in promoteDue(), the id claimed from the set;      *)
(* "lists": in reapDead(), processing lists left to look at; "peek",        *)
(* "inspect", "bury", "drop", "rescue", "move": in reapWorker(wid);         *)
(* "sweep", "pending", "scan", "hold": in sweepOrphans()           *)
SchedStates == { "idle", "update", "push",
                 "lists", "peek", "inspect", "bury", "drop", "rescue", "move",
                 "sweep", "pending", "scan", "hold" }

Passes == [ pc    : SchedStates,
            job   : Jobs \cup {NoJob},
            wid   : WorkerIds \cup {NoWorker},
            lists : SUBSET WorkerIds,     \* keys SCAN returned, not visited yet
            cand  : SUBSET Jobs,          \* rows that may be orphans
            held  : SUBSET Jobs ]         \* ids seen in Redis

IdlePass == [pc |-> "idle", job |-> NoJob, wid |-> NoWorker,
             lists |-> {}, cand |-> {}, held |-> {}]

SchedTypeOK == sched \in [Schedulers -> Passes]
SchedInit   == sched = [d \in Schedulers |-> IdlePass]

At(d, pc)    == sched[d].pc = pc
Become(d, r) == sched' = [sched EXCEPT ![d] = r]
Step(d, to)  == sched' = [sched EXCEPT ![d].pc = to]

-----------------------------------------------------------------------------
(* promoteDue()                                                            *)

\* ZREM is the claim: it answers 1 to one scheduler only.
ReadDue(d, j) ==                                                 \* a mutant
  /\ At(d, "idle")
  /\ j \in delayed
  /\ Become(d, [IdlePass EXCEPT !.pc = "update", !.job = j])
  /\ UNCHANGED stores

ClaimDue(d, j) ==
  /\ At(d, "idle")
  /\ j \in delayed
  /\ delayed' = delayed \ {j}
  /\ Become(d, [IdlePass EXCEPT !.pc = "update", !.job = j])
  /\ UNCHANGED <<postgres, pending, processing, alive, budget>>

\* UPDATE jobs SET status = 'queued', next_run_at = NULL WHERE id = $1
RequeueDue(d) ==
  /\ At(d, "update")
  /\ row' = [row EXCEPT ![sched[d].job] = PromotedRow(@)]
  /\ Step(d, "push")
  /\ UNCHANGED <<effects, redis, budget>>

\* LPUSH pending
PushDue(d) ==
  /\ At(d, "push")
  /\ pending' = <<sched[d].job>> \o pending
  /\ Become(d, IdlePass)
  /\ UNCHANGED <<postgres, processing, delayed, alive, budget>>

-----------------------------------------------------------------------------
(* reapDead() and reapWorker()                                             *)

\* SCAN queueflow:processing:*
BeginPass(d) ==
  /\ At(d, "idle")
  /\ Become(d, [IdlePass EXCEPT !.pc = "lists", !.lists = ProcessingKeys])
  /\ UNCHANGED stores

\* EXISTS worker:<w>:alive, asked once per list
Anyone(w) == TRUE                                                \* a mutant
Silent(w) == ~alive[w]

VisitList(d, w) ==
  /\ At(d, "lists")
  /\ w \in sched[d].lists
  /\ LET rest == [sched[d] EXCEPT !.lists = @ \ {w}] IN
     Become(d, IF Silent(w) THEN [rest EXCEPT !.pc = "peek", !.wid = w] ELSE rest)
  /\ UNCHANGED stores

\* LINDEX processing:<w> -1
Peek(d) ==
  LET q == processing[sched[d].wid] IN
  /\ At(d, "peek")
  /\ Become(d, IF q = <<>> THEN [sched[d] EXCEPT !.pc = "lists", !.wid = NoWorker]
                           ELSE [sched[d] EXCEPT !.pc = "inspect", !.job = Last(q)])
  /\ UNCHANGED stores

\* SELECT attempts, max_attempts, status; what it decides to do next
NotRunning(r) == r.status # "running"                            \* a mutant
Settled(r) == r.status \in {"none", "succeeded", "dead", "retrying"}

Overspent(r) == r.attempts > MaxAttempts                         \* a mutant
Spent(r) == r.attempts >= MaxAttempts

Inspect(d) ==
  LET r == row[sched[d].job] IN
  /\ At(d, "inspect")
  /\ Step(d, CASE Settled(r)              -> "drop"
               [] ~Settled(r) /\ Spent(r) -> "bury"
               [] OTHER                   -> "rescue")
  /\ UNCHANGED stores

\* LREM processing:<w> -1 id
Drop(d) ==
  /\ At(d, "drop")
  /\ processing' = [processing EXCEPT ![sched[d].wid] = DropFromTail(@, sched[d].job)]
  /\ Become(d, [sched[d] EXCEPT !.pc = "peek", !.job = NoJob])
  /\ UNCHANGED <<postgres, pending, delayed, alive, budget>>

\* UPDATE jobs SET status = 'dead' WHERE id = $1, then the LREM
BuryLost(d) ==
  /\ At(d, "bury")
  /\ row' = [row EXCEPT ![sched[d].job] = BuriedRow(@)]
  /\ Step(d, "drop")
  /\ UNCHANGED <<effects, redis, budget>>

\* UPDATE jobs SET status = 'queued' WHERE id = $1
Rescue(d) ==
  /\ At(d, "rescue")
  /\ row' = [row EXCEPT ![sched[d].job] = RescuedRow(@)]
  /\ Step(d, "move")
  /\ UNCHANGED <<effects, redis, budget>>

\* LMOVE processing:<w> pending RIGHT RIGHT
MoveBack(d) ==
  /\ At(d, "move")
  /\ MoveTailToTail(sched[d].wid)
  /\ Become(d, [sched[d] EXCEPT !.pc = "peek", !.job = NoJob])
  /\ UNCHANGED <<postgres, delayed, alive, budget>>

EndReap(d) ==
  /\ At(d, "lists")
  /\ sched[d].lists = {}
  /\ Step(d, "sweep")
  /\ UNCHANGED stores

-----------------------------------------------------------------------------
(* sweepOrphans()                                                          *)

\* SELECT id ... WHERE status = 'queued' AND created_at < now() - ORPHAN_AGE_S
Young(r) == r.status = "queued" /\ ~r.old                        \* a mutant
Orphanable(r) == r.status = "queued" /\ r.old

Query(d) ==
  LET old == {j \in Jobs : Orphanable(row[j])} IN
  /\ At(d, "sweep")
  /\ Become(d, IF old = {} THEN IdlePass
                           ELSE [sched[d] EXCEPT !.pc = "pending", !.cand = old])
  /\ UNCHANGED stores

\* idsHeldByRedis(): LRANGE pending, then SCAN, then LRANGE of each key found
NothingSeen == {}                                                \* a mutant
SeenPending == ToSet(pending)

ReadPending(d) ==
  /\ At(d, "pending")
  /\ Become(d, [sched[d] EXCEPT !.pc = "scan", !.held = SeenPending])
  /\ UNCHANGED stores

ScanLists(d) ==
  /\ At(d, "scan")
  /\ Become(d, [sched[d] EXCEPT !.pc = "hold", !.lists = ProcessingKeys])
  /\ UNCHANGED stores

ReadList(d, w) ==
  /\ At(d, "hold")
  /\ w \in sched[d].lists
  /\ Become(d, [sched[d] EXCEPT !.lists = @ \ {w},
                                !.held = @ \cup ToSet(processing[w])])
  /\ UNCHANGED stores

\* RPUSH pending, one candidate that was seen nowhere after the other
PushOrphan(d, j) ==
  /\ At(d, "hold") /\ sched[d].lists = {}
  /\ j \in sched[d].cand \ sched[d].held
  /\ pending' = Append(pending, j)
  /\ Become(d, [sched[d] EXCEPT !.cand = @ \ {j}])
  /\ UNCHANGED <<postgres, processing, delayed, alive, budget>>

EndSweep(d) ==
  /\ At(d, "hold") /\ sched[d].lists = {}
  /\ sched[d].cand \subseteq sched[d].held
  /\ Become(d, IdlePass)
  /\ UNCHANGED stores

-----------------------------------------------------------------------------
\* The process dies and starts over, or a call of the recovery pass throws and
\* recoverLostWork() gives the pass up: nothing it knew survives.
Interrupt(d) ==
  /\ ~At(d, "idle")
  /\ Spend("schedCrash")
  /\ Become(d, IdlePass)
  /\ UNCHANGED <<postgres, redis>>
=============================================================================
