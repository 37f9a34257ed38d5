------------------------------- MODULE Stores -------------------------------
(***************************************************************************)
(* The two stores every QueueFlow process works on, and nothing else: the  *)
(* processes share no memory, so these variables are all they have in      *)
(* common.                                                                 *)
(*                                                                         *)
(* Postgres (db/schema.sql) holds one `jobs` row per job and the table     *)
(* `job_effects`.  Redis (src/shared/keys.ts) holds the pending list, one  *)
(* processing list per worker id, the delayed sorted set and one expiring  *)
(* heartbeat key per worker id.  Each SQL statement of the sources is an   *)
(* operator on a row; each Redis command an operator on a list.            *)
(*                                                                         *)
(* A list is written from its LEFT end (head, where LPUSH adds) to its     *)
(* RIGHT end (tail, where BLMOVE takes), so the tail is the front of the   *)
(* queue.                                                                  *)
(***************************************************************************)
EXTENDS Naturals, Sequences, FiniteSets, SequencesExt

CONSTANTS
  Jobs,          \* job ids (UUIDs) that may be submitted
  NoJob,         \* "no job", distinct from every id
  WorkerIds,     \* WORKER_ID values: each names a processing list and a key
  NoWorker,      \* "no worker id"
  MaxAttempts,   \* max_attempts, the column's default for every row
  Fencing,       \* the FENCING switch of the worker
  Budget         \* how many of each Disturbance the environment may cause

(***************************************************************************)
(* What the environment may do to the system, each kind a bounded number   *)
(* of times: processes die, calls fail, acknowledgements get lost, time    *)
(* passes, an operator intervenes.                                         *)
(***************************************************************************)
Disturbances ==
  { "apiCrash",    \* the API dies, or Redis fails, between INSERT and LPUSH
    "crash",       \* a worker process dies
    "restart",     \* a dead worker process is started again, same WORKER_ID
    "schedCrash",  \* a scheduler dies or a pass of it fails half way
    "lapse",       \* a live worker's heartbeat expires (it was stalled)
    "dbError",     \* a worker's call to Postgres or Redis fails
    "ackLost",     \* a COMMIT succeeds and its answer is lost
    "replyLost",   \* a BLMOVE happens and its answer is lost
    "stop",        \* SIGTERM to a worker
    "replay",      \* an operator replays a dead job
    "age",         \* a row gets older than ORPHAN_AGE_S
    "slow" }       \* ... while the request that wrote it is still open

ASSUME NoJobAssumption == NoJob \notin Jobs
ASSUME NoWorkerAssumption == NoWorker \notin WorkerIds
ASSUME MaxAttemptsAssumption == MaxAttempts \in Nat \ {0}
ASSUME FencingAssumption == Fencing \in BOOLEAN
ASSUME BudgetAssumption == Budget \in [Disturbances -> Nat]

VARIABLES
  row,         \* Postgres: the jobs table
  effects,     \* Postgres: job_effects, per job the leases it was written under
  pending,     \* Redis: LIST queueflow:pending
  processing,  \* Redis: LIST queueflow:processing:<workerId>
  delayed,     \* Redis: ZSET queueflow:delayed; scores are time, left out
  alive,       \* Redis: does worker:<workerId>:alive exist
  budget       \* the disturbances the environment has left

postgres == <<row, effects>>
redis    == <<pending, processing, delayed, alive>>
stores   == <<row, effects, pending, processing, delayed, alive, budget>>

-----------------------------------------------------------------------------
(* The jobs row.  "none" is a row that does not exist; 'failed' is a legal *)
(* status that no code writes.  The lease column is the ordinal of the     *)
(* claim that wrote it: gen_random_uuid() only has to be fresh.            *)

Statuses == {"none", "queued", "running", "retrying", "succeeded", "dead"}
Terminal == {"succeeded", "dead"}

Rows ==
  [ status   : Statuses,
    attempts : Nat,
    lease    : Nat,
    old      : BOOLEAN ]   \* created_at < now() - ORPHAN_AGE_S

NoRow == [status |-> "none", attempts |-> 0, lease |-> 0, old |-> FALSE]

Recorded(j) == row[j].status # "none"

\* INSERT INTO jobs ... 'queued'
InsertedRow == [NoRow EXCEPT !.status = "queued"]

\* WHERE status IN ('queued', 'retrying')
AnyClaimable(r) == r.status # "none"                            \* a mutant
Claimable(r) == r.status \in {"queued", "retrying"}

\* SET status = 'running', attempts = attempts + 1, lease_id = gen_random_uuid()
ClaimedRow(r) == [r EXCEPT !.status = "running", !.attempts = @ + 1, !.lease = @ + 1]

\* WHERE $fencing IS FALSE OR lease_id = $lease
EverybodyOwns(r, lease) == TRUE                                  \* a mutant
Owns(r, lease) == ~Fencing \/ r.lease = lease

\* SET status = 'succeeded'
SucceededRow(r) == [r EXCEPT !.status = "succeeded"]

\* SET status = 'dead'   (the worker's, and the reaper's)
BuriedRow(r) == [r EXCEPT !.status = "dead"]

\* SET status = 'retrying'; when it is due is left open
ParkedRow(r) == [r EXCEPT !.status = "retrying"]

\* SET status = 'queued'
PromotedRow(r) == [r EXCEPT !.status = "queued"]

\* SET status = 'queued', started_at = NULL   (a rescue: attempts are kept)
RefundedRow(r) == [r EXCEPT !.status = "queued", !.attempts = @ - 1]   \* a mutant
RescuedRow(r) == [r EXCEPT !.status = "queued"]

\* SET status = 'queued', attempts = 0, ...
ReplayedRow(r) == [r EXCEPT !.status = "queued", !.attempts = 0]

-----------------------------------------------------------------------------
(* Redis list commands.                                                    *)

\* LREM key 1 id: the first occurrence from the head
DropFromHead(q, id) == RemoveFirst(q, id)

\* LREM key -1 id: the last occurrence, the one nearest the tail
DropFromTail(q, id) ==
  IF id \in ToSet(q)
  THEN RemoveAt(q, SelectLastInSeq(q, LAMBDA x : x = id))
  ELSE q

\* LMOVE processing:<w> pending RIGHT RIGHT: whatever is at the tail
CopyTail(w) ==                                                   \* a mutant
  IF processing[w] = <<>>
  THEN UNCHANGED <<pending, processing>>
  ELSE pending' = Append(pending, Last(processing[w])) /\ UNCHANGED processing

MoveTailToTail(w) ==
  IF processing[w] = <<>>
  THEN UNCHANGED <<pending, processing>>
  ELSE /\ pending' = Append(pending, Last(processing[w]))
       /\ processing' = [processing EXCEPT ![w] = Front(@)]

\* Redis deletes an empty list, so SCAN processing:* finds the others.
ProcessingKeys == {w \in WorkerIds : processing[w] # <<>>}

-----------------------------------------------------------------------------
Spend(kind) ==
  /\ budget[kind] > 0
  /\ budget' = [budget EXCEPT ![kind] = @ - 1]

StoresTypeOK ==
  /\ row \in [Jobs -> Rows]
  /\ effects \in [Jobs -> Seq(Nat)]
  /\ pending \in Seq(Jobs)
  /\ processing \in [WorkerIds -> Seq(Jobs)]
  /\ delayed \subseteq Jobs
  /\ alive \in [WorkerIds -> BOOLEAN]
  /\ budget \in [Disturbances -> Nat]

StoresInit ==
  /\ row = [j \in Jobs |-> NoRow]
  /\ effects = [j \in Jobs |-> <<>>]
  /\ pending = <<>>
  /\ processing = [w \in WorkerIds |-> <<>>]
  /\ delayed = {}
  /\ alive = [w \in WorkerIds |-> FALSE]
  /\ budget = Budget
=============================================================================
