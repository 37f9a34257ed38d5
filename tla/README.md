# QueueFlow in TLA+

QueueFlow is a job queue: an Express API records jobs in Postgres and pushes
their ids to Redis, worker processes take ids and run the jobs, a scheduler puts
back what failed or got lost. A dashboard polls and drives the API, and one
program starts all roles in a container. This directory specifies that system in
TLA+, checks it with TLC on small instances, and proves for every instance its
fencing, that crashes neither lose nor double a job, that while nothing fails but
handlers every unfinished job has exactly one keeper, its drain's book-keeping, the
order in which a process tree comes down, its idempotency and backoff, and what the
dashboard knows of a session.

Line references are to the repository; paths in `PROJECT.json` carry the prefix
`src/`. `worker` below is `src/worker/index.ts`, `reaper` is
`src/scheduler/reaper.ts`, `scheduler` is `src/scheduler/index.ts`, `api` is
`src/api/index.ts`, `auth` is `src/api/auth.ts`, `web/` is `web/src/`.

## 1. Inventory

| Component | State it keeps | Operations | Talks to |
|---|---|---|---|
| Postgres (`db/schema.sql`) | `jobs` rows, `job_effects` rows | the SQL of the others | – |
| Redis (`src/shared/keys.ts`) | `pending` list, one `processing:<id>` list per worker id, `delayed` sorted set, one expiring `worker:<id>:alive` key per worker id | LPUSH, BLMOVE, LMOVE, LREM, LRANGE, LINDEX, ZADD, ZREM, SET EX, EXISTS, SCAN | – |
| API, writing (`api` 44–150) | none between requests | submit, with an Idempotency-Key or without; replay | row first, then LPUSH |
| API, reading (`api` 98–258, `src/api/params.ts`) | none | job, list with filter and cursor, workers, health | reads both stores |
| API, login (`auth`, `api` 260–310) | wrong passwords per address, the secret that signs cookies | login, logout, me, throttle, cookie check, requireWrite | the browser |
| Worker (`worker`) | its slots, the lease of every execution, `stopping` | recover own list, take, claim, run, succeed, bury, park, release, drain | both stores |
| Heartbeat (`src/shared/heartbeat.ts`) | a timer | beat, stop | Redis |
| Semaphore (`src/shared/semaphore.ts`) | permits, FIFO of waiters | acquire, release, inFlight | the worker's loop and its drain |
| Handlers (`src/worker/handlers.ts`) | none | sleep, always_fail, deliver_webhook | somebody's server |
| Receiver (`src/receiver/index.ts`) | deliveries counted, ids applied, in memory | five routes, clear | the handler |
| Scheduler, promotion (`scheduler` 35–68) | the id in hand | ZREM, UPDATE, LPUSH | both stores |
| Scheduler, recovery (`reaper`) | the list, the row and the sets it has read so far | reap dead workers, sweep orphans | both stores |
| Backoff (`src/shared/retry.ts`) | none | a delay per attempt | – |
| Shutdown (`src/shared/shutdown.ts`) | `draining` | first signal drains, second exits | every role |
| Supervisor (`src/start.ts`), launcher (`src/dev/workers.ts`) | children, `shuttingDown` | migrate, start, stop all, react to an exit | child processes |
| Dashboard (`web/`) | cached answers of the API and the requests in flight | poll a list, grow it, poll a job, replay, sign in and out, submit | HTTP |

What makes it hard: there is no transaction over the two stores, so every
operation is a sequence of writes and any process can stop, fail or be overtaken
between two of them; and nobody who waits for an answer knows what an answer that
does not come would have said.

- A job changes hands five ways (enqueue, take, schedule, promote, rescue), each a
  pair of writes whose order decides whether a crash loses or doubles the id.
- The reaper acts on a heartbeat and on a row it read some awaits ago.
- A worker believed dead may be slow; its outcome arrives after its successor's.
- A restarted worker, a second scheduler or a second process under one
  `WORKER_ID` works on the same lists as the first.
- A drain decides from a counter and a time limit that nothing is in flight, and
  takes the heartbeat away.
- Signals arrive twice, at processes that boot, drain or hang; a parent learns of
  its children late.
- A page of a list, a job's status or the session is shown from a request that was
  made before something changed and is answered after it.

What has to be right, by component: *submission and replay* leave a queued row
that someone will find, one for each key; *hand-overs* keep exactly one copy of an
id; *executions* are exclusive and recorded at most once, in the order of their
claims; *attempts* are bounded; *recovery* neither loses nor copies; *drain* abandons
nothing; a *delivery* has its effect once, if the receiver can tell; the *process
tree* comes down, parents last, and reports a crash; the *list* neither repeats nor
skips; the *dashboard* does not take back what was acknowledged; and everything
accepted ends. `PROJECT.json` lists under `hazards` the lines where each of these
could break and the property that would notice.

## 2. The modules

Four systems, which meet in the same code but not in the same questions. Each has
its own composition, instances and proofs.

    Stores ── Api ─────┐
           ├─ Worker ──┼── QueueFlow ─── QueueFlowMC          (TLC)
           └─ Scheduler┘       │  └──── Lifecycle             (abstract)
                               └─ TypeProofs ── SafetyProofs ─┬─ CrashProofs  (TLAPS)
                                                              └─ CalmProofs

    Semaphore ── Roles ── Supervisor ── SupervisorMC / SupervisorProofs

    Submission ┐
    Backoff    ├── Delivery ── DeliveryMC / DeliveryProofs
    Receiver   ┘

    Pages ── Listing ── ListingMC / ListingProofs
    Throttle ── Access ── AccessMC / AccessProofs

### The path of a job through the two stores

**Stores** is the shared state, with one operator per SQL statement on a row
(`ClaimedRow`, `ParkedRow`, `RescuedRow`, …) and per Redis list command
(`DropFromHead` is `LREM 1`, `DropFromTail` is `LREM -1`, `MoveTailToTail` is
`LMOVE RIGHT RIGHT`). A list is written head first; its last element is the next
one to be taken. A row keeps the columns that some statement branches on or that a
document makes a claim about: `status`, `attempts`, `lease`, and whether
`created_at` is older than `ORPHAN_AGE_S`. The lease is the ordinal of the claim; the
code draws a random UUID and only compares for equality, so freshness is all that
matters, and the ordinal gives the proofs the order of claims. `effects[j]` is the
sequence of leases under which `job_effects` rows were written. `failed`, which
nothing writes, is left out of `Statuses`.

**Api** has one action per write: `Submit` and `Replay` (the row), `Enqueue` (the
LPUSH) and `RequestDies` between them. `GrowOld` is the passing of
`ORPHAN_AGE_S`.

**Worker** follows `main()` (`Start`, `FindNoHeartbeat` or `LeaveListAlone`,
`ReadOwnList`, `RequeueOwn`, `MoveBackOwn`, `StartBeating`), then per slot
`processOne()` (`Take`, `Claim`, `Succeed` / `FailToCommit` / `LoseCommitAnswer`,
`Bury` or `Park` and `Schedule`, `Release` or `Abandon`), and `Stop`, `Drained`,
`Crash`. Every action is the code between two awaits. `exec[s]` is what the
closure of one `processOne()` remembers: the id, the lease, the attempt count from
`RETURNING`. `main()` reads its own list before it beats, so the lists of
`recoverOwnProcessing()` (`stranded`) are stale data on purpose. The SELECT at the
head of `processOne()` and the claim are one action, because the columns it reads
(type, payload, max_attempts) never change. The success transaction is one action:
that is what BEGIN … COMMIT provides, and the row lock of its UPDATE orders it with
the other statements on the row.

**Scheduler** has one action per call of `promoteDue()`, `reapWorker()`,
`idsHeldByRedis()` and `sweepOrphans()`; `sched[d]` holds exactly what the code has
in local variables at that await. `Interrupt` is a throw inside the pass or the
death of the process: nothing in hand survives.

**QueueFlow** interleaves the three, states the fairness and all properties. `Copies(j)`
counts the places an id is in (`Places(j)`: a position of a list, the delayed set, the
hand of a request, a pass or a slot) without those of a worker that has finished with it
(`Released(j)`).
**Lifecycle** is the abstract specification: the state machine of a job as a client
sees it, with the attempt bound and the single recording; `FollowsLifecycle` maps
`status`, `attempts` and `Len(effects)` of every row to it. It models a promise,
not code, so it has no entries in `map`.

Everything the environment may do to this system is a *disturbance* with a budget
(`Stores!Disturbances`): `crash`, `restart`, `apiCrash`, `schedCrash`, `lapse` (a
live worker's heartbeat expires), `dbError`, `ackLost` (COMMIT done, answer lost),
`replyLost` (BLMOVE done, answer lost), `stop` (SIGTERM), `replay`, `age`, `slow`.
The budget bounds the runs and at the same time says, in one line of
`QueueFlowMC`, under which assumptions a run's properties hold. The theorems hold
for every budget. `slow` is a row that gets older than `ORPHAN_AGE_S` while the
request that wrote it has still not pushed the id; the sweep then pushes one copy
and the request another. It is a kind of its own because `AtMostOneCopy` depends on
it not happening, which `reaper` 13–15 leaves to the operator.

### Signals and processes

**Semaphore** is the class: `Acquire` takes a permit or a place in the queue,
`Release` hands its permit to the first waiter *without counting it back*,
`HeldPermits` is `inFlight`. In **Roles** the worker's loop and its executions use it
and `drain()` reads it. A worker there is its loop (`parked` in `acquire()`, in
`blmove`, throwing away junk, left), the number of jobs that run, its BLMOVE
connection (open, being closed, closed), the heartbeat key and the stage of
`drain()`; a scheduler is its pass; an API its open requests. What a job does to the
stores is QueueFlow's. `inbox[c]` is a set: equal signals that are not delivered yet
merge. `BeginDrain`, `SecondSignal` and `KilledAtBoot` are `onShutdown()` before and
after it is called. A timeout (the second `drain()` gives the loop, its limit for
the jobs, the scheduler's 5 s) may strike whenever what it waits for has not
happened. The answer of a BLMOVE may still arrive while its connection closes; that
is more than a closed socket allows and less than can be ruled out.

**Supervisor** adds the parent, `start.ts` or `dev/workers.ts`: `mail` is what it has
been sent, `noticed` the exits it has seen, which is later than `life` says. Signals,
crashes and hangs are *causes* with a budget, and `Together` bounds how many kinds
meet in one behaviour.

### From a request to an effect

**Submission** is POST /jobs under an Idempotency-Key, for callers that may stop
listening and an API that may die: the INSERT that conflicts or does not, the SELECT
that finds the row that was in the way, the LPUSH, the answer. What the API has done
(`handled`) and what the caller knows (`heard`) are apart. The 409 of `api` 79 is for
a row that was deleted between INSERT and SELECT; no code deletes rows, so it is not
reached. **Receiver** is the demo server, **Backoff** the set of delays
`nextDelayMs()` may return for an attempt.

**Delivery** composes them with the handlers and with what QueueFlow leaves of a job's
way: how often an id is on the pending list (`queue`), which executions have written
`retrying` and not yet done their ZADD (`parked`), and the delayed set. A process may die
between the row and the ZADD (`ParkingDies`) and between ZREM, UPDATE and LPUSH
(`PromotionBreaksOff`); the UPDATE of a promotion overwrites whatever the row says, as
`scheduler` 55 does. An id may be executed more than once, by a worker that has lost its
lease, and a queued job whose id is lost is looked for again; one that says `retrying` is
not. The lease is the attempt number, because only a claim renews it. `Take` is the BLMOVE
and the claim in one: a worker that dies between them leaves a queued row the reaper finds.

### What the dashboard shows

**Pages** is one page of GET /jobs: filter, `(created_at, id) < cursor`, order, LIMIT n+1,
and the cursor, cut to milliseconds by `toISOString()`. **Listing** is the dashboard over
a changing table: the infinite list of `useJobList` (a refetch reads as many pages as are
shown, one after the other, and shows them all at once), *load more*, the page of one
job, the replay button and its invalidations. Which request the query library starts,
joins or cancels is external and modelled from how these files use it: an interval joins
what is in flight, *load more* and an invalidation cancel it, a query without data joins
even then, a failed request is tried once more. So an acknowledged replay restarts the
request for the job's page only if the page shows something (`AskedAnew`). `steady` and `told` are not kept by any
code; they say what a reader may expect.

**Throttle** counts wrong passwords per address, with an age for `firstAt` in place of a
clock. **Access** is the login, the cookie with its expiry and its secret, `requireWrite`,
and the dashboard that knows of them only from the last answer of GET /auth/me.
`agreed` is what browser and server last agreed on, or what ended it: the session ran out
(`expired`), its process had no `SESSION_SECRET` (`replaced`), a sign-out was acknowledged
and the request for me that follows it failed (`unheard`). `recent` is the wrong passwords
looked at and `cleared` how often the server forgot the ones it had counted, by a right
password or a restart (`recent[ip][n]`: in this tick and the `n` before). None of the three
is in the code, and nothing sets the last two back but time.

### Abstractions

- Time: the backoff, the intervals and `TTL_S` only decide when an enabled action
  happens, and every order is explored; ages where a property is about a window.
- `BATCH` (100 ids per pass) is larger than any instance.
- Payload, error text, wording, logging, HTTP. What is wrong with a refused body is one
  kind of request, `malformed`.
- Non-UUID list entries: no writer pushes one. They exist in Roles (`TakeJunk`), where
  they keep the loop from its permit; the branches for an id without a row exist in
  `Claim` and `Inspect`, and `NoGhost` shows that they are never taken.
- In QueueFlow the semaphore is a fixed set of slots per process; Roles has the class.
- SCAN is a snapshot of the non-empty lists at one moment.
- A handler's time limit is shorter than the minute the slow route waits: the payload's
  `timeoutMs` has no upper limit, and a job with a longer one would succeed.
- Hashes and signatures are equality of secrets. Requests that carry an API key need no
  session and change nothing of what is modelled.
- Postgres and Redis themselves do not lose data; commands are not sent twice.

The MC modules hold the instances. A definition marked `a mutant` beside an operator is a
broken variant of it, one plausible mistake each; a property is kept only if such a
mistake makes TLC report it violated.

## 3. The runs

| Run | Environment | Shows |
|---|---|---|
| `Calm` | 1 job that may fail, 2 workers, 2 schedulers, one replay, one SIGTERM, nothing dies | `ExactlyOneCopy`, `RunningIsAttended`, `FinishedStaysFinished`, `FollowsLifecycle`, and under `FairSpec` `EverythingSettles` |
| `Chaos` | 1 job, 3 workers of which 2 die, API death, interrupted pass, ageing row, 1 scheduler, handlers that do not fail – the setting of `test/chaos.test.ts` | `AtMostOneEffect`, `RunsAlone`, `NothingLost`, `AtMostOneCopy`, `FollowsLifecycle`, and under `FairSpec` `EverythingSettles` |
| `Restart` | 2 jobs, one worker with 2 slots and one with 1, two deaths, two restarts under the old id, a lost BLMOVE answer, no scheduler – the setting of `test/crash.test.ts` 120 | `NothingLost`, `AtMostOneCopy` |
| `Storm` | 2 processes under one `WORKER_ID`, a lapse, a lost COMMIT answer, a lost BLMOVE answer, a failed call | `TypeOK`, `EffectsFenced`, `SucceededByItsOwner`, `NoGhost` |
| `Shutdown` | either parent; 2 workers, 1 scheduler, 1 API, `CONCURRENCY` 1, 1 open request; one each of SIGTERM, Ctrl+C, a stray SIGTERM, a crash and a hang, any two kinds together | `TypeOK`, `PermitsConserved`, `UnattendedIsIdle`, `ParentLeavesLast`, `CrashIsReported`, `OneStopIsPatient`, and under `FairSpec` `TreeComesDown` |
| `Listing` | 4 jobs, two of one instant, pages of 1, the filter `dead`; 2 changes by others, 1 replay at a time, 1 failed request, 1 visit to a job | `InOrder`, `SkippedOnlyWithinAMillisecond`, `AcknowledgedStaysReplayed`, and under `FairSpec` `EventuallyFresh` |
| `Delivery` | 2 requests, the second under the first one's key or without; every kind of job; `max_attempts` 3, a receiver that fails twice; 1 fault anywhere, 1 loss of the receiver's memory | `TypeOK`, `OneJobPerKey`, `AnswersAgree`, `AppliedOncePerMemory`, `SuccessWasAgreed`, `FlakyGivenUpForCause`, `BacksOff`, and under `FairSpec` `PromisedJobsFinish` |
| `Access` | 1 address, shared by the dashboard and a stranger, throttled at 2, a window of 1 tick and a session of 2; failures forgotten at most twice in a window; with and without a password, with and without `SESSION_SECRET` | `FewGuesses`, `BarTellsTheTruth`, `RefusalHasACause`, and under `FairSpec` `ThrottleEnds` |

`CHECK_DEADLOCK FALSE` is set where the system may really rest: in `Restart` (no
scheduler, all budgets spent), `Shutdown` (the tree is down), `Listing` and `SkippedRow`
(a job on screen that is up to date, with every bound spent) and `Delivery` (every job has
ended).

*Why the bounds are enough.*

- QueueFlow: the properties relate one job's row, its copies and its executions; a
  second job matters for the order inside a list (`LMOVE` moves whatever is at the
  tail), which `Restart` has; in `Chaos`, with one slot to a process, no list has two ids,
  and its safety properties are theorems for any number of jobs. Two executions of one
  job need two slots; a rescue and a second death need three workers; a race of
  schedulers needs two. `MaxAttempts = 2` separates the first attempt, the last and one
  too many. Each disturbance needs to happen once, a death twice so that the reaper's
  burial at the attempt limit is reached.
- `Shutdown`: one permit makes the loop wait for it, which is where hand-over and count
  part; more permits are the theorem's. Two workers are a launcher with a survivor. Two
  causes are a stop during a crash, a second signal during a drain, a hang during
  either; a third would only repeat one of them.
- `Listing`: a page border needs three rows and a row that comes at it a fourth; two
  microseconds to the millisecond are enough for two rows in one millisecond that differ
  and for two that do not. Two changes are one before and one after a page is read.
- `Delivery`: an overlap of two executions needs one heartbeat taken for lost; three
  attempts have two delays to compare, and the longest is reached at the third.
- `Access`: a window's last moment and the next one's first are two ticks. One address is
  the hard case, where the right passwords of the one forget the failures of the other; the
  theorem has any number of them. `Clears` bounds how often failures may be forgotten in a
  stretch: each time adds the same to the bound, and twice is one time after another.

*Fairness* is what the event loops and the timers of the code provide, never an
outcome and never a disturbance.

- `QueueFlow!Fairness`: weak fairness of the code that continues by itself (a request's
  LPUSH, `processOne()`, boot, drain, the passes, the timer), of starting a process that
  has not run, of time, and of `Take` as a whole: some idle slot takes a waiting id,
  since each idle one is blocked in BLMOVE. `Succeed`, `Bury` and `Park` are one progress
  condition: a handler ends, either way. A key nobody refreshes expires. Strong fairness
  for `BeginPass` and `ClaimDue`, because the loop of `scheduler` 141–154 alternates
  between them: each gets its turn although the other keeps disabling it.
- `Supervisor!Fairness`: a process that is not stuck keeps turning – beats, closes, ends
  its jobs and requests, takes its signals – and a parent is told of exits. Nothing
  makes a job or a request arrive, or a pass begin.
- `Listing!FairSpec`: timers tick and requests are answered or fail.
- `Delivery!FairSpec`: the API answers what it has received unless it dies, workers take
  ids and handlers end, the scheduler's passes come round.
- `Access!FairSpec`: time passes. Nobody has to do anything.

### Disagreements between code and documents

Each is a run with one property that TLC violates; `PROJECT.json` quotes the
sentence.

| Run | What happens |
|---|---|
| `LostRetry` | the worker dies between the row write `retrying` and the ZADD; the reaper drops the id, the sweep only sees `queued`: the job is lost |
| `LateCommit` | a slow worker commits between the reaper's SELECT and its UPDATE, which has no guard: `succeeded` becomes `queued`, and the job is recorded twice |
| `SkippedRow` | of two rows in one millisecond, one is the last of a page; the cursor has lost the microseconds, and the other is on neither page |
| `EdgeOfWindow` | wrong passwords at the end of a window and at the beginning of the next are together more than the limit within 15 minutes, although nothing is forgotten (`Clears = 0`) |

Some consequences of the same gaps are known and asserted by no run, so that a reader
does not take the passing ones for more than they say:

- Two schedulers may empty one dead worker's list, and the slower one rescues a job that
  has been claimed meanwhile (the guard missing in `LateCommit`). `AtMostOneEffect` and
  `RunsAlone` are therefore checked with one scheduler.
- `recoverOwnProcessing()` requeues without looking at `max_attempts`: the attempt bound
  of `FollowsLifecycle` holds where workers return under new ids.
- The sweep reads `pending`, then the lists; a *second* scheduler's rescue can move an
  old id past both reads, and it is pushed twice.
- Two processes under one `WORKER_ID` that boot together take back each other's jobs.
- What a live worker fails to record, or takes without learning of it, stays in its list
  until it ends: the reaper skips lists with a heartbeat.
- A scheduler that dies between ZREM and UPDATE loses the retry as `LostRetry` does.
- A heartbeat taken for lost leaves an id in two places: the rescued copy, and the execution
  that goes on or has its ZADD still to do. `promoteDue()` does not look at the row it
  overwrites, so the second copy can make a finished job `queued` again, and its claim can
  take `attempts` past `max_attempts`. `TypeOK` of Delivery allows one such attempt for each
  fault and no more.
- A job's page that is still waiting for its first answer when a replay is acknowledged may
  show the job dead once more, until the next poll.
- A right password and a restart make the throttle forget, so somebody who shares an address
  with the operator has `MAX_ATTEMPTS` guesses more after each; `README.md` 207 says so of
  the restart.

Fencing is not what fails in `LateCommit`: the second execution has its own, later
lease. What is missing is a guard on the reaper's writes. That is why
`AtMostOneEffect` is a property of `Chaos` and of the environments of section 4, and why
`EffectsFenced` is stated the way it is.

`OneStopIsPatient` exempts Ctrl+C: the terminal's SIGINT and the launcher's SIGTERM are
two signals to each worker, and a worker that gets both leaves its jobs to the reaper.
`ParentLeavesLast` and `OneStopIsPatient` are stated for at most one cause that has
struck once (`AtMostOneOf`), `CrashIsReported` for a parent nobody stopped; an operator
who signals `start.ts` twice ends it before its children.
`SkippedOnlyWithinAMillisecond` is what remains true beside `SkippedRow`.
`FewGuesses` bounds a stretch as long as a window by `2 * MAX_ATTEMPTS - 1`, not by
`MAX_ATTEMPTS`, because the window does not slide, and by `MAX_ATTEMPTS` more for each time
the failures are forgotten in it. `EdgeOfWindow` is the difference to `docs/api.md`.
`PromisedJobsFinish` exempts the jobs of `LostRetry` (`Stranded`: the row says `retrying`, a
fault has happened, and the id is nowhere; no action leads out of that) and nothing else.
`RefusalHasACause` names four causes; that the request for me a sign-out makes is still in
flight is one of them.

## 4. The proofs

Assumptions are those named in the modules, as weak as the code has them; TLC evaluates
them in every run. `Stores` and `Worker`: `NoJob` is no id, `NoWorker` no worker id,
`MaxAttempts` a positive integer, `Fencing` a Boolean, `Budget` a function into the
naturals, `IdOf` and `ProcOf` functions. `Semaphore`, `Roles`, `Supervisor`: a positive
capacity, disjoint roles, teams made of processes. `Submission`, `Backoff`, `Delivery`:
what each request may ask, positive or natural limits. `Throttle`, `Access`: positive
limits, and a home among the addresses. `Pages`, `Listing`: finitely many rows, each with
a time, a positive page size, and the old jobs among the rows. Nothing is assumed about how many jobs, workers,
slots, schedulers, requests, addresses or disturbances there are.

| Theorem | States |
|---|---|
| `TypeProofs!TypeCorrect` | `Spec => []TypeOK` |
| `SafetyProofs!FencingOrdersEffects` | `Spec => []EffectsFenced` |
| `SafetyProofs!SuccessIsTheOwners` | `Spec => []SucceededByItsOwner` |
| `SafetyProofs!NothingIsAGhost` | `Spec => []NoGhost` |
| `CrashProofs!CrashesRunAlone` | `CrashesOnly`: `Spec => []RunsAlone` |
| `CrashProofs!CrashesRecordOnce` | `CrashesOnly`: `Spec => []AtMostOneEffect` |
| `CrashProofs!CrashesLoseNothing` | `CrashesOnly`: `Spec => []NothingLost` |
| `CrashProofs!CrashesCopyNothing` | `CrashesOnly`: `Spec => []AtMostOneCopy` |
| `CrashProofs!CrashesFollowLifecycle` | `CrashesOnly`, `NoRestarts`: `Spec => FollowsLifecycle`, the refinement of `Lifecycle` |
| `CalmProofs!CalmHasOneCopy` | `CalmOnly`: `Spec => []ExactlyOneCopy` |
| `CalmProofs!CalmIsAttended` | `CalmOnly`: `Spec => []RunningIsAttended` |
| `CalmProofs!CalmRunsAlone` | `CalmOnly`: `Spec => []RunsAlone` |
| `CalmProofs!CalmRecordsOnce` | `CalmOnly`: `Spec => []AtMostOneEffect` |
| `CalmProofs!CalmLosesNothing` | `CalmOnly`: `Spec => []NothingLost` |
| `CalmProofs!CalmStaysFinished` | `CalmOnly`: `Spec => FinishedStaysFinished` |
| `CalmProofs!CalmFollowsLifecycle` | `CalmOnly`: `Spec => FollowsLifecycle`, the refinement of `Lifecycle` |
| `SupervisorProofs!SupervisorTypes` | `Spec => []TypeOK` |
| `SupervisorProofs!PermitsAreConserved` | `Spec => []PermitsConserved` |
| `SupervisorProofs!NothingRunsUnattended` | `Spec => []UnattendedIsIdle` |
| `SupervisorProofs!ParentIsLast` | `Spec => []ParentLeavesLast` |
| `SupervisorProofs!CrashesAreReported` | `Spec => []CrashIsReported` |
| `SupervisorProofs!OneStopHurriesNobody` | `Spec => []OneStopIsPatient` |
| `DeliveryProofs!DeliveryTypes` | `Spec => []TypeOK` |
| `DeliveryProofs!OneKeyOneJob` | `Spec => []OneJobPerKey` |
| `DeliveryProofs!OneKeyOneAnswer` | `Spec => []AnswersAgree` |
| `DeliveryProofs!OneEffectPerMemory` | `Spec => []AppliedOncePerMemory` |
| `DeliveryProofs!SuccessIsAgreed` | `Spec => []SuccessWasAgreed` |
| `DeliveryProofs!FlakyGivesUpForCause` | `Spec => []FlakyGivenUpForCause` |
| `DeliveryProofs!BackoffGrows` | `Spec => BacksOff` |
| `AccessProofs!TheBarTellsTheTruth` | `Spec => []BarTellsTheTruth` |
| `AccessProofs!EveryRefusalHasACause` | `Spec => RefusalHasACause` |
| `AccessProofs!FewWrongPasswords` | `Spec => []FewGuesses` |
| `ListingProofs!TheListIsInOrder` | `Spec => []InOrder` |
| `ListingProofs!NoRowIsSkippedOtherwise` | `Spec => []SkippedOnlyWithinAMillisecond` |
| `ListingProofs!AcknowledgedReplaysStay` | `Spec => []AcknowledgedStaysReplayed` |

**Types, fencing, ghosts.** `TypeOK` is not inductive: it allows a scheduler past its
ZREM to hold no id, and the next LPUSH would push that. `TypeInv` adds `Assigned`: a
slot that is not idle has a job, and a pass has a job and a worker id in the states that
use them. The proof has one lemma per process and one step per action; the list
lemmas before it say what `LREM` and `LMOVE` do to a list (found from the least or the greatest
index with the element, by the well-foundedness of the naturals).

The fencing theorems need `FenceInv`. `EffectsFenced` alone says nothing about leases
still in use, so `FenceInv` adds that an execution's lease is not later than its row's
(`LeasesPast`), has not been recorded (`LeasesUnused`) and is no other execution's
(`LeasesDistinct`), that recorded leases are not later than the row's
(`EffectsPast`), and that a row nobody has claimed has none. The proof sorts the
steps into three kinds: *quiet* ones, which record nothing, keep every lease and start
no execution (all of Api and Scheduler, most of Worker); a successful claim, whose lease
is later than all before it; and the success transaction, whose guard makes the
recorded lease the row's own. That the reaper's unguarded UPDATE is quiet is what makes
the theorems true although `AtMostOneEffect` is not. Replays combined with lapses and
burials are too many states for a run beside `Storm`; the theorems include them.

`NoGhost` is proved with `GhostInv`, which it becomes once the API's hand is
counted: an id between INSERT and LPUSH has its row. Rows are never deleted, and
every hand-over takes its id from a place the invariant covers.

**Crashes.** Five properties of QueueFlow hold in some environments only, and
`CrashesOnly` is one of them, the environments of the runs `Chaos` and `Restart` without
their bounds: any number of jobs, workers, slots and requests; workers that die anywhere,
are told to stop or lose the answer of a BLMOVE, requests and recovery passes that break
off, rows that get old, any number of times; and either one scheduler, or none and workers
that come back under their ids as often as they like. The constants of both runs satisfy
it. What it leaves out is
left out because a property then fails, in each case for a reason the code has:

- *handlers that throw* (`CanFail`): `Park` and `Bury` write the row before the LREM, so
  a crash between them leaves a copy in the list beside the one in the delayed set, and
  one between the row and the ZADD loses the retry (`LostRetry`);
- *a restart under the old id beside a scheduler*: the process takes back its list while
  the reaper empties it; two processes of one id do the same to each other;
- *a second scheduler*: two passes rescue one dead worker's job, the slower one without
  looking at the row again;
- *a lapse, a lost COMMIT answer, a failed call*: a live worker and the reaper, or the
  worker's own later attempt, both act on the job (`LateCommit`);
- *a replay*: it races the burial of the job it revives, whose id is still in a list;
- *a request slower than `ORPHAN_AGE_S`*: the sweep pushes the id and so does the request.

The invariant is that an id is in one place (`OnePlace`): once in `pending`, once in one
processing list, or in the hand of one request. `SlotInv` says that a slot works on an id
in its own list, of a process that beats, and under the lease of the row when it runs;
`BootInv` that a process that comes back has read all its list holds, that nothing there is
`running` once its UPDATE is done, and that the list is empty before it beats;
`PassInv` that the reaper touches only lists of processes that are gone for good, that
what it read of a row there is still true, and, for the sweep, that an id which is not in
what it has read so far is not in a place it has already passed: ids move from `pending`
to a list while a pass reads `pending` first. Only a rescue moves one back, and with one
scheduler no rescue runs beside a sweep. `OnePlace` gives `RunsAlone`, `AtMostOneCopy` and, with the
recorded effects tied to `succeeded` (`RowFits`), `AtMostOneEffect`; the same invariant
shows each step of a row to be one that `Lifecycle` allows, unless workers come back: their
recovery requeues a job whatever its attempts, so the refinement and the two bounds on
attempts in `RowFits` are stated for `NoRestarts`. TLC checks `CrashInv` on the
constants of `Restart` (77,068 states) and on those of `Chaos` with two jobs (648,437). The cardinality of `Places`
is the library's `FiniteSetTheorems`.

**Calm.** The other environment is the run `Calm` without its bounds: handlers that throw,
schedulers in any number that race for due retries, workers told to stop and dead jobs
replayed, any number of times. `CalmOnly` says that every process has a `WORKER_ID` of its
own and that only `stop` and `replay` have a budget. What else could happen is barred
because one of the properties then fails or no longer means anything:

- *deaths* leave a running job to nobody until the reaper comes, and a dead API or scheduler
  loses the id in its hand;
- *lapses, failed calls and lost answers* leave copies and outcomes that come late;
- *a restart*, even after a drain: between the reaper's EXISTS and its LINDEX the worker
  comes back, takes a job, and has it rescued from under it;
- *rows that get old*: the sweep reads `queued` of a row that another scheduler, or a request,
  is about to push, and the id is pushed twice.

The single place of `OnePlace` does not hold here. A job that fails is in the delayed set
before the LREM takes its id from the list; it can be promoted, and taken by another slot of
the same process, meanwhile, and then that list has the id twice. The invariant
(`CalmProofs!CalmInv`) therefore says of the lists that they only mirror the slots: each has
an id as often as a slot of its process works on it (`Tally`). What has a job is its
*keeper* – a request, `pending`, an execution that claims, runs or schedules, the delayed
set, a scheduler that updates or pushes – and a job has one keeper as long as it is
unfinished, of a kind its status names, and none afterwards (`Custody`). `CalmPass` says that
recovery finds only lists of processes that ended, which are empty. From `Custody` follows
`CalmWrites`, that every UPDATE finds the row in the status it was written for, although few
of them look: finished jobs stay finished, and each step of a row is one of `Lifecycle`.
`ExactlyOneCopy` is reached by counting: `Tally` makes the places in the lists as many as the
slots that work on the job, by a bijection; those with only their LREM left are the ones
`Copies` does not count, and of what remains `Custody` allows one. TLC checks `CalmInv` on the constants of `Calm` (35,726
states) and on two jobs with one process of two slots (45,169).

**The drain.** Neither property of a worker is inductive: `inFlight` alone does not say
whose the permits are. `WorkerInv` determines the whole semaphore from where the loop is
and how many jobs run, and adds that the loop waits only when every permit is with a
job. Then a permit handed over by `release()` is accounted for, and a count of zero,
read by `drain()` after its loop was given up on, means that the loop has left: it
cannot be between `acquire()` and an answer. `NoneSpawned` is needed for one step only,
the spawning of the children, which finds them off. The proof treats a step by what it
does to a worker: nothing, an end, or one of its own actions.

**Parents.** The parent's properties need to know what a signal in an inbox, a draining
child or an exit was caused by. `TreeInv` ties signals to their causes and says what the
parent has noticed; it holds for any causes. `SupervisorProofs!CalmInv` is about behaviours with at most
one, and not Ctrl+C: while the parent watches, at most one child has been *touched* (a
signal waits for it, it drains, or it has ended), and then by a stray signal or a crash;
a parent that stops has an empty mailbox. So when the parent tells its children nobody
else is answering anything, and it tells them once. `ReportInv` follows the exit code: as
long as `start.ts` is not asked to stop, it has only noticed children that were signalled
before they had a handler, or it is stopping with code 1. The proof sees a child as
`Moves` (it gets ready, takes a signal, ends its drain, is ended by a signal) and forgets
the rest of it. With `Budget` and `Together` arbitrary, "at most one" had to be said of
single causes instead of a cardinality that counts kinds: `AtMostOneOf`.

**One key, one job, one effect.** `SubmissionInv` adds to `OneJobPerKey` and the types that a
request answers with its own id until it has found another (`OwnIdUntilFound`) and that
what it names is recorded, and is its own or one under its key, from the INSERT or the
SELECT on (`AnswersKnown`). Two callers who agree on a key then name two recorded jobs
under that key, which are one. The effects of a job are counted against the losses of
memory: a job has had no more effects than there were losses, and one more only if the
receiver remembers it (`EffectsInv`).

**Executions and delays.** `WorkInv` adds to the types of Delivery what an execution says
about its receiver (`ExecutionInv`: a good answer means it agreed; no two executions have
one attempt) and what a row says about its executions (`JobInv`: a dead job has no attempt
left, and nobody attends to one that its owner has settled). It holds although a late
promotion may make any row `queued` again: only a claim gives a job an owner.

That attempts stay near `max_attempts` is a matter of how many copies of an id there are
(`CopiesInv`): on the list, parked, delayed, or *due*, still to be pushed by the request or the
sweep. A job has one copy or is at work, and one more of either for each fault. A claim uses
one up; what ends the work leaves one again only below the limit; beyond it every claim uses
one up for good.

`FlakyGivenUpForCause` is an account of attempts. `Spoiled` is what may have spoiled one: a
delivery the receiver had to answer with an error, `n` for each memory it has lost and at
most `n` for the one it has, and faults. `AttemptsInv` says that the attempts of a job, those
it has at work and the copies that may become some are together at most one more than that,
and one more still while there is *hope*: the lease's owner is about to deliver, has a good
answer coming, or has it. Hope ends only with a fault or an error that counts, or with
success. A dead job has no hope and at least `max_attempts` attempts.

`BacksOff` needs that the delay a job shows is that of an earlier attempt than the one going
on (`WaitInv`), and that the delays of different attempts do not overlap below the cap: a
delay is less than twice its floor, and the next floor is twice as high. That `2^(n+1)` is
twice `2^n` is taken from the library's theorem on the cardinality of a powerset
(`FS_SUBSET`), because the provers know exponentiation only as a symbol; the library's own
proof of that theorem cites just this law of exponents as a lemma it does not prove.

**What the dashboard knows.** `BarTellsTheTruth` speaks of no request in flight; the
invariant is about the one that is: whatever is answered is still true but for a session
that ran out meanwhile (`AnswerIsCurrent`), because an acknowledgement cancels every request
made before it – if there is an answer to show meanwhile, which nobody signs in without
(`SignsKnowing`). `AgreementHolds` says that the session stands as long as the agreement
does. A write is refused only where the dashboard takes itself for signed in and is not;
`MistakeHasACause` says when that can be, in the terms of `RefusalHasACause`, and every step
keeps it.

**Guesses.** `recent[ip][n]` counts the wrong passwords looked at in this tick and the `n`
before, which makes a tick a shift and the bound a bound on one number, where a count per
tick would have to be summed. `Accounted` relates it to the entry: those younger than the
window's first failure are fewer than its count, and the rest of a stretch can add the
window before, which had fewer than `MAX_ATTEMPTS` left of its own when its first was too
old, and what was in the count each time it was forgotten, at most `MAX_ATTEMPTS`
(`ClearingIsAccounted`). A blocked attempt changes neither, so the window cannot be stretched.

**Pages.** `PageOfRows` says what one page is, for any table and cursor: rows in order,
below the cursor, and what it leaves out is older than its last row. It is proved from
`Rank`, how many rows come before one, which takes every value below the number of rows
(`FS_PigeonHole`). A list of pages is a `Chain`: each page lies below the cursor of each one
before; a page read from its last cursor continues it, whatever the table has become
(`PageContinues`), because the cursor, cut to milliseconds, is never above its row. And the
list `Covers` the rows that stayed: each is listed, shares the millisecond of a page's last
row, or is below the last cursor (`PageKeepsSight`). `IInv` says so of the pages on screen,
of those of a refetch, and of the two together for *load more*, where `fetch` has to go on
from a list that nothing else may have changed. `ToldInv` adds that a job told replayed is
not dead and that nothing in flight says it is, but for the first answer of a page; only the
cancellation in `invalidateQueries` keeps that.

**Only model-checked**: liveness (`EverythingSettles`, `TreeComesDown`, `EventuallyFresh`,
`PromisedJobsFinish`, `ThrottleEnds`), which is outside the provers. Every other property of
a passing run is a theorem, for the environment its run stands for. Pages and Listing avoid `SetToSortSeq` and `FlattenSeq`, of which
the provers know nothing: `Newest` names the row at each place by its rank, and `InOrder`
compares places of pages.

## 5. Not modelled, and why

- `src/dev/bench.ts`, `src/dev/seed.ts`: scripts without state of their own that use the
  API, or fill its tables with generated rows.
- The connection factories, the logger, `src/db/migrate.ts`: thin wrappers of libraries.
  What they let through is a disturbance of the models; whether the migration succeeds is a
  step of Supervisor.
- GET /workers, GET /health, GET /live and the dashboard pages that show them: they read
  and change nothing.
- The rejection of malformed query parameters: a 400 before anything is read.
- API keys: a credential without state, compared on each request.
- Commands sent again by the Redis client after a reconnect (`src/shared/redis.ts` 26):
  which ones is decided inside the library. Only lost answers of BLMOVE and COMMIT
  are modelled.
- `BATCH`: a literal of 100. That a backlog of 100 old ids in `pending` hides a younger
  orphan from the sweep needs more rows than an instance can have.
- The address ranges a webhook may not name: string tests of one request.
- The static pages, the diagrams and the interface components of the dashboard: layout and
  vendored code.

What could still be added: a proof that the slots of Worker are what Roles' semaphore gives.
