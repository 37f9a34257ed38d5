-------------------------- MODULE SupervisorProofs ---------------------------
(***************************************************************************)
(* For every CONCURRENCY, every set of processes and every number of       *)
(* signals, crashes and hangs.                                             *)
(*                                                                         *)
(* What drain() may rely on: the semaphore counts the jobs in flight and   *)
(* the main loop's own permit, and a worker that has deleted its heartbeat *)
(* runs nothing and will run nothing.  Neither is inductive.  WorkerInv    *)
(* determines the whole semaphore from where the loop is and how many jobs *)
(* run, and adds that the loop only waits when every permit is with a job: *)
(* so a permit handed to it by release() is accounted for, and none being  *)
(* out means the loop has left.                                            *)
(*                                                                         *)
(* What a parent may rely on: unless two things bring the tree down it     *)
(* leaves last and hurries nobody, and a lost role is reported.  TreeInv   *)
(* says that every signal has a cause, CalmInv that after a single cause   *)
(* at most one child has been touched before the parent tells the others,  *)
(* and that it tells them once; ReportInv follows start.ts's exit code.    *)
(***************************************************************************)
EXTENDS Supervisor, TLAPS

Loops == {"none", "parked", "blmove", "discard", "left"}

Busy(w) == IF loop[w] \in {"blmove", "discard"} THEN 1 ELSE 0

Waiters(w) == IF loop[w] = "parked" THEN <<"main">> ELSE <<>>

Sems == [available : 0 .. Capacity, waiting : {<<>>, <<"main">>}]

Types ==
  /\ life \in [Processes -> Lives]
  /\ semaphore \in [Workers -> Sems]
  /\ loop \in [Workers -> Loops]
  /\ running \in [Workers -> Nat]
  /\ alive \in [Workers -> BOOLEAN]

WorkerInv(w) ==
  /\ semaphore[w] = [available |-> Capacity - running[w] - Busy(w), waiting |-> Waiters(w)]
  /\ running[w] + Busy(w) <= Capacity
  /\ loop[w] = "parked" => running[w] = Capacity
  /\ life[w] \in {"off", "boot"} => loop[w] = "none" /\ running[w] = 0
  /\ life[w] = "up" => alive[w]
  /\ life[w] = "draining" /\ ~alive[w] => running[w] = 0 /\ loop[w] \in {"none", "left"}

IInv == Types /\ \A w \in Workers : WorkerInv(w)

-----------------------------------------------------------------------------
(* The ways a step may treat a worker.                                     *)

Unmoved(w) ==
  /\ life'[w] = life[w] /\ semaphore'[w] = semaphore[w] /\ loop'[w] = loop[w]
  /\ running'[w] = running[w] /\ alive'[w] = alive[w]

\* A step that changes nothing of a worker keeps what holds of it.
LEMMA UnmovedKeeps ==
  ASSUME NEW w \in Workers, WorkerInv(w), Unmoved(w)
  PROVE  WorkerInv(w)'
BY DEF WorkerInv, Unmoved, Busy, Waiters

\* A worker that has ended holds no permit and runs nothing.
LEMMA EndedKeeps ==
  ASSUME NEW w \in Workers, life'[w] \in Endings,
         semaphore'[w] = Fresh, loop'[w] = "none", running'[w] = 0
  PROVE  WorkerInv(w)'
BY CapacityAssumption DEF WorkerInv, Busy, Waiters, Fresh, Endings

\* The roles do not overlap, so what another role does to itself is no
\* business of a worker.
LEMMA OtherRoles ==
  \A w \in Workers, c \in Schedulers \cup Servers : w # c
BY RolesAssumption

\* End() leaves every process in memory of its own.
LEMMA EndKeeps ==
  ASSUME IInv, NEW some \in SUBSET Processes, NEW ending \in Endings, End(some, ending)
  PROVE  IInv'
<1> USE DEF IInv, Types
<1>1. life' \in [Processes -> Lives]
  BY DEF End, ReplaceIn, Lives
<1>2. semaphore' \in [Workers -> Sems]
  <2>1. Fresh \in Sems
    BY CapacityAssumption DEF Fresh, Sems
  <2> QED
    BY <2>1 DEF End, ReplaceIn
<1>3. loop' \in [Workers -> Loops]
  BY DEF End, ReplaceIn, Loops
<1>4. running' \in [Workers -> Nat]
  BY DEF End, ReplaceIn
<1>5. alive' \in [Workers -> BOOLEAN]
  BY DEF End
<1>6. ASSUME NEW w \in Workers
      PROVE  WorkerInv(w)'
  <2>1. w \in Processes
    BY DEF Processes
  <2>2. CASE w \in some
    <3>1. /\ life'[w] \in Endings /\ semaphore'[w] = Fresh
          /\ loop'[w] = "none" /\ running'[w] = 0
      BY <2>1, <2>2 DEF End, ReplaceIn
    <3> QED
      BY <3>1, EndedKeeps
  <2>3. CASE w \notin some
    <3>1. Unmoved(w)
      BY <2>1, <2>3 DEF End, ReplaceIn, Unmoved
    <3> QED
      BY <3>1, UnmovedKeeps
  <2> QED
    BY <2>2, <2>3
<1> QED
  BY <1>1, <1>2, <1>3, <1>4, <1>5, <1>6

-----------------------------------------------------------------------------
(* The steps of a worker.                                                  *)

\* What a turn of the loop leaves of a semaphore with a permits and no waiter.
Turned(w, a) ==
  /\ loop' \in [Workers -> Loops]
  /\ semaphore' \in [Workers -> Sems]
  /\ \A v \in Workers \ {w} : loop'[v] = loop[v] /\ semaphore'[v] = semaphore[v]
  /\ semaphore'[w] = [available |-> a - Busy(w)', waiting |-> Waiters(w)']
  /\ Busy(w)' <= a
  /\ loop'[w] = "parked" => a = 0
  /\ life[w] = "draining" => loop'[w] = "left"

\* Turn() takes the permit it can get, and waits only if there is none.
LEMMA TurnResult ==
  ASSUME Types, NEW w \in Workers, NEW a \in 0 .. Capacity,
         Turn(w, [available |-> a, waiting |-> <<>>])
  PROVE  Turned(w, a)
<1> DEFINE s == [available |-> a, waiting |-> <<>>]
<1> USE CapacityAssumption DEF Turned
<1>1. loop \in [Workers -> Loops] /\ semaphore \in [Workers -> Sems]
  BY DEF Types
<1>2. CASE Stopping(w)
  <2>1. loop' = [loop EXCEPT ![w] = "left"] /\ semaphore' = [semaphore EXCEPT ![w] = s]
    BY <1>2 DEF Turn
  <2>2. s \in Sems
    BY DEF Sems
  <2>3. loop'[w] = "left" /\ semaphore'[w] = s
    BY <1>1, <2>1
  <2>4. Busy(w)' = 0 /\ Waiters(w)' = <<>>
    BY <2>3 DEF Busy, Waiters
  <2>5. a - 0 = a /\ 0 <= a
    OBVIOUS
  <2>6. semaphore'[w] = [available |-> a - Busy(w)', waiting |-> Waiters(w)']
    BY <2>3, <2>4, <2>5
  <2> QED
    BY <1>1, <2>1, <2>2, <2>3, <2>4, <2>5, <2>6 DEF Loops
<1>3. CASE ~Stopping(w) /\ a > 0
  <2> DEFINE t == [available |-> a - 1, waiting |-> <<>>]
  <2>1. Acquire(s, "main") = t
    BY <1>3 DEF Acquire
  <2>2. loop' = [loop EXCEPT ![w] = "blmove"] /\ semaphore' = [semaphore EXCEPT ![w] = t]
    BY <1>3, <2>1 DEF Turn
  <2>3. t \in Sems
    BY <1>3 DEF Sems
  <2>4. loop'[w] = "blmove" /\ semaphore'[w] = t
    BY <1>1, <2>2
  <2>5. Busy(w)' = 1 /\ Waiters(w)' = <<>>
    BY <2>4 DEF Busy, Waiters
  <2>6. semaphore'[w] = [available |-> a - Busy(w)', waiting |-> Waiters(w)']
    BY <2>4, <2>5
  <2> QED
    BY <1>1, <1>3, <2>2, <2>3, <2>4, <2>5, <2>6 DEF Loops, Stopping
<1>4. CASE ~Stopping(w) /\ ~(a > 0)
  <2> DEFINE t == [available |-> a, waiting |-> <<"main">>]
  <2>1. Append(<<>>, "main") = <<"main">> /\ a = 0
    BY <1>4
  <2>2. Acquire(s, "main") = t
    BY <1>4, <2>1 DEF Acquire
  <2>3. loop' = [loop EXCEPT ![w] = "parked"] /\ semaphore' = [semaphore EXCEPT ![w] = t]
    BY <1>4, <2>2 DEF Turn
  <2>4. t \in Sems
    BY DEF Sems
  <2>5. loop'[w] = "parked" /\ semaphore'[w] = t
    BY <1>1, <2>3
  <2>6. Busy(w)' = 0 /\ Waiters(w)' = <<"main">>
    BY <2>5 DEF Busy, Waiters
  <2>7. semaphore'[w] = [available |-> a - Busy(w)', waiting |-> Waiters(w)']
    BY <2>1, <2>5, <2>6
  <2> QED
    BY <1>1, <1>4, <2>1, <2>3, <2>4, <2>5, <2>6, <2>7 DEF Loops, Stopping
<1> QED
  BY <1>2, <1>3, <1>4

\* A turn keeps the invariant when the permits it starts from are those that
\* no job has.
LEMMA TurnKeeps ==
  ASSUME IInv, NEW w \in Workers, NEW a \in 0 .. Capacity,
         a = Capacity - running'[w], Turned(w, a),
         life' \in [Processes -> Lives], running' \in [Workers -> Nat], alive' = alive,
         life'[w] \in {"up", "draining"}, alive[w],
         \A v \in Workers \ {w} : life'[v] = life[v] /\ running'[v] = running[v]
  PROVE  IInv'
<1> USE CapacityAssumption
<1>1. Types'
  BY DEF Turned, Types, IInv
<1>2. WorkerInv(w)'
  <2>1. Busy(w)' \in {0, 1} /\ running'[w] \in Nat
    BY DEF Busy
  <2>2. semaphore'[w] = [available |-> a - Busy(w)', waiting |-> Waiters(w)']
    BY DEF Turned
  <2>3. a - Busy(w)' = Capacity - running'[w] - Busy(w)' /\ Busy(w)' <= a
    BY <2>1 DEF Turned
  <2>4. running'[w] + Busy(w)' <= Capacity
    BY <2>1, <2>3
  <2>5. loop'[w] = "parked" => running'[w] = Capacity
    BY <2>1 DEF Turned
  <2> QED
    BY <2>2, <2>3, <2>4, <2>5 DEF WorkerInv
<1>3. ASSUME NEW v \in Workers, v # w
      PROVE  WorkerInv(v)'
  <2>1. Unmoved(v)
    BY <1>3 DEF Unmoved, Turned
  <2> QED
    BY <2>1, UnmovedKeeps DEF IInv
<1> QED
  BY <1>1, <1>2, <1>3 DEF IInv

\* Entering the loop, taking a job and putting junk back all end in a turn.
LEMMA LoopStepKeeps ==
  ASSUME IInv, NEW w \in Workers,
         StartWorking(w) \/ TakeJob(w) \/ Discarded(w)
  PROVE  IInv'
<1> USE CapacityAssumption
<1>0. Types /\ WorkerInv(w) /\ w \in Processes /\ \A v \in Workers : v \in Processes
  BY DEF Processes, IInv
<1>1. CASE StartWorking(w)
  <2>1. /\ semaphore[w] = [available |-> Capacity, waiting |-> <<>>]
        /\ running[w] = 0 /\ Capacity = Capacity - running[w]
    BY <1>0, <1>1 DEF StartWorking, WorkerInv, Busy, Waiters
  <2>2. Turned(w, Capacity)
    BY <1>0, <1>1, <2>1, TurnResult DEF StartWorking
  <2>3. /\ life' \in [Processes -> Lives] /\ life'[w] = "up"
        /\ running' = running /\ alive' = alive /\ alive[w]
        /\ \A v \in Workers \ {w} : life'[v] = life[v]
        /\ running \in [Workers -> Nat]
    BY <1>0, <1>1 DEF StartWorking, Types, Lives
  <2> QED
    BY <2>1, <2>2, <2>3, TurnKeeps
<1>2. CASE TakeJob(w)
  <2> DEFINE a == Capacity - running[w] - 1
  <2>1. loop[w] = "blmove" /\ Turning(w) /\ running[w] \in Nat
    BY <1>0, <1>2 DEF TakeJob, Types
  <2>2. Busy(w) = 1 /\ Waiters(w) = <<>>
    BY <2>1 DEF Busy, Waiters
  <2>3. semaphore[w] = [available |-> a, waiting |-> <<>>] /\ a \in 0 .. Capacity
    BY <1>0, <2>1, <2>2 DEF WorkerInv
  <2>4. Turned(w, a)
    BY <1>0, <1>2, <2>3, TurnResult DEF TakeJob
  <2>5. /\ life' = life /\ alive' = alive /\ life \in [Processes -> Lives]
        /\ life[w] \in {"up", "draining"} /\ alive[w]
    BY <1>0, <1>2, <2>1 DEF TakeJob, Types, Turning, WorkerInv
  <2>6. /\ running' \in [Workers -> Nat] /\ running'[w] = running[w] + 1
        /\ \A v \in Workers \ {w} : running'[v] = running[v]
    BY <1>0, <1>2 DEF TakeJob, Types
  <2>7. a = Capacity - running'[w]
    BY <2>1, <2>6
  <2> QED
    BY <2>3, <2>4, <2>5, <2>6, <2>7, TurnKeeps
<1>3. CASE Discarded(w)
  <2> DEFINE a == Capacity - running[w]
  <2>1. loop[w] = "discard" /\ Turning(w) /\ running[w] \in Nat
    BY <1>0, <1>3 DEF Discarded, Types
  <2>2. Busy(w) = 1 /\ Waiters(w) = <<>>
    BY <2>1 DEF Busy, Waiters
  <2>3. semaphore[w] = [available |-> a - 1, waiting |-> <<>>] /\ a \in 1 .. Capacity
    BY <1>0, <2>1, <2>2 DEF WorkerInv
  <2>4. Release(semaphore[w]) = [available |-> a, waiting |-> <<>>]
    BY <2>3 DEF Release
  <2>5. Turned(w, a)
    BY <1>0, <1>3, <2>3, <2>4, TurnResult DEF Discarded
  <2>6. /\ life' = life /\ alive' = alive /\ life \in [Processes -> Lives]
        /\ life[w] \in {"up", "draining"} /\ alive[w]
        /\ running' = running /\ running \in [Workers -> Nat]
    BY <1>0, <1>3, <2>1 DEF Discarded, Types, Turning, WorkerInv
  <2>7. a = Capacity - running'[w] /\ a \in 0 .. Capacity
    BY <2>1, <2>3, <2>6
  <2> QED
    BY <2>5, <2>6, <2>7, TurnKeeps
<1> QED
  BY <1>1, <1>2, <1>3

\* A step of one worker that keeps its own part keeps everything.
LEMMA LocalKeeps ==
  ASSUME IInv, NEW w \in Workers, Types', WorkerInv(w)',
         \A v \in Workers \ {w} : Unmoved(v)
  PROVE  IInv'
BY UnmovedKeeps DEF IInv

\* Junk is in hand, or the BLMOVE is rejected: the loop's permit stays out, or
\* is put back.
LEMMA AnswerKeeps ==
  ASSUME IInv, NEW w \in Workers, TakeJunk(w) \/ BlmoveRejected(w)
  PROVE  IInv'
<1> USE CapacityAssumption
<1>0. Types /\ WorkerInv(w) /\ running[w] \in Nat
  BY DEF IInv, Types
<1>1. loop[w] = "blmove" /\ Turning(w)
  BY DEF TakeJunk, BlmoveRejected
<1>2. Busy(w) = 1 /\ Waiters(w) = <<>>
  BY <1>1 DEF Busy, Waiters
<1>3. CASE TakeJunk(w)
  <2>1. loop'[w] = "discard" /\ Types' /\ \A v \in Workers \ {w} : Unmoved(v)
    BY <1>0, <1>3 DEF TakeJunk, Types, Loops, Unmoved
  <2>2. Busy(w)' = 1 /\ Waiters(w)' = <<>>
    BY <2>1 DEF Busy, Waiters
  <2>3. WorkerInv(w)'
    BY <1>0, <1>1, <1>2, <1>3, <2>1, <2>2 DEF TakeJunk, WorkerInv, Turning
  <2> QED
    BY <2>1, <2>3, LocalKeeps
<1>4. CASE BlmoveRejected(w)
  <2> DEFINE t == [available |-> Capacity - running[w], waiting |-> <<>>]
  <2>1. /\ semaphore[w] = [available |-> Capacity - running[w] - 1, waiting |-> <<>>]
        /\ running[w] + 1 <= Capacity
    BY <1>0, <1>2 DEF WorkerInv
  <2>2. Release(semaphore[w]) = t /\ t \in Sems
    BY <1>0, <2>1 DEF Release, Sems
  <2>3. /\ loop'[w] = "left" /\ semaphore'[w] = t
        /\ Types' /\ \A v \in Workers \ {w} : Unmoved(v)
    BY <1>0, <1>4, <2>2 DEF BlmoveRejected, Types, Loops, Unmoved
  <2>4. Busy(w)' = 0 /\ Waiters(w)' = <<>>
    BY <2>3 DEF Busy, Waiters
  <2>5. life' = life /\ running' = running /\ alive' = alive
    BY <1>4 DEF BlmoveRejected
  <2>6. semaphore'[w] = [available |-> Capacity - running'[w] - Busy(w)', waiting |-> Waiters(w)']
    BY <1>0, <2>3, <2>4, <2>5
  <2>7. running'[w] + Busy(w)' <= Capacity
    BY <1>0, <2>1, <2>4, <2>5
  <2>8. WorkerInv(w)'
    BY <1>0, <1>1, <2>3, <2>5, <2>6, <2>7 DEF WorkerInv, Turning
  <2> QED
    BY <2>3, <2>8, LocalKeeps
<1> QED
  BY <1>3, <1>4

\* A job's permit goes to the loop if the loop waits, else back to the pool.
LEMMA JobEndsKeeps ==
  ASSUME IInv, NEW w \in Workers, JobEnds(w)
  PROVE  IInv'
<1> USE CapacityAssumption
<1>0. Types /\ WorkerInv(w) /\ running[w] \in Nat /\ running[w] > 0 /\ Turning(w)
  BY DEF IInv, Types, JobEnds
<1>1. /\ running' \in [Workers -> Nat] /\ running'[w] = running[w] - 1
      /\ \A v \in Workers \ {w} : running'[v] = running[v]
      /\ life' = life /\ alive' = alive
  BY <1>0 DEF JobEnds, Types
<1>2. CASE loop[w] = "parked"
  <2> DEFINE t == [available |-> 0, waiting |-> <<>>]
  <2>1. Busy(w) = 0 /\ Waiters(w) = <<"main">> /\ running[w] = Capacity
    BY <1>0, <1>2 DEF Busy, Waiters, WorkerInv
  <2>2. semaphore[w] = [available |-> 0, waiting |-> <<"main">>]
    BY <1>0, <2>1 DEF WorkerInv
  <2>3. Tail(<<"main">>) = <<>> /\ <<"main">> # <<>>
    OBVIOUS
  <2>4. Release(semaphore[w]) = t /\ t \in Sems /\ semaphore[w].waiting # <<>>
    BY <2>2, <2>3 DEF Release, Sems
  <2>5. /\ loop' \in [Workers -> Loops] /\ loop'[w] = "blmove"
        /\ semaphore' \in [Workers -> Sems] /\ semaphore'[w] = t
        /\ \A v \in Workers \ {w} : loop'[v] = loop[v] /\ semaphore'[v] = semaphore[v]
    BY <1>0, <2>4 DEF JobEnds, Types, Loops
  <2>6. Busy(w)' = 1 /\ Waiters(w)' = <<>>
    BY <2>5 DEF Busy, Waiters
  <2>7. /\ Capacity - running'[w] - Busy(w)' = 0 /\ running'[w] + Busy(w)' <= Capacity
    BY <1>0, <1>1, <2>1, <2>6
  <2>a. life[w] \in {"up", "draining"} /\ alive[w]
    BY <1>0 DEF WorkerInv, Turning
  <2>b. semaphore'[w] = [available |-> Capacity - running'[w] - Busy(w)', waiting |-> Waiters(w)']
    BY <2>5, <2>6, <2>7
  <2>8. WorkerInv(w)'
    BY <1>1, <2>5, <2>7, <2>a, <2>b DEF WorkerInv
  <2>9. Types' /\ \A v \in Workers \ {w} : Unmoved(v)
    BY <1>0, <1>1, <2>5 DEF Types, Unmoved
  <2> QED
    BY <2>8, <2>9, LocalKeeps
<1>3. CASE loop[w] # "parked"
  <2> DEFINE n == Capacity - running[w] - Busy(w)
             t == [available |-> n + 1, waiting |-> <<>>]
  <2>1. Busy(w) \in {0, 1} /\ Waiters(w) = <<>>
    BY <1>3 DEF Busy, Waiters
  <2>2. /\ semaphore[w] = [available |-> n, waiting |-> <<>>]
        /\ n \in 0 .. Capacity - 1
    BY <1>0, <2>1 DEF WorkerInv
  <2>3. Release(semaphore[w]) = t /\ t \in Sems /\ semaphore[w].waiting = <<>>
    BY <2>2 DEF Release, Sems
  <2>4. /\ loop' \in [Workers -> Loops] /\ loop'[w] = loop[w]
        /\ semaphore' \in [Workers -> Sems] /\ semaphore'[w] = t
        /\ \A v \in Workers \ {w} : loop'[v] = loop[v] /\ semaphore'[v] = semaphore[v]
    BY <1>0, <2>3 DEF JobEnds, Types, Loops
  <2>5. Busy(w)' = Busy(w) /\ Waiters(w)' = <<>>
    BY <1>3, <2>4 DEF Busy, Waiters
  <2>6. /\ n + 1 = Capacity - running'[w] - Busy(w)' /\ running'[w] + Busy(w)' <= Capacity
    BY <1>0, <1>1, <2>1, <2>2, <2>5
  <2>7. running[w] # 0 /\ (Turning(w)' <=> Turning(w))
    BY <1>0, <1>1 DEF Turning
  <2>8. WorkerInv(w)'
    BY <1>0, <1>1, <1>3, <2>4, <2>5, <2>6, <2>7 DEF WorkerInv, Turning
  <2>9. Types' /\ \A v \in Workers \ {w} : Unmoved(v)
    BY <1>0, <1>1, <2>4 DEF Types, Unmoved
  <2> QED
    BY <2>8, <2>9, LocalKeeps
<1> QED
  BY <1>2, <1>3

\* No permit out means that the loop has left and nothing runs: the heartbeat
\* may go.
LEMMA DeleteKeeps ==
  ASSUME IInv, NEW w \in Workers, DeleteHeartbeat(w)
  PROVE  IInv'
<1> USE CapacityAssumption
<1>0. /\ Types /\ WorkerInv(w) /\ running[w] \in Nat /\ life[w] = "draining"
      /\ semaphore[w].available \in Nat /\ Capacity - semaphore[w].available = 0
      /\ loop[w] \in Loops
  BY DEF IInv, Types, Sems, DeleteHeartbeat, Stopping, Drained, HeldPermits
<1>1. Busy(w) \in {0, 1} /\ (Busy(w) = 0 => loop[w] \notin {"blmove", "discard"})
  BY DEF Busy
<1>2. running[w] = 0 /\ Busy(w) = 0
  BY <1>0, <1>1 DEF WorkerInv
<1>3. loop[w] \in {"none", "left"}
  BY <1>0, <1>1, <1>2 DEF WorkerInv, Loops
<1>4. /\ life' = life /\ semaphore' = semaphore /\ loop' = loop /\ running' = running
      /\ alive' \in [Workers -> BOOLEAN]
      /\ \A v \in Workers \ {w} : alive'[v] = alive[v]
  BY <1>0 DEF DeleteHeartbeat, Types
<1>5. WorkerInv(w)'
  BY <1>0, <1>2, <1>3, <1>4 DEF WorkerInv, Busy, Waiters
<1>6. Types' /\ \A v \in Workers \ {w} : Unmoved(v)
  BY <1>0, <1>4 DEF Types, Unmoved
<1> QED
  BY <1>5, <1>6, LocalKeeps

\* The heartbeat appears at boot and expires after the end.
LEMMA BeatKeeps ==
  ASSUME IInv, NEW w \in Workers, FirstBeat(w) \/ Expire(w)
  PROVE  IInv'
<1>0. Types /\ WorkerInv(w)
  BY DEF IInv
<1>1. /\ life' = life /\ semaphore' = semaphore /\ loop' = loop /\ running' = running
      /\ alive' \in [Workers -> BOOLEAN]
      /\ \A v \in Workers \ {w} : alive'[v] = alive[v]
      /\ life[w] \notin {"up", "draining"}
  BY <1>0 DEF FirstBeat, Expire, Gone, Endings, Types
<1>2. WorkerInv(w)'
  BY <1>0, <1>1 DEF WorkerInv, Busy, Waiters
<1>3. Types' /\ \A v \in Workers \ {w} : Unmoved(v)
  BY <1>0, <1>1 DEF Types, Unmoved
<1> QED
  BY <1>2, <1>3, LocalKeeps

-----------------------------------------------------------------------------
(* Every other step.                                                       *)

\* A step that leaves the workers' memory and Redis alone, and of a worker's
\* life changes at most that it is spawned, begins to drain, or hangs.
LEMMA OnlyLife ==
  ASSUME IInv, UNCHANGED <<semaphore, loop, running, alive>>,
         life' \in [Processes -> Lives],
         \A w \in Workers :
           \/ life'[w] = life[w]
           \/ life[w] = "off" /\ life'[w] = "boot"
           \/ life[w] = "up" /\ life'[w] = "draining"
           \/ life'[w] = "stuck"
  PROVE  IInv'
<1>1. Types'
  BY DEF IInv, Types
<1>2. ASSUME NEW w \in Workers PROVE WorkerInv(w)'
  BY DEF IInv, WorkerInv, Busy, Waiters
<1> QED
  BY <1>1, <1>2 DEF IInv

\* A step of one process leaves the parent and the causes alone.
LEMMA AloneKeeps ==
  ASSUME IInv, UNCHANGED <<life, semaphore, loop, running, alive>>
  PROVE  IInv'
BY OnlyLife DEF IInv, Types

\* The steps a child takes, one by one.
LEMMA ChildStepKeeps ==
  ASSUME IInv, NEW c \in Processes, ChildStep(c)
  PROVE  IInv'
<1>0. /\ Types /\ Endings \subseteq Lives /\ Workers \subseteq Processes
      /\ \A x \in Endings : x \notin {"off", "boot", "up", "draining", "stuck"}
  BY DEF IInv, Lives, Endings, Processes
<1>1. CASE c \in Workers /\ WorkerTurns(c)
  BY <1>1, LoopStepKeeps, AnswerKeeps, JobEndsKeeps, BeatKeeps DEF WorkerTurns
<1>2. CASE c \in Workers /\ WorkerStops(c)
  <2>1. CASE BlmoveRejected(c)
    BY <1>2, <2>1, AnswerKeeps
  <2>2. CASE ConnectionCloses(c) \/ StopWaitingForLoop(c) \/ GiveUp(c)
    BY <2>2, AloneKeeps DEF ConnectionCloses, StopWaitingForLoop, GiveUp, workerVars
  <2>3. CASE DeleteHeartbeat(c)
    BY <1>2, <2>3, DeleteKeeps
  <2>4. CASE WorkerExits(c)
    <3>1. {c} \in SUBSET Processes /\ (IF alive[c] THEN "gaveUp" ELSE "drained") \in Endings
      BY DEF Endings
    <3> QED
      BY <2>4, <3>1, EndKeeps DEF WorkerExits
  <2> QED
    BY <1>2, <2>1, <2>2, <2>3, <2>4 DEF WorkerStops
<1>3. CASE c \in Workers /\ Expire(c)
  BY <1>3, BeatKeeps
<1>4. CASE c \in Schedulers /\ (SchedulerTurns(c) \/ SchedulerStops(c))
  <2>1. CASE StartScheduling(c)
    <3>1. life' \in [Processes -> Lives] /\ \A w \in Workers : life'[w] = life[w]
      BY <1>0, <1>4, <2>1, OtherRoles DEF StartScheduling, Types, Lives
    <3> QED
      BY <2>1, <3>1, OnlyLife DEF StartScheduling, workerVars
  <2>2. CASE PassEnds(c) \/ SchedulerQuits(c)
    BY <2>2, AloneKeeps DEF PassEnds, SchedulerQuits, workerVars
  <2>3. CASE SchedulerExits(c) \/ PassFails(c)
    <3>1. /\ {c} \in SUBSET Processes /\ "failed" \in Endings
          /\ (IF pass[c] = "left" THEN "drained" ELSE "gaveUp") \in Endings
      BY DEF Endings
    <3> QED
      BY <2>3, <3>1, EndKeeps DEF SchedulerExits, PassFails
  <2> QED
    BY <1>4, <2>1, <2>2, <2>3 DEF SchedulerTurns, SchedulerStops
<1>5. CASE c \in Servers /\ (ServerTurns(c) \/ ServerExits(c))
  <2>1. CASE StartServing(c)
    <3>1. life' \in [Processes -> Lives] /\ \A w \in Workers : life'[w] = life[w]
      BY <1>0, <1>5, <2>1, OtherRoles DEF StartServing, Types, Lives
    <3> QED
      BY <2>1, <3>1, OnlyLife DEF StartServing, workerVars
  <2>2. CASE RequestArrives(c) \/ RequestEnds(c)
    BY <2>2, AloneKeeps DEF RequestArrives, RequestEnds, workerVars
  <2>3. CASE ServerExits(c)
    <3>1. {c} \in SUBSET Processes /\ "drained" \in Endings
      BY DEF Endings
    <3> QED
      BY <2>3, <3>1, EndKeeps DEF ServerExits
  <2> QED
    BY <1>5, <2>1, <2>2, <2>3 DEF ServerTurns
<1>6. CASE HandlesSignal(c)
  <2>1. PICK s \in Signals : BeginDrain(c, s) \/ SecondSignal(c, s) \/ KilledAtBoot(c, s)
    BY <1>6 DEF HandlesSignal
  <2>2. CASE BeginDrain(c, s)
    <3>1. /\ life' \in [Processes -> Lives] /\ life[c] = "up" /\ life'[c] = "draining"
          /\ \A w \in Processes \ {c} : life'[w] = life[w]
      BY <1>0, <2>2 DEF BeginDrain, Types, Lives
    <3>2. ASSUME NEW w \in Workers
          PROVE  \/ life'[w] = life[w]
                 \/ life[w] = "up" /\ life'[w] = "draining"
      <4>1. w \in Processes
        BY <1>0
      <4> QED
        BY <3>1, <4>1
    <3> QED
      BY <2>2, <3>1, <3>2, OnlyLife DEF BeginDrain
  <2>3. CASE SecondSignal(c, s) \/ KilledAtBoot(c, s)
    <3>1. {c} \in SUBSET Processes /\ "impatient" \in Endings /\ "signalled" \in Endings
      BY DEF Endings
    <3> QED
      BY <2>3, <3>1, EndKeeps DEF SecondSignal, KilledAtBoot
  <2> QED
    BY <2>1, <2>2, <2>3
<1> QED
  BY <1>1, <1>2, <1>3, <1>4, <1>5, <1>6 DEF ChildStep

\* Before the parent spawns its children nothing runs: every step of a child,
\* or of the world against one, is a step of a process that was started.
NoneSpawned == parent = "migrating" => \A c \in Processes : life[c] = "off"

\* Before the children are spawned, none of them has begun to live.
LEMMA NoneSpawnedKeeps == NoneSpawned /\ [Next]_vars => NoneSpawned'
<1> SUFFICES ASSUME NoneSpawned, [Next]_vars, parent' = "migrating"
             PROVE  life' = life /\ parent = "migrating"
  BY DEF NoneSpawned
<1>1. CASE UNCHANGED vars
  BY <1>1 DEF vars, parentVars, roleVars
<1>2. CASE \E c \in Processes : ChildStep(c)
  <2>1. parent = "migrating"
    BY <1>2 DEF ChildStep, parentVars
  <2>2. \A c \in Processes : life[c] = "off"
    BY <2>1 DEF NoneSpawned
  <2>3. PICK c \in Processes : ChildStep(c)
    BY <1>2
  <2>4. life[c] = "off"
    BY <2>2
  <2>5. ~Turning(c) /\ ~Gone(c) /\ ~Stopping(c)
    BY <2>4 DEF Turning, Gone, Stopping, Endings
  <2>6. ~WorkerTurns(c) /\ ~WorkerStops(c) /\ ~Expire(c)
    BY <2>4, <2>5
    DEF WorkerTurns, WorkerStops, Expire, FirstBeat, StartWorking, TakeJob, TakeJunk,
        Discarded, JobEnds, BlmoveRejected, ConnectionCloses, StopWaitingForLoop,
        DeleteHeartbeat, GiveUp, WorkerExits
  <2>7. ~SchedulerTurns(c) /\ ~SchedulerStops(c) /\ ~ServerTurns(c) /\ ~ServerExits(c)
    BY <2>4, <2>5
    DEF SchedulerTurns, SchedulerStops, ServerTurns, ServerExits, StartScheduling, PassEnds,
        SchedulerQuits, SchedulerExits, PassFails, StartServing, RequestArrives, RequestEnds
  <2>8. ~HandlesSignal(c)
    BY <2>4 DEF HandlesSignal, BeginDrain, SecondSignal, KilledAtBoot
  <2> QED
    BY <2>3, <2>6, <2>7, <2>8 DEF ChildStep
<1>3. CASE ParentStep
  <2>1. ~SpawnChildren /\ ~MigrationFails /\ ~ParentExits /\ ~Backstop
    BY DEF SpawnChildren, MigrationFails, ParentExits, Backstop
  <2>2. ASSUME NEW s \in Signals, StartHandles(s) PROVE FALSE
    BY <2>2 DEF StartHandles
  <2>3. ASSUME NEW s \in Signals, LauncherHandles(s) PROVE FALSE
    BY <2>3 DEF LauncherHandles
  <2>4. ASSUME NEW c \in Processes, Notice(c) PROVE FALSE
    BY <2>4 DEF Notice
  <2> QED
    BY <1>3, <2>1, <2>2, <2>3, <2>4 DEF ParentStep
<1>4. CASE Cause
  <2>1. parent = "migrating"
    BY <1>4 DEF Cause, StopParent, CtrlC, StopChild, ChildDies, ChildSticks, parentVars
  <2>2. \A c \in Processes : c \notin Living
    BY <2>1 DEF NoneSpawned, Living, Children
  <2>3. UNCHANGED life
    BY <1>4, <2>2 DEF Cause, StopParent, CtrlC, StopChild, ChildDies, ChildSticks, roleVars
  <2> QED
    BY <2>1, <2>3
<1> QED
  BY <1>1, <1>2, <1>3, <1>4 DEF Next

\* The parent spawns, signals and, at the worst, kills.
LEMMA ParentStepKeeps ==
  ASSUME IInv, NoneSpawned, ParentStep
  PROVE  IInv'
<1>0. Types /\ Workers \subseteq Processes
  BY DEF IInv, Processes
<1>1. CASE SpawnChildren
  <2>0. /\ parent = "migrating"
        /\ life' = [c \in Processes |-> IF c \in Team[kind] THEN "boot" ELSE life[c]]
    BY <1>1 DEF SpawnChildren
  <2>1. ASSUME NEW w \in Processes
        PROVE  \/ life'[w] = life[w]
               \/ life[w] = "off" /\ life'[w] = "boot"
    <3>1. life[w] = "off"
      BY <2>0 DEF NoneSpawned
    <3>2. life'[w] = IF w \in Team[kind] THEN "boot" ELSE life[w]
      BY <2>0
    <3> QED
      BY <3>1, <3>2
  <2>2. life' \in [Processes -> Lives]
    BY <1>0, <1>1 DEF SpawnChildren, Types, Lives
  <2> QED
    BY <1>0, <1>1, <2>1, <2>2, OnlyLife DEF SpawnChildren, workerVars
<1>2. CASE MigrationFails \/ ParentExits
  BY <1>2, AloneKeeps DEF MigrationFails, ParentExits, roleVars, workerVars
<1>3. CASE \E s \in Signals : StartHandles(s) \/ LauncherHandles(s)
  BY <1>3, AloneKeeps DEF StartHandles, LauncherHandles, workerVars
<1>4. CASE \E c \in Processes : Notice(c)
  BY <1>4, AloneKeeps DEF Notice, workerVars
<1>5. CASE Backstop
  <2>1. "killed" \in Endings /\ Living \in SUBSET Processes
    BY TeamAssumption, <1>5 DEF Endings, Living, Children, Backstop, Kinds
  <2> QED
    BY <1>5, <2>1, EndKeeps DEF Backstop
<1> QED
  BY <1>1, <1>2, <1>3, <1>4, <1>5 DEF ParentStep

\* So does everything that comes from outside.
LEMMA CauseKeeps ==
  ASSUME IInv, Cause
  PROVE  IInv'
<1>0. Types /\ Workers \subseteq Processes
  BY DEF IInv, Processes
<1>1. CASE StopParent \/ CtrlC
  BY <1>1, AloneKeeps DEF StopParent, CtrlC, roleVars, workerVars
<1>2. CASE \E c \in Processes : StopChild(c)
  BY <1>2, AloneKeeps DEF StopChild, workerVars
<1>3. CASE \E c \in Processes : ChildDies(c)
  <2>1. PICK c \in Processes : Dies(c, "failed") \/ Dies(c, "killed")
    BY <1>3 DEF ChildDies
  <2>2. {c} \in SUBSET Processes /\ "failed" \in Endings /\ "killed" \in Endings
    BY DEF Endings
  <2> QED
    BY <2>1, <2>2, EndKeeps DEF Dies
<1>4. CASE \E c \in Processes : ChildSticks(c)
  <2>1. PICK c \in Processes : Sticks(c)
    BY <1>4 DEF ChildSticks
  <2>2. /\ life' \in [Processes -> Lives]
        /\ \A w \in Workers : life'[w] = life[w] \/ life'[w] = "stuck"
    BY <1>0, <2>1 DEF Sticks, Types, Lives
  <2> QED
    BY <2>1, <2>2, OnlyLife DEF Sticks, workerVars
<1> QED
  BY <1>1, <1>2, <1>3, <1>4 DEF Cause

-----------------------------------------------------------------------------
\* The initial states satisfy the invariant.
LEMMA InitEstablishes == Init => IInv
<1> SUFFICES ASSUME Init PROVE IInv
  OBVIOUS
<1>1. Types
  BY CapacityAssumption DEF Init, RolesInit, Types, Lives, Loops, Sems, Fresh
<1>2. ASSUME NEW w \in Workers PROVE WorkerInv(w)
  BY CapacityAssumption DEF Init, RolesInit, WorkerInv, Busy, Waiters, Fresh, Processes
<1> QED
  BY <1>1, <1>2 DEF IInv

\* Every step of a child, of the parent or of the world keeps it.
LEMMA NextKeeps == IInv /\ NoneSpawned /\ [Next]_vars => IInv'
<1> SUFFICES ASSUME IInv, NoneSpawned, [Next]_vars PROVE IInv'
  OBVIOUS
<1>1. CASE UNCHANGED vars
  BY <1>1, AloneKeeps DEF vars, roleVars, workerVars
<1>2. CASE Next
  BY <1>2, ChildStepKeeps, ParentStepKeeps, CauseKeeps DEF Next
<1> QED
  BY <1>1, <1>2

\* The invariant holds throughout.
LEMMA AlwaysIInv == Spec => []IInv
<1>1. Init => NoneSpawned
  BY DEF Init, RolesInit, NoneSpawned
<1> QED
  BY <1>1, InitEstablishes, NextKeeps, NoneSpawnedKeeps, PTL DEF Spec

\* What a worker's drain reads as in flight is exactly its running jobs and
\* the permit of its loop (semaphore.ts:27-43, worker/index.ts:404-405).
THEOREM PermitsAreConserved == Spec => []PermitsConserved
<1>1. IInv => PermitsConserved
  <2> SUFFICES ASSUME IInv, NEW w \in Workers
               PROVE  HeldPermits(semaphore[w]) = running[w] + Busy(w)
    BY DEF PermitsConserved, Busy
  <2>1. /\ semaphore[w].available = Capacity - running[w] - Busy(w)
        /\ running[w] \in Nat /\ Busy(w) \in {0, 1}
    BY DEF IInv, Types, WorkerInv, Busy
  <2> QED
    BY <2>1, CapacityAssumption DEF HeldPermits
<1> QED
  BY <1>1, AlwaysIInv, PTL

\* A worker without a heartbeat, booting or at the end of its drain, runs
\* nothing and cannot be handed a job (worker/index.ts:284-303, 329-330).
THEOREM NothingRunsUnattended == Spec => []UnattendedIsIdle
<1>1. IInv => UnattendedIsIdle
  BY DEF IInv, WorkerInv, UnattendedIsIdle
<1> QED
  BY <1>1, AlwaysIInv, PTL

-----------------------------------------------------------------------------
(* The rest of the type invariant: the signals, the drains, the scheduler, *)
(* the API, and the parent with what may still happen to it.               *)

RoleTypes ==
  /\ inbox \in [Processes -> SUBSET Signals]
  /\ blocking \in [Workers -> {"open", "closing", "closed"}]
  /\ drain \in [Workers \cup Schedulers -> {"none", "loop", "poll", "quit"}]
  /\ pass \in [Schedulers -> {"none", "working", "sleeping", "left"}]
  /\ open \in [Servers -> 0 .. MaxOpen]

ParentTypes ==
  /\ kind \in Kinds
  /\ parent \in {"migrating", "watching", "stopping", "gone"}
  /\ mail \subseteq Signals
  /\ noticed \subseteq Processes
  /\ code \in {0, 1}
  /\ budget \in [Causes -> Nat]
  /\ \A k \in Causes : budget[k] <= Budget[k]

\* Processes that are no more leave nothing but values of these types.
LEMMA EndTypes ==
  ASSUME RoleTypes, NEW some, NEW ending, End(some, ending)
  PROVE  RoleTypes'
<1>1. 0 \in 0 .. MaxOpen
  BY RolesAssumption
<1> QED
  BY <1>1 DEF RoleTypes, End, ReplaceIn

\* A signal sent is one of the two.
LEMMA SendTypes ==
  ASSUME RoleTypes, NEW s \in Signals, NEW to
  PROVE  Send(s, to) \in [Processes -> SUBSET Signals]
<1>1. \A c \in Processes : inbox[c] \cup {s} \in SUBSET Signals /\ inbox[c] \in SUBSET Signals
  BY DEF RoleTypes
<1> QED
  BY <1>1 DEF Send

\* A child's step keeps the types of what the children share.
LEMMA ChildTypes ==
  ASSUME RoleTypes, NEW c \in Processes, ChildStep(c)
  PROVE  RoleTypes'
<1>1. CASE c \in Workers /\ (WorkerTurns(c) \/ Expire(c))
  BY <1>1 DEF RoleTypes, WorkerTurns, Expire, FirstBeat, StartWorking, TakeJob, TakeJunk,
              Discarded, JobEnds
<1>2. CASE c \in Workers /\ WorkerStops(c)
  <2>1. CASE WorkerExits(c)
    BY <2>1, EndTypes DEF WorkerExits
  <2>2. CASE ConnectionCloses(c)
    BY <1>2, <2>2 DEF RoleTypes, ConnectionCloses
  <2>3. CASE BlmoveRejected(c)
    BY <1>2, <2>3 DEF RoleTypes, BlmoveRejected
  <2>4. CASE StopWaitingForLoop(c) \/ DeleteHeartbeat(c) \/ GiveUp(c)
    <3>1. /\ UNCHANGED <<inbox, blocking, pass, open>>
          /\ drain' = [drain EXCEPT ![c] = "poll"] \/ drain' = [drain EXCEPT ![c] = "quit"]
      BY <2>4 DEF StopWaitingForLoop, DeleteHeartbeat, GiveUp, workerVars
    <3> QED
      BY <1>2, <3>1 DEF RoleTypes
  <2> QED
    BY <1>2, <2>1, <2>2, <2>3, <2>4 DEF WorkerStops
<1>3. CASE c \in Schedulers /\ SchedulerTurns(c)
  <2>1. /\ UNCHANGED <<inbox, blocking, drain, open>>
        /\ \E p \in {"working", "sleeping", "left"} : pass' = [pass EXCEPT ![c] = p]
    BY <1>3 DEF SchedulerTurns, StartScheduling, PassEnds, workerVars
  <2> QED
    BY <1>3, <2>1 DEF RoleTypes
<1>4. CASE c \in Schedulers /\ SchedulerStops(c)
  <2>1. CASE SchedulerQuits(c)
    BY <1>4, <2>1 DEF RoleTypes, SchedulerQuits, workerVars
  <2> QED
    BY <1>4, <2>1, EndTypes DEF SchedulerStops, SchedulerExits, PassFails
<1>5. CASE c \in Servers /\ (ServerTurns(c) \/ ServerExits(c))
  <2>1. CASE ServerExits(c)
    BY <2>1, EndTypes DEF ServerExits
  <2>2. CASE StartServing(c)
    BY <2>2 DEF RoleTypes, StartServing, workerVars
  <2>3. CASE RequestArrives(c) \/ RequestEnds(c)
    <3>1. open[c] \in 0 .. MaxOpen /\ MaxOpen \in Nat
      BY <1>5, RolesAssumption DEF RoleTypes
    <3>2. \E n \in 0 .. MaxOpen : open' = [open EXCEPT ![c] = n]
      <4>1. CASE RequestArrives(c)
        <5>1. open[c] + 1 \in 0 .. MaxOpen
          BY <3>1, <4>1 DEF RequestArrives
        <5> QED
          BY <4>1, <5>1 DEF RequestArrives
      <4>2. CASE RequestEnds(c)
        <5>1. open[c] - 1 \in 0 .. MaxOpen
          BY <3>1, <4>2 DEF RequestEnds
        <5> QED
          BY <4>2, <5>1 DEF RequestEnds
      <4> QED
        BY <2>3, <4>1, <4>2
    <3>3. UNCHANGED <<inbox, blocking, drain, pass>>
      BY <2>3 DEF RequestArrives, RequestEnds, workerVars
    <3> QED
      BY <1>5, <3>2, <3>3 DEF RoleTypes
  <2> QED
    BY <1>5, <2>1, <2>2, <2>3 DEF ServerTurns
<1>6. CASE HandlesSignal(c)
  <2>1. PICK s \in Signals : BeginDrain(c, s) \/ SecondSignal(c, s) \/ KilledAtBoot(c, s)
    BY <1>6 DEF HandlesSignal
  <2>2. CASE BeginDrain(c, s)
    <3>1. inbox' \in [Processes -> SUBSET Signals]
      BY <2>2 DEF RoleTypes, BeginDrain
    <3> QED
      BY <2>2, <3>1 DEF RoleTypes, BeginDrain
  <2> QED
    BY <2>1, <2>2, EndTypes DEF SecondSignal, KilledAtBoot
<1> QED
  BY <1>1, <1>2, <1>3, <1>4, <1>5, <1>6 DEF ChildStep

\* What strikes has not struck as often as it may.
LEMMA SpendTypes ==
  ASSUME ParentTypes, NEW cause \in Causes, Spend(cause)
  PROVE  /\ budget' \in [Causes -> Nat] /\ \A k \in Causes : budget'[k] <= budget[k]
         /\ budget'[cause] = budget[cause] - 1
         /\ \A k \in Causes : budget'[k] <= Budget[k]
<1>1. budget[cause] > 0 /\ budget' = [budget EXCEPT ![cause] = @ - 1]
  BY DEF Spend
<1>2. \A k \in Causes : budget[k] \in Nat /\ Budget[k] \in Nat /\ budget[k] <= Budget[k]
  BY BudgetAssumption DEF ParentTypes
<1>3. budget' \in [Causes -> Nat] /\ budget'[cause] = budget[cause] - 1
      /\ \A k \in Causes : budget'[k] <= budget[k]
  BY <1>1, <1>2 DEF ParentTypes
<1> QED
  BY <1>2, <1>3

\* So do the parent and the world.
LEMMA TreeTypes ==
  ASSUME RoleTypes, ParentTypes, ParentStep \/ Cause
  PROVE  RoleTypes' /\ ParentTypes'
<1> USE DEF ParentTypes
<1>1. CASE SpawnChildren \/ MigrationFails \/ ParentExits
  BY <1>1 DEF RoleTypes, SpawnChildren, MigrationFails, ParentExits, roleVars, workerVars
<1>2. ASSUME NEW s \in Signals, StartHandles(s) \/ LauncherHandles(s)
      PROVE  RoleTypes' /\ ParentTypes'
  <2>1. inbox' = inbox \/ inbox' = Send(s, Children) \/ inbox' = Send("SIGTERM", Children)
    BY <1>2 DEF StartHandles, LauncherHandles
  <2>2. "SIGTERM" \in Signals
    BY DEF Signals
  <2>3. inbox' \in [Processes -> SUBSET Signals]
    BY <2>1, <2>2, SendTypes DEF RoleTypes
  <2> QED
    BY <1>2, <2>3 DEF RoleTypes, StartHandles, LauncherHandles, workerVars
<1>3. ASSUME NEW c \in Processes, Notice(c) PROVE RoleTypes' /\ ParentTypes'
  <2>1. "SIGTERM" \in Signals
    BY DEF Signals
  <2>2. inbox' \in [Processes -> SUBSET Signals]
    BY <1>3, <2>1, SendTypes DEF RoleTypes, Notice
  <2>3. noticed' = noticed \cup {c} /\ c \in Processes
    BY <1>3 DEF Notice
  <2> QED
    BY <1>3, <2>2, <2>3 DEF RoleTypes, Notice, workerVars
<1>4. CASE Backstop
  BY <1>4, EndTypes DEF Backstop
<1>5. CASE StopParent
  <2>1. "stop" \in Causes /\ "SIGTERM" \in Signals
    BY DEF Causes, Signals
  <2> QED
    BY <1>5, <2>1, SpendTypes DEF StopParent, RoleTypes, roleVars, workerVars
<1>6. CASE CtrlC
  <2>1. "terminal" \in Causes /\ "SIGINT" \in Signals
    BY DEF Causes, Signals
  <2> QED
    BY <1>6, <2>1, SpendTypes, SendTypes DEF CtrlC, RoleTypes, workerVars
<1>7. ASSUME NEW c \in Processes, StopChild(c) PROVE RoleTypes' /\ ParentTypes'
  <2>1. "stray" \in Causes /\ "SIGTERM" \in Signals
    BY DEF Causes, Signals
  <2> QED
    BY <1>7, <2>1, SpendTypes, SendTypes DEF StopChild, RoleTypes, workerVars, parentVars
<1>8. ASSUME NEW c \in Processes, ChildDies(c) \/ ChildSticks(c) PROVE RoleTypes' /\ ParentTypes'
  <2>1. "crash" \in Causes /\ "stick" \in Causes
    BY DEF Causes
  <2>2. RoleTypes'
    BY <1>8, EndTypes DEF ChildDies, ChildSticks, Dies, Sticks, RoleTypes, workerVars
  <2> QED
    BY <1>8, <2>1, <2>2, SpendTypes DEF ChildDies, ChildSticks, parentVars
<1> QED
  BY <1>1, <1>2, <1>3, <1>4, <1>5, <1>6, <1>7, <1>8 DEF ParentStep, Cause

\* Everything has its type at first.
LEMMA InitTypes == Init => RoleTypes /\ ParentTypes
<1> SUFFICES ASSUME Init PROVE RoleTypes /\ ParentTypes
  OBVIOUS
<1>1. 0 \in 0 .. MaxOpen
  BY RolesAssumption
<1>2. \A k \in Causes : Budget[k] <= Budget[k]
  BY BudgetAssumption
<1> QED
  BY <1>1, <1>2, BudgetAssumption DEF Init, RolesInit, RoleTypes, ParentTypes

\* Every step keeps it.
LEMMA TypesStep == RoleTypes /\ ParentTypes /\ [Next]_vars => (RoleTypes /\ ParentTypes)'
<1> SUFFICES ASSUME RoleTypes, ParentTypes, [Next]_vars PROVE (RoleTypes /\ ParentTypes)'
  OBVIOUS
<1>1. CASE UNCHANGED vars
  BY <1>1 DEF RoleTypes, ParentTypes, vars, roleVars, workerVars, parentVars
<1>2. ASSUME NEW c \in Processes, ChildStep(c) PROVE (RoleTypes /\ ParentTypes)'
  <2>1. UNCHANGED <<parentVars, budget>>
    BY <1>2 DEF ChildStep
  <2> QED
    BY <1>2, <2>1, ChildTypes DEF ParentTypes, parentVars
<1> QED
  BY <1>1, <1>2, TreeTypes DEF Next

\* The invariants of this module so far.
Typed == IInv /\ RoleTypes /\ ParentTypes

\* They hold throughout.
LEMMA AlwaysTyped == Spec => []Typed
BY AlwaysIInv, InitTypes, TypesStep, PTL DEF Spec, Typed

\* The state of the tree stays within its types: among them that no worker ever runs
\* more than CONCURRENCY jobs and only its main loop waits for a permit.
THEOREM SupervisorTypes == Spec => []TypeOK
<1>1. Typed => TypeOK
  <2> SUFFICES ASSUME Typed PROVE TypeOK
    OBVIOUS
  <2>1. semaphore \in [Workers -> Semaphores({"main"})]
    <3>1. <<>> \in Seq({"main"}) /\ <<"main">> \in Seq({"main"})
      OBVIOUS
    <3>2. Sems \subseteq Semaphores({"main"})
      BY <3>1 DEF Sems, Semaphores
    <3> QED
      BY <3>2 DEF Typed, IInv, Types
  <2>2. running \in [Workers -> 0 .. Capacity]
    <3>1. running \in [Workers -> Nat]
      BY DEF Typed, IInv, Types
    <3>2. \A w \in Workers : running[w] \in Nat /\ running[w] + Busy(w) <= Capacity
                             /\ Busy(w) \in {0, 1}
      BY <3>1 DEF Typed, IInv, WorkerInv, Busy
    <3>3. \A w \in Workers : running[w] \in 0 .. Capacity
      BY <3>2, CapacityAssumption
    <3> QED
      BY <3>1, <3>3
  <2> QED
    BY <2>1, <2>2 DEF Typed, IInv, Types, RoleTypes, ParentTypes, TypeOK, RolesTypeOK, Loops
<1> QED
  BY <1>1, AlwaysTyped, PTL

-----------------------------------------------------------------------------
(* The tree: who has been told to stop, by whom, and what the parent knows.*)

Disturbances == Causes \ {"stick"}
Calmly == AtMostOneOf(Disturbances) /\ ~Spent("terminal")

\* A process has a signal to answer, is answering one, or is no more.
Touched(c) == inbox[c] # {} \/ life[c] \in {"draining"} \cup Endings

\* Only what the parent spawned lives, and it has noticed nobody's end too early;
\* every signal on its way has a cause; the launcher leaves nobody behind.
TreeInv ==
  /\ \A c \in Processes :
       /\ life[c] \in {"off"} \cup Endings => inbox[c] = {}
       /\ c \notin Team[kind] => life[c] = "off"
       /\ c \in noticed => Gone(c)
       /\ "SIGINT" \in inbox[c] => Spent("terminal")
  /\ parent = "migrating" => noticed = {} /\ \A c \in Processes : life[c] = "off"
  /\ "SIGTERM" \in mail => Spent("stop")
  /\ "SIGINT" \in mail => Spent("terminal")
  /\ kind = "start" => ~Spent("terminal")
  /\ kind = "launcher" /\ parent = "gone" => Living = {}

\* As long as at most one thing has happened to the tree, and not Ctrl+C: a parent that
\* watches has had at most one child touched, and that by the one thing; one that is
\* stopping has no signal left to hear; and a child that drains has none either.
CalmInv ==
  Calmly =>
    /\ parent = "gone" => Living = {}
    /\ parent = "stopping" => mail = {} /\ \E k \in Disturbances : Spent(k)
    /\ parent \in {"migrating", "watching"} =>
         /\ \A b, c \in Processes : Touched(b) /\ Touched(c) => b = c
         /\ \A c \in Processes : Touched(c) => Spent("stray") \/ Spent("crash")
    /\ \A c \in Processes : life[c] # "impatient" /\ (life[c] = "draining" => inbox[c] = {})

\* As long as nobody has stopped start.ts: while it watches it has only seen children
\* end that were signalled before they had a handler, and it only stops for another.
ReportInv ==
  kind = "start" /\ ~Spent("stop") =>
    /\ parent = "watching" => \A c \in noticed : life[c] = "signalled"
    /\ parent = "stopping" => code = 1
    /\ parent = "gone" => code = 1 \/ \A c \in Team[kind] : life[c] \in {"off", "signalled"}

TreeWorks == TreeInv /\ CalmInv /\ ReportInv

-----------------------------------------------------------------------------
\* Causes only add up.
LEMMA CausesStay ==
  ASSUME Typed, budget' \in [Causes -> Nat],
         \A k \in Causes : budget'[k] <= budget[k]
  PROVE  /\ \A k \in Causes : Spent(k) => Spent(k)'
         /\ Calmly' => Calmly
<1>1. \A k \in Causes : budget[k] \in Nat /\ budget'[k] \in Nat /\ Budget[k] \in Nat
                        /\ budget'[k] <= budget[k] /\ budget[k] <= Budget[k]
  BY BudgetAssumption DEF Typed, ParentTypes
<1>2. \A k \in Causes : Spent(k) => Spent(k)'
  BY <1>1 DEF Spent
<1>3. ASSUME Calmly' PROVE Calmly
  <2>1. "terminal" \in Causes /\ Disturbances \subseteq Causes
    BY DEF Causes, Disturbances
  <2>2. ASSUME NEW k \in Disturbances, Spent(k)
        PROVE  budget[k] = Budget[k] - 1 /\ \A m \in Disturbances \ {k} : ~Spent(m)
    <3>1. budget'[k] = Budget[k] - 1 /\ \A m \in Disturbances \ {k} : ~Spent(m)'
      BY <1>2, <1>3, <2>1, <2>2 DEF Calmly, AtMostOneOf
    <3> QED
      BY <1>1, <1>2, <2>1, <2>2, <3>1 DEF Spent
  <2> QED
    BY <1>2, <1>3, <2>1, <2>2 DEF Calmly, AtMostOneOf
<1> QED
  BY <1>2, <1>3

\* What strikes is the first to strike, if all is calm after it.
LEMMA FirstCause ==
  ASSUME Typed, NEW cause \in Disturbances, Spend(cause)
  PROVE  /\ Spent(cause)'
         /\ Calmly' => cause # "terminal" /\ \A k \in Disturbances : ~Spent(k)
<1>1. \A k \in Causes : budget[k] \in Nat /\ Budget[k] \in Nat /\ budget[k] <= Budget[k]
  BY BudgetAssumption DEF Typed, ParentTypes
<1>2. cause \in Causes /\ Disturbances \subseteq Causes
  BY DEF Disturbances
<1>3. /\ budget' \in [Causes -> Nat] /\ budget'[cause] = budget[cause] - 1
      /\ \A k \in Causes : budget'[k] <= budget[k]
  BY <1>2, SpendTypes DEF Typed
<1>4. Spent(cause)'
  BY <1>1, <1>2, <1>3 DEF Spent
<1>5. ASSUME Calmly' PROVE cause # "terminal" /\ \A k \in Disturbances : ~Spent(k)
  <2>1. budget'[cause] = Budget[cause] - 1 /\ \A k \in Disturbances \ {cause} : ~Spent(k)'
    BY <1>4, <1>5 DEF Calmly, AtMostOneOf
  <2>2. ~Spent(cause)
    BY <1>1, <1>2, <1>3, <2>1 DEF Spent
  <2>3. \A k \in Disturbances \ {cause} : ~Spent(k)
    BY <1>2, <1>3, <2>1, CausesStay
  <2> QED
    BY <1>4, <1>5, <2>2, <2>3 DEF Calmly
<1> QED
  BY <1>4, <1>5

\* What Send leaves in an inbox.
LEMMA Sent ==
  ASSUME Typed, NEW s \in Signals, NEW to, NEW c \in Processes
  PROVE  Send(s, to)[c] = IF c \in to /\ ~Gone(c) THEN inbox[c] \cup {s} ELSE inbox[c]
BY DEF Send

\* How a child may go on by itself: it is ready, it takes a signal and drains, it ends
\* its drain, or a signal ends it.
Moves(c) ==
  \/ life'[c] = life[c] /\ inbox'[c] = inbox[c]
  \/ life[c] = "boot" /\ life'[c] = "up" /\ inbox'[c] = inbox[c]
  \/ /\ life[c] = "up" /\ life'[c] = "draining"
     /\ \E s \in inbox[c] : inbox'[c] = inbox[c] \ {s}
  \/ /\ life[c] = "draining" /\ life'[c] \in {"drained", "gaveUp", "failed"}
     /\ inbox'[c] = {}
  \/ /\ inbox[c] # {} /\ inbox'[c] = {}
     /\ \/ life[c] = "draining" /\ life'[c] = "impatient"
        \/ life[c] = "boot" /\ life'[c] = "signalled"

\* Nobody else has been touched by it.
Only(c) == \A d \in Processes \ {c} : life'[d] = life[d] /\ inbox'[d] = inbox[d]

\* An ending of one process is its own.
LEMMA EndedAlone ==
  ASSUME Typed, NEW c \in Processes, NEW ending, End({c}, ending)
  PROVE  life'[c] = ending /\ inbox'[c] = {} /\ Only(c)
BY DEF Typed, IInv, Types, RoleTypes, End, ReplaceIn, Only

\* Whatever a child does, the tree sees it move on and nothing else.
LEMMA ChildMoves ==
  ASSUME Typed, NEW c \in Processes, ChildStep(c)
  PROVE  Moves(c) /\ Only(c) /\ UNCHANGED <<kind, parent, mail, noticed, code, budget>>
<1>0. SUFFICES Moves(c) /\ Only(c)
  BY DEF ChildStep, parentVars
<1>1. life \in [Processes -> Lives] /\ inbox \in [Processes -> SUBSET Signals]
  BY DEF Typed, IInv, Types, RoleTypes
<1>2. ASSUME UNCHANGED <<life, inbox>> PROVE Moves(c) /\ Only(c)
  BY <1>2 DEF Moves, Only
<1>3. ASSUME UNCHANGED inbox, life[c] = "boot", life' = [life EXCEPT ![c] = "up"]
      PROVE  Moves(c) /\ Only(c)
  BY <1>1, <1>3 DEF Moves, Only
<1>4. CASE c \in Workers /\ (WorkerTurns(c) \/ Expire(c))
  BY <1>2, <1>3, <1>4 DEF WorkerTurns, Expire, FirstBeat, StartWorking, TakeJob, TakeJunk,
                          Discarded, JobEnds
<1>5. CASE WorkerStops(c)
  <2>1. CASE WorkerExits(c)
    <3>1. End({c}, "gaveUp") \/ End({c}, "drained")
      BY <2>1 DEF WorkerExits
    <3> QED
      BY <2>1, <3>1, EndedAlone DEF WorkerExits, Stopping, Moves
  <2>2. CASE ~WorkerExits(c)
    BY <1>2, <1>5, <2>2 DEF WorkerStops, BlmoveRejected, ConnectionCloses, StopWaitingForLoop,
                            DeleteHeartbeat, GiveUp
  <2> QED
    BY <2>1, <2>2
<1>6. CASE SchedulerTurns(c) \/ SchedulerQuits(c)
  BY <1>2, <1>3, <1>6 DEF SchedulerTurns, StartScheduling, PassEnds, SchedulerQuits
<1>7. CASE SchedulerExits(c) \/ PassFails(c)
  <2>1. life[c] = "draining" /\ (End({c}, "gaveUp") \/ End({c}, "drained") \/ End({c}, "failed"))
    BY <1>7 DEF SchedulerExits, PassFails, Stopping
  <2> QED
    BY <2>1, EndedAlone DEF Moves
<1>8. CASE ServerTurns(c)
  BY <1>2, <1>3, <1>8 DEF ServerTurns, StartServing, RequestArrives, RequestEnds
<1>9. CASE ServerExits(c)
  BY <1>9, EndedAlone DEF ServerExits, Stopping, Moves
<1>10. CASE HandlesSignal(c)
  <2>1. PICK s \in Signals : BeginDrain(c, s) \/ SecondSignal(c, s) \/ KilledAtBoot(c, s)
    BY <1>10 DEF HandlesSignal
  <2>2. CASE BeginDrain(c, s)
    BY <1>1, <2>2 DEF BeginDrain, Moves, Only
  <2>3. CASE SecondSignal(c, s)
    BY <2>3, EndedAlone DEF SecondSignal, Moves
  <2>4. CASE KilledAtBoot(c, s)
    BY <2>4, EndedAlone DEF KilledAtBoot, Moves
  <2> QED
    BY <2>1, <2>2, <2>3, <2>4
<1> QED
  BY <1>4, <1>5, <1>6, <1>7, <1>8, <1>9, <1>10 DEF ChildStep, SchedulerStops

\* A child that goes on by itself keeps the tree in order.
LEMMA MovesKeep ==
  ASSUME Typed, TreeWorks, NEW c \in Processes, Moves(c), Only(c),
         UNCHANGED <<kind, parent, mail, noticed, code, budget>>
  PROVE  TreeWorks'
<1>1. life \in [Processes -> Lives] /\ inbox \in [Processes -> SUBSET Signals]
      /\ Team[kind] \subseteq Processes /\ noticed \subseteq Processes
  BY TeamAssumption DEF Typed, IInv, Types, RoleTypes, ParentTypes
<1>2. /\ \A k \in Causes : Spent(k)' <=> Spent(k)
      /\ Calmly' <=> Calmly
  BY DEF Spent, Calmly, AtMostOneOf
<1>3. {"stop", "terminal", "stray", "crash"} \subseteq Causes /\ Disturbances \subseteq Causes
  BY DEF Causes, Disturbances
<1>4. \A d \in Processes :
        /\ Gone(d) \/ life[d] = "off" => life'[d] = life[d] /\ inbox'[d] = inbox[d]
        /\ life[d] # "off" => life'[d] # "off"
        /\ inbox'[d] \subseteq inbox[d]
        /\ life'[d] \in {"off"} \cup Endings => inbox'[d] = {}
        /\ Touched(d)' => Touched(d)
  BY <1>1 DEF Moves, Only, Gone, Endings, TreeWorks, TreeInv, Touched
<1>5. Living' \subseteq Living
  BY <1>1, <1>4 DEF Living, Children, Gone
<1>6. TreeInv'
  BY <1>1, <1>2, <1>3, <1>4, <1>5 DEF TreeWorks, TreeInv, Gone
<1>7. CalmInv'
  <2>1. SUFFICES ASSUME Calmly PROVE CalmInv'
    BY <1>2 DEF CalmInv
  <2>2. \A d \in Processes : life'[d] # "impatient" /\ (life'[d] = "draining" => inbox'[d] = {})
    <3>1. \A d \in Processes : inbox[d] \subseteq {"SIGTERM"}
      BY <1>1, <2>1 DEF TreeWorks, TreeInv, Calmly, Signals
    <3> QED
      BY <1>1, <2>1, <3>1 DEF TreeWorks, CalmInv, Moves, Only
  <2> QED
    BY <1>2, <1>3, <1>4, <1>5, <2>1, <2>2 DEF TreeWorks, CalmInv
<1>8. ReportInv'
  BY <1>1, <1>2, <1>3, <1>4 DEF TreeWorks, TreeInv, ReportInv, Gone, Endings
<1> QED
  BY <1>6, <1>7, <1>8 DEF TreeWorks

-----------------------------------------------------------------------------
(* The steps of the parent.                                                *)

\* The children are spawned untouched.
LEMMA SpawnKeeps ==
  ASSUME Typed, TreeWorks, SpawnChildren
  PROVE  TreeWorks'
<1>1. life \in [Processes -> Lives] /\ \A c \in Processes : life[c] = "off" /\ inbox[c] = {}
  BY DEF Typed, IInv, Types, TreeWorks, TreeInv, SpawnChildren
<1>2. \A c \in Processes : /\ life'[c] = IF c \in Team[kind] THEN "boot" ELSE "off"
                           /\ inbox'[c] = {} /\ ~Touched(c)'
  BY <1>1 DEF SpawnChildren, Touched, Endings
<1>3. /\ parent = "migrating" /\ parent' = "watching"
      /\ UNCHANGED <<kind, mail, noticed, code, budget>> /\ noticed = {}
  BY DEF SpawnChildren, TreeWorks, TreeInv
<1>4. \A k \in Causes : Spent(k)' <=> Spent(k)
  BY <1>3 DEF Spent
<1>5. TreeInv'
  BY <1>2, <1>3, <1>4 DEF TreeWorks, TreeInv, Endings, Causes
<1>6. CalmInv'
  BY <1>2, <1>3 DEF CalmInv
<1>7. ReportInv'
  BY <1>3 DEF ReportInv
<1> QED
  BY <1>5, <1>6, <1>7 DEF TreeWorks

\* When start.ts leaves without a second signal, and nobody of its team is left.
LEMMA LeaveKeeps ==
  ASSUME Typed, TreeWorks, UNCHANGED <<life, inbox, kind, noticed, budget>>,
         mail' \subseteq mail, parent' = "gone",
         Calmly \/ kind = "launcher" => Living = {},
         kind = "start" /\ ~Spent("stop") =>
           code' = 1 \/ \A c \in Team[kind] : life[c] \in {"off", "signalled"}
  PROVE  TreeWorks'
<1>1. Living' = Living /\ (Calmly' <=> Calmly) /\ \A k \in Causes : Spent(k)' <=> Spent(k)
  BY DEF Living, Children, Gone, Spent, Calmly, AtMostOneOf
<1>2. TreeInv'
  BY <1>1 DEF TreeWorks, TreeInv, Gone, Causes
<1>3. CalmInv'
  BY <1>1 DEF TreeWorks, CalmInv
<1>4. ReportInv'
  BY <1>1 DEF TreeWorks, ReportInv, Causes
<1> QED
  BY <1>2, <1>3, <1>4 DEF TreeWorks

\* A failed migration leaves nobody, and is reported; a parent that has noticed all its
\* children leaves nobody; a second signal leaves somebody only after two causes.
LEMMA ExitKeeps ==
  ASSUME Typed, TreeWorks,
         \/ MigrationFails \/ ParentExits
         \/ \E s \in Signals : StartHandles(s) /\ parent # "watching"
  PROVE  TreeWorks'
<1>1. CASE MigrationFails
  <2>1. Living = {}
    BY <1>1, TeamAssumption DEF MigrationFails, TreeWorks, TreeInv, Living, Children, Typed,
                                ParentTypes
  <2> QED
    BY <1>1, <2>1, LeaveKeeps DEF MigrationFails, roleVars
<1>2. CASE ParentExits
  <2>1. Team[kind] \subseteq Processes /\ Children \subseteq noticed
    BY <1>2, TeamAssumption DEF ParentExits, AllLeft, Typed, ParentTypes
  <2>2. Living = {} /\ \A c \in Team[kind] : life[c] = "off" \/ c \in noticed
    BY <2>1 DEF Living, Children, TreeWorks, TreeInv
  <2>3. kind = "start" /\ ~Spent("stop") =>
          code = 1 \/ \A c \in Team[kind] : life[c] \in {"off", "signalled"}
    BY <1>2, <2>2 DEF ParentExits, TreeWorks, ReportInv
  <2> QED
    BY <1>2, <2>2, <2>3, LeaveKeeps DEF ParentExits, roleVars
<1>3. ASSUME NEW s \in Signals, StartHandles(s), parent # "watching"
      PROVE  TreeWorks'
  <2>1. /\ kind = "start" /\ parent # "gone" /\ s \in mail /\ mail' = mail \ {s} /\ code' = 0
        /\ parent' = "gone" /\ UNCHANGED <<life, inbox, kind, noticed, budget>>
    BY <1>3 DEF StartHandles
  <2>2. Spent("stop")
    BY <2>1 DEF TreeWorks, TreeInv, Signals
  <2>3. CASE parent = "migrating"
    <3>1. Living = {}
      BY <2>3, TeamAssumption DEF TreeWorks, TreeInv, Living, Children, Typed, ParentTypes
    <3> QED
      BY <2>1, <2>2, <3>1, LeaveKeeps
  <2>4. CASE parent = "stopping"
    <3>1. ~Calmly
      BY <2>1, <2>4 DEF TreeWorks, CalmInv
    <3> QED
      BY <2>1, <2>2, <3>1, LeaveKeeps
  <2> QED
    BY <1>3, <2>1, <2>3, <2>4 DEF Typed, ParentTypes
<1> QED
  BY <1>1, <1>2, <1>3

\* The parent passes on what it has heard or seen: calm means that it is the first to
\* tell its living children, who have nothing else to answer.
LEMMA TellKeeps ==
  ASSUME Typed, TreeWorks, NEW s \in Signals,
         UNCHANGED <<life, kind, budget>>,
         parent \in {"watching", "stopping"}, parent' = "stopping",
         mail' \subseteq mail, inbox' = Send(s, Children),
         s = "SIGINT" => Spent("terminal"),
         \A c \in noticed' : c \in noticed \/ (c \in Processes /\ Gone(c)),
         Calmly => /\ mail' = {} /\ \E k \in Disturbances : Spent(k)
                   /\ parent = "watching"
                   /\ \A c \in Processes : Touched(c) => Gone(c),
         kind = "start" /\ ~Spent("stop") => code' = 1
  PROVE  TreeWorks'
<1>1. life \in [Processes -> Lives] /\ inbox \in [Processes -> SUBSET Signals]
      /\ Team[kind] \subseteq Processes
  BY TeamAssumption DEF Typed, IInv, Types, RoleTypes, ParentTypes
<1>2. \A k \in Causes : Spent(k)' <=> Spent(k)
  BY DEF Spent
<1>3. Calmly' <=> Calmly
  BY DEF Spent, Calmly, AtMostOneOf
<1>4. \A c \in Processes :
        inbox'[c] = IF c \in Children /\ ~Gone(c) THEN inbox[c] \cup {s} ELSE inbox[c]
  BY Sent
<1>5. TreeInv'
  <2>1. ASSUME NEW c \in Processes, life'[c] \in {"off"} \cup Endings PROVE inbox'[c] = {}
    BY <1>4, <2>1 DEF TreeWorks, TreeInv, Children, Gone
  <2>2. ASSUME NEW c \in Processes, "SIGINT" \in inbox'[c] PROVE Spent("terminal")
    BY <1>4, <2>2 DEF TreeWorks, TreeInv
  <2>3. \A c \in Processes : c \in noticed' => Gone(c)'
    BY DEF TreeWorks, TreeInv, Gone
  <2> QED
    BY <1>2, <2>1, <2>2, <2>3 DEF TreeWorks, TreeInv, Causes
<1>6. CalmInv'
  <2>1. SUFFICES ASSUME Calmly, NEW c \in Processes
                 PROVE  life'[c] # "impatient" /\ (life'[c] = "draining" => inbox'[c] = {})
    BY <1>2, <1>3 DEF CalmInv, Disturbances
  <2>2. life[c] # "draining"
    BY <2>1 DEF Touched, Gone, Endings
  <2> QED
    BY <2>1, <2>2 DEF TreeWorks, CalmInv
<1>7. ReportInv'
  BY <1>2 DEF ReportInv, Causes
<1> QED
  BY <1>5, <1>6, <1>7 DEF TreeWorks

\* start.ts and the launcher pass a signal on.
LEMMA SignalKeeps ==
  ASSUME Typed, TreeWorks, NEW s \in Signals,
         (StartHandles(s) /\ parent = "watching") \/ LauncherHandles(s)
  PROVE  TreeWorks'
<1>1. /\ parent \in {"watching", "stopping"} /\ parent' = "stopping"
      /\ s \in mail /\ mail' = mail \ {s}
      /\ UNCHANGED <<life, kind, noticed, budget>>
      /\ \/ inbox' = Send(s, Children)
         \/ inbox' = Send("SIGTERM", Children)
  BY DEF StartHandles, LauncherHandles
<1>2. /\ mail \subseteq {"SIGTERM", "SIGINT"}
      /\ "SIGTERM" \in mail => Spent("stop")
      /\ "SIGINT" \in mail => Spent("terminal")
  BY DEF Typed, ParentTypes, Signals, TreeWorks, TreeInv
<1>a. /\ s = "SIGTERM" \/ s = "SIGINT"
      /\ s = "SIGTERM" => Spent("stop")
      /\ s = "SIGINT" => Spent("terminal")
  <2>1. s \in mail
    BY <1>1
  <2> QED
    BY <1>2, <2>1
<1>3. ASSUME Calmly
      PROVE  /\ mail' = {} /\ \E k \in Disturbances : Spent(k)
             /\ parent = "watching"
             /\ \A c \in Processes : Touched(c) => Gone(c)
  <2>1. Spent("stop") /\ mail' = {}
    <3>1. ~Spent("terminal")
      BY <1>3 DEF Calmly
    <3>2. \A m \in mail : m = "SIGTERM"
      BY <1>2, <3>1
    <3>3. s = "SIGTERM" /\ Spent("stop")
      BY <1>a, <3>1
    <3> QED
      BY <1>1, <3>2, <3>3
  <2>2. /\ "stop" \in Disturbances /\ "stray" \in Disturbances /\ "crash" \in Disturbances
        /\ "stray" # "stop" /\ "crash" # "stop"
    BY DEF Disturbances, Causes
  <2>3. ~Spent("stray") /\ ~Spent("crash")
    BY <1>3, <2>1, <2>2 DEF Calmly, AtMostOneOf
  <2>4. parent = "watching"
    BY <1>1, <1>3 DEF TreeWorks, CalmInv
  <2> QED
    BY <1>3, <2>1, <2>2, <2>3, <2>4 DEF TreeWorks, CalmInv
<1>4. kind = "start" => Spent("stop")
  BY <1>a DEF TreeWorks, TreeInv
<1>5. "SIGTERM" \in Signals
  BY DEF Signals
<1>6. mail' \subseteq mail /\ \A c \in noticed' : c \in noticed
  BY <1>1
<1>7. CASE inbox' = Send("SIGTERM", Children)
  BY <1>1, <1>3, <1>4, <1>5, <1>6, <1>7, TellKeeps
<1>8. CASE inbox' = Send(s, Children)
  BY <1>1, <1>a, <1>3, <1>4, <1>5, <1>6, <1>8, TellKeeps
<1> QED
  BY <1>1, <1>7, <1>8

\* The end of a child is noticed.
LEMMA NoticeKeeps ==
  ASSUME Typed, TreeWorks, NEW c \in Processes, Notice(c)
  PROVE  TreeWorks'
<1>1. /\ parent \in {"watching", "stopping"} /\ c \in Children /\ Gone(c)
      /\ noticed' = noticed \cup {c} /\ UNCHANGED <<life, kind, mail, budget>>
  BY DEF Notice
<1>2. CASE kind = "start" /\ parent = "watching" /\ Unexpected(c)
  <2>1. parent' = "stopping" /\ code' = 1 /\ inbox' = Send("SIGTERM", Children)
    BY <1>2 DEF Notice
  <2>2. ASSUME Calmly
        PROVE  /\ mail' = {} /\ \E k \in Disturbances : Spent(k)
               /\ \A d \in Processes : Touched(d) => Gone(d)
    <3>1. Touched(c)
      BY <1>1 DEF Touched, Gone
    <3>2. /\ \A d \in Processes : Touched(d) => d = c
          /\ Spent("stray") \/ Spent("crash")
      BY <1>2, <2>2, <3>1 DEF TreeWorks, CalmInv
    <3>3. /\ "stop" \in Disturbances /\ "stray" \in Disturbances /\ "crash" \in Disturbances
          /\ "stray" # "stop" /\ "crash" # "stop"
      BY DEF Disturbances, Causes
    <3>4. ~Spent("stop") /\ ~Spent("terminal")
      BY <2>2, <3>2, <3>3 DEF Calmly, AtMostOneOf
    <3>5. mail = {}
      BY <3>4 DEF Typed, ParentTypes, Signals, TreeWorks, TreeInv
    <3> QED
      BY <1>1, <3>2, <3>3, <3>5
  <2>3. "SIGTERM" \in Signals /\ mail' \subseteq mail
        /\ \A d \in noticed' : d \in noticed \/ (d \in Processes /\ Gone(d))
    BY <1>1 DEF Signals
  <2> QED
    BY <1>1, <1>2, <2>1, <2>2, <2>3, TellKeeps
<1>3. CASE ~(kind = "start" /\ parent = "watching" /\ Unexpected(c))
  <2>1. UNCHANGED <<parent, code, inbox>>
    BY <1>3 DEF Notice
  <2>2. /\ Living' = Living /\ (Calmly' <=> Calmly)
        /\ \A k \in Causes : Spent(k)' <=> Spent(k)
        /\ \A d \in Processes : Touched(d)' <=> Touched(d)
    BY <1>1, <2>1 DEF Living, Children, Gone, Spent, Calmly, AtMostOneOf, Touched
  <2>3. TreeInv'
    BY <1>1, <2>1, <2>2 DEF TreeWorks, TreeInv, Gone, Causes
  <2>4. CalmInv'
    BY <1>1, <2>1, <2>2 DEF TreeWorks, CalmInv, Causes, Disturbances
  <2>5. ReportInv'
    BY <1>1, <1>3, <2>1, <2>2 DEF TreeWorks, ReportInv, Causes, Unexpected
  <2> QED
    BY <2>3, <2>4, <2>5 DEF TreeWorks
<1> QED
  BY <1>2, <1>3

\* The launcher's patience is over, and nobody is left.
LEMMA BackstopKeeps ==
  ASSUME Typed, TreeWorks, Backstop
  PROVE  TreeWorks'
<1>1. /\ kind = "launcher" /\ parent = "stopping" /\ parent' = "gone" /\ code' = 1
      /\ UNCHANGED <<kind, mail, noticed, budget>> /\ End(Living, "killed")
  BY DEF Backstop
<1>2. life \in [Processes -> Lives] /\ inbox \in [Processes -> SUBSET Signals]
      /\ Team[kind] \subseteq Processes
  BY TeamAssumption DEF Typed, IInv, Types, RoleTypes, ParentTypes
<1>3. \A c \in Processes :
        /\ life'[c] = IF c \in Living THEN "killed" ELSE life[c]
        /\ inbox'[c] = IF c \in Living THEN {} ELSE inbox[c]
  BY <1>1, <1>2 DEF End, ReplaceIn
<1>4. Living' = {}
  BY <1>1, <1>2, <1>3 DEF Living, Children, Gone, Endings
<1>5. \A k \in Causes : Spent(k)' <=> Spent(k)
  BY <1>1 DEF Spent
<1>6. Calmly' <=> Calmly
  BY <1>1 DEF Spent, Calmly, AtMostOneOf
<1>7. TreeInv'
  <2>1. \A c \in Processes : c \in Living => life[c] # "off" /\ c \in Team[kind]
    BY DEF Living, Children
  <2>2. \A c \in Processes : c \in noticed => Gone(c)'
    BY <1>3 DEF TreeWorks, TreeInv, Gone, Endings
  <2> QED
    BY <1>1, <1>3, <1>4, <1>5, <2>1, <2>2 DEF TreeWorks, TreeInv, Causes
<1>8. CalmInv'
  BY <1>1, <1>3, <1>4, <1>6 DEF TreeWorks, CalmInv
<1>9. ReportInv'
  BY <1>1 DEF ReportInv
<1> QED
  BY <1>7, <1>8, <1>9 DEF TreeWorks

-----------------------------------------------------------------------------
(* The causes.                                                             *)

\* What strikes first finds nobody touched and a parent that is not stopping.
LEMMA StrikesCalm ==
  ASSUME Typed, TreeWorks, NEW cause \in Disturbances, Spend(cause), Calmly'
  PROVE  /\ cause # "terminal" /\ Calmly
         /\ parent = "gone" => Living = {}
         /\ parent # "stopping"
         /\ parent # "gone" => \A c \in Processes : ~Touched(c)
<1>1. cause # "terminal" /\ \A k \in Disturbances : ~Spent(k)
  BY FirstCause
<1>2. {"terminal", "stray", "crash"} \subseteq Disturbances
  BY DEF Disturbances, Causes
<1>3. Calmly
  BY <1>1, <1>2 DEF Calmly, AtMostOneOf
<1> QED
  BY <1>1, <1>2, <1>3 DEF TreeWorks, CalmInv, Typed, ParentTypes

\* After a cause strikes, every cause that had is still one that has.
LEMMA StrikeStays ==
  ASSUME Typed, NEW cause \in Causes, Spend(cause)
  PROVE  (\A k \in Causes : Spent(k) => Spent(k)') /\ (Calmly' => Calmly) /\ Spent(cause)'
<1>1. budget' \in [Causes -> Nat] /\ \A k \in Causes : budget'[k] <= budget[k]
  BY SpendTypes DEF Typed
<1>2. budget'[cause] = budget[cause] - 1
  BY SpendTypes DEF Typed
<1>3. budget[cause] \in Nat /\ Budget[cause] \in Nat /\ budget[cause] <= Budget[cause]
  BY BudgetAssumption DEF Typed, ParentTypes
<1> QED
  BY <1>1, <1>2, <1>3, CausesStay DEF Spent

\* A cause leaves the others as they were.
LEMMA OtherCauses ==
  ASSUME Typed, NEW cause \in Causes, Spend(cause), NEW k \in Causes, k # cause
  PROVE  Spent(k)' <=> Spent(k)
BY DEF Spend, Spent, Typed, ParentTypes

\* The parent is told to stop.
LEMMA StopKeeps ==
  ASSUME Typed, TreeWorks, StopParent \/ CtrlC
  PROVE  TreeWorks'
<1>0. Disturbances \subseteq Causes /\ {"stop", "terminal", "stray", "crash"} \subseteq Disturbances
  BY DEF Disturbances, Causes
<1>1. life \in [Processes -> Lives] /\ inbox \in [Processes -> SUBSET Signals]
      /\ "SIGINT" \in Signals
  BY DEF Typed, IInv, Types, RoleTypes, Signals
<1>2. CASE StopParent
  <2>1. /\ parent # "gone" /\ mail' = mail \cup {"SIGTERM"}
        /\ UNCHANGED <<life, inbox, kind, parent, noticed, code>> /\ Spend("stop")
    BY <1>2 DEF StopParent, roleVars
  <2>2. /\ Spent("stop")' /\ (\A k \in Causes : Spent(k) => Spent(k)')
        /\ (Spent("terminal")' <=> Spent("terminal"))
    BY <1>0, <2>1, StrikeStays, OtherCauses
  <2>3. TreeInv'
    BY <2>1, <2>2 DEF TreeWorks, TreeInv, Gone
  <2>4. CalmInv'
    <3>1. SUFFICES ASSUME Calmly' PROVE CalmInv'
      BY DEF CalmInv
    <3>2. Calmly /\ parent # "stopping" /\ \A c \in Processes : ~Touched(c)
      BY <1>0, <2>1, <3>1, StrikesCalm
    <3> QED
      BY <2>1, <3>2 DEF TreeWorks, CalmInv, Touched
  <2>5. ReportInv'
    BY <2>2 DEF ReportInv
  <2> QED
    BY <2>3, <2>4, <2>5 DEF TreeWorks
<1>3. CASE CtrlC
  <2>1. /\ kind = "launcher" /\ parent # "gone" /\ mail' = mail \cup {"SIGINT"}
        /\ inbox' = Send("SIGINT", Children)
        /\ UNCHANGED <<life, kind, parent, noticed, code>> /\ Spend("terminal")
    BY <1>3 DEF CtrlC
  <2>2. /\ Spent("terminal")' /\ \A k \in Causes : Spent(k) => Spent(k)'
    BY <1>0, <2>1, StrikeStays
  <2>3. \A c \in Processes :
          inbox'[c] = IF c \in Children /\ ~Gone(c) THEN inbox[c] \cup {"SIGINT"} ELSE inbox[c]
    BY <1>1, <2>1, Sent
  <2>4. TreeInv'
    <3>1. ASSUME NEW c \in Processes, life'[c] \in {"off"} \cup Endings PROVE inbox'[c] = {}
      BY <2>1, <2>3, <3>1 DEF TreeWorks, TreeInv, Children, Gone
    <3> QED
      BY <1>0, <2>1, <2>2, <3>1 DEF TreeWorks, TreeInv, Gone
  <2>5. ~Calmly'
    BY <2>2 DEF Calmly
  <2> QED
    BY <2>1, <2>4, <2>5 DEF TreeWorks, CalmInv, ReportInv
<1> QED
  BY <1>2, <1>3

\* One child is told to stop, or ends, or hangs.
LEMMA StrayKeeps ==
  ASSUME Typed, TreeWorks, NEW c \in Processes, StopChild(c) \/ ChildDies(c)
  PROVE  TreeWorks'
<1>0. Disturbances \subseteq Causes /\ {"stop", "terminal", "stray", "crash"} \subseteq Disturbances
  BY DEF Disturbances, Causes
<1>1. /\ life \in [Processes -> Lives] /\ inbox \in [Processes -> SUBSET Signals]
      /\ "SIGTERM" \in Signals /\ Team[kind] \subseteq Processes
  BY TeamAssumption DEF Typed, IInv, Types, RoleTypes, ParentTypes, Signals
<1>2. c \in Living /\ c \in Children /\ ~Gone(c) /\ life[c] # "off" /\ c \in Team[kind]
      /\ UNCHANGED <<kind, parent, mail, noticed, code>>
  BY DEF StopChild, ChildDies, Living, Children, parentVars
<1>3. /\ Spend("stray") \/ Spend("crash")
      /\ \/ life' = life /\ Spend("stray") /\ inbox'[c] = inbox[c] \cup {"SIGTERM"}
         \/ life'[c] \in {"failed", "killed"} /\ Spend("crash") /\ inbox'[c] = {}
      /\ Only(c)
  <2>1. CASE StopChild(c)
    BY <1>1, <1>2, <2>1, Sent DEF StopChild, Only
  <2>2. CASE ChildDies(c)
    BY <2>2, EndedAlone DEF ChildDies, Dies
  <2> QED
    BY <2>1, <2>2
<1>4. /\ \A k \in Causes : Spent(k) => Spent(k)'
      /\ Spent("stop")' <=> Spent("stop")
      /\ Spent("terminal")' <=> Spent("terminal")
      /\ Spent("stray")' \/ Spent("crash")'
  BY <1>0, <1>3, StrikeStays, OtherCauses
<1>5. Living' \subseteq Living
  BY <1>1, <1>2, <1>3 DEF Living, Children, Gone, Only, Endings
<1>6. TreeInv'
  <2>1. \A d \in Processes : Gone(d) => Gone(d)'
    BY <1>2, <1>3 DEF Gone, Only
  <2>2. \A d \in Processes : life'[d] \in {"off"} \cup Endings => inbox'[d] = {}
    BY <1>2, <1>3 DEF Gone, Only, TreeWorks, TreeInv
  <2>3. \A d \in Processes : d \notin Team[kind] => life'[d] = "off"
    BY <1>2, <1>3 DEF Only, TreeWorks, TreeInv
  <2>4. parent # "migrating"
    BY <1>2 DEF TreeWorks, TreeInv
  <2>5. \A d \in Processes : "SIGINT" \in inbox'[d] => "SIGINT" \in inbox[d]
    BY <1>3 DEF Only
  <2> QED
    BY <1>0, <1>2, <1>4, <1>5, <2>1, <2>2, <2>3, <2>4, <2>5 DEF TreeWorks, TreeInv
<1>7. CalmInv'
  <2>1. SUFFICES ASSUME Calmly' PROVE CalmInv'
    BY DEF CalmInv
  <2>2. /\ Calmly /\ parent # "gone" /\ parent # "stopping"
        /\ \A d \in Processes : ~Touched(d)
    <3>1. parent = "gone" => Living = {}
      BY <1>0, <1>3, <2>1, StrikesCalm
    <3> QED
      BY <1>0, <1>2, <1>3, <2>1, <3>1, StrikesCalm
  <2>3. \A d \in Processes : Touched(d)' => d = c
    BY <1>3, <2>2 DEF Touched, Only
  <2>4. \A d \in Processes : life'[d] # "impatient" /\ (life'[d] = "draining" => inbox'[d] = {})
    <3>1. \A d \in Processes : life[d] # "draining" /\ life[d] # "impatient"
      BY <2>2 DEF Touched, Endings
    <3> QED
      BY <1>3, <3>1 DEF Only
  <2> QED
    BY <1>2, <1>4, <2>2, <2>3, <2>4 DEF CalmInv
<1>8. ReportInv'
  <2>1. parent = "gone" /\ c \in Team[kind] => ~(life[c] \in {"off", "signalled"})
    BY <1>2 DEF Gone, Endings
  <2>2. \A d \in noticed : life'[d] = life[d]
    BY <1>2, <1>3 DEF Typed, ParentTypes, TreeWorks, TreeInv, Only
  <2> QED
    BY <1>0, <1>2, <1>4, <2>1, <2>2 DEF TreeWorks, ReportInv
<1> QED
  BY <1>6, <1>7, <1>8 DEF TreeWorks

\* A child that hangs answers nothing any more.
LEMMA StickKeeps ==
  ASSUME Typed, TreeWorks, NEW c \in Processes, ChildSticks(c)
  PROVE  TreeWorks'
<1>1. /\ life \in [Processes -> Lives] /\ Team[kind] \subseteq Processes
  BY TeamAssumption DEF Typed, IInv, Types, ParentTypes
<1>2. /\ life[c] \in {"up", "draining"} /\ life' = [life EXCEPT ![c] = "stuck"]
      /\ UNCHANGED <<inbox, kind, parent, mail, noticed, code>> /\ Spend("stick")
      /\ c \in Living
  BY DEF ChildSticks, Sticks, Turning, parentVars
<1>3. \A d \in Processes : /\ life'[d] = IF d = c THEN "stuck" ELSE life[d]
                           /\ Gone(d)' <=> Gone(d)
                           /\ Touched(d)' => Touched(d)
  BY <1>1, <1>2 DEF Gone, Touched, Endings
<1>4. \A k \in Causes \ {"stick"} : Spent(k)' <=> Spent(k)
  BY <1>2, OtherCauses DEF Causes
<1>5. Calmly' => Calmly
  BY <1>2, StrikeStays DEF Causes
<1>6. {"stop", "terminal", "stray", "crash"} \subseteq Causes \ {"stick"}
      /\ Disturbances = Causes \ {"stick"}
  BY DEF Causes, Disturbances
<1>7. Living' = Living
  BY <1>1, <1>2, <1>3 DEF Living, Children
<1>8. TreeInv'
  <2>1. c \in Team[kind] /\ ~Gone(c) /\ life[c] # "off"
    BY <1>2 DEF Living, Children
  <2>2. parent # "migrating"
    BY <2>1 DEF TreeWorks, TreeInv
  <2> QED
    BY <1>2, <1>3, <1>4, <1>6, <1>7, <2>1, <2>2 DEF TreeWorks, TreeInv, Endings
<1>9. CalmInv'
  BY <1>2, <1>3, <1>4, <1>5, <1>6, <1>7 DEF TreeWorks, CalmInv
<1>10. ReportInv'
  <2>1. parent = "gone" /\ c \in Team[kind] => ~(life[c] \in {"off", "signalled"})
    BY <1>2
  <2>2. \A d \in noticed : d \in Processes /\ d # c
    BY <1>2 DEF Typed, ParentTypes, TreeWorks, TreeInv, Living
  <2> QED
    BY <1>1, <1>2, <1>3, <1>4, <1>6, <2>1, <2>2 DEF TreeWorks, ReportInv
<1> QED
  BY <1>8, <1>9, <1>10 DEF TreeWorks

-----------------------------------------------------------------------------
\* Before anything happens the tree is in order.
LEMMA TreeStarts == Init => TreeWorks
<1> SUFFICES ASSUME Init PROVE TreeWorks
  OBVIOUS
<1>1. \A k \in Causes : ~Spent(k)
  BY BudgetAssumption DEF Init, Spent
<1>2. \A c \in Processes : life[c] = "off" /\ inbox[c] = {} /\ ~Touched(c)
  BY DEF Init, RolesInit, Touched, Endings
<1> QED
  BY <1>1, <1>2
  DEF Init, TreeWorks, TreeInv, CalmInv, ReportInv, Causes, Endings

\* No step of a child, of the parent or of the world puts it out of order.
LEMMA TreeStep == Typed /\ TreeWorks /\ [Next]_vars => TreeWorks'
<1> SUFFICES ASSUME Typed, TreeWorks, [Next]_vars PROVE TreeWorks'
  OBVIOUS
<1>1. CASE UNCHANGED vars
  <2>1. UNCHANGED <<life, inbox, kind, parent, mail, noticed, code, budget>>
    BY <1>1 DEF vars, roleVars, parentVars
  <2>2. ASSUME NEW c \in Processes PROVE Moves(c) /\ Only(c)
    BY <2>1 DEF Moves, Only
  <2>3. CASE Processes = {}
    <3>1. Living = {} /\ Living' = {} /\ Team[kind] = {}
      BY <2>1, <2>3, TeamAssumption DEF Living, Children, Typed, ParentTypes
    <3>2. (Calmly' <=> Calmly) /\ \A k \in Causes : Spent(k)' <=> Spent(k)
      BY <2>1 DEF Spent, Calmly, AtMostOneOf
    <3> QED
      BY <2>1, <2>3, <3>1, <3>2
      DEF TreeWorks, TreeInv, CalmInv, ReportInv, Causes, Disturbances
  <2>4. CASE Processes # {}
    BY <2>1, <2>2, <2>4, MovesKeep
  <2> QED
    BY <2>3, <2>4
<1>2. ASSUME NEW c \in Processes, ChildStep(c) PROVE TreeWorks'
  BY <1>2, ChildMoves, MovesKeep
<1>3. CASE ParentStep
  <2>1. ASSUME NEW s \in Signals, StartHandles(s) \/ LauncherHandles(s) PROVE TreeWorks'
    BY <2>1, SignalKeeps, ExitKeeps
  <2> QED
    BY <1>3, <2>1, SpawnKeeps, ExitKeeps, NoticeKeeps, BackstopKeeps DEF ParentStep
<1>4. CASE Cause
  BY <1>4, StopKeeps, StrayKeeps, StickKeeps DEF Cause
<1> QED
  BY <1>1, <1>2, <1>3, <1>4 DEF Next

\* The tree is always in order.
LEMMA AlwaysTree == Spec => []TreeWorks
BY AlwaysTyped, TreeStarts, TreeStep, PTL DEF Spec

\* For any team, any numbers of signals, crashes and hangs: unless two things bring the
\* tree down, the parent leaves when nobody of it is left (start.ts:72,
\* dev/workers.ts:65-69).
THEOREM ParentIsLast == Spec => []ParentLeavesLast
<1>1. Typed /\ TreeWorks => ParentLeavesLast
  <2> SUFFICES ASSUME Typed, TreeWorks, parent = "gone", AtMostOneOf(Disturbances)
               PROVE  Living = {}
    BY DEF ParentLeavesLast, Disturbances
  <2>1. CASE kind = "start"
    BY <2>1 DEF TreeWorks, TreeInv, CalmInv, Calmly
  <2>2. CASE kind = "launcher"
    BY <2>2 DEF TreeWorks, TreeInv
  <2> QED
    BY <2>1, <2>2 DEF Typed, ParentTypes, Kinds
<1> QED
  BY <1>1, AlwaysTyped, AlwaysTree, PTL

\* Whatever else happens, start.ts exits with 1 when a role was lost and nobody asked it
\* to stop (start.ts:60-67).
THEOREM CrashesAreReported == Spec => []CrashIsReported
<1>1. TreeWorks => CrashIsReported
  <2> SUFFICES ASSUME TreeWorks, kind = "start", parent = "gone", ~Spent("stop"),
                      NEW c \in Team[kind], life[c] \in Endings \ {"signalled"}
               PROVE  code = 1
    BY DEF CrashIsReported, SpentIn
  <2> QED
    BY DEF TreeWorks, ReportInv, Endings
<1> QED
  BY <1>1, AlwaysTree, PTL

\* One signal to the parent, one to a child, or one crash makes no process hurry:
\* nobody is ever told twice (dev/workers.ts:65-69).
THEOREM OneStopHurriesNobody == Spec => []OneStopIsPatient
<1>1. TreeWorks => OneStopIsPatient
  BY DEF TreeWorks, CalmInv, Calmly, Disturbances, OneStopIsPatient
<1> QED
  BY <1>1, AlwaysTree, PTL
=============================================================================
