---------------------------- MODULE CrashProofs -----------------------------
(***************************************************************************)
(* What QueueFlow guarantees when processes only crash, for any number of  *)
(* jobs, workers, slots, requests and crashes: the environments of the     *)
(* runs Chaos and Restart.  Workers die at any point or are told to stop,  *)
(* requests and recovery passes break off half way, BLMOVE answers get     *)
(* lost and rows get old, any number of times each.  Handlers do not       *)
(* throw and a live worker keeps its heartbeat up.  Either one scheduler   *)
(* is deployed and a dead worker does not come back under its id, or none  *)
(* is and it may, as often as it likes: CrashesOnly.                       *)
(*                                                                         *)
(* None of the properties is inductive.  The invariant behind them is      *)
(* that every id is in ONE place (OnePlace): in the pending list, in one   *)
(* processing list, or in the hand of one request, and there once.  It     *)
(* takes the rest of CrashInv to keep it: the reaper only touches lists    *)
(* of processes that are gone for good (PassInv), a slot only lists of a   *)
(* process that beats (SlotInv), a process that comes back has read all    *)
(* that its list holds before anybody adds to it (BootInv), and the sweep  *)
(* pushes an id only if the three reads it made, one after the other,      *)
(* cannot have missed it (the last two conjuncts of PassInv).              *)
(***************************************************************************)
EXTENDS SafetyProofs, FiniteSetTheorems

Barred == {"lapse", "dbError", "ackLost", "replay", "slow"}

\* no dead worker comes back under its id
NoRestarts == Budget["restart"] = 0

CrashesOnly ==
  /\ Schedulers = {} \/ NoRestarts
  /\ \A d, e \in Schedulers : d = e
  /\ \A p, q \in Procs : IdOf[p] = IdOf[q] => p = q
  /\ CanFail = {}
  /\ \A k \in Barred : Budget[k] = 0

-----------------------------------------------------------------------------
(* The inductive invariant.                                                *)

NoRetries == delayed = {} /\ \A j \in Jobs : row[j].status # "retrying"

OnePlace ==
  /\ IsInjective(pending)
  /\ \A w \in WorkerIds : IsInjective(processing[w]) /\ Held(w) \cap Waiting = {}
  /\ \A v, w \in WorkerIds : v # w => Held(v) \cap Held(w) = {}
  /\ \A r \in Requests : api[r] \notin Waiting /\ \A w \in WorkerIds : api[r] \notin Held(w)
  /\ \A r, t \in Requests : api[r] = api[t] /\ api[r] # NoJob => r = t

HandsFresh ==
  \A r \in Requests : api[r] # NoJob => row[api[r]].status = "queued" /\ ~row[api[r]].old

\* a process that beats has this id
Attended(w) == \E p \in Procs : IdOf[p] = w /\ Beating(p)

OneLife ==
  /\ \A p \in Procs : Beating(p) => alive[IdOf[p]]
  /\ NoRestarts => /\ \A p \in Procs : proc[p] \notin {"requeue", "moveback"}
                   /\ \A w \in WorkerIds : Held(w) # {} => Started(w)

BootInv(p) ==
  /\ proc[p] = "requeue"  => stranded[p] = Held(IdOf[p])
  /\ proc[p] = "moveback" => \A j \in Held(IdOf[p]) : row[j].status # "running"
  /\ proc[p] = "ready"    => Held(IdOf[p]) = {}

SlotInv(s) ==
  exec[s].pc # "idle" =>
    /\ exec[s].pc \in {"claim", "run", "release"}
    /\ Beating(ProcOf[s])
    /\ Job(s) \in Held(HolderOf(s))
    /\ exec[s].pc = "run" => /\ row[Job(s)].status = "running"
                             /\ row[Job(s)].lease = exec[s].lease
    /\ exec[s].pc = "release" => row[Job(s)].status \in Terminal

SlotsApart ==
  \A s, t \in Slots : exec[s].pc # "idle" /\ exec[t].pc # "idle" /\ Job(s) = Job(t) => s = t

RunBy(s, j) == exec[s].pc = "run" /\ Job(s) = j

RunningHeld(j) ==
  row[j].status = "running" =>
    \E w \in WorkerIds : /\ j \in Held(w)
                         /\ ~Attended(w) \/ \E s \in Slots : HolderOf(s) = w /\ RunBy(s, j)

Placed(j) == \/ j \in Waiting
             \/ \E w \in WorkerIds : j \in Held(w)
             \/ \E r \in Requests : api[r] = j
             \/ budget["apiCrash"] < Budget["apiCrash"]

RowFits(j) ==
  /\ row[j].status = "none" => row[j].attempts = 0
  /\ NoRestarts => /\ row[j].status = "queued"  => row[j].attempts < MaxAttempts
                   /\ row[j].status = "running" => row[j].attempts \in 1..MaxAttempts
  /\ Len(effects[j]) = IF row[j].status = "succeeded" THEN 1 ELSE 0

RowInv(j) == RunningHeld(j) /\ (row[j].status = "queued" => Placed(j)) /\ RowFits(j)

Reaping == {"peek", "inspect", "bury", "drop", "rescue", "move"}

\* candidates the sweep has not seen in Redis
Unseen(d) == sched[d].cand \ sched[d].held

DecisionStands(d) ==
  LET r == row[sched[d].job] IN
  /\ sched[d].pc = "bury"   => r.status = "running" /\ r.attempts = MaxAttempts
  /\ sched[d].pc = "drop"   => r.status \in Terminal
  /\ sched[d].pc = "rescue" => r.status \in {"queued", "running"} /\ r.attempts < MaxAttempts
  /\ sched[d].pc = "move"   => r.status = "queued"

PassInv(d) ==
  /\ sched[d].pc \notin {"update", "push"}
  /\ sched[d].pc \in {"lists"} \cup Reaping => \A w \in sched[d].lists : Started(w)
  /\ sched[d].pc \in Reaping => Gone(sched[d].wid)
  /\ sched[d].pc \in Reaping \ {"peek"} =>
       /\ processing[sched[d].wid] # <<>>
       /\ Last(processing[sched[d].wid]) = sched[d].job
       /\ DecisionStands(d)
  /\ \A j \in sched[d].cand : row[j].old
  /\ sched[d].pc \in {"scan", "hold"} => Waiting \cap Unseen(d) = {}
  /\ sched[d].pc = "hold" =>
       \A w \in WorkerIds \ sched[d].lists : Held(w) \cap Unseen(d) = {}

CrashInv == /\ Spending /\ NoRetries /\ OnePlace /\ HandsFresh /\ OneLife
            /\ SlotsApart /\ \A s \in Slots : SlotInv(s)
            /\ \A p \in Procs : BootInv(p)
            /\ \A j \in Jobs : RowInv(j)
            /\ \A d \in Schedulers : PassInv(d)

-----------------------------------------------------------------------------
(* The lists as sets.                                                      *)

\* BLMOVE takes one id out of pending and into one processing list.
LEMMA TakePlaces ==
  ASSUME TypeInv, OnePlace, NEW w \in WorkerIds, TakeTail(w), api' = api
  PROVE  /\ Last(pending) \in Waiting
         /\ Waiting' = Waiting \ {Last(pending)}
         /\ Held(w)' = Held(w) \cup {Last(pending)}
         /\ \A v \in WorkerIds : v # w => processing'[v] = processing[v] /\ Held(v)' = Held(v)
         /\ OnePlace'
<1> DEFINE j == Last(pending)
<1>1. /\ pending \in Seq(Jobs) /\ pending # <<>> /\ IsInjective(pending)
      /\ processing \in [WorkerIds -> Seq(Jobs)]
      /\ pending' = Front(pending)
      /\ processing' = [processing EXCEPT ![w] = <<j>> \o processing[w]]
  BY DEF TypeInv, TypeOK, StoresTypeOK, OnePlace, TakeTail
<1>2. j \in Jobs
  BY <1>1, TailOfList
<1>3. j \in Waiting /\ Waiting' = Waiting \ {j} /\ IsInjective(pending')
  BY <1>1, TailOfInjective DEF Waiting
<1>4. j \notin Held(w)
  BY <1>3 DEF OnePlace
<1>5. Held(w)' = Held(w) \cup {j} /\ IsInjective(processing'[w])
  <2>1. processing'[w] = <<j>> \o processing[w] /\ processing[w] \in Seq(Jobs)
    BY <1>1
  <2>2. IsInjective(processing[w])
    BY DEF OnePlace
  <2> HIDE DEF j
  <2> QED
    BY <1>2, <1>4, <2>1, <2>2, PushNew DEF Held
<1>6. \A v \in WorkerIds : v # w => processing'[v] = processing[v] /\ Held(v)' = Held(v)
  BY <1>1 DEF Held
<1>7. OnePlace'
  <2> HIDE DEF j
  <2>1. \A v \in WorkerIds : IsInjective(processing'[v])
    BY <1>5, <1>6 DEF OnePlace
  <2>2. \A v \in WorkerIds : Held(v)' \cap Waiting' = {}
    BY <1>3, <1>5, <1>6 DEF OnePlace
  <2>3. \A u, v \in WorkerIds : u # v => Held(u)' \cap Held(v)' = {}
    BY <1>3, <1>5, <1>6 DEF OnePlace
  <2>4. \A r \in Requests : api[r] \notin Waiting' /\ \A v \in WorkerIds : api[r] \notin Held(v)'
    BY <1>3, <1>5, <1>6 DEF OnePlace
  <2> QED
    BY <1>3, <2>1, <2>2, <2>3, <2>4 DEF OnePlace
<1> QED
  BY <1>3, <1>5, <1>6, <1>7

\* LMOVE takes one id out of a processing list and into pending.
LEMMA MovePlaces ==
  ASSUME TypeInv, OnePlace, NEW w \in WorkerIds, MoveTailToTail(w),
         processing[w] # <<>>, api' = api
  PROVE  /\ Last(processing[w]) \in Held(w)
         /\ Waiting' = Waiting \cup {Last(processing[w])}
         /\ Held(w)' = Held(w) \ {Last(processing[w])}
         /\ \A v \in WorkerIds : v # w => processing'[v] = processing[v] /\ Held(v)' = Held(v)
         /\ OnePlace'
<1> DEFINE j == Last(processing[w])
<1>1. /\ pending \in Seq(Jobs) /\ IsInjective(pending)
      /\ processing \in [WorkerIds -> Seq(Jobs)] /\ IsInjective(processing[w])
      /\ pending' = Append(pending, j)
      /\ processing' = [processing EXCEPT ![w] = Front(processing[w])]
  BY DEF TypeInv, TypeOK, StoresTypeOK, OnePlace, MoveTailToTail
<1>2. processing[w] \in Seq(Jobs) /\ processing'[w] = Front(processing[w])
  BY <1>1
<1>3. j \in Jobs
  BY <1>2, TailOfList
<1>4. j \in Held(w) /\ Held(w)' = Held(w) \ {j} /\ IsInjective(processing'[w])
  BY <1>1, <1>2, TailOfInjective DEF Held
<1>5. j \notin Waiting
  BY <1>4 DEF OnePlace
<1>6. Waiting' = Waiting \cup {j} /\ IsInjective(pending')
  <2> HIDE DEF j
  <2> QED
    BY <1>1, <1>3, <1>5, AppendNew DEF Waiting
<1>7. \A v \in WorkerIds : v # w => processing'[v] = processing[v] /\ Held(v)' = Held(v)
  BY <1>1 DEF Held
<1>8. OnePlace'
  <2> HIDE DEF j
  <2>1. \A v \in WorkerIds : IsInjective(processing'[v])
    BY <1>4, <1>7 DEF OnePlace
  <2>2. \A v \in WorkerIds : Held(v)' \cap Waiting' = {}
    BY <1>4, <1>6, <1>7 DEF OnePlace
  <2>3. \A u, v \in WorkerIds : u # v => Held(u)' \cap Held(v)' = {}
    BY <1>4, <1>7 DEF OnePlace
  <2>4. \A r \in Requests : api[r] \notin Waiting' /\ \A v \in WorkerIds : api[r] \notin Held(v)'
    BY <1>4, <1>6, <1>7 DEF OnePlace
  <2> QED
    BY <1>6, <2>1, <2>2, <2>3, <2>4 DEF OnePlace
<1> QED
  BY <1>4, <1>6, <1>7, <1>8

\* LREM, the worker's and the reaper's, takes an id out.
LEMMA DropPlaces ==
  ASSUME TypeInv, OnePlace, NEW w \in WorkerIds, NEW j,
         \/ processing' = [processing EXCEPT ![w] = DropFromHead(processing[w], j)]
         \/ processing' = [processing EXCEPT ![w] = DropFromTail(processing[w], j)],
         pending' = pending, api' = api
  PROVE  /\ Held(w)' = Held(w) \ {j}
         /\ \A v \in WorkerIds : v # w => processing'[v] = processing[v] /\ Held(v)' = Held(v)
         /\ OnePlace'
<1>1. /\ processing \in [WorkerIds -> Seq(Jobs)] /\ IsInjective(processing[w])
      /\ Waiting' = Waiting
  BY DEF TypeInv, TypeOK, StoresTypeOK, OnePlace, Waiting
<1>2. Held(w)' = Held(w) \ {j} /\ IsInjective(processing'[w])
  <2>1. processing[w] \in Seq(Jobs)
    BY <1>1
  <2>2. \/ processing'[w] = DropFromHead(processing[w], j)
        \/ processing'[w] = DropFromTail(processing[w], j)
    BY <1>1
  <2> QED
    BY <1>1, <2>1, <2>2, DropFromInjective DEF Held
<1>3. \A v \in WorkerIds : v # w => processing'[v] = processing[v] /\ Held(v)' = Held(v)
  BY <1>1 DEF Held
<1>4. OnePlace'
  <2>1. \A v \in WorkerIds : IsInjective(processing'[v])
    BY <1>2, <1>3 DEF OnePlace
  <2>2. \A v \in WorkerIds : Held(v)' \subseteq Held(v)
    BY <1>2, <1>3
  <2> QED
    BY <1>1, <2>1, <2>2 DEF OnePlace
<1> QED
  BY <1>2, <1>3, <1>4

\* LPUSH and RPUSH put an id that is nowhere into pending.
LEMMA PushPlaces ==
  ASSUME TypeInv, OnePlace, NEW j \in Jobs,
         pending' = <<j>> \o pending \/ pending' = Append(pending, j),
         processing' = processing,
         j \notin Waiting, \A w \in WorkerIds : j \notin Held(w),
         api' = api \/ \E r \in Requests : api' = [api EXCEPT ![r] = NoJob],
         \A r \in Requests : api'[r] # j
  PROVE  /\ Waiting' = Waiting \cup {j}
         /\ \A v \in WorkerIds : Held(v)' = Held(v)
         /\ OnePlace'
<1>1. pending \in Seq(Jobs) /\ IsInjective(pending) /\ api \in [Requests -> Jobs \cup {NoJob}]
  BY DEF TypeInv, TypeOK, StoresTypeOK, ApiTypeOK, OnePlace
<1>2. Waiting' = Waiting \cup {j} /\ IsInjective(pending')
  <2>1. CASE pending' = <<j>> \o pending
    BY <1>1, <2>1, PushNew DEF Waiting
  <2>2. CASE pending' = Append(pending, j)
    BY <1>1, <2>2, AppendNew DEF Waiting
  <2> QED
    BY <2>1, <2>2
<1>3. \A v \in WorkerIds : Held(v)' = Held(v)
  BY DEF Held
<1>4. NoJob \notin Waiting /\ \A w \in WorkerIds : NoJob \notin Held(w)
  <2>1. Waiting \subseteq Jobs /\ \A w \in WorkerIds : Held(w) \subseteq Jobs
    BY ListedIds DEF TypeInv, TypeOK, StoresTypeOK, Waiting, Held
  <2> QED
    BY <2>1, NoJobAssumption
<1>5. \A r \in Requests : api'[r] = api[r] \/ api'[r] = NoJob
  BY <1>1
<1>6. OnePlace'
  <2>1. \A v \in WorkerIds : IsInjective(processing'[v]) /\ Held(v)' \cap Waiting' = {}
    BY <1>2, <1>3 DEF OnePlace
  <2>2. \A u, v \in WorkerIds : u # v => Held(u)' \cap Held(v)' = {}
    BY <1>3 DEF OnePlace
  <2>3. \A r \in Requests : api'[r] \notin Waiting' /\ \A v \in WorkerIds : api'[r] \notin Held(v)'
    BY <1>2, <1>3, <1>4, <1>5 DEF OnePlace
  <2>4. \A r, t \in Requests : api'[r] = api'[t] /\ api'[r] # NoJob => r = t
    BY <1>5 DEF OnePlace
  <2> QED
    BY <1>2, <2>1, <2>2, <2>3, <2>4 DEF OnePlace
<1> QED
  BY <1>2, <1>3, <1>6

\* An id in a list or in a hand has its row; no id is "no job".
LEMMA PlacedIsKnown ==
  ASSUME TypeInv, GhostInv
  PROVE  /\ Waiting \subseteq Known /\ \A w \in WorkerIds : Held(w) \subseteq Known
         /\ \A r \in Requests : api[r] # NoJob => api[r] \in Known
         /\ Known \subseteq Jobs /\ NoJob \notin Jobs
         /\ \A d \in Schedulers : sched[d].cand \subseteq Known
BY ListedIds, NoJobAssumption DEF GhostInv, QueuesKnown, HandsKnown, PassesKnown, Known, Waiting, Held

\* Nothing barred is ever spent.
LEMMA SpendUnbarred ==
  ASSUME CrashesOnly, TypeInv, Spending, NEW k \in Disturbances, Spend(k)
  PROVE  /\ k \notin Barred
         /\ Spending'
         /\ \A l \in Disturbances : l # k => budget'[l] = budget[l]
         /\ budget'[k] < Budget[k]
<1>1. /\ budget \in [Disturbances -> Nat] /\ budget[k] \in Nat /\ Budget[k] \in Nat
      /\ budget[k] =< Budget[k] /\ budget[k] > 0
      /\ budget' = [budget EXCEPT ![k] = budget[k] - 1]
  BY BudgetAssumption DEF TypeInv, TypeOK, StoresTypeOK, Spending, Spend
<1>2. \A l \in Disturbances : l # k => budget'[l] = budget[l]
  BY <1>1
<1>3. budget'[k] = budget[k] - 1
  BY <1>1
<1> QED
  BY <1>1, <1>2, <1>3 DEF CrashesOnly, Spending

-----------------------------------------------------------------------------
(* Frames: what a step has to leave alone for a part of the invariant to   *)
(* survive it.                                                             *)

\* A list belongs to at most one process, so a gone one's list is no slot's.
LEMMA GoneIsNotBeating ==
  ASSUME CrashesOnly, NEW p \in Procs, Beating(p)
  PROVE  ~Gone(IdOf[p])
BY DEF CrashesOnly, Beating, Gone

\* The list of a slot that holds a job is not the list of a gone process.
LEMMA HolderIsNotGone ==
  ASSUME CrashesOnly, NEW s \in Slots, SlotInv(s), exec[s].pc # "idle"
  PROVE  ~Gone(HolderOf(s))
BY GoneIsNotBeating, ProcOfAssumption DEF SlotInv, HolderOf

\* Nobody beats under the id of a process that ended.
LEMMA GoneIsUnattended ==
  ASSUME CrashesOnly, NEW w \in WorkerIds, Gone(w)
  PROVE  ~Attended(w)
BY GoneIsNotBeating DEF Attended

\* A busy slot is one of a process that beats.
LEMMA HolderIsAttended ==
  ASSUME NEW s \in Slots, SlotInv(s), exec[s].pc # "idle"
  PROVE  Attended(HolderOf(s))
BY ProcOfAssumption DEF SlotInv, HolderOf, Attended

\* What a process has read of its list before it beats stands while nobody
\* touches that list or the rows of the jobs in it; the reaper, which touches
\* lists, is not there when processes restart.
LEMMA BootsStand ==
  ASSUME CrashesOnly, CrashInv, proc' = proc, stranded' = stranded,
         \A w \in WorkerIds : ~Attended(w) => Held(w)' \subseteq Held(w),
         \/ NoRestarts
         \/ \A w \in WorkerIds : ~Attended(w) =>
              Held(w)' = Held(w) /\ \A j \in Held(w) : row'[j].status = row[j].status
  PROVE  \A p \in Procs : BootInv(p)'
<1> TAKE p \in Procs
<1>1. IdOf[p] \in WorkerIds /\ BootInv(p)
  BY IdOfAssumption DEF CrashInv
<1>2. CASE proc[p] \in {"requeue", "moveback"}
  <2>1. ~Attended(IdOf[p]) /\ ~NoRestarts
    BY <1>2 DEF Attended, Beating, CrashesOnly, CrashInv, OneLife
  <2>2. Held(IdOf[p])' = Held(IdOf[p])
    BY <1>1, <2>1
  <2> QED
    BY <1>1, <1>2, <2>1, <2>2 DEF BootInv, Held
<1>3. CASE proc[p] = "ready"
  <2>1. ~Attended(IdOf[p])
    BY <1>3 DEF Attended, Beating, CrashesOnly
  <2> QED
    BY <1>1, <1>3, <2>1 DEF BootInv, Held
<1> QED
  BY <1>2, <1>3 DEF BootInv

\* What a scheduler knows stands while nobody touches the lists of gone
\* processes or the rows of the jobs in them, and nothing old that was not
\* in pending arrives in Redis.
LEMMA PassesStand ==
  ASSUME CrashesOnly, TypeInv, GhostInv, CrashInv, sched' = sched,
         \A w \in WorkerIds : Started(w) => Started(w)',
         \A w \in WorkerIds : Gone(w) => Gone(w)' /\ processing'[w] = processing[w],
         \A j \in Known : row[j].old => row'[j].old,
         \A w \in WorkerIds : Gone(w) =>
           \A j \in Held(w) : /\ row'[j].status = row[j].status
                              /\ row'[j].attempts = row[j].attempts,
         \A j \in Waiting' : j \in Waiting \/ (j \in Known /\ ~row[j].old),
         \A w \in WorkerIds : Held(w)' \subseteq Held(w) \cup Waiting
  PROVE  \A d \in Schedulers : PassInv(d)'
<1> TAKE d \in Schedulers
<1>1. PassInv(d) /\ sched[d] \in Passes /\ PassAssigned(d)
  BY DEF CrashInv, TypeInv, TypeOK, SchedTypeOK, Assigned
<1>2. sched'[d].pc \notin {"update", "push"}
  BY <1>1 DEF PassInv
<1>3. sched'[d].pc \in {"lists"} \cup Reaping => \A w \in sched'[d].lists : Started(w)'
  BY <1>1 DEF PassInv, Passes
<1>4. sched'[d].pc \in Reaping => Gone(sched[d].wid)'
  BY <1>1 DEF PassInv, PassAssigned, Reaping, Gone
<1>5. ASSUME sched[d].pc \in Reaping \ {"peek"}
      PROVE  /\ processing'[sched[d].wid] # <<>>
             /\ Last(processing'[sched[d].wid]) = sched[d].job
             /\ DecisionStands(d)'
  <2> DEFINE w == sched[d].wid
             j == sched[d].job
  <2>1. /\ w \in WorkerIds /\ Gone(w) /\ processing[w] # <<>>
        /\ Last(processing[w]) = j /\ DecisionStands(d)
    BY <1>1, <1>5 DEF PassInv, PassAssigned, Reaping
  <2>2. processing'[w] = processing[w]
    BY <2>1
  <2>3. j \in Held(w)
    <3>1. processing[w] \in Seq(Jobs) /\ IsInjective(processing[w])
      BY <2>1 DEF TypeInv, TypeOK, StoresTypeOK, CrashInv, OnePlace
    <3> QED
      BY <2>1, <3>1, TailOfInjective DEF Held
  <2>4. row'[j].status = row[j].status /\ row'[j].attempts = row[j].attempts
    BY <2>1, <2>3
  <2>5. DecisionStands(d)'
    BY <2>1, <2>4 DEF DecisionStands
  <2> QED
    BY <2>1, <2>2, <2>5
<1>6. sched[d].cand \subseteq Known /\ \A j \in sched[d].cand : row[j].old /\ row'[j].old
  BY <1>1, PlacedIsKnown DEF PassInv
<1>7. sched[d].pc \in {"scan", "hold"} => Waiting' \cap Unseen(d) = {}
  BY <1>1, <1>6 DEF PassInv, Unseen
<1>8. sched[d].pc = "hold" =>
        \A w \in WorkerIds \ sched[d].lists : Held(w)' \cap Unseen(d) = {}
  BY <1>1 DEF PassInv
<1>9. Unseen(d)' = Unseen(d)
  BY DEF Unseen
<1> HIDE DEF Reaping
<1> QED
  BY <1>2, <1>3, <1>4, <1>5, <1>6, <1>7, <1>8, <1>9 DEF PassInv

\* What a slot knows stands while nobody touches the lists of live processes
\* or the rows of the jobs in them.
LEMMA SlotsStand ==
  ASSUME CrashesOnly, TypeInv, CrashInv, exec' = exec,
         \A p \in Procs : Beating(p) => Beating(p)',
         \A w \in WorkerIds : Attended(w) =>
           /\ Held(w) \subseteq Held(w)'
           /\ \A j \in Held(w) : /\ row'[j].status = row[j].status
                                 /\ row'[j].lease = row[j].lease
  PROVE  SlotsApart' /\ \A s \in Slots : SlotInv(s)'
<1>1. SlotsApart'
  BY DEF CrashInv, SlotsApart, Job
<1>2. ASSUME NEW s \in Slots
      PROVE  SlotInv(s)'
  <2>1. SlotInv(s) /\ HolderOf(s) \in WorkerIds
    BY IdOfAssumption, ProcOfAssumption DEF CrashInv, HolderOf
  <2>2. exec[s].pc # "idle" => Attended(HolderOf(s))
    BY <2>1, HolderIsAttended
  <2>3. Held(HolderOf(s))' = ToSet(processing'[HolderOf(s)]) /\ ProcOf[s] \in Procs
    BY ProcOfAssumption DEF Held, HolderOf
  <2> QED
    BY <2>1, <2>2, <2>3 DEF SlotInv, Job, HolderOf, Held
<1> QED
  BY <1>1, <1>2

\* The row of a job stands while the job stays where it is.
LEMMA RowStands ==
  ASSUME CrashInv, NEW j \in Jobs,
         row'[j].status = row[j].status, row'[j].attempts = row[j].attempts,
         effects'[j] = effects[j],
         \A w \in WorkerIds : j \in Held(w) => j \in Held(w)',
         \A w \in WorkerIds : j \in Held(w) /\ Attended(w)' => Attended(w),
         \A s \in Slots : RunBy(s, j) => RunBy(s, j)' \/ ~Attended(HolderOf(s))',
         row[j].status = "queued" => (Placed(j) => Placed(j)')
  PROVE  RowInv(j)'
<1>1. RowInv(j)
  BY DEF CrashInv
<1>2. RunningHeld(j)'
  BY <1>1 DEF RowInv, RunningHeld, HolderOf
<1>3. RowFits(j)'
  BY <1>1 DEF RowInv, RowFits
<1> QED
  BY <1>1, <1>2, <1>3 DEF RowInv

-----------------------------------------------------------------------------
(* One lemma per process, one step per action.                             *)

\* Every step of the API keeps the invariant (api/index.ts).
LEMMA ApiCrashStep ==
  ASSUME CrashesOnly, TypeInv, GhostInv, CrashInv, ApiStep
  PROVE  CrashInv'
<1> USE DEF postgres, redis, stores, workerVars
<1>a. proc' = proc /\ stranded' = stranded /\ exec' = exec /\ sched' = sched
  BY DEF ApiStep
<1>b. /\ \A w : Gone(w)' <=> Gone(w)
      /\ \A w : Started(w)' <=> Started(w)
      /\ \A w : Attended(w)' <=> Attended(w)
      /\ \A p \in Procs : Beating(p)' <=> Beating(p)
      /\ \A s \in Slots, j \in Jobs : RunBy(s, j)' <=> RunBy(s, j)
  BY <1>a DEF Gone, Started, Attended, Beating, RunBy, Job
<1>c. /\ row \in [Jobs -> Rows] /\ api \in [Requests -> Jobs \cup {NoJob}]
      /\ budget \in [Disturbances -> Nat]
  BY DEF TypeInv, TypeOK, StoresTypeOK, ApiTypeOK
<1>d. processing' = processing /\ (pending' = pending => Waiting' = Waiting)
      /\ \A w \in WorkerIds : Held(w)' = Held(w)
  BY DEF ApiStep, Submit, Replay, Enqueue, RequestDies, GrowOld, Waiting, Held
<1>e. OneLife'
  BY <1>a, <1>b, <1>d DEF ApiStep, Submit, Replay, Enqueue, RequestDies, GrowOld,
                          CrashInv, OneLife, Beating
<1>f. ASSUME \A j \in Known : /\ row'[j].status = row[j].status
                              /\ row'[j].attempts = row[j].attempts
                              /\ row'[j].lease = row[j].lease
                              /\ row[j].old => row'[j].old,
             \A j \in Waiting' : j \in Waiting \/ (j \in Known /\ ~row[j].old)
      PROVE  /\ \A d \in Schedulers : PassInv(d)'
             /\ SlotsApart' /\ \A s \in Slots : SlotInv(s)'
             /\ \A p \in Procs : BootInv(p)'
  <2>1. \A w \in WorkerIds : Held(w) \subseteq Known
    BY PlacedIsKnown
  <2>2. \A d \in Schedulers : PassInv(d)'
    BY <1>a, <1>b, <1>d, <1>f, <2>1, PassesStand
  <2>3. SlotsApart' /\ \A s \in Slots : SlotInv(s)'
    BY <1>a, <1>b, <1>d, <1>f, <2>1, SlotsStand
  <2>4. \A p \in Procs : BootInv(p)'
    BY <1>a, <1>d, <1>f, <2>1, BootsStand
  <2> QED
    BY <2>2, <2>3, <2>4
<1>1. ASSUME NEW r \in Requests, NEW i \in Jobs, Submit(r, i)
      PROVE  CrashInv'
  <2>1. /\ row' = [row EXCEPT ![i] = InsertedRow] /\ row[i].status = "none"
        /\ api' = [api EXCEPT ![r] = i] /\ api[r] = NoJob
        /\ UNCHANGED <<effects, redis, budget>>
    BY <1>1 DEF Submit
  <2>2. /\ i \notin Known /\ i # NoJob
        /\ row'[i].status = "queued" /\ row'[i].attempts = 0 /\ ~row'[i].old
        /\ \A j \in Jobs : j # i => row'[j] = row[j]
    BY <1>c, <2>1, NoJobAssumption DEF Known, Recorded, InsertedRow, NoRow
  <2>3. api'[r] = i /\ \A t \in Requests : t # r => api'[t] = api[t]
    BY <1>c, <2>1
  <2>4. i \notin Waiting /\ (\A w \in WorkerIds : i \notin Held(w)) /\ (\A t \in Requests : api[t] # i)
    BY <2>2, PlacedIsKnown
  <2>5. NoRetries' /\ Spending'
    BY <2>1, <2>2 DEF CrashInv, NoRetries, Spending
  <2>6. OnePlace'
    BY <1>d, <2>1, <2>3, <2>4 DEF CrashInv, OnePlace
  <2>7. HandsFresh'
    <3>1. \A t \in Requests : t # r /\ api[t] # NoJob => row'[api[t]] = row[api[t]]
      BY <1>c, <2>2, <2>4
    <3> QED
      BY <2>2, <2>3, <3>1 DEF CrashInv, HandsFresh
  <2>8. ASSUME NEW j \in Jobs PROVE RowInv(j)'
    <3>1. CASE j = i
      <4>1. RunningHeld(j)'
        BY <2>2, <3>1 DEF RunningHeld
      <4>2. Placed(j)'
        BY <2>3, <3>1 DEF Placed
      <4>3. RowFits(j)'
        <5>1. Len(effects[j]) = 0
          BY <2>1, <3>1 DEF CrashInv, RowInv, RowFits
        <5> QED
          BY <2>1, <2>2, <3>1, <5>1, MaxAttemptsAssumption DEF RowFits
      <4> QED
        BY <4>1, <4>2, <4>3 DEF RowInv
    <3>2. CASE j # i
      <4>1. Placed(j) => Placed(j)'
        BY <1>d, <2>1, <2>3, <3>2, NoJobAssumption DEF Placed
      <4> QED
        BY <1>b, <1>d, <2>1, <2>2, <3>2, <4>1, RowStands
    <3> QED
      BY <3>1, <3>2
  <2>9. /\ \A j \in Known : row'[j] = row[j]
        /\ Waiting' = Waiting
    BY <1>d, <2>1, <2>2 DEF Known
  <2> QED
    BY <1>e, <1>f, <2>5, <2>6, <2>7, <2>8, <2>9 DEF CrashInv
<1>2. ASSUME NEW r \in Requests, NEW i \in Jobs, Replay(r, i)
      PROVE  CrashInv'
  BY <1>2, SpendUnbarred DEF Replay, CrashInv, Barred, Disturbances
<1>3. ASSUME NEW r \in Requests, Enqueue(r)
      PROVE  CrashInv'
  <2> DEFINE i == api[r]
  <2>1. /\ i # NoJob /\ pending' = <<i>> \o pending
        /\ api' = [api EXCEPT ![r] = NoJob]
        /\ UNCHANGED <<row, effects, processing, delayed, alive, budget>>
    BY <1>3 DEF Enqueue
  <2>2. i \in Jobs /\ i \in Known /\ ~row[i].old
    BY <1>c, <2>1, PlacedIsKnown DEF CrashInv, HandsFresh
  <2>3. i \notin Waiting /\ \A w \in WorkerIds : i \notin Held(w)
    BY DEF CrashInv, OnePlace
  <2>4. api'[r] = NoJob /\ \A t \in Requests : t # r => api'[t] = api[t] /\ api[t] # i
    BY <1>c, <2>1 DEF CrashInv, OnePlace
  <2>5. Waiting' = Waiting \cup {i} /\ OnePlace'
    <3>1. \A t \in Requests : api'[t] # i
      BY <2>1, <2>4
    <3> HIDE DEF i
    <3> QED
      BY <2>1, <2>2, <2>3, <3>1, PushPlaces DEF CrashInv
  <2>6. Spending' /\ NoRetries' /\ HandsFresh'
    BY <2>1, <2>4 DEF CrashInv, Spending, NoRetries, HandsFresh
  <2>7. ASSUME NEW j \in Jobs PROVE RowInv(j)'
    <3>1. Placed(j) => Placed(j)'
      BY <1>d, <2>1, <2>4, <2>5 DEF Placed
    <3> QED
      BY <1>b, <1>d, <2>1, <3>1, RowStands
  <2>8. \A j \in Waiting' : j \in Waiting \/ (j \in Known /\ ~row[j].old)
    BY <2>2, <2>5
  <2> QED
    BY <1>e, <1>f, <2>1, <2>5, <2>6, <2>7, <2>8 DEF CrashInv
<1>4. ASSUME NEW r \in Requests, RequestDies(r)
      PROVE  CrashInv'
  <2>1. /\ api' = [api EXCEPT ![r] = NoJob] /\ api[r] # NoJob
        /\ Spend("apiCrash")
        /\ UNCHANGED <<row, effects, pending, delayed>>
    BY <1>4 DEF RequestDies
  <2>2. api'[r] = NoJob /\ \A t \in Requests : t # r => api'[t] = api[t]
    BY <1>c, <2>1
  <2>3. Spending' /\ budget'["apiCrash"] < Budget["apiCrash"]
    BY <2>1, SpendUnbarred DEF CrashInv, Disturbances
  <2>4. NoRetries' /\ HandsFresh'
    BY <2>1, <2>2 DEF CrashInv, NoRetries, HandsFresh
  <2>5. OnePlace'
    <3>1. NoJob \notin Waiting /\ \A w \in WorkerIds : NoJob \notin Held(w)
      BY PlacedIsKnown
    <3> QED
      BY <1>d, <2>1, <2>2, <3>1 DEF CrashInv, OnePlace
  <2>6. ASSUME NEW j \in Jobs PROVE RowInv(j)'
    BY <1>b, <1>d, <2>1, <2>3, RowStands DEF Placed
  <2> QED
    BY <1>d, <1>e, <1>f, <2>1, <2>3, <2>4, <2>5, <2>6 DEF CrashInv
<1>5. ASSUME NEW i \in Jobs, GrowOld(i)
      PROVE  CrashInv'
  <2>1. /\ row' = [row EXCEPT ![i].old = TRUE] /\ UNCHANGED <<effects, redis, api>>
        /\ Spend(IF \E r \in Requests : api[r] = i THEN "slow" ELSE "age")
    BY <1>5 DEF GrowOld
  <2>2. (\A r \in Requests : api[r] # i) /\ Spend("age")
    <3>1. ~Spend("slow")
      BY SpendUnbarred DEF CrashInv, Barred, Disturbances
    <3> QED
      BY <2>1, <3>1
  <2>3. Spending' /\ budget'["apiCrash"] = budget["apiCrash"]
    BY <2>2, SpendUnbarred DEF CrashInv, Disturbances
  <2>4. \A j \in Jobs : /\ row'[j].status = row[j].status
                        /\ row'[j].attempts = row[j].attempts
                        /\ row'[j].lease = row[j].lease
                        /\ row[j].old => row'[j].old
                        /\ j # i => row'[j] = row[j]
    BY <1>c, <2>1 DEF Rows
  <2>5. NoRetries' /\ HandsFresh'
    BY <1>c, <2>1, <2>2, <2>3, <2>4 DEF CrashInv, NoRetries, HandsFresh
  <2>6. OnePlace'
    BY <1>d, <2>1 DEF CrashInv, OnePlace
  <2>7. ASSUME NEW j \in Jobs PROVE RowInv(j)'
    <3>1. Placed(j) => Placed(j)'
      BY <1>d, <2>1, <2>3 DEF Placed
    <3> QED
      BY <1>b, <1>d, <2>1, <2>4, <3>1, RowStands
  <2> QED
    BY <1>d, <1>e, <1>f, <2>1, <2>3, <2>4, <2>5, <2>6, <2>7, PlacedIsKnown DEF CrashInv
<1> QED
  BY <1>1, <1>2, <1>3, <1>4, <1>5 DEF ApiStep

\* When one slot moves on, the others keep what they know.
LEMMA SlotMoves ==
  ASSUME TypeInv, CrashInv, NEW s \in Slots, NEW e,
         exec' = [exec EXCEPT ![s] = e], proc' = proc,
         exec[s].pc # "idle", e.pc = "idle" \/ e.job = Job(s),
         SlotInv(s)',
         \A i \in Jobs : i # Job(s) => /\ row'[i].status = row[i].status
                                       /\ row'[i].lease = row[i].lease,
         \A w \in WorkerIds : \A i \in Held(w) : i # Job(s) => i \in Held(w)'
  PROVE  SlotsApart' /\ \A t \in Slots : SlotInv(t)'
<1>1. exec'[s] = e /\ \A t \in Slots : t # s => exec'[t] = exec[t]
  BY DEF TypeInv, TypeOK, WorkerTypeOK
<1>2. SlotsApart'
  BY <1>1 DEF CrashInv, SlotsApart, Job
<1>3. ASSUME NEW t \in Slots, t # s
      PROVE  SlotInv(t)'
  <2>1. exec[t].pc # "idle" => Job(t) # Job(s) /\ Job(t) \in Jobs
    BY <1>3 DEF CrashInv, SlotsApart, TypeInv, Assigned, SlotAssigned
  <2>2. SlotInv(t) /\ HolderOf(t) \in WorkerIds /\ exec'[t] = exec[t]
    BY <1>1, <1>3, IdOfAssumption, ProcOfAssumption DEF CrashInv, HolderOf
  <2> QED
    BY <2>1, <2>2 DEF SlotInv, Job, Beating, HolderOf
<1> QED
  BY <1>2, <1>3

\* BLMOVE, answered or not: nothing is lost on the way, and no list of a gone
\* process grows.
LEMMA TakeKeeps ==
  ASSUME CrashesOnly, TypeInv, GhostInv, CrashInv, NEW p \in Procs, Beating(p),
         TakeTail(IdOf[p]), UNCHANGED <<row, effects, delayed, alive, proc, stranded, api, sched>>,
         Spending', budget'["apiCrash"] = budget["apiCrash"],
         \A s \in Slots : exec[s].pc # "idle" => exec'[s] = exec[s],
         SlotsApart' /\ \A s \in Slots : SlotInv(s)'
  PROVE  CrashInv'
<1> DEFINE w == IdOf[p]
<1>1. w \in WorkerIds /\ ~Gone(w) /\ Attended(w)
  BY IdOfAssumption, GoneIsNotBeating DEF Attended
<1>2. /\ Last(pending) \in Waiting
      /\ Waiting' = Waiting \ {Last(pending)}
      /\ Held(w)' = Held(w) \cup {Last(pending)}
      /\ \A v \in WorkerIds : v # w => processing'[v] = processing[v] /\ Held(v)' = Held(v)
      /\ OnePlace'
  BY <1>1, TakePlaces DEF CrashInv
<1> HIDE DEF w
<1>3. \A v : /\ (Gone(v)' <=> Gone(v)) /\ (Started(v)' <=> Started(v))
             /\ (Attended(v)' <=> Attended(v))
  BY DEF Gone, Started, Attended, Beating
<1>4. NoRetries' /\ HandsFresh'
  BY DEF CrashInv, NoRetries, HandsFresh
<1>5. OneLife'
  <2>1. Started(w)
    BY DEF Started, Beating, w
  <2> QED
    BY <1>2, <1>3, <2>1 DEF CrashInv, OneLife, Beating
<1>6. ASSUME NEW j \in Jobs PROVE RowInv(j)'
  <2>1. Placed(j) => Placed(j)'
    <3>1. j \in Waiting => j \in Waiting' \/ \E v \in WorkerIds : j \in Held(v)'
      BY <1>1, <1>2
    <3>2. \A v \in WorkerIds : j \in Held(v) => j \in Held(v)'
      BY <1>2
    <3> QED
      BY <3>1, <3>2 DEF Placed
  <2>2. \A s \in Slots : RunBy(s, j) => RunBy(s, j)'
    BY DEF RunBy, Job
  <2>3. \A v \in WorkerIds : j \in Held(v) => j \in Held(v)'
    BY <1>2
  <2> QED
    BY <1>3, <2>1, <2>2, <2>3, RowStands
<1>7. \A q \in Procs : BootInv(q)'
  BY <1>1, <1>2, BootsStand
<1>8. \A d \in Schedulers : PassInv(d)'
  <2>1. \A v \in WorkerIds : Gone(v) => Gone(v)' /\ processing'[v] = processing[v]
    BY <1>1, <1>2, <1>3
  <2>2. \A v \in WorkerIds : Held(v)' \subseteq Held(v) \cup Waiting
    BY <1>2
  <2>3. \A j \in Waiting' : j \in Waiting
    BY <1>2
  <2> QED
    BY <1>3, <2>1, <2>2, <2>3, PassesStand
<1> QED
  BY <1>2, <1>4, <1>5, <1>6, <1>7, <1>8 DEF CrashInv

\* A slot that takes a job (worker/index.ts:358-382) keeps the invariant.
LEMMA TakeCrashStep ==
  ASSUME CrashesOnly, TypeInv, GhostInv, CrashInv, NEW s \in Slots, Take(s),
         UNCHANGED <<api, sched>>
  PROVE  CrashInv'
<1> DEFINE w == HolderOf(s)
<1>a. w \in WorkerIds /\ ProcOf[s] \in Procs /\ exec \in [Slots -> Execs]
  BY IdOfAssumption, ProcOfAssumption DEF TypeInv, TypeOK, WorkerTypeOK, HolderOf
<1> DEFINE e == [IdleExec EXCEPT !.pc = "claim", !.job = Last(pending)]
<1>1. /\ exec' = [exec EXCEPT ![s] = e] /\ exec[s].pc = "idle" /\ Beating(ProcOf[s])
      /\ TakeTail(w) /\ UNCHANGED <<row, effects, delayed, alive, budget, proc, stranded>>
  BY DEF Take, Beating, postgres
<1>2. e.pc = "claim" /\ e.job = Last(pending)
  BY DEF IdleExec
<1> HIDE DEF e
<1>3. exec'[s] = e /\ \A t \in Slots : t # s => exec'[t] = exec[t]
  BY <1>a, <1>1
<1>4. /\ Last(pending) \in Waiting
      /\ Held(w)' = Held(w) \cup {Last(pending)}
      /\ \A v \in WorkerIds : v # w => Held(v)' = Held(v)
  BY <1>a, <1>1, TakePlaces DEF CrashInv
<1>5. \A t \in Slots : exec[t].pc # "idle" => Job(t) # Last(pending)
  <2>1. \A t \in Slots : HolderOf(t) \in WorkerIds
    BY IdOfAssumption, ProcOfAssumption DEF HolderOf
  <2> QED
    BY <1>4, <2>1 DEF CrashInv, SlotInv, OnePlace
<1>6. SlotsApart'
  BY <1>2, <1>3, <1>5 DEF CrashInv, SlotsApart, Job
<1>7. ASSUME NEW t \in Slots PROVE SlotInv(t)'
  <2>1. CASE t = s
    BY <1>1, <1>2, <1>3, <1>4, <2>1 DEF SlotInv, Job, Beating, HolderOf
  <2>2. CASE t # s
    <3>1. SlotInv(t) /\ exec'[t] = exec[t] /\ Held(HolderOf(t)) \subseteq Held(HolderOf(t))'
      <4>1. HolderOf(t) \in WorkerIds /\ HolderOf(t)' = HolderOf(t)
        BY IdOfAssumption, ProcOfAssumption DEF HolderOf
      <4>2. Held(HolderOf(t)) \subseteq Held(HolderOf(t))'
        BY <1>4, <4>1 DEF HolderOf, Held
      <4> QED
        BY <1>3, <2>2, <4>2 DEF CrashInv
    <3> QED
      BY <1>1, <3>1 DEF SlotInv, Job, Beating, HolderOf
  <2> QED
    BY <2>1, <2>2
<1>8. /\ TakeTail(IdOf[ProcOf[s]]) /\ Spending' /\ budget'["apiCrash"] = budget["apiCrash"]
      /\ \A t \in Slots : exec[t].pc # "idle" => exec'[t] = exec[t]
  BY <1>1, <1>3 DEF HolderOf, CrashInv, Spending
<1> QED
  BY <1>a, <1>1, <1>6, <1>7, <1>8, TakeKeeps

\* So does an execution of job j that goes on (worker/index.ts:54-203).
LEMMA SlotCrashStep ==
  ASSUME CrashesOnly, TypeInv, GhostInv, CrashInv,
         NEW s \in Slots, NEW j, Job(s) = j,
         SlotStep(s), ~Take(s), UNCHANGED <<api, sched>>
  PROVE  CrashInv'
<1> USE DEF postgres, redis, stores
<1> DEFINE w == HolderOf(s)
<1>a. /\ row \in [Jobs -> Rows] /\ effects \in [Jobs -> Seq(Nat)]
      /\ exec \in [Slots -> Execs]
      /\ w \in WorkerIds /\ ProcOf[s] \in Procs
  BY IdOfAssumption, ProcOfAssumption
  DEF TypeInv, TypeOK, StoresTypeOK, WorkerTypeOK, HolderOf
<1>b. SlotInv(s) /\ (exec[s].pc # "idle" => j \in Held(w) /\ j \in Known /\ j \in Jobs
                                         /\ ~Gone(w) /\ Attended(w))
  BY <1>a, HolderIsNotGone, HolderIsAttended, PlacedIsKnown DEF CrashInv, SlotInv
<1>c. ASSUME NEW e, exec' = [exec EXCEPT ![s] = e]
      PROVE  exec'[s] = e /\ \A t \in Slots : t # s => exec'[t] = exec[t]
  BY <1>a, <1>c
<1>d. ASSUME exec[s].pc # "idle"
      PROVE  /\ j \notin Waiting /\ \A r \in Requests : api[r] # j
             /\ \A v \in WorkerIds : j \in Held(v) => v = w
  BY <1>a, <1>b, <1>d DEF CrashInv, OnePlace
\* what an execution leaves alone as long as it stays out of Redis
<1>e. ASSUME exec[s].pc # "idle", UNCHANGED <<redis, budget, proc, stranded>>,
             NEW e, exec' = [exec EXCEPT ![s] = e], e.pc # "run" \/ e.job = j,
             \A i \in Jobs : i # j => row'[i] = row[i] /\ effects'[i] = effects[i],
             row'[j].old <=> row[j].old, row'[j].status # "retrying",
             RowInv(j)', SlotsApart' /\ \A t \in Slots : SlotInv(t)'
      PROVE  CrashInv'
  <2>1. /\ Waiting' = Waiting /\ \A v \in WorkerIds : Held(v)' = Held(v)
        /\ \A v : /\ (Gone(v)' <=> Gone(v)) /\ (Started(v)' <=> Started(v))
                  /\ (Attended(v)' <=> Attended(v))
    BY <1>e DEF Waiting, Held, Gone, Started, Attended, Beating
  <2>2. Spending' /\ NoRetries'
    BY <1>e DEF CrashInv, Spending, NoRetries
  <2>3. OnePlace' /\ OneLife'
    BY <1>e, <2>1 DEF CrashInv, OnePlace, OneLife, Beating
  <2>4. HandsFresh'
    <3>1. \A r \in Requests : api[r] # NoJob => row'[api[r]] = row[api[r]]
      BY <1>d, <1>e, PlacedIsKnown
    <3> QED
      BY <3>1 DEF CrashInv, HandsFresh
  <2>5. ASSUME NEW i \in Jobs, i # j PROVE RowInv(i)'
    <3>1. Placed(i) => Placed(i)'
      BY <1>e, <2>1 DEF Placed
    <3>2. \A t \in Slots : RunBy(t, i) => RunBy(t, i)'
      BY <1>c, <1>e, <2>5 DEF RunBy, Job
    <3> QED
      BY <1>e, <2>1, <2>5, <3>1, <3>2, RowStands
  <2>6. \A d \in Schedulers : PassInv(d)'
    <3>1. \A v \in WorkerIds : Gone(v) => j \notin Held(v)
      BY <1>b, <1>d, <1>e
    <3>2. \A v \in WorkerIds : Held(v) \subseteq Jobs
      BY PlacedIsKnown
    <3>3. \A i \in Known : row[i].old => row'[i].old
      BY <1>e DEF Known
    <3>4. \A v \in WorkerIds : Gone(v) => \A i \in Held(v) : /\ row'[i].status = row[i].status
                                                             /\ row'[i].attempts = row[i].attempts
      BY <1>e, <3>1, <3>2
    <3> HIDE DEF w
    <3> QED
      BY <1>e, <2>1, <3>3, <3>4, PassesStand
  <2>7. \A p \in Procs : BootInv(p)'
    <3>1. \A v \in WorkerIds : ~Attended(v) => j \notin Held(v) /\ Held(v) \subseteq Jobs
      BY <1>b, <1>d, <1>e, PlacedIsKnown
    <3>2. \A v \in WorkerIds : ~Attended(v) => \A i \in Held(v) : row'[i].status = row[i].status
      BY <1>e, <3>1
    <3> QED
      BY <1>e, <2>1, <3>2, BootsStand
  <2> QED
    BY <1>e, <2>2, <2>3, <2>4, <2>5, <2>6, <2>7 DEF CrashInv
<1>2. CASE Claim(s)
  <2>1. exec[s].pc = "claim" /\ UNCHANGED <<effects, redis, budget, proc, stranded>>
    BY <1>2 DEF Claim
  <2>2. row[j] \in Rows /\ row[j].status # "none" /\ row[j].status # "retrying" /\ RowInv(j)
    BY <1>a, <1>b, <2>1 DEF Known, Recorded, CrashInv, NoRetries
  <2>3. CASE Claimable(row[j])
    <3> DEFINE e == [pc |-> "run", job |-> j,
                     lease |-> row'[j].lease, attempts |-> row'[j].attempts]
    <3>1. row' = [row EXCEPT ![j] = ClaimedRow(row[j])] /\ exec' = [exec EXCEPT ![s] = e]
      BY <1>2, <2>3 DEF Claim
    <3>2. e.pc = "run" /\ e.job = j /\ e.lease = row'[j].lease
      OBVIOUS
    <3> HIDE DEF e
    <3>3. /\ row'[j].status = "running" /\ row'[j].attempts = row[j].attempts + 1
          /\ (row'[j].old <=> row[j].old)
          /\ \A i \in Jobs : i # j => row'[i] = row[i]
      <4>1. row'[j] = ClaimedRow(row[j])
        BY <1>a, <1>b, <2>1, <3>1
      <4> QED
        BY <1>a, <2>2, <3>1, <4>1 DEF ClaimedRow, Rows
    <3>4. /\ row[j].status = "queued" /\ row[j].attempts \in Nat
          /\ NoRestarts => row[j].attempts < MaxAttempts
      BY <2>2, <2>3 DEF Claimable, RowInv, RowFits, Rows
    <3>5. exec'[s] = e /\ SlotInv(s)'
      <4>1. exec'[s] = e
        BY <1>c, <3>1
      <4>2. Held(w)' = Held(w)
        BY <2>1 DEF Held, HolderOf
      <4> QED
        BY <1>b, <2>1, <3>2, <3>3, <4>1, <4>2 DEF SlotInv, Job, Beating, HolderOf
    <3>6. SlotsApart' /\ \A t \in Slots : SlotInv(t)'
      <4>1. \A v \in WorkerIds : Held(v)' = Held(v)
        BY <2>1 DEF Held
      <4> QED
        BY <2>1, <3>1, <3>2, <3>3, <3>5, <4>1, SlotMoves
    <3>7. RowInv(j)'
      <4>1. RunningHeld(j)'
        <5>1. j \in Held(w)' /\ RunBy(s, j)'
          BY <1>b, <2>1, <3>2, <3>5 DEF RunBy, Job, Held
        <5> QED
          BY <1>a, <5>1 DEF RunningHeld, HolderOf
      <4>2. RowFits(j)'
        BY <2>1, <2>2, <3>3, <3>4, MaxAttemptsAssumption DEF RowInv, RowFits
      <4> QED
        BY <3>3, <4>1, <4>2 DEF RowInv
    <3> QED
      BY <1>e, <2>1, <3>1, <3>2, <3>3, <3>6, <3>7
  <2>4. CASE ~Claimable(row[j])
    <3> DEFINE e == [exec[s] EXCEPT !.pc = "release"]
    <3>1. row' = row /\ exec' = [exec EXCEPT ![s] = e]
      BY <1>2, <2>4 DEF Claim, Goto
    <3>2. e.pc = "release" /\ e.job = j
      BY <1>a DEF Execs, Job
    <3> HIDE DEF e
    <3>3. row[j].status # "running"
      <4> SUFFICES ASSUME row[j].status = "running" PROVE FALSE
        OBVIOUS
      <4>1. PICK v \in WorkerIds : /\ j \in Held(v)
                                   /\ ~Attended(v) \/ \E t \in Slots : HolderOf(t) = v /\ RunBy(t, j)
        BY <2>2 DEF RowInv, RunningHeld
      <4>2. v = w /\ Attended(v)
        BY <1>b, <1>d, <2>1, <4>1
      <4>3. PICK t \in Slots : RunBy(t, j)
        BY <4>1, <4>2
      <4>4. t = s
        BY <2>1, <4>3 DEF CrashInv, SlotsApart, RunBy
      <4> QED
        BY <2>1, <4>3, <4>4 DEF RunBy
    <3>4. row[j].status \in Terminal
      BY <2>2, <2>4, <3>3 DEF Claimable, Terminal, Rows, Statuses
    <3>5. exec'[s] = e /\ SlotInv(s)'
      <4>1. exec'[s] = e
        BY <1>c, <3>1
      <4>2. Held(w)' = Held(w)
        BY <2>1 DEF Held, HolderOf
      <4> QED
        BY <1>b, <2>1, <3>1, <3>2, <3>4, <4>1, <4>2 DEF SlotInv, Job, Beating, HolderOf
    <3>6. SlotsApart' /\ \A t \in Slots : SlotInv(t)'
      <4>1. \A v \in WorkerIds : Held(v)' = Held(v)
        BY <2>1 DEF Held
      <4> QED
        BY <2>1, <3>1, <3>2, <3>5, <4>1, SlotMoves
    <3>7. RowInv(j)'
      <4>1. row[j].status # "running" /\ row[j].status # "queued"
        BY <3>4 DEF Terminal
      <4> QED
        BY <2>1, <2>2, <3>1, <4>1 DEF RowInv, RunningHeld, RowFits
    <3> QED
      BY <1>e, <2>1, <2>2, <3>1, <3>2, <3>6, <3>7
  <2> QED
    BY <2>3, <2>4
<1>3. CASE Succeed(s)
  <2> DEFINE e == [exec[s] EXCEPT !.pc = "release"]
  <2>1. /\ exec[s].pc = "run" /\ RecordSuccess(s) /\ exec' = [exec EXCEPT ![s] = e]
        /\ UNCHANGED <<redis, budget, proc, stranded>>
    BY <1>3 DEF Succeed, Goto
  <2>2. e.pc = "release" /\ e.job = j
    BY <1>a DEF Execs, Job
  <2> HIDE DEF e
  <2>3. row[j].status = "running" /\ row[j].lease = exec[s].lease /\ RowInv(j)
    BY <1>b, <2>1 DEF SlotInv, CrashInv
  <2>4. /\ row' = [row EXCEPT ![j] = SucceededRow(row[j])]
        /\ effects' = [effects EXCEPT ![j] = Append(effects[j], exec[s].lease)]
    BY <2>1, <2>3 DEF RecordSuccess, Owns
  <2>5. /\ row'[j].status = "succeeded" /\ (row'[j].old <=> row[j].old)
        /\ \A i \in Jobs : i # j => row'[i] = row[i] /\ effects'[i] = effects[i]
    <3>1. row'[j] = SucceededRow(row[j]) /\ row[j] \in Rows
      BY <1>a, <1>b, <2>1, <2>4
    <3> QED
      BY <1>a, <2>4, <3>1 DEF SucceededRow, Rows
  <2>6. Len(effects'[j]) = 1
    <3>1. Len(effects[j]) = 0 /\ effects[j] \in Seq(Nat) /\ exec[s].lease \in Nat
      BY <1>a, <1>b, <2>1, <2>3 DEF RowInv, RowFits, Execs
    <3>2. effects'[j] = Append(effects[j], exec[s].lease)
      BY <1>a, <1>b, <2>1, <2>4
    <3> QED
      BY <3>1, <3>2, AppendProperties
  <2>7. exec'[s] = e /\ SlotInv(s)'
    <3>1. exec'[s] = e
      BY <1>c, <2>1
    <3>2. Held(w)' = Held(w)
      BY <2>1 DEF Held, HolderOf
    <3> QED
      BY <1>b, <2>1, <2>2, <2>5, <3>1, <3>2 DEF SlotInv, Job, Beating, HolderOf, Terminal
  <2>8. SlotsApart' /\ \A t \in Slots : SlotInv(t)'
    <3>1. \A v \in WorkerIds : Held(v)' = Held(v)
      BY <2>1 DEF Held
    <3> QED
      BY <2>1, <2>2, <2>5, <2>7, <3>1, SlotMoves
  <2>9. RowInv(j)'
    BY <2>5, <2>6 DEF RowInv, RunningHeld, RowFits
  <2> QED
    BY <1>e, <2>1, <2>2, <2>5, <2>8, <2>9
<1>4. CASE LoseCommitAnswer(s) \/ FailToCommit(s) \/ Abandon(s)
  BY <1>4, SpendUnbarred
  DEF LoseCommitAnswer, FailToCommit, Abandon, CrashInv, Barred, Disturbances
<1>5. CASE Bury(s) \/ Park(s) \/ Schedule(s)
  BY <1>5, <1>b DEF Bury, Park, Schedule, Failing, SlotInv, CrashesOnly
<1>6. CASE Release(s)
  <2>1. /\ exec[s].pc = "release" /\ exec' = [exec EXCEPT ![s] = IdleExec]
        /\ processing' = [processing EXCEPT ![w] = DropFromHead(processing[w], j)]
        /\ UNCHANGED <<row, effects, pending, delayed, alive, budget, proc, stranded>>
    BY <1>6 DEF Release, FreeSlot
  <2>2. IdleExec.pc = "idle"
    BY DEF IdleExec
  <2>3. exec'[s] = IdleExec /\ \A t \in Slots : t # s => exec'[t] = exec[t]
    BY <1>c, <2>1
  <2>4. /\ Held(w)' = Held(w) \ {j} /\ Waiting' = Waiting
        /\ \A v \in WorkerIds : v # w => processing'[v] = processing[v] /\ Held(v)' = Held(v)
        /\ OnePlace'
    BY <1>a, <2>1, DropPlaces DEF CrashInv, Waiting
  <2>5. row[j].status \in Terminal /\ RowInv(j)
    BY <1>b, <2>1 DEF SlotInv, CrashInv
  <2>6. \A v : /\ (Gone(v)' <=> Gone(v)) /\ (Started(v)' <=> Started(v))
               /\ (Attended(v)' <=> Attended(v))
    BY <2>1 DEF Gone, Started, Attended, Beating
  <2>7. Spending' /\ NoRetries' /\ HandsFresh' /\ OneLife'
    BY <2>1, <2>4, <2>6 DEF CrashInv, Spending, NoRetries, HandsFresh, OneLife, Beating
  <2>8. SlotsApart' /\ \A t \in Slots : SlotInv(t)'
    <3>1. SlotInv(s)'
      BY <2>2, <2>3 DEF SlotInv
    <3>2. \A v \in WorkerIds : \A i \in Held(v) : i # j => i \in Held(v)'
      BY <2>4
    <3> QED
      BY <2>1, <2>2, <3>1, <3>2, SlotMoves
  <2>9. ASSUME NEW i \in Jobs PROVE RowInv(i)'
    <3>1. CASE i = j
      <4>1. row'[i].status # "running" /\ row'[i].status # "queued"
        BY <2>1, <2>5, <3>1 DEF Terminal
      <4> QED
        BY <2>1, <2>5, <3>1, <4>1 DEF RowInv, RunningHeld, RowFits
    <3>2. CASE i # j
      <4>1. Placed(i) => Placed(i)'
        BY <2>1, <2>4, <3>2 DEF Placed
      <4>2. \A t \in Slots : RunBy(t, i) => RunBy(t, i)'
        BY <2>1, <2>3 DEF RunBy, Job
      <4>3. \A v \in WorkerIds : i \in Held(v) => i \in Held(v)'
        BY <2>4, <3>2
      <4> QED
        BY <2>1, <2>6, <4>1, <4>2, <4>3, RowStands
    <3> QED
      BY <3>1, <3>2
  <2>10. \A d \in Schedulers : PassInv(d)'
    <3>1. \A v \in WorkerIds : Gone(v) => Gone(v)' /\ processing'[v] = processing[v]
      BY <1>b, <2>1, <2>4, <2>6
    <3>2. \A v \in WorkerIds : Held(v)' \subseteq Held(v) \cup Waiting
      BY <2>4
    <3> QED
      BY <2>1, <2>4, <2>6, <3>1, <3>2, PassesStand
  <2>11. \A p \in Procs : BootInv(p)'
    <3>1. \A v \in WorkerIds : ~Attended(v) => Held(v)' = Held(v)
      BY <1>b, <2>1, <2>4
    <3> QED
      BY <2>1, <3>1, BootsStand
  <2> QED
    BY <2>4, <2>7, <2>8, <2>9, <2>10, <2>11 DEF CrashInv
<1> QED
  BY <1>2, <1>3, <1>4, <1>5, <1>6 DEF SlotStep

\* A process that starts, stops, beats or dies touches no queue and no row: the
\* slots it gives up are those of a process that is gone.
LEMMA ProcessTurns ==
  ASSUME CrashesOnly, TypeInv, GhostInv, CrashInv,
         UNCHANGED <<row, effects, pending, processing, delayed, api, sched>>,
         Spending', budget'["apiCrash"] = budget["apiCrash"], OneLife',
         \A p \in Procs : BootInv(p)',
         Schedulers = {} \/ \A w \in WorkerIds : /\ Started(w) => Started(w)'
                                                 /\ Gone(w) => Gone(w)',
         \A w \in WorkerIds : Attended(w)' => Attended(w) \/ Held(w) = {},
         \A s \in Slots : \/ exec'[s] = exec[s]
                          \/ exec'[s].pc = "idle" /\ (exec[s].pc = "idle" \/ ~Attended(HolderOf(s))'),
         \A s \in Slots : exec'[s].pc # "idle" => Beating(ProcOf[s])'
  PROVE  CrashInv'
<1>1. Waiting' = Waiting /\ \A w \in WorkerIds : Held(w)' = Held(w)
  BY DEF Waiting, Held
<1>2. NoRetries' /\ HandsFresh'
  BY DEF CrashInv, NoRetries, HandsFresh
<1>3. OnePlace'
  BY <1>1 DEF CrashInv, OnePlace
<1>4. \A s \in Slots : exec'[s].pc # "idle" => exec'[s] = exec[s] /\ exec[s].pc # "idle"
  OBVIOUS
<1>5. SlotsApart'
  BY <1>4 DEF CrashInv, SlotsApart, Job
<1>6. ASSUME NEW s \in Slots PROVE SlotInv(s)'
  <2>1. HolderOf(s) \in WorkerIds /\ SlotInv(s)
    BY IdOfAssumption, ProcOfAssumption DEF HolderOf, CrashInv
  <2>2. Held(HolderOf(s))' = Held(HolderOf(s))
    BY DEF Held, HolderOf
  <2> QED
    BY <1>4, <2>1, <2>2 DEF SlotInv, Job
<1>7. ASSUME NEW j \in Jobs PROVE RowInv(j)'
  <2>1. Placed(j) => Placed(j)'
    BY <1>1 DEF Placed
  <2>2. \A s \in Slots : RunBy(s, j) => RunBy(s, j)' \/ ~Attended(HolderOf(s))'
    BY DEF RunBy, Job
  <2> QED
    BY <1>1, <2>1, <2>2, RowStands
<1>8. \A d \in Schedulers : PassInv(d)'
  <2>1. CASE Schedulers = {}
    BY <2>1
  <2>2. CASE Schedulers # {}
    <3>1. \A w \in WorkerIds : (Started(w) => Started(w)') /\ (Gone(w) => Gone(w)')
      BY <2>2
    <3>2. /\ \A j \in Waiting' : j \in Waiting
          /\ \A w \in WorkerIds : Held(w)' \subseteq Held(w) \cup Waiting
      BY <1>1
    <3> QED
      BY <3>1, <3>2, PassesStand
  <2> QED
    BY <2>1, <2>2
<1> QED
  BY <1>2, <1>3, <1>5, <1>6, <1>7, <1>8 DEF CrashInv

\* UPDATE jobs ... WHERE id = ANY(stranded) AND status = 'running'
\* (worker/index.ts:256-261): what the list still holds is back in the queue.
LEMMA RequeueKeeps ==
  ASSUME CrashesOnly, TypeInv, GhostInv, CrashInv, NEW p \in Procs, RequeueOwn(p),
         UNCHANGED <<api, sched>>,
         ~NoRestarts, Schedulers = {}, ~Attended(IdOf[p]),
         \A q \in Procs : q # p => IdOf[q] # IdOf[p]
  PROVE  CrashInv'
<1> DEFINE w == IdOf[p]
<1>1. /\ proc[p] = "requeue" /\ stranded[p] = Held(w) /\ w \in WorkerIds
      /\ proc \in [Procs -> ProcStates] /\ row \in [Jobs -> Rows]
      /\ stranded \in [Procs -> SUBSET Jobs]
  BY IdOfAssumption
  DEF CrashInv, BootInv, RequeueOwn, TypeInv, TypeOK, StoresTypeOK, WorkerTypeOK
<1>2. /\ proc' = [proc EXCEPT ![p] = "moveback"]
      /\ stranded' = [stranded EXCEPT ![p] = {}]
      /\ row' = [j \in Jobs |-> IF j \in Held(w) /\ Stranded(row[j])
                               THEN RescuedRow(row[j]) ELSE row[j]]
      /\ UNCHANGED <<effects, pending, processing, delayed, alive, budget, exec>>
  BY <1>1 DEF RequeueOwn, Move, redis
<1>3. /\ proc'[p] = "moveback" /\ \A q \in Procs : q # p => /\ proc'[q] = proc[q]
                                                            /\ stranded'[q] = stranded[q]
      /\ \A q \in Procs : Beating(q)' <=> Beating(q)
      /\ \A v \in WorkerIds : Attended(v)' <=> Attended(v)
  <2>1. proc'[p] = "moveback" /\ \A q \in Procs : q # p => /\ proc'[q] = proc[q]
                                                           /\ stranded'[q] = stranded[q]
    BY <1>1, <1>2
  <2>2. \A q \in Procs : Beating(q)' <=> Beating(q)
    BY <1>1, <2>1 DEF Beating
  <2> QED
    BY <2>1, <2>2 DEF Attended
<1>4. Waiting' = Waiting /\ \A v \in WorkerIds : Held(v)' = Held(v)
  BY <1>2 DEF Waiting, Held
<1>5. \A j \in Jobs :
        \/ row'[j] = row[j] /\ (j \in Held(w) => row[j].status # "running")
        \/ /\ j \in Held(w) /\ row[j].status = "running" /\ row'[j].status = "queued"
           /\ (row'[j].old <=> row[j].old)
  BY <1>1, <1>2 DEF Stranded, RescuedRow, Rows
<1>6. \A j \in Jobs : j \notin Held(w) => row'[j] = row[j]
  BY <1>5
<1>7. Held(w) \subseteq Jobs /\ \A v \in WorkerIds : Held(v) \subseteq Jobs
  BY <1>1, PlacedIsKnown
<1>8. Spending' /\ NoRetries' /\ OneLife'
  BY <1>2, <1>3, <1>5 DEF CrashInv, Spending, NoRetries, OneLife
<1>9. OnePlace' /\ HandsFresh'
  <2>1. \A r \in Requests : api[r] # NoJob => row'[api[r]] = row[api[r]]
    BY <1>1, <1>6, PlacedIsKnown DEF CrashInv, OnePlace
  <2> QED
    BY <1>2, <1>4, <2>1 DEF CrashInv, OnePlace, HandsFresh
<1>10. \A v \in WorkerIds : v # w => \A j \in Held(v) : row'[j] = row[j]
  <2>1. \A v \in WorkerIds : v # w => Held(v) \cap Held(w) = {}
    BY <1>1 DEF CrashInv, OnePlace
  <2> QED
    BY <1>6, <1>7, <2>1
<1>11. SlotsApart' /\ \A s \in Slots : SlotInv(s)'
  BY <1>2, <1>3, <1>4, <1>10, SlotsStand
<1>12. ASSUME NEW q \in Procs PROVE BootInv(q)'
  <2>1. CASE q = p
    <3>1. \A j \in Held(w) : row'[j].status # "running"
      BY <1>5, <1>7
    <3> QED
      BY <1>1, <1>3, <1>4, <2>1, <3>1 DEF BootInv, Held
  <2>2. CASE q # p
    <3>1. IdOf[q] \in WorkerIds /\ IdOf[q] # w /\ BootInv(q)
      BY <2>2, IdOfAssumption DEF CrashInv
    <3> QED
      BY <1>2, <1>3, <1>10, <2>2, <3>1 DEF BootInv, Held
  <2> QED
    BY <2>1, <2>2
<1>13. ASSUME NEW j \in Jobs PROVE RowInv(j)'
  <2>1. RowInv(j) /\ (Placed(j) => Placed(j)') /\ \A s \in Slots : RunBy(s, j) => RunBy(s, j)'
    BY <1>2, <1>4 DEF CrashInv, Placed, RunBy, Job
  <2>2. CASE row'[j] = row[j]
    BY <1>2, <1>3, <1>4, <2>1, <2>2, RowStands
  <2>3. CASE j \in Held(w) /\ row[j].status = "running" /\ row'[j].status = "queued"
    <3>1. Placed(j)'
      BY <1>1, <1>4, <2>3 DEF Placed
    <3> QED
      BY <1>2, <2>1, <2>3, <3>1 DEF RowInv, RunningHeld, RowFits
  <2> QED
    BY <1>5, <2>2, <2>3
<1> QED
  BY <1>8, <1>9, <1>11, <1>12, <1>13 DEF CrashInv

\* while (LMOVE processing pending RIGHT RIGHT) !== null
\* (worker/index.ts:263-267): what it moves is queued, or finished.
LEMMA MoveBackKeeps ==
  ASSUME CrashesOnly, TypeInv, GhostInv, CrashInv, NEW p \in Procs, MoveBackOwn(p),
         UNCHANGED <<api, sched>>, processing[IdOf[p]] # <<>>,
         ~NoRestarts, Schedulers = {}, ~Attended(IdOf[p]),
         \A q \in Procs : q # p => IdOf[q] # IdOf[p]
  PROVE  CrashInv'
<1> DEFINE w == IdOf[p]
           i == Last(processing[w])
<1>1. /\ proc[p] = "moveback" /\ w \in WorkerIds /\ MoveTailToTail(w)
      /\ \A j \in Held(w) : row[j].status # "running"
      /\ UNCHANGED <<row, effects, delayed, alive, budget, proc, stranded, exec>>
  BY IdOfAssumption DEF CrashInv, BootInv, MoveBackOwn, postgres
<1>2. /\ i \in Held(w) /\ Waiting' = Waiting \cup {i} /\ Held(w)' = Held(w) \ {i}
      /\ \A v \in WorkerIds : v # w => processing'[v] = processing[v] /\ Held(v)' = Held(v)
      /\ OnePlace'
  BY <1>1, MovePlaces DEF CrashInv
<1> HIDE DEF w, i
<1>3. \A v : Attended(v)' <=> Attended(v)
  BY <1>1 DEF Attended, Beating
<1>4. Spending' /\ NoRetries' /\ OneLife' /\ HandsFresh'
  BY <1>1 DEF CrashInv, Spending, NoRetries, OneLife, HandsFresh, Beating
<1>5. SlotsApart' /\ \A s \in Slots : SlotInv(s)'
  <2>1. \A v \in WorkerIds : Attended(v) => v # w
    BY DEF w
  <2>2. \A q \in Procs : Beating(q) => Beating(q)'
    BY <1>1 DEF Beating
  <2> QED
    BY <1>1, <1>2, <2>1, <2>2, SlotsStand
<1>6. ASSUME NEW q \in Procs PROVE BootInv(q)'
  <2>1. CASE q = p
    BY <1>1, <1>2, <2>1 DEF BootInv, Held, w
  <2>2. CASE q # p
    <3>1. IdOf[q] \in WorkerIds /\ IdOf[q] # w /\ BootInv(q)
      BY <2>2, IdOfAssumption DEF CrashInv, w
    <3> QED
      BY <1>1, <1>2, <3>1 DEF BootInv, Held
  <2> QED
    BY <2>1, <2>2
<1>7. ASSUME NEW j \in Jobs PROVE RowInv(j)'
  <2>1. Placed(j) => Placed(j)'
    BY <1>1, <1>2 DEF Placed
  <2>2. CASE j = i
    <3>1. RowInv(j) /\ row[j].status # "running"
      BY <1>1, <1>2, <2>2 DEF CrashInv
    <3> QED
      BY <1>1, <2>1, <3>1 DEF RowInv, RunningHeld, RowFits
  <2>3. CASE j # i
    <3>1. \A s \in Slots : RunBy(s, j) => RunBy(s, j)'
      BY <1>1 DEF RunBy, Job
    <3>2. \A v \in WorkerIds : j \in Held(v) => j \in Held(v)'
      BY <1>2, <2>3
    <3> QED
      BY <1>1, <1>3, <2>1, <3>1, <3>2, RowStands
  <2> QED
    BY <2>2, <2>3
<1> QED
  BY <1>2, <1>4, <1>5, <1>6, <1>7 DEF CrashInv

\* Every step of a worker process outside its slots keeps the invariant
\* (worker/index.ts:206-415, heartbeat.ts).
LEMMA ProcCrashStep ==
  ASSUME CrashesOnly, TypeInv, GhostInv, CrashInv, NEW p \in Procs, ProcStep(p),
         UNCHANGED <<api, sched>>
  PROVE  CrashInv'
<1> USE DEF postgres, redis, stores, workerVars
<1>a. /\ proc \in [Procs -> ProcStates] /\ alive \in [WorkerIds -> BOOLEAN]
      /\ stranded \in [Procs -> SUBSET Jobs]
      /\ exec \in [Slots -> Execs] /\ processing \in [WorkerIds -> Seq(Jobs)]
      /\ \A q \in Procs : IdOf[q] \in WorkerIds
      /\ \A s \in Slots : ProcOf[s] \in Procs
      /\ \A q \in Procs : IdOf[q] = IdOf[p] => q = p
  BY IdOfAssumption, ProcOfAssumption
  DEF TypeInv, TypeOK, StoresTypeOK, WorkerTypeOK, CrashesOnly
<1>b. /\ Spending /\ OneLife /\ (\A q \in Procs : BootInv(q))
      /\ \A s \in Slots : exec[s].pc # "idle" => Beating(ProcOf[s])
  BY DEF CrashInv, SlotInv
<1>c. \A w \in WorkerIds : processing' = processing => Held(w)' = Held(w)
  BY DEF Held
\* before the main loop: no slot is busy, nothing is known of the list
<1>d. ASSUME proc[p] \notin {"up", "draining"}, NEW to \in ProcStates, Move(p, to),
             proc[p] = "down" => ~NoRestarts,
             to \in {"requeue", "moveback"} => ~NoRestarts,
             to \in {"up", "draining"} => alive'[IdOf[p]] /\ Held(IdOf[p]) = {},
             \A w \in WorkerIds : w # IdOf[p] => alive'[w] = alive[w],
             UNCHANGED <<row, effects, pending, processing, delayed, exec>>,
             \A q \in Procs : q # p => stranded'[q] = stranded[q],
             Spending', budget'["apiCrash"] = budget["apiCrash"], BootInv(p)'
      PROVE  CrashInv'
  <2>1. proc'[p] = to /\ \A q \in Procs : q # p => proc'[q] = proc[q]
    BY <1>a, <1>d DEF Move
  <2>2. Schedulers = {} \/ proc[p] # "down"
    BY <1>d DEF CrashesOnly
  <2>3. proc[p] # "down" =>
          \A w \in WorkerIds : (Started(w) => Started(w)') /\ (Gone(w) => Gone(w)')
    BY <1>d, <2>1 DEF Started, Gone
  <2>4. OneLife'
    <3>1. ASSUME NEW q \in Procs, Beating(q)'
          PROVE  alive'[IdOf[q]]
      BY <1>a, <1>b, <1>d, <2>1, <3>1 DEF OneLife, Beating
    <3>2. ASSUME NoRestarts
          PROVE  /\ \A q \in Procs : proc'[q] \notin {"requeue", "moveback"}
                 /\ \A w \in WorkerIds : Held(w)' # {} => Started(w)'
      <4>1. \A q \in Procs : proc'[q] \notin {"requeue", "moveback"}
        BY <1>b, <1>d, <2>1, <3>2 DEF OneLife
      <4>2. \A w \in WorkerIds : Held(w)' # {} => Started(w)'
        BY <1>b, <1>c, <1>d, <2>3, <3>2 DEF OneLife
      <4> QED
        BY <4>1, <4>2
    <3> QED
      BY <3>1, <3>2 DEF OneLife
  <2>5. \A s \in Slots : exec'[s].pc # "idle" => Beating(ProcOf[s])'
    BY <1>a, <1>b, <1>d, <2>1 DEF Beating
  <2>6. \A w \in WorkerIds : Attended(w)' => Attended(w) \/ Held(w) = {}
    BY <1>a, <1>d, <2>1 DEF Attended, Beating
  <2>7. \A q \in Procs : BootInv(q)'
    BY <1>b, <1>d, <2>1 DEF BootInv, Held
  <2> QED
    BY <1>d, <2>2, <2>3, <2>4, <2>5, <2>6, <2>7, ProcessTurns
\* the end of a process: its slots are given up
<1>e. ASSUME proc[p] \notin {"new", "down"}, Move(p, "down"),
             exec' = [s \in Slots |-> IF ProcOf[s] = p THEN IdleExec ELSE exec[s]],
             \A w \in WorkerIds : w # IdOf[p] => alive'[w] = alive[w],
             UNCHANGED <<row, effects, pending, processing, delayed>>,
             \A q \in Procs : q # p => stranded'[q] = stranded[q],
             Spending', budget'["apiCrash"] = budget["apiCrash"]
      PROVE  CrashInv'
  <2>1. proc'[p] = "down" /\ \A q \in Procs : q # p => proc'[q] = proc[q]
    BY <1>a, <1>e DEF Move
  <2>2. \A w \in WorkerIds : (Started(w) => Started(w)') /\ (Gone(w) => Gone(w)')
    BY <2>1 DEF Started, Gone
  <2>3. OneLife'
    <3>1. ASSUME NEW q \in Procs, Beating(q)'
          PROVE  alive'[IdOf[q]]
      BY <1>a, <1>b, <1>e, <2>1, <3>1 DEF OneLife, Beating
    <3>2. ASSUME NoRestarts
          PROVE  /\ \A q \in Procs : proc'[q] \notin {"requeue", "moveback"}
                 /\ \A w \in WorkerIds : Held(w)' # {} => Started(w)'
      BY <1>b, <1>c, <1>e, <2>1, <2>2, <3>2 DEF OneLife
    <3> QED
      BY <3>1, <3>2 DEF OneLife
  <2>4. ~Attended(IdOf[p])' /\ \A w \in WorkerIds : Attended(w)' => Attended(w)
    BY <1>a, <2>1 DEF Attended, Beating
  <2>5. ASSUME NEW s \in Slots
        PROVE  /\ \/ exec'[s] = exec[s]
                  \/ exec'[s].pc = "idle" /\ ~Attended(HolderOf(s))'
               /\ exec'[s].pc # "idle" => Beating(ProcOf[s])'
    <3>1. CASE ProcOf[s] = p
      <4>1. exec'[s] = IdleExec
        BY <1>e, <3>1
      <4>2. ~Attended(HolderOf(s))'
        BY <2>4, <3>1 DEF HolderOf
      <4> QED
        BY <4>1, <4>2 DEF IdleExec
    <3>2. CASE ProcOf[s] # p
      BY <1>a, <1>b, <1>e, <2>1, <3>2 DEF Beating
    <3> QED
      BY <3>1, <3>2
  <2>6. \A q \in Procs : BootInv(q)'
    BY <1>b, <1>e, <2>1 DEF BootInv, Held
  <2> QED
    BY <1>e, <2>2, <2>3, <2>4, <2>5, <2>6, ProcessTurns
<1>1. CASE Start(p)
  <2>1. /\ proc[p] \in {"new", "down"} /\ Move(p, "boot") /\ stranded' = stranded
        /\ UNCHANGED <<row, effects, pending, processing, delayed, alive, exec>>
        /\ proc[p] = "down" => Spend("restart")
        /\ proc[p] # "down" => budget' = budget
    BY <1>1 DEF Start
  <2>2. proc[p] = "down" => /\ ~NoRestarts /\ Spending'
                            /\ budget'["apiCrash"] = budget["apiCrash"]
    <3>1. "restart" \in Disturbances /\ "apiCrash" \in Disturbances
      BY DEF Disturbances
    <3>2. budget["restart"] \in Nat /\ budget["restart"] =< Budget["restart"]
      BY <1>b, <3>1 DEF TypeInv, TypeOK, StoresTypeOK, Spending
    <3>3. Spend("restart") => ~NoRestarts
      BY <3>2 DEF Spend, NoRestarts
    <3> QED
      BY <2>1, <3>1, <3>3, SpendUnbarred DEF CrashInv
  <2>3. proc'[p] = "boot"
    BY <1>a, <2>1 DEF Move
  <2>4. Spending' /\ budget'["apiCrash"] = budget["apiCrash"]
    BY <1>b, <2>1, <2>2 DEF Spending
  <2> QED
    BY <1>d, <2>1, <2>2, <2>3, <2>4 DEF ProcStates, BootInv
<1>2. CASE FindNoHeartbeat(p) \/ LeaveListAlone(p)
  <2>1. PICK to \in {"list", "ready"} : Move(p, to)
    BY <1>2 DEF FindNoHeartbeat, LeaveListAlone
  <2>2. /\ proc[p] = "boot" /\ UNCHANGED <<stores, stranded, exec>> /\ to = "list"
    BY <1>2, <1>a, <2>1 DEF FindNoHeartbeat, LeaveListAlone, Move
  <2>3. proc'[p] = "list" /\ Spending'
    BY <1>a, <1>b, <2>1, <2>2 DEF Move, Spending
  <2> QED
    BY <1>d, <2>1, <2>2, <2>3 DEF ProcStates, BootInv
<1>3. CASE ReadOwnList(p)
  <2> DEFINE to == IF Held(IdOf[p]) = {} THEN "ready" ELSE "requeue"
  <2>1. /\ proc[p] = "list" /\ UNCHANGED <<stores, exec>>
        /\ stranded' = [stranded EXCEPT ![p] = Held(IdOf[p])]
        /\ Move(p, to)
    BY <1>3 DEF ReadOwnList, Held
  <2>2. proc'[p] = to /\ Spending' /\ stranded'[p] = Held(IdOf[p])'
        /\ \A q \in Procs : q # p => stranded'[q] = stranded[q]
    BY <1>a, <1>b, <2>1 DEF Move, Spending, Held
  <2>3. NoRestarts => to = "ready"
    BY <1>a, <1>b, <2>1 DEF OneLife, Started
  <2>4. to \in {"ready", "requeue"} /\ (to = "ready" => Held(IdOf[p]) = {})
    OBVIOUS
  <2> HIDE DEF to
  <2>5. BootInv(p)'
    BY <2>1, <2>2, <2>4 DEF BootInv, Held
  <2> QED
    BY <1>d, <2>1, <2>2, <2>3, <2>4, <2>5 DEF ProcStates
\* taking jobs back: nobody attends to this list, and there is no reaper
<1>f. ASSUME proc[p] \in {"requeue", "moveback"}
      PROVE  /\ ~NoRestarts /\ Schedulers = {} /\ ~Attended(IdOf[p])
             /\ \A q \in Procs : q # p => IdOf[q] # IdOf[p]
  BY <1>a, <1>b, <1>f DEF OneLife, CrashesOnly, Attended, Beating
<1>4. CASE RequeueOwn(p)
  BY <1>4, <1>f, RequeueKeeps DEF RequeueOwn
<1>5. CASE MoveBackOwn(p)
  <2>1. /\ proc[p] = "moveback" /\ MoveTailToTail(IdOf[p])
        /\ UNCHANGED <<row, effects, delayed, alive, budget, stranded, exec>>
    BY <1>5 DEF MoveBackOwn
  <2>2. CASE processing[IdOf[p]] = <<>>
    <3>1. Move(p, "ready") /\ UNCHANGED <<pending, processing>>
      BY <1>5, <2>1, <2>2 DEF MoveBackOwn, MoveTailToTail
    <3>2. proc'[p] = "ready" /\ Spending' /\ Held(IdOf[p])' = {}
      <4>1. Held(IdOf[p]) = {}
        BY <1>a, <2>2, ListedIds DEF Held
      <4> QED
        BY <1>a, <1>b, <2>1, <3>1, <4>1 DEF Move, Spending, Held
    <3> QED
      BY <1>d, <2>1, <3>1, <3>2 DEF ProcStates, BootInv
  <2>3. CASE processing[IdOf[p]] # <<>>
    BY <1>5, <1>f, <2>1, <2>3, MoveBackKeeps DEF MoveBackOwn
  <2> QED
    BY <2>2, <2>3
<1>6. CASE StartBeating(p)
  <2>1. alive'[IdOf[p]] /\ \A w \in WorkerIds : w # IdOf[p] => alive'[w] = alive[w]
    BY <1>6, <1>a DEF StartBeating
  <2>2. Held(IdOf[p]) = {} /\ Spending'
    BY <1>6, <1>b DEF StartBeating, BootInv, Spending
  <2>3. BootInv(p)'
    BY <1>6, <1>a DEF StartBeating, Move, BootInv
  <2> QED
    BY <1>6, <1>d, <2>1, <2>2, <2>3 DEF StartBeating, ProcStates
<1>7. CASE TakeUnanswered(p)
  <2>1. Spending' /\ budget'["apiCrash"] = budget["apiCrash"]
    BY <1>7, <1>b, SpendUnbarred DEF TakeUnanswered, Disturbances
  <2>2. SlotsApart' /\ \A s \in Slots : SlotInv(s)'
    <3>1. /\ row' = row /\ proc' = proc /\ exec' = exec /\ api' = api
          /\ TakeTail(IdOf[p])
      BY <1>7 DEF TakeUnanswered
    <3>2. \A v \in WorkerIds : Held(v) \subseteq Held(v)'
      BY <1>a, <3>1, TakePlaces DEF CrashInv
    <3>3. \A q \in Procs : Beating(q) => Beating(q)'
      BY <3>1 DEF Beating
    <3> QED
      BY <3>1, <3>2, <3>3, SlotsStand
  <2> QED
    BY <1>7, <2>1, <2>2, TakeKeeps DEF TakeUnanswered
<1>8. CASE Beat(p)
  <2>1. \A q \in Procs : alive[IdOf[q]] => alive'[IdOf[q]]
    BY <1>8, <1>a DEF Beat
  <2>2. \A w : /\ (Started(w) <=> Started(w)') /\ (Gone(w) <=> Gone(w)')
               /\ (Attended(w) <=> Attended(w)')
    BY <1>8 DEF Beat, Started, Gone, Attended, Beating
  <2>3. OneLife' /\ Spending'
    BY <1>8, <1>b, <1>c, <2>1, <2>2 DEF Beat, OneLife, Beating, Spending
  <2>4. \A s \in Slots : exec'[s].pc # "idle" => Beating(ProcOf[s])'
    BY <1>8, <1>b DEF Beat, Beating
  <2>5. \A q \in Procs : BootInv(q)'
    BY <1>8, <1>c, <2>2, BootsStand DEF Beat
  <2> QED
    BY <1>8, <2>2, <2>3, <2>4, <2>5, ProcessTurns DEF Beat
<1>9. CASE Stop(p)
  <2>1. /\ proc[p] = "up" /\ proc'[p] = "draining"
        /\ \A q \in Procs : q # p => proc'[q] = proc[q]
    BY <1>9, <1>a DEF Stop, Move
  <2>2. \A w \in WorkerIds : (Started(w) => Started(w)') /\ (Gone(w) => Gone(w)')
    BY <2>1 DEF Started, Gone
  <2>3. Spending' /\ budget'["apiCrash"] = budget["apiCrash"]
    BY <1>9, <1>b, SpendUnbarred DEF Stop, Disturbances
  <2>4. /\ \A q \in Procs : Beating(q)' <=> Beating(q)
        /\ \A w \in WorkerIds : Attended(w)' <=> Attended(w)
    BY <2>1 DEF Beating, Attended
  <2>5. OneLife'
    <3>1. alive' = alive /\ processing' = processing
      BY <1>9 DEF Stop
    <3>2. NoRestarts => \A q \in Procs : proc'[q] \notin {"requeue", "moveback"}
      BY <1>b, <2>1 DEF OneLife
    <3> QED
      BY <1>b, <1>c, <2>2, <2>4, <3>1, <3>2 DEF OneLife
  <2>6. \A s \in Slots : exec'[s].pc # "idle" => Beating(ProcOf[s])'
    BY <1>9, <1>a, <1>b, <2>4 DEF Stop
  <2>7. \A q \in Procs : BootInv(q)'
    BY <1>9, <1>b, <2>1 DEF Stop, BootInv, Held
  <2> QED
    BY <1>9, <2>2, <2>3, <2>4, <2>5, <2>6, <2>7, ProcessTurns DEF Stop
<1>10. CASE Drained(p)
  <2>1. \A w \in WorkerIds : w # IdOf[p] => alive'[w] = alive[w]
    BY <1>10, <1>a DEF Drained
  <2>2. Spending' /\ budget' = budget
    BY <1>10, <1>b DEF Drained, Spending
  <2> QED
    BY <1>10, <1>e, <2>1, <2>2 DEF Drained
<1>11. CASE Crash(p)
  <2>1. Spending' /\ budget'["apiCrash"] = budget["apiCrash"]
    BY <1>11, <1>b, SpendUnbarred DEF Crash, Disturbances
  <2>2. \A q \in Procs : q # p => stranded'[q] = stranded[q]
    BY <1>11, <1>a DEF Crash
  <2> QED
    BY <1>11, <1>e, <2>1, <2>2 DEF Crash
<1> QED
  BY <1>1, <1>2, <1>3, <1>4, <1>5, <1>6, <1>7, <1>8, <1>9, <1>10, <1>11 DEF ProcStep

\* A heartbeat that expires is that of a process that does not beat.
LEMMA ExpireCrashStep ==
  ASSUME CrashesOnly, TypeInv, GhostInv, CrashInv, NEW w \in WorkerIds, Expire(w),
         UNCHANGED <<api, sched>>
  PROVE  CrashInv'
<1> USE DEF postgres, workerVars
<1>1. ~Spend("lapse")
  BY SpendUnbarred DEF CrashInv, Barred, Disturbances
<1>2. /\ ~ \E p \in Procs : IdOf[p] = w /\ Beating(p)
      /\ budget' = budget
      /\ UNCHANGED <<row, effects, pending, processing, delayed, proc, stranded, exec>>
  BY <1>1 DEF Expire
<1>3. \A v \in WorkerIds : v # w => alive'[v] = alive[v]
  BY DEF Expire, TypeInv, TypeOK, StoresTypeOK
<1>4. \A v : /\ (Started(v) <=> Started(v)') /\ (Gone(v) <=> Gone(v)')
             /\ (Attended(v) <=> Attended(v)')
  BY <1>2 DEF Started, Gone, Attended, Beating
<1>5. \A v \in WorkerIds : Held(v)' = Held(v)
  BY <1>2 DEF Held
<1>6. \A p \in Procs : Beating(p) => alive'[IdOf[p]]
  BY <1>2, <1>3, IdOfAssumption DEF CrashInv, OneLife
<1>7. OneLife' /\ Spending'
  BY <1>2, <1>4, <1>5, <1>6 DEF CrashInv, OneLife, Beating, Spending
<1>8. \A s \in Slots : exec'[s].pc # "idle" => Beating(ProcOf[s])'
  BY <1>2 DEF CrashInv, SlotInv, Beating
<1>9. \A p \in Procs : BootInv(p)'
  BY <1>2, <1>4, <1>5, BootsStand
<1> QED
  BY <1>2, <1>4, <1>7, <1>8, <1>9, ProcessTurns

-----------------------------------------------------------------------------
(* The scheduler.                                                          *)

\* A step of the scheduler that rewrites rows and lists of gone processes only,
\* or pushes an id that is nowhere, leaves everybody else alone.
LEMMA SchedulerTurns ==
  ASSUME CrashesOnly, TypeInv, GhostInv, CrashInv, NEW d \in Schedulers,
         UNCHANGED <<effects, delayed, alive, api, workerVars>>,
         Spending', OnePlace', PassInv(d)', \A j \in Jobs : RowInv(j)',
         \A j \in Jobs : row'[j].status # "retrying",
         \A j \in Jobs : \/ row'[j] = row[j]
                         \/ \E w \in WorkerIds : Gone(w) /\ j \in Held(w),
         \A w \in WorkerIds : ~Gone(w) => processing'[w] = processing[w],
         \A w \in WorkerIds : Held(w)' \subseteq Held(w)
  PROVE  CrashInv'
<1>1. NoRetries'
  BY DEF CrashInv, NoRetries
<1> USE DEF workerVars
<1>2. HandsFresh'
  <2>1. ASSUME NEW r \in Requests, api[r] # NoJob
        PROVE  row'[api[r]] = row[api[r]]
    BY <2>1, PlacedIsKnown DEF CrashInv, OnePlace
  <2> QED
    BY <2>1 DEF CrashInv, HandsFresh
<1>3. OneLife'
  <2>1. \A w : Started(w)' <=> Started(w)
    BY DEF Started
  <2> QED
    BY <2>1 DEF CrashInv, OneLife, Beating
<1>4. SlotsApart' /\ \A s \in Slots : SlotInv(s)'
  <2>1. ASSUME NEW w \in WorkerIds, Attended(w)
        PROVE  /\ Held(w) \subseteq Held(w)'
               /\ \A j \in Held(w) : row'[j] = row[j]
    <3>1. Held(w) \subseteq Jobs
      BY PlacedIsKnown
    <3>2. \A v \in WorkerIds : Gone(v) => v # w /\ Held(v) \cap Held(w) = {}
      BY <2>1, GoneIsUnattended DEF CrashInv, OnePlace
    <3>3. processing'[w] = processing[w]
      BY <2>1, GoneIsUnattended
    <3> QED
      BY <3>1, <3>2, <3>3 DEF Held
  <2>2. \A p \in Procs : Beating(p) => Beating(p)'
    BY DEF Beating
  <2> QED
    BY <2>1, <2>2, SlotsStand
<1>5. \A e \in Schedulers : PassInv(e)'
  BY DEF CrashesOnly
<1>6. \A p \in Procs : BootInv(p)'
  BY BootsStand DEF CrashesOnly
<1> QED
  BY <1>1, <1>2, <1>3, <1>4, <1>5, <1>6 DEF CrashInv

\* A step that only looks changes nothing but what the scheduler knows.
LEMMA SchedulerLooks ==
  ASSUME CrashesOnly, TypeInv, GhostInv, CrashInv, NEW d \in Schedulers,
         UNCHANGED <<row, effects, pending, processing, delayed, alive, api, workerVars>>,
         Spending', budget'["apiCrash"] = budget["apiCrash"], PassInv(d)'
  PROVE  CrashInv'
<1>1. /\ Waiting' = Waiting /\ \A w \in WorkerIds : Held(w)' = Held(w)
      /\ \A w \in WorkerIds : (Gone(w)' <=> Gone(w)) /\ (Attended(w)' <=> Attended(w))
  BY DEF workerVars, Waiting, Held, Gone, Attended, Beating
<1>2. OnePlace'
  BY <1>1 DEF CrashInv, OnePlace
<1>3. ASSUME NEW j \in Jobs PROVE RowInv(j)'
  <2>1. Placed(j) => Placed(j)'
    BY <1>1 DEF Placed
  <2>2. \A s \in Slots : RunBy(s, j) => RunBy(s, j)'
    BY DEF workerVars, RunBy, Job
  <2> QED
    BY <1>1, <2>1, <2>2, RowStands
<1>4. \A j \in Jobs : row'[j].status # "retrying"
  BY DEF CrashInv, NoRetries
<1> QED
  BY <1>1, <1>2, <1>3, <1>4, SchedulerTurns

\* What the reaper has found at the tail of a gone process's list.
LEMMA Found ==
  ASSUME TypeInv, GhostInv, CrashInv, NEW d \in Schedulers, sched[d].pc \in Reaping \ {"peek"}
  PROVE  /\ sched[d].wid \in WorkerIds /\ Gone(sched[d].wid)
         /\ processing[sched[d].wid] # <<>>
         /\ Last(processing[sched[d].wid]) = sched[d].job
         /\ sched[d].job \in Held(sched[d].wid) /\ sched[d].job \in Known
         /\ DecisionStands(d)
<1>1. /\ sched[d].wid \in WorkerIds /\ Gone(sched[d].wid)
      /\ processing[sched[d].wid] # <<>>
      /\ Last(processing[sched[d].wid]) = sched[d].job
      /\ DecisionStands(d)
  BY DEF CrashInv, PassInv, TypeInv, Assigned, PassAssigned, Reaping
<1>2. processing[sched[d].wid] \in Seq(Jobs) /\ IsInjective(processing[sched[d].wid])
  BY <1>1 DEF TypeInv, TypeOK, StoresTypeOK, CrashInv, OnePlace
<1>3. sched[d].job \in Held(sched[d].wid)
  BY <1>1, <1>2, TailOfInjective DEF Held
<1> QED
  BY <1>1, <1>3, PlacedIsKnown

\* Every step of reapDead() keeps the invariant (scheduler/reaper.ts:33-119).
LEMMA ReapCrashStep ==
  ASSUME CrashesOnly, TypeInv, GhostInv, CrashInv, NEW d \in Schedulers,
         NEW j, NEW w, sched[d].job = j, sched[d].wid = w,
         \/ BeginPass(d) \/ \E v \in WorkerIds : VisitList(d, v)
         \/ Peek(d) \/ Inspect(d) \/ Drop(d) \/ BuryLost(d) \/ Rescue(d)
         \/ MoveBack(d) \/ EndReap(d),
         UNCHANGED <<api, workerVars>>
  PROVE  CrashInv'
<1> USE DEF postgres, redis, stores, workerVars
<1>a. /\ sched \in [Schedulers -> Passes] /\ sched[d] \in Passes
      /\ row \in [Jobs -> Rows] /\ processing \in [WorkerIds -> Seq(Jobs)]
  BY DEF TypeInv, TypeOK, StoresTypeOK, SchedTypeOK
<1>b. ASSUME NEW r, Become(d, r)
      PROVE  sched'[d] = r
  BY <1>a, <1>b DEF Become
<1>c. PassInv(d) /\ Spending /\ \A i \in Jobs : RowInv(i) /\ row[i].status # "retrying"
  BY DEF CrashInv, NoRetries
<1>d. /\ \A v : /\ (Started(v)' <=> Started(v)) /\ (Gone(v)' <=> Gone(v))
                /\ (Attended(v)' <=> Attended(v))
      /\ NoRestarts
  BY DEF Started, Gone, Attended, Beating, CrashesOnly
<1>e. sched[d].pc \in Reaping \ {"peek"} =>
        /\ w \in WorkerIds /\ Gone(w) /\ processing[w] # <<>> /\ Last(processing[w]) = j
        /\ j \in Held(w) /\ j \in Known /\ j \in Jobs /\ row[j] \in Rows
        /\ DecisionStands(d)
  BY <1>a, Found, PlacedIsKnown
<1>f. ASSUME UNCHANGED stores, PassInv(d)'
      PROVE  CrashInv'
  BY <1>c, <1>f, SchedulerLooks DEF Spending
<1>1. CASE BeginPass(d)
  <2> DEFINE r == [IdlePass EXCEPT !.pc = "lists", !.lists = ProcessingKeys]
  <2>1. r.pc = "lists" /\ r.lists = ProcessingKeys /\ r.cand = {}
    BY DEF IdlePass
  <2>2. sched'[d] = r /\ UNCHANGED stores
    BY <1>1, <1>b DEF BeginPass
  <2> HIDE DEF r
  <2>3. \A v \in ProcessingKeys : Started(v)
    BY <1>a, <1>d, ListedIds DEF ProcessingKeys, CrashInv, OneLife, Held
  <2>4. PassInv(d)'
    BY <1>d, <2>1, <2>2, <2>3 DEF PassInv, Reaping
  <2> QED
    BY <1>f, <2>2, <2>4
<1>2. ASSUME NEW v \in WorkerIds, VisitList(d, v)
      PROVE  CrashInv'
  <2> DEFINE rest == [sched[d] EXCEPT !.lists = @ \ {v}]
             reap == [rest EXCEPT !.pc = "peek", !.wid = v]
  <2>0. sched[d].pc = "lists" /\ v \in sched[d].lists /\ UNCHANGED stores
    BY <1>2 DEF VisitList, At
  <2>1. /\ rest.pc = "lists" /\ rest.lists = sched[d].lists \ {v} /\ rest.cand = sched[d].cand
        /\ reap.pc = "peek" /\ reap.lists = sched[d].lists \ {v} /\ reap.cand = sched[d].cand
        /\ reap.wid = v
    BY <1>a, <2>0 DEF Passes
  <2>2. sched'[d] = rest \/ (sched'[d] = reap /\ ~alive[v])
    BY <1>2, <1>b DEF VisitList, Silent
  <2> HIDE DEF rest, reap
  <2>3. (\A u \in sched[d].lists : Started(u)) /\ \A i \in sched[d].cand : row[i].old
    BY <1>c, <2>0 DEF PassInv
  <2>4. ~alive[v] => Gone(v)
    BY <2>0, <2>3 DEF Started, Gone, CrashInv, OneLife, Beating
  <2>5. CASE sched'[d] = rest
    <3>1. PassInv(d)'
      BY <1>d, <2>0, <2>1, <2>3, <2>5 DEF PassInv, Reaping
    <3> QED
      BY <1>f, <2>0, <3>1
  <2>6. CASE sched'[d] = reap /\ ~alive[v]
    <3>1. Gone(sched[d].wid)'
      BY <2>1, <2>4, <2>6 DEF Gone
    <3>2. PassInv(d)'
      BY <1>d, <2>0, <2>1, <2>3, <2>6, <3>1 DEF PassInv, Reaping
    <3> QED
      BY <1>f, <2>0, <3>2
  <2> QED
    BY <2>2, <2>5, <2>6
<1>3. CASE Peek(d)
  <2> DEFINE done == [sched[d] EXCEPT !.pc = "lists", !.wid = NoWorker]
             next == [sched[d] EXCEPT !.pc = "inspect", !.job = Last(processing[w])]
  <2>0. sched[d].pc = "peek" /\ UNCHANGED stores
    BY <1>3 DEF Peek, At
  <2>1. /\ done.pc = "lists" /\ done.lists = sched[d].lists /\ done.cand = sched[d].cand
        /\ next.pc = "inspect" /\ next.lists = sched[d].lists /\ next.cand = sched[d].cand
        /\ next.job = Last(processing[w]) /\ next.wid = w
    BY <1>a DEF Passes
  <2>2. \/ processing[w] = <<>> /\ sched'[d] = done
        \/ processing[w] # <<>> /\ sched'[d] = next
    BY <1>3, <1>b DEF Peek
  <2> HIDE DEF done, next
  <2>3. /\ Gone(w) /\ (\A u \in sched[d].lists : Started(u))
        /\ \A i \in sched[d].cand : row[i].old
    BY <1>c, <2>0 DEF PassInv, Reaping
  <2>4. CASE sched'[d] = done
    <3>1. PassInv(d)'
      BY <1>d, <2>0, <2>1, <2>3, <2>4 DEF PassInv, Reaping
    <3> QED
      BY <1>f, <2>0, <3>1
  <2>5. CASE processing[w] # <<>> /\ sched'[d] = next
    <3>1. DecisionStands(d)'
      BY <2>1, <2>5 DEF DecisionStands
    <3>2. Gone(sched[d].wid)'
      BY <2>1, <2>3, <1>d, <2>5 DEF Gone
    <3>3. PassInv(d)'
      BY <1>d, <2>0, <2>1, <2>3, <2>5, <3>1, <3>2 DEF PassInv, Reaping
    <3> QED
      BY <1>f, <2>0, <3>3
  <2> QED
    BY <2>2, <2>4, <2>5
<1>g. ASSUME NEW to, Step(d, to)
      PROVE  /\ sched'[d].pc = to /\ sched'[d].job = j /\ sched'[d].wid = w
             /\ sched'[d].lists = sched[d].lists /\ sched'[d].cand = sched[d].cand
  BY <1>a, <1>g DEF Step, Passes
\* a decision of reapWorker(), with what it changes in the row
<1>h. ASSUME sched[d].pc \in Reaping \ {"peek"}, NEW to, Step(d, to),
             to \in Reaping \ {"peek"}, UNCHANGED <<effects, redis, budget>>,
             \A i \in Jobs : i # j => row'[i] = row[i],
             row'[j].old <=> row[j].old, row'[j].status # "retrying",
             RowInv(j)', DecisionStands(d)'
      PROVE  CrashInv'
  <2>1. /\ Waiting' = Waiting /\ \A v \in WorkerIds : Held(v)' = Held(v)
    BY <1>h DEF Waiting, Held
  <2>2. OnePlace'
    BY <1>h, <2>1 DEF CrashInv, OnePlace
  <2>3. ASSUME NEW i \in Jobs, i # j PROVE RowInv(i)'
    <3>1. Placed(i) => Placed(i)'
      BY <1>h, <2>1 DEF Placed
    <3>2. \A s \in Slots : RunBy(s, i) => RunBy(s, i)'
      BY DEF RunBy, Job
    <3> QED
      BY <1>d, <1>h, <2>1, <2>3, <3>1, <3>2, RowStands
  <2>4. /\ (\A u \in sched[d].lists : Started(u))
        /\ \A i \in sched[d].cand : i \in Jobs /\ row[i].old
    BY <1>a, <1>c, <1>h DEF PassInv, Passes
  <2>5. PassInv(d)'
    <3>1. Gone(sched[d].wid)'
      BY <1>d, <1>e, <1>g, <1>h DEF Gone
    <3>2. \A i \in sched'[d].cand : row'[i].old
      BY <1>g, <1>h, <2>4
    <3>3. /\ sched'[d].pc \notin {"update", "push", "scan", "hold"}
          /\ processing'[sched'[d].wid] # <<>>
          /\ Last(processing'[sched'[d].wid]) = sched'[d].job
      BY <1>e, <1>g, <1>h DEF Reaping
    <3> QED
      BY <1>d, <1>g, <1>h, <2>4, <3>1, <3>2, <3>3 DEF PassInv
  <2>6. \A i \in Jobs : \/ row'[i] = row[i]
                        \/ \E v \in WorkerIds : Gone(v) /\ i \in Held(v)
    BY <1>e, <1>h
  <2>7. Spending'
    BY <1>c, <1>h DEF Spending
  <2> QED
    BY <1>c, <1>e, <1>h, <2>1, <2>2, <2>3, <2>5, <2>6, <2>7, SchedulerTurns
<1>4. CASE Inspect(d)
  <2>0. sched[d].pc = "inspect" /\ UNCHANGED stores
    BY <1>4 DEF Inspect, At
  <2>1. /\ row[j].status \notin {"none", "retrying"} /\ RowFits(j)
        /\ row[j].attempts \in Nat /\ row[j].status \in Statuses
    BY <1>c, <1>e, <2>0 DEF Reaping, Known, Recorded, RowInv, Rows
  <2>2. \/ Settled(row[j]) /\ Step(d, "drop")
        \/ ~Settled(row[j]) /\ Spent(row[j]) /\ Step(d, "bury")
        \/ ~Settled(row[j]) /\ ~Spent(row[j]) /\ Step(d, "rescue")
    BY <1>4 DEF Inspect
  <2>3. PICK to \in {"drop", "bury", "rescue"} : Step(d, to)
    BY <2>2
  <2>4. DecisionStands(d)'
    <3>1. CASE Settled(row[j]) /\ Step(d, "drop")
      BY <1>g, <2>0, <2>1, <3>1 DEF DecisionStands, Settled, Terminal
    <3>2. CASE ~Settled(row[j]) /\ Spent(row[j]) /\ Step(d, "bury")
      <4>1. row[j].status \in {"queued", "running"} /\ row[j].attempts >= MaxAttempts
        BY <2>1, <3>2 DEF Settled, Spent, Statuses
      <4>2. row[j].status = "running" /\ row[j].attempts = MaxAttempts
        BY <1>d, <2>1, <4>1, MaxAttemptsAssumption DEF RowFits
      <4> QED
        BY <1>g, <2>0, <3>2, <4>2 DEF DecisionStands
    <3>3. CASE ~Settled(row[j]) /\ ~Spent(row[j]) /\ Step(d, "rescue")
      <4>1. row[j].status \in {"queued", "running"} /\ row[j].attempts < MaxAttempts
        BY <2>1, <3>3, MaxAttemptsAssumption DEF Settled, Spent, Statuses
      <4> QED
        BY <1>g, <2>0, <3>3, <4>1 DEF DecisionStands
    <3> QED
      BY <2>2, <3>1, <3>2, <3>3
  <2>5. RowInv(j)'
    <3>1. j \in Jobs /\ effects' = effects
      BY <1>e, <2>0 DEF Reaping
    <3>2. Placed(j) => Placed(j)'
      BY <2>0 DEF Placed, Waiting, Held
    <3>3. /\ \A s \in Slots : RunBy(s, j) => RunBy(s, j)'
          /\ \A v \in WorkerIds : j \in Held(v) => j \in Held(v)'
      BY <2>0 DEF RunBy, Job, Held
    <3> QED
      BY <1>d, <2>0, <3>1, <3>2, <3>3, RowStands
  <2> QED
    BY <1>h, <2>0, <2>1, <2>3, <2>4, <2>5 DEF Reaping
<1>5. CASE BuryLost(d)
  <2>0. /\ sched[d].pc = "bury" /\ Step(d, "drop")
        /\ row' = [row EXCEPT ![j] = BuriedRow(row[j])]
        /\ UNCHANGED <<effects, redis, budget>>
    BY <1>5 DEF BuryLost, At
  <2>1. row[j].status = "running" /\ row[j].attempts = MaxAttempts /\ RowFits(j)
    BY <1>c, <1>e, <2>0 DEF Reaping, DecisionStands, RowInv
  <2>2. /\ row'[j].status = "dead" /\ (row'[j].old <=> row[j].old)
        /\ \A i \in Jobs : i # j => row'[i] = row[i]
    <3>1. row'[j] = BuriedRow(row[j]) /\ row[j] \in Rows
      BY <1>a, <1>e, <2>0 DEF Reaping
    <3> QED
      BY <1>a, <2>0, <3>1 DEF BuriedRow, Rows
  <2>3. RowInv(j)' /\ DecisionStands(d)'
    BY <1>g, <2>0, <2>1, <2>2 DEF RowInv, RunningHeld, RowFits, DecisionStands, Terminal
  <2> QED
    BY <1>h, <2>0, <2>2, <2>3 DEF Reaping
<1>6. CASE Rescue(d)
  <2>0. /\ sched[d].pc = "rescue" /\ Step(d, "move")
        /\ row' = [row EXCEPT ![j] = RescuedRow(row[j])]
        /\ UNCHANGED <<effects, redis, budget>>
    BY <1>6 DEF Rescue, At
  <2>1. /\ row[j].status \in {"queued", "running"} /\ row[j].attempts < MaxAttempts
        /\ RowFits(j) /\ w \in WorkerIds /\ j \in Held(w)
    BY <1>c, <1>e, <2>0 DEF Reaping, DecisionStands, RowInv
  <2>2. /\ row'[j].status = "queued" /\ (row'[j].old <=> row[j].old)
        /\ row'[j].attempts = row[j].attempts
        /\ \A i \in Jobs : i # j => row'[i] = row[i]
    <3>1. row'[j] = RescuedRow(row[j]) /\ row[j] \in Rows
      BY <1>a, <1>e, <2>0 DEF Reaping
    <3> QED
      BY <1>a, <2>0, <3>1 DEF RescuedRow, Rows
  <2>3. RowInv(j)'
    <3>1. Placed(j)'
      BY <2>0, <2>1 DEF Placed, Held
    <3> QED
      BY <2>0, <2>1, <2>2, <3>1 DEF RowInv, RunningHeld, RowFits
  <2>4. DecisionStands(d)'
    BY <1>g, <2>0, <2>2 DEF DecisionStands
  <2> QED
    BY <1>h, <2>0, <2>2, <2>3, <2>4 DEF Reaping
<1>i. ASSUME sched[d].pc \in Reaping \ {"peek"},
             Become(d, [sched[d] EXCEPT !.pc = "peek", !.job = NoJob]),
             row' = row, Waiting' = Waiting \/ Waiting' = Waiting \cup {j}
      PROVE  PassInv(d)'
  <2> DEFINE r == [sched[d] EXCEPT !.pc = "peek", !.job = NoJob]
  <2>1. /\ r.pc = "peek" /\ r.wid = w /\ r.lists = sched[d].lists /\ r.cand = sched[d].cand
    BY <1>a DEF Passes
  <2>2. sched'[d] = r
    BY <1>b, <1>i
  <2> HIDE DEF r
  <2>3. Gone(sched[d].wid)'
    BY <1>d, <1>e, <1>i, <2>1, <2>2 DEF Gone
  <2>4. (\A u \in sched[d].lists : Started(u)) /\ \A i \in sched[d].cand : row[i].old
    BY <1>c, <1>i DEF PassInv
  <2> QED
    BY <1>d, <1>i, <2>1, <2>2, <2>3, <2>4 DEF PassInv
<1>7. CASE Drop(d)
  <2>0. /\ sched[d].pc = "drop" /\ sched[d].pc \in Reaping \ {"peek"}
        /\ processing' = [processing EXCEPT ![w] = DropFromTail(processing[w], j)]
        /\ Become(d, [sched[d] EXCEPT !.pc = "peek", !.job = NoJob])
        /\ UNCHANGED <<row, effects, pending, delayed, alive, budget>>
    BY <1>7 DEF Drop, At, Reaping
  <2>1. row[j].status \in Terminal /\ w \in WorkerIds /\ Gone(w)
    BY <1>e, <2>0 DEF DecisionStands
  <2>2. /\ Held(w)' = Held(w) \ {j} /\ Waiting' = Waiting
        /\ \A v \in WorkerIds : v # w => processing'[v] = processing[v] /\ Held(v)' = Held(v)
        /\ OnePlace'
    BY <2>0, <2>1, DropPlaces DEF CrashInv, Waiting
  <2>3. ASSUME NEW i \in Jobs PROVE RowInv(i)'
    <3>1. CASE i = j
      <4>1. row'[i].status # "running" /\ row'[i].status # "queued"
        BY <2>0, <2>1, <3>1 DEF Terminal
      <4>2. RowFits(i)
        BY <1>c DEF RowInv
      <4> QED
        BY <2>0, <4>1, <4>2 DEF RowInv, RunningHeld, RowFits
    <3>2. CASE i # j
      <4>1. Placed(i) => Placed(i)'
        BY <2>0, <2>2, <3>2 DEF Placed
      <4>2. /\ \A s \in Slots : RunBy(s, i) => RunBy(s, i)'
            /\ \A v \in WorkerIds : i \in Held(v) => i \in Held(v)'
        BY <2>2, <3>2 DEF RunBy, Job
      <4> QED
        BY <1>d, <2>0, <4>1, <4>2, RowStands
    <3> QED
      BY <3>1, <3>2
  <2>4. PassInv(d)'
    BY <1>i, <2>0, <2>2
  <2>5. Spending'
    BY <1>c, <2>0 DEF Spending
  <2>6. /\ \A v \in WorkerIds : ~Gone(v) => processing'[v] = processing[v]
        /\ \A v \in WorkerIds : Held(v)' \subseteq Held(v)
    BY <2>1, <2>2
  <2> QED
    BY <1>c, <2>0, <2>2, <2>3, <2>4, <2>5, <2>6, SchedulerTurns
<1>8. CASE MoveBack(d)
  <2>0. /\ sched[d].pc = "move" /\ sched[d].pc \in Reaping \ {"peek"}
        /\ MoveTailToTail(w)
        /\ Become(d, [sched[d] EXCEPT !.pc = "peek", !.job = NoJob])
        /\ UNCHANGED <<row, effects, delayed, alive, budget>>
    BY <1>8 DEF MoveBack, At, Reaping
  <2>1. w \in WorkerIds /\ Gone(w) /\ processing[w] # <<>> /\ Last(processing[w]) = j
    BY <1>e, <2>0
  <2>2. /\ Waiting' = Waiting \cup {j} /\ Held(w)' = Held(w) \ {j}
        /\ \A v \in WorkerIds : v # w => processing'[v] = processing[v] /\ Held(v)' = Held(v)
        /\ OnePlace'
    BY <2>0, <2>1, MovePlaces DEF CrashInv
  <2>3. row[j].status = "queued"
    BY <1>e, <2>0 DEF DecisionStands
  <2>4. ASSUME NEW i \in Jobs PROVE RowInv(i)'
    <3>1. Placed(i) => Placed(i)'
      BY <2>0, <2>2 DEF Placed
    <3>2. CASE i = j
      <4>1. RowInv(i)
        BY <1>c
      <4> QED
        BY <2>0, <2>3, <3>1, <3>2, <4>1 DEF RowInv, RunningHeld, RowFits
    <3>3. CASE i # j
      <4>1. /\ \A s \in Slots : RunBy(s, i) => RunBy(s, i)'
            /\ \A v \in WorkerIds : i \in Held(v) => i \in Held(v)'
        BY <2>2, <3>3 DEF RunBy, Job
      <4> QED
        BY <1>d, <2>0, <3>1, <4>1, RowStands
    <3> QED
      BY <3>2, <3>3
  <2>5. PassInv(d)'
    BY <1>i, <2>0, <2>2
  <2>6. Spending'
    BY <1>c, <2>0 DEF Spending
  <2>7. /\ \A v \in WorkerIds : ~Gone(v) => processing'[v] = processing[v]
        /\ \A v \in WorkerIds : Held(v)' \subseteq Held(v)
    BY <2>1, <2>2
  <2> QED
    BY <1>c, <2>0, <2>2, <2>4, <2>5, <2>6, <2>7, SchedulerTurns
<1>9. CASE EndReap(d)
  <2>0. sched[d].pc = "lists" /\ Step(d, "sweep") /\ UNCHANGED stores
    BY <1>9 DEF EndReap, At
  <2>1. PassInv(d)'
    BY <1>c, <1>g, <2>0 DEF PassInv, Reaping
  <2> QED
    BY <1>f, <2>0, <2>1
<1> QED
  BY <1>1, <1>2, <1>3, <1>4, <1>5, <1>6, <1>7, <1>8, <1>9

\* Every step of sweepOrphans(), and giving a pass up, keep the invariant: an
\* old id that none of the three reads has seen is nowhere (reaper.ts:123-170).
LEMMA SweepCrashStep ==
  ASSUME CrashesOnly, TypeInv, GhostInv, CrashInv, NEW d \in Schedulers,
         \/ Query(d) \/ ReadPending(d) \/ ScanLists(d)
         \/ \E w \in WorkerIds : ReadList(d, w)
         \/ \E j \in Jobs : PushOrphan(d, j)
         \/ EndSweep(d) \/ Interrupt(d),
         UNCHANGED <<api, workerVars>>
  PROVE  CrashInv'
<1> USE DEF postgres, redis, stores, workerVars
<1>a. /\ sched \in [Schedulers -> Passes] /\ sched[d] \in Passes
      /\ row \in [Jobs -> Rows] /\ processing \in [WorkerIds -> Seq(Jobs)]
  BY DEF TypeInv, TypeOK, StoresTypeOK, SchedTypeOK
<1>b. ASSUME NEW r, Become(d, r)
      PROVE  sched'[d] = r
  BY <1>a, <1>b DEF Become
<1>c. PassInv(d) /\ Spending /\ \A j \in Jobs : RowInv(j) /\ row[j].status # "retrying"
  BY DEF CrashInv, NoRetries
<1>d. sched[d].cand \subseteq Known /\ \A j \in sched[d].cand : row[j].old
  BY <1>c, PlacedIsKnown DEF PassInv
<1>e. ASSUME UNCHANGED stores, PassInv(d)'
      PROVE  CrashInv'
  BY <1>c, <1>e, SchedulerLooks DEF Spending
<1>f. ASSUME Become(d, IdlePass), row' = row
      PROVE  PassInv(d)'
  <2>1. sched'[d] = IdlePass /\ IdlePass.pc = "idle" /\ IdlePass.cand = {}
    BY <1>b, <1>f DEF IdlePass
  <2> QED
    BY <2>1 DEF PassInv, Reaping
<1>g. UNCHANGED stores => Waiting' = Waiting /\ \A w \in WorkerIds : Held(w)' = Held(w)
  BY DEF Waiting, Held
<1>1. CASE Query(d)
  <2> DEFINE old == {j \in Jobs : Orphanable(row[j])}
             r   == [sched[d] EXCEPT !.pc = "pending", !.cand = old]
  <2>1. r.pc = "pending" /\ r.cand = old /\ \A j \in old : row[j].old
    BY <1>a DEF Passes, Orphanable
  <2>2. (Become(d, IdlePass) \/ sched'[d] = r) /\ UNCHANGED stores
    BY <1>1, <1>b DEF Query
  <2> HIDE DEF r, old
  <2>3. sched'[d] = r => PassInv(d)'
    BY <2>1, <2>2 DEF PassInv, Reaping
  <2> QED
    BY <1>e, <1>f, <2>2, <2>3
<1>2. CASE ReadPending(d)
  <2> DEFINE r == [sched[d] EXCEPT !.pc = "scan", !.held = SeenPending]
  <2>1. r.pc = "scan" /\ r.cand = sched[d].cand /\ r.held = Waiting
    BY <1>a DEF Passes, SeenPending, Waiting
  <2>2. sched'[d] = r /\ UNCHANGED stores
    BY <1>2, <1>b DEF ReadPending
  <2> HIDE DEF r
  <2>3. Waiting' \cap Unseen(d)' = {}
    BY <1>g, <2>1, <2>2 DEF Unseen
  <2>4. PassInv(d)'
    BY <1>d, <2>1, <2>2, <2>3 DEF PassInv, Reaping
  <2> QED
    BY <1>e, <2>2, <2>4
<1>3. CASE ScanLists(d)
  <2> DEFINE r == [sched[d] EXCEPT !.pc = "hold", !.lists = ProcessingKeys]
  <2>1. /\ r.pc = "hold" /\ r.cand = sched[d].cand /\ r.held = sched[d].held
        /\ r.lists = ProcessingKeys
    BY <1>a DEF Passes
  <2>2. sched'[d] = r /\ UNCHANGED stores /\ sched[d].pc = "scan"
    BY <1>3, <1>b DEF ScanLists, At
  <2> HIDE DEF r
  <2>3. Waiting' \cap Unseen(d)' = {}
    BY <1>c, <1>g, <2>1, <2>2 DEF PassInv, Unseen
  <2>4. \A w \in WorkerIds \ ProcessingKeys : Held(w)' = {}
    BY <1>a, <1>g, <2>2, ListedIds DEF ProcessingKeys, Held
  <2>5. PassInv(d)'
    BY <1>d, <2>1, <2>2, <2>3, <2>4 DEF PassInv, Reaping
  <2> QED
    BY <1>e, <2>2, <2>5
<1>4. ASSUME NEW w \in WorkerIds, ReadList(d, w)
      PROVE  CrashInv'
  <2> DEFINE r == [sched[d] EXCEPT !.lists = @ \ {w},
                                   !.held = @ \cup ToSet(processing[w])]
  <2>0. sched[d].pc = "hold" /\ UNCHANGED stores
    BY <1>4 DEF ReadList, At
  <2>1. /\ r.pc = "hold" /\ r.cand = sched[d].cand /\ r.held = sched[d].held \cup Held(w)
        /\ r.lists = sched[d].lists \ {w}
    BY <1>a, <2>0 DEF Passes, Held
  <2>2. sched'[d] = r
    BY <1>4, <1>b DEF ReadList
  <2> HIDE DEF r
  <2>3. Unseen(d)' = Unseen(d) \ Held(w)
    BY <2>1, <2>2 DEF Unseen
  <2>4. Waiting' \cap Unseen(d)' = {}
    BY <1>c, <1>g, <2>0, <2>3 DEF PassInv
  <2>5. \A v \in WorkerIds \ (sched[d].lists \ {w}) : Held(v)' \cap Unseen(d)' = {}
    <3>1. \A v \in WorkerIds \ sched[d].lists : Held(v) \cap Unseen(d) = {}
      BY <1>c, <2>0 DEF PassInv
    <3> QED
      BY <1>g, <2>0, <2>3, <3>1
  <2>6. PassInv(d)'
    BY <1>d, <2>0, <2>1, <2>2, <2>4, <2>5 DEF PassInv, Reaping
  <2> QED
    BY <1>e, <2>0, <2>6
<1>5. ASSUME NEW j \in Jobs, PushOrphan(d, j)
      PROVE  CrashInv'
  <2> DEFINE r == [sched[d] EXCEPT !.cand = @ \ {j}]
  <2>0. /\ sched[d].pc = "hold" /\ sched[d].lists = {} /\ j \in Unseen(d)
        /\ pending' = Append(pending, j)
        /\ UNCHANGED <<row, effects, processing, delayed, alive, budget>>
    BY <1>5 DEF PushOrphan, At, Unseen
  <2>1. /\ r.pc = "hold" /\ r.cand = sched[d].cand \ {j} /\ r.held = sched[d].held
        /\ r.lists = {}
    BY <1>a, <2>0 DEF Passes
  <2>2. sched'[d] = r
    BY <1>5, <1>b DEF PushOrphan
  <2> HIDE DEF r
  <2>3. j \notin Waiting /\ \A w \in WorkerIds : j \notin Held(w)
    BY <1>c, <2>0 DEF PassInv
  <2>4. \A t \in Requests : api'[t] # j
    <3>1. row[j].old /\ j # NoJob
      BY <1>d, <2>0, NoJobAssumption DEF Unseen
    <3> QED
      BY <3>1 DEF CrashInv, HandsFresh
  <2>5. /\ Waiting' = Waiting \cup {j} /\ \A w \in WorkerIds : Held(w)' = Held(w)
        /\ OnePlace'
    BY <2>0, <2>3, <2>4, PushPlaces DEF CrashInv
  <2>6. ASSUME NEW i \in Jobs PROVE RowInv(i)'
    <3>1. Placed(i) => Placed(i)'
      BY <2>0, <2>5 DEF Placed
    <3>2. \A s \in Slots : RunBy(s, i) => RunBy(s, i)'
      BY DEF RunBy, Job
    <3>3. \A w : Attended(w) <=> Attended(w)'
      BY DEF Attended, Beating
    <3> QED
      BY <2>0, <2>5, <3>1, <3>2, <3>3, RowStands
  <2>7. PassInv(d)'
    <3>1. Unseen(d)' = Unseen(d) \ {j}
      BY <2>1, <2>2 DEF Unseen
    <3>2. Waiting' \cap Unseen(d)' = {}
      BY <1>c, <2>0, <2>5, <3>1 DEF PassInv
    <3>3. \A w \in WorkerIds : Held(w)' \cap Unseen(d)' = {}
      BY <1>c, <2>0, <2>5, <3>1 DEF PassInv
    <3>4. \A i \in sched'[d].cand : row'[i].old
      BY <1>d, <2>0, <2>1, <2>2
    <3> QED
      BY <2>1, <2>2, <3>2, <3>3, <3>4 DEF PassInv, Reaping
  <2>8. Spending'
    BY <1>c, <2>0 DEF Spending
  <2> QED
    BY <1>c, <2>0, <2>5, <2>6, <2>7, <2>8, SchedulerTurns
<1>6. CASE EndSweep(d)
  BY <1>6, <1>e, <1>f DEF EndSweep
<1>7. CASE Interrupt(d)
  <2>1. Spending' /\ budget'["apiCrash"] = budget["apiCrash"]
    BY <1>7, <1>c, SpendUnbarred DEF Interrupt, Disturbances
  <2> QED
    BY <1>7, <1>f, <2>1, SchedulerLooks DEF Interrupt
<1> QED
  BY <1>1, <1>2, <1>3, <1>4, <1>5, <1>6, <1>7

-----------------------------------------------------------------------------
\* A fresh installation satisfies the invariant.
LEMMA CrashInit == Init => CrashInv
<1> SUFFICES ASSUME Init PROVE CrashInv
  OBVIOUS
<1>1. Waiting = {} /\ (\A w \in WorkerIds : Held(w) = {}) /\ IsInjective(<<>>)
  <2>1. ASSUME NEW q \in Seq(Jobs), q = <<>>
        PROVE  ToSet(q) = {} /\ IsInjective(q)
    <3>1. 1..Len(q) = {}
      BY <2>1, EmptySeq
    <3> QED
      BY <3>1, ListedIds
  <2>2. <<>> \in Seq(Jobs)
    BY EmptySeq
  <2>3. ToSet(<<>>) = {} /\ IsInjective(<<>>)
    BY <2>1, <2>2
  <2> QED
    BY <2>3 DEF Init, StoresInit, Waiting, Held
<1>2. Spending /\ NoRetries /\ HandsFresh /\ OneLife
  <2>1. Spending
    BY BudgetAssumption DEF Init, StoresInit, Spending
  <2>2. NoRetries /\ HandsFresh
    BY DEF Init, StoresInit, ApiInit, NoRetries, HandsFresh, NoRow
  <2>3. OneLife
    BY <1>1 DEF Init, WorkerInit, OneLife, Beating
  <2> QED
    BY <2>1, <2>2, <2>3
<1>3. OnePlace
  BY <1>1 DEF Init, StoresInit, ApiInit, OnePlace
<1>4. SlotsApart /\ \A s \in Slots : SlotInv(s)
  BY DEF Init, WorkerInit, IdleExec, SlotsApart, SlotInv
<1>5. ASSUME NEW j \in Jobs PROVE RowInv(j)
  <2>1. row[j].status = "none" /\ row[j].attempts = 0 /\ Len(effects[j]) = 0
    BY DEF Init, StoresInit, NoRow
  <2> QED
    BY <2>1 DEF RowInv, RunningHeld, RowFits
<1>6. ASSUME NEW d \in Schedulers PROVE PassInv(d)
  <2>1. sched[d].pc = "idle" /\ sched[d].cand = {}
    BY DEF Init, SchedInit, IdlePass
  <2> QED
    BY <2>1 DEF PassInv, Reaping
<1>7. \A p \in Procs : BootInv(p)
  BY DEF Init, WorkerInit, BootInv
<1> QED
  BY <1>2, <1>3, <1>4, <1>5, <1>6, <1>7 DEF CrashInv

\* Every step keeps it, when processes only crash.
LEMMA CrashInductive ==
  ASSUME CrashesOnly
  PROVE  TypeInv /\ GhostInv /\ CrashInv /\ [Next]_vars => CrashInv'
<1> SUFFICES ASSUME TypeInv, GhostInv, CrashInv, [Next]_vars PROVE CrashInv'
  OBVIOUS
<1>1. CASE ApiStep
  BY <1>1, ApiCrashStep
<1>2. CASE WorkerStep
  <2>1. ASSUME NEW s \in Slots, SlotStep(s), UNCHANGED <<api, sched>>
        PROVE  CrashInv'
    <3>1. CASE Take(s)
      BY <2>1, <3>1, TakeCrashStep
    <3>2. CASE ~Take(s)
      BY <2>1, <3>2, SlotCrashStep
    <3> QED
      BY <3>1, <3>2
  <2> QED
    BY <1>2, <2>1, ProcCrashStep, ExpireCrashStep DEF WorkerStep
<1>3. CASE SchedStep
  <2>1. PICK d \in Schedulers : PassStep(d)
    BY <1>3 DEF SchedStep
  <2>2. UNCHANGED <<api, workerVars>>
    BY <1>3 DEF SchedStep
  <2>3. ~((\E j \in Jobs : ClaimDue(d, j)) \/ RequeueDue(d) \/ PushDue(d))
    BY DEF CrashInv, NoRetries, PassInv, ClaimDue, RequeueDue, PushDue, At
  <2> QED
    BY <2>1, <2>2, <2>3, ReapCrashStep, SweepCrashStep DEF PassStep
<1>4. CASE UNCHANGED vars
  <2>1. /\ Waiting' = Waiting /\ \A w \in WorkerIds : Held(w)' = Held(w)
        /\ \A w : /\ (Gone(w)' <=> Gone(w)) /\ (Started(w)' <=> Started(w))
                  /\ (Attended(w)' <=> Attended(w))
    BY <1>4 DEF vars, stores, workerVars, Waiting, Held, Gone, Started, Attended, Beating
  <2>2. Spending' /\ OneLife'
    BY <1>4, <2>1 DEF vars, stores, workerVars, CrashInv, Spending, OneLife, Beating
  <2>3. \A s \in Slots : exec'[s].pc # "idle" => Beating(ProcOf[s])'
    BY <1>4 DEF vars, workerVars, CrashInv, SlotInv, Beating
  <2>4. \A p \in Procs : BootInv(p)'
    BY <1>4, <2>1, BootsStand DEF vars, stores, workerVars
  <2> QED
    BY <1>4, <2>1, <2>2, <2>3, <2>4, ProcessTurns DEF vars, stores, workerVars
<1> QED
  BY <1>1, <1>2, <1>3, <1>4 DEF Next

\* It is an invariant of the system under crashes.
LEMMA CrashInvariant ==
  ASSUME CrashesOnly
  PROVE  Spec => [](TypeInv /\ GhostInv /\ CrashInv)
BY TypeInit, TypeInductive, GhostInit, GhostInductive, CrashInit, CrashInductive, PTL DEF Spec

-----------------------------------------------------------------------------
(* What the clients get of it.                                             *)

\* At most one element, at most one copy.
LEMMA AtMostOne ==
  ASSUME NEW A, \A x, y \in A : x = y
  PROVE  Cardinality(A) = 0 \/ Cardinality(A) = 1
<1>1. CASE A = {}
  BY <1>1, FS_EmptySet
<1>2. CASE A # {}
  <2>1. PICK x \in A : TRUE
    BY <1>2
  <2>2. A = {x}
    BY <2>1
  <2> QED
    BY <2>2, FS_Singleton
<1> QED
  BY <1>1, <1>2

\* An unfinished job has one place at most, and nobody is about to LREM it.
LEMMA OneCopyAtMost ==
  ASSUME TypeInv, GhostInv, CrashInv, NEW j \in Jobs, Unfinished(j)
  PROVE  Copies(j) =< 1
<1>1. \A x, y \in Places(j) : x = y
  <2> DEFINE found(q) == {i \in DOMAIN q : q[i] = j}
  <2>1. ASSUME NEW q \in Seq(Jobs), IsInjective(q)
        PROVE  /\ \A i, k \in found(q) : i = k
               /\ found(q) # {} <=> j \in ToSet(q)
    BY <2>1, LenProperties, ListedIds
  <2>2. /\ \A i, k \in found(pending) : i = k
        /\ found(pending) # {} <=> j \in Waiting
    BY <2>1 DEF TypeInv, TypeOK, StoresTypeOK, CrashInv, OnePlace, Waiting
  <2>3. \A w \in WorkerIds : /\ \A i, k \in found(processing[w]) : i = k
                             /\ found(processing[w]) # {} <=> j \in Held(w)
    BY <2>1 DEF TypeInv, TypeOK, StoresTypeOK, CrashInv, OnePlace, Held
  <2>4. \A d \in Schedulers : sched[d].pc \notin {"update", "push"}
    BY DEF CrashInv, PassInv
  <2>5. delayed = {}
    BY DEF CrashInv, NoRetries
  <2>6. \A x \in Places(j) :
          \/ \E i \in found(pending) : x = <<"pending", i>>
          \/ \E w \in WorkerIds : \E i \in found(processing[w]) : x = <<"list", w, i>>
          \/ \E r \in Requests : api[r] = j /\ x = <<"request", r>>
    BY <2>4, <2>5 DEF Places
  <2> HIDE DEF found
  <2>7. /\ \A w \in WorkerIds : j \in Held(w) => j \notin Waiting
        /\ \A v, w \in WorkerIds : j \in Held(v) /\ j \in Held(w) => v = w
        /\ \A r \in Requests : api[r] = j => j \notin Waiting /\ \A w \in WorkerIds : j \notin Held(w)
        /\ \A r, t \in Requests : api[r] = j /\ api[t] = j => r = t
    BY NoJobAssumption DEF CrashInv, OnePlace
  <2> TAKE x, y \in Places(j)
  <2>8. CASE j \in Waiting
    BY <2>2, <2>3, <2>6, <2>7, <2>8
  <2>9. ASSUME NEW w \in WorkerIds, j \in Held(w)
        PROVE  x = y
    BY <2>2, <2>3, <2>6, <2>7, <2>9
  <2>10. CASE j \notin Waiting /\ \A w \in WorkerIds : j \notin Held(w)
    BY <2>2, <2>3, <2>6, <2>7, <2>10
  <2> QED
    BY <2>8, <2>9, <2>10
<1>2. Released(j) = {}
  BY DEF CrashInv, SlotInv, PassInv, DecisionStands, Reaping, Unfinished, Released
<1>3. Cardinality(Released(j)) = 0
  BY <1>2, FS_EmptySet
<1> QED
  BY <1>1, <1>3, AtMostOne DEF Copies

\* Two executions of a job never run at the same time, however workers die:
\* the reaper waits for the heartbeat to be gone (reaper.ts:98-107), and a
\* worker with a heartbeat is alive; one that comes back takes its list back
\* before it takes a job (worker/index.ts:227-267).
THEOREM CrashesRunAlone ==
  ASSUME CrashesOnly
  PROVE  Spec => []RunsAlone
<1>1. CrashInv => RunsAlone
  BY DEF CrashInv, SlotsApart, RunsAlone
<1> QED
  BY <1>1, CrashInvariant, PTL

\* No job is recorded twice (internals.md:238-239): what the reaper or the
\* sweep puts back, or the worker itself when it comes back, was not recorded
\* and has no execution left.
THEOREM CrashesRecordOnce ==
  ASSUME CrashesOnly
  PROVE  Spec => []AtMostOneEffect
<1>1. CrashInv => AtMostOneEffect
  BY DEF CrashInv, RowInv, RowFits, AtMostOneEffect
<1> QED
  BY <1>1, CrashInvariant, PTL

\* Wherever a process dies, an unfinished job is where the reaper, the sweep
\* or a worker will look for it.
THEOREM CrashesLoseNothing ==
  ASSUME CrashesOnly
  PROVE  Spec => []NothingLost
<1>1. CrashInv => NothingLost
  <2> SUFFICES ASSUME CrashInv, NEW j \in Jobs
               PROVE  /\ row[j].status = "running" => \E w \in WorkerIds : j \in Held(w)
                      /\ row[j].status # "retrying"
                      /\ row[j].status = "queued" => Placed(j)
    BY DEF NothingLost, Placed, Waiting, Held
  <2> QED
    BY DEF CrashInv, NoRetries, RowInv, RunningHeld
<1> QED
  BY <1>1, CrashInvariant, PTL

\* Neither the reaper, the sweep nor a worker that comes back copies an id of an
\* unfinished job, although the sweep reads the lists one after the other while
\* ids move (reaper.ts:23).
THEOREM CrashesCopyNothing ==
  ASSUME CrashesOnly
  PROVE  Spec => []AtMostOneCopy
<1>1. TypeInv /\ GhostInv /\ CrashInv => AtMostOneCopy
  BY OneCopyAtMost DEF AtMostOneCopy
<1> QED
  BY <1>1, CrashInvariant, PTL

-----------------------------------------------------------------------------
(* Every step is a step of the lifecycle, or none of the client's business. *)

\* The API accepts jobs (api/index.ts:78-131).
LEMMA ApiFollows ==
  ASSUME CrashesOnly, TypeInv, GhostInv, CrashInv, ApiStep
  PROVE  [L!Next]_(L!vars)
<1>a. row \in [Jobs -> Rows] /\ Spending
  BY DEF TypeInv, TypeOK, StoresTypeOK, CrashInv
<1>1. ASSUME NEW r \in Requests, NEW j \in Jobs, Submit(r, j)
      PROVE  L!Accept(j)
  <2> DEFINE q == InsertedRow
  <2>1. row' = [row EXCEPT ![j] = q] /\ row[j].status = "none" /\ effects' = effects
    BY <1>1 DEF Submit
  <2>2. q.status = "queued" /\ q.attempts = row[j].attempts
    BY <2>1 DEF CrashInv, RowInv, RowFits, InsertedRow, NoRow
  <2> HIDE DEF q
  <2> QED
    BY <1>a, <2>1, <2>2, UpdateShows DEF L!Accept
<1>2. ASSUME NEW r \in Requests, NEW j \in Jobs, Replay(r, j)
      PROVE  FALSE
  BY <1>2, <1>a, SpendUnbarred DEF Replay, Barred, Disturbances
<1>3. ASSUME NEW r \in Requests, Enqueue(r) \/ RequestDies(r)
      PROVE  UNCHANGED L!vars
  BY <1>3, NothingShows DEF Enqueue, RequestDies, postgres
<1>4. ASSUME NEW j \in Jobs, GrowOld(j)
      PROVE  UNCHANGED L!vars
  BY <1>a, <1>4, NothingShows DEF GrowOld, Rows
<1> QED
  BY <1>1, <1>2, <1>3, <1>4 DEF ApiStep, L!Next

\* An execution starts a run and completes it (worker/index.ts:79-125).
LEMMA SlotFollows ==
  ASSUME CrashesOnly, NoRestarts, TypeInv, GhostInv, CrashInv,
         NEW s \in Slots, NEW j, Job(s) = j, SlotStep(s)
  PROVE  [L!Next]_(L!vars)
<1>a. /\ row \in [Jobs -> Rows] /\ effects \in [Jobs -> Seq(Nat)] /\ SlotInv(s) /\ Spending
      /\ exec[s].pc # "idle" => j \in Jobs /\ RowInv(j) /\ row[j].status # "retrying"
  BY DEF TypeInv, TypeOK, StoresTypeOK, Assigned, SlotAssigned, CrashInv, NoRetries
<1>1. CASE UNCHANGED <<row, effects>>
  BY <1>1, NothingShows
<1>2. CASE Claim(s) /\ Claimable(row[j])
  <2> DEFINE q == ClaimedRow(row[j])
  <2>1. row' = [row EXCEPT ![j] = q] /\ effects' = effects /\ j \in Jobs
    BY <1>a, <1>2 DEF Claim
  <2>2. row[j].status = "queued" /\ row[j].attempts < MaxAttempts
    BY <1>a, <1>2 DEF Claim, Claimable, RowInv, RowFits
  <2>3. q.status = "running" /\ q.attempts = row[j].attempts + 1
    BY <1>a, <2>1 DEF ClaimedRow, Rows
  <2> HIDE DEF q
  <2>4. L!Turn(j, {"queued"}, "running")
    BY <1>a, <2>1, <2>2, <2>3, UpdateShows
  <2>5. [i \in Jobs |-> row[i].attempts]'
           = [[i \in Jobs |-> row[i].attempts] EXCEPT ![j] = row[j].attempts + 1]
    BY <1>a, <2>1, <2>2, <2>3, UpdateShows
  <2>6. L!StartRun(j)
    BY <2>1, <2>2, <2>4, <2>5 DEF L!StartRun
  <2> QED
    BY <2>1, <2>6 DEF L!Next
<1>3. CASE Succeed(s)
  <2> DEFINE q == SucceededRow(row[j])
  <2>1. /\ j \in Jobs /\ row[j].status = "running" /\ Len(effects[j]) = 0
        /\ Owns(row[j], exec[s].lease)
    BY <1>a, <1>3 DEF Succeed, SlotInv, Owns, RowInv, RowFits
  <2>2. /\ row' = [row EXCEPT ![j] = q]
        /\ effects' = [effects EXCEPT ![j] = Append(effects[j], exec[s].lease)]
    BY <1>3, <2>1 DEF Succeed, RecordSuccess
  <2>3. q.status = "succeeded" /\ q.attempts = row[j].attempts
    BY <1>a, <2>1 DEF SucceededRow, Rows
  <2> HIDE DEF q
  <2>4. L!Turn(j, {"running"}, "succeeded")
    BY <1>a, <2>1, <2>2, <2>3, UpdateShows
  <2>5. UNCHANGED [i \in Jobs |-> row[i].attempts]
    BY <1>a, <2>1, <2>2, <2>3
  <2>6. [i \in Jobs |-> Len(effects[i])]'
           = [[i \in Jobs |-> Len(effects[i])] EXCEPT ![j] = Len(effects[j]) + 1]
    <3>1. effects[j] \in Seq(Nat) /\ exec[s].lease \in Nat
      BY <1>a, <2>1 DEF TypeInv, TypeOK, WorkerTypeOK, Execs
    <3>2. Len(Append(effects[j], exec[s].lease)) = Len(effects[j]) + 1
      BY <3>1
    <3> QED
      BY <1>a, <2>1, <2>2, <3>2
  <2>7. L!Complete(j)
    BY <2>1, <2>4, <2>5, <2>6 DEF L!Complete
  <2> QED
    BY <2>1, <2>7 DEF L!Next
<1>4. CASE Take(s) \/ (Claim(s) /\ ~Claimable(row[j])) \/ Schedule(s) \/ Release(s)
  BY <1>1, <1>4 DEF Take, Claim, Schedule, Release, postgres
<1>5. ~(LoseCommitAnswer(s) \/ FailToCommit(s) \/ Abandon(s))
  BY <1>a, SpendUnbarred DEF LoseCommitAnswer, FailToCommit, Abandon, Barred, Disturbances
<1>6. ~(Bury(s) \/ Park(s))
  BY <1>a DEF Bury, Park, Failing, SlotInv, CrashesOnly
<1> QED
  BY <1>2, <1>3, <1>4, <1>5, <1>6 DEF SlotStep

\* A scheduler recovers a run whose worker is gone, or gives the job up
\* (reaper.ts:45-93).
LEMMA PassFollows ==
  ASSUME CrashesOnly, TypeInv, GhostInv, CrashInv,
         NEW d \in Schedulers, NEW j, sched[d].job = j, PassStep(d)
  PROVE  [L!Next]_(L!vars)
<1>a. /\ row \in [Jobs -> Rows] /\ PassInv(d)
      /\ sched[d].pc \in {"bury", "rescue"} => j \in Jobs /\ RowInv(j)
  BY DEF TypeInv, TypeOK, StoresTypeOK, Assigned, PassAssigned, CrashInv
<1>1. CASE UNCHANGED <<row, effects>>
  BY <1>1, NothingShows
<1>2. CASE BuryLost(d)
  <2> DEFINE q == BuriedRow(row[j])
  <2>1. row' = [row EXCEPT ![j] = q] /\ effects' = effects /\ j \in Jobs
    BY <1>a, <1>2 DEF BuryLost, At
  <2>2. row[j].status = "running" /\ row[j].attempts = MaxAttempts
    BY <1>a, <1>2 DEF BuryLost, At, PassInv, DecisionStands, Reaping
  <2>3. q.status = "dead" /\ q.attempts = row[j].attempts
    BY <1>a, <2>1 DEF BuriedRow, Rows
  <2> HIDE DEF q
  <2>4. L!GiveUp(j)
    BY <1>a, <2>1, <2>2, <2>3, UpdateShows DEF L!GiveUp
  <2> QED
    BY <2>1, <2>4 DEF L!Next
<1>3. CASE Rescue(d)
  <2> DEFINE q == RescuedRow(row[j])
  <2>1. row' = [row EXCEPT ![j] = q] /\ effects' = effects /\ j \in Jobs
    BY <1>a, <1>3 DEF Rescue, At
  <2>2. row[j].status \in {"queued", "running"} /\ row[j].attempts < MaxAttempts
    BY <1>a, <1>3 DEF Rescue, At, PassInv, DecisionStands, Reaping
  <2>3. q.status = "queued" /\ q.attempts = row[j].attempts
    BY <1>a, <2>1 DEF RescuedRow, Rows
  <2> HIDE DEF q
  <2>4. CASE row[j].status = "running"
    <3>1. L!Recover(j)
      BY <1>a, <2>1, <2>2, <2>3, <2>4, UpdateShows DEF L!Recover
    <3> QED
      BY <2>1, <3>1 DEF L!Next
  <2>5. CASE row[j].status = "queued"
    BY <1>a, <2>1, <2>3, <2>5, NothingShows
  <2> QED
    BY <2>2, <2>4, <2>5
<1>4. ~RequeueDue(d)
  BY <1>a DEF PassInv, RequeueDue, At
<1>5. CASE UNCHANGED postgres
  BY <1>1, <1>5 DEF postgres
<1>6. BuryLost(d) \/ Rescue(d) \/ RequeueDue(d) \/ UNCHANGED postgres
  <2> USE DEF postgres, stores
  <2>1. CASE (\E i \in Jobs : ClaimDue(d, i)) \/ PushDue(d) \/ BeginPass(d)
    BY <2>1 DEF ClaimDue, PushDue, BeginPass
  <2>2. CASE \E w \in WorkerIds : VisitList(d, w) \/ ReadList(d, w)
    BY <2>2 DEF VisitList, ReadList
  <2>3. CASE Peek(d) \/ Inspect(d) \/ Drop(d) \/ MoveBack(d) \/ EndReap(d)
    BY <2>3 DEF Peek, Inspect, Drop, MoveBack, EndReap
  <2>4. CASE Query(d) \/ ReadPending(d) \/ ScanLists(d) \/ EndSweep(d) \/ Interrupt(d)
    BY <2>4 DEF Query, ReadPending, ScanLists, EndSweep, Interrupt
  <2>5. CASE \E i \in Jobs : PushOrphan(d, i)
    BY <2>5 DEF PushOrphan
  <2> QED
    BY <2>1, <2>2, <2>3, <2>4, <2>5 DEF PassStep
<1> QED
  BY <1>2, <1>3, <1>4, <1>5, <1>6

\* Under crashes, every behaviour of the system is one of the lifecycle that
\* schema.sql draws: only an accepted job runs, a recorded one never runs
\* again, no job is started more often than max_attempts.  With restarts the
\* last would not hold: recoverOwnProcessing() does not look at max_attempts
\* (worker/index.ts:256-261).
THEOREM CrashesFollowLifecycle ==
  ASSUME CrashesOnly, NoRestarts
  PROVE  Spec => FollowsLifecycle
<1>1. Init => L!Init
  BY DEF Init, StoresInit, NoRow, L!Init
<1>2. TypeInv /\ GhostInv /\ CrashInv /\ [Next]_vars => [L!Next]_(L!vars)
  <2> SUFFICES ASSUME TypeInv, GhostInv, CrashInv, [Next]_vars PROVE [L!Next]_(L!vars)
    OBVIOUS
  <2>1. CASE ApiStep
    BY <2>1, ApiFollows
  <2>2. CASE WorkerStep
    <3>1. ASSUME NEW s \in Slots, SlotStep(s)
          PROVE  [L!Next]_(L!vars)
      BY <3>1, SlotFollows
    <3>2. ASSUME NEW p \in Procs, ProcStep(p)
          PROVE  UNCHANGED L!vars
      <4>1. ~RequeueOwn(p)
        BY DEF CrashInv, OneLife, RequeueOwn
      <4>2. UNCHANGED <<row, effects>>
        BY <3>2, <4>1
        DEF ProcStep, Start, FindNoHeartbeat, LeaveListAlone, ReadOwnList, MoveBackOwn,
            StartBeating, TakeUnanswered, Beat, Stop, Drained, Crash, stores, postgres
      <4> QED
        BY <4>2, NothingShows
    <3>3. ASSUME NEW w \in WorkerIds, Expire(w)
          PROVE  UNCHANGED L!vars
      BY <3>3, NothingShows DEF Expire, postgres
    <3> QED
      BY <2>2, <3>1, <3>2, <3>3 DEF WorkerStep
  <2>3. CASE SchedStep
    BY <2>3, PassFollows DEF SchedStep
  <2>4. CASE UNCHANGED vars
    BY <2>4, NothingShows DEF vars, stores
  <2> QED
    BY <2>1, <2>2, <2>3, <2>4 DEF Next
<1> QED
  BY <1>1, <1>2, CrashInvariant, PTL DEF Spec, L!Spec, FollowsLifecycle
=============================================================================
