----------------------------- MODULE CalmProofs ------------------------------
(***************************************************************************)
(* What QueueFlow guarantees while nothing fails but handlers: the         *)
(* environment of the run Calm, for any number of jobs, workers, slots,    *)
(* schedulers and requests.  Handlers return or throw, schedulers race for *)
(* due retries, workers are told to stop and dead jobs are replayed, any   *)
(* number of times each.  No process dies, no call fails, no heartbeat     *)
(* lapses, no row gets old, and every process has its own WORKER_ID:       *)
(* CalmOnly.                                                               *)
(*                                                                         *)
(* None of the properties is inductive.  The invariant behind them is that *)
(* an unfinished job has exactly one keeper, of a kind that its status     *)
(* names, and a finished one has none (Custody): the request that will     *)
(* push its id, the pending list, the execution, the delayed set or the    *)
(* scheduler that claimed it from there.  A processing list is no keeper:  *)
(* it mirrors what the slots of its process do, and holds an id once for   *)
(* each of them that works on it (Tally), twice when a job is taken again  *)
(* before an earlier execution of it has done its LREM.                    *)
(***************************************************************************)
EXTENDS SafetyProofs, FiniteSetTheorems

Allowed == {"stop", "replay"}

CalmOnly ==
  /\ \A p, q \in Procs : IdOf[p] = IdOf[q] => p = q
  /\ \A k \in Disturbances \ Allowed : Budget[k] = 0

-----------------------------------------------------------------------------
(* The inductive invariant.                                                *)

Kinds   == {"request", "pending", "claim", "run", "zadd", "delayed", "update", "push"}
Keepers == Requests \cup Slots \cup Schedulers \cup {NoJob}

\* x, which is one of its kind, has the id of job j to pass on.  There is one
\* pending list and one delayed set.
Keeps(k, x, j) ==
  \/ k = "request" /\ x \in Requests /\ api[x] = j
  \/ k = "pending" /\ x = NoJob /\ j \in Waiting
  \/ k = "delayed" /\ x = NoJob /\ j \in delayed
  \/ k \in {"claim", "run", "zadd"} /\ x \in Slots /\ exec[x].pc = k /\ Job(x) = j
  \/ k \in {"update", "push"} /\ x \in Schedulers /\ sched[x].pc = k /\ sched[x].job = j

\* What the row says of a job while a keeper of this kind has it.
StatusAt(k) ==
  CASE k \in {"request", "pending", "claim", "push"} -> "queued"
    [] k = "run"                                     -> "running"
    [] k \in {"zadd", "delayed", "update"}           -> "retrying"

Custody(j) ==
  /\ \A k \in Kinds, x \in Keepers : Keeps(k, x, j) => row[j].status = StatusAt(k)
  /\ \A k, l \in Kinds, x, y \in Keepers : Keeps(k, x, j) /\ Keeps(l, y, j) => k = l /\ x = y
  /\ Unfinished(j) => \E k \in Kinds, x \in Keepers : Keeps(k, x, j)

\* where an id is in a list, and which slots work on it
Found(q, j)   == {i \in DOMAIN q : q[i] = j}
Busy(j)       == {s \in Slots : exec[s].pc # "idle" /\ Job(s) = j}
BusyFor(w, j) == {s \in Busy(j) : HolderOf(s) = w}

Tally(j) ==
  /\ IsFiniteSet(Busy(j))
  /\ \A w \in WorkerIds : Cardinality(Found(processing[w], j)) = Cardinality(BusyFor(w, j))

CalmRow(j) ==
  /\ ~row[j].old
  /\ row[j].status = "none" => row[j].attempts = 0
  /\ row[j].status \in {"queued", "retrying"} => row[j].attempts < MaxAttempts
  /\ row[j].status = "running" => row[j].attempts \in 1..MaxAttempts
  /\ Len(effects[j]) = IF row[j].status = "succeeded" THEN 1 ELSE 0

CalmSlot(s) ==
  exec[s].pc # "idle" =>
    /\ exec[s].pc \in {"claim", "run", "zadd", "release"}
    /\ Beating(ProcOf[s])
    /\ exec[s].pc = "run" => /\ exec[s].lease = row[Job(s)].lease
                             /\ exec[s].attempts = row[Job(s)].attempts

CalmProc(p) ==
  /\ proc[p] \notin {"requeue", "moveback"}
  /\ Beating(p) => alive[IdOf[p]]

CalmPass(d) ==
  /\ sched[d].pc \in {"idle", "update", "push", "lists", "peek", "sweep"}
  /\ sched[d].pc \in {"lists", "peek"} => \A w \in sched[d].lists : Started(w)
  /\ sched[d].pc = "peek" => Gone(sched[d].wid)

CalmInv ==
  /\ Spending /\ IsInjective(pending)
  /\ \A j \in Jobs : Custody(j) /\ Tally(j) /\ CalmRow(j)
  /\ \A s \in Slots : CalmSlot(s)
  /\ \A p \in Procs : CalmProc(p)
  /\ \A d \in Schedulers : CalmPass(d)

-----------------------------------------------------------------------------
(* Counting the copies of an id in a list.                                 *)

\* An id is in a list finitely often, and not at all when it is not in it.
LEMMA FoundFinite ==
  ASSUME NEW S, NEW q \in Seq(S), NEW j
  PROVE  /\ Found(q, j) = {i \in 1..Len(q) : q[i] = j}
         /\ IsFiniteSet(Found(q, j)) /\ Cardinality(Found(q, j)) \in Nat
         /\ Cardinality(Found(q, j)) = 0 <=> j \notin ToSet(q)
<1>1. Len(q) \in Nat /\ DOMAIN q = 1..Len(q)
  BY LenProperties
<1>2. Found(q, j) = {i \in 1..Len(q) : q[i] = j}
  BY <1>1 DEF Found
<1>3. IsFiniteSet(1..Len(q)) /\ Found(q, j) \in SUBSET (1..Len(q))
  BY <1>1, <1>2, FS_Interval
<1>4. IsFiniteSet(Found(q, j))
  BY <1>3, FS_Subset
<1>5. Cardinality(Found(q, j)) \in Nat
  BY <1>4, FS_CardinalityType
<1>6. Cardinality(Found(q, j)) = 0 <=> Found(q, j) = {}
  BY <1>4, FS_EmptySet
<1>7. Found(q, j) = {} <=> j \notin ToSet(q)
  BY <1>2, ListedIds
<1> QED
  BY <1>2, <1>4, <1>5, <1>6, <1>7

\* Two sets of places that a one-to-one map connects are equally large.
LEMMA SameSize ==
  ASSUME NEW A, NEW B, IsFiniteSet(A), NEW f \in [A -> B],
         \A x, y \in A : f[x] = f[y] => x = y,
         \A z \in B : \E x \in A : f[x] = z
  PROVE  IsFiniteSet(B) /\ Cardinality(B) = Cardinality(A)
<1>1. f \in Bijection(A, B)
  BY DEF Bijection, Injection, Surjection, IsInjective
<1> QED
  BY <1>1, FS_Bijection DEF ExistsBijection

\* LPUSH, which BLMOVE does at its destination, adds one copy of its id.
LEMMA PushCounts ==
  ASSUME NEW S, NEW q \in Seq(S), NEW id \in S, NEW j
  PROVE  /\ j = id => Cardinality(Found(<<id>> \o q, j)) = Cardinality(Found(q, j)) + 1
         /\ j # id => Cardinality(Found(<<id>> \o q, j)) = Cardinality(Found(q, j))
<1> DEFINE p == <<id>> \o q
           A == Found(q, j)
           B == Found(p, j)
           f == [i \in A |-> i + 1]
<1>1. /\ p \in Seq(S) /\ Len(p) = 1 + Len(q)
      /\ \A i \in 1..Len(p) : p[i] = IF i = 1 THEN id ELSE q[i-1]
  <2>1. <<id>> \in Seq(S) /\ Len(<<id>>) = 1 /\ <<id>>[1] = id
    OBVIOUS
  <2> QED
    BY <2>1, ConcatProperties
<1>2. Len(q) \in Nat
  BY LenProperties
<1> HIDE DEF p
<1>3. A = {i \in 1..Len(q) : q[i] = j} /\ IsFiniteSet(A) /\ Cardinality(A) \in Nat
  BY FoundFinite
<1>4. B = {i \in 1..Len(p) : p[i] = j} /\ IsFiniteSet(B)
  BY <1>1, FoundFinite
<1> HIDE DEF A, B
<1>5. ASSUME NEW i \in 1..Len(p)
      PROVE  i \in B <=> \/ i = 1 /\ j = id
                         \/ i - 1 \in A
  BY <1>1, <1>2, <1>3, <1>4
<1>6. \A i \in A : i \in Nat /\ i + 1 \in B \ {1}
  BY <1>1, <1>2, <1>3, <1>4
<1>7. \A i \in B \ {1} : i \in Nat /\ i - 1 \in A /\ (i - 1) + 1 = i
  BY <1>1, <1>2, <1>4, <1>5
<1>8. Cardinality(B \ {1}) = Cardinality(A)
  <2>1. f \in [A -> B \ {1}]
    BY <1>6
  <2>2. \A x, y \in A : f[x] = f[y] => x = y
    BY <1>6
  <2>3. \A z \in B \ {1} : \E x \in A : f[x] = z
    <3> TAKE z \in B \ {1}
    <3>1. z - 1 \in A /\ f[z - 1] = z
      BY <1>7
    <3> QED
      BY <3>1
  <2> DEFINE C == B \ {1}
  <2> HIDE DEF f, C
  <2>4. IsFiniteSet(C) /\ Cardinality(C) = Cardinality(A)
    <3>1. f \in [A -> C] /\ \A z \in C : \E x \in A : f[x] = z
      BY <2>1, <2>3 DEF C
    <3>2. IsFiniteSet(A)
      BY <1>3
    <3> QED
      BY <2>2, <3>1, <3>2, SameSize
  <2> QED
    BY <2>4 DEF C
<1>9. 1 \in 1..Len(p) /\ (1 \in B <=> j = id)
  BY <1>1, <1>2, <1>4
<1>10. /\ 1 \in B => Cardinality(B \ {1}) = Cardinality(B) - 1
       /\ 1 \notin B => Cardinality(B \ {1}) = Cardinality(B)
  BY <1>4, FS_RemoveElement
<1>11. Cardinality(B) \in Nat
  BY <1>4, FS_CardinalityType
<1> QED
  BY <1>3, <1>8, <1>9, <1>10, <1>11 DEF A, B, p

\* Removing an element of a list takes one copy of it out, and nothing else.
LEMMA RemoveCounts ==
  ASSUME NEW S, NEW q \in Seq(S), NEW n \in 1..Len(q), NEW j
  PROVE  /\ j = q[n] => Cardinality(Found(RemoveAt(q, n), j)) = Cardinality(Found(q, j)) - 1
         /\ j # q[n] => Cardinality(Found(RemoveAt(q, n), j)) = Cardinality(Found(q, j))
<1> DEFINE p == RemoveAt(q, n)
           A == Found(p, j)
           B == Found(q, j)
           f == [i \in A |-> IF i < n THEN i ELSE i + 1]
<1>1. /\ p \in Seq(S) /\ Len(p) = Len(q) - 1
      /\ \A i \in 1..Len(p) : p[i] = IF i < n THEN q[i] ELSE q[i+1]
  BY RemovedList
<1>2. Len(q) \in Nat
  BY LenProperties
<1> HIDE DEF p
<1>3. A = {i \in 1..Len(p) : p[i] = j} /\ IsFiniteSet(A)
  BY <1>1, FoundFinite
<1>4. B = {i \in 1..Len(q) : q[i] = j} /\ IsFiniteSet(B) /\ Cardinality(B) \in Nat
  BY FoundFinite
<1> HIDE DEF A, B
<1>5. \A i \in A : /\ i \in Nat
                   /\ i < n => i \in B \ {n}
                   /\ ~(i < n) => i + 1 \in B \ {n}
  BY <1>1, <1>2, <1>3, <1>4
<1>6. ASSUME NEW z \in B \ {n}
      PROVE  \/ z < n /\ z \in A
             \/ z > n /\ z - 1 \in A /\ ~(z - 1 < n) /\ (z - 1) + 1 = z
  <2>1. z \in 1..Len(q) /\ q[z] = j /\ z # n
    BY <1>4
  <2>2. CASE z < n
    <3>1. z \in 1..Len(p) /\ p[z] = q[z]
      BY <1>1, <1>2, <2>1, <2>2
    <3> QED
      BY <1>3, <2>1, <2>2, <3>1
  <2>3. CASE z > n
    <3>1. z - 1 \in 1..Len(p) /\ ~(z - 1 < n) /\ (z - 1) + 1 = z
      BY <1>1, <1>2, <2>1, <2>3
    <3>2. p[z - 1] = q[z]
      BY <1>1, <3>1
    <3> QED
      BY <1>3, <2>1, <2>3, <3>1, <3>2
  <2> QED
    BY <1>2, <2>1, <2>2, <2>3
<1>7. Cardinality(B \ {n}) = Cardinality(A)
  <2>1. f \in [A -> B \ {n}]
    BY <1>5
  <2>2. \A x, y \in A : f[x] = f[y] => x = y
    BY <1>2, <1>5
  <2>3. \A z \in B \ {n} : \E x \in A : f[x] = z
    BY <1>6
  <2> DEFINE C == B \ {n}
  <2> HIDE DEF f, C
  <2>4. IsFiniteSet(C) /\ Cardinality(C) = Cardinality(A)
    <3>1. f \in [A -> C] /\ \A z \in C : \E x \in A : f[x] = z
      BY <2>1, <2>3 DEF C
    <3>2. IsFiniteSet(A)
      BY <1>3
    <3> QED
      BY <2>2, <3>1, <3>2, SameSize
  <2> QED
    BY <2>4 DEF C
<1>8. n \in B <=> j = q[n]
  BY <1>4
<1>9. /\ n \in B => Cardinality(B \ {n}) = Cardinality(B) - 1
      /\ n \notin B => Cardinality(B \ {n}) = Cardinality(B)
  BY <1>4, FS_RemoveElement
<1> QED
  BY <1>7, <1>8, <1>9 DEF A, B, p

\* LREM key 1 takes one copy of its id out, when there is one.
LEMMA DropCounts ==
  ASSUME NEW S, NEW q \in Seq(S), NEW id, id \in ToSet(q), NEW j
  PROVE  /\ DropFromHead(q, id) \in Seq(S)
         /\ j = id => Cardinality(Found(DropFromHead(q, id), j)) = Cardinality(Found(q, j)) - 1
         /\ j # id => Cardinality(Found(DropFromHead(q, id), j)) = Cardinality(Found(q, j))
<1> DEFINE I == {i \in 1..Len(q) : q[i] = id}
<1>1. Len(q) \in Nat /\ DOMAIN q = 1..Len(q)
  BY LenProperties
<1>2. I \in SUBSET Nat /\ I # {}
  BY <1>1 DEF ToSet
<1>3. Min(I) \in I
  <2> HIDE DEF I
  <2> QED
    BY <1>2, LeastIndex
<1>4. DropFromHead(q, id) = RemoveAt(q, Min(I))
  BY <1>1, <1>2 DEF DropFromHead, RemoveFirst, SelectInSeq
<1> QED
  BY <1>3, <1>4, RemoveCounts, DropFromHeadType

-----------------------------------------------------------------------------
(* Custody: how a step may change who keeps a job.                         *)

\* A job that is not accepted yet, or finished, has no keeper.
LEMMA NoKeeper ==
  ASSUME NEW j, Custody(j), row[j].status \notin {"queued", "running", "retrying"}
  PROVE  \A k \in Kinds, x \in Keepers : ~Keeps(k, x, j)
BY DEF Custody, Kinds, StatusAt

\* Two keepers of a job are one.
LEMMA OneKeeper ==
  ASSUME NEW j, Custody(j), NEW k \in Kinds, NEW x \in Keepers, Keeps(k, x, j)
  PROVE  /\ row[j].status = StatusAt(k)
         /\ \A l \in Kinds, y \in Keepers : Keeps(l, y, j) <=> l = k /\ y = x
BY DEF Custody

\* One keeper hands a job on to another one.
LEMMA CustodyPasses ==
  ASSUME \A j \in Jobs : Custody(j), NEW i \in Jobs,
         NEW k \in Kinds, NEW x \in Keepers, Keeps(k, x, i), ~Keeps(k, x, i)',
         NEW l \in Kinds, NEW y \in Keepers, Keeps(l, y, i)',
         \A j \in Jobs, m \in Kinds, z \in Keepers :
           \/ j = i /\ m = k /\ z = x
           \/ j = i /\ m = l /\ z = y
           \/ Keeps(m, z, j)' <=> Keeps(m, z, j),
         row'[i].status = StatusAt(l),
         \A j \in Jobs : j # i => row'[j].status = row[j].status
  PROVE  \A j \in Jobs : Custody(j)'
<1>1. ASSUME NEW j \in Jobs, j # i
      PROVE  Custody(j)'
  BY <1>1 DEF Custody, Unfinished
<1>2. Custody(i)'
  <2>1. \A m \in Kinds, z \in Keepers : Keeps(m, z, i)' <=> m = l /\ z = y
    BY OneKeeper
  <2> QED
    BY <2>1 DEF Custody
<1> QED
  BY <1>1, <1>2

\* A job that nobody kept gets its first keeper.
LEMMA CustodyBegins ==
  ASSUME \A j \in Jobs : Custody(j), NEW i \in Jobs,
         \A k \in Kinds, x \in Keepers : ~Keeps(k, x, i),
         NEW l \in Kinds, NEW y \in Keepers, Keeps(l, y, i)',
         \A j \in Jobs, m \in Kinds, z \in Keepers :
           \/ j = i /\ m = l /\ z = y
           \/ Keeps(m, z, j)' <=> Keeps(m, z, j),
         row'[i].status = StatusAt(l),
         \A j \in Jobs : j # i => row'[j].status = row[j].status
  PROVE  \A j \in Jobs : Custody(j)'
<1>1. ASSUME NEW j \in Jobs, j # i
      PROVE  Custody(j)'
  BY <1>1 DEF Custody, Unfinished
<1>2. Custody(i)'
  <2>1. \A m \in Kinds, z \in Keepers : Keeps(m, z, i)' <=> m = l /\ z = y
    OBVIOUS
  <2> QED
    BY <2>1 DEF Custody
<1> QED
  BY <1>1, <1>2

\* The last keeper of a job finishes it.
LEMMA CustodyEnds ==
  ASSUME \A j \in Jobs : Custody(j), NEW i \in Jobs,
         NEW k \in Kinds, NEW x \in Keepers, Keeps(k, x, i), ~Keeps(k, x, i)',
         \A j \in Jobs, m \in Kinds, z \in Keepers :
           \/ j = i /\ m = k /\ z = x
           \/ Keeps(m, z, j)' <=> Keeps(m, z, j),
         row'[i].status \in Terminal,
         \A j \in Jobs : j # i => row'[j].status = row[j].status
  PROVE  \A j \in Jobs : Custody(j)'
<1>1. ASSUME NEW j \in Jobs, j # i
      PROVE  Custody(j)'
  BY <1>1 DEF Custody, Unfinished
<1>2. Custody(i)'
  <2>1. \A m \in Kinds, z \in Keepers : ~Keeps(m, z, i)'
    BY OneKeeper
  <2> QED
    BY <2>1 DEF Custody, Unfinished
<1> QED
  BY <1>1, <1>2

\* Nobody hands anything on.
LEMMA CustodyStays ==
  ASSUME \A j \in Jobs : Custody(j),
         \A j \in Jobs, m \in Kinds, z \in Keepers : Keeps(m, z, j)' <=> Keeps(m, z, j),
         \A j \in Jobs : row'[j].status = row[j].status
  PROVE  \A j \in Jobs : Custody(j)'
<1> TAKE j \in Jobs
<1> QED
  BY DEF Custody, Unfinished

-----------------------------------------------------------------------------
(* Frames: what a step has to leave alone for a part of the invariant to   *)
(* survive it.                                                             *)

\* Nothing that is not allowed is ever spent.
LEMMA SpendAllowed ==
  ASSUME CalmOnly, TypeInv, Spending, NEW k \in Disturbances, Spend(k)
  PROVE  k \in Allowed /\ Spending'
<1>1. /\ budget \in [Disturbances -> Nat] /\ budget[k] \in Nat /\ Budget[k] \in Nat
      /\ budget[k] =< Budget[k] /\ budget[k] > 0
      /\ budget' = [budget EXCEPT ![k] = budget[k] - 1]
  BY BudgetAssumption DEF TypeInv, TypeOK, StoresTypeOK, Spending, Spend
<1>2. \A l \in Disturbances : l # k => budget'[l] = budget[l]
  BY <1>1
<1>3. budget'[k] = budget[k] - 1
  BY <1>1
<1> QED
  BY <1>1, <1>2, <1>3 DEF CalmOnly, Spending

\* What the invariant and the types say of a slot that works on a job.
LEMMA BusySlot ==
  ASSUME TypeInv, CalmInv, NEW s \in Slots, exec[s].pc # "idle"
  PROVE  /\ Job(s) \in Jobs /\ s \in Busy(Job(s)) /\ s \in Keepers
         /\ HolderOf(s) \in WorkerIds /\ ProcOf[s] \in Procs
         /\ exec[s].pc \in {"claim", "run", "zadd", "release"}
         /\ exec[s].pc # "release" => Keeps(exec[s].pc, s, Job(s))
BY IdOfAssumption, ProcOfAssumption
DEF TypeInv, Assigned, SlotAssigned, CalmInv, CalmSlot, Keepers, Keeps, Busy, HolderOf

\* A list that holds an id belongs to a process that beats.
LEMMA HeldIsBeating ==
  ASSUME TypeInv, CalmInv, NEW w \in WorkerIds, processing[w] # <<>>
  PROVE  \E p \in Procs : IdOf[p] = w /\ Beating(p)
<1>1. processing[w] \in Seq(Jobs)
  BY DEF TypeInv, TypeOK, StoresTypeOK
<1>2. PICK j \in Jobs : j \in ToSet(processing[w])
  BY <1>1, ListedIds
<1>3. Cardinality(Found(processing[w], j)) # 0
  BY <1>1, <1>2, FoundFinite
<1>4. BusyFor(w, j) # {}
  <2>1. Cardinality(BusyFor(w, j)) # 0
    BY <1>3 DEF CalmInv, Tally
  <2> QED
    BY <2>1, FS_EmptySet
<1>5. PICK s \in Slots : exec[s].pc # "idle" /\ HolderOf(s) = w
  BY <1>4 DEF BusyFor, Busy
<1> QED
  BY <1>5, ProcOfAssumption DEF CalmInv, CalmSlot, HolderOf

\* Conversely the id of every execution is in the list of its process.
LEMMA BusyIsListed ==
  ASSUME TypeInv, CalmInv, NEW s \in Slots, exec[s].pc # "idle"
  PROVE  Job(s) \in ToSet(processing[HolderOf(s)])
<1> DEFINE w == HolderOf(s)
           j == Job(s)
<1>1. j \in Jobs /\ w \in WorkerIds /\ s \in BusyFor(w, j)
  BY BusySlot DEF BusyFor
<1>2. processing[w] \in Seq(Jobs)
  BY <1>1 DEF TypeInv, TypeOK, StoresTypeOK
<1>3. IsFiniteSet(BusyFor(w, j))
  <2>1. IsFiniteSet(Busy(j)) /\ BusyFor(w, j) \in SUBSET Busy(j)
    BY <1>1 DEF CalmInv, Tally, BusyFor
  <2> QED
    BY <2>1, FS_Subset
<1>4. Cardinality(BusyFor(w, j)) # 0
  BY <1>1, <1>3, FS_EmptySet
<1>5. Cardinality(Found(processing[w], j)) # 0
  BY <1>1, <1>4 DEF CalmInv, Tally
<1> HIDE DEF w, j
<1> QED
  BY <1>2, <1>5, FoundFinite DEF w, j

\* The list of a process that has stopped is empty.
LEMMA GoneIsEmpty ==
  ASSUME CalmOnly, TypeInv, CalmInv, NEW w \in WorkerIds, Gone(w)
  PROVE  processing[w] = <<>>
BY HeldIsBeating DEF CalmOnly, Gone, Beating

\* Counts survive while the lists do and slots stay with their jobs.
LEMMA TallyStays ==
  ASSUME \A j \in Jobs : Tally(j), processing' = processing,
         \A s \in Slots : /\ exec'[s].pc = "idle" <=> exec[s].pc = "idle"
                          /\ exec[s].pc # "idle" => exec'[s].job = exec[s].job
  PROVE  \A j \in Jobs : Tally(j)'
<1> TAKE j \in Jobs
<1>1. Busy(j)' = Busy(j)
  BY DEF Busy, Job
<1>2. \A w \in WorkerIds : BusyFor(w, j)' = BusyFor(w, j)
  BY <1>1 DEF BusyFor, HolderOf
<1> QED
  BY <1>1, <1>2 DEF Tally

\* What a process and a pass know stands while processes only move on.
LEMMA OthersStand ==
  ASSUME TypeInv, CalmInv, UNCHANGED <<proc, alive>>
  PROVE  /\ \A p \in Procs : CalmProc(p)'
         /\ \A d \in Schedulers : sched'[d] = sched[d] => CalmPass(d)'
<1>1. \A p \in Procs : CalmProc(p)'
  BY DEF CalmInv, CalmProc, Beating
<1>2. \A w : (Started(w)' <=> Started(w)) /\ (Gone(w)' <=> Gone(w))
  BY DEF Started, Gone
<1>3. \A d \in Schedulers : sched'[d] = sched[d] => CalmPass(d)'
  BY <1>2 DEF CalmInv, CalmPass
<1> QED
  BY <1>1, <1>3

\* A step in which one job moves on, in whose hands it ever is, and no list of
\* a worker changes: what is left to show of it.
LEMMA JobMoves ==
  ASSUME TypeInv, CalmInv, NEW i \in Jobs, UNCHANGED <<proc, alive, processing>>,
         \A j \in Jobs : j # i => row'[j] = row[j] /\ effects'[j] = effects[j],
         Spending', IsInjective(pending'), CalmRow(i)',
         \A j \in Jobs : Custody(j)',
         \A s \in Slots :
           \/ exec'[s] = exec[s] /\ (Keeps("run", s, i) => row'[i] = row[i])
           \/ /\ exec[s].pc # "idle" /\ exec'[s].pc # "idle" /\ exec'[s].job = exec[s].job
              /\ CalmSlot(s)',
         \A d \in Schedulers : sched'[d] = sched[d] \/ CalmPass(d)'
  PROVE  CalmInv'
<1>1. \A j \in Jobs : Tally(j)'
  BY TallyStays DEF CalmInv
<1>2. \A j \in Jobs : CalmRow(j)'
  BY DEF CalmInv, CalmRow
<1>3. ASSUME NEW s \in Slots
      PROVE  CalmSlot(s)'
  <2>1. CASE CalmSlot(s)'
    BY <2>1
  <2>2. CASE exec'[s] = exec[s] /\ (Keeps("run", s, i) => row'[i] = row[i])
    <3>1. exec[s].pc = "run" => Job(s) \in Jobs /\ row'[Job(s)] = row[Job(s)]
      BY <2>2, BusySlot
    <3>2. Beating(ProcOf[s])' <=> Beating(ProcOf[s])
      BY DEF Beating
    <3> QED
      BY <2>2, <3>1, <3>2 DEF CalmInv, CalmSlot, Job
  <2> QED
    BY <2>1, <2>2
<1>4. (\A p \in Procs : CalmProc(p)') /\ \A d \in Schedulers : CalmPass(d)'
  BY OthersStand
<1> QED
  BY <1>1, <1>2, <1>3, <1>4 DEF CalmInv

-----------------------------------------------------------------------------
(* One lemma per process, one step per action.                             *)

\* A request accepts or revives a job, and then puts its id into pending
\* (api/index.ts).
LEMMA ApiCalmStep ==
  ASSUME CalmOnly, TypeInv, CalmInv, ApiStep
  PROVE  CalmInv'
<1> USE DEF postgres, redis, stores, workerVars
<1>a. UNCHANGED <<proc, alive, processing, exec, sched, effects, delayed>>
  BY DEF ApiStep, Submit, Replay, Enqueue, RequestDies, GrowOld
<1>b. /\ row \in [Jobs -> Rows] /\ api \in [Requests -> Jobs \cup {NoJob}]
      /\ effects \in [Jobs -> Seq(Nat)] /\ pending \in Seq(Jobs)
  BY DEF TypeInv, TypeOK, StoresTypeOK, ApiTypeOK
<1>c. Spending /\ IsInjective(pending) /\ \A j \in Jobs : Custody(j)
  BY DEF CalmInv
\* what both inserting and reviving a row do
<1>d. ASSUME NEW r \in Requests, NEW i \in Jobs, row[i].status \in {"none", "dead"},
             row'[i].status = "queued", row'[i].attempts = 0, ~row'[i].old,
             \A j \in Jobs : j # i => row'[j] = row[j],
             api[r] = NoJob, api' = [api EXCEPT ![r] = i],
             pending' = pending, Spending'
      PROVE  CalmInv'
  <2>1. api'[r] = i /\ \A t \in Requests : t # r => api'[t] = api[t]
    BY <1>b, <1>d
  <2>2. \A k \in Kinds, x \in Keepers : ~Keeps(k, x, i)
    BY <1>c, <1>d, NoKeeper
  <2>3. \A j \in Jobs : Custody(j)'
    <3>1. "request" \in Kinds /\ r \in Keepers /\ StatusAt("request") = "queued"
      BY DEF Kinds, Keepers, StatusAt
    <3>2. Keeps("request", r, i)'
      BY <2>1 DEF Keeps
    <3>3. ASSUME NEW j \in Jobs, NEW m \in Kinds, NEW z \in Keepers
          PROVE  \/ j = i /\ m = "request" /\ z = r
                 \/ Keeps(m, z, j)' <=> Keeps(m, z, j)
      BY <1>a, <1>d, <2>1, NoJobAssumption DEF Keeps, Job, Waiting
    <3> QED
      BY <1>c, <1>d, <2>1, <2>2, <3>1, <3>2, <3>3, CustodyBegins
  <2>4. CalmRow(i)'
    <3>1. Len(effects[i]) = 0
      BY <1>d DEF CalmInv, CalmRow
    <3> QED
      BY <1>a, <1>d, <2>1, <3>1, MaxAttemptsAssumption DEF CalmRow
  <2>5. \A s \in Slots : exec'[s] = exec[s] /\ ~Keeps("run", s, i)
    BY <1>a, <2>2 DEF Kinds, Keepers
  <2>6. \A d \in Schedulers : sched'[d] = sched[d]
    BY <1>a
  <2>7. IsInjective(pending')
    BY <1>c, <1>d
  <2>8. \A j \in Jobs : j # i => row'[j] = row[j] /\ effects'[j] = effects[j]
    BY <1>a, <1>d
  <2> QED
    BY <1>a, <1>d, <2>3, <2>4, <2>5, <2>6, <2>7, <2>8, JobMoves
<1>1. ASSUME NEW r \in Requests, NEW i \in Jobs, Submit(r, i)
      PROVE  CalmInv'
  <2>1. /\ row' = [row EXCEPT ![i] = InsertedRow] /\ row[i].status = "none"
        /\ api[r] = NoJob /\ api' = [api EXCEPT ![r] = i]
        /\ pending' = pending /\ budget' = budget
    BY <1>1 DEF Submit
  <2>2. /\ row'[i].status = "queued" /\ row'[i].attempts = 0 /\ ~row'[i].old
        /\ \A j \in Jobs : j # i => row'[j] = row[j]
    BY <1>b, <2>1 DEF InsertedRow, NoRow
  <2>3. Spending'
    BY <1>c, <2>1 DEF Spending
  <2>4. row[i].status \in {"none", "dead"}
    BY <2>1
  <2> QED
    BY <1>d, <2>1, <2>2, <2>3, <2>4
<1>2. ASSUME NEW r \in Requests, NEW i \in Jobs, Replay(r, i)
      PROVE  CalmInv'
  <2>1. /\ row' = [row EXCEPT ![i] = ReplayedRow(row[i])] /\ row[i].status = "dead"
        /\ api[r] = NoJob /\ api' = [api EXCEPT ![r] = i]
        /\ pending' = pending /\ Spend("replay")
    BY <1>2 DEF Replay, Replayable
  <2>2. /\ row'[i].status = "queued" /\ row'[i].attempts = 0 /\ ~row'[i].old
        /\ \A j \in Jobs : j # i => row'[j] = row[j]
    BY <1>b, <2>1 DEF ReplayedRow, Rows, CalmInv, CalmRow
  <2>3. Spending'
    BY <1>c, <2>1, SpendAllowed DEF Disturbances
  <2>4. row[i].status \in {"none", "dead"}
    BY <2>1
  <2> QED
    BY <1>d, <2>1, <2>2, <2>3, <2>4
<1>3. ASSUME NEW r \in Requests, Enqueue(r)
      PROVE  CalmInv'
  <2>0. PICK i : i = api[r]
    OBVIOUS
  <2>1. /\ i # NoJob /\ pending' = <<i>> \o pending
        /\ api' = [api EXCEPT ![r] = NoJob] /\ UNCHANGED <<row, budget>>
    BY <1>3, <2>0 DEF Enqueue
  <2>2. i \in Jobs
    BY <1>b, <2>0, <2>1
  <2>3. api'[r] = NoJob /\ \A t \in Requests : t # r => api'[t] = api[t]
    BY <1>b, <2>1
  <2>4. /\ "request" \in Kinds /\ r \in Keepers /\ Keeps("request", r, i)
        /\ "pending" \in Kinds /\ NoJob \in Keepers
        /\ StatusAt("request") = "queued" /\ StatusAt("pending") = "queued"
    BY <2>0 DEF Kinds, Keepers, Keeps, StatusAt
  <2>5. row[i].status = "queued" /\ \A l \in Kinds, y \in Keepers :
                                      Keeps(l, y, i) <=> l = "request" /\ y = r
    BY <1>c, <2>2, <2>4, OneKeeper
  <2>6. i \notin Waiting
    BY <2>4, <2>5 DEF Keeps
  <2>7. Waiting' = Waiting \cup {i} /\ IsInjective(pending')
    BY <1>b, <1>c, <2>1, <2>2, <2>6, PushNew DEF Waiting
  <2>8. \A j \in Jobs : Custody(j)'
    <3>1. Keeps("pending", NoJob, i)' /\ ~Keeps("request", r, i)'
      BY <2>2, <2>3, <2>7, NoJobAssumption DEF Keeps
    <3>2. ASSUME NEW j \in Jobs, NEW m \in Kinds, NEW z \in Keepers
          PROVE  \/ j = i /\ m = "request" /\ z = r
                 \/ j = i /\ m = "pending" /\ z = NoJob
                 \/ Keeps(m, z, j)' <=> Keeps(m, z, j)
      BY <1>a, <2>0, <2>3, <2>7, NoJobAssumption DEF Keeps, Job
    <3> QED
      BY <1>c, <2>1, <2>2, <2>4, <2>5, <3>1, <3>2, CustodyPasses
  <2>9. CalmRow(i)' /\ Spending'
    BY <1>a, <1>c, <2>1, <2>2 DEF CalmInv, CalmRow, Spending
  <2> QED
    BY <1>a, <2>1, <2>2, <2>7, <2>8, <2>9, JobMoves
<1>4. ASSUME NEW r \in Requests, RequestDies(r)
      PROVE  FALSE
  BY <1>4, <1>c, SpendAllowed DEF RequestDies, Allowed, Disturbances
<1>5. ASSUME NEW i \in Jobs, GrowOld(i)
      PROVE  FALSE
  <2>1. Spend("slow") \/ Spend("age")
    BY <1>5 DEF GrowOld
  <2> QED
    BY <1>c, <2>1, SpendAllowed DEF Allowed, Disturbances
<1> QED
  BY <1>1, <1>2, <1>3, <1>4, <1>5 DEF ApiStep

\* A slot that takes a job (worker/index.ts:358-382) keeps it from then on, and
\* the copy that BLMOVE puts into the list of its process is the slot's.
LEMMA TakeCalmStep ==
  ASSUME CalmOnly, TypeInv, CalmInv, NEW s \in Slots, Take(s), UNCHANGED <<api, sched>>
  PROVE  CalmInv'
<1> DEFINE w == HolderOf(s)
<1>0. PICK i : i = Last(pending)
  OBVIOUS
<1> DEFINE e == [IdleExec EXCEPT !.pc = "claim", !.job = i]
<1>1. /\ exec' = [exec EXCEPT ![s] = e] /\ exec[s].pc = "idle" /\ Beating(ProcOf[s])
      /\ pending # <<>> /\ pending' = Front(pending)
      /\ processing' = [processing EXCEPT ![w] = <<i>> \o processing[w]]
      /\ UNCHANGED <<row, effects, delayed, alive, budget, proc>>
  BY <1>0 DEF Take, TakeTail, Beating, postgres
<1>2. e.pc = "claim" /\ e.job = i
  BY DEF IdleExec
<1>3. /\ pending \in Seq(Jobs) /\ processing \in [WorkerIds -> Seq(Jobs)]
      /\ exec \in [Slots -> Execs] /\ w \in WorkerIds /\ IsInjective(pending)
      /\ Spending /\ \A j \in Jobs : Custody(j)
  BY IdOfAssumption, ProcOfAssumption
  DEF TypeInv, TypeOK, StoresTypeOK, WorkerTypeOK, HolderOf, CalmInv
<1>4. i \in Jobs
  BY <1>0, <1>1, <1>3, TailOfList
<1>5. i \in Waiting /\ Waiting' = Waiting \ {i} /\ IsInjective(pending')
  BY <1>0, <1>1, <1>3, TailOfInjective DEF Waiting
<1> HIDE DEF e
<1>6. exec'[s] = e /\ \A t \in Slots : t # s => exec'[t] = exec[t]
  BY <1>1, <1>3
<1>7. /\ "pending" \in Kinds /\ NoJob \in Keepers /\ Keeps("pending", NoJob, i)
      /\ "claim" \in Kinds /\ s \in Keepers
      /\ StatusAt("pending") = "queued" /\ StatusAt("claim") = "queued"
  BY <1>5 DEF Kinds, Keepers, Keeps, StatusAt
<1>8. row[i].status = "queued"
  BY <1>3, <1>4, <1>7, OneKeeper
<1>9. \A j \in Jobs : Custody(j)'
  <2>1. Keeps("claim", s, i)' /\ ~Keeps("pending", NoJob, i)'
    BY <1>2, <1>5, <1>6 DEF Keeps, Job
  <2>2. ASSUME NEW j \in Jobs, NEW m \in Kinds, NEW z \in Keepers
        PROVE  \/ j = i /\ m = "pending" /\ z = NoJob
               \/ j = i /\ m = "claim" /\ z = s
               \/ Keeps(m, z, j)' <=> Keeps(m, z, j)
    BY <1>1, <1>2, <1>5, <1>6 DEF Keeps, Job
  <2> QED
    BY <1>1, <1>3, <1>4, <1>7, <1>8, <2>1, <2>2, CustodyPasses
<1>10. ASSUME NEW j \in Jobs PROVE Tally(j)'
  <2>1. Tally(j) /\ s \notin Busy(j)
    BY <1>1 DEF CalmInv, Busy
  <2>2. /\ j = i => Busy(j)' = Busy(j) \cup {s}
        /\ j # i => Busy(j)' = Busy(j)
    BY <1>1, <1>2, <1>6 DEF Busy, Job
  <2>3. IsFiniteSet(Busy(j)')
    BY <2>1, <2>2, FS_AddElement DEF Tally
  <2>4. ASSUME NEW v \in WorkerIds
        PROVE  Cardinality(Found(processing'[v], j)) = Cardinality(BusyFor(v, j)')
    <3>1. /\ Cardinality(Found(processing[v], j)) = Cardinality(BusyFor(v, j))
          /\ s \notin BusyFor(v, j)
      BY <2>1 DEF Tally, BusyFor
    <3>2. CASE v = w /\ j = i
      <4>1. BusyFor(v, j)' = BusyFor(v, j) \cup {s}
        BY <2>2, <3>2 DEF BusyFor, HolderOf
      <4>2. IsFiniteSet(BusyFor(v, j))
        BY <2>1, FS_Subset DEF Tally, BusyFor
      <4>3. Cardinality(BusyFor(v, j)') = Cardinality(BusyFor(v, j)) + 1
        BY <3>1, <4>1, <4>2, FS_AddElement
      <4>4. processing'[v] = <<i>> \o processing[v] /\ processing[v] \in Seq(Jobs)
        BY <1>1, <1>3, <3>2
      <4>5. Cardinality(Found(processing'[v], j)) = Cardinality(Found(processing[v], j)) + 1
        BY <1>4, <3>2, <4>4, PushCounts
      <4> QED
        BY <3>1, <4>3, <4>5
    <3>3. CASE v = w /\ j # i
      <4>1. BusyFor(v, j)' = BusyFor(v, j)
        BY <2>2, <3>3 DEF BusyFor, HolderOf
      <4>2. processing'[v] = <<i>> \o processing[v] /\ processing[v] \in Seq(Jobs)
        BY <1>1, <1>3, <3>3
      <4>3. Cardinality(Found(processing'[v], j)) = Cardinality(Found(processing[v], j))
        BY <1>4, <3>3, <4>2, PushCounts
      <4> QED
        BY <3>1, <4>1, <4>3
    <3>4. CASE v # w
      <4>1. BusyFor(v, j)' = BusyFor(v, j)
        BY <2>2, <3>4 DEF BusyFor, HolderOf
      <4>2. processing'[v] = processing[v]
        BY <1>1, <1>3, <3>4
      <4> QED
        BY <3>1, <4>1, <4>2
    <3> QED
      BY <3>2, <3>3, <3>4
  <2> QED
    BY <2>3, <2>4 DEF Tally
<1>11. ASSUME NEW t \in Slots PROVE CalmSlot(t)'
  <2>1. Beating(ProcOf[t])' <=> Beating(ProcOf[t])
    BY <1>1 DEF Beating
  <2>2. CASE t = s
    BY <1>1, <1>2, <1>6, <2>1, <2>2 DEF CalmSlot
  <2>3. CASE t # s
    BY <1>1, <1>6, <2>1, <2>3 DEF CalmInv, CalmSlot, Job
  <2> QED
    BY <2>2, <2>3
<1>12. (\A p \in Procs : CalmProc(p)') /\ \A d \in Schedulers : CalmPass(d)'
  BY <1>1, OthersStand
<1>13. Spending' /\ \A j \in Jobs : CalmRow(j)'
  BY <1>1, <1>3 DEF CalmInv, CalmRow, Spending
<1> QED
  BY <1>5, <1>9, <1>10, <1>11, <1>12, <1>13 DEF CalmInv

\* An execution goes on with its job (worker/index.ts:54-203): it claims the
\* row, records or buries the job, or parks it and hands it to the delayed set.
LEMMA SlotCalmStep ==
  ASSUME CalmOnly, TypeInv, CalmInv,
         NEW s \in Slots, NEW i, i = Job(s), NEW k, k = exec[s].pc,
         SlotStep(s), ~Take(s), ~Release(s), UNCHANGED <<api, sched>>
  PROVE  CalmInv'
<1> USE DEF postgres, redis, stores
<1>a. /\ row \in [Jobs -> Rows] /\ effects \in [Jobs -> Seq(Nat)]
      /\ exec \in [Slots -> Execs]
      /\ Spending /\ IsInjective(pending) /\ CalmSlot(s)
      /\ \A j \in Jobs : Custody(j)
  BY DEF TypeInv, TypeOK, StoresTypeOK, WorkerTypeOK, CalmInv
<1>b. ~(LoseCommitAnswer(s) \/ FailToCommit(s) \/ Abandon(s))
  BY <1>a, SpendAllowed DEF LoseCommitAnswer, FailToCommit, Abandon, Allowed, Disturbances
<1>c. /\ k \in {"claim", "run", "zadd"} /\ i \in Jobs /\ CalmRow(i) /\ row[i] \in Rows
      /\ k \in Kinds /\ s \in Keepers /\ Keeps(k, s, i)
  <2>1. k \in {"claim", "run", "fail", "zadd"}
    BY <1>b DEF SlotStep, Claim, Succeed, Bury, Park, Failing, Schedule
  <2> QED
    BY <1>a, <2>1, BusySlot DEF CalmInv, Kinds
<1>d. /\ row[i].status = StatusAt(k)
      /\ \A l \in Kinds, y \in Keepers : Keeps(l, y, i) <=> l = k /\ y = s
  BY <1>a, <1>c, OneKeeper
<1>e. /\ StatusAt("claim") = "queued" /\ StatusAt("run") = "running"
      /\ StatusAt("zadd") = "retrying" /\ StatusAt("delayed") = "retrying"
  BY DEF StatusAt
<1>f. UNCHANGED <<proc, alive, processing, pending, budget, api, sched>>
  BY <1>b DEF SlotStep, Claim, Succeed, Bury, Park, Schedule
<1>g. Spending' /\ IsInjective(pending') /\ Waiting' = Waiting
  BY <1>a, <1>f DEF Spending, Waiting
<1>h. "run" \in Kinds /\ "zadd" \in Kinds /\ "delayed" \in Kinds /\ NoJob \in Keepers
  BY DEF Kinds, Keepers
\* what a step that moves the slot on, and changes no row but i, leaves to show
<1>i. ASSUME exec'[s].pc \in {"run", "zadd", "release"}, exec'[s].job = i,
             \A t \in Slots : t # s => exec'[t] = exec[t],
             \A j \in Jobs : j # i => row'[j] = row[j] /\ effects'[j] = effects[j],
             CalmRow(i)', CalmSlot(s)', \A j \in Jobs : Custody(j)'
      PROVE  CalmInv'
  <2>1. ASSUME NEW t \in Slots
        PROVE  \/ exec'[t] = exec[t] /\ (Keeps("run", t, i) => row'[i] = row[i])
               \/ /\ exec[t].pc # "idle" /\ exec'[t].pc # "idle" /\ exec'[t].job = exec[t].job
                  /\ CalmSlot(t)'
    <3>1. CASE t = s
      BY <1>c, <1>i, <3>1 DEF Job
    <3>2. CASE t # s
      <4>1. ~Keeps("run", t, i)
        BY <1>d, <1>h, <3>2 DEF Keepers
      <4> QED
        BY <1>i, <3>2, <4>1
    <3> QED
      BY <3>1, <3>2
  <2> QED
    BY <1>c, <1>f, <1>g, <1>i, <2>1, JobMoves
\* what an execution that keeps its job does to its custody,
<1>j. ASSUME NEW l \in {"run", "zadd"}, l # k, exec'[s].pc = l, exec'[s].job = i,
             \A t \in Slots : t # s => exec'[t] = exec[t], delayed' = delayed,
             row'[i].status = StatusAt(l), \A j \in Jobs : j # i => row'[j] = row[j]
      PROVE  \A j \in Jobs : Custody(j)'
  <2>1. Keeps(l, s, i)' /\ ~Keeps(k, s, i)'
    BY <1>c, <1>j DEF Keeps, Job
  <2>2. ASSUME NEW j \in Jobs, NEW m \in Kinds, NEW z \in Keepers
        PROVE  \/ j = i /\ m = k /\ z = s
               \/ j = i /\ m = l /\ z = s
               \/ Keeps(m, z, j)' <=> Keeps(m, z, j)
    BY <1>f, <1>g, <1>j DEF Keeps, Job
  <2> QED
    <3>1. l \in Kinds /\ \A j \in Jobs : j # i => row'[j].status = row[j].status
      BY <1>h, <1>j
    <3>2. /\ k \in Kinds /\ s \in Keepers /\ i \in Jobs /\ Keeps(k, s, i)
          /\ \A j \in Jobs : Custody(j)
      BY <1>a, <1>c
    <3> QED
      BY <1>j, <2>1, <2>2, <3>1, <3>2, CustodyPasses
\* and one that finishes it
<1>k. ASSUME exec'[s].pc = "release", exec'[s].job = i,
             \A t \in Slots : t # s => exec'[t] = exec[t], delayed' = delayed,
             row'[i].status \in Terminal, \A j \in Jobs : j # i => row'[j] = row[j]
      PROVE  \A j \in Jobs : Custody(j)'
  <2>1. ~Keeps(k, s, i)'
    BY <1>c, <1>k DEF Keeps, Job
  <2>2. ASSUME NEW j \in Jobs, NEW m \in Kinds, NEW z \in Keepers
        PROVE  \/ j = i /\ m = k /\ z = s
               \/ Keeps(m, z, j)' <=> Keeps(m, z, j)
    BY <1>f, <1>g, <1>k DEF Keeps, Job
  <2> QED
    <3>1. \A j \in Jobs : j # i => row'[j].status = row[j].status
      BY <1>k
    <3>2. /\ k \in Kinds /\ s \in Keepers /\ i \in Jobs /\ Keeps(k, s, i)
          /\ \A j \in Jobs : Custody(j)
      BY <1>a, <1>c
    <3> QED
      BY <1>k, <2>1, <2>2, <3>1, <3>2, CustodyEnds
<1>l. ASSUME NEW to, Goto(s, to)
      PROVE  /\ exec'[s] = [exec[s] EXCEPT !.pc = to]
             /\ exec'[s].pc = to /\ exec'[s].job = i
             /\ \A t \in Slots : t # s => exec'[t] = exec[t]
  BY <1>a, <1>l DEF Goto, Execs, Job
<1>m. k = "run" => /\ Owns(row[i], exec[s].lease) /\ exec[s].attempts = row[i].attempts
                   /\ row[i].status = "running" /\ row[i].attempts \in 1..MaxAttempts
                   /\ Len(effects[i]) = 0
  BY <1>a, <1>c, <1>d, <1>e DEF CalmSlot, CalmRow, Owns
<1>n. Beating(ProcOf[s])'
  BY <1>a, <1>c, <1>f DEF CalmSlot, Beating
<1>1. CASE Claim(s)
  <2>1. k = "claim" /\ row[i].status = "queued" /\ Claimable(row[i])
    BY <1>1, <1>d, <1>e DEF Claim, Claimable
  <2> DEFINE e == [pc |-> "run", job |-> i, lease |-> row'[i].lease, attempts |-> row'[i].attempts]
  <2>2. /\ row' = [row EXCEPT ![i] = ClaimedRow(row[i])] /\ UNCHANGED <<effects, delayed>>
        /\ exec' = [exec EXCEPT ![s] = e]
    BY <1>1, <2>1 DEF Claim
  <2>3. /\ exec'[s].pc = "run" /\ exec'[s].job = i
        /\ exec'[s].lease = row'[i].lease /\ exec'[s].attempts = row'[i].attempts
        /\ \A t \in Slots : t # s => exec'[t] = exec[t]
    BY <1>a, <2>2
  <2>4. /\ row'[i].status = "running" /\ row'[i].attempts = row[i].attempts + 1
        /\ (row'[i].old <=> row[i].old)
        /\ \A j \in Jobs : j # i => row'[j] = row[j]
    BY <1>a, <1>c, <2>2 DEF ClaimedRow, Rows
  <2>5. CalmRow(i)'
    <3>1. row[i].attempts \in Nat /\ row[i].attempts < MaxAttempts /\ Len(effects[i]) = 0
      BY <1>c, <2>1 DEF CalmRow, Rows
    <3>2. row'[i].attempts \in 1..MaxAttempts
      BY <2>4, <3>1, MaxAttemptsAssumption
    <3> QED
      BY <1>c, <2>2, <2>4, <3>1, <3>2 DEF CalmRow
  <2>6. CalmSlot(s)'
    BY <1>n, <2>3 DEF CalmSlot, Job
  <2>7. \A j \in Jobs : Custody(j)'
    BY <1>e, <1>j, <2>1, <2>2, <2>3, <2>4
  <2> QED
    BY <1>i, <2>2, <2>3, <2>4, <2>5, <2>6, <2>7
<1>2. CASE Succeed(s)
  <2>1. k = "run"
    BY <1>2 DEF Succeed
  <2>2. /\ row' = [row EXCEPT ![i] = SucceededRow(row[i])] /\ UNCHANGED delayed
        /\ effects' = [effects EXCEPT ![i] = Append(effects[i], exec[s].lease)]
        /\ Goto(s, "release")
    BY <1>2, <1>m, <2>1 DEF Succeed, RecordSuccess
  <2>3. /\ row'[i].status = "succeeded" /\ (row'[i].old <=> row[i].old)
        /\ \A j \in Jobs : j # i => row'[j] = row[j] /\ effects'[j] = effects[j]
    BY <1>a, <1>c, <2>2 DEF SucceededRow, Rows
  <2>4. CalmRow(i)'
    <3>1. effects[i] \in Seq(Nat) /\ effects'[i] = Append(effects[i], exec[s].lease)
      BY <1>a, <1>c, <2>2
    <3>2. Len(effects'[i]) = 1
      BY <1>m, <2>1, <3>1
    <3> QED
      BY <1>c, <2>3, <3>2 DEF CalmRow
  <2>5. CalmSlot(s)'
    <3>1. exec'[s].pc \in {"zadd", "release"}
      BY <1>l, <2>2
    <3> QED
      BY <1>n, <3>1 DEF CalmSlot
  <2>6. \A j \in Jobs : Custody(j)'
    BY <1>k, <1>l, <2>2, <2>3 DEF Terminal
  <2> QED
    BY <1>i, <1>l, <2>2, <2>3, <2>4, <2>5, <2>6
<1>3. CASE Bury(s)
  <2>1. k = "run"
    BY <1>3, <1>c DEF Bury, Failing
  <2>2. /\ row' = [row EXCEPT ![i] = BuriedRow(row[i])] /\ UNCHANGED <<effects, delayed>>
        /\ Goto(s, "release")
    BY <1>3, <1>m, <2>1 DEF Bury
  <2>3. /\ row'[i].status = "dead" /\ (row'[i].old <=> row[i].old)
        /\ \A j \in Jobs : j # i => row'[j] = row[j]
    BY <1>a, <1>c, <2>2 DEF BuriedRow, Rows
  <2>4. CalmRow(i)'
    BY <1>c, <1>m, <2>1, <2>2, <2>3 DEF CalmRow
  <2>5. CalmSlot(s)'
    <3>1. exec'[s].pc \in {"zadd", "release"}
      BY <1>l, <2>2
    <3> QED
      BY <1>n, <3>1 DEF CalmSlot
  <2>6. \A j \in Jobs : Custody(j)'
    BY <1>k, <1>l, <2>2, <2>3 DEF Terminal
  <2> QED
    BY <1>i, <1>l, <2>2, <2>3, <2>4, <2>5, <2>6
<1>4. CASE Park(s)
  <2>1. k = "run"
    BY <1>4, <1>c DEF Park, Failing
  <2>2. /\ row' = [row EXCEPT ![i] = ParkedRow(row[i])] /\ UNCHANGED <<effects, delayed>>
        /\ Goto(s, "zadd") /\ ~Exhausted(exec[s])
    BY <1>4, <1>m, <2>1 DEF Park
  <2>3. /\ row'[i].status = "retrying" /\ row'[i].attempts = row[i].attempts
        /\ (row'[i].old <=> row[i].old)
        /\ \A j \in Jobs : j # i => row'[j] = row[j]
    BY <1>a, <1>c, <2>2 DEF ParkedRow, Rows
  <2>4. CalmRow(i)'
    <3>1. row[i].attempts < MaxAttempts
      BY <1>c, <1>m, <2>1, <2>2, MaxAttemptsAssumption DEF Exhausted, Rows
    <3> QED
      BY <1>c, <1>m, <2>1, <2>2, <2>3, <3>1 DEF CalmRow
  <2>5. CalmSlot(s)'
    <3>1. exec'[s].pc \in {"zadd", "release"}
      BY <1>l, <2>2
    <3> QED
      BY <1>n, <3>1 DEF CalmSlot
  <2>6. \A j \in Jobs : Custody(j)'
    BY <1>e, <1>j, <1>l, <2>1, <2>2, <2>3
  <2> QED
    BY <1>i, <1>l, <2>2, <2>3, <2>4, <2>5, <2>6
<1>5. CASE Schedule(s)
  <2>1. k = "zadd" /\ UNCHANGED <<row, effects>> /\ Goto(s, "release") /\ delayed' = delayed \cup {i}
    BY <1>5 DEF Schedule
  <2>2. CalmSlot(s)'
    <3>1. exec'[s].pc = "release"
      BY <1>l, <2>1
    <3> QED
      BY <1>n, <3>1 DEF CalmSlot
  <2>3. CalmRow(i)'
    BY <1>c, <2>1 DEF CalmRow
  <2>4. \A j \in Jobs : Custody(j)'
    <3>0. exec'[s].pc = "release" /\ \A t \in Slots : t # s => exec'[t] = exec[t]
      BY <1>l, <2>1
    <3>1. Keeps("delayed", NoJob, i)' /\ ~Keeps("zadd", s, i)'
      BY <2>1, <3>0 DEF Keeps
    <3>2. ASSUME NEW j \in Jobs, NEW m \in Kinds, NEW z \in Keepers
          PROVE  \/ j = i /\ m = k /\ z = s
                 \/ j = i /\ m = "delayed" /\ z = NoJob
                 \/ Keeps(m, z, j)' <=> Keeps(m, z, j)
      BY <1>f, <1>g, <2>1, <3>0 DEF Keeps, Job
    <3> QED
      BY <1>a, <1>c, <1>d, <1>e, <1>h, <2>1, <3>1, <3>2, CustodyPasses
  <2> QED
    BY <1>i, <1>l, <2>1, <2>2, <2>3, <2>4
<1> QED
  BY <1>1, <1>2, <1>3, <1>4, <1>5, <1>b DEF SlotStep

\* What no step but the slot's own can do for a slot that goes idle: the LREM
\* (worker/index.ts:372-381) takes its copy out of the list of its process.
LEMMA ReleaseCalmStep ==
  ASSUME CalmOnly, TypeInv, CalmInv, NEW s \in Slots, Release(s), UNCHANGED <<api, sched>>
  PROVE  CalmInv'
<1> DEFINE w == HolderOf(s)
<1>0. PICK i : i = Job(s)
  OBVIOUS
<1>1. /\ exec[s].pc = "release" /\ exec' = [exec EXCEPT ![s] = IdleExec]
      /\ processing' = [processing EXCEPT ![w] = DropFromHead(processing[w], i)]
      /\ UNCHANGED <<row, effects, pending, delayed, alive, budget, proc>>
  BY <1>0 DEF Release, FreeSlot, postgres
<1>2. /\ processing \in [WorkerIds -> Seq(Jobs)] /\ exec \in [Slots -> Execs]
      /\ w \in WorkerIds /\ i \in Jobs /\ s \in Busy(i)
      /\ Spending /\ IsInjective(pending) /\ \A j \in Jobs : Custody(j)
  BY <1>0, <1>1, BusySlot
  DEF TypeInv, TypeOK, StoresTypeOK, WorkerTypeOK, CalmInv
<1>3. i \in ToSet(processing[w]) /\ processing[w] \in Seq(Jobs)
  BY <1>0, <1>1, <1>2, BusyIsListed
<1>4. exec'[s].pc = "idle" /\ \A t \in Slots : t # s => exec'[t] = exec[t]
  BY <1>1, <1>2 DEF IdleExec
<1>5. \A j \in Jobs : Custody(j)'
  <2>1. \A j \in Jobs, m \in Kinds, z \in Keepers : Keeps(m, z, j)' <=> Keeps(m, z, j)
    BY <1>1, <1>4 DEF Keeps, Job, Waiting
  <2>2. \A j \in Jobs : row'[j].status = row[j].status
    BY <1>1
  <2> QED
    BY <1>2, <2>1, <2>2, CustodyStays
<1>6. ASSUME NEW j \in Jobs PROVE Tally(j)'
  <2>1. Tally(j) /\ (s \in Busy(j) <=> j = i)
    BY <1>0, <1>1 DEF CalmInv, Busy
  <2>2. Busy(j)' = Busy(j) \ {s}
    BY <1>4 DEF Busy, Job
  <2>3. IsFiniteSet(Busy(j)')
    BY <2>1, <2>2, FS_RemoveElement DEF Tally
  <2>4. ASSUME NEW v \in WorkerIds
        PROVE  Cardinality(Found(processing'[v], j)) = Cardinality(BusyFor(v, j)')
    <3>1. Cardinality(Found(processing[v], j)) = Cardinality(BusyFor(v, j))
      BY <2>1 DEF Tally
    <3>2. CASE v = w /\ j = i
      <4>1. BusyFor(v, j)' = BusyFor(v, j) \ {s} /\ s \in BusyFor(v, j)
        BY <2>1, <2>2, <3>2 DEF BusyFor, HolderOf
      <4>2. IsFiniteSet(BusyFor(v, j))
        BY <2>1, FS_Subset DEF Tally, BusyFor
      <4>3. Cardinality(BusyFor(v, j)') = Cardinality(BusyFor(v, j)) - 1
        BY <4>1, <4>2, FS_RemoveElement
      <4>4. processing'[v] = DropFromHead(processing[v], i)
        BY <1>1, <1>2, <3>2
      <4>5. Cardinality(Found(processing'[v], j)) = Cardinality(Found(processing[v], j)) - 1
        BY <1>3, <3>2, <4>4, DropCounts
      <4> QED
        BY <3>1, <4>3, <4>5
    <3>3. CASE v = w /\ j # i
      <4>1. BusyFor(v, j)' = BusyFor(v, j)
        BY <2>1, <2>2, <3>3 DEF BusyFor, HolderOf
      <4>2. processing'[v] = DropFromHead(processing[v], i)
        BY <1>1, <1>2, <3>3
      <4>3. Cardinality(Found(processing'[v], j)) = Cardinality(Found(processing[v], j))
        BY <1>3, <3>3, <4>2, DropCounts
      <4> QED
        BY <3>1, <4>1, <4>3
    <3>4. CASE v # w
      <4>1. BusyFor(v, j)' = BusyFor(v, j)
        BY <2>2, <3>4 DEF BusyFor, HolderOf
      <4>2. processing'[v] = processing[v]
        BY <1>1, <1>2, <3>4
      <4> QED
        BY <3>1, <4>1, <4>2
    <3> QED
      BY <3>2, <3>3, <3>4
  <2> QED
    BY <2>3, <2>4 DEF Tally
<1>7. ASSUME NEW t \in Slots PROVE CalmSlot(t)'
  <2>1. Beating(ProcOf[t])' <=> Beating(ProcOf[t])
    BY <1>1 DEF Beating
  <2> QED
    BY <1>1, <1>4, <2>1 DEF CalmInv, CalmSlot, Job
<1>8. (\A p \in Procs : CalmProc(p)') /\ \A d \in Schedulers : CalmPass(d)'
  BY <1>1, OthersStand
<1>9. Spending' /\ IsInjective(pending') /\ \A j \in Jobs : CalmRow(j)'
  BY <1>1, <1>2 DEF CalmInv, CalmRow, Spending
<1> QED
  BY <1>5, <1>6, <1>7, <1>8, <1>9 DEF CalmInv

\* A step that changes no row, no list, no set and no slot that works leaves
\* what is said of jobs alone.
LEMMA JobsStand ==
  ASSUME TypeInv, CalmInv, UNCHANGED <<row, effects, pending, processing, delayed, api>>,
         \A s \in Slots : /\ exec'[s].pc = "idle" <=> exec[s].pc = "idle"
                          /\ exec[s].pc # "idle" => /\ exec'[s] = exec[s]
                                                    /\ Beating(ProcOf[s])',
         \A d \in Schedulers : \/ sched'[d] = sched[d]
                               \/ {sched[d].pc, sched'[d].pc} \cap {"update", "push"} = {}
  PROVE  /\ IsInjective(pending')
         /\ \A j \in Jobs : Custody(j)' /\ Tally(j)' /\ CalmRow(j)'
         /\ \A s \in Slots : CalmSlot(s)'
<1>1. \A j \in Jobs : Tally(j)'
  <2>1. \A s \in Slots : /\ exec'[s].pc = "idle" <=> exec[s].pc = "idle"
                         /\ exec[s].pc # "idle" => exec'[s].job = exec[s].job
    OBVIOUS
  <2> QED
    BY <2>1, TallyStays DEF CalmInv
<1>2. \A j \in Jobs : Custody(j)'
  <2>1. ASSUME NEW j \in Jobs, NEW m \in Kinds, NEW z \in Keepers
        PROVE  Keeps(m, z, j)' <=> Keeps(m, z, j)
    <3>1. m \in {"claim", "run", "zadd"} /\ z \in Slots =>
            (exec'[z].pc = m /\ exec'[z].job = j <=> exec[z].pc = m /\ exec[z].job = j)
      OBVIOUS
    <3>2. m \in {"update", "push"} /\ z \in Schedulers =>
            (sched'[z].pc = m /\ sched'[z].job = j <=> sched[z].pc = m /\ sched[z].job = j)
      OBVIOUS
    <3> QED
      BY <3>1, <3>2 DEF Keeps, Job, Waiting
  <2> QED
    BY <2>1, CustodyStays DEF CalmInv
<1>3. IsInjective(pending') /\ \A j \in Jobs : CalmRow(j)'
  BY DEF CalmInv, CalmRow
<1>4. \A s \in Slots : CalmSlot(s)'
  BY DEF CalmInv, CalmSlot, Job
<1> QED
  BY <1>1, <1>2, <1>3, <1>4

\* A process goes through main(), beats, drains (worker/index.ts:248-420).  Its
\* id is its own, so the list it recovers at its start is empty.
LEMMA ProcCalmStep ==
  ASSUME CalmOnly, TypeInv, CalmInv, NEW p \in Procs, ProcStep(p), UNCHANGED <<api, sched>>
  PROVE  CalmInv'
<1> USE DEF postgres, redis, stores
<1>a. /\ proc \in [Procs -> ProcStates] /\ alive \in [WorkerIds -> BOOLEAN]
      /\ exec \in [Slots -> Execs] /\ IdOf[p] \in WorkerIds
      /\ \A q \in Procs : IdOf[q] \in WorkerIds
      /\ Spending /\ CalmProc(p)
  BY IdOfAssumption DEF TypeInv, TypeOK, StoresTypeOK, WorkerTypeOK, CalmInv
<1>b. ~(TakeUnanswered(p) \/ Crash(p) \/ RequeueOwn(p) \/ MoveBackOwn(p) \/ LeaveListAlone(p))
  <2>1. ~TakeUnanswered(p) /\ ~Crash(p)
    BY <1>a, SpendAllowed DEF TakeUnanswered, Crash, Allowed, Disturbances
  <2>2. ~RequeueOwn(p) /\ ~MoveBackOwn(p)
    BY <1>a DEF RequeueOwn, MoveBackOwn, CalmProc
  <2>3. ~LeaveListAlone(p)
    BY DEF LeaveListAlone, CalmOnly
  <2> QED
    BY <2>1, <2>2, <2>3
<1>c. UNCHANGED <<row, effects, pending, processing, delayed, api, sched>>
  BY <1>b DEF ProcStep, Start, FindNoHeartbeat, ReadOwnList, StartBeating, Beat, Stop, Drained,
              workerVars
\* what a process that moves on in its life leaves to show
<1>d. ASSUME NEW to \in {"boot", "list", "ready", "up", "draining", "down"},
             Move(p, to), proc[p] # "down",
             Beating(p) => to \in {"draining", "down"},
             to = "down" => \A s \in Slots : ProcOf[s] = p => exec[s].pc = "idle",
             \A s \in Slots : /\ exec'[s].pc = "idle" <=> exec[s].pc = "idle"
                              /\ exec[s].pc # "idle" => exec'[s] = exec[s],
             to \in {"up", "draining"} => alive'[IdOf[p]],
             \A q \in Procs : q # p => alive'[IdOf[q]] = alive[IdOf[q]],
             Spending'
      PROVE  CalmInv'
  <2>1. proc'[p] = to /\ \A q \in Procs : q # p => proc'[q] = proc[q]
    BY <1>a, <1>d DEF Move
  <2>2. ASSUME NEW s \in Slots, exec[s].pc # "idle"
        PROVE  Beating(ProcOf[s])'
    <3>1. Beating(ProcOf[s]) /\ ProcOf[s] \in Procs
      BY <2>2, ProcOfAssumption DEF CalmInv, CalmSlot
    <3>2. CASE ProcOf[s] = p
      BY <1>d, <2>1, <2>2, <3>1, <3>2 DEF Beating
    <3>3. CASE ProcOf[s] # p
      BY <2>1, <3>1, <3>3 DEF Beating
    <3> QED
      BY <3>2, <3>3
  <2>3. /\ IsInjective(pending')
        /\ \A j \in Jobs : Custody(j)' /\ Tally(j)' /\ CalmRow(j)'
        /\ \A s \in Slots : CalmSlot(s)'
    <3>1. \A d \in Schedulers : sched'[d] = sched[d]
      BY <1>c
    <3> QED
      BY <1>c, <1>d, <2>2, <3>1, JobsStand
  <2>4. ASSUME NEW q \in Procs
        PROVE  CalmProc(q)'
    <3>1. CASE q = p
      BY <1>d, <2>1, <3>1 DEF CalmProc, Beating
    <3>2. CASE q # p
      BY <1>d, <2>1, <3>2 DEF CalmInv, CalmProc, Beating
    <3> QED
      BY <3>1, <3>2
  <2>5. \A w : (Started(w) => Started(w)') /\ (Gone(w) => Gone(w)')
    BY <1>d, <2>1 DEF Started, Gone, Beating
  <2>6. \A d \in Schedulers : CalmPass(d)'
    BY <1>c, <2>5 DEF CalmInv, CalmPass
  <2> QED
    BY <1>d, <2>3, <2>4, <2>6 DEF CalmInv
\* for the steps that touch no key, no slot and no budget
<1>e. ASSUME UNCHANGED <<alive, budget, exec>>
      PROVE  /\ Spending'
             /\ \A s \in Slots : /\ exec'[s].pc = "idle" <=> exec[s].pc = "idle"
                                 /\ exec[s].pc # "idle" => exec'[s] = exec[s]
             /\ \A q \in Procs : q # p => alive'[IdOf[q]] = alive[IdOf[q]]
  BY <1>a, <1>e DEF Spending
<1>1. CASE Start(p)
  <2>1. proc[p] = "new" /\ UNCHANGED <<alive, budget, exec>> /\ Move(p, "boot")
    BY <1>1, <1>a, SpendAllowed DEF Start, Allowed, Disturbances
  <2> QED
    BY <1>d, <1>e, <2>1 DEF Beating
<1>2. CASE FindNoHeartbeat(p)
  <2>1. proc[p] = "boot" /\ UNCHANGED <<alive, budget, exec>> /\ Move(p, "list")
    BY <1>2 DEF FindNoHeartbeat
  <2> QED
    BY <1>d, <1>e, <2>1 DEF Beating
<1>3. CASE ReadOwnList(p)
  <2>1. proc[p] = "list" /\ UNCHANGED <<alive, budget, exec>>
    BY <1>3 DEF ReadOwnList
  <2>2. processing[IdOf[p]] = <<>>
    BY <1>a, <2>1, HeldIsBeating DEF CalmOnly, Beating
  <2>3. ToSet(processing[IdOf[p]]) = {}
    BY <2>2 DEF ToSet
  <2>4. Move(p, "ready")
    BY <1>3, <2>3 DEF ReadOwnList
  <2> QED
    BY <1>d, <1>e, <2>1, <2>4 DEF Beating
<1>4. CASE StartBeating(p)
  <2>1. /\ proc[p] = "ready" /\ UNCHANGED <<budget, exec>> /\ Move(p, "up")
        /\ alive' = [alive EXCEPT ![IdOf[p]] = TRUE]
    BY <1>4 DEF StartBeating
  <2>2. alive'[IdOf[p]] /\ \A q \in Procs : q # p => alive'[IdOf[q]] = alive[IdOf[q]]
    BY <1>a, <2>1 DEF CalmOnly
  <2>3. Spending' /\ \A s \in Slots : exec'[s] = exec[s]
    BY <1>a, <2>1 DEF Spending
  <2> QED
    BY <1>d, <2>1, <2>2, <2>3 DEF Beating
<1>5. CASE Beat(p)
  BY <1>5, <1>a DEF Beat, CalmProc
<1>6. CASE Stop(p)
  <2>1. proc[p] = "up" /\ UNCHANGED <<alive, exec>> /\ Move(p, "draining") /\ Spend("stop")
    BY <1>6 DEF Stop
  <2>2. Spending' /\ \A s \in Slots : exec'[s] = exec[s]
    BY <1>a, <2>1, SpendAllowed DEF Disturbances
  <2>3. alive'[IdOf[p]]
    BY <1>a, <2>1 DEF CalmProc, Beating
  <2> QED
    BY <1>d, <2>1, <2>2, <2>3
<1>7. CASE Drained(p)
  <2>1. /\ proc[p] = "draining" /\ UNCHANGED budget /\ Move(p, "down")
        /\ alive' = [alive EXCEPT ![IdOf[p]] = FALSE]
        /\ exec' = [s \in Slots |-> IF ProcOf[s] = p THEN IdleExec ELSE exec[s]]
    BY <1>7 DEF Drained
  <2>2. \A s \in Slots : ProcOf[s] = p => exec[s].pc = "idle"
    BY <1>7 DEF Drained, MayQuit, InFlight
  <2>3. \A s \in Slots : /\ exec'[s].pc = "idle" <=> exec[s].pc = "idle"
                         /\ exec[s].pc # "idle" => exec'[s] = exec[s]
    BY <2>1, <2>2 DEF IdleExec
  <2>4. \A q \in Procs : q # p => alive'[IdOf[q]] = alive[IdOf[q]]
    BY <1>a, <2>1 DEF CalmOnly
  <2>5. Spending'
    BY <1>a, <2>1 DEF Spending
  <2> QED
    BY <1>d, <2>1, <2>2, <2>3, <2>4, <2>5 DEF Beating
<1> QED
  BY <1>b, <1>1, <1>2, <1>3, <1>4, <1>5, <1>6, <1>7 DEF ProcStep

\* A key expires of a process that is gone: one that beats keeps its key.
LEMMA ExpireCalmStep ==
  ASSUME CalmOnly, TypeInv, CalmInv, NEW w \in WorkerIds, Expire(w), UNCHANGED <<api, sched>>
  PROVE  CalmInv'
<1>1. \A p \in Procs : Beating(p) => IdOf[p] # w
  <2>1. Spending /\ ~Spend("lapse")
    BY SpendAllowed DEF CalmInv, Allowed, Disturbances
  <2> QED
    BY <2>1 DEF Expire
<1>2. /\ alive' = [alive EXCEPT ![w] = FALSE] /\ alive \in [WorkerIds -> BOOLEAN]
      /\ UNCHANGED <<row, effects, pending, processing, delayed, budget, proc, exec>>
      /\ \A q \in Procs : IdOf[q] \in WorkerIds
  BY <1>1, IdOfAssumption DEF Expire, TypeInv, TypeOK, StoresTypeOK, postgres, workerVars
<1>3. \A p : Beating(p)' <=> Beating(p)
  BY <1>2 DEF Beating
<1>4. /\ IsInjective(pending')
      /\ \A j \in Jobs : Custody(j)' /\ Tally(j)' /\ CalmRow(j)'
      /\ \A s \in Slots : CalmSlot(s)'
  <2>1. \A s \in Slots : exec[s].pc # "idle" => Beating(ProcOf[s])'
    BY <1>3 DEF CalmInv, CalmSlot
  <2>2. (\A s \in Slots : exec'[s] = exec[s]) /\ \A d \in Schedulers : sched'[d] = sched[d]
    BY <1>2
  <2> QED
    BY <1>2, <2>1, <2>2, JobsStand
<1>5. \A p \in Procs : CalmProc(p)'
  BY <1>1, <1>2, <1>3 DEF CalmInv, CalmProc
<1>6. \A d \in Schedulers : CalmPass(d)'
  BY <1>2 DEF CalmInv, CalmPass, Started, Gone
<1>7. Spending'
  BY <1>2 DEF CalmInv, Spending
<1> QED
  BY <1>4, <1>5, <1>6, <1>7 DEF CalmInv

\* promoteDue() passes the id of a due retry from the delayed set to pending
\* (scheduler/index.ts:36-57).
LEMMA PromoteCalmStep ==
  ASSUME CalmOnly, TypeInv, CalmInv, NEW d \in Schedulers,
         (\E j \in Jobs : ClaimDue(d, j)) \/ RequeueDue(d) \/ PushDue(d),
         UNCHANGED <<api, workerVars>>
  PROVE  CalmInv'
<1> USE DEF postgres, redis, stores, workerVars
<1>a. /\ row \in [Jobs -> Rows] /\ sched \in [Schedulers -> Passes] /\ pending \in Seq(Jobs)
      /\ Spending /\ IsInjective(pending) /\ \A j \in Jobs : Custody(j)
  BY DEF TypeInv, TypeOK, StoresTypeOK, SchedTypeOK, CalmInv
<1>b. UNCHANGED <<proc, alive, processing, exec, effects, budget, api>>
  BY DEF ClaimDue, RequeueDue, PushDue
<1>c. /\ {"delayed", "update", "push", "pending"} \in SUBSET Kinds /\ "run" \in Kinds
      /\ NoJob \in Keepers /\ d \in Keepers /\ \A s \in Slots : s \in Keepers
      /\ StatusAt("delayed") = "retrying" /\ StatusAt("update") = "retrying"
      /\ StatusAt("push") = "queued" /\ StatusAt("pending") = "queued"
  BY DEF Kinds, Keepers, StatusAt
<1>d. Spending'
  BY <1>a, <1>b DEF Spending
<1>e. \A e \in Schedulers : \A r : /\ Become(d, r) => sched'[d] = r
                                   /\ Become(d, r) /\ e # d => sched'[e] = sched[e]
  BY <1>a DEF Become
<1>1. ASSUME NEW i \in Jobs, ClaimDue(d, i)
      PROVE  CalmInv'
  <2>1. /\ sched[d].pc = "idle" /\ i \in delayed /\ delayed' = delayed \ {i}
        /\ sched'[d].pc = "update" /\ sched'[d].job = i
        /\ \A e \in Schedulers : e # d => sched'[e] = sched[e]
        /\ UNCHANGED <<row, pending>>
    BY <1>1, <1>e DEF ClaimDue, At, IdlePass
  <2>2. Keeps("delayed", NoJob, i) /\ ~Keeps("delayed", NoJob, i)' /\ Keeps("update", d, i)'
    BY <2>1 DEF Keeps
  <2>3. row[i].status = "retrying" /\ \A s \in Slots : ~Keeps("run", s, i)
    BY <1>a, <1>c, <2>2, OneKeeper
  <2>4. \A j \in Jobs : Custody(j)'
    <3>1. ASSUME NEW j \in Jobs, NEW m \in Kinds, NEW z \in Keepers
          PROVE  \/ j = i /\ m = "delayed" /\ z = NoJob
                 \/ j = i /\ m = "update" /\ z = d
                 \/ Keeps(m, z, j)' <=> Keeps(m, z, j)
      BY <1>b, <2>1 DEF Keeps, Job, Waiting
    <3>2. row'[i].status = StatusAt("update") /\ \A j \in Jobs : row'[j].status = row[j].status
      BY <1>c, <2>1, <2>3
    <3> QED
      BY <1>a, <1>c, <2>2, <3>1, <3>2, CustodyPasses
  <2>5. CalmRow(i)' /\ CalmPass(d)'
    BY <1>b, <2>1 DEF CalmInv, CalmRow, CalmPass
  <2>6. /\ IsInjective(pending') /\ \A e \in Schedulers : sched'[e] = sched[e] \/ CalmPass(e)'
        /\ \A s \in Slots : exec'[s] = exec[s] /\ (Keeps("run", s, i) => row'[i] = row[i])
        /\ \A j \in Jobs : j # i => row'[j] = row[j] /\ effects'[j] = effects[j]
    BY <1>a, <1>b, <2>1, <2>5
  <2> QED
    BY <1>b, <1>d, <2>4, <2>5, <2>6, JobMoves
<1>2. CASE RequeueDue(d)
  <2>0. PICK i : i = sched[d].job
    OBVIOUS
  <2>1. sched[d].pc = "update" /\ i \in Jobs
    BY <1>2, <2>0 DEF RequeueDue, At, TypeInv, Assigned, PassAssigned
  <2>2. /\ row' = [row EXCEPT ![i] = PromotedRow(row[i])]
        /\ Step(d, "push") /\ UNCHANGED <<pending, delayed>>
    BY <1>2, <2>0 DEF RequeueDue
  <2>3. /\ sched'[d].pc = "push" /\ sched'[d].job = i
        /\ \A e \in Schedulers : e # d => sched'[e] = sched[e]
    BY <1>a, <2>0, <2>2 DEF Step, Passes
  <2>4. Keeps("update", d, i) /\ ~Keeps("update", d, i)' /\ Keeps("push", d, i)'
    BY <2>0, <2>1, <2>3 DEF Keeps
  <2>5. row[i].status = "retrying" /\ \A s \in Slots : ~Keeps("run", s, i)
    BY <1>a, <1>c, <2>1, <2>4, OneKeeper
  <2>6. /\ row'[i].status = "queued" /\ row'[i].attempts = row[i].attempts
        /\ (row'[i].old <=> row[i].old) /\ \A j \in Jobs : j # i => row'[j] = row[j]
    BY <1>a, <2>1, <2>2 DEF PromotedRow, Rows
  <2>7. \A j \in Jobs : Custody(j)'
    <3>1. ASSUME NEW j \in Jobs, NEW m \in Kinds, NEW z \in Keepers
          PROVE  \/ j = i /\ m = "update" /\ z = d
                 \/ j = i /\ m = "push" /\ z = d
                 \/ Keeps(m, z, j)' <=> Keeps(m, z, j)
      BY <1>b, <2>0, <2>1, <2>2, <2>3 DEF Keeps, Job, Waiting
    <3>2. /\ row'[i].status = StatusAt("push")
          /\ \A j \in Jobs : j # i => row'[j].status = row[j].status
      BY <1>c, <2>6
    <3> QED
      BY <1>a, <1>c, <2>1, <2>4, <3>1, <3>2, CustodyPasses
  <2>8. CalmRow(i)' /\ CalmPass(d)'
    BY <1>b, <2>1, <2>3, <2>5, <2>6 DEF CalmInv, CalmRow, CalmPass
  <2>9. /\ IsInjective(pending') /\ \A e \in Schedulers : sched'[e] = sched[e] \/ CalmPass(e)'
        /\ \A s \in Slots : exec'[s] = exec[s] /\ (Keeps("run", s, i) => row'[i] = row[i])
        /\ \A j \in Jobs : j # i => row'[j] = row[j] /\ effects'[j] = effects[j]
    BY <1>a, <1>b, <2>2, <2>3, <2>5, <2>6, <2>8
  <2> QED
    BY <1>b, <1>d, <2>1, <2>7, <2>8, <2>9, JobMoves
<1>3. CASE PushDue(d)
  <2>0. PICK i : i = sched[d].job
    OBVIOUS
  <2>1. sched[d].pc = "push" /\ i \in Jobs
    BY <1>3, <2>0 DEF PushDue, At, TypeInv, Assigned, PassAssigned
  <2>2. /\ pending' = <<i>> \o pending /\ UNCHANGED <<row, delayed>>
        /\ sched'[d] = IdlePass /\ sched'[d].pc = "idle"
        /\ \A e \in Schedulers : e # d => sched'[e] = sched[e]
    BY <1>3, <1>e, <2>0 DEF PushDue, IdlePass
  <2>3. Keeps("push", d, i) /\ ~Keeps("push", d, i)'
    BY <2>0, <2>1, <2>2 DEF Keeps
  <2>4. /\ row[i].status = "queued" /\ ~Keeps("pending", NoJob, i)
        /\ \A s \in Slots : ~Keeps("run", s, i)
    BY <1>a, <1>c, <2>1, <2>3, OneKeeper
  <2>5. i \notin Waiting
    BY <2>4 DEF Keeps
  <2>6. Waiting' = Waiting \cup {i} /\ IsInjective(pending')
    BY <1>a, <2>1, <2>2, <2>5, PushNew DEF Waiting
  <2>7. \A j \in Jobs : Custody(j)'
    <3>1. Keeps("pending", NoJob, i)'
      BY <2>6 DEF Keeps
    <3>2. ASSUME NEW j \in Jobs, NEW m \in Kinds, NEW z \in Keepers
          PROVE  \/ j = i /\ m = "push" /\ z = d
                 \/ j = i /\ m = "pending" /\ z = NoJob
                 \/ Keeps(m, z, j)' <=> Keeps(m, z, j)
      BY <1>b, <2>0, <2>1, <2>2, <2>6 DEF Keeps, Job
    <3>3. row'[i].status = StatusAt("pending") /\ \A j \in Jobs : row'[j].status = row[j].status
      BY <1>c, <2>2, <2>4
    <3> QED
      BY <1>a, <1>c, <2>1, <2>3, <3>1, <3>2, <3>3, CustodyPasses
  <2>8. CalmRow(i)' /\ CalmPass(d)'
    BY <1>b, <2>1, <2>2 DEF CalmInv, CalmRow, CalmPass
  <2>9. /\ \A e \in Schedulers : sched'[e] = sched[e] \/ CalmPass(e)'
        /\ \A s \in Slots : exec'[s] = exec[s] /\ (Keeps("run", s, i) => row'[i] = row[i])
        /\ \A j \in Jobs : j # i => row'[j] = row[j] /\ effects'[j] = effects[j]
    BY <1>b, <2>2, <2>8
  <2> QED
    BY <1>b, <1>d, <2>1, <2>6, <2>7, <2>8, <2>9, JobMoves
<1> QED
  BY <1>1, <1>2, <1>3

\* The recovery pass finds nothing to recover: every list it looks into belongs
\* to a process that beats, or is empty by then, and no row is old
\* (reaper.ts:32-175).
LEMMA RecoverCalmStep ==
  ASSUME CalmOnly, TypeInv, CalmInv, NEW d \in Schedulers, PassStep(d),
         ~(\E j \in Jobs : ClaimDue(d, j)), ~RequeueDue(d), ~PushDue(d),
         UNCHANGED <<api, workerVars>>
  PROVE  CalmInv'
<1> USE DEF stores, workerVars
<1>a. /\ sched \in [Schedulers -> Passes] /\ CalmPass(d)
      /\ Spending /\ \A j \in Jobs : CalmRow(j)
  BY DEF TypeInv, TypeOK, SchedTypeOK, CalmInv
<1>b. ~Interrupt(d)
  BY <1>a, SpendAllowed DEF Interrupt, Allowed, Disturbances
<1>c. /\ ~(Inspect(d) \/ Drop(d) \/ BuryLost(d) \/ Rescue(d) \/ MoveBack(d))
      /\ ~(ReadPending(d) \/ ScanLists(d) \/ EndSweep(d))
      /\ ~(\E w \in WorkerIds : ReadList(d, w)) /\ ~(\E j \in Jobs : PushOrphan(d, j))
  BY <1>a DEF CalmPass, At, Inspect, Drop, BuryLost, Rescue, MoveBack,
              ReadPending, ScanLists, EndSweep, ReadList, PushOrphan
\* the pass that goes on knows what CalmPass says, and has touched nothing
<1>d. ASSUME UNCHANGED stores, NEW r, Become(d, r), r.pc \notin {"update", "push"},
             sched[d].pc \notin {"update", "push"}, CalmPass(d)'
      PROVE  CalmInv'
  <2>1. sched'[d] = r /\ \A e \in Schedulers : e # d => sched'[e] = sched[e]
    BY <1>a, <1>d DEF Become
  <2>2. /\ IsInjective(pending')
        /\ \A j \in Jobs : Custody(j)' /\ Tally(j)' /\ CalmRow(j)'
        /\ \A s \in Slots : CalmSlot(s)'
    <3>1. \A s \in Slots : exec'[s] = exec[s] /\ (exec[s].pc # "idle" => Beating(ProcOf[s])')
      BY <1>d DEF CalmInv, CalmSlot, Beating
    <3>2. \A e \in Schedulers : \/ sched'[e] = sched[e]
                                \/ {sched[e].pc, sched'[e].pc} \cap {"update", "push"} = {}
      BY <1>d, <2>1
    <3> QED
      BY <1>d, <3>1, <3>2, JobsStand
  <2>3. (\A p \in Procs : CalmProc(p)') /\ \A e \in Schedulers : CalmPass(e)'
    BY <1>d, <2>1, OthersStand
  <2>4. Spending'
    BY <1>a, <1>d DEF Spending
  <2> QED
    BY <2>2, <2>3, <2>4 DEF CalmInv
<1>e. \A w : (Started(w)' <=> Started(w)) /\ (Gone(w)' <=> Gone(w))
  BY DEF Started, Gone
<1>f. \A r : Become(d, r) => sched'[d] = r
  BY <1>a DEF Become
<1>1. CASE BeginPass(d)
  <2> DEFINE r == [IdlePass EXCEPT !.pc = "lists", !.lists = ProcessingKeys]
  <2>1. Become(d, r) /\ UNCHANGED stores /\ sched[d].pc = "idle"
    BY <1>1 DEF BeginPass, At
  <2>2. r.pc = "lists" /\ r.lists = ProcessingKeys
    BY DEF IdlePass
  <2>3. \A w \in ProcessingKeys : Started(w)
    BY HeldIsBeating DEF ProcessingKeys, Started, Beating
  <2> HIDE DEF r
  <2>4. CalmPass(d)'
    <3>1. sched'[d].pc = "lists" /\ \A w \in sched'[d].lists : Started(w)'
      BY <1>e, <1>f, <2>1, <2>2, <2>3
    <3> QED
      BY <3>1 DEF CalmPass
  <2> QED
    BY <1>d, <2>1, <2>2, <2>4
<1>2. ASSUME NEW w \in WorkerIds, VisitList(d, w)
      PROVE  CalmInv'
  <2> DEFINE rest == [sched[d] EXCEPT !.lists = sched[d].lists \ {w}]
  <2>1. /\ UNCHANGED stores /\ sched[d].pc = "lists" /\ w \in sched[d].lists
        /\ Started(w) /\ \A v \in sched[d].lists : Started(v)
    BY <1>2, <1>a DEF VisitList, At, CalmPass
  <2>2. rest.pc = "lists" /\ rest.lists = sched[d].lists \ {w}
    BY <1>a, <2>1 DEF Passes
  <2>3. CASE Silent(w)
    <3> DEFINE r == [rest EXCEPT !.pc = "peek", !.wid = w]
    <3>1. Become(d, r)
      BY <1>2, <2>3 DEF VisitList
    <3>2. r.pc = "peek" /\ r.wid = w /\ r.lists = sched[d].lists \ {w}
      BY <1>a DEF Passes
    <3>3. Gone(w)
      BY <2>1, <2>3 DEF Silent, Started, Gone, CalmInv, CalmProc, Beating
    <3> HIDE DEF r, rest
    <3>4. CalmPass(d)'
      <4>1. sched'[d].pc = "peek" /\ sched'[d].wid = w /\ sched'[d].lists = sched[d].lists \ {w}
        BY <1>f, <3>1, <3>2
      <4>2. (\A v \in sched'[d].lists : Started(v)') /\ Gone(w)'
        BY <1>e, <2>1, <3>3, <4>1
      <4> QED
        BY <4>1, <4>2 DEF CalmPass
    <3> QED
      BY <1>d, <2>1, <3>1, <3>2, <3>4
  <2>4. CASE ~Silent(w)
    <3>1. Become(d, rest)
      BY <1>2, <2>4 DEF VisitList
    <3> HIDE DEF rest
    <3>2. CalmPass(d)'
      <4>1. sched'[d].pc = "lists" /\ sched'[d].lists = sched[d].lists \ {w}
        BY <1>f, <2>2, <3>1
      <4>2. \A v \in sched'[d].lists : Started(v)'
        BY <1>e, <2>1, <4>1
      <4> QED
        BY <4>1, <4>2 DEF CalmPass
    <3> QED
      BY <1>d, <2>1, <2>2, <3>1, <3>2
  <2> QED
    BY <2>3, <2>4
<1>3. CASE Peek(d)
  <2> DEFINE r == [sched[d] EXCEPT !.pc = "lists", !.wid = NoWorker]
  <2>1. UNCHANGED stores /\ sched[d].pc = "peek" /\ sched[d].wid \in WorkerIds
    BY <1>3 DEF Peek, At, TypeInv, Assigned, PassAssigned
  <2>2. processing[sched[d].wid] = <<>>
    BY <1>a, <2>1, GoneIsEmpty DEF CalmPass
  <2>3. Become(d, r)
    BY <1>3, <2>2 DEF Peek
  <2>4. r.pc = "lists" /\ r.lists = sched[d].lists
    BY <1>a DEF Passes
  <2> HIDE DEF r
  <2>5. CalmPass(d)'
    <3>1. sched'[d].pc = "lists" /\ sched'[d].lists = sched[d].lists
      BY <1>f, <2>3, <2>4
    <3>2. \A v \in sched'[d].lists : Started(v)'
      BY <1>a, <1>e, <2>1, <3>1 DEF CalmPass
    <3> QED
      BY <3>1, <3>2 DEF CalmPass
  <2> QED
    BY <1>d, <2>1, <2>3, <2>4, <2>5
<1>4. CASE EndReap(d)
  <2> DEFINE r == [sched[d] EXCEPT !.pc = "sweep"]
  <2>1. UNCHANGED stores /\ sched[d].pc = "lists" /\ Become(d, r)
    BY <1>4 DEF EndReap, At, Step, Become
  <2>2. r.pc = "sweep"
    BY <1>a DEF Passes
  <2> HIDE DEF r
  <2>3. CalmPass(d)'
    <3>1. sched'[d].pc = "sweep"
      BY <1>f, <2>1, <2>2
    <3> QED
      BY <3>1 DEF CalmPass
  <2> QED
    BY <1>d, <2>1, <2>2, <2>3
<1>5. CASE Query(d)
  <2>1. \A j \in Jobs : ~Orphanable(row[j])
    BY <1>a DEF CalmRow, Orphanable
  <2>2. UNCHANGED stores /\ sched[d].pc = "sweep" /\ Become(d, IdlePass)
    <3>1. {j \in Jobs : Orphanable(row[j])} = {}
      BY <2>1
    <3> QED
      BY <1>5, <3>1 DEF Query, At
  <2>3. IdlePass.pc = "idle"
    BY DEF IdlePass
  <2>4. CalmPass(d)'
    <3>1. sched'[d].pc = "idle"
      BY <1>f, <2>2, <2>3
    <3> QED
      BY <3>1 DEF CalmPass
  <2> QED
    BY <1>d, <2>2, <2>3, <2>4
<1> QED
  BY <1>b, <1>c, <1>1, <1>2, <1>3, <1>4, <1>5 DEF PassStep

-----------------------------------------------------------------------------
(* The invariant holds initially and survives every step.                  *)

\* At first no job is accepted, no process runs and nothing has been spent.
LEMMA CalmInit == CalmOnly /\ Init => CalmInv
<1> SUFFICES ASSUME CalmOnly, Init PROVE CalmInv
  OBVIOUS
<1> USE DEF Init, StoresInit, ApiInit, WorkerInit, SchedInit
<1>1. Spending
  BY BudgetAssumption DEF Spending
<1>2. IsInjective(pending)
  BY DEF IsInjective
<1>3. ASSUME NEW j \in Jobs PROVE Custody(j)
  <2>1. row[j].status = "none"
    BY DEF NoRow
  <2>2. \A k \in Kinds, x \in Keepers : ~Keeps(k, x, j)
    BY NoJobAssumption DEF Keeps, IdleExec, IdlePass, Waiting, ToSet
  <2> QED
    BY <2>1, <2>2 DEF Custody, Unfinished
<1>4. ASSUME NEW j \in Jobs PROVE Tally(j)
  <2>1. Busy(j) = {} /\ \A w \in WorkerIds : BusyFor(w, j) = {}
    BY DEF Busy, BusyFor, IdleExec
  <2>2. \A w \in WorkerIds : Found(processing[w], j) = {}
    BY DEF Found
  <2> QED
    BY <2>1, <2>2, FS_EmptySet DEF Tally
<1>5. ASSUME NEW j \in Jobs PROVE CalmRow(j)
  BY DEF CalmRow, NoRow
<1>6. \A s \in Slots : CalmSlot(s)
  BY DEF CalmSlot, IdleExec
<1>7. \A p \in Procs : CalmProc(p)
  BY DEF CalmProc, Beating
<1>8. \A d \in Schedulers : CalmPass(d)
  BY DEF CalmPass, IdlePass
<1> QED
  BY <1>1, <1>2, <1>3, <1>4, <1>5, <1>6, <1>7, <1>8 DEF CalmInv

\* No step of any process breaks it.
LEMMA CalmInductive == CalmOnly /\ TypeInv /\ CalmInv /\ [Next]_vars => CalmInv'
<1> SUFFICES ASSUME CalmOnly, TypeInv, CalmInv, [Next]_vars PROVE CalmInv'
  OBVIOUS
<1>1. CASE ApiStep
  BY <1>1, ApiCalmStep
<1>2. CASE WorkerStep
  <2>1. UNCHANGED <<api, sched>>
    BY <1>2 DEF WorkerStep
  <2>2. ASSUME NEW s \in Slots, SlotStep(s)
        PROVE  CalmInv'
    <3>1. CASE Take(s)
      BY <2>1, <3>1, TakeCalmStep
    <3>2. CASE Release(s)
      BY <2>1, <3>2, ReleaseCalmStep
    <3>3. CASE ~Take(s) /\ ~Release(s)
      BY <2>1, <2>2, <3>3, SlotCalmStep
    <3> QED
      BY <3>1, <3>2, <3>3
  <2>3. ASSUME NEW p \in Procs, ProcStep(p)
        PROVE  CalmInv'
    BY <2>1, <2>3, ProcCalmStep
  <2>4. ASSUME NEW w \in WorkerIds, Expire(w)
        PROVE  CalmInv'
    BY <2>1, <2>4, ExpireCalmStep
  <2> QED
    BY <1>2, <2>2, <2>3, <2>4 DEF WorkerStep
<1>3. CASE SchedStep
  BY <1>3, PromoteCalmStep, RecoverCalmStep DEF SchedStep
<1>4. CASE UNCHANGED vars
  <2> USE <1>4 DEF vars, stores, workerVars
  <2>1. /\ IsInjective(pending')
        /\ \A j \in Jobs : Custody(j)' /\ Tally(j)' /\ CalmRow(j)'
        /\ \A s \in Slots : CalmSlot(s)'
    <3>1. \A s \in Slots : exec'[s] = exec[s] /\ (exec[s].pc # "idle" => Beating(ProcOf[s])')
      BY DEF CalmInv, CalmSlot, Beating
    <3>2. \A d \in Schedulers : sched'[d] = sched[d]
      OBVIOUS
    <3> QED
      BY <3>1, <3>2, JobsStand
  <2>2. (\A p \in Procs : CalmProc(p)') /\ \A d \in Schedulers : CalmPass(d)'
    BY OthersStand
  <2>3. Spending'
    BY DEF CalmInv, Spending
  <2> QED
    BY <2>1, <2>2, <2>3 DEF CalmInv
<1> QED
  BY <1>1, <1>2, <1>3, <1>4 DEF Next

LEMMA CalmInvariant ==
  ASSUME CalmOnly
  PROVE  Spec => [](TypeInv /\ CalmInv)
<1>1. Init => CalmInv
  BY CalmInit
<1>2. TypeInv /\ CalmInv /\ [Next]_vars => CalmInv'
  BY CalmInductive
<1> QED
  BY <1>1, <1>2, TypeInvariant, PTL DEF Spec

-----------------------------------------------------------------------------
(* What follows for the jobs.                                              *)

\* A running job is kept by an execution in its handler, which holds its lease.
LEMMA RunningIsKept ==
  ASSUME TypeInv, CalmInv, NEW j \in Jobs, row[j].status = "running"
  PROVE  \E s \in Slots : exec[s].pc = "run" /\ Job(s) = j /\ exec[s].lease = row[j].lease
<1>1. Custody(j) /\ Unfinished(j)
  BY DEF CalmInv, Unfinished, Terminal
<1>2. PICK k \in Kinds, x \in Keepers : Keeps(k, x, j)
  BY <1>1 DEF Custody
<1>3. StatusAt(k) = "running"
  BY <1>1, <1>2 DEF Custody
<1>4. k = "run"
  BY <1>3 DEF StatusAt, Kinds
<1>5. x \in Slots /\ exec[x].pc = "run" /\ Job(x) = j
  BY <1>2, <1>4 DEF Keeps
<1>6. exec[x].lease = row[j].lease
  BY <1>5 DEF CalmInv, CalmSlot
<1> QED
  BY <1>5, <1>6

\* Without disturbances a running row always has its execution: a drain waits
\* for what is in flight (worker/index.ts:272-298), so no execution is cut off.
THEOREM CalmIsAttended ==
  ASSUME CalmOnly
  PROVE  Spec => []RunningIsAttended
<1>1. TypeInv /\ CalmInv => RunningIsAttended
  BY RunningIsKept DEF RunningIsAttended
<1> QED
  BY <1>1, CalmInvariant, PTL

\* Two executions of a job never run at the same time, although its id may be
\* taken again before an earlier execution of it has done its LREM.
THEOREM CalmRunsAlone ==
  ASSUME CalmOnly
  PROVE  Spec => []RunsAlone
<1>1. TypeInv /\ CalmInv => RunsAlone
  <2> SUFFICES ASSUME TypeInv, CalmInv, NEW s \in Slots, NEW t \in Slots,
                      exec[s].pc = "run", exec[t].pc = "run", Job(s) = Job(t)
               PROVE  s = t
    BY DEF RunsAlone
  <2>1. PICK j : j = Job(s)
    OBVIOUS
  <2>2. j \in Jobs /\ Keeps("run", s, j) /\ Keeps("run", t, j)
    BY <2>1, BusySlot
  <2>3. "run" \in Kinds /\ s \in Keepers /\ t \in Keepers
    BY DEF Kinds, Keepers
  <2> QED
    BY <2>2, <2>3 DEF CalmInv, Custody
<1> QED
  BY <1>1, CalmInvariant, PTL

\* Every job is recorded at most once, when it succeeds.
THEOREM CalmRecordsOnce ==
  ASSUME CalmOnly
  PROVE  Spec => []AtMostOneEffect
<1>1. TypeInv /\ CalmInv => AtMostOneEffect
  BY DEF CalmInv, CalmRow, AtMostOneEffect
<1> QED
  BY <1>1, CalmInvariant, PTL

\* An unfinished job is where a process will look for it, in whatever order
\* Postgres and Redis are written (api/index.ts, worker/index.ts,
\* scheduler/index.ts).
THEOREM CalmLosesNothing ==
  ASSUME CalmOnly
  PROVE  Spec => []NothingLost
<1>1. TypeInv /\ CalmInv => NothingLost
  <2> SUFFICES ASSUME TypeInv, CalmInv, NEW j \in Jobs
               PROVE  LET listed == \E w \in WorkerIds : j \in ToSet(processing[w])
                          inHand == \E d \in Schedulers : sched[d].pc \in {"update", "push"} /\ sched[d].job = j
                      IN /\ row[j].status = "running" => listed
                         /\ row[j].status = "retrying" =>
                              j \in delayed \/ inHand \/ \E s \in Slots : exec[s].pc = "zadd" /\ Job(s) = j
                         /\ row[j].status = "queued" =>
                              \/ listed \/ inHand \/ j \in ToSet(pending)
                              \/ \E r \in Requests : api[r] = j
                              \/ budget["apiCrash"] < Budget["apiCrash"]
    BY DEF NothingLost
  <2>1. CASE ~Unfinished(j)
    BY <2>1 DEF Unfinished, Terminal
  <2>2. CASE Unfinished(j)
    <3>1. PICK k \in Kinds, x \in Keepers : Keeps(k, x, j)
      BY <2>2 DEF CalmInv, Custody
    <3>2. row[j].status = StatusAt(k)
      BY <3>1 DEF CalmInv, Custody
    <3>3. CASE k \in {"claim", "run", "zadd"}
      <4>1. x \in Slots /\ exec[x].pc = k /\ Job(x) = j
        BY <3>1, <3>3 DEF Keeps
      <4>2. HolderOf(x) \in WorkerIds /\ j \in ToSet(processing[HolderOf(x)])
        BY <3>3, <4>1, BusySlot, BusyIsListed
      <4>3. row[j].status = "retrying" => k = "zadd"
        BY <3>2, <3>3 DEF StatusAt
      <4> QED
        BY <4>1, <4>2, <4>3
    <3>4. CASE k \in {"request", "pending"}
      <4>1. row[j].status = "queued"
        BY <3>2, <3>4 DEF StatusAt
      <4> QED
        BY <3>1, <3>4, <4>1 DEF Keeps, Waiting
    <3>5. CASE k \in {"delayed", "update", "push"}
      <4>1. row[j].status # "running" /\ (k = "delayed" => row[j].status = "retrying")
        BY <3>2, <3>5 DEF StatusAt
      <4> QED
        BY <3>1, <3>5, <4>1 DEF Keeps
    <3> QED
      BY <3>3, <3>4, <3>5 DEF Kinds
  <2> QED
    BY <2>1, <2>2
<1> QED
  BY <1>1, CalmInvariant, PTL

-----------------------------------------------------------------------------
(* Counting copies.  The ids in the processing lists are those of the      *)
(* slots, released ones included; what is left of the slots' jobs and of   *)
(* the other places is what custody says: one.                             *)

Live(j)   == {s \in Slots : exec[s].pc \notin {"idle", "release"} /\ Job(s) = j}
Done(j)   == {s \in Slots : exec[s].pc = "release" /\ Job(s) = j}
Listed(j) == UNION {{"list"} \X {w} \X Found(processing[w], j) : w \in WorkerIds}

Elsewhere(j) ==
  ({"pending"} \X Found(pending, j))
  \cup ({"delayed"} \X (delayed \cap {j}))
  \cup ({"request"} \X {r \in Requests : api[r] = j})
  \cup ({"scheduler"} \X {d \in Schedulers : sched[d].pc \in {"update", "push"}
                                           /\ sched[d].job = j})

\* The processing lists hold as many copies of an id as slots work on it: the
\* counts agree list by list, and a slot adds to one list.
LEMMA ListedCounts ==
  ASSUME TypeInv, CalmInv, NEW j \in Jobs
  PROVE  IsFiniteSet(Listed(j)) /\ Cardinality(Listed(j)) = Cardinality(Busy(j))
<1> DEFINE F(w) == Found(processing[w], j)
<1>1. /\ Tally(j) /\ \A w \in WorkerIds : processing[w] \in Seq(Jobs)
      /\ \A s \in Slots : HolderOf(s) \in WorkerIds
  BY IdOfAssumption, ProcOfAssumption
  DEF CalmInv, TypeInv, TypeOK, StoresTypeOK, HolderOf
<1>2. ASSUME NEW w \in WorkerIds
      PROVE  \E g : g \in Bijection(BusyFor(w, j), F(w))
  <2>1. IsFiniteSet(BusyFor(w, j))
    <3>1. IsFiniteSet(Busy(j)) /\ BusyFor(w, j) \in SUBSET Busy(j)
      BY <1>1 DEF Tally, BusyFor
    <3> QED
      BY <3>1, FS_Subset
  <2>2. IsFiniteSet(F(w))
    BY <1>1, FoundFinite
  <2>3. Cardinality(F(w)) = Cardinality(BusyFor(w, j))
    BY <1>1 DEF Tally
  <2> HIDE DEF F
  <2>4. ExistsBijection(BusyFor(w, j), F(w))
    BY <2>1, <2>2, <2>3, FS_SameCardinalityBij
  <2> QED
    BY <2>4 DEF ExistsBijection
<1> DEFINE b  == [w \in WorkerIds |-> CHOOSE g : g \in Bijection(BusyFor(w, j), F(w))]
           B  == Busy(j)
           C  == Listed(j)
           at == [s \in B |-> <<"list", HolderOf(s), b[HolderOf(s)][s]>>]
<1>3. ASSUME NEW w \in WorkerIds
      PROVE  /\ \A s \in BusyFor(w, j) : b[w][s] \in F(w)
             /\ \A s, t \in BusyFor(w, j) : b[w][s] = b[w][t] => s = t
             /\ \A i \in F(w) : \E s \in BusyFor(w, j) : b[w][s] = i
  <2> HIDE DEF F
  <2>1. b[w] \in Bijection(BusyFor(w, j), F(w))
    BY <1>2
  <2> HIDE DEF b
  <2> QED
    BY <2>1 DEF Bijection, Injection, Surjection, IsInjective
<1>4. \A x : x \in C <=> \E w \in WorkerIds : \E i \in F(w) : x = <<"list", w, i>>
  BY DEF Listed
<1>5. \A s \in B : s \in Slots /\ HolderOf(s) \in WorkerIds /\ s \in BusyFor(HolderOf(s), j)
  BY <1>1 DEF Busy, BusyFor
<1>6. \A w \in WorkerIds : \A s \in BusyFor(w, j) : s \in B /\ HolderOf(s) = w
  BY DEF BusyFor
<1> HIDE DEF b, B, C, F
<1>7. at \in [B -> C]
  BY <1>3, <1>4, <1>5
<1>8. \A s, t \in B : at[s] = at[t] => s = t
  BY <1>3, <1>5
<1>9. \A x \in C : \E s \in B : at[s] = x
  <2> TAKE x \in C
  <2>1. PICK w \in WorkerIds : \E i \in F(w) : x = <<"list", w, i>>
    BY <1>4
  <2>2. PICK i \in F(w) : x = <<"list", w, i>>
    BY <2>1
  <2>3. PICK s \in BusyFor(w, j) : b[w][s] = i
    BY <1>3
  <2> QED
    BY <1>6, <2>2, <2>3
<1>10. IsFiniteSet(B)
  BY <1>1 DEF Tally, B
<1> HIDE DEF at
<1> QED
  BY <1>7, <1>8, <1>9, <1>10, SameSize DEF B, C

\* A set with the copies of a single keeper has one element.
LEMMA OneElement ==
  ASSUME NEW A, NEW x, \A y : y \in A <=> y = x
  PROVE  IsFiniteSet(A) /\ Cardinality(A) = 1
<1>1. A = {x}
  OBVIOUS
<1> QED
  BY <1>1, FS_Singleton

\* Of an unfinished job there is one execution that has not released it, or one
\* copy elsewhere, and never both.
LEMMA OneKept ==
  ASSUME TypeInv, CalmInv, NEW j \in Jobs, Unfinished(j)
  PROVE  /\ IsFiniteSet(Live(j)) /\ IsFiniteSet(Elsewhere(j))
         /\ \/ Cardinality(Live(j)) = 1 /\ Cardinality(Elsewhere(j)) = 0
            \/ Cardinality(Live(j)) = 0 /\ Cardinality(Elsewhere(j)) = 1
<1>a. Custody(j) /\ pending \in Seq(Jobs) /\ IsInjective(pending)
  BY DEF CalmInv, TypeInv, TypeOK, StoresTypeOK
<1>b. PICK k \in Kinds, x \in Keepers : Keeps(k, x, j)
  BY <1>a DEF Custody
<1>c. \A l \in Kinds, y \in Keepers : Keeps(l, y, j) <=> l = k /\ y = x
  BY <1>a, <1>b, OneKeeper
<1>d. /\ {"request", "pending", "claim", "run", "zadd", "delayed", "update", "push"} = Kinds
      /\ NoJob \in Keepers /\ \A y : y \in Requests \cup Slots \cup Schedulers => y \in Keepers
  BY DEF Kinds, Keepers
<1>e. \A s : s \in Live(j) <=> s \in Slots /\ k \in {"claim", "run", "zadd"} /\ s = x
  <2>1. \A s \in Slots : s \in Live(j) <=> \E l \in {"claim", "run", "zadd"} : Keeps(l, s, j)
    BY DEF Live, Keeps, CalmInv, CalmSlot
  <2>2. \A s \in Slots, l \in {"claim", "run", "zadd"} : Keeps(l, s, j) <=> l = k /\ s = x
    BY <1>c, <1>d
  <2> QED
    BY <2>1, <2>2 DEF Live
<1>f. /\ \A i, m \in Found(pending, j) : i = m
      /\ Found(pending, j) # {} <=> k = "pending"
  <2>1. Found(pending, j) = {i \in 1..Len(pending) : pending[i] = j}
    BY <1>a, FoundFinite
  <2>2. Len(pending) \in Nat /\ DOMAIN pending = 1..Len(pending)
    BY <1>a, LenProperties
  <2>3. Found(pending, j) # {} <=> j \in Waiting
    BY <1>a, <2>1, ListedIds DEF Waiting
  <2>4. j \in Waiting <=> k = "pending"
    <3>1. Keeps("pending", NoJob, j) <=> j \in Waiting
      BY DEF Keeps
    <3>2. k = "pending" => x = NoJob
      BY <1>b DEF Keeps
    <3> QED
      BY <1>c, <1>d, <3>1, <3>2
  <2>5. \A i, m \in Found(pending, j) : i = m
    BY <1>a, <2>1, <2>2 DEF IsInjective
  <2> QED
    BY <2>3, <2>4, <2>5
<1>g. j \in delayed <=> k = "delayed"
  <2>1. Keeps("delayed", NoJob, j) <=> j \in delayed
    BY DEF Keeps
  <2>2. k = "delayed" => x = NoJob
    BY <1>b DEF Keeps
  <2> QED
    BY <1>c, <1>d, <2>1, <2>2
<1>h. \A r \in Requests : api[r] = j <=> k = "request" /\ r = x
  <2>1. \A r \in Requests : Keeps("request", r, j) <=> api[r] = j
    BY DEF Keeps
  <2> QED
    BY <1>c, <1>d, <2>1
<1>i. \A d \in Schedulers : sched[d].pc \in {"update", "push"} /\ sched[d].job = j
                              <=> k \in {"update", "push"} /\ d = x
  <2>1. \A d \in Schedulers, l \in {"update", "push"} :
          Keeps(l, d, j) <=> sched[d].pc = l /\ sched[d].job = j
    BY DEF Keeps
  <2>2. \A d \in Schedulers, l \in {"update", "push"} : Keeps(l, d, j) <=> l = k /\ d = x
    BY <1>c, <1>d
  <2> QED
    BY <2>1, <2>2
<1>j. \A z : z \in Elsewhere(j) <=>
        \/ \E i \in Found(pending, j) : z = <<"pending", i>>
        \/ k = "delayed" /\ z = <<"delayed", j>>
        \/ k = "request" /\ x \in Requests /\ z = <<"request", x>>
        \/ k \in {"update", "push"} /\ x \in Schedulers /\ z = <<"scheduler", x>>
  BY <1>g, <1>h, <1>i DEF Elsewhere
<1>1. CASE k \in {"claim", "run", "zadd"}
  <2>1. x \in Slots
    BY <1>b, <1>1 DEF Keeps
  <2>2. \A z : z \notin Elsewhere(j)
    BY <1>f, <1>j, <1>1
  <2>3. IsFiniteSet(Live(j)) /\ Cardinality(Live(j)) = 1
    BY <1>e, <1>1, <2>1, OneElement
  <2>4. IsFiniteSet(Elsewhere(j)) /\ Cardinality(Elsewhere(j)) = 0
    BY <2>2, FS_EmptySet
  <2> QED
    BY <2>3, <2>4
<1>2. CASE k \notin {"claim", "run", "zadd"}
  <2>1. IsFiniteSet(Live(j)) /\ Cardinality(Live(j)) = 0
    BY <1>e, <1>2, FS_EmptySet
  <2>2. IsFiniteSet(Elsewhere(j)) /\ Cardinality(Elsewhere(j)) = 1
    <3>1. CASE k = "pending"
      <4>1. PICK i \in Found(pending, j) : \A m \in Found(pending, j) : m = i
        BY <1>f, <3>1
      <4>2. PICK c : c = <<"pending", i>>
        OBVIOUS
      <4>3. \A z : z \in Elsewhere(j) <=> z = c
        BY <1>j, <3>1, <4>1, <4>2
      <4> QED
        BY <4>3, OneElement
    <3>2. CASE k = "delayed"
      <4>1. PICK c : c = <<"delayed", j>>
        OBVIOUS
      <4>2. \A z : z \in Elsewhere(j) <=> z = c
        BY <1>f, <1>j, <3>2, <4>1
      <4> QED
        BY <4>2, OneElement
    <3>3. CASE k = "request"
      <4>1. x \in Requests
        BY <1>b, <3>3 DEF Keeps
      <4>2. PICK c : c = <<"request", x>>
        OBVIOUS
      <4>3. \A z : z \in Elsewhere(j) <=> z = c
        BY <1>f, <1>j, <3>3, <4>1, <4>2
      <4> QED
        BY <4>3, OneElement
    <3>4. CASE k \in {"update", "push"}
      <4>1. x \in Schedulers
        BY <1>b, <3>4 DEF Keeps
      <4>2. PICK c : c = <<"scheduler", x>>
        OBVIOUS
      <4>3. \A z : z \in Elsewhere(j) <=> z = c
        BY <1>f, <1>j, <3>4, <4>1, <4>2
      <4> QED
        BY <4>3, OneElement
    <3> QED
      BY <1>2, <3>1, <3>2, <3>3, <3>4 DEF Kinds
  <2> QED
    BY <2>1, <2>2
<1> QED
  BY <1>1, <1>2

\* So the copies in circulation, less those that a slot is about to take out of
\* a list, are one.
LEMMA OneCopyExactly ==
  ASSUME TypeInv, CalmInv, NEW j \in Jobs, Unfinished(j)
  PROVE  Copies(j) = 1
<1> DEFINE A == Listed(j)
           E == Elsewhere(j)
           N == Live(j)
           D == Done(j)
<1>1. IsFiniteSet(A) /\ Cardinality(A) = Cardinality(Busy(j)) /\ IsFiniteSet(Busy(j))
  BY ListedCounts DEF CalmInv, Tally
<1>2. /\ IsFiniteSet(N) /\ IsFiniteSet(E)
      /\ \/ Cardinality(N) = 1 /\ Cardinality(E) = 0
         \/ Cardinality(N) = 0 /\ Cardinality(E) = 1
  BY OneKept
<1>3. Busy(j) = N \cup D /\ N \cap D = {} /\ D \in SUBSET Busy(j)
  BY DEF Busy, Live, Done
<1>4. Cardinality(Busy(j)) = Cardinality(N) + Cardinality(D) /\ Cardinality(D) \in Nat
  <2> HIDE DEF N, D
  <2>1. IsFiniteSet(D)
    BY <1>1, <1>3, FS_Subset
  <2>2. Cardinality(N \cap D) = 0
    BY <1>3, FS_EmptySet
  <2>3. Cardinality(N) \in Nat /\ Cardinality(D) \in Nat
    BY <1>2, <2>1, FS_CardinalityType
  <2>4. Cardinality(N \cup D) = Cardinality(N) + Cardinality(D) - Cardinality(N \cap D)
    BY <1>2, <2>1, FS_Union
  <2> QED
    BY <1>3, <2>2, <2>3, <2>4
<1>5. Places(j) = A \cup E /\ A \cap E = {}
  <2>1. Places(j) = A \cup E
    BY DEF Places, Listed, Elsewhere, Found
  <2>2. \A z \in A : z[1] = "list"
    BY DEF Listed
  <2>3. \A z \in E : z[1] # "list"
    BY DEF Elsewhere
  <2> QED
    BY <2>1, <2>2, <2>3
<1>6. Cardinality(Places(j)) = Cardinality(A) + Cardinality(E)
  <2> HIDE DEF A, E
  <2>1. Cardinality(A \cap E) = 0
    BY <1>5, FS_EmptySet
  <2>2. Cardinality(A) \in Nat /\ Cardinality(E) \in Nat
    BY <1>1, <1>2, FS_CardinalityType
  <2>3. Cardinality(A \cup E) = Cardinality(A) + Cardinality(E) - Cardinality(A \cap E)
    BY <1>1, <1>2, FS_Union
  <2> QED
    BY <1>5, <2>1, <2>2, <2>3
<1>7. Cardinality(Released(j)) = Cardinality(D)
  <2> DEFINE R  == Released(j)
             at == [s \in D |-> <<"slot", s>>]
  <2>1. \A d \in Schedulers : sched[d].pc # "drop"
    BY DEF CalmInv, CalmPass
  <2>2. \A z : z \in R <=> \E s \in D : z = <<"slot", s>>
    BY <2>1 DEF Released, Done
  <2>3. IsFiniteSet(D)
    BY <1>1, <1>3, FS_Subset
  <2> HIDE DEF R, D
  <2>4. at \in [D -> R] /\ (\A s, t \in D : at[s] = at[t] => s = t)
    BY <2>2
  <2>5. \A z \in R : \E s \in D : at[s] = z
    BY <2>2
  <2> HIDE DEF at
  <2>6. Cardinality(R) = Cardinality(D)
    BY <2>3, <2>4, <2>5, SameSize
  <2> QED
    BY <2>6 DEF R
<1> HIDE DEF A, E, N, D
<1> QED
  BY <1>1, <1>2, <1>4, <1>6, <1>7 DEF Copies

\* The hand-overs of BLMOVE, ZADD, ZREM and LPUSH (api/index.ts,
\* worker/index.ts, scheduler/index.ts) neither copy an unfinished job nor drop
\* it, although a list may hold its id twice for a moment.
THEOREM CalmHasOneCopy ==
  ASSUME CalmOnly
  PROVE  Spec => []ExactlyOneCopy
<1>1. TypeInv /\ CalmInv => ExactlyOneCopy
  BY OneCopyExactly DEF ExactlyOneCopy
<1> QED
  BY <1>1, CalmInvariant, PTL

-----------------------------------------------------------------------------
(* What a client sees: every step writes at most one row, and which UPDATE *)
(* that is depends on the status it finds.                                 *)

Writes(j, from, r) == row[j].status = from /\ row' = [row EXCEPT ![j] = r]

\* A step that records no success, and what it does to the row of job j.
Turns(j) ==
  \/ Writes(j, "none", InsertedRow)
  \/ Writes(j, "dead", ReplayedRow(row[j])) /\ \E r \in Requests : api'[r] = j
  \/ Writes(j, "queued", ClaimedRow(row[j]))
  \/ Writes(j, "running", BuriedRow(row[j])) /\ row[j].attempts = MaxAttempts
  \/ Writes(j, "running", ParkedRow(row[j])) /\ row[j].attempts < MaxAttempts
  \/ Writes(j, "retrying", PromotedRow(row[j]))

\* The step that records one.
Records(j) ==
  /\ Writes(j, "running", SucceededRow(row[j]))
  /\ \E lease : effects' = [effects EXCEPT ![j] = Append(effects[j], lease)]

\* The six UPDATEs of processOne() and promoteDue(), and the two statements of
\* the API, find the row in the status they were written for, whoever else
\* wrote to it meanwhile: only the keeper of a job writes to its row.
LEMMA CalmWrites ==
  ASSUME CalmOnly, TypeInv, CalmInv, [Next]_vars
  PROVE  \/ UNCHANGED postgres
         \/ \E j \in Jobs : effects' = effects /\ Turns(j)
         \/ \E j \in Jobs : Records(j)
<1> USE DEF postgres, stores
<1>a. /\ Spending /\ (\A j \in Jobs : Custody(j) /\ CalmRow(j))
      /\ api \in [Requests -> Jobs \cup {NoJob}] /\ row \in [Jobs -> Rows]
  BY DEF CalmInv, TypeInv, TypeOK, ApiTypeOK, StoresTypeOK
<1>1. CASE ApiStep
  <2>1. ASSUME NEW r \in Requests, NEW j \in Jobs, Submit(r, j)
        PROVE  effects' = effects /\ Turns(j)
    BY <2>1 DEF Submit, Turns, Writes
  <2>2. ASSUME NEW r \in Requests, NEW j \in Jobs, Replay(r, j)
        PROVE  effects' = effects /\ Turns(j)
    <3>1. api'[r] = j
      BY <1>a, <2>2 DEF Replay
    <3> QED
      BY <2>2, <3>1 DEF Replay, Replayable, Turns, Writes
  <2>3. ASSUME NEW r \in Requests, Enqueue(r) \/ RequestDies(r)
        PROVE  UNCHANGED postgres
    BY <2>3 DEF Enqueue, RequestDies
  <2>4. ASSUME NEW j \in Jobs, GrowOld(j)
        PROVE  FALSE
    <3>1. Spend("slow") \/ Spend("age")
      BY <2>4 DEF GrowOld
    <3> QED
      BY <1>a, <3>1, SpendAllowed DEF Allowed, Disturbances
  <2> QED
    BY <1>1, <2>1, <2>2, <2>3, <2>4 DEF ApiStep
<1>2. ASSUME NEW s \in Slots, SlotStep(s)
      PROVE  \/ UNCHANGED postgres
             \/ \E j \in Jobs : effects' = effects /\ Turns(j)
             \/ \E j \in Jobs : Records(j)
  <2>0. PICK j : j = Job(s)
    OBVIOUS
  <2>1. ~(LoseCommitAnswer(s) \/ FailToCommit(s) \/ Abandon(s))
    BY <1>a, SpendAllowed DEF LoseCommitAnswer, FailToCommit, Abandon, Allowed, Disturbances
  <2>2. "claim" \in Kinds /\ "run" \in Kinds /\ s \in Keepers
        /\ StatusAt("claim") = "queued" /\ StatusAt("run") = "running"
    BY DEF Kinds, Keepers, StatusAt
  <2>3. exec[s].pc # "fail"
    BY DEF CalmInv, CalmSlot
  <2>4. exec[s].pc = "run" => /\ j \in Jobs /\ row[j].status = "running"
                              /\ Owns(row[j], exec[s].lease)
                              /\ exec[s].attempts = row[j].attempts
                              /\ row[j].attempts \in 1..MaxAttempts
    <3> SUFFICES ASSUME exec[s].pc = "run"
                 PROVE  /\ j \in Jobs /\ row[j].status = "running"
                        /\ Owns(row[j], exec[s].lease)
                        /\ exec[s].attempts = row[j].attempts
                        /\ row[j].attempts \in 1..MaxAttempts
      OBVIOUS
    <3>1. j \in Jobs /\ Keeps("run", s, j)
      BY <2>0, BusySlot
    <3>2. row[j].status = "running"
      BY <1>a, <2>2, <3>1, OneKeeper
    <3> QED
      BY <1>a, <2>0, <3>1, <3>2 DEF CalmInv, CalmSlot, CalmRow, Owns
  <2>5. CASE Claim(s)
    <3>1. exec[s].pc = "claim"
      BY <2>5 DEF Claim
    <3>2. j \in Jobs /\ Keeps("claim", s, j)
      BY <2>0, <3>1, BusySlot
    <3>3. row[j].status = "queued"
      BY <1>a, <2>2, <3>2, OneKeeper
    <3>4. effects' = effects /\ Writes(j, "queued", ClaimedRow(row[j]))
      BY <2>0, <2>5, <3>3 DEF Claim, Claimable, Writes
    <3> QED
      BY <3>2, <3>4 DEF Turns
  <2>6. CASE Succeed(s)
    <3>1. /\ row' = [row EXCEPT ![j] = SucceededRow(row[j])]
          /\ effects' = [effects EXCEPT ![j] = Append(effects[j], exec[s].lease)]
          /\ j \in Jobs /\ row[j].status = "running"
      BY <2>0, <2>4, <2>6 DEF Succeed, RecordSuccess
    <3> QED
      BY <3>1 DEF Records, Writes
  <2>7. CASE Bury(s)
    <3>1. exec[s].pc = "run" /\ effects' = effects
      BY <2>3, <2>7 DEF Bury, Failing
    <3>2. row' = [row EXCEPT ![j] = BuriedRow(row[j])]
      BY <2>0, <2>4, <2>7, <3>1 DEF Bury
    <3>3. row[j].attempts = MaxAttempts
      BY <2>4, <2>7, <3>1, MaxAttemptsAssumption DEF Bury, Exhausted
    <3> QED
      BY <2>4, <3>1, <3>2, <3>3 DEF Turns, Writes
  <2>8. CASE Park(s)
    <3>1. exec[s].pc = "run" /\ effects' = effects
      BY <2>3, <2>8 DEF Park, Failing
    <3>2. row' = [row EXCEPT ![j] = ParkedRow(row[j])]
      BY <2>0, <2>4, <2>8, <3>1 DEF Park
    <3>3. row[j].attempts < MaxAttempts
      BY <2>4, <2>8, <3>1, MaxAttemptsAssumption DEF Park, Exhausted
    <3> QED
      BY <2>4, <3>1, <3>2, <3>3 DEF Turns, Writes
  <2>9. CASE Take(s) \/ Schedule(s) \/ Release(s)
    BY <2>9 DEF Take, Schedule, Release
  <2> QED
    BY <1>2, <2>1, <2>5, <2>6, <2>7, <2>8, <2>9 DEF SlotStep
<1>3. ASSUME NEW p \in Procs, ProcStep(p)
      PROVE  UNCHANGED postgres
  <2>1. ~RequeueOwn(p)
    BY DEF CalmInv, CalmProc, RequeueOwn
  <2> QED
    BY <1>3, <2>1
    DEF ProcStep, Start, FindNoHeartbeat, LeaveListAlone, ReadOwnList, MoveBackOwn,
        StartBeating, TakeUnanswered, Beat, Stop, Drained, Crash
<1>4. ASSUME NEW w \in WorkerIds, Expire(w)
      PROVE  UNCHANGED postgres
  BY <1>4 DEF Expire
<1>5. ASSUME NEW d \in Schedulers, PassStep(d)
      PROVE  \/ UNCHANGED postgres
             \/ \E j \in Jobs : effects' = effects /\ Turns(j)
  <2>1. ~BuryLost(d) /\ ~Rescue(d)
    BY DEF CalmInv, CalmPass, BuryLost, Rescue, At
  <2>2. CASE RequeueDue(d)
    <3>0. PICK j : j = sched[d].job
      OBVIOUS
    <3>1. sched[d].pc = "update" /\ j \in Jobs
      BY <2>2, <3>0 DEF RequeueDue, At, TypeInv, Assigned, PassAssigned
    <3>2. /\ Keeps("update", d, j) /\ "update" \in Kinds /\ d \in Keepers
          /\ StatusAt("update") = "retrying"
      BY <3>0, <3>1 DEF Keeps, Kinds, Keepers, StatusAt
    <3>3. row[j].status = "retrying"
      BY <1>a, <3>1, <3>2, OneKeeper
    <3>4. effects' = effects /\ Writes(j, "retrying", PromotedRow(row[j]))
      BY <2>2, <3>0, <3>3 DEF RequeueDue, Writes
    <3> QED
      BY <3>1, <3>4 DEF Turns
  <2>3. CASE (\E j \in Jobs : ClaimDue(d, j)) \/ PushDue(d) \/ BeginPass(d)
    BY <2>3 DEF ClaimDue, PushDue, BeginPass
  <2>4. CASE \E w \in WorkerIds : VisitList(d, w) \/ ReadList(d, w)
    BY <2>4 DEF VisitList, ReadList
  <2>5. CASE Peek(d) \/ Inspect(d) \/ Drop(d) \/ MoveBack(d) \/ EndReap(d)
    BY <2>5 DEF Peek, Inspect, Drop, MoveBack, EndReap
  <2>6. CASE Query(d) \/ ReadPending(d) \/ ScanLists(d) \/ EndSweep(d) \/ Interrupt(d)
    BY <2>6 DEF Query, ReadPending, ScanLists, EndSweep, Interrupt
  <2>7. CASE \E j \in Jobs : PushOrphan(d, j)
    BY <2>7 DEF PushOrphan
  <2> QED
    BY <1>5, <2>1, <2>2, <2>3, <2>4, <2>5, <2>6, <2>7 DEF PassStep
<1>6. CASE UNCHANGED vars
  BY <1>6 DEF vars
<1> QED
  BY <1>1, <1>2, <1>3, <1>4, <1>5, <1>6 DEF Next, WorkerStep, SchedStep

\* A succeeded row is never written again, a dead one only by a replay, whose
\* request then holds the id: no late UPDATE of a worker or a scheduler finds it.
THEOREM CalmStaysFinished ==
  ASSUME CalmOnly
  PROVE  Spec => FinishedStaysFinished
<1> DEFINE Stays == \A j \in Jobs :
             /\ row[j].status = "succeeded" => row'[j].status = "succeeded"
             /\ row[j].status = "dead" =>
                  \/ row'[j].status = "dead"
                  \/ row'[j].status = "queued" /\ \E r \in Requests : api'[r] = j
<1>1. TypeInv /\ CalmInv /\ [Next]_vars => [Stays]_vars
  <2> SUFFICES ASSUME TypeInv, CalmInv, [Next]_vars, NEW j \in Jobs
               PROVE  /\ row[j].status = "succeeded" => row'[j].status = "succeeded"
                      /\ row[j].status = "dead" =>
                           \/ row'[j].status = "dead"
                           \/ row'[j].status = "queued" /\ \E r \in Requests : api'[r] = j
    OBVIOUS
  <2>1. row \in [Jobs -> Rows]
    BY DEF TypeInv, TypeOK, StoresTypeOK
  <2>2. CASE row'[j] = row[j]
    BY <2>2
  <2>3. CASE row'[j] # row[j]
    <3>1. Turns(j) \/ Records(j)
      <4>1. \A i \in Jobs : \A from, r : Writes(i, from, r) => i = j
        BY <2>1, <2>3 DEF Writes
      <4>2. \A i \in Jobs : Turns(i) \/ Records(i) => i = j
        BY <4>1 DEF Turns, Records
      <4>3. \E i \in Jobs : Turns(i) \/ Records(i)
        BY <2>3, CalmWrites DEF postgres
      <4> QED
        BY <4>2, <4>3
    <3>2. row[j].status # "succeeded"
      BY <3>1 DEF Turns, Records, Writes
    <3>3. CASE row[j].status = "dead"
      <4>1. Writes(j, "dead", ReplayedRow(row[j])) /\ \E r \in Requests : api'[r] = j
        BY <3>1, <3>3 DEF Turns, Records, Writes
      <4>2. row'[j].status = "queued"
        BY <2>1, <4>1 DEF Writes, ReplayedRow, Rows
      <4> QED
        BY <3>2, <4>1, <4>2
    <3> QED
      BY <3>2, <3>3
  <2> QED
    BY <2>2, <2>3
<1> QED
  BY <1>1, CalmInvariant, PTL DEF Spec, FinishedStaysFinished

\* Each of these writes is an arrow of the lifecycle.
LEMMA TurnFollows ==
  ASSUME TypeInv, CalmInv, NEW j \in Jobs, Turns(j), effects' = effects
  PROVE  L!Next
<1>a. row \in [Jobs -> Rows] /\ row[j] \in Rows /\ CalmRow(j)
  BY DEF TypeInv, TypeOK, StoresTypeOK, CalmInv
\* an UPDATE that keeps the attempts
<1>b. ASSUME NEW from, NEW r, Writes(j, from, r), NEW to, r.status = to,
             r.attempts = row[j].attempts
      PROVE  L!Turn(j, {from}, to) /\ L!Keep
  BY <1>a, <1>b, UpdateShows DEF Writes
<1>1. CASE Writes(j, "none", InsertedRow)
  <2> DEFINE q == InsertedRow
  <2>1. q.status = "queued" /\ q.attempts = row[j].attempts
    BY <1>a, <1>1 DEF InsertedRow, NoRow, CalmRow, Writes
  <2> HIDE DEF q
  <2>2. L!Accept(j)
    BY <1>b, <1>1, <2>1 DEF L!Accept, q
  <2> QED
    BY <2>2 DEF L!Next
<1>2. CASE Writes(j, "dead", ReplayedRow(row[j]))
  <2> DEFINE q == ReplayedRow(row[j])
  <2>1. /\ q.status = "queued" /\ q.attempts = 0 /\ row[j].status = "dead"
        /\ row' = [row EXCEPT ![j] = q]
    BY <1>a, <1>2 DEF ReplayedRow, Rows, Writes
  <2> HIDE DEF q
  <2>2. L!Turn(j, {"dead"}, "queued")
    BY <1>a, <2>1, UpdateShows
  <2>3. [i \in Jobs |-> row[i].attempts]'
           = [[i \in Jobs |-> row[i].attempts] EXCEPT ![j] = 0]
    BY <1>a, <2>1, UpdateShows
  <2>4. L!Revive(j)
    BY <2>2, <2>3 DEF L!Revive
  <2> QED
    BY <2>4 DEF L!Next
<1>3. CASE Writes(j, "queued", ClaimedRow(row[j]))
  <2> DEFINE q == ClaimedRow(row[j])
  <2>1. /\ q.status = "running" /\ q.attempts = row[j].attempts + 1
        /\ row[j].status = "queued" /\ row[j].attempts < MaxAttempts
        /\ row' = [row EXCEPT ![j] = q]
    BY <1>a, <1>3 DEF ClaimedRow, Rows, Writes, CalmRow
  <2> HIDE DEF q
  <2>2. L!Turn(j, {"queued"}, "running")
    BY <1>a, <2>1, UpdateShows
  <2>3. [i \in Jobs |-> row[i].attempts]'
           = [[i \in Jobs |-> row[i].attempts] EXCEPT ![j] = row[j].attempts + 1]
    BY <1>a, <2>1, UpdateShows
  <2>4. L!StartRun(j)
    BY <2>1, <2>2, <2>3 DEF L!StartRun
  <2> QED
    BY <2>4 DEF L!Next
<1>4. CASE Writes(j, "running", BuriedRow(row[j])) /\ row[j].attempts = MaxAttempts
  <2> DEFINE q == BuriedRow(row[j])
  <2>1. q.status = "dead" /\ q.attempts = row[j].attempts
    BY <1>a DEF BuriedRow, Rows
  <2> HIDE DEF q
  <2>2. L!GiveUp(j)
    BY <1>b, <1>4, <2>1 DEF L!GiveUp, q
  <2> QED
    BY <2>2 DEF L!Next
<1>5. CASE Writes(j, "running", ParkedRow(row[j])) /\ row[j].attempts < MaxAttempts
  <2> DEFINE q == ParkedRow(row[j])
  <2>1. q.status = "retrying" /\ q.attempts = row[j].attempts
    BY <1>a DEF ParkedRow, Rows
  <2> HIDE DEF q
  <2>2. L!Retry(j)
    BY <1>b, <1>5, <2>1 DEF L!Retry, q
  <2> QED
    BY <2>2 DEF L!Next
<1>6. CASE Writes(j, "retrying", PromotedRow(row[j]))
  <2> DEFINE q == PromotedRow(row[j])
  <2>1. q.status = "queued" /\ q.attempts = row[j].attempts
    BY <1>a DEF PromotedRow, Rows
  <2> HIDE DEF q
  <2>2. L!Promote(j)
    BY <1>b, <1>6, <2>1 DEF L!Promote, q
  <2> QED
    BY <2>2 DEF L!Next
<1> QED
  BY <1>1, <1>2, <1>3, <1>4, <1>5, <1>6 DEF Turns

\* So is the recording of a success.
LEMMA RecordFollows ==
  ASSUME TypeInv, CalmInv, NEW j \in Jobs, Records(j)
  PROVE  L!Next
<1> DEFINE q == SucceededRow(row[j])
<1>a. /\ row \in [Jobs -> Rows] /\ row[j] \in Rows /\ CalmRow(j)
      /\ effects \in [Jobs -> Seq(Nat)]
  BY DEF TypeInv, TypeOK, StoresTypeOK, CalmInv
<1>1. /\ row[j].status = "running" /\ row' = [row EXCEPT ![j] = q]
      /\ Len(effects[j]) = 0
  BY <1>a DEF Records, Writes, CalmRow
<1>2. PICK lease : effects' = [effects EXCEPT ![j] = Append(effects[j], lease)]
  BY DEF Records
<1>3. q.status = "succeeded" /\ q.attempts = row[j].attempts
  BY <1>a DEF SucceededRow, Rows
<1> HIDE DEF q
<1>4. L!Turn(j, {"running"}, "succeeded")
  BY <1>a, <1>1, <1>3, UpdateShows
<1>5. UNCHANGED [i \in Jobs |-> row[i].attempts]
  BY <1>a, <1>1, <1>3
<1>6. [i \in Jobs |-> Len(effects[i])]'
         = [[i \in Jobs |-> Len(effects[i])] EXCEPT ![j] = Len(effects[j]) + 1]
  <2>1. Len(Append(effects[j], lease)) = Len(effects[j]) + 1
    BY <1>a
  <2> QED
    BY <1>a, <1>2, <2>1
<1>7. L!Complete(j)
  BY <1>1, <1>4, <1>5, <1>6 DEF L!Complete
<1> QED
  BY <1>7 DEF L!Next

\* Without disturbances, every behaviour of the system is one of the lifecycle
\* that schema.sql draws, retries and replays included.
THEOREM CalmFollowsLifecycle ==
  ASSUME CalmOnly
  PROVE  Spec => FollowsLifecycle
<1>1. Init => L!Init
  BY DEF Init, StoresInit, NoRow, L!Init
<1>2. TypeInv /\ CalmInv /\ [Next]_vars => [L!Next]_(L!vars)
  <2> SUFFICES ASSUME TypeInv, CalmInv, [Next]_vars PROVE [L!Next]_(L!vars)
    OBVIOUS
  <2>1. CASE UNCHANGED postgres
    BY <2>1, NothingShows DEF postgres
  <2> QED
    BY <2>1, CalmWrites, TurnFollows, RecordFollows
<1> QED
  BY <1>1, <1>2, CalmInvariant, PTL DEF Spec, L!Spec, FollowsLifecycle
=============================================================================
