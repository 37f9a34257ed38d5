------------------------------ MODULE Delivery ------------------------------
(***************************************************************************)
(* A job from the request that submits it to the effect it has on somebody *)
(* else's server: POST /jobs, the worker's handlers, the backoff and the   *)
(* receiver.  The queue between them is QueueFlow's; what is kept of it    *)
(* is where copies of an id are, that a hand-over may break off in the     *)
(* middle, that an id may be executed more than once, also by a worker     *)
(* that has lost its lease, and that some that are lost are looked for.    *)
(***************************************************************************)
EXTENDS Submission, Backoff

CONSTANTS
  MaxAttempts,
  Failures,        \* n of /hook/flaky/:n
  Faults,          \* bounds: connections and processes that fail, answers that are late,
  Forgets          \* and times the receiver loses its memory

ASSUME DeliveryAssumption ==
  MaxAttempts \in Nat \ {0} /\ Failures \in Nat /\ Faults \in Nat /\ Forgets \in Nat

VARIABLES
  row,             \* status, attempts and the last delay of each recorded job
  queue,           \* how often each id is on the pending list
  parked,          \* the executions of each that wrote "retrying" before their ZADD
  delayed,         \* the ids in the delayed set
  executions,      \* the runs of processOne that have claimed a job
  deliveries, applied, effects,
  left             \* what is left of the bounds

vars == <<submissionVars, row, queue, parked, delayed, executions, deliveries, applied,
          effects, left>>

Hook == INSTANCE Receiver WITH Ids <- Requests

\* How far a handler is: about to run, waiting for an answer that is on its way,
\* returned, or thrown.  The attempt number is the execution's lease: a claim gives
\* out a new one, and nothing else changes it.
Phases == {"starting", "returned", "threw"} \cup Hook!Replies
Executions == [job : Requests, attempt : 1 .. MaxAttempts + Faults, at : Phases]
Statuses == {"queued", "running", "retrying", "succeeded", "dead"}

Init ==
  /\ SubmissionInit
  /\ Hook!ReceiverInit
  /\ row = [i \in Requests |-> [status |-> "queued", attempts |-> 0, waited |-> 0]]
  /\ queue = [i \in Requests |-> 0]
  /\ parked = [i \in Requests |-> 0]
  /\ delayed = {}
  /\ executions = {}
  /\ left = [faults |-> Faults, forgets |-> Forgets]

Fault == left.faults > 0 /\ left' = [left EXCEPT !.faults = @ - 1]

retryVars == <<parked, delayed>>
jobVars == <<row, queue, retryVars, executions>>
receiverVars == <<deliveries, applied, effects>>

----------------------------------------------------------------------------
\* The API, and what may become of a request.
Serve(r) ==
  /\ \/ Ask(r) \/ Refuse(r) \/ Insert(r) \/ FindOriginal(r) \/ Answer(r)
  /\ UNCHANGED <<jobVars, receiverVars, left>>

Queued(i) == queue' = [queue EXCEPT ![i] = @ + 1]

Enqueue(r) ==
  /\ Push(r)
  /\ Queued(r)
  /\ UNCHANGED <<row, retryVars, executions, receiverVars, left>>

Interrupt(r) ==
  /\ Fault
  /\ \/ Disconnect(r) \/ ApiDies(r)
  /\ UNCHANGED <<jobVars, receiverVars>>

----------------------------------------------------------------------------
\* A worker takes an id and claims the job; an id whose job is not to be had is dropped.
Take(i) ==
  /\ queue[i] > 0
  /\ queue' = [queue EXCEPT ![i] = @ - 1]
  /\ IF row[i].status \in {"queued", "retrying"}
     THEN /\ row' = [row EXCEPT ![i].status = "running", ![i].attempts = @ + 1]
          /\ executions' = executions \cup
               {[job |-> i, attempt |-> row[i].attempts + 1, at |-> "starting"]}
     ELSE UNCHANGED <<row, executions>>
  /\ UNCHANGED <<submissionVars, retryVars, receiverVars, left>>

Advance(e, phase) == executions' = (executions \ {e}) \cup {[e EXCEPT !.at = phase]}

\* sleep returns and always_fail throws.
RunLocally(e) ==
  /\ e.at = "starting"
  /\ \/ asked[e.job].kind = "sleep" /\ Advance(e, "returned")
     \/ asked[e.job].kind = "always_fail" /\ Advance(e, "threw")
  /\ UNCHANGED <<submissionVars, row, queue, retryVars, receiverVars, left>>

\* The POST reaches the receiver, which acts on it at once; its answer is still to come.
Deliver(e) ==
  /\ e.at = "starting"
  /\ asked[e.job].kind \in Hook!Routes
  /\ Advance(e, Hook!Reply(asked[e.job].kind, e.job))
  /\ Hook!Deliver(asked[e.job].kind, e.job)
  /\ UNCHANGED <<submissionVars, row, queue, retryVars, left>>

AnswerTaken(e) == Advance(e, "returned")                           \* a mutant

\* response.ok, or not.
JudgeAnswer(e) == Advance(e, IF e.at = "ok" THEN "returned" ELSE "threw")

Hear(e) ==
  /\ e.at \in {"ok", "error"}
  /\ JudgeAnswer(e)
  /\ UNCHANGED <<submissionVars, row, queue, retryVars, receiverVars, left>>

\* AbortSignal.timeout on a receiver that stays silent.
TimeOut(e) ==
  /\ e.at = "silence"
  /\ Advance(e, "threw")
  /\ UNCHANGED <<submissionVars, row, queue, retryVars, receiverVars, left>>

\* The connection is refused, or the answer is late: from here the two look alike,
\* but in the second case the receiver has acted.
GiveUp(e) ==
  /\ Fault
  /\ asked[e.job].kind \in Hook!Routes
  /\ e.at \in {"starting", "ok", "error"}
  /\ Advance(e, "threw")
  /\ UNCHANGED <<submissionVars, row, queue, retryVars, receiverVars>>

OwnsLease(e) == row[e.job].attempts = e.attempt
OneMore(e) == e.attempt > MaxAttempts                              \* a mutant
Exhausted(e) == e.attempt >= MaxAttempts

\* What a finished handler leaves, if its lease is still the job's: a row that is
\* settled, or one that says "retrying" and with it an id still to be scheduled.
Settle(e) ==
  /\ e.at \in {"returned", "threw"}
  /\ executions' = executions \ {e}
  /\ \/ ~OwnsLease(e) /\ UNCHANGED <<row, parked>>
     \/ /\ OwnsLease(e) /\ e.at = "returned"
        /\ row' = [row EXCEPT ![e.job].status = "succeeded"]
        /\ UNCHANGED parked
     \/ /\ OwnsLease(e) /\ e.at = "threw" /\ Exhausted(e)
        /\ row' = [row EXCEPT ![e.job].status = "dead"]
        /\ UNCHANGED parked
     \/ /\ OwnsLease(e) /\ e.at = "threw" /\ ~Exhausted(e)
        /\ \E d \in Delays(e.attempt) :
             row' = [row EXCEPT ![e.job].status = "retrying", ![e.job].waited = d]
        /\ parked' = [parked EXCEPT ![e.job] = @ + 1]
  /\ UNCHANGED <<submissionVars, queue, delayed, receiverVars, left>>

\* The ZADD that follows; whether the row still says "retrying" is not asked.
Schedule(i) ==
  /\ parked[i] > 0
  /\ parked' = [parked EXCEPT ![i] = @ - 1]
  /\ delayed' = delayed \cup {i}
  /\ UNCHANGED <<submissionVars, row, queue, executions, receiverVars, left>>

----------------------------------------------------------------------------
\* A worker dies in the middle of a job, or between the row and the ZADD: the id is
\* then only in its processing list, from which the reaper drops it.
WorkerDies(e) ==
  /\ Fault
  /\ executions' = executions \ {e}
  /\ UNCHANGED <<submissionVars, row, queue, retryVars, receiverVars>>

ParkingDies(i) ==
  /\ Fault
  /\ parked[i] > 0
  /\ parked' = [parked EXCEPT ![i] = @ - 1]
  /\ UNCHANGED <<submissionVars, row, queue, delayed, executions, receiverVars>>

Attended(i) == \E e \in executions : e.job = i /\ OwnsLease(e)

\* The reaper finds a running job whose worker shows no heartbeat, because the worker
\* is dead, or though it lives.
Reap(i) ==
  /\ i \in recorded
  /\ row[i].status = "running"
  /\ IF Attended(i) THEN Fault ELSE UNCHANGED left
  /\ IF row[i].attempts >= MaxAttempts
     THEN row' = [row EXCEPT ![i].status = "dead"] /\ UNCHANGED queue
     ELSE row' = [row EXCEPT ![i].status = "queued"] /\ Queued(i)
  /\ UNCHANGED <<submissionVars, retryVars, executions, receiverVars>>

\* ZREM, UPDATE, LPUSH.  The UPDATE does not look at the status it overwrites.
Promote(i) ==
  /\ i \in delayed
  /\ delayed' = delayed \ {i}
  /\ row' = [row EXCEPT ![i].status = "queued"]
  /\ Queued(i)
  /\ UNCHANGED <<submissionVars, parked, executions, receiverVars, left>>

\* The scheduler dies in the middle of it, before the UPDATE or after.
PromotionBreaksOff(i) ==
  /\ Fault
  /\ i \in delayed
  /\ delayed' = delayed \ {i}
  /\ row' \in {row, [row EXCEPT ![i].status = "queued"]}
  /\ UNCHANGED <<submissionVars, queue, parked, executions, receiverVars>>

SweptIfPushed(i) == i \in recorded /\ handled[i] = "pushed"        \* a mutant

Lost(i) == i \in recorded /\ row[i].status = "queued" /\ queue[i] = 0

\* The orphan sweep pushes a queued job that Redis does not hold.  It is a fault when
\* the request that is going to push it has taken longer than ORPHAN_AGE_S.
Sweep(i) ==
  /\ Lost(i)
  /\ Queued(i)
  /\ IF handled[i] = "inserted" THEN Fault ELSE UNCHANGED left
  /\ UNCHANGED <<submissionVars, row, retryVars, executions, receiverVars>>

ReceiverForgets ==
  /\ left.forgets > 0
  /\ left' = [left EXCEPT !.forgets = @ - 1]
  /\ Hook!Forget
  /\ UNCHANGED <<submissionVars, jobVars>>

----------------------------------------------------------------------------
Handle(e) == RunLocally(e) \/ Deliver(e) \/ Hear(e) \/ TimeOut(e) \/ Settle(e)

Next ==
  \/ \E r \in Requests : Serve(r) \/ Enqueue(r) \/ Interrupt(r)
  \/ \E i \in Requests : \/ Take(i) \/ Schedule(i) \/ Reap(i) \/ Promote(i) \/ Sweep(i)
                         \/ ParkingDies(i) \/ PromotionBreaksOff(i)
  \/ \E e \in executions : Handle(e) \/ GiveUp(e) \/ WorkerDies(e)
  \/ ReceiverForgets

Spec == Init /\ [][Next]_vars

\* The API answers what it has received unless it dies, workers take ids and run
\* them, and the scheduler's passes come round.
FairSpec ==
  /\ Spec
  /\ \A r \in Requests : WF_vars(Serve(r)) /\ WF_vars(Enqueue(r))
  /\ \A i \in Requests : WF_vars(Take(i)) /\ WF_vars(Schedule(i)) /\ WF_vars(Reap(i))
                       /\ WF_vars(Promote(i)) /\ WF_vars(Sweep(i))
  /\ WF_vars(\E e \in executions : Handle(e))

----------------------------------------------------------------------------
(***************************************************************************)
(* Properties.                                                             *)
(***************************************************************************)
\* The types.  No fault costs more than one attempt beyond max_attempts, which is what a
\* second copy of an id, made by a heartbeat taken for lost or by a slow request, may lead
\* to; without one there is none.
TypeOK ==
  /\ asked \in [Requests -> [kind : Kinds, key : Keys \cup {NoKey}]]
  /\ handled \in [Requests -> Handled]
  /\ named \in [Requests -> Requests]
  /\ heard \in [Requests -> Heard]
  /\ recorded \subseteq Requests
  /\ row \in [Requests -> [status : Statuses, attempts : Nat, waited : 0 .. 2 * Longest]]
  /\ \A i \in Requests : row[i].attempts <= MaxAttempts + (Faults - left.faults)
  /\ queue \in [Requests -> Nat] /\ parked \in [Requests -> Nat] /\ delayed \subseteq recorded
  /\ \A i \in Requests : queue[i] > 0 \/ parked[i] > 0 => i \in recorded
  /\ executions \subseteq Executions
  /\ deliveries \in [Requests -> Nat] /\ effects \in [Requests -> Nat]
  /\ applied \subseteq Requests
  /\ left \in [faults : 0 .. Faults, forgets : 0 .. Forgets]

\* However often a submission is repeated under one key, and however the repetitions
\* overlap, one job comes of it.
OneJobPerKey ==
  \A i, k \in recorded : asked[i].key = asked[k].key /\ asked[i].key # NoKey => i = k

\* Whoever is told a job id is told one that is recorded, and all who submitted under
\* one key are told the same.
AnswersAgree ==
  \A r \in Requests : heard[r] = "job" =>
    /\ named[r] \in recorded
    /\ \A s \in Requests : heard[s] = "job" /\ asked[r].key = asked[s].key /\ asked[r].key # NoKey =>
         named[r] = named[s]

\* At-least-once delivery and an idempotent receiver are one effect: no timeout, no
\* second execution and no overlap of two makes it two, only a loss of memory does.
AppliedOncePerMemory ==
  \A i \in Requests : effects[i] <= 1 + (Forgets - left.forgets)

\* A succeeded delivery was agreed to: never by a receiver that is down or silent, and
\* an idempotent one has had its effect.
SuccessWasAgreed ==
  \A i \in recorded : row[i].status = "succeeded" =>
    /\ asked[i].kind \notin {"down", "slow", "always_fail"}
    /\ asked[i].kind = "idempotent" => effects[i] > 0

\* A receiver that recovers after n deliveries recovers in time: a job is only given up
\* when the other attempts were spoiled by something else.
FlakyGivenUpForCause ==
  \A i \in recorded : asked[i].kind = "flaky" /\ row[i].status = "dead" =>
    MaxAttempts <= Failures * (1 + Forgets - left.forgets) + (Faults - left.faults)

\* The jitter never undoes the doubling: each delay of a job is longer than the one
\* before, until the longest there is.
BacksOff ==
  [][\A i \in Requests : row'[i].waited # row[i].waited =>
       row'[i].waited > row[i].waited \/ row[i].waited >= Longest]_vars

\* The one way a job is lost, and for good: a process died between a retry's row and its
\* ZADD, or between the ZREM and the row, and no pass looks for one that says "retrying".
Stranded(i) ==
  /\ row[i].status = "retrying"
  /\ queue[i] = 0 /\ parked[i] = 0 /\ i \notin delayed
  /\ handled[i] # "inserted"
  /\ left.faults < Faults

\* A job somebody was told about ends, unless a death strands its retry: also when it was
\* a second request that was told, before the first had pushed the id, and the first then
\* died.
PromisedJobsFinish ==
  \A r \in Requests :
    heard[r] = "job" ~> \/ row[named[r]].status \in {"succeeded", "dead"}
                        \/ Stranded(named[r])
=============================================================================
