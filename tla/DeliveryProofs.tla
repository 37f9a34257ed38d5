--------------------------- MODULE DeliveryProofs ---------------------------
(***************************************************************************)
(* For any number of requests, keys, attempts and faults: one key makes    *)
(* one job, every answer under it names that job; an idempotent receiver   *)
(* applies a job once for every memory it has had; a job succeeds only if  *)
(* the receiver agreed, its delays grow, and one for a flaky receiver is   *)
(* given up only when deliveries bound to fail and faults took its         *)
(* attempts.                                                               *)
(***************************************************************************)
EXTENDS Delivery, FiniteSetTheorems, TLAPS

\* What is done to a job by no request and no execution.
Pass(i) ==
  Schedule(i) \/ Reap(i) \/ Promote(i) \/ Sweep(i) \/ ParkingDies(i) \/ PromotionBreaksOff(i)

\* The values of the submission's variables, and that requests do not change.
SubmissionShape ==
  /\ asked \in [Requests -> [kind : Kinds, key : Keys \cup {NoKey}]]
  /\ handled \in [Requests -> Handled]
  /\ named \in [Requests -> Requests]
  /\ heard \in [Requests -> Heard]
  /\ recorded \subseteq Requests

\* A request answers with its own id unless it has found another; the API has not
\* begun with one that was not made, has recorded none that it is about to INSERT, and
\* is done with one whose answer is heard.
OwnIdUntilFound ==
  \A r \in Requests :
    /\ handled[r] \in {"not yet", "received", "inserted", "conflict", "pushed"} =>
         named[r] = r
    /\ handled[r] \in {"not yet", "received"} => r \notin recorded
    /\ heard[r] = "silent" => handled[r] = "not yet"
    /\ heard[r] = "job" => handled[r] = "over"

\* The id request r names is in the table, and is its own or one under its key.
NamesRecorded(r) ==
  /\ named[r] \in recorded
  /\ named[r] # r => asked[named[r]].key = asked[r].key /\ asked[r].key # NoKey

\* This is so from the INSERT, or the SELECT, on.
AnswersKnown ==
  \A r \in Requests :
    handled[r] \in {"inserted", "pushed", "found"} \/ heard[r] = "job" => NamesRecorded(r)

SubmissionInv == SubmissionShape /\ OwnIdUntilFound /\ AnswersKnown /\ OneJobPerKey

\* Nothing is recorded and nobody has heard anything.
LEMMA SubmissionStarts == Init => SubmissionInv
<1> SUFFICES ASSUME Init PROVE SubmissionInv
  OBVIOUS
<1>1. asked \in [Requests -> [kind : Kinds, key : Keys \cup {NoKey}]]
  BY SubmissionAssumption DEF Init, SubmissionInit
<1> QED
  BY <1>1 DEF Init, SubmissionInit, SubmissionInv, SubmissionShape, OwnIdUntilFound,
     AnswersKnown, OneJobPerKey, Handled, Heard

\* The INSERT is refused by the unique index whenever the key is taken, so it never
\* makes a second job of it.
LEMMA InsertKeeps ==
  ASSUME SubmissionInv, NEW r \in Requests, Insert(r)
  PROVE  SubmissionInv'
<1> USE DEF SubmissionInv
<1>1. SubmissionShape' /\ OwnIdUntilFound'
  BY DEF Insert, SubmissionShape, OwnIdUntilFound, Handled, Heard
<1>2. CASE Taken(r) = {}
  <2>1. recorded' = recorded \cup {r} /\ named' = named /\ asked' = asked
        /\ heard' = heard /\ handled' = [handled EXCEPT ![r] = "inserted"]
    BY <1>2 DEF Insert
  <2>2. OneJobPerKey'
    BY <1>2, <2>1 DEF Taken, OneJobPerKey, SubmissionShape
  <2>3. AnswersKnown'
    BY <2>1 DEF Insert, AnswersKnown, NamesRecorded, SubmissionShape, OwnIdUntilFound
  <2> QED  BY <1>1, <2>2, <2>3
<1>3. CASE Taken(r) # {}
  <2>1. recorded' = recorded /\ named' = named /\ asked' = asked /\ heard' = heard
        /\ handled' = [handled EXCEPT ![r] = "conflict"]
    BY <1>3 DEF Insert
  <2> QED  BY <1>1, <2>1 DEF AnswersKnown, NamesRecorded, SubmissionShape, OneJobPerKey
<1> QED  BY <1>2, <1>3

\* The SELECT finds a recorded job under the same key.
LEMMA FindKeeps ==
  ASSUME SubmissionInv, NEW r \in Requests, FindOriginal(r)
  PROVE  SubmissionInv'
<1> USE DEF SubmissionInv
<1>1. PICK i \in Taken(r) : named' = [named EXCEPT ![r] = i]
  BY DEF FindOriginal, Naming
<1>2. i \in recorded /\ asked[i].key = asked[r].key /\ asked[r].key # NoKey
  BY <1>1 DEF Taken
<1>3. handled' = [handled EXCEPT ![r] = "found"] /\ asked' = asked /\ heard' = heard
      /\ recorded' = recorded /\ handled[r] = "conflict"
  BY DEF FindOriginal
<1>4. SubmissionShape'
  BY <1>1, <1>2, <1>3 DEF SubmissionShape, Handled
<1>5. OwnIdUntilFound'
  BY <1>1, <1>3 DEF SubmissionShape, OwnIdUntilFound
<1>6. AnswersKnown'
  BY <1>1, <1>2, <1>3 DEF SubmissionShape, OwnIdUntilFound, AnswersKnown, NamesRecorded
<1> QED  BY <1>3, <1>4, <1>5, <1>6 DEF OneJobPerKey

\* The other steps of a request record nothing and name nothing.
LEMMA RequestKeeps ==
  ASSUME SubmissionInv, NEW r \in Requests,
         Ask(r) \/ Refuse(r) \/ Push(r) \/ Answer(r) \/ Disconnect(r) \/ ApiDies(r)
  PROVE  SubmissionInv'
<1> USE DEF SubmissionInv
<1>1. asked' = asked /\ named' = named /\ recorded' = recorded
  BY DEF Ask, Refuse, Push, Answer, Disconnect, ApiDies
<1>2. ASSUME NEW h \in Handled, NEW k \in Heard,
             handled' = [handled EXCEPT ![r] = h], heard' = [heard EXCEPT ![r] = k],
             handled[r] \in {"not yet", "received", "inserted", "conflict", "pushed"} \/
               h \notin {"not yet", "received", "inserted", "conflict", "pushed"},
             h \in {"not yet", "received"} => handled[r] \in {"not yet", "received"},
             k = "silent" => h = "not yet",
             k = "job" => h = "over",
             h \in {"inserted", "pushed", "found"} \/ k = "job" =>
               handled[r] \in {"inserted", "pushed", "found"} \/ heard[r] = "job"
      PROVE  SubmissionInv'
  <2>1. SubmissionShape'
    BY <1>1, <1>2 DEF SubmissionShape
  <2>2. OwnIdUntilFound'
    BY <1>1, <1>2 DEF SubmissionShape, OwnIdUntilFound
  <2>3. AnswersKnown'
    <3> SUFFICES ASSUME NEW q \in Requests,
                        handled'[q] \in {"inserted", "pushed", "found"} \/ heard'[q] = "job"
                 PROVE  NamesRecorded(q)'
      BY DEF AnswersKnown
    <3>1. handled[q] \in {"inserted", "pushed", "found"} \/ heard[q] = "job"
      BY <1>2 DEF SubmissionShape
    <3> QED  BY <1>1, <3>1 DEF AnswersKnown, NamesRecorded
  <2> QED  BY <1>1, <2>1, <2>2, <2>3 DEF OneJobPerKey
<1>3. handled = [handled EXCEPT ![r] = handled[r]] /\ heard = [heard EXCEPT ![r] = heard[r]]
      /\ handled[r] \in Handled /\ heard[r] \in Heard
  BY DEF SubmissionShape
<1>4. /\ heard[r] = "silent" => handled[r] = "not yet"
      /\ heard[r] = "job" => handled[r] = "over"
  BY DEF OwnIdUntilFound
<1>5. CASE Ask(r)
  BY <1>2, <1>3, <1>4, <1>5 DEF Ask, Handled, Heard
<1>6. CASE Refuse(r)
  BY <1>2, <1>3, <1>4, <1>6 DEF Refuse, Handled, Heard
<1>7. CASE Push(r)
  BY <1>2, <1>3, <1>4, <1>7 DEF Push, Handled, Heard
<1>8. CASE Answer(r)
  BY <1>2, <1>3, <1>4, <1>8 DEF Answer, Handled, Heard
<1>9. CASE Disconnect(r)
  BY <1>2, <1>3, <1>4, <1>9 DEF Disconnect, Handled, Heard
<1>10. CASE ApiDies(r)
  BY <1>2, <1>3, <1>4, <1>10 DEF ApiDies, Handled, Heard
<1> QED  BY <1>5, <1>6, <1>7, <1>8, <1>9, <1>10

\* What does not touch the submission keeps all that is said about it.
LEMMA ElsewhereKeeps ==
  ASSUME SubmissionInv, UNCHANGED submissionVars
  PROVE  SubmissionInv'
<1>1. SubmissionShape' /\ OneJobPerKey'
  BY DEF submissionVars, SubmissionInv, SubmissionShape, OneJobPerKey
<1>2. OwnIdUntilFound'
  BY DEF submissionVars, SubmissionInv, OwnIdUntilFound
<1>3. AnswersKnown'
  BY DEF submissionVars, SubmissionInv, AnswersKnown, NamesRecorded
<1> QED
  BY <1>1, <1>2, <1>3 DEF SubmissionInv

\* Every step of the system, seen from the submission.
LEMMA SubmissionStep == SubmissionInv /\ [Next]_vars => SubmissionInv'
<1> SUFFICES ASSUME SubmissionInv, [Next]_vars PROVE SubmissionInv'
  OBVIOUS
<1>1. ASSUME NEW r \in Requests, Serve(r) \/ Enqueue(r) \/ Interrupt(r)
      PROVE  SubmissionInv'
  BY <1>1, InsertKeeps, FindKeeps, RequestKeeps DEF Serve, Enqueue, Interrupt
<1>2. ASSUME NEW i \in Requests, Take(i) \/ Pass(i)
      PROVE  UNCHANGED submissionVars
  BY <1>2 DEF Take, Pass, Schedule, Reap, Promote, Sweep, ParkingDies, PromotionBreaksOff
<1>3. ASSUME NEW e \in executions, Handle(e) \/ GiveUp(e) \/ WorkerDies(e)
      PROVE  UNCHANGED submissionVars
  BY <1>3 DEF Handle, GiveUp, WorkerDies, RunLocally, Deliver, Hear, TimeOut, Settle
<1>4. ReceiverForgets \/ UNCHANGED vars => UNCHANGED submissionVars
  BY DEF ReceiverForgets, vars
<1> QED  BY <1>1, <1>2, <1>3, <1>4, ElsewhereKeeps DEF Next, Pass

\* It holds in every state.
LEMMA SubmissionAlways == Spec => []SubmissionInv
<1> QED  BY SubmissionStarts, SubmissionStep, PTL DEF Spec

\* POST /jobs under one Idempotency-Key, however repeated and interleaved, makes one job.
THEOREM OneKeyOneJob == Spec => []OneJobPerKey
<1>1. SubmissionInv => OneJobPerKey
  BY DEF SubmissionInv
<1> QED  BY SubmissionAlways, <1>1, PTL

\* And all that are answered are answered with that job, which is recorded.
THEOREM OneKeyOneAnswer == Spec => []AnswersAgree
<1>1. ASSUME SubmissionInv PROVE AnswersAgree
  <2>1. ASSUME NEW r \in Requests, heard[r] = "job" PROVE NamesRecorded(r)
    BY <1>1, <2>1 DEF SubmissionInv, AnswersKnown
  <2>2. ASSUME NEW r \in Requests, NEW s \in Requests, heard[r] = "job", heard[s] = "job",
               asked[r].key = asked[s].key, asked[r].key # NoKey
        PROVE  named[r] = named[s]
    <3>1. NamesRecorded(r) /\ NamesRecorded(s)
      BY <2>1, <2>2
    <3>2. asked[named[r]].key = asked[r].key /\ asked[named[s]].key = asked[r].key
      BY <2>2, <3>1 DEF NamesRecorded
    <3> QED  BY <1>1, <2>2, <3>1, <3>2 DEF NamesRecorded, SubmissionInv, OneJobPerKey
  <2> QED  BY <2>1, <2>2 DEF NamesRecorded, AnswersAgree
<1> QED  BY SubmissionAlways, <1>1, PTL

----------------------------------------------------------------------------
\* What an execution is of: a request, and nothing but its phase changes.
ExecutionShape ==
  \A e \in executions :
    e.job \in Requests /\ e = [job |-> e.job, attempt |-> e.attempt, at |-> e.at]

\* One effect for every memory lost, and one more for what the receiver remembers now.
EffectsInv ==
  /\ ExecutionShape
  /\ effects \in [Requests -> Nat]
  /\ left.forgets \in Nat /\ left.forgets <= Forgets
  /\ left = [faults |-> left.faults, forgets |-> left.forgets]
  /\ \A i \in Requests :
       effects[i] <= (Forgets - left.forgets) + (IF i \in applied THEN 1 ELSE 0)

\* No execution, no effect, no memory lost.
LEMMA EffectsStart == Init => EffectsInv
BY DeliveryAssumption DEF Init, Hook!ReceiverInit, EffectsInv, ExecutionShape

\* A fault leaves what may still be forgotten.
LEMMA FaultForgetsNothing ==
  ASSUME EffectsInv, Fault
  PROVE  left'.forgets = left.forgets
         /\ left' = [faults |-> left'.faults, forgets |-> left'.forgets]
<1>1. left = [faults |-> left.faults, forgets |-> left.forgets]
  BY DEF EffectsInv
<1>2. left' = [left EXCEPT !.faults = @ - 1]
  BY DEF Fault
<1> QED  BY <1>1, <1>2

\* Whatever the receiver does not see keeps the count, if executions stay executions.
LEMMA UnseenKeeps ==
  ASSUME EffectsInv, ExecutionShape', UNCHANGED receiverVars, UNCHANGED left \/ Fault
  PROVE  EffectsInv'
<1>1. left'.forgets = left.forgets
      /\ left' = [faults |-> left'.faults, forgets |-> left'.forgets]
  BY FaultForgetsNothing DEF EffectsInv
<1> QED  BY <1>1 DEF EffectsInv, receiverVars

\* An execution moves on.
LEMMA AdvanceKeepsShape ==
  ASSUME ExecutionShape, NEW e \in executions, NEW phase, Advance(e, phase)
  PROVE  ExecutionShape'
<1>1. e.job \in Requests /\ e = [job |-> e.job, attempt |-> e.attempt, at |-> e.at]
  BY DEF ExecutionShape
<1>2. executions' = (executions \ {e}) \cup {[e EXCEPT !.at = phase]}
  BY DEF Advance
<1>3. [e EXCEPT !.at = phase] = [job |-> e.job, attempt |-> e.attempt, at |-> phase]
  BY <1>1
<1> DEFINE moved == [job |-> e.job, attempt |-> e.attempt, at |-> phase]
<1>4. moved.job \in Requests
      /\ moved = [job |-> moved.job, attempt |-> moved.attempt, at |-> moved.at]
  BY <1>1
<1>5. executions' = (executions \ {e}) \cup {moved}
  BY <1>2, <1>3
<1> HIDE DEF moved
<1> QED  BY <1>4, <1>5 DEF ExecutionShape

\* A delivery: to /hook/idempotent it has its effect unless the id is remembered.
LEMMA DeliverKeeps ==
  ASSUME EffectsInv, NEW e \in executions, Deliver(e)
  PROVE  EffectsInv'
<1>1. ExecutionShape'
  BY AdvanceKeepsShape DEF Deliver, EffectsInv
<1>2. e.job \in Requests
  BY DEF EffectsInv, ExecutionShape
<1>3. left' = left
  BY DEF Deliver
<1>4. CASE UNCHANGED <<applied, effects>>
  BY <1>1, <1>3, <1>4 DEF EffectsInv
<1>5. CASE Hook!Apply(e.job)
  <2>1. applied' = applied \cup {e.job}
        /\ effects' = IF e.job \in applied THEN effects
                      ELSE [effects EXCEPT ![e.job] = @ + 1]
    BY <1>5 DEF Hook!Apply
  <2>2. CASE e.job \in applied
    BY <1>1, <1>3, <2>1, <2>2 DEF EffectsInv
  <2>3. CASE e.job \notin applied
    <3>1. effects[e.job] <= Forgets - left.forgets /\ effects[e.job] \in Nat
      <4>1. effects[e.job] <= (Forgets - left.forgets) + 0
        BY <1>2, <2>3 DEF EffectsInv
      <4> QED  BY <1>2, <4>1, DeliveryAssumption DEF EffectsInv
    <3>2. effects' \in [Requests -> Nat] /\ effects'[e.job] = effects[e.job] + 1
      BY <1>2, <2>1, <2>3, <3>1 DEF EffectsInv
    <3>3. \A i \in Requests \ {e.job} :
            effects'[i] = effects[i] /\ (i \in applied' <=> i \in applied)
      BY <1>2, <2>1, <2>3 DEF EffectsInv
    <3>4. e.job \in applied'
      BY <2>1
    <3>5. \A i \in Requests :
            effects'[i] <= (Forgets - left'.forgets) + (IF i \in applied' THEN 1 ELSE 0)
      BY <1>2, <1>3, <3>1, <3>2, <3>3, <3>4, DeliveryAssumption DEF EffectsInv
    <3> QED  BY <1>1, <1>3, <3>2, <3>5 DEF EffectsInv
  <2> QED  BY <2>2, <2>3
<1> QED  BY <1>4, <1>5 DEF Deliver, Hook!Deliver

\* Every other step of a worker: an execution begins, moves on or ends.
LEMMA WorkerKeepsShape ==
  ASSUME EffectsInv,
         \/ \E i \in Requests : Take(i)
         \/ \E e \in executions :
              RunLocally(e) \/ Hear(e) \/ TimeOut(e) \/ Settle(e) \/ GiveUp(e) \/ WorkerDies(e)
  PROVE  ExecutionShape'
<1>0. ExecutionShape
  BY DEF EffectsInv
<1>1. ASSUME NEW i \in Requests, Take(i) PROVE ExecutionShape'
  <2>1. CASE executions' = executions
    BY <1>0, <2>1 DEF ExecutionShape
  <2>2. CASE executions' = executions \cup
               {[job |-> i, attempt |-> row[i].attempts + 1, at |-> "starting"]}
    <3> DEFINE begun == [job |-> i, attempt |-> row[i].attempts + 1, at |-> "starting"]
    <3>1. begun.job \in Requests
          /\ begun = [job |-> begun.job, attempt |-> begun.attempt, at |-> begun.at]
      OBVIOUS
    <3>2. executions' = executions \cup {begun}
      BY <2>2
    <3> HIDE DEF begun
    <3> QED  BY <1>0, <3>1, <3>2 DEF ExecutionShape
  <2> QED  BY <1>1, <2>1, <2>2 DEF Take
<1>2. ASSUME NEW e \in executions,
             RunLocally(e) \/ Hear(e) \/ TimeOut(e) \/ Settle(e) \/ GiveUp(e) \/ WorkerDies(e)
      PROVE  ExecutionShape'
  <2>1. CASE executions' = executions \ {e}
    BY <1>0, <2>1 DEF ExecutionShape
  <2>2. CASE \E phase : Advance(e, phase)
    BY <1>0, <2>2, AdvanceKeepsShape
  <2>3. RunLocally(e) \/ Hear(e) \/ TimeOut(e) \/ GiveUp(e) => \E phase : Advance(e, phase)
    BY DEF RunLocally, Hear, JudgeAnswer, TimeOut, GiveUp
  <2>4. Settle(e) \/ WorkerDies(e) => executions' = executions \ {e}
    BY DEF Settle, WorkerDies
  <2> QED  BY <1>2, <2>1, <2>2, <2>3, <2>4
<1> QED  BY <1>1, <1>2

\* Every step of the system, seen from the receiver.
LEMMA EffectsStep == EffectsInv /\ [Next]_vars => EffectsInv'
<1> SUFFICES ASSUME EffectsInv, [Next]_vars PROVE EffectsInv'
  OBVIOUS
<1>1. ASSUME NEW r \in Requests, Serve(r) \/ Enqueue(r) \/ Interrupt(r) PROVE EffectsInv'
  <2>1. executions' = executions /\ UNCHANGED receiverVars /\ (UNCHANGED left \/ Fault)
    BY <1>1 DEF Serve, Enqueue, Interrupt, jobVars
  <2> QED  BY <2>1, UnseenKeeps DEF EffectsInv, ExecutionShape
<1>2. ASSUME NEW i \in Requests, Pass(i) PROVE EffectsInv'
  <2>1. executions' = executions /\ UNCHANGED receiverVars /\ (UNCHANGED left \/ Fault)
    BY <1>2 DEF Pass, Schedule, Reap, Promote, Sweep, ParkingDies, PromotionBreaksOff
  <2> QED  BY <2>1, UnseenKeeps DEF EffectsInv, ExecutionShape
<1>3. ASSUME NEW i \in Requests, Take(i) PROVE EffectsInv'
  <2>1. UNCHANGED receiverVars /\ UNCHANGED left
    BY <1>3 DEF Take
  <2> QED  BY <1>3, <2>1, WorkerKeepsShape, UnseenKeeps
<1>4. ASSUME NEW e \in executions,
             RunLocally(e) \/ Hear(e) \/ TimeOut(e) \/ Settle(e) \/ GiveUp(e) \/ WorkerDies(e)
      PROVE  EffectsInv'
  <2>1. UNCHANGED receiverVars /\ (UNCHANGED left \/ Fault)
    BY <1>4 DEF RunLocally, Hear, TimeOut, Settle, GiveUp, WorkerDies
  <2> QED  BY <1>4, <2>1, WorkerKeepsShape, UnseenKeeps
<1>5. ASSUME NEW e \in executions, Deliver(e) PROVE EffectsInv'
  BY <1>5, DeliverKeeps
<1>6. CASE ReceiverForgets
  <2>1. left.forgets > 0 /\ left' = [left EXCEPT !.forgets = @ - 1]
        /\ applied' = {} /\ effects' = effects /\ executions' = executions
    BY <1>6 DEF ReceiverForgets, Hook!Forget, jobVars
  <2>2. left'.forgets = left.forgets - 1
        /\ left' = [faults |-> left'.faults, forgets |-> left'.forgets]
    BY <2>1 DEF EffectsInv
  <2> QED  BY <2>1, <2>2, DeliveryAssumption DEF EffectsInv, ExecutionShape
<1>7. CASE UNCHANGED vars
  BY <1>7, UnseenKeeps DEF vars, receiverVars, EffectsInv, ExecutionShape
<1> QED  BY <1>1, <1>2, <1>3, <1>4, <1>5, <1>6, <1>7 DEF Next, Handle, Pass

\* A receiver that remembers the job ids it has applied turns any number of deliveries,
\* retries, timeouts and overlapping executions of a job into one effect.
THEOREM OneEffectPerMemory == Spec => []AppliedOncePerMemory
<1>1. ASSUME EffectsInv PROVE AppliedOncePerMemory
  <2>1. ASSUME NEW i \in Requests PROVE effects[i] <= 1 + (Forgets - left.forgets)
    BY <1>1, DeliveryAssumption DEF EffectsInv
  <2> QED  BY <2>1 DEF AppliedOncePerMemory
<1> QED  BY EffectsStart, EffectsStep, <1>1, PTL DEF Spec

----------------------------------------------------------------------------
(***************************************************************************)
(* Jobs and their executions.                                              *)
(***************************************************************************)
Agreed(i) ==
  /\ asked[i].kind \notin {"down", "slow", "always_fail"}
  /\ asked[i].kind = "idempotent" => effects[i] > 0

\* An execution was begun by a claim, no two by the same; it waits in silence only
\* for /hook/slow, and has a good answer only from a receiver that agreed.
ExecutionInv(e) ==
  /\ e.job \in recorded
  /\ e.attempt <= row[e.job].attempts
  /\ e.at = "silence" => asked[e.job].kind = "slow"
  /\ e.at \in {"ok", "returned"} => Agreed(e.job)
  /\ \A f \in executions : f.job = e.job /\ f.attempt = e.attempt => f = e

\* A dead job has no attempt left, and the owner of the lease has settled the job it
\* leaves retrying or succeeded.
JobInv(i) ==
  /\ row[i].status = "dead" => row[i].attempts >= MaxAttempts
  /\ row[i].status \in {"retrying", "succeeded"} => ~Attended(i)
  /\ row[i].status = "succeeded" => Agreed(i)
  /\ i \in applied => effects[i] > 0

Works == /\ \A e \in executions : ExecutionInv(e)
         /\ \A i \in Requests : JobInv(i)

\* The types, but for the bounds that only the count of the copies gives.
Rows == [status : Statuses, attempts : Nat, waited : 0 .. 2 * Longest]
Runs == [job : Requests, attempt : Nat \ {0}, at : Phases]

Shape ==
  /\ asked \in [Requests -> [kind : Kinds, key : Keys \cup {NoKey}]]
  /\ handled \in [Requests -> Handled]
  /\ named \in [Requests -> Requests]
  /\ heard \in [Requests -> Heard]
  /\ recorded \subseteq Requests
  /\ row \in [Requests -> Rows]
  /\ queue \in [Requests -> Nat] /\ parked \in [Requests -> Nat] /\ delayed \subseteq recorded
  /\ \A i \in Requests : queue[i] > 0 \/ parked[i] > 0 => i \in recorded
  /\ executions \subseteq Runs
  /\ deliveries \in [Requests -> Nat] /\ effects \in [Requests -> Nat]
  /\ applied \subseteq Requests
  /\ left \in [faults : 0 .. Faults, forgets : 0 .. Forgets]

WorkInv == Shape /\ Works

\* Nothing recorded, nothing executed.
LEMMA WorkStarts == Init => WorkInv
<1> SUFFICES ASSUME Init PROVE WorkInv
  OBVIOUS
<1>1. Shape
  <2>1. asked \in [Requests -> [kind : Kinds, key : Keys \cup {NoKey}]]
    BY SubmissionAssumption DEF Init, SubmissionInit
  <2> QED
    <3>1. 0 \in 0 .. 2 * Longest /\ 0 \in Nat
          /\ Faults \in 0 .. Faults /\ Forgets \in 0 .. Forgets
      BY DeliveryAssumption, BackoffAssumption
    <3>2. row \in [Requests -> Rows]
      BY <3>1 DEF Init, Statuses, Rows
    <3>3. /\ queue \in [Requests -> Nat] /\ parked \in [Requests -> Nat]
          /\ \A i \in Requests : ~(queue[i] > 0 \/ parked[i] > 0)
      BY <3>1 DEF Init
    <3> QED
      BY <2>1, <3>1, <3>2, <3>3
      DEF Init, SubmissionInit, Hook!ReceiverInit, Shape, Handled, Heard
<1>2. \A i \in Requests : JobInv(i)
  BY DeliveryAssumption DEF Init, Hook!ReceiverInit, JobInv, Attended
<1> QED
  BY <1>1, <1>2 DEF WorkInv, Works, Init

\* What changes neither jobs nor executions.
LEMMA RestKeeps ==
  ASSUME WorkInv, UNCHANGED <<asked, row, executions, effects>>, applied' \subseteq applied,
         recorded \subseteq recorded'
  PROVE  Works'
BY DEF WorkInv, Works, ExecutionInv, JobInv, Agreed, Attended, OwnsLease

\* An execution that moves on is still of the same claim.
LEMMA Advanced ==
  ASSUME Shape, NEW e \in executions, NEW phase \in Phases, Advance(e, phase)
  PROVE  \E g \in Runs : /\ g.job = e.job /\ g.attempt = e.attempt /\ g.at = phase
                               /\ executions' = (executions \ {e}) \cup {g}
<1>1. e \in Runs
  BY DEF Shape
<1>2. [e EXCEPT !.at = phase] \in Runs
  BY <1>1 DEF Runs
<1> QED
  BY <1>1, <1>2 DEF Advance, Runs

\* What is said of the executions and jobs, when one moves on.
LEMMA MoveKeeps ==
  ASSUME WorkInv, NEW e \in executions, NEW g \in Runs,
         g.job = e.job, g.attempt = e.attempt, executions' = (executions \ {e}) \cup {g},
         UNCHANGED <<asked, row, recorded>>, effects' \in [Requests -> Nat],
         \A i \in Requests : effects'[i] >= effects[i] /\ (i \in applied' => effects'[i] > 0),
         g.at = "silence" => asked[e.job].kind = "slow",
         g.at \in {"ok", "returned"} => Agreed(e.job)'
  PROVE  Works'
<1>1. e \in Runs /\ e.job \in Requests /\ effects \in [Requests -> Nat]
      /\ \A f \in executions : f \in Runs /\ f.job \in Requests
  BY DEF WorkInv, Works, Shape, Runs
<1>2. \A i \in Requests : Agreed(i) => Agreed(i)'
  BY <1>1 DEF Agreed
<1>3. \A i \in Requests : Attended(i)' => Attended(i)
  BY DEF Attended, OwnsLease
<1>4. \A i \in Requests : JobInv(i)'
  BY <1>2, <1>3 DEF WorkInv, Works, JobInv
<1>5. ASSUME NEW f \in executions' PROVE ExecutionInv(f)'
  <2>1. CASE f \in executions /\ f # e
    <3>1. ~(g.job = f.job /\ g.attempt = f.attempt)
      BY <2>1 DEF WorkInv, Works, ExecutionInv
    <3> QED
      BY <1>1, <1>2, <2>1, <3>1 DEF WorkInv, Works, ExecutionInv
  <2>2. CASE f = g
    <3>1. \A h \in executions' : h.job = g.job /\ h.attempt = g.attempt => h = g
      BY DEF WorkInv, Works, ExecutionInv
    <3> QED
      BY <1>1, <2>2, <3>1 DEF WorkInv, Works, ExecutionInv
  <2> QED
    BY <2>1, <2>2
<1> QED
  BY <1>4, <1>5 DEF Works

\* What is said of them, when one ends, and writes its job or does not.
LEMMA EndKeeps ==
  ASSUME WorkInv, NEW e \in executions, executions' = executions \ {e},
         UNCHANGED <<asked, recorded, applied, effects>>,
         \/ row' = row
         \/ \E r \in Rows : /\ row' = [row EXCEPT ![e.job] = r]
                            /\ OwnsLease(e) /\ r.attempts = row[e.job].attempts
                            /\ r.status = "succeeded" => Agreed(e.job)
                            /\ r.status = "dead" => r.attempts >= MaxAttempts
  PROVE  Works'
<1>1. e \in Runs /\ e.job \in Requests /\ row \in [Requests -> Rows]
      /\ \A f \in executions : f \in Runs /\ f.job \in Requests
  BY DEF WorkInv, Works, Shape, Runs, Rows
<1>2. \A i \in Requests : Agreed(i)' <=> Agreed(i)
  BY DEF Agreed
<1>3. \A i \in Requests : row'[i].attempts = row[i].attempts
                          /\ (i # e.job => row'[i] = row[i])
  BY <1>1
<1>4. \A f \in executions' : ExecutionInv(f)'
  BY <1>1, <1>2, <1>3 DEF WorkInv, Works, ExecutionInv
<1>5. \A i \in Requests : Attended(i)' => Attended(i)
  BY <1>1, <1>3 DEF Attended, OwnsLease
<1>6. ASSUME NEW i \in Requests PROVE JobInv(i)'
  <2>1. CASE row'[i] = row[i]
    BY <1>2, <1>5, <2>1 DEF WorkInv, Works, JobInv
  <2>2. CASE row'[i] # row[i]
    <3>1. i = e.job /\ OwnsLease(e)
      BY <1>3, <2>2
    <3>2. ~Attended(i)'
      BY <1>3, <3>1 DEF Attended, OwnsLease, WorkInv, Works, ExecutionInv
    <3> QED
      BY <1>1, <1>2, <2>2, <3>1, <3>2 DEF WorkInv, Works, JobInv
  <2> QED
    BY <2>1, <2>2
<1> QED
  BY <1>4, <1>6 DEF Works

\* The API and the receiver's memory touch neither.
LEMMA WorkElsewhere ==
  ASSUME SubmissionInv, SubmissionInv', WorkInv,
         \/ \E r \in Requests : Serve(r) \/ Enqueue(r) \/ Interrupt(r)
         \/ ReceiverForgets
         \/ UNCHANGED vars
  PROVE  WorkInv'
<1>1. ASSUME Fault PROVE left' \in [faults : 0 .. Faults, forgets : 0 .. Forgets]
  BY <1>1, DeliveryAssumption DEF Fault, WorkInv, Shape
<1>2. recorded \subseteq recorded'
  BY DEF Serve, Enqueue, Interrupt, ReceiverForgets, vars, submissionVars,
         Ask, Refuse, Insert, FindOriginal, Answer, Push, Disconnect, ApiDies
<1>3. /\ queue' \in [Requests -> Nat] /\ parked' = parked /\ delayed' = delayed
      /\ \A i \in Requests : queue'[i] > 0 => i \in recorded'
  <2>1. ASSUME NEW r \in Requests, Enqueue(r)
        PROVE  /\ queue' \in [Requests -> Nat]
               /\ \A i \in Requests : queue'[i] > 0 => i \in recorded'
    <3>1. handled[r] = "inserted" /\ queue' = [queue EXCEPT ![r] = @ + 1]
      BY <2>1 DEF Enqueue, Push, Queued
    <3>2. named[r] = r /\ named[r] \in recorded
      BY <3>1 DEF SubmissionInv, OwnIdUntilFound, AnswersKnown, NamesRecorded
    <3> QED
      BY <1>2, <3>1, <3>2 DEF WorkInv, Shape
  <2>2. UNCHANGED retryVars /\ (queue' = queue \/ \E r \in Requests : Enqueue(r))
    BY DEF Enqueue, Serve, Interrupt, ReceiverForgets, vars, jobVars, retryVars
  <2> QED
    BY <1>2, <2>1, <2>2 DEF retryVars, WorkInv, Shape
<1>4. UNCHANGED <<asked, row, executions, effects>> /\ applied' \subseteq applied
  BY DEF Serve, Enqueue, Interrupt, ReceiverForgets, vars, submissionVars, jobVars,
         receiverVars, Hook!Forget,
         Ask, Refuse, Insert, FindOriginal, Answer, Push, Disconnect, ApiDies
<1>5. deliveries' \in [Requests -> Nat] /\ left' \in [faults : 0 .. Faults, forgets : 0 .. Forgets]
  <2>1. CASE ReceiverForgets
    BY <2>1, DeliveryAssumption DEF ReceiverForgets, Hook!Forget, WorkInv, Shape
  <2> QED
    BY <1>1, <2>1 DEF Serve, Enqueue, Interrupt, vars, receiverVars, WorkInv, Shape
<1>6. Shape'
  BY <1>2, <1>3, <1>4, <1>5 DEF WorkInv, Shape, SubmissionInv, SubmissionShape
<1> QED
  BY <1>2, <1>4, <1>6, RestKeeps DEF WorkInv

\* A claim begins the one execution of its attempt, the last there is.
LEMMA TakeKeeps ==
  ASSUME WorkInv, NEW i \in Requests, Take(i)
  PROVE  WorkInv'
<1>1. row[i] \in Rows /\ row \in [Requests -> Rows] /\ i \in recorded
      /\ queue[i] \in Nat /\ queue[i] > 0
      /\ \A e \in executions : e \in Runs /\ e.job \in Requests
  BY DEF WorkInv, Shape, Runs, Take
<1>2. /\ UNCHANGED <<asked, handled, named, heard, recorded, parked, delayed, deliveries,
                     applied, effects, left>>
      /\ queue' \in [Requests -> Nat]
      /\ \A k \in Requests : queue'[k] > 0 => k \in recorded
  BY <1>1 DEF Take, submissionVars, retryVars, receiverVars, WorkInv, Shape
<1>3. CASE UNCHANGED <<row, executions>>
  <2>1. Shape'
    BY <1>2, <1>3 DEF WorkInv, Shape
  <2> QED
    BY <1>2, <1>3, <2>1, RestKeeps DEF WorkInv
<1>4. CASE row[i].status \in {"queued", "retrying"}
  <2> DEFINE r == [row[i] EXCEPT !.status = "running", !.attempts = @ + 1]
             e == [job |-> i, attempt |-> row[i].attempts + 1, at |-> "starting"]
  <2>1. row' = [row EXCEPT ![i] = r] /\ executions' = executions \cup {e}
    BY <1>1, <1>4 DEF Take
  <2>2. row[i].attempts + 1 \in Nat \ {0} /\ row[i].attempts \in Nat
    BY <1>1 DEF Rows
  <2>3. r \in Rows /\ r.status = "running" /\ r.attempts = row[i].attempts + 1
    BY <1>1, <2>2 DEF Rows, Statuses
  <2>4. /\ e \in Runs /\ e.job = i /\ e.attempt = row[i].attempts + 1
        /\ e.at = "starting"
    BY <2>2 DEF Runs, Phases
  <2> HIDE DEF r, e
  <2>5. Shape'
    BY <1>1, <1>2, <2>1, <2>3, <2>4 DEF WorkInv, Shape, Rows
  <2>6. \A f \in executions : f.attempt <= row'[f.job].attempts
                              /\ (f.job = i => f.attempt < e.attempt)
    BY <1>1, <2>1, <2>3, <2>4 DEF WorkInv, Works, ExecutionInv, Runs, Rows
  <2>7. \A k \in Requests : Agreed(k) <=> Agreed(k)'
    BY <1>2 DEF Agreed
  <2>8. ASSUME NEW f \in executions' PROVE ExecutionInv(f)'
    <3>1. CASE f \in executions
      <4>1. \A h \in executions' : h.job = f.job /\ h.attempt = f.attempt => h = f
        BY <1>1, <2>1, <2>4, <2>6, <3>1 DEF WorkInv, Works, ExecutionInv, Runs
      <4> QED
        BY <1>1, <1>2, <2>6, <2>7, <3>1, <4>1 DEF WorkInv, Works, ExecutionInv
    <3>2. CASE f = e
      <4>1. \A h \in executions' : h.job = f.job /\ h.attempt = f.attempt => h = f
        BY <1>1, <2>1, <2>4, <2>6, <3>2 DEF WorkInv, Works, ExecutionInv, Runs
      <4>2. f.attempt <= row'[f.job].attempts
        BY <1>1, <2>1, <2>2, <2>3, <2>4, <3>2
      <4> QED
        BY <1>1, <1>2, <2>4, <3>2, <4>1, <4>2 DEF ExecutionInv
    <3> QED
      BY <2>1, <3>1, <3>2
  <2>9. ASSUME NEW k \in Requests PROVE JobInv(k)'
    <3>1. CASE k = i
      BY <1>1, <1>2, <2>1, <2>3, <3>1 DEF WorkInv, Works, JobInv
    <3>2. CASE k # i
      <4>1. row'[k] = row[k] /\ (Attended(k)' => Attended(k))
        BY <1>1, <2>1, <2>4, <3>2 DEF Attended, OwnsLease
      <4> QED
        BY <1>2, <2>7, <4>1 DEF WorkInv, Works, JobInv
    <3> QED
      BY <3>1, <3>2
  <2> QED
    BY <2>5, <2>8, <2>9 DEF WorkInv, Works
<1> QED
  BY <1>3, <1>4 DEF Take

\* Where the copies of a job may be after a pass.
LEMMA PassShape ==
  ASSUME WorkInv, NEW i \in Requests, Pass(i)
  PROVE  /\ i \in recorded
         /\ UNCHANGED <<asked, handled, named, heard, recorded, executions, deliveries,
                        applied, effects>>
         /\ queue' \in [Requests -> Nat] /\ parked' \in [Requests -> Nat]
         /\ delayed' \subseteq recorded
         /\ \A k \in Requests : queue'[k] > 0 \/ parked'[k] > 0 => k \in recorded
         /\ left' \in [faults : 0 .. Faults, forgets : 0 .. Forgets]
<1>1. /\ queue \in [Requests -> Nat] /\ parked \in [Requests -> Nat]
      /\ delayed \subseteq recorded
      /\ \A k \in Requests : queue[k] > 0 \/ parked[k] > 0 => k \in recorded
      /\ left \in [faults : 0 .. Faults, forgets : 0 .. Forgets]
  BY DEF WorkInv, Shape
<1>2. i \in recorded
  BY <1>1
  DEF Pass, Schedule, Reap, Promote, Sweep, Lost, ParkingDies, PromotionBreaksOff
<1>3. UNCHANGED <<asked, handled, named, heard, recorded, executions, deliveries,
                  applied, effects>>
  BY DEF Pass, Schedule, Reap, Promote, Sweep, ParkingDies, PromotionBreaksOff,
         submissionVars, receiverVars
<1>4. queue' = queue \/ queue' = [queue EXCEPT ![i] = @ + 1]
  BY DEF Pass, Schedule, Reap, Promote, Sweep, ParkingDies, PromotionBreaksOff, Queued
<1>5. parked' = parked \/ (parked[i] > 0 /\ parked' = [parked EXCEPT ![i] = @ - 1])
  BY DEF Pass, Schedule, Reap, Promote, Sweep, ParkingDies, PromotionBreaksOff, retryVars
<1>6. delayed' \subseteq delayed \cup {i}
  BY DEF Pass, Schedule, Reap, Promote, Sweep, ParkingDies, PromotionBreaksOff, retryVars
<1>7. left' = left \/ Fault
  BY DEF Pass, Schedule, Reap, Promote, Sweep, ParkingDies, PromotionBreaksOff
<1>8. left' \in [faults : 0 .. Faults, forgets : 0 .. Forgets]
  BY <1>1, <1>7, DeliveryAssumption DEF Fault
<1>9. queue' \in [Requests -> Nat] /\ \A k \in Requests : queue'[k] > 0 => k \in recorded
  BY <1>1, <1>2, <1>4
<1>10. parked' \in [Requests -> Nat] /\ \A k \in Requests : parked'[k] > 0 => k \in recorded
  BY <1>1, <1>5
<1> QED
  BY <1>1, <1>2, <1>3, <1>6, <1>8, <1>9, <1>10

\* A pass leaves the row or changes its status: to dead when no attempt is left, to
\* queued whatever it was.
LEMMA PassRow ==
  ASSUME WorkInv, NEW i \in Requests, Pass(i)
  PROVE  \/ row' = row
         \/ \E st \in {"queued", "dead"} :
              /\ row' = [row EXCEPT ![i].status = st]
              /\ st = "dead" => row[i].attempts >= MaxAttempts
<1>1. "queued" \in {"queued", "dead"} /\ "dead" \in {"queued", "dead"}
  OBVIOUS
<1>2. CASE Reap(i)
  BY <1>1, <1>2 DEF Reap
<1>3. CASE Promote(i) \/ PromotionBreaksOff(i)
  BY <1>1, <1>3 DEF Promote, PromotionBreaksOff
<1>4. CASE Schedule(i) \/ Sweep(i) \/ ParkingDies(i)
  BY <1>4 DEF Schedule, Sweep, ParkingDies
<1> QED
  BY <1>2, <1>3, <1>4 DEF Pass

\* The passes change the status of one job, and where its copies are.
LEMMA PassKeeps ==
  ASSUME WorkInv, NEW i \in Requests, Pass(i)
  PROVE  WorkInv'
<1>1. row[i] \in Rows /\ row \in [Requests -> Rows]
  BY DEF WorkInv, Shape
<1>2. UNCHANGED <<asked, handled, named, heard, recorded, executions, deliveries,
                  applied, effects>>
  BY PassShape
<1>3. row' \in [Requests -> Rows] => Shape'
  BY PassShape DEF WorkInv, Shape
<1>4. ASSUME NEW st \in {"queued", "dead"}, row' = [row EXCEPT ![i].status = st],
             st = "dead" => row[i].attempts >= MaxAttempts
      PROVE  WorkInv'
  <2>1. row' \in [Requests -> Rows] /\ row'[i].status = st
        /\ \A k \in Requests : /\ row'[k].attempts = row[k].attempts
                               /\ k # i => row'[k].status = row[k].status
    BY <1>1, <1>4 DEF Rows, Statuses
  <2>2. \A k \in Requests : (Agreed(k) <=> Agreed(k)') /\ (Attended(k)' => Attended(k))
    BY <1>2, <2>1 DEF Agreed, Attended, OwnsLease
  <2>3. \A e \in executions' : ExecutionInv(e)'
    BY <1>2, <2>1, <2>2 DEF WorkInv, Works, ExecutionInv, Shape, Runs
  <2>4. \A k \in Requests : JobInv(k)'
    BY <1>2, <1>4, <2>1, <2>2 DEF WorkInv, Works, JobInv
  <2> QED
    BY <1>3, <2>1, <2>3, <2>4 DEF WorkInv, Works
<1>5. CASE row' = row
  BY <1>1, <1>2, <1>3, <1>5, RestKeeps DEF WorkInv
<1> QED
  BY <1>4, <1>5, PassRow

----------------------------------------------------------------------------
(***************************************************************************)
(* The backoff.  2 ^ n is how many subsets 1 .. n has, which is how the    *)
(* provers learn that it doubles.                                          *)
(***************************************************************************)

\* 2 ** attempts is a positive number.
LEMMA PowerPositive ==
  ASSUME NEW n \in Nat
  PROVE  /\ 2 ^ n \in Nat \ {0}
         /\ IsFiniteSet(SUBSET (1 .. n)) /\ Cardinality(SUBSET (1 .. n)) = 2 ^ n
<1>1. IsFiniteSet(1 .. n) /\ Cardinality(1 .. n) = n
  BY FS_Interval
<1>2. IsFiniteSet(SUBSET (1 .. n)) /\ Cardinality(SUBSET (1 .. n)) = 2 ^ n
  BY <1>1, FS_SUBSET
<1>3. Cardinality(SUBSET (1 .. n)) \in Nat
  BY <1>2, FS_CardinalityType
<1>4. Cardinality(SUBSET (1 .. n)) # 0
  <2>1. {} \in SUBSET (1 .. n)
    OBVIOUS
  <2> QED
    BY <1>2, <2>1, FS_EmptySet
<1> QED
  BY <1>2, <1>3, <1>4

\* It at least doubles with every attempt.
LEMMA PowerDoubles ==
  ASSUME NEW m \in Nat, NEW n \in Nat, m < n
  PROVE  2 * 2 ^ m =< 2 ^ n
<1> DEFINE S == SUBSET (1 .. m)
           U == SUBSET (1 .. n)
           T == {s \cup {n} : s \in S}
           f == [s \in S |-> s \cup {n}]
<1>1. /\ IsFiniteSet(S) /\ Cardinality(S) = 2 ^ m /\ 2 ^ m \in Nat
      /\ IsFiniteSet(U) /\ Cardinality(U) = 2 ^ n /\ 2 ^ n \in Nat
  BY PowerPositive
<1>2. \A s \in S : n \notin s
  OBVIOUS
<1>3. f \in Bijection(S, T)
  <2>1. f \in [S -> T]
    OBVIOUS
  <2>2. \A a, b \in S : f[a] = f[b] => a = b
    <3> TAKE a, b \in S
    <3>1. n \notin a /\ n \notin b
      BY <1>2
    <3>2. f[a] = a \cup {n} /\ f[b] = b \cup {n}
      OBVIOUS
    <3> HIDE DEF f, S
    <3>3. a \cup {n} = b \cup {n} => a = b
      BY <3>1
    <3> QED
      BY <3>2, <3>3
  <2>3. \A t \in T : \E s \in S : f[s] = t
    OBVIOUS
  <2> QED
    <3> HIDE DEF f, S, T
    <3> QED
      BY <2>1, <2>2, <2>3 DEF Bijection, Injection, Surjection, IsInjective
<1>4. IsFiniteSet(T) /\ Cardinality(T) = 2 ^ m
  <2> HIDE DEF f, S, T
  <2> QED
    BY <1>1, <1>3, FS_Bijection DEF ExistsBijection
<1>5. S \cap T = {}
  BY <1>2
<1>6. S \cup T \subseteq U
  <2>1. 1 .. m \subseteq 1 .. n /\ n \in 1 .. n
    OBVIOUS
  <2> QED
    BY <2>1
<1> HIDE DEF S, T, U
<1>7. IsFiniteSet(S \cup T) /\ Cardinality(S \cup T) = 2 ^ m + 2 ^ m
  <2>1. /\ IsFiniteSet(S \cup T)
        /\ Cardinality(S \cup T) = Cardinality(S) + Cardinality(T) - Cardinality(S \cap T)
    BY <1>1, <1>4, FS_Union
  <2>2. Cardinality(S \cap T) = 0
    BY <1>5, FS_EmptySet
  <2> QED
    BY <1>1, <1>4, <2>1, <2>2
<1>8. Cardinality(S \cup T) =< Cardinality(U)
  BY <1>1, <1>6, FS_Subset
<1> QED
  BY <1>1, <1>7, <1>8

\* The delay without jitter.
LEMMA FloorGrows ==
  ASSUME NEW m \in Nat
  PROVE  /\ Floor(m) \in 1 .. Longest
         /\ \A n \in Nat : m < n => Floor(n) = Longest \/ 2 * Floor(m) =< Floor(n)
<1>1. 2 ^ m * Base \in Nat \ {0}
  <2>1. 2 ^ m \in Nat \ {0} /\ Base \in Nat \ {0}
    BY PowerPositive, BackoffAssumption
  <2>2. \A x, y \in Nat \ {0} : x * y \in Nat \ {0}
    OBVIOUS
  <2> QED
    BY <2>1, <2>2
<1>2. ASSUME NEW n \in Nat, m < n
      PROVE  2 * (2 ^ m * Base) =< 2 ^ n * Base /\ 2 ^ n * Base \in Nat
  <2>1. 2 ^ m \in Nat /\ 2 ^ n \in Nat /\ Base \in Nat /\ 2 * 2 ^ m =< 2 ^ n
    BY <1>2, PowerPositive, PowerDoubles, BackoffAssumption
  <2>2. \A x, y, b \in Nat : 2 * x =< y => 2 * (x * b) =< y * b /\ y * b \in Nat
    OBVIOUS
  <2> QED
    BY <2>1, <2>2
<1> QED
  BY <1>1, <1>2, BackoffAssumption DEF Floor

\* A delay is a positive number, and three tenths of jitter are less than a doubling.
LEMMA DelaysGrow ==
  ASSUME NEW m \in Nat, NEW d \in Delays(m)
  PROVE  /\ d \in 1 .. 2 * Longest
         /\ \A n \in Nat : \A c \in Delays(n) : m < n => c > d \/ d >= Longest
<1>1. Floor(m) \in 1 .. Longest /\ d \in Nat /\ Floor(m) =< d /\ d =< 2 * Longest
      /\ 10 * d =< 13 * Floor(m) + 5
  BY FloorGrows, BackoffAssumption DEF Delays
<1>2. ASSUME NEW n \in Nat, NEW c \in Delays(n), m < n
      PROVE  c > d \/ d >= Longest
  <2>1. Floor(n) \in 1 .. Longest /\ c \in Nat /\ Floor(n) =< c
    BY FloorGrows, BackoffAssumption DEF Delays
  <2>2. Floor(n) = Longest \/ 2 * Floor(m) =< Floor(n)
    BY <1>2, FloorGrows
  <2> QED
    BY <1>1, <2>1, <2>2, BackoffAssumption
<1> QED
  BY <1>1, <1>2, BackoffAssumption

----------------------------------------------------------------------------
\* A delivery is answered with a good reply only by a receiver that agreed, which an
\* idempotent one does when it has had its effect.
LEMMA DeliverWorks ==
  ASSUME WorkInv, NEW e \in executions, Deliver(e)
  PROVE  WorkInv'
<1> DEFINE i == e.job
           kind == asked[i].kind
<1>1. /\ e \in Runs /\ i \in Requests
      /\ deliveries \in [Requests -> Nat] /\ effects \in [Requests -> Nat]
      /\ applied \subseteq Requests
  BY DEF WorkInv, Shape, Runs
<1>2. /\ UNCHANGED <<asked, handled, named, heard, recorded, row, queue, retryVars, left>>
      /\ kind \in Hook!Routes
      /\ Advance(e, Hook!Reply(kind, i))
      /\ deliveries' = [deliveries EXCEPT ![i] = @ + 1]
      /\ IF kind = "idempotent" THEN Hook!Apply(i) ELSE UNCHANGED <<applied, effects>>
  BY DEF Deliver, Hook!Deliver, Hook!Record, submissionVars
<1>3. /\ Hook!Reply(kind, i) \in Hook!Replies
      /\ Hook!Reply(kind, i) = "ok" => kind \notin {"down", "slow", "always_fail"}
      /\ Hook!Reply(kind, i) = "silence" => kind = "slow"
  BY <1>2 DEF Hook!Reply, Hook!FlakyReply, Hook!Routes, Hook!Replies
<1>4. /\ effects' \in [Requests -> Nat] /\ applied' \subseteq Requests
      /\ \A k \in Requests : effects'[k] >= effects[k] /\ (k \in applied' => effects'[k] > 0)
      /\ kind = "idempotent" => effects'[i] > 0
  <2>1. \A k \in Requests : k \in applied => effects[k] > 0
    BY DEF WorkInv, Works, JobInv
  <2>2. CASE kind = "idempotent"
    <3>1. /\ applied' = applied \cup {i}
          /\ effects' = IF i \in applied THEN effects
                        ELSE [effects EXCEPT ![i] = effects[i] + 1]
      BY <1>2, <2>2 DEF Hook!Apply
    <3> QED
      BY <1>1, <2>1, <3>1
  <2>3. CASE kind # "idempotent"
    BY <1>1, <1>2, <2>1, <2>3
  <2> QED
    BY <2>2, <2>3
<1>5. PICK g \in Runs : /\ g.job = i /\ g.attempt = e.attempt
                              /\ g.at = Hook!Reply(kind, i)
                              /\ executions' = (executions \ {e}) \cup {g}
  <2>1. PICK reply \in Phases : reply = Hook!Reply(kind, i) /\ Advance(e, reply)
    BY <1>2, <1>3 DEF Phases
  <2>2. \E g \in Runs : /\ g.job = i /\ g.attempt = e.attempt /\ g.at = reply
                              /\ executions' = (executions \ {e}) \cup {g}
    BY <2>1, Advanced DEF WorkInv
  <2> QED
    BY <2>1, <2>2
<1>6. g.at # "returned"
  BY <1>3, <1>5 DEF Hook!Replies
<1>7. g.at = "ok" => Agreed(i)'
  BY <1>2, <1>3, <1>4, <1>5 DEF Agreed
<1>8. deliveries' \in [Requests -> Nat]
  BY <1>1, <1>2
<1>9. Shape'
  BY <1>2, <1>4, <1>5, <1>8 DEF WorkInv, Shape, retryVars
<1>10. Works'
  <2> HIDE DEF kind
  <2> QED
    BY <1>2, <1>3, <1>4, <1>5, <1>6, <1>7, MoveKeeps DEF kind
<1> QED
  BY <1>9, <1>10 DEF WorkInv

\* Every other step of an execution that goes on.
LEMMA MoveWorks ==
  ASSUME WorkInv, NEW e \in executions,
         RunLocally(e) \/ Hear(e) \/ TimeOut(e) \/ GiveUp(e)
  PROVE  WorkInv'
<1>1. /\ UNCHANGED <<asked, handled, named, heard, recorded, row, queue, retryVars,
                     deliveries, applied, effects>>
      /\ left' \in [faults : 0 .. Faults, forgets : 0 .. Forgets]
      /\ \A i \in Requests : effects'[i] >= effects[i]
      /\ \A i \in Requests : i \in applied' => effects'[i] > 0
  BY DeliveryAssumption
  DEF RunLocally, Hear, TimeOut, GiveUp, Fault, submissionVars, receiverVars,
      WorkInv, Works, Shape, JobInv
<1>2. \E phase \in {"returned", "threw"} :
        Advance(e, phase) /\ (phase = "returned" => Agreed(e.job))
  <2>1. asked[e.job].kind = "sleep" => Agreed(e.job)
    BY DEF Agreed
  <2>2. e.at = "ok" => Agreed(e.job)
    BY DEF WorkInv, Works, ExecutionInv
  <2> QED
    BY <2>1, <2>2 DEF RunLocally, Hear, JudgeAnswer, TimeOut, GiveUp
<1>3. PICK phase \in {"returned", "threw"} :
        Advance(e, phase) /\ (phase = "returned" => Agreed(e.job)')
  BY <1>1, <1>2 DEF Agreed
<1>4. phase \in Phases
  BY DEF Phases
<1>5. PICK g \in Runs : /\ g.job = e.job /\ g.attempt = e.attempt /\ g.at = phase
                              /\ executions' = (executions \ {e}) \cup {g}
  BY <1>3, <1>4, Advanced DEF WorkInv
<1>6. Shape'
  BY <1>1, <1>5 DEF WorkInv, Shape, retryVars
<1>7. effects' \in [Requests -> Nat]
  BY <1>1 DEF WorkInv, Shape
<1>8. Works'
  BY <1>1, <1>3, <1>5, <1>7, MoveKeeps
<1> QED
  BY <1>6, <1>8 DEF WorkInv

\* What a finished handler writes: the row is Settle's, whatever the job was.
Settlement(e, r) ==
  /\ OwnsLease(e) /\ r.attempts = row[e.job].attempts
  /\ \/ r.status = "succeeded" /\ e.at = "returned" /\ r.waited = row[e.job].waited
     \/ r.status = "dead" /\ Exhausted(e) /\ e.at = "threw" /\ r.waited = row[e.job].waited
     \/ r.status = "retrying" /\ ~Exhausted(e) /\ e.at = "threw" /\ r.waited \in Delays(e.attempt)

\* Settle drops the execution and writes one of these rows, or leaves the row alone.
LEMMA SettleWrites ==
  ASSUME WorkInv, NEW e \in executions, Settle(e)
  PROVE  /\ executions' = executions \ {e}
         /\ \/ row' = row
            \/ \E r \in Rows : row' = [row EXCEPT ![e.job] = r] /\ Settlement(e, r)
<1> DEFINE i == e.job
<1>1. i \in Requests /\ row \in [Requests -> Rows] /\ e.attempt \in Nat
  BY DEF WorkInv, Shape, Runs, Rows
<1>2. row[i] \in Rows
  BY <1>1
<1>3. CASE OwnsLease(e) /\ e.at = "returned"
  <2> DEFINE r == [row[i] EXCEPT !.status = "succeeded"]
  <2>1. /\ r \in Rows /\ r.attempts = row[i].attempts /\ r.waited = row[i].waited
        /\ r.status = "succeeded"
    BY <1>2 DEF Rows, Statuses
  <2>2. row' = [row EXCEPT ![i] = r]
    BY <1>3 DEF Settle
  <2> HIDE DEF r
  <2> QED
    BY <1>3, <2>1, <2>2 DEF Settle, Settlement
<1>4. CASE OwnsLease(e) /\ e.at = "threw" /\ Exhausted(e)
  <2> DEFINE r == [row[i] EXCEPT !.status = "dead"]
  <2>1. /\ r \in Rows /\ r.attempts = row[i].attempts /\ r.waited = row[i].waited
        /\ r.status = "dead"
    BY <1>2 DEF Rows, Statuses
  <2>2. row' = [row EXCEPT ![i] = r]
    BY <1>4 DEF Settle
  <2> HIDE DEF r
  <2> QED
    BY <1>4, <2>1, <2>2 DEF Settle, Settlement
<1>5. CASE OwnsLease(e) /\ e.at = "threw" /\ ~Exhausted(e)
  <2>1. PICK d \in Delays(e.attempt) :
          row' = [row EXCEPT ![i].status = "retrying", ![i].waited = d]
    BY <1>5 DEF Settle
  <2>2. d \in 0 .. 2 * Longest
    <3>1. d \in 1 .. 2 * Longest
      BY <1>1, DelaysGrow
    <3> QED
      BY <3>1, BackoffAssumption
  <2> DEFINE r == [row[i] EXCEPT !.status = "retrying", !.waited = d]
  <2>3. r \in Rows /\ r.attempts = row[i].attempts /\ r.waited = d /\ r.status = "retrying"
    BY <1>2, <2>2 DEF Rows, Statuses
  <2>4. row' = [row EXCEPT ![i] = r]
    BY <1>1, <2>1 DEF Rows
  <2> HIDE DEF r
  <2> QED
    BY <1>5, <2>3, <2>4 DEF Settle, Settlement
<1> QED
  BY <1>3, <1>4, <1>5 DEF Settle

\* An execution that settles, or dies with its worker.
LEMMA EndWorks ==
  ASSUME WorkInv, NEW e \in executions, Settle(e) \/ WorkerDies(e)
  PROVE  WorkInv'
<1>1. /\ UNCHANGED <<asked, handled, named, heard, recorded, queue, delayed,
                     deliveries, applied, effects>>
      /\ left' \in [faults : 0 .. Faults, forgets : 0 .. Forgets]
      /\ executions' = executions \ {e}
  BY DeliveryAssumption
  DEF Settle, WorkerDies, Fault, submissionVars, retryVars, receiverVars, WorkInv, Shape
<1>2. e.job \in Requests /\ e.job \in recorded /\ e.attempt \in Nat
      /\ row \in [Requests -> Rows] /\ ExecutionInv(e)
  BY DEF WorkInv, Works, Shape, Runs, Rows, ExecutionInv
<1>3. /\ parked' \in [Requests -> Nat]
      /\ \A k \in Requests : parked'[k] > 0 => k \in recorded
  <2>1. parked' = parked \/ parked' = [parked EXCEPT ![e.job] = @ + 1]
    BY DEF Settle, WorkerDies, retryVars
  <2>2. /\ parked \in [Requests -> Nat]
        /\ \A k \in Requests : parked[k] > 0 => k \in recorded
    BY DEF WorkInv, Shape
  <2> QED
    BY <1>2, <2>1, <2>2
<1>4. row' \in [Requests -> Rows] => Shape'
  BY <1>1, <1>3 DEF WorkInv, Shape
<1>5. CASE row' = row
  BY <1>1, <1>2, <1>4, <1>5, EndKeeps DEF WorkInv
<1>6. ASSUME NEW r \in Rows, row' = [row EXCEPT ![e.job] = r], Settlement(e, r)
      PROVE  WorkInv'
  <2>1. /\ OwnsLease(e) /\ r.attempts = row[e.job].attempts
        /\ r.status = "succeeded" => Agreed(e.job)
        /\ r.status = "dead" => r.attempts >= MaxAttempts
    BY <1>2, <1>6, DeliveryAssumption DEF Settlement, ExecutionInv, OwnsLease, Exhausted
  <2>2. Works'
    BY <1>1, <1>6, <2>1, EndKeeps
  <2>3. row' \in [Requests -> Rows]
    BY <1>2, <1>6
  <2> QED
    BY <1>4, <2>2, <2>3 DEF WorkInv
<1> QED
  BY <1>5, <1>6, SettleWrites DEF WorkerDies

\* No step of the system breaks it.
LEMMA WorkStep == SubmissionInv /\ SubmissionInv' /\ WorkInv /\ [Next]_vars => WorkInv'
<1> SUFFICES ASSUME SubmissionInv, SubmissionInv', WorkInv, [Next]_vars PROVE WorkInv'
  OBVIOUS
<1>1. ASSUME NEW e \in executions, Handle(e) \/ GiveUp(e) \/ WorkerDies(e)
      PROVE  WorkInv'
  BY <1>1, DeliverWorks, MoveWorks, EndWorks DEF Handle
<1> QED
  BY <1>1, WorkElsewhere, TakeKeeps, PassKeeps DEF Next, Pass

\* It holds in every state.
LEMMA WorkAlways == Spec => [](SubmissionInv /\ WorkInv)
<1>1. SubmissionInv /\ WorkInv /\ [Next]_vars => (SubmissionInv /\ WorkInv)'
  BY SubmissionStep, WorkStep
<1> QED
  BY SubmissionStarts, WorkStarts, <1>1, PTL DEF Spec

\* A row says succeeded only if the receiver agreed, however many executions overlapped
\* and whichever answers came late (handlers.ts:30-70).
THEOREM SuccessIsAgreed == Spec => []SuccessWasAgreed
<1>1. WorkInv => SuccessWasAgreed
  <2> SUFFICES ASSUME WorkInv, NEW i \in recorded, row[i].status = "succeeded" PROVE Agreed(i)
    BY DEF SuccessWasAgreed, Agreed
  <2> QED
    BY DEF WorkInv, Works, JobInv, Shape
<1> QED
  BY WorkAlways, <1>1, PTL

----------------------------------------------------------------------------
(***************************************************************************)
(* Delays.  The delay a job shows is that of some earlier attempt m, or of *)
(* none; while the owner of the lease is at work it is not yet that of the *)
(* attempt going on.                                                       *)
(***************************************************************************)
WaitOf(i, m) ==
  /\ IF m = 0 THEN row[i].waited = 0 ELSE row[i].waited \in Delays(m)
  /\ Attended(i) => m < row[i].attempts

WaitInv == \A i \in Requests : \E m \in 0 .. row[i].attempts : WaitOf(i, m)

\* All but a retry leave the delay, and nobody attends to a job without a claim.
Steady(i) ==
  /\ row'[i].waited = row[i].waited /\ row'[i].attempts >= row[i].attempts
  /\ Attended(i)' => Attended(i) \/ row'[i].attempts > row[i].attempts

Retries(e) ==
  /\ e.at = "threw" /\ OwnsLease(e)
  /\ row'[e.job].attempts = row[e.job].attempts
  /\ row'[e.job].waited \in Delays(e.attempt)
  /\ ~Attended(e.job)'

\* Runs that come only from executions of the same claim attend to no more jobs.
LEMMA AttendedBefore ==
  ASSUME NEW i \in Requests, row'[i].attempts = row[i].attempts,
         \A f \in executions' : \E h \in executions : h.job = f.job /\ h.attempt = f.attempt
  PROVE  Attended(i)' => Attended(i)
BY DEF Attended, OwnsLease

\* An execution that moves on is one of the same claim.
LEMMA SameClaims ==
  ASSUME WorkInv, NEW e \in executions,
         RunLocally(e) \/ Deliver(e) \/ Hear(e) \/ TimeOut(e) \/ GiveUp(e)
  PROVE  /\ \E phase : Advance(e, phase)
         /\ \A f \in executions' : \E h \in executions : h.job = f.job /\ h.attempt = f.attempt
         /\ row' = row
<1>1. PICK phase : Advance(e, phase)
  BY DEF RunLocally, Deliver, Hear, JudgeAnswer, TimeOut, GiveUp
<1>2. e \in Runs
  BY DEF WorkInv, Shape
<1>3. [e EXCEPT !.at = phase].job = e.job /\ [e EXCEPT !.at = phase].attempt = e.attempt
  BY <1>2 DEF Runs
<1> QED
  BY <1>1, <1>3 DEF Advance, RunLocally, Deliver, Hear, TimeOut, GiveUp

\* A step leaves the delay of a job, or is a retry of it by the owner of its lease.
LEMMA WaitsSeen ==
  ASSUME WorkInv, [Next]_vars, NEW i \in Requests
  PROVE  Steady(i) \/ \E e \in executions : e.job = i /\ Retries(e)
<1>1. row \in [Requests -> Rows] /\ \A k \in Requests : row[k].attempts \in Nat
  BY DEF WorkInv, Shape, Rows
<1>2. ASSUME UNCHANGED <<row, executions>> PROVE Steady(i)
  BY <1>1, <1>2, AttendedBefore DEF Steady
<1>3. ASSUME NEW k \in Requests, Take(k) PROVE Steady(i)
  <2>1. CASE row[k].status \in {"queued", "retrying"} /\ k = i
    <3>1. row' = [row EXCEPT ![i].status = "running", ![i].attempts = @ + 1]
      BY <1>3, <2>1 DEF Take
    <3> QED
      BY <1>1, <3>1 DEF Steady, Rows
  <2>2. CASE row[k].status \in {"queued", "retrying"} /\ k # i
    <3>1. /\ row'[i] = row[i]
          /\ executions' = executions \cup
               {[job |-> k, attempt |-> row[k].attempts + 1, at |-> "starting"]}
      BY <1>1, <1>3, <2>2 DEF Take
    <3> QED
      BY <1>1, <2>2, <3>1 DEF Steady, Attended, OwnsLease
  <2>3. CASE row[k].status \notin {"queued", "retrying"}
    BY <1>2, <1>3, <2>3 DEF Take
  <2> QED
    BY <2>1, <2>2, <2>3
<1>4. ASSUME NEW k \in Requests, Pass(k) PROVE Steady(i)
  <2>1. executions' = executions /\ (row' = row \/ \E st : row' = [row EXCEPT ![k].status = st])
    BY <1>4, PassShape, PassRow
  <2>2. row'[i].waited = row[i].waited /\ row'[i].attempts = row[i].attempts
    BY <1>1, <2>1 DEF Rows
  <2> QED
    BY <1>1, <2>1, <2>2, AttendedBefore DEF Steady
<1>5. ASSUME NEW e \in executions,
             RunLocally(e) \/ Deliver(e) \/ Hear(e) \/ TimeOut(e) \/ GiveUp(e)
      PROVE  Steady(i)
  BY <1>1, <1>5, SameClaims, AttendedBefore DEF Steady
<1>6. ASSUME NEW e \in executions, WorkerDies(e) PROVE Steady(i)
  BY <1>1, <1>6, AttendedBefore DEF WorkerDies, Steady
<1>7. ASSUME NEW e \in executions, Settle(e)
      PROVE  Steady(i) \/ (e.job = i /\ Retries(e))
  <2>1. executions' = executions \ {e}
    BY <1>7, SettleWrites
  <2>2. CASE row' = row
    BY <1>1, <2>1, <2>2, AttendedBefore DEF Steady
  <2>3. ASSUME NEW r \in Rows, row' = [row EXCEPT ![e.job] = r], Settlement(e, r)
        PROVE  Steady(i) \/ (e.job = i /\ Retries(e))
    <3>1. CASE e.job # i \/ r.waited = row[i].waited
      <4>1. row'[i].attempts = row[i].attempts /\ row'[i].waited = row[i].waited
        BY <1>1, <2>3, <3>1 DEF Settlement
      <4> QED
        BY <1>1, <2>1, <4>1, AttendedBefore DEF Steady
    <3>2. CASE e.job = i /\ r.waited # row[i].waited
      <4>1. row'[i] = r /\ r.attempts = row[i].attempts
        BY <1>1, <2>3, <3>2 DEF Settlement
      <4>2. ~Attended(i)'
        <5> SUFFICES ASSUME NEW f \in executions', f.job = i, row'[i].attempts = f.attempt
                     PROVE  FALSE
          BY DEF Attended, OwnsLease
        <5>1. f \in executions /\ f # e /\ f.attempt = e.attempt
          BY <2>1, <2>3, <3>2, <4>1 DEF Settlement, OwnsLease
        <5> QED
          BY <3>2, <5>1 DEF WorkInv, Works, ExecutionInv
      <4> QED
        BY <2>3, <3>2, <4>1, <4>2 DEF Settlement, Retries
    <3> QED
      BY <3>1, <3>2
  <2> QED
    BY <1>7, <2>2, <2>3, SettleWrites
<1>8. ASSUME NEW r \in Requests, Serve(r) \/ Enqueue(r) \/ Interrupt(r)
      PROVE  UNCHANGED <<row, executions>>
  BY <1>8 DEF Serve, Enqueue, Interrupt, jobVars
<1>9. ReceiverForgets \/ UNCHANGED vars => UNCHANGED <<row, executions>>
  BY DEF ReceiverForgets, vars, jobVars
<1> QED
  BY <1>2, <1>3, <1>4, <1>5, <1>6, <1>7, <1>8, <1>9 DEF Next, Handle, Pass

\* A retry waits longer than the job has waited for any earlier attempt.
LEMMA RetryWaitsLonger ==
  ASSUME WorkInv, WaitInv, NEW e \in executions, Retries(e)
  PROVE  row'[e.job].waited > row[e.job].waited \/ row[e.job].waited >= Longest
<1>1. e.job \in Requests /\ e.attempt \in Nat /\ e.attempt = row[e.job].attempts
  BY DEF WorkInv, Shape, Runs, Rows, Retries, OwnsLease
<1>2. PICK m \in 0 .. row[e.job].attempts : WaitOf(e.job, m)
  BY <1>1 DEF WaitInv
<1>3. m \in Nat /\ m < e.attempt
  BY <1>1, <1>2 DEF WaitOf, Attended, Retries
<1>4. row'[e.job].waited \in Delays(e.attempt)
  BY DEF Retries
<1>5. CASE m = 0
  <2>1. row'[e.job].waited \in 1 .. 2 * Longest /\ row[e.job].waited = 0
    BY <1>1, <1>2, <1>4, <1>5, DelaysGrow DEF WaitOf
  <2> QED
    BY <2>1, BackoffAssumption
<1>6. CASE m # 0
  <2>1. row[e.job].waited \in Delays(m)
    BY <1>2, <1>6 DEF WaitOf
  <2> QED
    BY <1>1, <1>3, <1>4, <2>1, DelaysGrow
<1> QED
  BY <1>5, <1>6

\* No job has waited.
LEMMA WaitStarts == Init => WaitInv
<1> SUFFICES ASSUME Init, NEW i \in Requests PROVE WaitOf(i, 0) /\ 0 \in 0 .. row[i].attempts
  BY DEF WaitInv
<1> QED
  BY DEF Init, WaitOf, Attended

\* A retry shows the delay of its own attempt, and another step leaves it.
LEMMA WaitStep == WorkInv /\ WorkInv' /\ WaitInv /\ [Next]_vars => WaitInv'
<1> SUFFICES ASSUME WorkInv, WorkInv', WaitInv, [Next]_vars, NEW i \in Requests
             PROVE  \E m \in 0 .. row'[i].attempts : WaitOf(i, m)'
  BY DEF WaitInv
<1>1. row[i].attempts \in Nat /\ row'[i].attempts \in Nat
  BY DEF WorkInv, Shape, Rows
<1>2. CASE Steady(i)
  <2>1. PICK m \in 0 .. row[i].attempts : WaitOf(i, m)
    BY DEF WaitInv
  <2>2. m \in 0 .. row'[i].attempts /\ WaitOf(i, m)'
    BY <1>1, <1>2, <2>1 DEF Steady, WaitOf
  <2> QED
    BY <2>2
<1>3. ASSUME NEW e \in executions, e.job = i, Retries(e)
      PROVE  \E m \in 0 .. row'[i].attempts : WaitOf(i, m)'
  <2>1. e.attempt \in Nat \ {0} /\ e.attempt = row'[i].attempts
    BY <1>3 DEF WorkInv, Shape, Runs, Retries, OwnsLease
  <2>2. WaitOf(i, e.attempt)'
    BY <1>3, <2>1 DEF WaitOf, Retries
  <2> QED
    BY <1>1, <2>1, <2>2
<1> QED
  BY <1>2, <1>3, WaitsSeen

\* Every retry of a job waits longer than the retry before it, up to the longest delay
\* there is, although the jitter is drawn anew each time (retry.ts:26-30).
THEOREM BackoffGrows == Spec => BacksOff
<1>1. ASSUME WorkInv, WaitInv, [Next]_vars
      PROVE  [\A i \in Requests : row'[i].waited # row[i].waited =>
                row'[i].waited > row[i].waited \/ row[i].waited >= Longest]_vars
  <2>1. ASSUME NEW i \in Requests, row'[i].waited # row[i].waited
        PROVE  row'[i].waited > row[i].waited \/ row[i].waited >= Longest
    BY <1>1, <2>1, WaitsSeen, RetryWaitsLonger DEF Steady
  <2> QED
    BY <2>1
<1>2. WorkInv /\ WorkInv' /\ WaitInv /\ [Next]_vars => WaitInv'
  BY WaitStep
<1> QED
  BY WorkAlways, WaitStarts, <1>1, <1>2, PTL DEF Spec, BacksOff

----------------------------------------------------------------------------
(***************************************************************************)
(* Copies of an id, and attempts.  A copy is on the pending list, parked   *)
(* between a row and its ZADD, delayed, or due: still to be pushed by its  *)
(* request or by the orphan sweep.  A claim uses up one and puts the job   *)
(* at work, and what ends the work leaves one again if an attempt is left. *)
(***************************************************************************)
Due(i) ==
  \/ i \notin recorded
  \/ handled[i] = "inserted"
  \/ row[i].status = "queued" /\ queue[i] = 0

Copies(i) ==
  queue[i] + parked[i] + (IF i \in delayed THEN 1 ELSE 0) + (IF Due(i) THEN 1 ELSE 0)

AtWork(i) == IF Attended(i) \/ row[i].status = "running" THEN 1 ELSE 0

Used == Faults - left.faults

\* A job has one copy or is at work, and what it has more it owes to a fault; beyond
\* max_attempts every claim uses up a copy for good.
CopiesInv ==
  \A i \in Requests :
    /\ row[i].attempts < MaxAttempts => Copies(i) + AtWork(i) <= 1 + Used
    /\ row[i].attempts >= MaxAttempts => row[i].attempts + Copies(i) <= MaxAttempts + Used

\* The attempt going on may still be a good one.
Hopeful(e) == OwnsLease(e) /\ e.at \in {"starting", "ok", "returned"}

Hope(i) == \E e \in executions : e.job = i /\ Hopeful(e)

\* What a step does to the copies of a job: none is made, or one by a fault, or the work
\* leaves one, or one is claimed.
Kept(i) ==
  /\ row'[i].attempts = row[i].attempts
  /\ Copies(i)' <= Copies(i) /\ AtWork(i)' <= AtWork(i)

Doubled(i) ==
  /\ row'[i].attempts = row[i].attempts
  /\ Copies(i)' <= Copies(i) + 1 /\ AtWork(i)' <= AtWork(i)
  /\ Used' = Used + 1
  /\ Hope(i) => Hope(i)'

HandedOn(i) ==
  /\ row'[i].attempts = row[i].attempts
  /\ row[i].attempts < MaxAttempts
  /\ Copies(i)' <= Copies(i) + 1 /\ AtWork(i) = 1 /\ AtWork(i)' = 0
  /\ ~Hope(i)

Claimed(i) ==
  /\ row'[i].attempts = row[i].attempts + 1
  /\ Copies(i)' + 1 <= Copies(i)
  /\ row'[i].status = "running"
  /\ Hope(i)'

\* All these are numbers, and what faults there were stay.
LEMMA CountsAreNumbers ==
  ASSUME WorkInv, NEW i \in Requests
  PROVE  /\ queue[i] \in Nat /\ parked[i] \in Nat /\ row[i].attempts \in Nat
         /\ Copies(i) \in Nat /\ AtWork(i) \in {0, 1} /\ Used \in Nat
         /\ Hope(i) => AtWork(i) = 1
<1>1. /\ queue[i] \in Nat /\ parked[i] \in Nat /\ row[i].attempts \in Nat
      /\ left.faults \in 0 .. Faults
  BY DEF WorkInv, Shape, Rows
<1>2. Hope(i) => Attended(i)
  BY DEF Hope, Hopeful, Attended
<1> QED
  BY <1>1, <1>2, DeliveryAssumption DEF Copies, AtWork, Used

LEMMA UsedStays ==
  ASSUME WorkInv, [Next]_vars
  PROVE  /\ UNCHANGED left \/ Fault \/ ReceiverForgets
         /\ Fault => Used' = Used + 1
         /\ Used' \in {Used, Used + 1}
<1>1. UNCHANGED left \/ Fault \/ ReceiverForgets
  BY DEF Next, Serve, Enqueue, Interrupt, Take, Schedule, Reap, Promote, Sweep, ParkingDies,
         PromotionBreaksOff, Handle, RunLocally, Deliver, Hear, TimeOut, Settle, GiveUp,
         WorkerDies, vars
<1>2. left \in [faults : 0 .. Faults, forgets : 0 .. Forgets]
  BY DEF WorkInv, Shape
<1>3. Fault => Used' = Used + 1
  BY <1>2, DeliveryAssumption DEF Fault, Used
<1>4. ReceiverForgets => Used' = Used
  BY <1>2 DEF ReceiverForgets, Used
<1>5. UNCHANGED left => Used' = Used
  BY DEF Used
<1> QED
  BY <1>1, <1>3, <1>4, <1>5

\* Fewer places with a copy are fewer copies.
LEMMA FewerPlaces ==
  ASSUME WorkInv, WorkInv', NEW i \in Requests,
         row'[i].attempts = row[i].attempts,
         queue'[i] <= queue[i], parked'[i] <= parked[i],
         i \in delayed' => i \in delayed, Due(i)' => Due(i),
         Attended(i)' => Attended(i),
         row'[i].status = "running" => row[i].status = "running"
  PROVE  Kept(i)
<1>1. queue[i] \in Nat /\ parked[i] \in Nat /\ queue'[i] \in Nat /\ parked'[i] \in Nat
  BY DEF WorkInv, Shape
<1>2. Copies(i)' <= Copies(i)
  BY <1>1 DEF Copies
<1>3. AtWork(i)' <= AtWork(i)
  BY DEF AtWork
<1> QED
  BY <1>2, <1>3 DEF Kept

\* A step that does not look at the job.
LEMMA BystanderKept ==
  ASSUME WorkInv, WorkInv', NEW i \in Requests,
         row'[i] = row[i], queue'[i] = queue[i], parked'[i] = parked[i],
         i \in delayed' <=> i \in delayed, i \in recorded => i \in recorded',
         handled'[i] = "inserted" => handled[i] = "inserted" \/ i \notin recorded,
         Attended(i)' => Attended(i)
  PROVE  Kept(i)
<1>1. queue[i] \in Nat /\ parked[i] \in Nat
  BY CountsAreNumbers
<1>2. Due(i)' => Due(i)
  BY DEF Due
<1> QED
  BY <1>1, <1>2, FewerPlaces

\* The API: the INSERT makes due what was not recorded, and the LPUSH puts what was due on
\* the list.
LEMMA RequestCopies ==
  ASSUME SubmissionInv, WorkInv, WorkInv', NEW i \in Requests, NEW r \in Requests,
         Serve(r) \/ Enqueue(r) \/ Interrupt(r)
  PROVE  Kept(i)
<1>1. /\ row' = row /\ executions' = executions /\ parked' = parked /\ delayed' = delayed
      /\ recorded \subseteq recorded'
  BY DEF Serve, Enqueue, Interrupt, jobVars, retryVars,
         Ask, Refuse, Insert, FindOriginal, Answer, Push, Disconnect, ApiDies
<1>2. Attended(i)' => Attended(i)
  BY <1>1 DEF Attended, OwnsLease
<1>3. CASE Serve(r) \/ Interrupt(r)
  <2>1. queue' = queue
    BY <1>3 DEF Serve, Interrupt, jobVars
  <2>2. handled'[i] = "inserted" => handled[i] = "inserted" \/ i \notin recorded
    <3>1. handled \in [Requests -> Handled]
      BY DEF WorkInv, Shape
    <3>2. handled[i] = "received" => i \notin recorded
      BY DEF SubmissionInv, OwnIdUntilFound
    <3> QED
      BY <1>3, <3>1, <3>2
      DEF Serve, Interrupt, Ask, Refuse, Insert, FindOriginal, Answer, Disconnect, ApiDies
  <2> QED
    BY <1>1, <1>2, <2>1, <2>2, BystanderKept
<1>4. CASE Enqueue(r)
  <2>1. /\ queue' = [queue EXCEPT ![r] = @ + 1] /\ handled[r] = "inserted"
        /\ handled' = [handled EXCEPT ![r] = "pushed"]
        /\ recorded' = recorded
    BY <1>4 DEF Enqueue, Push, Queued
  <2>2. queue \in [Requests -> Nat] /\ parked[i] \in Nat /\ handled \in [Requests -> Handled]
    BY DEF WorkInv, Shape
  <2>3. CASE i = r
    <3>1. Due(i)
      BY <2>1, <2>3 DEF Due
    <3>2. i \in recorded
      BY <2>1, <2>3 DEF SubmissionInv, OwnIdUntilFound, AnswersKnown, NamesRecorded
    <3>3. ~Due(i)'
      BY <2>1, <2>2, <2>3, <3>2 DEF Due
    <3>4. Copies(i)' <= Copies(i)
      BY <1>1, <2>1, <2>2, <2>3, <3>1, <3>3 DEF Copies
    <3>5. AtWork(i)' <= AtWork(i)
      BY <1>1, <1>2 DEF AtWork
    <3> QED
      BY <1>1, <3>4, <3>5 DEF Kept
  <2>4. CASE i # r
    <3>1. queue'[i] = queue[i] /\ handled'[i] = handled[i]
      BY <2>1, <2>2, <2>4
    <3> QED
      BY <1>1, <1>2, <2>1, <3>1, BystanderKept
  <2> QED
    BY <2>3, <2>4
<1> QED
  BY <1>3, <1>4

\* A worker claims a copy, or drops it.
LEMMA TakeCopies ==
  ASSUME WorkInv, WorkInv', NEW i \in Requests, NEW k \in Requests, Take(k)
  PROVE  Kept(i) \/ (Claimed(i) /\ k = i /\ UNCHANGED left)
<1>1. /\ queue \in [Requests -> Nat] /\ parked[i] \in Nat /\ row \in [Requests -> Rows]
      /\ queue' = [queue EXCEPT ![k] = @ - 1] /\ queue[k] > 0
      /\ UNCHANGED <<handled, recorded, parked, delayed, left>>
  BY DEF WorkInv, Shape, Take, submissionVars, retryVars
<1>2. CASE row[k].status \in {"queued", "retrying"}
  <2> DEFINE e == [job |-> k, attempt |-> row[k].attempts + 1, at |-> "starting"]
  <2>1. /\ row' = [row EXCEPT ![k].status = "running", ![k].attempts = @ + 1]
        /\ executions' = executions \cup {e}
    BY <1>2 DEF Take
  <2>2. CASE k = i
    <3>1. row'[i].status = "running" /\ row'[i].attempts = row[i].attempts + 1
      <4>1. row' = [row EXCEPT ![i].status = "running", ![i].attempts = @ + 1]
        BY <2>1, <2>2
      <4> QED
        BY <1>1, <4>1 DEF Rows
    <3>2. Due(i)' => Due(i)
      BY <1>1, <3>1 DEF Due
    <3>3. Copies(i)' + 1 <= Copies(i)
      BY <1>1, <2>2, <3>2 DEF Copies
    <3>4. /\ e \in executions' /\ e.job = i /\ e.at = "starting"
          /\ row'[e.job].attempts = e.attempt
      BY <2>1, <2>2, <3>1
    <3>5. Hope(i)'
      <4> HIDE DEF e
      <4> QED
        BY <3>4 DEF Hope, Hopeful, OwnsLease
    <3> QED
      BY <1>1, <2>2, <3>1, <3>3, <3>5 DEF Claimed
  <2>3. CASE k # i
    <3>1. row'[i] = row[i] /\ queue'[i] = queue[i]
      BY <1>1, <2>1, <2>3
    <3>2. Attended(i)' => Attended(i)
      BY <2>1, <2>3, <3>1 DEF Attended, OwnsLease
    <3> QED
      BY <1>1, <3>1, <3>2, BystanderKept
  <2> QED
    BY <2>2, <2>3
<1>3. CASE row[k].status \notin {"queued", "retrying"}
  <2>1. row' = row /\ executions' = executions
    BY <1>3 DEF Take
  <2>2. queue'[i] <= queue[i] /\ queue'[i] \in Nat /\ (k # i => queue'[i] = queue[i])
    BY <1>1
  <2>3. Due(i)' => Due(i)
    BY <1>1, <1>3, <2>1, <2>2 DEF Due
  <2>4. Attended(i)' => Attended(i)
    BY <2>1 DEF Attended, OwnsLease
  <2> QED
    BY <1>1, <2>1, <2>2, <2>3, <2>4, FewerPlaces
<1> QED
  BY <1>2, <1>3

\* The passes move copies, which only the reaper does for a job somebody is at work on,
\* and the orphan sweep for one that its request will push: these are faults.
LEMMA PassCopies ==
  ASSUME WorkInv, WorkInv', NEW i \in Requests, Pass(i),
         Used' \in {Used, Used + 1}, Fault => Used' = Used + 1
  PROVE  \/ Kept(i)
         \/ Doubled(i) /\ (row'[i].status = "dead" => row[i].status = "dead")
         \/ HandedOn(i) /\ row'[i].status # "dead"
<1>1. /\ queue \in [Requests -> Nat] /\ parked \in [Requests -> Nat] /\ row \in [Requests -> Rows]
      /\ executions' = executions /\ UNCHANGED <<handled, recorded>> /\ i \in recorded
      /\ row[i].attempts \in Nat
  BY PassShape DEF WorkInv, Shape, Rows
<1>2. row'[i].attempts = row[i].attempts
  BY <1>1, PassRow DEF Rows
<1>3. (Attended(i)' <=> Attended(i)) /\ (Hope(i) => Hope(i)')
  BY <1>1, <1>2 DEF Attended, Hope, Hopeful, OwnsLease
<1>4. CASE Schedule(i)
  <2>1. /\ queue' = queue /\ row' = row /\ parked'[i] = parked[i] - 1 /\ parked[i] > 0
        /\ parked[i] \in Nat /\ queue[i] \in Nat /\ i \in delayed'
    BY <1>1, <1>4 DEF Schedule
  <2>2. Due(i)' <=> Due(i)
    BY <1>1, <2>1 DEF Due
  <2>3. Copies(i)' <= Copies(i)
    BY <2>1, <2>2 DEF Copies
  <2>4. AtWork(i)' <= AtWork(i)
    BY <1>3, <2>1 DEF AtWork
  <2> QED
    BY <1>2, <2>3, <2>4 DEF Kept
<1>5. CASE ParkingDies(i)
  <2>1. /\ queue' = queue /\ row' = row /\ delayed' = delayed
        /\ parked'[i] <= parked[i] /\ queue[i] \in Nat
    BY <1>1, <1>5 DEF ParkingDies
  <2>2. Due(i)' <=> Due(i)
    BY <1>1, <2>1 DEF Due
  <2> QED
    BY <1>2, <1>3, <2>1, <2>2, FewerPlaces
<1>6. CASE Promote(i)
  <2>1. /\ i \in delayed /\ i \notin delayed' /\ queue'[i] = queue[i] + 1
        /\ parked' = parked /\ row'[i].status = "queued"
        /\ queue[i] \in Nat /\ parked[i] \in Nat
    BY <1>1, <1>6 DEF Promote, Queued, Rows
  <2>2. Due(i)' => Due(i)
    BY <1>1, <2>1 DEF Due
  <2>3. Copies(i)' <= Copies(i)
    BY <2>1, <2>2 DEF Copies
  <2>4. AtWork(i)' <= AtWork(i)
    BY <1>3, <2>1 DEF AtWork
  <2> QED
    BY <1>2, <2>3, <2>4 DEF Kept
<1>7. CASE PromotionBreaksOff(i)
  <2>1. /\ i \in delayed /\ i \notin delayed' /\ queue' = queue /\ parked' = parked
        /\ row'[i].status \in {"queued", row[i].status}
        /\ queue[i] \in Nat /\ parked[i] \in Nat
    BY <1>1, <1>7 DEF PromotionBreaksOff, Rows
  <2>2. Copies(i)' <= Copies(i)
    BY <2>1 DEF Copies
  <2>3. AtWork(i)' <= AtWork(i)
    BY <1>3, <2>1 DEF AtWork
  <2> QED
    BY <1>2, <2>2, <2>3 DEF Kept
<1>8. CASE Sweep(i)
  <2>1. /\ row[i].status = "queued" /\ queue[i] = 0 /\ queue'[i] = 1
        /\ row' = row /\ parked' = parked /\ delayed' = delayed /\ parked[i] \in Nat
        /\ Due(i)
    BY <1>1, <1>8 DEF Sweep, Lost, Queued, retryVars, Due
  <2>2. AtWork(i)' <= AtWork(i)
    BY <1>3, <2>1 DEF AtWork
  <2>3. CASE handled[i] = "inserted"
    <3>1. Used' = Used + 1
      BY <1>8, <2>3 DEF Sweep
    <3>2. Copies(i)' <= Copies(i) + 1
      BY <2>1 DEF Copies
    <3> QED
      BY <1>2, <1>3, <2>1, <2>2, <3>1, <3>2 DEF Doubled
  <2>4. CASE handled[i] # "inserted"
    <3>1. ~Due(i)'
      BY <1>1, <2>1, <2>4 DEF Due
    <3>2. Copies(i)' <= Copies(i)
      BY <2>1, <3>1 DEF Copies
    <3> QED
      BY <1>2, <2>2, <3>2 DEF Kept
  <2> QED
    BY <2>3, <2>4
<1>9. CASE Reap(i)
  <2>1. row[i].status = "running" /\ UNCHANGED <<parked, delayed>> /\ AtWork(i) = 1
    BY <1>9 DEF Reap, AtWork, retryVars
  <2>2. AtWork(i)' <= AtWork(i)
    BY <2>1 DEF AtWork
  <2>3. CASE row[i].attempts >= MaxAttempts
    <3>1. row'[i].status = "dead" /\ queue' = queue /\ queue[i] \in Nat /\ parked[i] \in Nat
      BY <1>1, <1>9, <2>3 DEF Reap, Rows
    <3>2. Due(i)' => Due(i)
      BY <1>1, <3>1 DEF Due
    <3> QED
      BY <1>2, <1>3, <2>1, <3>1, <3>2, FewerPlaces
  <2>4. CASE ~(row[i].attempts >= MaxAttempts)
    <3>1. row'[i].status = "queued" /\ queue'[i] = queue[i] + 1 /\ queue[i] \in Nat
          /\ parked[i] \in Nat
      BY <1>1, <1>9, <2>4 DEF Reap, Rows, Queued
    <3>2. Due(i)' => Due(i)
      BY <1>1, <3>1 DEF Due
    <3>3. Copies(i)' <= Copies(i) + 1
      BY <2>1, <3>1, <3>2 DEF Copies
    <3>4. CASE Attended(i)
      <4>1. Used' = Used + 1
        BY <1>9, <3>4 DEF Reap
      <4> QED
        BY <1>2, <1>3, <2>2, <3>1, <3>3, <4>1 DEF Doubled
    <3>5. CASE ~Attended(i)
      <4>1. AtWork(i)' = 0
        BY <1>3, <3>1, <3>5 DEF AtWork
      <4>2. ~Hope(i)
        BY <3>5 DEF Attended, Hope, Hopeful
      <4>3. row[i].attempts < MaxAttempts
        BY <1>1, <2>4, DeliveryAssumption
      <4> QED
        BY <1>2, <2>1, <3>1, <3>3, <4>1, <4>2, <4>3 DEF HandedOn
    <3> QED
      BY <3>4, <3>5
  <2> QED
    BY <2>3, <2>4
<1> QED
  BY <1>4, <1>5, <1>6, <1>7, <1>8, <1>9 DEF Pass

\* And leave the other jobs alone.
LEMMA PassElsewhere ==
  ASSUME WorkInv, WorkInv', NEW i \in Requests, NEW k \in Requests, k # i, Pass(k)
  PROVE  Kept(i)
<1>1. executions' = executions /\ UNCHANGED <<handled, recorded>>
  BY PassShape
<1>2. /\ queue \in [Requests -> Nat] /\ parked \in [Requests -> Nat] /\ row \in [Requests -> Rows]
  BY DEF WorkInv, Shape
<1>3. row'[i] = row[i]
  BY <1>2, PassRow
<1>4. queue'[i] = queue[i] /\ parked'[i] = parked[i] /\ (i \in delayed' <=> i \in delayed)
  BY <1>2
  DEF Pass, Schedule, Reap, Promote, Sweep, ParkingDies, PromotionBreaksOff, Queued, retryVars
<1>5. Attended(i)' => Attended(i)
  BY <1>1, <1>3 DEF Attended, OwnsLease
<1> QED
  BY <1>1, <1>3, <1>4, <1>5, BystanderKept

\* An execution that goes on moves no copy, and neither does one that ends without its
\* lease or with its job finished; one that retries leaves a copy for its work.
LEMMA ExecutionCopies ==
  ASSUME WorkInv, WorkInv', NEW i \in Requests, NEW e \in executions,
         Handle(e) \/ GiveUp(e) \/ WorkerDies(e)
  PROVE  Kept(i) \/ (HandedOn(i) /\ row'[i].status # "dead")
<1>1. /\ parked \in [Requests -> Nat] /\ row \in [Requests -> Rows] /\ e.job \in Requests
      /\ UNCHANGED <<handled, recorded, queue, delayed>>
  BY DEF WorkInv, Shape, Runs, Handle, GiveUp, WorkerDies, RunLocally, Deliver, Hear, TimeOut,
         Settle, submissionVars, retryVars
<1>2. CASE RunLocally(e) \/ Deliver(e) \/ Hear(e) \/ TimeOut(e) \/ GiveUp(e)
  <2>1. row' = row /\ parked' = parked
    BY <1>2, SameClaims DEF RunLocally, Deliver, Hear, TimeOut, GiveUp, retryVars
  <2>2. Attended(i)' => Attended(i)
    BY <1>2, <2>1, SameClaims, AttendedBefore
  <2> QED
    BY <1>1, <2>1, <2>2, BystanderKept
<1>3. CASE WorkerDies(e)
  <2>1. row' = row /\ parked' = parked /\ executions' \subseteq executions
    BY <1>3 DEF WorkerDies, retryVars
  <2>2. Attended(i)' => Attended(i)
    BY <2>1 DEF Attended, OwnsLease
  <2> QED
    BY <1>1, <2>1, <2>2, BystanderKept
<1>4. CASE Settle(e)
  <2>1. executions' \subseteq executions
    BY <1>4 DEF Settle
  <2>2. CASE ~OwnsLease(e)
    <3>1. row' = row /\ parked' = parked
      BY <1>4, <2>2 DEF Settle
    <3>2. Attended(i)' => Attended(i)
      BY <2>1, <3>1 DEF Attended, OwnsLease
    <3> QED
      BY <1>1, <3>1, <3>2, BystanderKept
  <2>3. CASE OwnsLease(e) /\ e.job # i
    <3>1. row'[i] = row[i] /\ parked'[i] = parked[i]
      BY <1>1, <1>4, <2>3 DEF Settle
    <3>2. Attended(i)' => Attended(i)
      BY <2>1, <3>1 DEF Attended, OwnsLease
    <3> QED
      BY <1>1, <3>1, <3>2, BystanderKept
  <2>4. CASE OwnsLease(e) /\ e.job = i /\ (e.at = "returned" \/ Exhausted(e))
    <3>1. \E st \in {"succeeded", "dead"} : row' = [row EXCEPT ![i].status = st]
      BY <1>4, <2>4 DEF Settle
    <3>2. row'[i].status \in {"succeeded", "dead"} /\ row'[i].attempts = row[i].attempts
      BY <1>1, <3>1 DEF Rows
    <3>3. parked' = parked
      BY <1>4, <2>4 DEF Settle
    <3>4. Due(i)' => Due(i)
      BY <1>1, <3>2 DEF Due
    <3>5. Attended(i)' => Attended(i)
      BY <2>1, <3>2 DEF Attended, OwnsLease
    <3>6. queue[i] \in Nat /\ parked[i] \in Nat
      BY CountsAreNumbers
    <3> QED
      BY <1>1, <3>2, <3>3, <3>4, <3>5, <3>6, FewerPlaces
  <2>5. CASE OwnsLease(e) /\ e.job = i /\ ~(e.at = "returned" \/ Exhausted(e))
    <3>1. /\ e.at = "threw" /\ parked' = [parked EXCEPT ![i] = @ + 1]
          /\ \E d : row' = [row EXCEPT ![i].status = "retrying", ![i].waited = d]
      BY <1>4, <2>5 DEF Settle
    <3>2. /\ row'[i].status = "retrying" /\ row'[i].attempts = row[i].attempts
          /\ parked'[i] = parked[i] + 1 /\ parked[i] \in Nat /\ queue[i] \in Nat
      BY <1>1, <3>1, CountsAreNumbers DEF Rows
    <3>3. Due(i)' => Due(i)
      BY <1>1, <3>2 DEF Due
    <3>4. Copies(i)' <= Copies(i) + 1
      BY <1>1, <3>2, <3>3 DEF Copies
    <3>5. AtWork(i) = 1
      BY <2>5 DEF AtWork, Attended
    <3>6. AtWork(i)' = 0
      BY <3>2 DEF AtWork, WorkInv, Works, JobInv
    <3>7. row[i].attempts < MaxAttempts
      BY <1>1, <2>5, DeliveryAssumption DEF OwnsLease, Exhausted, Rows
    <3>8. ~Hope(i)
      BY <2>5, <3>1 DEF Hope, Hopeful, OwnsLease, WorkInv, Works, ExecutionInv
    <3> QED
      BY <3>2, <3>4, <3>5, <3>6, <3>7, <3>8 DEF HandedOn
  <2> QED
    BY <2>2, <2>3, <2>4, <2>5
<1> QED
  BY <1>2, <1>3, <1>4 DEF Handle

\* Every step is one of the four for every job.
LEMMA CopiesSeen ==
  ASSUME SubmissionInv, WorkInv, WorkInv', [Next]_vars, NEW i \in Requests
  PROVE  \/ Kept(i)
         \/ Doubled(i) /\ (row'[i].status = "dead" => row[i].status = "dead")
         \/ HandedOn(i) /\ row'[i].status # "dead"
         \/ Claimed(i)
<1>1. Used' \in {Used, Used + 1} /\ (Fault => Used' = Used + 1)
  BY UsedStays
<1>2. CASE ReceiverForgets \/ UNCHANGED vars
  <2>1. UNCHANGED <<handled, recorded, row, queue, parked, delayed, executions>>
    BY <1>2 DEF ReceiverForgets, vars, submissionVars, jobVars, retryVars
  <2>2. Attended(i)' => Attended(i)
    BY <2>1 DEF Attended, OwnsLease
  <2> QED
    BY <2>1, <2>2, BystanderKept
<1>3. ASSUME NEW k \in Requests, Pass(k)
      PROVE  \/ Kept(i)
             \/ Doubled(i) /\ (row'[i].status = "dead" => row[i].status = "dead")
             \/ HandedOn(i) /\ row'[i].status # "dead"
  BY <1>1, <1>3, PassCopies, PassElsewhere
<1> QED
  BY <1>2, <1>3, RequestCopies, TakeCopies, ExecutionCopies DEF Next, Pass

\* The request that is to come is the one copy.
LEMMA CopiesStart == Init => CopiesInv
<1> SUFFICES ASSUME Init, NEW i \in Requests
             PROVE  row[i].attempts < MaxAttempts /\ Copies(i) + AtWork(i) <= 1 + Used
  BY DeliveryAssumption DEF CopiesInv, Init
<1>1. row[i].attempts = 0 /\ queue[i] = 0 /\ parked[i] = 0 /\ i \notin delayed
      /\ ~Attended(i) /\ row[i].status = "queued" /\ left.faults = Faults
  BY DEF Init, Attended
<1>2. Copies(i) <= 1 /\ Copies(i) \in Nat /\ AtWork(i) = 0
  BY <1>1 DEF Copies, AtWork
<1> QED
  BY <1>1, <1>2, DeliveryAssumption DEF Used

\* No step breaks it.
LEMMA CopiesStep ==
  SubmissionInv /\ WorkInv /\ WorkInv' /\ CopiesInv /\ [Next]_vars => CopiesInv'
<1> SUFFICES ASSUME SubmissionInv, WorkInv, WorkInv', CopiesInv, [Next]_vars, NEW i \in Requests
             PROVE  /\ row'[i].attempts < MaxAttempts => Copies(i)' + AtWork(i)' <= 1 + Used'
                    /\ row'[i].attempts >= MaxAttempts =>
                         row'[i].attempts + Copies(i)' <= MaxAttempts + Used'
  BY DEF CopiesInv
<1>1. /\ row[i].attempts \in Nat /\ Copies(i) \in Nat /\ AtWork(i) \in {0, 1} /\ Used \in Nat
      /\ Used' \in {Used, Used + 1}
  BY CountsAreNumbers, UsedStays
<1>2. row'[i].attempts \in Nat /\ Copies(i)' \in Nat /\ AtWork(i)' \in {0, 1}
  <2>1. queue'[i] \in Nat /\ parked'[i] \in Nat /\ row'[i].attempts \in Nat
    BY DEF WorkInv, Shape, Rows
  <2> QED
    BY <2>1 DEF Copies, AtWork
<1>3. /\ row[i].attempts < MaxAttempts => Copies(i) + AtWork(i) <= 1 + Used
      /\ row[i].attempts >= MaxAttempts => row[i].attempts + Copies(i) <= MaxAttempts + Used
  BY DEF CopiesInv
<1>4. MaxAttempts \in Nat \ {0}
  BY DeliveryAssumption
<1>5. CASE Kept(i)
  BY <1>1, <1>2, <1>3, <1>4, <1>5 DEF Kept
<1>6. CASE Doubled(i)
  BY <1>1, <1>2, <1>3, <1>4, <1>6 DEF Doubled
<1>7. CASE HandedOn(i)
  BY <1>1, <1>2, <1>3, <1>4, <1>7 DEF HandedOn
<1>8. CASE Claimed(i)
  BY <1>1, <1>2, <1>3, <1>4, <1>8 DEF Claimed
<1> QED
  BY <1>5, <1>6, <1>7, <1>8, CopiesSeen

\* It holds in every state.
LEMMA CopiesAlways == Spec => [](SubmissionInv /\ WorkInv /\ CopiesInv)
<1>1. /\ SubmissionInv /\ WorkInv /\ (SubmissionInv /\ WorkInv)' /\ CopiesInv /\ [Next]_vars
           => CopiesInv'
  BY CopiesStep
<1> QED
  BY WorkAlways, CopiesStart, <1>1, PTL DEF Spec

\* The state stays within its types: no job is attempted more often than max_attempts and
\* the faults allow, by whatever copies of its id a heartbeat taken for lost or a slow
\* request leaves, and only recorded ids are anywhere (worker/index.ts:79-91, 161-182).
THEOREM DeliveryTypes == Spec => []TypeOK
<1>1. WorkInv /\ CopiesInv => TypeOK
  <2> SUFFICES ASSUME WorkInv, CopiesInv PROVE TypeOK
    OBVIOUS
  <2>1. left.faults \in 0 .. Faults
    BY DEF WorkInv, Shape
  <2>2. ASSUME NEW i \in Requests
        PROVE  row[i].attempts <= MaxAttempts + (Faults - left.faults)
    <3>1. row[i].attempts \in Nat /\ Copies(i) \in Nat /\ Used \in Nat
      BY CountsAreNumbers
    <3>2. row[i].attempts >= MaxAttempts => row[i].attempts + Copies(i) <= MaxAttempts + Used
      BY DEF CopiesInv
    <3>3. Used = Faults - left.faults
      BY DEF Used
    <3> QED
      BY <3>1, <3>2, <3>3, DeliveryAssumption
  <2>3. executions \subseteq Executions
    <3> SUFFICES ASSUME NEW e \in executions PROVE e \in Executions
      OBVIOUS
    <3>1. e \in Runs /\ e.job \in Requests /\ e.attempt <= row[e.job].attempts
          /\ row[e.job].attempts \in Nat
      BY DEF WorkInv, Works, Shape, ExecutionInv, Runs, Rows
    <3>2. row[e.job].attempts <= MaxAttempts + (Faults - left.faults)
      BY <2>2, <3>1
    <3>3. e.attempt \in 1 .. MaxAttempts + Faults
      BY <2>1, <3>1, <3>2, DeliveryAssumption DEF Runs
    <3> QED
      BY <3>1, <3>3 DEF Runs, Executions
  <2> QED
    BY <2>2, <2>3 DEF WorkInv, Shape, Rows, TypeOK
<1> QED
  BY CopiesAlways, <1>1, PTL

----------------------------------------------------------------------------
(***************************************************************************)
(* Attempts on a flaky receiver.  What spoils an attempt is a delivery     *)
(* answered with an error, of which every memory of the receiver has       *)
(* Failures, or a fault; the attempt going on may still be the good one,   *)
(* and what a job has more than one copy of may be another.                *)
(***************************************************************************)
Least(a, b) == IF a < b THEN a ELSE b

Spoiled(i) ==
  Failures * (Forgets - left.forgets) + Least(deliveries[i], Failures) + (Faults - left.faults)

Accounted(i) ==
  /\ row[i].attempts + Copies(i) + AtWork(i) <= 1 + Spoiled(i) + (IF Hope(i) THEN 1 ELSE 0)
  /\ row[i].status = "dead" => row[i].attempts + Copies(i) <= Spoiled(i)

AttemptsInv == \A i \in Requests : asked[i].kind = "flaky" => Accounted(i)

\* What spoiled an attempt is never forgotten: a fault counts one more, a delivery to a
\* receiver that is not yet well counts one more, and a memory lost counts as Failures.
LEMMA SpoiledGrows ==
  ASSUME WorkInv, WorkInv', NEW i \in Requests,
         \/ /\ left'.forgets = left.forgets /\ left'.faults <= left.faults
            /\ deliveries'[i] >= deliveries[i]
         \/ /\ left'.forgets = left.forgets - 1 /\ left'.faults = left.faults
            /\ deliveries'[i] = 0
  PROVE  /\ Spoiled(i) \in Nat /\ Spoiled(i)' \in Nat /\ Spoiled(i)' >= Spoiled(i)
         /\ left'.forgets = left.forgets /\ left'.faults < left.faults =>
              Spoiled(i)' >= Spoiled(i) + 1
         /\ left'.forgets = left.forgets /\ deliveries'[i] = deliveries[i] + 1
              /\ deliveries'[i] <= Failures => Spoiled(i)' >= Spoiled(i) + 1
<1>1. /\ deliveries[i] \in Nat /\ deliveries'[i] \in Nat
      /\ left.forgets \in 0 .. Forgets /\ left'.forgets \in 0 .. Forgets
      /\ left.faults \in 0 .. Faults /\ left'.faults \in 0 .. Faults
  BY DEF WorkInv, Shape
<1> DEFINE lost  == Forgets - left.forgets
           lost2 == Forgets - left'.forgets
<1>2. lost \in Nat /\ lost2 \in Nat /\ (left'.forgets = left.forgets - 1 => lost2 = lost + 1)
      /\ (left'.forgets = left.forgets => lost2 = lost)
  BY <1>1, DeliveryAssumption
<1>3. Failures * lost \in Nat /\ Failures * lost2 \in Nat
      /\ (lost2 = lost + 1 => Failures * lost2 = Failures * lost + Failures)
  <2>1. \A x, y \in Nat : x * y \in Nat /\ x * (y + 1) = x * y + x
    OBVIOUS
  <2> HIDE DEF lost, lost2
  <2> QED
    BY <1>2, <2>1, DeliveryAssumption
<1>4. /\ Spoiled(i)  = Failures * lost + Least(deliveries[i], Failures) + (Faults - left.faults)
      /\ Spoiled(i)' = Failures * lost2 + Least(deliveries'[i], Failures) + (Faults - left'.faults)
  BY DEF Spoiled, Least
<1> HIDE DEF lost, lost2
<1> DEFINE a == Failures * lost
           b == Failures * lost2
<1>5. /\ a \in Nat /\ b \in Nat
      /\ left'.forgets = left.forgets => b = a
      /\ left'.forgets = left.forgets - 1 => b = a + Failures
      /\ Spoiled(i)  = a + Least(deliveries[i], Failures) + (Faults - left.faults)
      /\ Spoiled(i)' = b + Least(deliveries'[i], Failures) + (Faults - left'.faults)
  BY <1>2, <1>3, <1>4
<1> HIDE DEF a, b
<1> QED
  BY <1>1, <1>5, DeliveryAssumption DEF Least

\* The count of a state is a number.
LEMMA SpoiledCounts ==
  ASSUME WorkInv, NEW i \in Requests
  PROVE  Spoiled(i) \in Nat
<1>1. deliveries[i] \in Nat /\ Forgets - left.forgets \in Nat /\ Faults - left.faults \in Nat
  BY DeliveryAssumption DEF WorkInv, Shape
<1>2. \A x, y \in Nat : x * y \in Nat
  OBVIOUS
<1>3. Failures * (Forgets - left.forgets) \in Nat
  BY <1>1, <1>2, DeliveryAssumption
<1>4. Least(deliveries[i], Failures) \in Nat
  BY <1>1, DeliveryAssumption DEF Least
<1> QED
  BY <1>1, <1>3, <1>4 DEF Spoiled

\* A delivery to a flaky receiver leaves hope, or counts.
LEMMA FlakyDelivery ==
  ASSUME WorkInv, NEW e \in executions, Deliver(e), asked[e.job].kind = "flaky"
  PROVE  /\ e.at = "starting" /\ deliveries'[e.job] = deliveries[e.job] + 1
         /\ Advance(e, "ok") \/ (deliveries'[e.job] <= Failures /\ Advance(e, "error"))
<1>1. /\ e.at = "starting" /\ Advance(e, Hook!Reply("flaky", e.job))
      /\ deliveries' = [deliveries EXCEPT ![e.job] = @ + 1]
  BY DEF Deliver, Hook!Deliver, Hook!Record
<1>2. deliveries \in [Requests -> Nat] /\ e.job \in Requests
  BY DEF WorkInv, Shape, Runs
<1>3. Hook!Reply("flaky", e.job)
        = IF deliveries[e.job] + 1 <= Failures THEN "error" ELSE "ok"
  BY DEF Hook!Reply, Hook!FlakyReply
<1> QED
  BY <1>1, <1>2, <1>3

\* What spoiled an attempt stays, in every step, and a fault is one more.
LEMMA SpoiledStays ==
  ASSUME WorkInv, WorkInv', [Next]_vars, NEW i \in Requests
  PROVE  /\ Spoiled(i) \in Nat /\ Spoiled(i)' \in Nat /\ Spoiled(i)' >= Spoiled(i)
         /\ Used' = Used + 1 => Spoiled(i)' >= Spoiled(i) + 1
<1>1. /\ left.faults \in Nat /\ left.forgets \in Nat /\ left'.faults \in Nat
      /\ deliveries \in [Requests -> Nat]
  BY DEF WorkInv, Shape
<1>2. CASE ReceiverForgets
  <2>1. /\ left'.forgets = left.forgets - 1 /\ left'.faults = left.faults
        /\ deliveries'[i] = 0
    BY <1>1, <1>2 DEF ReceiverForgets, Hook!Forget, WorkInv, Shape
  <2>2. Used' # Used + 1
    BY <1>1, <2>1, DeliveryAssumption DEF Used
  <2> QED
    BY <2>1, <2>2, SpoiledGrows
<1>3. CASE ~ReceiverForgets
  <2>1. UNCHANGED left \/ Fault
    BY <1>3, UsedStays
  <2>2. /\ left'.forgets = left.forgets /\ left'.faults <= left.faults
        /\ Used' = Used + 1 => left'.faults < left.faults
    BY <1>1, <2>1, DeliveryAssumption DEF Fault, Used, WorkInv, Shape
  <2>3. deliveries' = deliveries
        \/ \E e \in executions : deliveries' = [deliveries EXCEPT ![e.job] = @ + 1]
    <3>1. ASSUME NEW e \in executions, Handle(e)
          PROVE  deliveries' = deliveries \/ deliveries' = [deliveries EXCEPT ![e.job] = @ + 1]
      BY <3>1 DEF Handle, RunLocally, Deliver, Hear, TimeOut, Settle, receiverVars,
                  Hook!Deliver, Hook!Record
    <3>2. ASSUME NEW k \in Requests, Take(k) \/ Pass(k) PROVE deliveries' = deliveries
      BY <3>2, PassShape DEF Take, receiverVars
    <3>3. ASSUME NEW r \in Requests, Serve(r) \/ Enqueue(r) \/ Interrupt(r)
          PROVE  deliveries' = deliveries
      BY <3>3 DEF Serve, Enqueue, Interrupt, receiverVars
    <3>4. ASSUME NEW e \in executions, GiveUp(e) \/ WorkerDies(e) PROVE deliveries' = deliveries
      BY <3>4 DEF GiveUp, WorkerDies, receiverVars
    <3> QED
      BY <1>3, <3>1, <3>2, <3>3, <3>4 DEF Next, Pass, vars
  <2>4. deliveries'[i] >= deliveries[i]
    BY <1>1, <2>3
  <2> QED
    BY <2>2, <2>4, SpoiledGrows
<1> QED
  BY <1>2, <1>3

\* An execution takes hope away only with a fault or an error, or by ending the work.
LEMMA ExecutionHope ==
  ASSUME WorkInv, WorkInv', [Next]_vars, NEW i \in Requests, asked[i].kind = "flaky",
         NEW e \in executions, Handle(e) \/ GiveUp(e) \/ WorkerDies(e), Hope(i)
  PROVE  Hope(i)' \/ Spoiled(i)' >= Spoiled(i) + 1 \/ AtWork(i)' < AtWork(i)
<1>1. /\ e \in Runs /\ ExecutionInv(e) /\ row \in [Requests -> Rows]
      /\ deliveries \in [Requests -> Nat] /\ e.job \in Requests /\ left.faults \in Nat
  BY DEF WorkInv, Works, Shape, Runs
<1>2. PICK f \in executions : f.job = i /\ Hopeful(f)
  BY DEF Hope
<1>3. CASE GiveUp(e) \/ WorkerDies(e)
  <2>1. Used' = Used + 1
    BY <1>3, UsedStays DEF GiveUp, WorkerDies
  <2> QED
    BY <2>1, SpoiledStays
<1>4. ASSUME NEW phase, Advance(e, phase), row' = row,
             e.job = i /\ e.at \in {"starting", "ok", "returned"} => phase \in {"ok", "returned"}
      PROVE  Hope(i)'
  <2> DEFINE g == [e EXCEPT !.at = phase]
  <2>1. g.job = e.job /\ g.attempt = e.attempt /\ g.at = phase
        /\ executions' = (executions \ {e}) \cup {g}
    BY <1>1, <1>4 DEF Advance, Runs
  <2> HIDE DEF g
  <2>2. CASE f = e
    BY <1>2, <1>4, <2>1, <2>2 DEF Hope, Hopeful, OwnsLease
  <2>3. CASE f # e
    BY <1>2, <1>4, <2>1, <2>3 DEF Hope, Hopeful, OwnsLease
  <2> QED
    BY <2>2, <2>3
<1>5. CASE RunLocally(e)
  BY <1>4, <1>5 DEF RunLocally
<1>6. CASE Hear(e)
  BY <1>4, <1>6 DEF Hear, JudgeAnswer
<1>7. CASE TimeOut(e)
  BY <1>4, <1>7 DEF TimeOut
<1>8. CASE Deliver(e) /\ e.job # i
  BY <1>4, <1>8 DEF Deliver
<1>9. CASE Deliver(e) /\ e.job = i
  <2>1. row' = row /\ left' = left
    BY <1>9 DEF Deliver
  <2>2. /\ deliveries'[i] = deliveries[i] + 1
        /\ Advance(e, "ok") \/ (deliveries'[i] <= Failures /\ Advance(e, "error"))
    BY <1>9, FlakyDelivery
  <2>3. deliveries'[i] <= Failures => Spoiled(i)' >= Spoiled(i) + 1
    BY <1>1, <2>1, <2>2, SpoiledGrows
  <2> QED
    BY <1>4, <2>1, <2>2, <2>3
<1>10. CASE Settle(e)
  <2>1. executions' = executions \ {e} /\ row'[i].attempts = row[i].attempts
    <3>1. executions' = executions \ {e}
      BY <1>10 DEF Settle
    <3> QED
      BY <1>1, <1>10, <3>1, SettleWrites DEF Settlement
  <2>2. CASE f # e
    BY <1>2, <2>1, <2>2 DEF Hope, Hopeful, OwnsLease
  <2>3. CASE f = e
    <3>1. OwnsLease(e) /\ e.at = "returned" /\ e.job = i
      BY <1>2, <1>10, <2>3 DEF Hopeful, Settle
    <3>2. row' = [row EXCEPT ![i].status = "succeeded"]
      BY <1>10, <3>1 DEF Settle
    <3>3. row'[i].status = "succeeded"
      BY <1>1, <3>1, <3>2 DEF Rows
    <3>4. AtWork(i)' = 0
      BY <3>3 DEF AtWork, WorkInv, Works, JobInv
    <3>5. AtWork(i) = 1
      BY CountsAreNumbers
    <3> QED
      BY <3>4, <3>5
  <2> QED
    BY <2>2, <2>3
<1> QED
  BY <1>3, <1>5, <1>6, <1>7, <1>8, <1>9, <1>10 DEF Handle

\* So does every step.
LEMMA HopeSeen ==
  ASSUME SubmissionInv, WorkInv, WorkInv', [Next]_vars, NEW i \in Requests,
         asked[i].kind = "flaky", Hope(i)
  PROVE  Hope(i)' \/ Spoiled(i)' >= Spoiled(i) + 1 \/ AtWork(i)' < AtWork(i)
<1>1. row \in [Requests -> Rows]
  BY DEF WorkInv, Shape
<1>2. ASSUME executions \subseteq executions', row'[i].attempts = row[i].attempts
      PROVE  Hope(i)'
  BY <1>2 DEF Hope, Hopeful, OwnsLease
<1>3. ASSUME NEW k \in Requests, Pass(k) PROVE Hope(i)'
  <2>1. executions' = executions
    BY <1>3, PassShape
  <2>2. row'[i].attempts = row[i].attempts
    BY <1>1, <1>3, PassRow DEF Rows
  <2> QED
    BY <1>2, <2>1, <2>2
<1>4. ASSUME NEW k \in Requests, Take(k) PROVE Hope(i)'
  <2>1. Kept(i) => row'[i].attempts = row[i].attempts
    BY DEF Kept
  <2>2. Claimed(i) => Hope(i)'
    BY DEF Claimed
  <2>3. executions \subseteq executions'
    BY <1>4 DEF Take
  <2> QED
    BY <1>2, <1>4, <2>1, <2>2, <2>3, TakeCopies
<1>5. ASSUME NEW r \in Requests, Serve(r) \/ Enqueue(r) \/ Interrupt(r)
      PROVE  UNCHANGED <<row, executions>>
  BY <1>5 DEF Serve, Enqueue, Interrupt, jobVars
<1>6. ReceiverForgets \/ UNCHANGED vars => UNCHANGED <<row, executions>>
  BY DEF ReceiverForgets, vars, jobVars
<1> QED
  BY <1>2, <1>3, <1>4, <1>5, <1>6, ExecutionHope DEF Next, Pass

\* A job that a step buries was at work, without hope or by a fault, and left no copy.
LEMMA BuriedLast ==
  ASSUME WorkInv, WorkInv', [Next]_vars, NEW i \in Requests,
         row[i].status # "dead", row'[i].status = "dead"
  PROVE  AtWork(i) = 1 /\ (~Hope(i) \/ Used' = Used + 1)
<1>1. row \in [Requests -> Rows]
  BY DEF WorkInv, Shape
<1>2. ASSUME NEW k \in Requests, Pass(k)
      PROVE  AtWork(i) = 1 /\ (~Hope(i) \/ Used' = Used + 1)
  <2>1. k = i /\ row'[i].status = "dead"
    BY <1>1, <1>2, PassRow
  <2>2. Reap(i)
    BY <1>1, <1>2, <2>1
    DEF Pass, Schedule, Promote, Sweep, ParkingDies, PromotionBreaksOff, Rows
  <2>3. row[i].status = "running" /\ (Attended(i) => Fault)
    BY <2>2 DEF Reap
  <2>4. ~Attended(i) => ~Hope(i)
    BY DEF Attended, Hope, Hopeful
  <2> QED
    BY <2>3, <2>4, UsedStays DEF AtWork
<1>3. ASSUME NEW e \in executions, Handle(e) \/ GiveUp(e) \/ WorkerDies(e)
      PROVE  AtWork(i) = 1 /\ ~Hope(i)
  <2>1. Settle(e)
    BY <1>3, SameClaims DEF Handle, WorkerDies
  <2>2. OwnsLease(e) /\ e.job = i /\ e.at = "threw"
    BY <1>1, <2>1, SettleWrites DEF Settlement
  <2> QED
    BY <2>2 DEF AtWork, Attended, Hope, Hopeful, OwnsLease, WorkInv, Works, ExecutionInv
<1>4. ASSUME NEW k \in Requests, Take(k) PROVE FALSE
  <2>1. CASE row' = [row EXCEPT ![k].status = "running", ![k].attempts = @ + 1]
    <3>1. k = i => row'[i].status = "running"
      <4>1. ASSUME k = i
            PROVE  row' = [row EXCEPT ![i].status = "running", ![i].attempts = @ + 1]
        BY <2>1, <4>1
      <4> QED
        BY <1>1, <4>1 DEF Rows
    <3>2. k # i => row'[i] = row[i]
      BY <1>1, <2>1
    <3> QED
      BY <3>1, <3>2
  <2>2. CASE row' = row
    BY <2>2
  <2> QED
    BY <1>4, <2>1, <2>2 DEF Take
<1>5. ASSUME NEW r \in Requests, Serve(r) \/ Enqueue(r) \/ Interrupt(r) PROVE FALSE
  BY <1>5 DEF Serve, Enqueue, Interrupt, jobVars
<1> QED
  BY <1>2, <1>3, <1>4, <1>5 DEF Next, Pass, ReceiverForgets, vars, jobVars

\* The one copy, and no attempt.
LEMMA AttemptsStart == Init => AttemptsInv
<1> SUFFICES ASSUME Init, NEW i \in Requests PROVE Accounted(i)
  BY DEF AttemptsInv
<1>1. row[i].attempts = 0 /\ row[i].status = "queued" /\ queue[i] = 0 /\ parked[i] = 0
      /\ i \notin delayed /\ ~Attended(i)
  BY DEF Init, Attended
<1>2. Spoiled(i) = 0
  <2>1. left.forgets = Forgets /\ left.faults = Faults /\ deliveries[i] = 0
    BY DEF Init, Hook!ReceiverInit
  <2>2. Failures * 0 = 0 /\ Forgets - Forgets = 0 /\ Faults - Faults = 0 /\ Least(0, Failures) = 0
    BY DeliveryAssumption DEF Least
  <2> QED
    BY <2>1, <2>2 DEF Spoiled
<1>3. Copies(i) <= 1 /\ Copies(i) \in Nat /\ AtWork(i) = 0
  BY <1>1 DEF Copies, AtWork
<1> QED
  BY <1>1, <1>2, <1>3 DEF Accounted

\* No step breaks it.
LEMMA AttemptsStep ==
  SubmissionInv /\ WorkInv /\ WorkInv' /\ AttemptsInv /\ [Next]_vars => AttemptsInv'
<1> SUFFICES ASSUME SubmissionInv, WorkInv, WorkInv', AttemptsInv, [Next]_vars,
                    NEW i \in Requests, asked'[i].kind = "flaky"
             PROVE  Accounted(i)'
  BY DEF AttemptsInv
<1>1. asked' = asked
  BY DEF Next, Serve, Enqueue, Interrupt, Take, Schedule, Reap, Promote, Sweep, ParkingDies,
         PromotionBreaksOff, Handle, RunLocally, Deliver, Hear, TimeOut, Settle, GiveUp,
         WorkerDies, ReceiverForgets, vars, submissionVars,
         Ask, Refuse, Insert, FindOriginal, Answer, Push, Disconnect, ApiDies
<1> DEFINE a  == row[i].attempts
           a2 == row'[i].attempts
           c  == Copies(i)
           c2 == Copies(i)'
           w  == AtWork(i)
           w2 == AtWork(i)'
           h  == IF Hope(i) THEN 1 ELSE 0
           h2 == IF Hope(i)' THEN 1 ELSE 0
           s  == Spoiled(i)
           s2 == Spoiled(i)'
<1>2. a + c + w <= 1 + s + h /\ (row[i].status = "dead" => a + c <= s)
  BY <1>1 DEF AttemptsInv, Accounted
<1>3. /\ a \in Nat /\ c \in Nat /\ w \in {0, 1} /\ s \in Nat /\ s2 \in Nat /\ s2 >= s
      /\ Used' = Used + 1 => s2 >= s + 1
      /\ Hope(i) => w = 1
  BY CountsAreNumbers, SpoiledStays
<1>4. a2 \in Nat /\ c2 \in Nat /\ w2 \in {0, 1}
  <2>1. queue'[i] \in Nat /\ parked'[i] \in Nat /\ row'[i].attempts \in Nat
    BY DEF WorkInv, Shape, Rows
  <2> QED
    BY <2>1 DEF Copies, AtWork
<1>5. Hope(i) => Hope(i)' \/ s2 >= s + 1 \/ w2 < w
  BY <1>1, HopeSeen
<1>6. row[i].status # "dead" /\ row'[i].status = "dead" => w = 1 /\ (~Hope(i) \/ s2 >= s + 1)
  BY <1>3, BuriedLast
<1>7. h \in {0, 1} /\ h2 \in {0, 1} /\ (Hope(i) <=> h = 1) /\ (Hope(i)' <=> h2 = 1)
  OBVIOUS
<1>8. SUFFICES a2 + c2 + w2 <= 1 + s2 + h2 /\ (row'[i].status = "dead" => a2 + c2 <= s2)
  BY DEF Accounted
<1>9. CASE Kept(i)
  <2>1. a2 = a /\ c2 <= c /\ w2 <= w
    BY <1>9 DEF Kept
  <2> HIDE DEF a, a2, c, c2, w, w2, h, h2, s, s2
  <2>2. a2 + c2 + w2 <= 1 + s2 + h2
    BY <1>2, <1>3, <1>4, <1>5, <1>7, <2>1
  <2>3. CASE row[i].status = "dead"
    BY <1>2, <1>3, <1>4, <2>1, <2>2, <2>3
  <2>4. CASE row[i].status # "dead"
    BY <1>2, <1>3, <1>4, <1>6, <1>7, <2>1, <2>2, <2>4
  <2> QED
    BY <2>3, <2>4
<1>10. CASE Doubled(i) /\ (row'[i].status = "dead" => row[i].status = "dead")
  <2>1. a2 = a /\ c2 <= c + 1 /\ w2 <= w /\ s2 >= s + 1 /\ (Hope(i) => Hope(i)')
    BY <1>3, <1>10 DEF Doubled
  <2> HIDE DEF a, a2, c, c2, w, w2, h, h2, s, s2
  <2> QED
    BY <1>2, <1>3, <1>4, <1>7, <1>10, <2>1
<1>11. CASE HandedOn(i) /\ row'[i].status # "dead"
  <2>1. a2 = a /\ c2 <= c + 1 /\ w = 1 /\ w2 = 0 /\ ~Hope(i)
    BY <1>11 DEF HandedOn
  <2> HIDE DEF a, a2, c, c2, w, w2, h, h2, s, s2
  <2> QED
    BY <1>2, <1>3, <1>4, <1>7, <1>11, <2>1
<1>12. CASE Claimed(i)
  <2>1. a2 = a + 1 /\ c2 + 1 <= c /\ Hope(i)' /\ row'[i].status # "dead"
    BY <1>12 DEF Claimed
  <2> HIDE DEF a, a2, c, c2, w, w2, h, h2, s, s2
  <2> QED
    BY <1>2, <1>3, <1>4, <1>7, <2>1
<1> QED
  BY <1>9, <1>10, <1>11, <1>12, CopiesSeen

\* A job for a receiver that recovers after n deliveries is only given up when its
\* attempts went to deliveries that were to fail, n for every memory the receiver has
\* had, and to faults: whatever the number of attempts, requests, faults and memories.
THEOREM FlakyGivesUpForCause == Spec => []FlakyGivenUpForCause
<1>1. WorkInv /\ AttemptsInv => FlakyGivenUpForCause
  <2> SUFFICES ASSUME WorkInv, AttemptsInv, NEW i \in Requests, asked[i].kind = "flaky",
                      row[i].status = "dead"
               PROVE  MaxAttempts <= Failures * (1 + Forgets - left.forgets)
                                       + (Faults - left.faults)
    BY DEF FlakyGivenUpForCause, WorkInv, Shape
  <2>1. MaxAttempts <= Spoiled(i)
    <3>1. row[i].attempts >= MaxAttempts /\ row[i].attempts + Copies(i) <= Spoiled(i)
      BY DEF WorkInv, Works, JobInv, AttemptsInv, Accounted
    <3>2. Spoiled(i) \in Nat /\ Copies(i) \in Nat /\ row[i].attempts \in Nat
      BY SpoiledCounts, CountsAreNumbers
    <3> QED
      BY <3>1, <3>2, DeliveryAssumption
  <2> DEFINE lost == Forgets - left.forgets
  <2>2. lost \in Nat /\ 1 + Forgets - left.forgets = lost + 1
        /\ Faults - left.faults \in Nat /\ deliveries[i] \in Nat
    BY DeliveryAssumption DEF WorkInv, Shape
  <2>3. Spoiled(i) = Failures * lost + Least(deliveries[i], Failures) + (Faults - left.faults)
    BY DEF Spoiled
  <2> HIDE DEF lost
  <2>4. Failures * lost \in Nat /\ Failures * (lost + 1) = Failures * lost + Failures
    <3>1. \A x, y \in Nat : x * y \in Nat /\ x * (y + 1) = x * y + x
      OBVIOUS
    <3> QED
      BY <2>2, <3>1, DeliveryAssumption
  <2>5. Least(deliveries[i], Failures) <= Failures /\ Least(deliveries[i], Failures) \in Nat
    BY <2>2, DeliveryAssumption DEF Least
  <2> DEFINE a == Failures * lost
             b == Least(deliveries[i], Failures)
             c == Faults - left.faults
  <2>6. MaxAttempts <= a + b + c /\ a \in Nat /\ b \in Nat /\ c \in Nat /\ b <= Failures
    BY <2>1, <2>2, <2>3, <2>4, <2>5
  <2>7. Failures * (1 + Forgets - left.forgets) + (Faults - left.faults) = a + Failures + c
    BY <2>2, <2>4
  <2> HIDE DEF a, b, c
  <2> QED
    BY <2>6, <2>7, DeliveryAssumption
<1>2. /\ SubmissionInv /\ WorkInv /\ (SubmissionInv /\ WorkInv)' /\ AttemptsInv /\ [Next]_vars
           => AttemptsInv'
  BY AttemptsStep
<1> QED
  BY WorkAlways, AttemptsStart, <1>1, <1>2, PTL DEF Spec
=============================================================================
