------------------------------ MODULE Receiver ------------------------------
(***************************************************************************)
(* The demo webhook receiver: what each route does with a delivery the     *)
(* moment it arrives, and what it is going to answer.                      *)
(***************************************************************************)
EXTENDS Naturals, FiniteSets

CONSTANTS
  Ids,             \* the job ids there may be
  Failures         \* n of /hook/flaky/:n

VARIABLES
  deliveries,      \* how often each job id has been delivered
  applied,         \* the ids /hook/idempotent has seen
  effects          \* how often its effect took place; not kept by the code

receiverVars == <<deliveries, applied, effects>>

Routes == {"hook", "idempotent", "down", "slow", "flaky"}
Replies == {"ok", "error", "silence"}

ReceiverInit ==
  /\ deliveries = [i \in Ids |-> 0]
  /\ applied = {}
  /\ effects = [i \in Ids |-> 0]

\* record(): the count of this job, this delivery included.
Record(i) == deliveries' = [deliveries EXCEPT ![i] = @ + 1]

ForgetsOne(count) == IF count <= Failures + 1 THEN "error" ELSE "ok"   \* a mutant

\* The first n deliveries of a job are answered 503.
FlakyReply(count) == IF count <= Failures THEN "error" ELSE "ok"

\* What the delivery of job i to a route is answered.  /hook/slow says nothing for a
\* minute, longer than a handler waits.
Reply(route, i) ==
  CASE route \in {"hook", "idempotent"} -> "ok"
    [] route = "down" -> "error"
    [] route = "slow" -> "silence"
    [] route = "flaky" -> FlakyReply(deliveries[i] + 1)

AppliesAgain(i) ==                                                 \* a mutant
  /\ applied' = applied \cup {i}
  /\ effects' = [effects EXCEPT ![i] = @ + 1]

\* The id is claimed before the answer is delayed, in one turn of the event loop.
Apply(i) ==
  /\ applied' = applied \cup {i}
  /\ effects' = IF i \in applied THEN effects ELSE [effects EXCEPT ![i] = @ + 1]

Deliver(route, i) ==
  /\ Record(i)
  /\ IF route = "idempotent" THEN Apply(i) ELSE UNCHANGED <<applied, effects>>

\* DELETE /deliveries, or a restart: both memories are gone.
Forget ==
  /\ deliveries' = [i \in Ids |-> 0]
  /\ applied' = {}
  /\ UNCHANGED effects
=============================================================================
