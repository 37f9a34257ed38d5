----------------------------- MODULE Lifecycle ------------------------------
(***************************************************************************)
(* What QueueFlow promises a client about a job, whatever processes and    *)
(* queues are behind it: the lifecycle that the jobs table enforces        *)
(* (db/schema.sql) with the bookkeeping that goes with every arrow.        *)
(* A job that succeeded has been recorded exactly once, is never touched   *)
(* again, and no job is attempted more than MaxAttempts times.             *)
(***************************************************************************)
EXTENDS Naturals

CONSTANTS Jobs, MaxAttempts

VARIABLES
  status,       \* what GET /jobs/:id answers
  attempts,     \* how many executions were started
  recorded      \* how many executions were recorded in job_effects

vars == <<status, attempts, recorded>>

Init ==
  /\ status   = [j \in Jobs |-> "none"]
  /\ attempts = [j \in Jobs |-> 0]
  /\ recorded = [j \in Jobs |-> 0]

Turn(j, from, to) ==
  /\ status[j] \in from
  /\ status' = [status EXCEPT ![j] = to]

Keep == UNCHANGED <<attempts, recorded>>

Accept(j)  == Turn(j, {"none"}, "queued") /\ Keep

StartRun(j) ==
  /\ Turn(j, {"queued"}, "running")
  /\ attempts[j] < MaxAttempts
  /\ attempts' = [attempts EXCEPT ![j] = @ + 1]
  /\ UNCHANGED recorded

Complete(j) ==
  /\ Turn(j, {"running"}, "succeeded")
  /\ recorded[j] = 0
  /\ recorded' = [recorded EXCEPT ![j] = @ + 1]
  /\ UNCHANGED attempts

Retry(j)   == Turn(j, {"running"}, "retrying") /\ attempts[j] < MaxAttempts /\ Keep
Promote(j) == Turn(j, {"retrying"}, "queued") /\ Keep
Recover(j) == Turn(j, {"running"}, "queued") /\ attempts[j] < MaxAttempts /\ Keep
GiveUp(j)  == Turn(j, {"running"}, "dead") /\ attempts[j] = MaxAttempts /\ Keep

Revive(j) ==
  /\ Turn(j, {"dead"}, "queued")
  /\ attempts' = [attempts EXCEPT ![j] = 0]
  /\ UNCHANGED recorded

Next == \E j \in Jobs :
  \/ Accept(j) \/ StartRun(j) \/ Complete(j) \/ Retry(j)
  \/ Promote(j) \/ Recover(j) \/ GiveUp(j) \/ Revive(j)

Spec == Init /\ [][Next]_vars
=============================================================================
