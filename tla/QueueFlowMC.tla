---------------------------- MODULE QueueFlowMC -----------------------------
(***************************************************************************)
(* Instances of QueueFlow for TLC.  Every process has its own WORKER_ID    *)
(* unless a configuration says otherwise, so Procs and WorkerIds can be    *)
(* the same set.                                                           *)
(***************************************************************************)
EXTENDS QueueFlow

\* One WORKER_ID per process and one slot per process (CONCURRENCY = 1) ...
OwnId   == [p \in Procs |-> p]
OneSlot == [s \in Slots |-> s]

\* ... or every process under the same WORKER_ID ...
OneId   == [p \in Procs |-> CHOOSE w \in WorkerIds : TRUE]

\* ... or one process with every slot but one, and another with the last.
TwoSlots ==
  LET p == CHOOSE q \in Procs : TRUE
      t == CHOOSE s \in Slots : TRUE
  IN [s \in Slots |-> IF s = t THEN CHOOSE q \in Procs : q # p ELSE p]

\* No disturbance but those named, each as often as it says.
Only(counts) ==
  [k \in Disturbances |-> IF k \in DOMAIN counts THEN counts[k] ELSE 0]

CalmBudget     == Only([replay |-> 1, stop |-> 1])
ChaosBudget    == Only([crash |-> 2, apiCrash |-> 1, schedCrash |-> 1, age |-> 1])
RestartBudget  == Only([crash |-> 2, restart |-> 2, replyLost |-> 1])
StormBudget    == Only([lapse |-> 1, ackLost |-> 1, dbError |-> 1, replyLost |-> 1])

OneCrash       == Only([crash |-> 1])
OneLapse       == Only([lapse |-> 1])

\* Processes are interchangeable, with their id and slot.
SameWorkers == Permutations(WorkerIds)
SameProcs   == Permutations(Procs)
=============================================================================
