---------------------------- MODULE SupervisorMC ----------------------------
(***************************************************************************)
(* Instances of Supervisor for TLC: start.ts with one process of each      *)
(* role, and dev/workers.ts with all the workers.                          *)
(***************************************************************************)
EXTENDS Supervisor

OneOfEach == {CHOOSE w \in Workers : TRUE} \cup Schedulers \cup Servers
Teams     == [k \in Kinds |-> IF k = "start" THEN OneOfEach ELSE Workers]

OneOfEachCause == [k \in Causes |-> 1]
=============================================================================
