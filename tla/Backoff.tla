------------------------------ MODULE Backoff ------------------------------
(***************************************************************************)
(* nextDelayMs: how long a job that has failed waits, in the unit of       *)
(* Base.  The jitter only adds, up to three tenths.                        *)
(***************************************************************************)
EXTENDS Naturals

CONSTANTS Base, Longest      \* RETRY_BASE_MS and RETRY_MAX_MS

ASSUME BackoffAssumption == Base \in Nat \ {0} /\ Longest \in Nat \ {0}

Floor(attempts) == IF 2 ^ attempts * Base < Longest THEN 2 ^ attempts * Base ELSE Longest

Centred(attempts) ==                                               \* a mutant
  {d \in 1 .. 2 * Longest :
     /\ 20 * d >= 20 * Floor(attempts) - 13 * Floor(attempts)
     /\ 20 * d <= 20 * Floor(attempts) + 13 * Floor(attempts)}

\* Math.round of base + random * base * 0.3.
Delays(attempts) ==
  {d \in Floor(attempts) .. 2 * Longest : 10 * d <= 13 * Floor(attempts) + 5}
=============================================================================
