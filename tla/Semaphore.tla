----------------------------- MODULE Semaphore ------------------------------
(***************************************************************************)
(* The counting semaphore of src/shared/semaphore.ts, one per owner (a     *)
(* worker process), as operators on what it has in memory: the permits     *)
(* left and the callers parked in acquire(), in order of arrival.          *)
(***************************************************************************)
EXTENDS Naturals, Sequences

CONSTANT Capacity      \* CONCURRENCY

\* The constructor refuses anything else.
ASSUME CapacityAssumption == Capacity \in Nat \ {0}

Fresh == [available |-> Capacity, waiting |-> <<>>]

Semaphores(callers) == [available : 0 .. Capacity, waiting : Seq(callers)]

\* acquire(): take a permit, or wait for one.
Acquire(s, caller) ==
  IF s.available > 0
  THEN [s EXCEPT !.available = @ - 1]
  ELSE [s EXCEPT !.waiting = Append(@, caller)]

\* release(): the first waiter gets the permit, which is never counted as
\* available in between; without a waiter it is put back.
CountsAndHands(s) ==                                             \* a mutant
  [available |-> IF s.available < Capacity THEN s.available + 1 ELSE s.available,
   waiting   |-> IF s.waiting = <<>> THEN <<>> ELSE Tail(s.waiting)]

Release(s) ==
  IF s.waiting # <<>>
  THEN [s EXCEPT !.waiting = Tail(@)]
  ELSE IF s.available < Capacity THEN [s EXCEPT !.available = @ + 1] ELSE s

\* get inFlight()
HeldPermits(s) == Capacity - s.available
=============================================================================
