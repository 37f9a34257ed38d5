----------------------------- MODULE ListingMC -----------------------------
(***************************************************************************)
(* Four jobs on a clock with two microseconds to the millisecond: the      *)
(* second and the third were created at the same instant, just after a     *)
(* full millisecond, and the second of them does not exist at first.       *)
(***************************************************************************)
EXTENDS Listing

FourJobs == 1 .. 4
Times == <<4, 3, 3, 0>>
DeadAtFirst == {1, 3, 4}
DeadOnly == {"dead"}
=============================================================================
