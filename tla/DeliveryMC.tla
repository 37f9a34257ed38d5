----------------------------- MODULE DeliveryMC -----------------------------
(***************************************************************************)
(* Two requests: one with a key, for a delivery that works or hangs; and   *)
(* at any time, before, after or together with it, another: under the same *)
(* key for any other kind of job, or without a key for one soon done.      *)
(***************************************************************************)
EXTENDS Delivery, TLC

CONSTANTS first, second, order, none

Asked ==
  first  :> [kind : {"idempotent", "slow"}, key : {order}] @@
  second :> ({[kind |-> "sleep", key |-> none]} \cup
             [kind : {"flaky", "down", "always_fail", "malformed"}, key : {order}])
=============================================================================
