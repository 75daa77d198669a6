--------------------------- MODULE MCRunCompletion ---------------------------
(* Small instances of RunCompletion for TLC: the first request and retries. *)
EXTENDS RunCompletion, TLC

CONSTANTS d1, d2, d3

DeliverySymmetry == Permutations(Deliveries)
=============================================================================
