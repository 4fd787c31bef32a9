-------------------------- MODULE MCRequestAccess --------------------------
(* RequestAccess with few requests; the limits are small so that they bind. *)
EXTENDS RequestAccess, TLC

MCLimits == "FREE" :> [MINUTE |-> 1, DAILY |-> 2] @@ "PRO" :> [MINUTE |-> 2, DAILY |-> 2]
Interchangeable == Permutations(Requests)
=============================================================================
