-------------------------- MODULE MCQTagFulfillment --------------------------
(***************************************************************************)
(* A small instance of QTagFulfillment: two assets, an order and a session *)
(* for each, one chip that both may be given, and QTAGs for one            *)
(* reservation at a time.                                                  *)
(***************************************************************************)
EXTENDS QTagFulfillment, TLC

Alike == Permutations(Calls) \cup Permutations(Assets) \cup Permutations(Orders)
           \cup Permutations(Sessions)
=============================================================================
