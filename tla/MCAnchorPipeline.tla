-------------------------- MODULE MCAnchorPipeline --------------------------
(***************************************************************************)
(* Small instances of AnchorPipeline.  Runs of one kind are alike, so      *)
(* safety runs reduce their symmetry; events and rows are ordered by id    *)
(* and are numbers.                                                        *)
(***************************************************************************)
EXTENDS AnchorPipeline, TLC

CONSTANTS q1, q2, r1, r2

Runs == Permutations({q1, q2}) \cup Permutations({r1, r2})
=============================================================================
