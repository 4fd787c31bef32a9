--------------------------- MODULE MCAssetRecords ----------------------------
(***************************************************************************)
(* A small instance of AssetRecords: one asset, a tag of each kind, two    *)
(* calls at a time.                                                        *)
(***************************************************************************)
EXTENDS AssetRecords, TLC

CONSTANTS c1, c2, r1, r2

Alike == Permutations(Calls) \cup Permutations(Refs)
=============================================================================
