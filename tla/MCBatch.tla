-------------------------------- MODULE MCBatch --------------------------------
(* Batch with two overlapping calls for lists that share ids, one of them       *)
(* longer than the budget, one id without a listing, and a cache of three       *)
(* entries for four ids.                                                        *)
EXTENDS Batch

CONSTANTS w, x, y, z, c1, c2

FourIds == {w, x, y, z}
ThreeListed == {w, x, y}
TwoCalls == {c1, c2}
Lists == {<<x, y>>, <<z, x, y, w>>, <<y, z, w>>, <<z>>}
================================================================================
