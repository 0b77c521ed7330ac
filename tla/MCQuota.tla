------------------------------ MODULE MCQuota ------------------------------
(* Three requests of one caller against limits 1 and 2, over two windows   *)
(* of three ticks with two ticks to the second.                            *)
EXTENDS Quota, TLC

CONSTANTS r1, r2, r3

MCReq == {r1, r2, r3}
RequestSymmetry == Permutations(MCReq)
=============================================================================
