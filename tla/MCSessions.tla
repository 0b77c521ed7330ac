----------------------------- MODULE MCSessions -----------------------------
(* Four requests: enough for a login, two overlapping requests on its      *)
(* token, and one that comes after.                                        *)
EXTENDS Sessions, TLC

CONSTANTS r1, r2, r3, r4

MCReq == {r1, r2, r3, r4}
RequestSymmetry == Permutations(MCReq)
=============================================================================
