----------------------------- MODULE MCCatalog -----------------------------
(* Two transactions in flight over two coupons, which are alike. *)
EXTENDS Catalog, TLC

CONSTANTS s1, s2, c1, c2

SlotAndCouponSymmetry == Permutations({s1, s2}) \cup Permutations(Coupon)
=============================================================================
