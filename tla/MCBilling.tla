----------------------------- MODULE MCBilling -----------------------------
(* Two requests in flight; the values of the events and subscriptions are  *)
(* chosen by each configuration.                                           *)
EXTENDS Billing, TLC

CONSTANTS s1, s2, u1, g1, g2, e1, e2, e3

MCOwnerOf == [g \in Gsub |-> u1]
SlotAndEventSymmetry == Permutations({s1, s2}) \cup Permutations(Event)
=============================================================================
