----------------------------- MODULE Freshness -----------------------------
(***************************************************************************)
(* What a cached read promises, with no cache in sight: it returns a value *)
(* that is current, or that was current less than Bound ago.               *)
(***************************************************************************)
EXTENDS Integers

CONSTANTS Value, First, Bound

VARIABLES
    clock,
    current,    \* the value a write made current last
    replaced,   \* replaced[v]: when v stopped being current, -1 if it did not
    read        \* what was read last, and when

Init ==
    /\ clock = 0
    /\ current = First /\ read = [value |-> First, at |-> 0]
    /\ replaced = [v \in Value |-> -1]

Advance == clock' = clock + 1 /\ UNCHANGED <<current, replaced, read>>

(* A value becomes current at most once. *)
Write(v) ==
    /\ v # current /\ replaced[v] = -1
    /\ current' = v /\ replaced' = [replaced EXCEPT ![current] = clock]
    /\ UNCHANGED <<clock, read>>

Read(v) ==
    /\ v = current \/ (replaced[v] # -1 /\ clock - replaced[v] < Bound)
    /\ read' = [value |-> v, at |-> clock]
    /\ UNCHANGED <<clock, current, replaced>>

Next == Advance \/ \E v \in Value : Write(v) \/ Read(v)

Spec == Init /\ [][Next]_<<clock, current, replaced, read>>
=============================================================================
