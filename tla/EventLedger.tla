---------------------------- MODULE EventLedger ----------------------------
(***************************************************************************)
(* What the billing service promises of webhook events, with no request,   *)
(* no snapshot, no constraint and no delivery in sight: one verdict for    *)
(* each id, given once and for ever; all that an event brings about, its   *)
(* payment with an invoice and its subscription, comes with the verdict    *)
(* and never later; and no success is acknowledged before the verdict.     *)
(***************************************************************************)
EXTENDS Naturals

CONSTANTS Event, EventId, Unknown

VARIABLES
    id,         \* id[e]: what event e is known by, once it has been emitted
    verdict,    \* verdict[k]: what became of the event with the id k
    charged,    \* charged[e]: the payments recorded for event e
    opened,     \* the events that opened a subscription
    invoiced,   \* the number of invoices
    acked       \* the events whose gateway was told of success

vars == <<id, verdict, charged, opened, invoiced, acked>>

Init ==
    /\ id = [e \in Event |-> Unknown]
    /\ verdict = [k \in EventId |-> "absent"]
    /\ charged = [e \in Event |-> 0]
    /\ opened = {} /\ invoiced = 0 /\ acked = {}

Emitted(e) ==
    /\ id[e] = Unknown
    /\ \E k \in EventId : id' = [id EXCEPT ![e] = k]
    /\ UNCHANGED <<verdict, charged, opened, invoiced, acked>>

(* Only an event that pays is invoiced, and only one that pays opens a     *)
(* subscription.                                                           *)
Conclude(e, status, paid) ==
    /\ id[e] # Unknown /\ verdict[id[e]] = "absent"
    /\ status = "failed" => paid = 0
    /\ verdict' = [verdict EXCEPT ![id[e]] = status]
    /\ charged' = [charged EXCEPT ![e] = @ + paid]
    /\ invoiced' = invoiced + paid
    /\ opened' = opened \/ (paid = 1 /\ opened' = opened \cup {e})
    /\ acked' = acked \cup {e}
    /\ UNCHANGED id

Acknowledge(e) ==
    /\ id[e] # Unknown /\ verdict[id[e]] # "absent"
    /\ acked' = acked \cup {e}
    /\ UNCHANGED <<id, verdict, charged, opened, invoiced>>

(* A payment that no event reports: a checkout without a gateway. *)
Sell ==
    /\ invoiced' = invoiced + 1
    /\ UNCHANGED <<id, verdict, charged, opened, acked>>

Next ==
    \/ \E e \in Event :
         \/ Emitted(e) \/ Acknowledge(e)
         \/ \E status \in {"processed", "failed"}, paid \in 0 .. 1 : Conclude(e, status, paid)
    \/ Sell

Spec == Init /\ [][Next]_vars
=============================================================================
