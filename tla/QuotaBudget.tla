---------------------------- MODULE QuotaBudget ----------------------------
(***************************************************************************)
(* What the search quota promises its callers, with no counter, no key and *)
(* no expiry in sight: in every window at most MaxLimit requests take a    *)
(* unit, and no request is denied before MinLimit units are taken.  The    *)
(* promise lapses for a window that is closing (its last second, and the   *)
(* time after its end).  MinLimit and MaxLimit are the smallest and the    *)
(* largest quota a plan may give; they are equal while the plan is fixed.  *)
(***************************************************************************)
EXTENDS Naturals, FiniteSets

CONSTANTS Req, Bucket, MinLimit, MaxLimit

VARIABLES
    taken,      \* taken[b]: the requests that took a unit of window b
    answer,     \* answer[r]: what request r was told so far
    closing     \* the windows for which nothing is promised any more

Init ==
    /\ taken = [b \in Bucket |-> {}]
    /\ answer = [r \in Req |-> "none"]
    /\ closing = {}

Take(r, b) ==
    /\ answer[r] = "none"
    /\ r \notin UNION {taken[c] : c \in Bucket}
    /\ b \in closing \/ Cardinality(taken[b]) < MaxLimit
    /\ taken' = [taken EXCEPT ![b] = @ \cup {r}]
    /\ UNCHANGED <<answer, closing>>

Grant(r, b) ==
    /\ answer[r] = "none"
    /\ r \in taken[b]
    /\ answer' = [answer EXCEPT ![r] = "granted"]
    /\ UNCHANGED <<taken, closing>>

Deny(r, b) ==
    /\ answer[r] = "none"
    /\ r \notin UNION {taken[c] : c \in Bucket}
    /\ b \in closing \/ Cardinality(taken[b]) >= MinLimit
    /\ answer' = [answer EXCEPT ![r] = "denied"]
    /\ UNCHANGED <<taken, closing>>

Close(b) ==
    /\ closing' = closing \cup {b}
    /\ UNCHANGED <<taken, answer>>

Next ==
    \/ \E r \in Req, b \in Bucket : Take(r, b) \/ Grant(r, b) \/ Deny(r, b)
    \/ \E b \in Bucket : Close(b)

Spec == Init /\ [][Next]_<<taken, answer, closing>>
=============================================================================
