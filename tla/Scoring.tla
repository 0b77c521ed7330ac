------------------------------ MODULE Scoring ------------------------------
(***************************************************************************)
(* The six component scores of a coupon and their blend:                   *)
(* ingestion/validation.py, ingestion/scoring.py, and rescore of           *)
(* services/coupon_service.py.  Scores are thousandths; an age is counted  *)
(* in weeks, of which three are the half-life of freshness.                *)
(***************************************************************************)
EXTENDS Integers

Never == 999            \* days to the expiry of a coupon that has none
Unknown == -1           \* a trust score that is None

Thousandths == 0 .. 1000
Clamp(x) == IF x < 0 THEN 0 ELSE IF x > 1000 THEN 1000 ELSE x

SourceTrust(source, merchant) ==
    LET m == IF merchant = Unknown THEN 500 ELSE merchant
    IN  Clamp(IF source = Unknown THEN m ELSE (6 * source + 4 * m) \div 10)

(* x * 0.5 ^ times; nothing is left of a thousand after ten halvings. *)
PowersOf2 == <<1, 2, 4, 8, 16, 32, 64, 128, 256, 512>>
Halved(x, times) == IF times < 10 THEN x \div PowersOf2[times + 1] ELSE 0

(* 0.5 ^ (weeks / 3) *)
Freshness(weeks) == Halved((<<1000, 794, 630>>)[(weeks % 3) + 1], weeks \div 3)

HeuristicConfidence(hasCode, hasValue, merchantKnown) ==
    300 + (IF merchantKnown THEN 250 ELSE 0) + (IF hasValue THEN 200 ELSE 0)
        + (IF hasCode THEN 150 ELSE 0)
ConfidenceScore(hasCode, hasValue, merchantKnown, ai) ==
    (Clamp(HeuristicConfidence(hasCode, hasValue, merchantKnown)) + Clamp(ai)) \div 2

Duplicate(n) == 1000 - Halved(1000, n)

(* The lower end p of Wilson's interval is the lesser root of              *)
(* (x - p)^2 = z^2 p (1 - p) / n with x = ok / n (if x = 1, then 1 is the  *)
(* other); z^2 = 1.96^2 is taken as 96/25, and p is found to half a per    *)
(* cent.                                                                   *)
IsLowerBound(p, ok, n) ==
    /\ p < 1000 /\ n * p <= 1000 * ok
    /\ 25 * (1000 * ok - n * p) * (1000 * ok - n * p) >= 96 * n * p * (1000 - p)
SuccessRate(ok, bad) ==
    IF ok + bad = 0 THEN 500
    ELSE 5 * CHOOSE p \in 0 .. 200 :
               ~IsLowerBound(5 * (p + 1), ok, ok + bad) /\ IsLowerBound(5 * p, ok, ok + bad)

Expiry(days) ==
    IF days = Never THEN 700
    ELSE IF days <= 0 THEN 0
    ELSE IF days >= 14 THEN 1000
    ELSE 300 + 50 * days

(* compute_ranking_score: the positive weights add up to one. *)
Rank(s) == Clamp((25 * s.trust + 20 * s.freshness + 15 * s.confidence + 25 * s.success
                   + 15 * s.expiry - 30 * s.duplicate) \div 100)

(* all_scores and the blend, when a crawl has seen the coupon just now. *)
SeenNow_Unknown == 500
SeenNow == Freshness(0)
ReportsOf(c) == SuccessRate(c.ok, c.bad)
Scores(c, trust, confidence, duplicates) ==
    [trust |-> trust, freshness |-> SeenNow, confidence |-> confidence,
     duplicate |-> Duplicate(duplicates), success |-> ReportsOf(c), expiry |-> Expiry(c.days)]

(* rescore: "Preserve trust + confidence + duplicate already established;  *)
(* refresh dynamic ones".  The coupon's age is that of updated_at.         *)
Rescored(c) ==
    [c.scores EXCEPT !.freshness = Freshness(c.age),
                     !.success = SuccessRate(c.ok, c.bad),
                     !.expiry = Expiry(c.days)]
=============================================================================
