--------------------------- MODULE ScoringProofs ---------------------------
(***************************************************************************)
(* What the scores are worth, whatever is reported of a coupon: each is a  *)
(* thousandth from 0 to 1000, a duplicate is always penalised, and reports *)
(* move the success rate, and with it the rank, the right way.  The last   *)
(* rests on the lower end of Wilson's interval being unique: the numbers   *)
(* that are at most the lower end are closed downwards.                    *)
(***************************************************************************)
EXTENDS Scoring, TLAPS, WellFoundedInduction

LEMMA LeastNumber ==
    ASSUME NEW T \in SUBSET Nat, T # {}
    PROVE  \E x \in T : \A y \in T : x <= y
<1> DEFINE R == OpToRel(<, Nat)
<1>1. \A x, y \in Nat : y < x => <<y, x>> \in R
    BY DEF OpToRel
<1>2. IsWellFoundedOn(R, Nat)
    BY NatLessThanWellFounded
<1> HIDE DEF R
<1>3. PICK x \in T : \A y \in T : ~(<<y, x>> \in R)
    BY <1>2, WFMin
<1>4. ASSUME NEW y \in T PROVE x <= y
    <2>1. ~(y < x)
        BY <1>1, <1>3
    <2> QED BY <2>1
<1> QED BY <1>4

LEMMA HalvedRange ==
    ASSUME NEW x \in Thousandths, NEW n \in Nat
    PROVE  /\ Halved(x, n) \in Thousandths
           /\ n = 0 => Halved(x, n) = x
           /\ n > 0 => Halved(x, n) < 1000
<1>1. CASE n = 0
    BY <1>1 DEF Halved, PowersOf2, Thousandths
<1>2. CASE n \in 1 .. 9
    <2>1. PICK d \in 2 .. 512 : d = PowersOf2[n + 1]
        BY <1>2 DEF PowersOf2
    <2>2. x \div d \in 0 .. 999
        BY SMTT(40) DEF Thousandths
    <2>3. Halved(x, n) = x \div d
        BY <1>2, <2>1 DEF Halved
    <2> QED BY <1>2, <2>2, <2>3 DEF Thousandths
<1>3. CASE n >= 10
    BY <1>3 DEF Halved, Thousandths
<1> QED BY <1>1, <1>2, <1>3

LEMMA DuplicateRange ==
    ASSUME NEW n \in Nat
    PROVE  Duplicate(n) \in Thousandths /\ (n > 0 => Duplicate(n) > 0)
<1>1. 1000 \in Thousandths
    BY DEF Thousandths
<1>2. Halved(1000, n) \in Thousandths /\ (n > 0 => Halved(1000, n) < 1000)
    BY <1>1, HalvedRange
<1> QED BY <1>2, SMTT(40) DEF Duplicate, Thousandths

LEMMA FreshnessRange ==
    ASSUME NEW weeks \in Nat
    PROVE  Freshness(weeks) \in Thousandths /\ Freshness(0) = 1000
<1>1. weeks % 3 \in 0 .. 2 /\ weeks \div 3 \in Nat
    OBVIOUS
<1>2. (<<1000, 794, 630>>)[(weeks % 3) + 1] \in Thousandths
    BY <1>1 DEF Thousandths
<1>3. Freshness(weeks) \in Thousandths
    BY <1>1, <1>2, HalvedRange DEF Freshness
<1>4. 0 % 3 = 0 /\ 0 \div 3 = 0 /\ 1000 \in Thousandths
    BY DEF Thousandths
<1>5. Halved(1000, 0) = 1000
    BY <1>4, HalvedRange
<1>6. Freshness(0) = 1000
    BY <1>4, <1>5 DEF Freshness
<1> QED BY <1>3, <1>6

LEMMA ClampRange ==
    ASSUME NEW x \in Int
    PROVE  Clamp(x) \in Thousandths
BY DEF Clamp, Thousandths

LEMMA ClampGrows ==
    ASSUME NEW x \in Int, NEW y \in Int, x <= y
    PROVE  Clamp(x) <= Clamp(y)
BY DEF Clamp

LEMMA ConfidenceRange ==
    ASSUME NEW a, NEW b, NEW c, NEW ai \in Int
    PROVE  ConfidenceScore(a, b, c, ai) \in Thousandths
<1>1. HeuristicConfidence(a, b, c) \in Int
    BY DEF HeuristicConfidence
<1>2. PICK h \in Thousandths : h = Clamp(HeuristicConfidence(a, b, c))
    BY <1>1, ClampRange
<1>3. PICK g \in Thousandths : g = Clamp(ai)
    BY ClampRange
<1>4. ConfidenceScore(a, b, c, ai) = (h + g) \div 2
    BY <1>2, <1>3 DEF ConfidenceScore
<1>5. (h + g) \div 2 \in Thousandths
    BY DEF Thousandths
<1> QED BY <1>4, <1>5

LEMMA ExpiryRange ==
    ASSUME NEW days \in Int
    PROVE  Expiry(days) \in Thousandths
BY DEF Expiry, Never, Thousandths

(* A week later there is no more time to the expiry. *)
LEMMA ExpiryFalls ==
    ASSUME NEW days \in Int
    PROVE  Expiry(IF days = Never THEN days ELSE days - 7) <= Expiry(days)
BY DEF Expiry, Never

----------------------------------------------------------------------------
(* The success rate. *)

LEMMA ProductsGrow ==
    ASSUME NEW x \in Nat, NEW y \in Nat, NEW z \in Nat, NEW w \in Nat, x <= y, z <= w
    PROVE  x * z <= y * w
OBVIOUS

LEMMA FactorCancels ==
    ASSUME NEW x \in Nat, NEW y \in Nat, NEW w \in Nat, w > 0, x * w <= y * w
    PROVE  x <= y
OBVIOUS

(* The numbers at most the lower end are closed downwards: if q < p and p  *)
(* is such a number, so is q.  With a == ok - n p and b == ok - n q, in    *)
(* thousandths, a q <= b p and a (1 - q) <= b (1 - p).                     *)
LEMMA LowerBoundsGoDown ==
    ASSUME NEW ok \in Nat, NEW n \in Nat, ok <= n, NEW p \in Nat, NEW q \in Nat, q < p,
           IsLowerBound(p, ok, n)
    PROVE  IsLowerBound(q, ok, n)
<1> DEFINE a == 1000 * ok - n * p
           b == 1000 * ok - n * q
           u == 1000 - p
           v == 1000 - q
<1>1. p < 1000 /\ n * p <= 1000 * ok /\ 25 * a * a >= 96 * n * p * u
    BY DEF IsLowerBound
<1>2. n * q <= n * p
    OBVIOUS
<1>3. a \in Nat /\ b \in Nat /\ u \in Nat /\ v \in Nat /\ p > 0 /\ u > 0
    BY <1>1, <1>2
<1>4. a * q <= b * p
    BY <1>1
<1>5. a * v <= b * u
    BY <1>1
<1>6. q < 1000 /\ n * q <= 1000 * ok
    BY <1>1, <1>2
<1>7. 25 * b * b >= 96 * n * q * v => IsLowerBound(q, ok, n)
    BY <1>6 DEF IsLowerBound
<1> HIDE DEF a, b, u, v
<1>8. (a * q) * (a * v) <= (b * p) * (b * u)
    BY <1>3, <1>4, <1>5, ProductsGrow
<1>9. (a * a) * (q * v) <= (b * b) * (p * u)
    BY <1>3, <1>8
<1>10. (96 * n * p * u) * (q * v) <= (25 * a * a) * (q * v)
    BY <1>1, <1>3, ProductsGrow
<1>11. (96 * n * q * v) * (p * u) <= (25 * b * b) * (p * u)
    BY <1>3, <1>9, <1>10
<1>12. p * u > 0
    BY <1>3
<1>13. 96 * n * q * v <= 25 * b * b
    BY <1>3, <1>11, <1>12, FactorCancels
<1> QED BY <1>3, <1>7, <1>13

(* A failure moves no number below the lower end. *)
LEMMA FailuresLower ==
    ASSUME NEW ok \in Nat, NEW n \in Nat, NEW p \in Nat, IsLowerBound(p, ok, n + 1)
    PROVE  IsLowerBound(p, ok, n)
<1> DEFINE a == 1000 * ok - (n + 1) * p
           b == 1000 * ok - n * p
           u == 1000 - p
<1>1. p < 1000 /\ (n + 1) * p <= 1000 * ok /\ 25 * a * a >= 96 * (n + 1) * p * u
    BY DEF IsLowerBound
<1>2. a \in Nat /\ b \in Nat /\ u \in Nat /\ a <= b /\ n * p <= 1000 * ok
    BY <1>1
<1>3. 25 * b * b >= 96 * n * p * u => IsLowerBound(p, ok, n)
    BY <1>1, <1>2 DEF IsLowerBound
<1> HIDE DEF a, b, u
<1>4. a * a <= b * b
    BY <1>2, ProductsGrow
<1>5. n * (p * u) <= (n + 1) * (p * u)
    BY <1>2
<1> QED BY <1>1, <1>2, <1>3, <1>4, <1>5

(* A success moves no number above it: of the numbers in <1>, n u >= a, as *)
(* ok <= n, so that 25 a >= 96 p unless a = 0.                             *)
LEMMA SuccessesRaise ==
    ASSUME NEW ok \in Nat, NEW n \in Nat, ok <= n, n > 0, NEW p \in Nat, IsLowerBound(p, ok, n)
    PROVE  IsLowerBound(p, ok + 1, n + 1)
<1> DEFINE a == 1000 * ok - n * p
           b == 1000 * (ok + 1) - (n + 1) * p
           u == 1000 - p
<1>1. p < 1000 /\ n * p <= 1000 * ok /\ 25 * a * a >= 96 * n * p * u
    BY DEF IsLowerBound
<1>2. a \in Nat /\ u \in Nat /\ u > 0 /\ b = a + u /\ (n + 1) * p <= 1000 * (ok + 1)
    BY <1>1
<1>3. a <= n * u
    OBVIOUS
<1>4. 25 * b * b >= 96 * (n + 1) * p * u => IsLowerBound(p, ok + 1, n + 1)
    BY <1>1, <1>2 DEF IsLowerBound
<1> HIDE DEF a, b, u
<1>5. 96 * p <= 25 * (a + u)
    <2>1. CASE a = 0
        <3>1. n * p * u = 0
            BY <1>1, <1>2, <2>1
        <3>2. p = 0
            BY <1>2, <3>1
        <3> QED BY <1>2, <3>2
    <2>2. CASE a > 0
        <3>1. p * a <= p * (n * u)
            BY <1>2, <1>3, ProductsGrow
        <3>2. (96 * p) * a <= (25 * a) * a
            BY <1>1, <1>2, <3>1
        <3>3. 96 * p <= 25 * a
            BY <1>2, <2>2, <3>2, FactorCancels
        <3> QED BY <1>2, <3>3
    <2> QED BY <1>2, <2>1, <2>2
<1>6. (96 * p) * u <= (25 * (a + u)) * u
    BY <1>2, <1>5, ProductsGrow
<1>7. 25 * b * b = 25 * a * a + 25 * a * u + (25 * (a + u)) * u
    BY <1>2
<1>8. 96 * (n + 1) * p * u = 96 * n * p * u + (96 * p) * u
    BY <1>2
<1>9. 25 * a * u \in Nat
    BY <1>2
<1>10. 25 * b * b >= 96 * (n + 1) * p * u
    BY <1>1, <1>2, <1>6, <1>7, <1>8, <1>9
<1> QED BY <1>4, <1>10

(* The lower end itself, in steps of half a per cent. *)
IsRate(p, ok, n) == IsLowerBound(5 * p, ok, n) /\ ~IsLowerBound(5 * (p + 1), ok, n)

LEMMA RateExists ==
    ASSUME NEW ok \in Nat, NEW n \in Nat, ok <= n, n > 0
    PROVE  \E p \in 0 .. 200 : IsRate(p, ok, n)
<1> DEFINE T == {p \in Nat : ~IsLowerBound(5 * p, ok, n)}
<1>1. 200 \in T
    BY DEF IsLowerBound
<1>2. PICK x \in T : \A y \in T : x <= y
    <2> HIDE DEF T
    <2>1. T # {}
        BY <1>1
    <2>2. T \in SUBSET Nat
        BY DEF T
    <2> QED BY <2>1, <2>2, LeastNumber
<1>3. x \in Nat /\ x <= 200 /\ ~IsLowerBound(5 * x, ok, n)
    BY <1>1, <1>2
<1>4. IsLowerBound(0, ok, n)
    <2>1. (1000 * ok) * (1000 * ok) >= 0
        OBVIOUS
    <2> QED BY <2>1 DEF IsLowerBound
<1>5. x # 0
    BY <1>3, <1>4
<1>6. x - 1 \in Nat /\ x - 1 \notin T
    BY <1>2, <1>3, <1>5
<1>7. IsLowerBound(5 * (x - 1), ok, n)
    BY <1>6
<1>8. 5 * ((x - 1) + 1) = 5 * x /\ x - 1 \in 0 .. 200
    BY <1>3, <1>6, SMTT(40)
<1> QED BY <1>3, <1>7, <1>8 DEF IsRate

LEMMA RateOf ==
    ASSUME NEW ok \in Nat, NEW bad \in Nat
    PROVE  /\ ok + bad = 0 => SuccessRate(ok, bad) = 500
           /\ ok + bad > 0 => \E p \in 0 .. 200 :
                 IsRate(p, ok, ok + bad) /\ SuccessRate(ok, bad) = 5 * p
<1> DEFINE rate(p) == ~IsLowerBound(5 * (p + 1), ok, ok + bad) /\ IsLowerBound(5 * p, ok, ok + bad)
<1>1. SuccessRate(ok, bad) = IF ok + bad = 0 THEN 500 ELSE 5 * CHOOSE p \in 0 .. 200 : rate(p)
    BY SMTT(40) DEF SuccessRate
<1>2. ASSUME ok + bad > 0
      PROVE  \E p \in 0 .. 200 : IsRate(p, ok, ok + bad) /\ SuccessRate(ok, bad) = 5 * p
    <2>1. \E p \in 0 .. 200 : rate(p)
        <3>1. PICK n \in Nat : n = ok + bad /\ ok <= n /\ n > 0
            BY <1>2
        <3>2. PICK p \in 0 .. 200 : IsRate(p, ok, n)
            BY <3>1, RateExists
        <3> QED BY <3>1, <3>2 DEF IsRate
    <2> DEFINE r == CHOOSE p \in 0 .. 200 : rate(p)
    <2>2. r \in 0 .. 200 /\ rate(r)
        BY <2>1
    <2>3. SuccessRate(ok, bad) = 5 * r
        BY <1>1, <1>2
    <2> QED BY <2>2, <2>3 DEF IsRate
<1> QED BY <1>1, <1>2, ZenonT(60)

LEMMA RateRange ==
    ASSUME NEW ok \in Nat, NEW bad \in Nat
    PROVE  SuccessRate(ok, bad) \in Thousandths
<1>1. CASE ok + bad = 0
    <2>1. SuccessRate(ok, bad) = 500
        BY <1>1, RateOf
    <2> QED BY <2>1 DEF Thousandths
<1>2. CASE ok + bad > 0
    <2>1. PICK p \in 0 .. 200 : SuccessRate(ok, bad) = 5 * p
        BY <1>2, RateOf, ZenonT(60)
    <2> QED BY <2>1 DEF Thousandths
<1> QED BY <1>1, <1>2

(* A rate that is a number at most another lower end is at most that rate. *)
LEMMA RatesCompare ==
    ASSUME NEW p \in 0 .. 200, NEW q \in 0 .. 200,
           NEW ok \in Nat, NEW n \in Nat, ok <= n,
           IsLowerBound(5 * p, ok, n), ~IsLowerBound(5 * (q + 1), ok, n)
    PROVE  p <= q
<1> SUFFICES ASSUME p > q
             PROVE  FALSE
    OBVIOUS
<1>1. CASE p = q + 1
    BY <1>1
<1>2. CASE p > q + 1
    <2>1. 5 * (q + 1) < 5 * p /\ 5 * (q + 1) \in Nat /\ 5 * p \in Nat
        BY <1>2
    <2> QED BY <2>1, LowerBoundsGoDown
<1> QED BY <1>1, <1>2

(* A reported failure never raises the success rate. *)
THEOREM FailuresNeverHelp ==
    ASSUME NEW ok \in Nat, NEW bad \in Nat
    PROVE  SuccessRate(ok, bad + 1) <= SuccessRate(ok, bad)
<1>1. ok + (bad + 1) > 0 /\ bad + 1 \in Nat /\ bad \in Nat
    OBVIOUS
<1>2. PICK p \in 0 .. 200 : IsRate(p, ok, ok + (bad + 1)) /\ SuccessRate(ok, bad + 1) = 5 * p
    BY <1>1, RateOf, ZenonT(60)
<1>3. IsLowerBound(5 * p, ok, ok + bad + 1) /\ 5 * p \in Nat
    <2>1. ok + (bad + 1) = ok + bad + 1
        OBVIOUS
    <2> QED BY <1>2, <2>1 DEF IsRate
<1>4. IsLowerBound(5 * p, ok, ok + bad)
    BY <1>3, FailuresLower
<1>5. CASE ok + bad = 0
    <2>1. SuccessRate(ok, bad) = 500
        BY <1>1, <1>5, RateOf
    <2>2. ok = 0 /\ bad = 0
        BY <1>5
    <2>3. p = 0
        BY <1>3, <2>2 DEF IsLowerBound
    <2> QED BY <1>2, <2>1, <2>3
<1>6. CASE ok + bad > 0
    <2>1. PICK q \in 0 .. 200 : IsRate(q, ok, ok + bad) /\ SuccessRate(ok, bad) = 5 * q
        BY <1>1, <1>6, RateOf, ZenonT(60)
    <2>2. PICK n \in Nat : n = ok + bad /\ ok <= n
        OBVIOUS
    <2>3. IsLowerBound(5 * p, ok, n) /\ ~IsLowerBound(5 * (q + 1), ok, n)
        BY <1>4, <2>1, <2>2, SMTT(40) DEF IsRate
    <2>4. p <= q
        BY <2>2, <2>3, RatesCompare
    <2> QED BY <1>2, <2>1, <2>4
<1> QED BY <1>5, <1>6

(* A reported success never lowers it, once there is a report.  (A first   *)
(* success does: it replaces the neutral 500 by 205.)                      *)
THEOREM SuccessesNeverHurt ==
    ASSUME NEW ok \in Nat, NEW bad \in Nat,
           ok + bad > 0
    PROVE  SuccessRate(ok, bad) <= SuccessRate(ok + 1, bad)
<1>1. (ok + 1) + bad > 0 /\ ok + 1 \in Nat /\ ok \in Nat
    OBVIOUS
<1>2. PICK p \in 0 .. 200 : IsRate(p, ok, ok + bad) /\ SuccessRate(ok, bad) = 5 * p
    BY <1>1, RateOf, ZenonT(60)
<1>3. PICK q \in 0 .. 200 :
        IsRate(q, ok + 1, (ok + 1) + bad) /\ SuccessRate(ok + 1, bad) = 5 * q
    BY <1>1, RateOf, ZenonT(60)
<1>4. IsLowerBound(5 * p, ok + 1, ok + bad + 1)
    <2>1. 5 * p \in Nat /\ ok \in Nat /\ ok + bad \in Nat /\ ok <= ok + bad
        OBVIOUS
    <2> QED BY <1>2, <2>1, SuccessesRaise DEF IsRate
<1>5. (ok + 1) + bad = ok + bad + 1 /\ ok + 1 <= ok + bad + 1
    OBVIOUS
<1>6. ~IsLowerBound(5 * (q + 1), ok + 1, ok + bad + 1)
    BY <1>3, <1>5 DEF IsRate
<1>7. PICK n \in Nat : n = ok + bad + 1 /\ ok + 1 <= n
    OBVIOUS
<1>8. IsLowerBound(5 * p, ok + 1, n) /\ ~IsLowerBound(5 * (q + 1), ok + 1, n)
    BY <1>4, <1>6, <1>7
<1>9. PICK k \in Nat : k = ok + 1
    BY SMTT(40)
<1>10. p <= q
    BY <1>7, <1>8, <1>9, RatesCompare
<1> QED BY <1>2, <1>3, <1>10

(* The rank grows with freshness, success and time left, the other scores  *)
(* being the same.                                                         *)
LEMMA RankGrows ==
    ASSUME NEW s, NEW t,
           {s.trust, s.freshness, s.confidence, s.duplicate, s.success, s.expiry} \subseteq Int,
           {t.trust, t.freshness, t.confidence, t.duplicate, t.success, t.expiry} \subseteq Int,
           s.freshness <= t.freshness, s.success <= t.success, s.expiry <= t.expiry,
           t.trust = s.trust, t.confidence = s.confidence, t.duplicate = s.duplicate
    PROVE  Rank(s) <= Rank(t)
<1> DEFINE blend(r) == 25 * r.trust + 20 * r.freshness + 15 * r.confidence + 25 * r.success
                        + 15 * r.expiry - 30 * r.duplicate
<1>1. blend(s) \in Int /\ blend(t) \in Int /\ blend(s) <= blend(t)
    OBVIOUS
<1>2. ASSUME NEW x \in Int, NEW y \in Int, x <= y
      PROVE  x \div 100 \in Int /\ y \div 100 \in Int /\ x \div 100 <= y \div 100
    BY <1>2
<1>3. Rank(s) = Clamp(blend(s) \div 100) /\ Rank(t) = Clamp(blend(t) \div 100)
    BY DEF Rank
<1> HIDE DEF blend
<1> QED BY <1>1, <1>2, <1>3, ClampGrows
=============================================================================
