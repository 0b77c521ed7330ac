------------------------------ MODULE Ranking ------------------------------
(***************************************************************************)
(* The blend that orders the results of a search: search/ranking.py.  Both *)
(* weights and scores are in thousandths.                                  *)
(***************************************************************************)
EXTENDS Integers

DefaultWeights ==
    [relevance |-> 350, trust |-> 150, freshness |-> 150, confidence |-> 100,
     success |-> 150, expiry |-> 100, duplicate_penalty |-> 200]

(* Weights may be set for some factors only; a document may lack scores. *)
Weights(set) ==
    [f \in DOMAIN DefaultWeights |-> IF f \in DOMAIN set THEN set[f] ELSE DefaultWeights[f]]
Factor == DOMAIN DefaultWeights \ {"duplicate_penalty"}
Scored(doc, f) == IF f \in DOMAIN doc THEN doc[f] ELSE 500
Duplicate(doc) == IF "duplicate" \in DOMAIN doc THEN doc.duplicate ELSE 0

Positive(w) ==
    w.relevance + w.trust + w.freshness + w.confidence + w.success + w.expiry
Penalty_Added(w, doc) == -(w.duplicate_penalty * Duplicate(doc))
Penalty(w, doc) == w.duplicate_penalty * Duplicate(doc)
Blend(w, doc) ==
    w.relevance * Scored(doc, "relevance") + w.trust * Scored(doc, "trust")
    + w.freshness * Scored(doc, "freshness") + w.confidence * Scored(doc, "confidence")
    + w.success * Scored(doc, "success") + w.expiry * Scored(doc, "expiry")
    - Penalty(w, doc)

Clamp(x, top) == IF x < 0 THEN 0 ELSE IF x > top THEN top ELSE x

(* The blend divided by the sum of the positive weights and clamped to     *)
(* 0 .. 1, multiplied by that sum again: it is the same for all results of *)
(* a search, so their order is that of the quotients.                      *)
FinalScore(w, doc) ==
    LET positive == Positive(w)
    IN  IF positive = 0 THEN Clamp(Blend(w, doc), 1000000)
        ELSE IF positive > 0 THEN Clamp(Blend(w, doc), 1000 * positive)
        ELSE Clamp(-(Blend(w, doc)), 1000 * (-positive))

----------------------------------------------------------------------------
(* Weights and scores that are numbers. *)
Numbers(w) == \A f \in DOMAIN DefaultWeights : w[f] \in Int
Document(doc) == (\A f \in Factor : Scored(doc, f) \in Int) /\ Duplicate(doc) \in Int

(* Weights that are not negative, and a document that is at least as good  *)
(* as another one in every factor and no more of a duplicate.              *)
Sane(w) == \A f \in DOMAIN DefaultWeights : w[f] >= 0
Dominates(a, b) ==
    /\ \A f \in Factor : Scored(a, f) >= Scored(b, f)
    /\ Duplicate(a) <= Duplicate(b)
=============================================================================
