----------------------------- MODULE Extraction -----------------------------
(***************************************************************************)
(* What the ingestion pipeline makes of a block of text, before anything   *)
(* is stored: ingestion/extraction.py, structuring.py, dedup.py and the    *)
(* status rule of storage.py.  A text is what the regular expressions find *)
(* in it.  Confidences are thousandths, dates are days from now.           *)
(***************************************************************************)
EXTENDS Integers, Sequences

NoTitle == "none"
NoCode == "none"
NoDate == 999

Precedence == <<"free_shipping", "trial", "bogo", "percentage", "fixed">>
Signals == {Precedence[i] : i \in DOMAIN Precedence}

(* extract_discount: the first of its patterns that is found. *)
DiscountType(text) ==
    IF text.signals = {} THEN "other"
    ELSE LET i == CHOOSE i \in DOMAIN Precedence :
                    /\ Precedence[i] \in text.signals
                    /\ \A j \in 1 .. i - 1 : Precedence[j] \notin text.signals
         IN  Precedence[i]

(* The gate in front of the extractor. *)
LooksLikeCoupon(text) == text.signals # {} \/ text.code # NoCode

(* extract_coupon.  The float of a number prints with a fraction. *)
BaseConfidence_Half == 500
BaseConfidence == 300
Confidence(text) ==
    BaseConfidence + (IF text.signals # {} THEN 250 ELSE 0)
                   + (IF text.code # NoCode THEN 200 ELSE 0)
                   + (IF text.date # NoDate THEN 100 ELSE 0)
Capped(x, most) == IF x > most THEN most ELSE x

Extract(text) ==
    [title |-> text.title, code |-> text.code, type |-> DiscountType(text),
     value |-> IF DiscountType(text) \in {"percentage", "fixed"} THEN "float" ELSE "none",
     date |-> text.date, confidence |-> Capped(Confidence(text), 850), by |-> "extractor"]

(* structure_coupon.  The AI is not asked, no provider answers, or one     *)
(* says something of the text.  A confidence that is not a number raises   *)
(* outside the try; one of zero means that the text is not a coupon.       *)
NotAsked == [confidence |-> "not asked"]
Failed == [confidence |-> "failed"]
Raises == [by |-> "nobody, it raised"]
NotACoupon == [by |-> "nobody, it is no coupon"]
Structure(text, ai) ==
    IF ai \in {NotAsked, Failed} THEN Extract(text)
    ELSE IF ai.confidence = "text" THEN Raises
    ELSE IF ai.confidence = "0" THEN NotACoupon
    ELSE [title |-> IF ai.title # NoTitle THEN ai.title ELSE text.title, code |-> ai.code,
          type |-> IF ai.type \in Signals THEN ai.type ELSE "other", value |-> ai.value,
          date |-> IF ai.date # NoDate THEN ai.date ELSE text.date,
          confidence |-> IF ai.confidence = "low" THEN 400 ELSE 900, by |-> "ai"]

(* compute_content_hash, of one merchant: the number is hashed as it is    *)
(* printed, so that 20 and 20.0 differ.                                    *)
Identity(sc) == <<sc.title, sc.code, sc.type, sc.value>>
Title(id) == id[1]
Code(id) == id[2]

(* count_near_duplicates among the rows stored. *)
NearDuplicates_OfEqualValue(id, ids) == {d \in ids \ {id} : Title(d) = Title(id) /\ d[4] = id[4]}
NearDuplicates(id, ids) ==
    {d \in ids \ {id} : Title(d) = Title(id) \/ (Code(id) # NoCode /\ Code(d) = Code(id))}

(* store_coupon's status; old is the status before, "absent" if created. *)
Sure(sc) == sc.confidence >= 500
StatusOf(sc, old) ==
    IF sc.date # NoDate /\ sc.date <= 0 THEN "expired"
    ELSE IF Sure(sc) THEN "active"
    ELSE IF old = "absent" THEN "pending_review"
    ELSE old
=============================================================================
