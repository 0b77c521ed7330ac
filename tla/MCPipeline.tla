----------------------------- MODULE MCPipeline -----------------------------
(* Three sources, one of them a sitemap and one of no merchant.  Pages     *)
(* have an offer with a code and a date, and a bare URL.                   *)
EXTENDS Pipeline

CONSTANTS s1, s2, s3

Sale == [title |-> "sale", signals |-> {"percentage", "fixed"}, code |-> "CODE", date |-> 5]
Url == [title |-> "url", signals |-> {}, code |-> NoCode, date |-> NoDate]
MCTexts == (s1 :> {Url}) @@ (s2 :> {Url, Sale}) @@ (s3 :> {Sale})
Says(confidence, value, storable) ==
    [confidence |-> confidence, title |-> NoTitle, type |-> "percentage", code |-> "CODE", value |-> value,
     date |-> NoDate, storable |-> storable]
TakesItForAnOffer ==
    [Says("high", "none", TRUE) EXCEPT !.title = "sale", !.type = "other", !.code = NoCode]
MCAnswers ==
    [title \in {"sale", "url"} |->
        IF title = "sale"
        THEN {Says("high", "int", TRUE), Says("high", "text", FALSE), Says("text", "int", TRUE)}
        ELSE {Says("0", "none", TRUE), TakesItForAnOffer}]
=============================================================================
