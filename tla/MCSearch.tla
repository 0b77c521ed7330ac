------------------------------ MODULE MCSearch ------------------------------
(* A merchant with three documents, another one to come whose name is      *)
(* one letter apart, a query that misspells the latter, and what the model *)
(* may answer to it.                                                       *)
EXTENDS Search

CONSTANTS r1, r2, w1, w2, p1, p2, x, y, z

Nike == <<"n", "i", "k", "e">>
Nine == <<"n", "i", "n", "e">>
Asks(word) == [whole |-> word, words |-> <<word>>]
Niek == <<"n", "i", "e", "k">>
MCWord == {Nike, Nine, Niek}
MCKeys == <<(Nine :> 1000), (Nike :> 1000)>>
MCTyped == [q \in {"niek"} |->
    [type |-> "any", soon |-> FALSE] @@ Asks(Niek)]
MCAnswers == [q \in {"niek"} |->
    {[kind |-> "intent", text |-> Nike, merchant |-> Asks(Nike), type |-> "percentage",
      least |-> 20, soon |-> FALSE],
     [kind |-> "bad_field"], [kind |-> "not_an_object"]}]
MCOn == (r1 :> w1) @@ (r2 :> w2)
MCUseAi == (r1 :> {TRUE}) @@ (r2 :> {TRUE})
MCChains == {<<p1, p2>>, <<p2>>}
MCFirstChain == <<p1, p2>>
MCDoc ==
    (x :> [merchant |-> 1, type |-> "percentage", value |-> 20, expires |-> 1,
           relevance |-> 900, trust |-> 200, duplicate |-> 600]) @@
    (y :> [merchant |-> 1, type |-> "percentage", value |-> 30, expires |-> Evergreen,
           relevance |-> 800, trust |-> 900]) @@
    (z :> [merchant |-> 1, type |-> "fixed", value |-> 5, expires |-> 2,
           relevance |-> 700, trust |-> 900, duplicate |-> 900])
MCWeightsOf == <<[relevance |-> 1000, duplicate_penalty |-> 0]>> @@ (0 :> [trust |-> 150])
=============================================================================
