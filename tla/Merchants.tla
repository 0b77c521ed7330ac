----------------------------- MODULE Merchants -----------------------------
(***************************************************************************)
(* How a query is resolved to a merchant in spite of typing errors:        *)
(* services/merchant_service.py and the edit distance of utils/text.py.    *)
(* A word is a sequence of letters.  A query has the words of its          *)
(* normalised text and the whole of it.  Weights and similarities are in   *)
(* thousandths.                                                            *)
(***************************************************************************)
EXTENDS Integers, FiniteSets, SequencesExt

CONSTANTS
    Merchant,   \* the ids of merchants, in the order of the table
    Word,       \* BOUND: the words that occur
    Keys        \* Keys[m]: the weight of each word for merchant m; slug and name weigh 1000

Weight == 0 .. 1000     \* in thousandths

ASSUME MerchantsAssumption ==
    /\ Merchant \subseteq Nat \ {0} /\ IsFiniteSet(Merchant)
    /\ << >> \notin Word /\ \A w \in Word : w \in Seq(Range(w))
    /\ \A m \in Merchant : /\ IsFiniteSet(DOMAIN Keys[m]) /\ DOMAIN Keys[m] \subseteq Word
                          /\ \A k \in DOMAIN Keys[m] : Keys[m][k] \in Weight

NoMerchant == 0

Lower(i, j) == IF i <= j THEN i ELSE j
Longer(a, b) == IF Len(a) >= Len(b) THEN Len(a) ELSE Len(b)

(* levenshtein: insertions, deletions, substitutions, and the swap of two  *)
(* neighbours where no other edit touches them (optimal string alignment). *)
Swapped_Never(a, b, i, j) == FALSE
Swapped(a, b, i, j) == i > 1 /\ j > 1 /\ a[i] = b[j-1] /\ a[i-1] = b[j]
Cells(a, b) == (0 .. Len(a)) \X (0 .. Len(b))
Plain(d, a, b, i, j) ==
    Lower(Lower(d[<<i-1, j>>], d[<<i, j-1>>]) + 1,
          d[<<i-1, j-1>>] + IF a[i] = b[j] THEN 0 ELSE 1)
Cell(d, a, b, i, j) ==
    IF i = 0 THEN j
    ELSE IF j = 0 THEN i
    ELSE IF Swapped(a, b, i, j) THEN Lower(Plain(d, a, b, i, j), d[<<i-2, j-2>>] + 1)
    ELSE Plain(d, a, b, i, j)
Distance(a, b) ==
    LET d[p \in Cells(a, b)] == Cell(d, a, b, p[1], p[2])
    IN  d[<<Len(a), Len(b)>>]

(* In a table, so that each is computed once. *)
Similar(a, b) == ((Longer(a, b) - Distance(a, b)) * 1000) \div Longer(a, b)
Similarity == [a \in Word |-> [b \in Word |-> Similar(a, b)]]

(* _build_alias_index: a key that several merchants have is the last one's. *)
Index(known) ==
    [word \in UNION {DOMAIN Keys[m] : m \in known} |->
        CHOOSE m \in known : /\ word \in DOMAIN Keys[m]
                             /\ \A n \in known : word \in DOMAIN Keys[n] => n <= m]

(* resolve_merchant, in the order in which it tries: the whole query, its  *)
(* words from the first on, the most similar of all pairs of word and key. *)
Threshold == 740
FirstKnown(words, index) ==
    CHOOSE i \in DOMAIN words : /\ words[i] \in DOMAIN index
                                /\ \A j \in 1 .. i - 1 : words[j] \notin DOMAIN index
Score(word, key, m) ==
    IF Len(word) - Len(key) \in -3 .. 3
    THEN (Similarity[word][key] * Keys[m][key]) \div 1000 ELSE 0
Fuzzy(words, index) ==
    LET pairs == {words[i] : i \in DOMAIN words} \X DOMAIN index
        score == [p \in pairs |-> Score(p[1], p[2], index[p[2]])]
        good == {p \in pairs : score[p] >= Threshold /\ \A q \in pairs : score[q] <= score[p]}
    IN  IF good = {} THEN {NoMerchant} ELSE {index[p[2]] : p \in good}

(* The set has several merchants if the best pairs are equally similar: it *)
(* is the order of the dictionary that decides.                            *)
Resolve(known, query) ==
    LET index == Index(known)
        exact == \E i \in DOMAIN query.words : query.words[i] \in DOMAIN index
    IN  IF query.whole \in DOMAIN index THEN {index[query.whole]}
        ELSE IF exact THEN {index[query.words[FirstKnown(query.words, index)]]}
        ELSE Fuzzy(query.words, index)

----------------------------------------------------------------------------
(* What a typing error is, without a distance: a letter more, a letter     *)
(* less, one letter for another, two neighbours in the other order.        *)
OneEdit(w, k) ==
    \/ \E i \in DOMAIN w : RemoveAt(w, i) = k
    \/ \E i \in DOMAIN k : RemoveAt(k, i) = w
    \/ Len(w) = Len(k) /\ Cardinality({i \in DOMAIN w : w[i] # k[i]}) <= 1
    \/ \E i \in 1 .. Len(w) - 1 : k = [w EXCEPT ![i] = w[i + 1], ![i + 1] = w[i]]
Misspelled == {p \in Word \X Word : Len(p[2]) >= 4 /\ OneEdit(p[1], p[2])}
Misspells(words, known) ==
    LET index == Index(known)
    IN  \E w \in ToSet(words), k \in DOMAIN index : Keys[index[k]][k] = 1000 /\ <<w, k>> \in Misspelled
=============================================================================
