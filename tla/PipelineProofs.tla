--------------------------- MODULE PipelineProofs ---------------------------
(***************************************************************************)
(* What the worker's batches leave behind, however many sources there are, *)
(* whatever is on their pages, whatever the AI says of it and whenever a   *)
(* batch crashes.  The argument: what is true of the stored rows is also   *)
(* true of the rows as a batch in flight sees them, and the count that it  *)
(* keeps falls behind its rows by what the current source has added.       *)
(***************************************************************************)
EXTENDS Pipeline, ScoringProofs, FiniteSetTheorems, SequenceTheorems

----------------------------------------------------------------------------
(* The inductive invariant. *)

RowsTyped(rs) == IsFiniteSet(DOMAIN rs) /\ \A id \in DOMAIN rs : rs[id] \in Row

(* LiveIsRecognised and OnlyOriginalIsUnpenalised of any rows, and that    *)
(* their success rates follow their reports, that their scores promise no  *)
(* less time than is left, and are those of a new row until rescored.      *)
Recognised(id) ==
    \E text \in UNION {Texts[r] : r \in Source} : text.title = Title(id) /\ LooksLikeCoupon(text)
LiveRecognised(rs) ==
    \A id \in DOMAIN rs : rs[id].status = "active" /\ rs[id].by = "extractor" => Recognised(id)
Penalised(rs) ==
    \A c, d \in DOMAIN rs :
        c # d /\ Title(c) = Title(d) => rs[c].scores.duplicate > 0 \/ rs[d].scores.duplicate > 0
RatesFollow(rs) ==
    \A id \in DOMAIN rs : rs[id].scores.success = SuccessRate(rs[id].ok, rs[id].bad)
Dated(c) == Expiry(c.days) <= c.scores.expiry /\ (~c.again => c.scores.freshness = SeenNow)
AllDated(rs) == \A id \in DOMAIN rs : Dated(rs[id])
Good(rs) ==
    RowsTyped(rs) /\ LiveRecognised(rs) /\ Penalised(rs) /\ RatesFollow(rs) /\ AllDated(rs)

QueueOf(q, R) == q \in Seq(R) /\ IsInjective(q)
Fields == {"at", "todo", "queue", "rows", "count", "left", "new", "stranded"}
BatchTyped ==
    /\ DOMAIN batch = Fields /\ batch.at \in {"fetch", "items"}
    /\ batch.todo \in Seq(registered) /\ batch.queue \in Seq(registered)
    /\ batch.count \in Nat /\ batch.left \in Nat /\ batch.new \in Nat
    /\ batch.stranded \in BOOLEAN

Outside ==
    /\ registered \subseteq Source
    /\ count \in Nat /\ stranded \in BOOLEAN
    /\ uses \in 0 .. MaxUses
Queued ==
    /\ QueueOf(queue, registered)
    /\ Working => IsInjective(batch.queue) /\ (batch.at = "items" => batch.todo # <<>>)
Counts(n, rs, behind) == n + behind <= Cardinality(DOMAIN rs)
Exactly(n, rs, behind) == n + behind = Cardinality(DOMAIN rs)
Tally ==
    /\ Counts(count, rows, 0) /\ (~stranded => Exactly(count, rows, 0))
    /\ Working => /\ Counts(batch.count, batch.rows, batch.new)
                  /\ ~batch.stranded => Exactly(batch.count, batch.rows, batch.new)
                  /\ batch.at = "fetch" => batch.new = 0
IInv ==
    /\ Outside /\ Queued /\ Tally
    /\ Good(rows) /\ (Working => BatchTyped /\ Good(batch.rows))

----------------------------------------------------------------------------
(* What the extractor and the AI make of a text. *)

Readable(text, ai) ==
    text.date \in Int /\ (ai \in {NotAsked, Failed} \/ ai.date \in Int)

LEMMA StructureWorks ==
    ASSUME NEW text, NEW ai, Readable(text, ai), Structure(text, ai) \notin {Raises, NotACoupon}
    PROVE  LET sc == Structure(text, ai)
           IN  /\ sc.date \in Int /\ sc.confidence \in Int /\ sc.by \in {"extractor", "ai"}
               /\ sc.by = "extractor" => Title(Identity(sc)) = text.title
               /\ sc.by = "extractor" /\ Sure(sc) => LooksLikeCoupon(text)
<1>1. CASE ai \in {NotAsked, Failed}
    <2>1. Structure(text, ai) = Extract(text)
        BY <1>1 DEF Structure
    <2>2. Confidence(text) \in Int /\ (Confidence(text) >= 500 => LooksLikeCoupon(text))
        BY DEF Confidence, BaseConfidence, LooksLikeCoupon
    <2>3. Extract(text).confidence \in Int
          /\ (Extract(text).confidence >= 500 => LooksLikeCoupon(text))
        BY <2>2 DEF Extract, Capped
    <2>4. Extract(text).date = text.date /\ Extract(text).by = "extractor"
          /\ Extract(text).title = text.title
        BY DEF Extract
    <2> QED BY <2>1, <2>3, <2>4 DEF Readable, Sure, Title, Identity
<1>2. CASE ai \notin {NotAsked, Failed}
    <2> DEFINE sc == Structure(text, ai)
    <2>1. sc.date = IF ai.date # NoDate THEN ai.date ELSE text.date
        BY <1>2 DEF Structure
    <2>2. sc.confidence = IF ai.confidence = "low" THEN 400 ELSE 900
        BY <1>2 DEF Structure
    <2>3. sc.by = "ai"
        BY <1>2 DEF Structure
    <2> HIDE DEF sc
    <2>4. sc.date \in Int /\ sc.confidence \in Int
        BY <1>2, <2>1, <2>2 DEF Readable
    <2> QED BY <2>3, <2>4 DEF sc
<1> QED BY <1>1, <1>2

(* The row that a text leaves. *)
LEMMA ScoresTyped ==
    ASSUME NEW a \in Thousandths, NEW b \in Thousandths, NEW c \in Thousandths,
           NEW d \in Thousandths, NEW e \in Thousandths, NEW f \in Thousandths
    PROVE  [trust |-> a, freshness |-> b, confidence |-> c,
            duplicate |-> d, success |-> e, expiry |-> f] \in ScoreRecord
BY DEF ScoreRecord

LEMMA RowOfWorks ==
    ASSUME NEW sc, sc.date \in Int, sc.confidence \in Int, sc.by \in {"extractor", "ai"},
           RowsTyped(batch.rows)
    PROVE  LET id == Identity(sc)
               row == RowOf(sc)
           IN  /\ row \in Row
               /\ row.status = StatusOf(sc, StatusBefore(id)) /\ row.by = By(sc, id)
               /\ row.scores.success = SuccessRate(row.ok, row.bad) /\ Dated(row)
               /\ \A d \in DOMAIN batch.rows :
                     d # id /\ Title(d) = Title(id) => row.scores.duplicate > 0
<1> DEFINE id == Identity(sc)
           near == NearDuplicates(id, DOMAIN batch.rows)
           ok == Reports(id).ok
           bad == Reports(id).bad
           days == IF sc.date = NoDate THEN Never ELSE sc.date
           sure == ConfidenceScore(sc.code # NoCode, sc.value # "none", TRUE, sc.confidence)
           scores == [trust |-> Trust, freshness |-> SeenNow, confidence |-> sure,
                      duplicate |-> Duplicate(Cardinality(near)),
                      success |-> SuccessRate(ok, bad), expiry |-> Expiry(days)]
<1>1. RowOf(sc) = [status |-> StatusOf(sc, StatusBefore(id)), by |-> By(sc, id),
                   ok |-> ok, bad |-> bad, days |-> days, age |-> 0, again |-> FALSE,
                   scores |-> scores]
    BY DEF RowOf, Scores, ReportsOf
<1>2. ok \in Nat /\ bad \in Nat
    BY DEF Reports, RowsTyped, Row
<1>3. days \in Int
    BY DEF Never
<1>4. IsFiniteSet(near)
    BY FS_Subset DEF NearDuplicates, RowsTyped
<1>5. Cardinality(near) \in Nat /\ (near # {} => Cardinality(near) > 0)
    BY <1>4, FS_CardinalityType, FS_EmptySet
<1>6. \A d \in DOMAIN batch.rows : d # id /\ Title(d) = Title(id) => near # {}
    BY DEF NearDuplicates
<1>7. StatusOf(sc, StatusBefore(id)) \in {"active", "expired", "pending_review"}
    BY DEF StatusOf, StatusBefore, RowsTyped, Row
<1>8. By(sc, id) \in {"extractor", "ai"}
    BY DEF By, RowsTyped, Row
<1>9. scores \in ScoreRecord
    <2>1. Trust \in Thousandths
        BY PipelineAssumption
    <2>2. PICK fresh \in Thousandths : fresh = SeenNow
        BY FreshnessRange DEF SeenNow
    <2>3. PICK c \in Thousandths : c = sure
        BY ConfidenceRange
    <2>4. PICK d \in Thousandths : d = Duplicate(Cardinality(near))
        BY <1>5, DuplicateRange
    <2>5. PICK s \in Thousandths : s = SuccessRate(ok, bad)
        BY <1>2, RateRange
    <2>6. PICK e \in Thousandths : e = Expiry(days)
        BY <1>3, ExpiryRange
    <2>7. scores = [trust |-> Trust, freshness |-> fresh, confidence |-> c,
                    duplicate |-> d, success |-> s, expiry |-> e]
        BY <2>2, <2>3, <2>4, <2>5, <2>6
    <2> HIDE DEF scores
    <2> QED BY <2>1, <2>7, ScoresTyped
<1>10. near # {} => scores.duplicate > 0
    BY <1>5, DuplicateRange
<1>11. scores.success = SuccessRate(ok, bad)
    OBVIOUS
<1>12. scores.expiry = Expiry(days) /\ scores.freshness = SeenNow /\ Expiry(days) <= Expiry(days)
    <2>1. PICK e \in Thousandths : e = Expiry(days)
        BY <1>3, ExpiryRange
    <2>2. e <= e
        BY DEF Thousandths
    <2> QED BY <2>1, <2>2
<1> HIDE DEF near, ok, bad, days, sure, scores, id
<1>13. RowOf(sc) \in Row
    BY <1>1, <1>2, <1>3, <1>7, <1>8, <1>9 DEF Row
<1>14. Dated(RowOf(sc))
    BY <1>1, <1>12 DEF Dated
<1> QED BY <1>1, <1>6, <1>10, <1>11, <1>13, <1>14 DEF id

----------------------------------------------------------------------------
(* The rows keep what is true of them. *)

(* Storing what was read of a text. *)
Stored(id, row) ==
    [d \in DOMAIN batch.rows \cup {id} |-> IF d = id THEN row ELSE batch.rows[d]]

LEMMA StoringKeeps ==
    ASSUME Good(batch.rows), NEW r \in Source, NEW text \in Texts[r], NEW ai,
           Readable(text, ai), Structure(text, ai) \notin {Raises, NotACoupon}
    PROVE  LET sc == Structure(text, ai)
           IN  Good(Stored(Identity(sc), RowOf(sc)))
<1> DEFINE sc == Structure(text, ai)
           id == Identity(sc)
           row == RowOf(sc)
           new == Stored(id, row)
<1>1. /\ sc.date \in Int /\ sc.confidence \in Int /\ sc.by \in {"extractor", "ai"}
      /\ sc.by = "extractor" => Title(id) = text.title
      /\ sc.by = "extractor" /\ Sure(sc) => LooksLikeCoupon(text)
    BY StructureWorks
<1> HIDE DEF sc
<1>2. /\ row \in Row
      /\ row.status = StatusOf(sc, StatusBefore(id)) /\ row.by = By(sc, id)
      /\ row.scores.success = SuccessRate(row.ok, row.bad) /\ Dated(row)
      /\ \A d \in DOMAIN batch.rows : d # id /\ Title(d) = Title(id) => row.scores.duplicate > 0
    BY <1>1, RowOfWorks DEF Good
<1> HIDE DEF row, id
<1>3. DOMAIN new = DOMAIN batch.rows \cup {id}
    BY DEF Stored
<1>4. new[id] = row /\ \A d \in DOMAIN batch.rows : d # id => new[d] = batch.rows[d]
    BY DEF Stored
<1> HIDE DEF new
<1>5. RowsTyped(new)
    <2>1. IsFiniteSet(DOMAIN new)
        BY <1>3, FS_AddElement DEF Good, RowsTyped
    <2>2. \A d \in DOMAIN new : new[d] \in Row
        BY <1>2, <1>3, <1>4 DEF Good, RowsTyped
    <2> QED BY <2>1, <2>2 DEF RowsTyped
<1>6. row.status = "active" /\ row.by = "extractor" => Recognised(id)
    <2>1. CASE Sure(sc)
        <3>1. row.by = sc.by
            BY <1>2, <2>1 DEF By
        <3>2. text \in UNION {Texts[q] : q \in Source}
            OBVIOUS
        <3> QED BY <1>1, <2>1, <3>1, <3>2 DEF Recognised
    <2>2. CASE ~Sure(sc) /\ id \in DOMAIN batch.rows
        <3>1. row.by = batch.rows[id].by
            BY <1>2, <2>2 DEF By
        <3>2. row.status = "active" => batch.rows[id].status = "active"
            BY <1>2, <2>2 DEF StatusOf, StatusBefore
        <3> QED BY <2>2, <3>1, <3>2 DEF Good, LiveRecognised
    <2>3. CASE ~Sure(sc) /\ id \notin DOMAIN batch.rows
        BY <1>2, <2>3 DEF StatusOf, StatusBefore
    <2> QED BY <2>1, <2>2, <2>3
<1>7. LiveRecognised(new)
    BY <1>3, <1>4, <1>6 DEF Good, LiveRecognised
<1>8. Penalised(new)
    <2>1. ASSUME NEW c \in DOMAIN batch.rows, NEW d \in DOMAIN batch.rows, c # d, c # id, d # id,
                 Title(c) = Title(d)
          PROVE  new[c].scores.duplicate > 0 \/ new[d].scores.duplicate > 0
        BY <1>4, <2>1 DEF Good, Penalised
    <2>2. ASSUME NEW d \in DOMAIN batch.rows, d # id, Title(d) = Title(id)
          PROVE  new[id].scores.duplicate > 0
        BY <1>2, <1>4, <2>2
    <2> QED BY <1>3, <2>1, <2>2 DEF Penalised
<1>9. RatesFollow(new)
    BY <1>2, <1>3, <1>4 DEF Good, RatesFollow
<1>10. AllDated(new)
    BY <1>2, <1>3, <1>4 DEF Good, AllDated
<1> QED BY <1>5, <1>7, <1>8, <1>9, <1>10 DEF Good, new, row, id, sc

(* Whatever happens to rows between the batches. *)
SameOffer(c, d) ==
    /\ d \in Row /\ d.by = c.by /\ (d.status = "active" => c.status = "active")
    /\ d.scores.duplicate = c.scores.duplicate
    /\ d.scores.success = SuccessRate(d.ok, d.bad) /\ Dated(d)

LEMMA ChangesKeep ==
    ASSUME NEW rs, NEW new, Good(rs), DOMAIN new = DOMAIN rs,
           \A id \in DOMAIN rs : SameOffer(rs[id], new[id])
    PROVE  Good(new)
<1>1. RowsTyped(new)
    BY DEF Good, RowsTyped, SameOffer
<1>2. LiveRecognised(new)
    BY DEF Good, LiveRecognised, SameOffer
<1>3. Penalised(new)
    BY DEF Good, Penalised, SameOffer
<1>4. RatesFollow(new)
    BY DEF RatesFollow, SameOffer
<1>5. AllDated(new)
    BY DEF AllDated, SameOffer
<1> QED BY <1>1, <1>2, <1>3, <1>4, <1>5 DEF Good

LEMMA RescoredWorks ==
    ASSUME NEW c \in Row
    PROVE  LET s == Rescored(c)
           IN  /\ s \in ScoreRecord /\ s.success = SuccessRate(c.ok, c.bad)
               /\ s.trust = c.scores.trust /\ s.confidence = c.scores.confidence
               /\ s.duplicate = c.scores.duplicate
               /\ s.freshness = Freshness(c.age) /\ s.expiry = Expiry(c.days)
<1>1. c.ok \in Nat /\ c.bad \in Nat /\ c.age \in Nat /\ c.days \in Int /\ c.scores \in ScoreRecord
    BY DEF Row
<1>2. PICK f \in Thousandths : f = Freshness(c.age)
    BY <1>1, FreshnessRange
<1>3. PICK s \in Thousandths : s = SuccessRate(c.ok, c.bad)
    BY <1>1, RateRange
<1>4. PICK e \in Thousandths : e = Expiry(c.days)
    BY <1>1, ExpiryRange
<1>5. PICK o \in ScoreRecord : o = c.scores
    BY <1>1
<1>6. PICK t : t = [o EXCEPT !.freshness = f, !.success = s, !.expiry = e]
    OBVIOUS
<1>7. t = Rescored(c)
    BY <1>2, <1>3, <1>4, <1>5, <1>6 DEF Rescored
<1> DEFINE D == {"trust", "freshness", "confidence", "duplicate", "success", "expiry"}
<1>8. o \in [D -> Thousandths]
    BY DEF ScoreRecord
<1>9. t \in [D -> Thousandths]
    BY <1>6, <1>8
<1>10. /\ t.success = s /\ t.freshness = f /\ t.expiry = e
       /\ t.trust = o.trust /\ t.confidence = o.confidence /\ t.duplicate = o.duplicate
    BY <1>6, <1>8
<1>11. t \in ScoreRecord
    BY <1>9 DEF ScoreRecord
<1> QED BY <1>2, <1>3, <1>4, <1>5, <1>7, <1>10, <1>11

----------------------------------------------------------------------------
(* The queue of the sources. *)

LEMMA RemoveAtWorks ==
    ASSUME NEW S, NEW q \in Seq(S), NEW i \in 1 .. Len(q)
    PROVE  /\ RemoveAt(q, i) \in Seq(S) /\ Len(RemoveAt(q, i)) = Len(q) - 1
           /\ \A j \in 1 .. Len(q) - 1 : RemoveAt(q, i)[j] = IF j < i THEN q[j] ELSE q[j + 1]
<1> DEFINE a == SubSeq(q, 1, i - 1)
           b == SubSeq(q, i + 1, Len(q))
<1>1. a \in Seq(S) /\ Len(a) = i - 1 /\ \A j \in 1 .. i - 1 : a[j] = q[j]
    <2>1. \A j \in 1 .. i - 1 : q[j] \in S
        OBVIOUS
    <2> QED BY <2>1, SubSeqProperties
<1>2. b \in Seq(S) /\ Len(b) = Len(q) - i /\ \A j \in 1 .. Len(q) - i : b[j] = q[j + i]
    <2>1. \A j \in i + 1 .. Len(q) : q[j] \in S
        OBVIOUS
    <2>2. /\ b \in Seq(S) /\ Len(b) = IF i + 1 <= Len(q) THEN Len(q) - (i + 1) + 1 ELSE 0
          /\ \A j \in 1 .. Len(q) - (i + 1) + 1 : b[j] = q[(i + 1) + j - 1]
        BY <2>1, SubSeqProperties
    <2> HIDE DEF b
    <2>3. Len(b) = Len(q) - i
        BY <2>2
    <2>4. ASSUME NEW j \in 1 .. Len(q) - i
          PROVE  b[j] = q[j + i]
        <3>1. j \in 1 .. Len(q) - (i + 1) + 1 /\ (i + 1) + j - 1 = j + i
            OBVIOUS
        <3> QED BY <2>2, <3>1
    <2> QED BY <2>2, <2>3, <2>4
<1> HIDE DEF a, b
<1>3. /\ a \o b \in Seq(S) /\ Len(a \o b) = Len(a) + Len(b)
      /\ \A j \in 1 .. Len(a) + Len(b) :
            (a \o b)[j] = IF j <= Len(a) THEN a[j] ELSE b[j - Len(a)]
    BY <1>1, <1>2, ConcatProperties
<1>4. ASSUME NEW j \in 1 .. Len(q) - 1
      PROVE  (a \o b)[j] = IF j < i THEN q[j] ELSE q[j + 1]
    <2>1. CASE j < i
        BY <1>1, <1>2, <1>3, <2>1
    <2>2. CASE j >= i
        <3>1. PICK k \in 1 .. Len(q) - i : k = j - (i - 1) /\ k + i = j + 1
            BY <2>2
        <3>2. (a \o b)[j] = b[k]
            <4>1. Len(a) = i - 1 /\ j \in 1 .. Len(a) + Len(b)
                BY <1>1, <1>2
            <4>2. (a \o b)[j] = b[j - Len(a)]
                BY <1>3, <2>2, <4>1
            <4> QED BY <3>1, <4>1, <4>2
        <3>3. b[k] = q[k + i]
            BY <1>2
        <3>4. q[k + i] = q[j + 1]
            BY <3>1
        <3> QED BY <2>2, <3>2, <3>3, <3>4
    <2>3. j < i \/ j >= i
        OBVIOUS
    <2> QED BY <2>1, <2>2, <2>3
<1>5. Len(a \o b) = Len(q) - 1
    BY <1>1, <1>2, <1>3
<1>6. RemoveAt(q, i) = a \o b
    BY DEF RemoveAt, a, b
<1> QED BY <1>3, <1>4, <1>5, <1>6

LEMMA RemoveFirstWorks ==
    ASSUME NEW S, NEW q \in Seq(S), NEW e
    PROVE  \/ (\A i \in 1 .. Len(q) : q[i] # e) /\ RemoveFirst(q, e) = q
           \/ \E i \in 1 .. Len(q) : q[i] = e /\ RemoveFirst(q, e) = RemoveAt(q, i)
<1> DEFINE I == {i \in 1 .. Len(q) : q[i] = e}
<1>1. CASE \A i \in 1 .. Len(q) : q[i] # e
    BY <1>1 DEF RemoveFirst
<1>2. CASE \E i \in 1 .. Len(q) : q[i] = e
    <2>1. I \in SUBSET Nat /\ I # {}
        BY <1>2
    <2>2. SelectInSeq(q, LAMBDA v : v = e) = Min(I)
        BY <2>1 DEF SelectInSeq
    <2>3. RemoveFirst(q, e) = RemoveAt(q, Min(I))
        BY <1>2, <2>2 DEF RemoveFirst
    <2> HIDE DEF I
    <2>4. Min(I) \in I
        BY <2>1, LeastNumber DEF Min
    <2> QED BY <2>3, <2>4 DEF I
<1> QED BY <1>1, <1>2

LEMMA ToTheBackWorks ==
    ASSUME NEW S, NEW q \in Seq(S), NEW r \in S
    PROVE  /\ ToTheBack(r, q) \in Seq(S)
           /\ IsInjective(q) => IsInjective(ToTheBack(r, q))
<1> DEFINE t == RemoveFirst(q, r)
<1>1. t \in Seq(S) /\ (IsInjective(q) => IsInjective(t) /\ \A j \in 1 .. Len(t) : t[j] # r)
    <2>1. CASE (\A i \in 1 .. Len(q) : q[i] # r) /\ t = q
        BY <2>1
    <2>2. CASE \E i \in 1 .. Len(q) : q[i] = r /\ t = RemoveAt(q, i)
        <3>1. PICK i \in 1 .. Len(q) : q[i] = r /\ t = RemoveAt(q, i)
            BY <2>2
        <3> HIDE DEF t
        <3>2. t \in Seq(S) /\ Len(t) = Len(q) - 1
              /\ \A j \in 1 .. Len(q) - 1 : t[j] = IF j < i THEN q[j] ELSE q[j + 1]
            BY <3>1, RemoveAtWorks
        <3>3. IsInjective(q) => \A j, k \in 1 .. Len(q) : q[j] = q[k] => j = k
            BY DEF IsInjective
        <3>4. ASSUME IsInjective(q), NEW j \in 1 .. Len(t), NEW k \in 1 .. Len(t), t[j] = t[k]
              PROVE  j = k
            <4>1. PICK x \in 1 .. Len(q) : x = (IF j < i THEN j ELSE j + 1) /\ t[j] = q[x]
                BY <3>2
            <4>2. PICK y \in 1 .. Len(q) : y = (IF k < i THEN k ELSE k + 1) /\ t[k] = q[y]
                BY <3>2
            <4>3. x = y
                BY <3>3, <3>4, <4>1, <4>2
            <4> QED BY <4>1, <4>2, <4>3
        <3>5. ASSUME IsInjective(q), NEW j \in 1 .. Len(t)
              PROVE  t[j] # r
            <4>1. PICK x \in 1 .. Len(q) : x # i /\ t[j] = q[x]
                <5>1. CASE j < i
                    BY <3>2, <5>1
                <5>2. CASE j >= i
                    BY <3>2, <5>2
                <5> QED BY <5>1, <5>2
            <4> QED BY <3>1, <3>3, <3>5, <4>1
        <3>6. IsInjective(q) => IsInjective(t)
            BY <3>2, <3>4 DEF IsInjective
        <3> QED BY <3>2, <3>5, <3>6
    <2> QED BY <2>1, <2>2, RemoveFirstWorks
<1> HIDE DEF t
<1>2. Append(t, r) \in Seq(S) /\ Len(Append(t, r)) = Len(t) + 1
      /\ \A j \in 1 .. Len(t) + 1 : Append(t, r)[j] = IF j <= Len(t) THEN t[j] ELSE r
    BY <1>1
<1>3. IsInjective(q) => IsInjective(Append(t, r))
    BY <1>1, <1>2 DEF IsInjective
<1> QED BY <1>2, <1>3 DEF ToTheBack, t

(* A batch takes registered sources, and no more than its limit. *)
LEMMA DueWorks ==
    ASSUME registered \subseteq Source, queue \in Seq(registered), NEW todo \in Due
    PROVE  todo \in Seq(registered) /\ Len(todo) <= Limit
<1>1. PICK new \in SetToSeqs(registered \ ToSet(queue)) : todo = FirstOf(new \o queue)
    BY DEF Due
<1>2. new \in Seq(registered)
    <2> DEFINE fresh == registered \ ToSet(queue)
    <2>1. new \in [1 .. Cardinality(fresh) -> fresh]
        BY DEF SetToSeqs
    <2>2. Cardinality(fresh) \in Nat
        BY PipelineAssumption, FS_Subset, FS_CardinalityType
    <2>3. PICK n \in Nat : new \in [1 .. n -> registered]
        BY <2>1, <2>2
    <2> QED BY <2>3, SeqDef
<1>3. new \o queue \in Seq(registered)
    BY <1>2
<1>4. PICK s \in Seq(registered) : s = new \o queue
    BY <1>3
<1>5. PICK k \in Nat : k = Capped(Len(s), Limit) /\ k <= Len(s) /\ k <= Limit
    BY PipelineAssumption DEF Capped
<1>6. SubSeq(s, 1, k) \in Seq(registered) /\ Len(SubSeq(s, 1, k)) = k
    <2>1. \A j \in 1 .. k : s[j] \in registered
        BY <1>5
    <2> QED BY <1>5, <2>1, SubSeqProperties
<1> QED BY <1>1, <1>4, <1>5, <1>6 DEF FirstOf

----------------------------------------------------------------------------
(* The steps of a batch. *)

LEMMA BeginKeeps ==
    ASSUME IInv, NEW todo \in Seq(registered), Begin(todo), uses' \in 0 .. MaxUses
    PROVE  IInv'
<1>1. batch' = [at |-> "fetch", todo |-> todo, queue |-> queue, rows |-> rows,
                count |-> count, left |-> 0, new |-> 0, stranded |-> stranded]
    BY DEF Begin
<1>2. /\ batch'.at = "fetch" /\ batch'.todo = todo /\ batch'.queue = queue /\ batch'.rows = rows
      /\ batch'.count = count /\ batch'.new = 0 /\ batch'.stranded = stranded /\ batch'.left = 0
      /\ DOMAIN batch' = Fields
    BY <1>1 DEF Fields
<1>3. registered' = registered /\ queue' = queue /\ rows' = rows /\ count' = count
      /\ stranded' = stranded
    BY DEF Begin
<1>4. BatchTyped'
    BY <1>2, <1>3 DEF IInv, Queued, QueueOf, Outside, BatchTyped
<1>5. Outside' /\ Queued'
    BY <1>2, <1>3 DEF IInv, Outside, Queued, QueueOf
<1>6. Tally'
    BY <1>2, <1>3 DEF IInv, Tally, Counts, Exactly
<1>7. Good(rows)' /\ Good(batch.rows)'
    BY <1>2, <1>3 DEF IInv
<1> QED BY <1>4, <1>5, <1>6, <1>7 DEF IInv

LEMMA WorkingFacts ==
    ASSUME IInv, Working
    PROVE  BatchTyped /\ Cardinality(DOMAIN batch.rows) \in Nat
BY FS_CardinalityType DEF IInv, Good, RowsTyped

LEMMA EndSourceKeeps ==
    ASSUME IInv, Working, NEW status \in {"failed", "succeeded"}, batch.todo # <<>>, EndSource(status)
    PROVE  IInv'
<1>1. DOMAIN batch = Fields /\ batch.todo \in Seq(registered) /\ batch.queue \in Seq(registered)
      /\ batch.count \in Nat /\ batch.new \in Nat /\ Cardinality(DOMAIN batch.rows) \in Nat
      /\ batch.stranded \in BOOLEAN
    BY WorkingFacts DEF BatchTyped
<1>2. registered' = registered /\ queue' = queue /\ rows' = rows /\ count' = count
      /\ stranded' = stranded /\ uses' = uses
    BY DEF EndSource, outside
<1>3. Tail(batch.todo) \in Seq(registered) /\ Current \in registered
    BY <1>1, HeadTailProperties DEF Current
<1>4. Crawled(status) \in Seq(registered) /\ IsInjective(Crawled(status))
    BY <1>1, <1>3, ToTheBackWorks DEF Crawled, IInv, Queued
<1>5. Counted(status) = IF status = "succeeded" THEN batch.count + batch.new ELSE batch.count
    BY DEF Counted
<1>6. PICK late \in BOOLEAN : late = (batch.stranded \/ (status = "failed" /\ batch.new > 0))
    BY <1>1
<1>7. batch' = [batch EXCEPT !.at = "fetch", !.todo = Tail(batch.todo), !.queue = Crawled(status),
                             !.count = Counted(status), !.left = 0, !.new = 0, !.stranded = late]
    BY <1>6 DEF EndSource
<1>8. /\ batch'.at = "fetch" /\ batch'.todo = Tail(batch.todo) /\ batch'.queue = Crawled(status)
      /\ batch'.count = Counted(status) /\ batch'.left = 0 /\ batch'.new = 0
      /\ batch'.stranded = late /\ batch'.rows = batch.rows
      /\ DOMAIN batch' = Fields
    BY <1>1, <1>7 DEF Fields
<1>9. BatchTyped'
    BY <1>1, <1>2, <1>3, <1>4, <1>5, <1>8 DEF BatchTyped
<1>10. Outside' /\ Queued'
    BY <1>2, <1>4, <1>8 DEF IInv, Outside, Queued, QueueOf
<1>11. Tally'
    <2>1. Counts(batch'.count, batch'.rows, 0)
        BY <1>1, <1>5, <1>8 DEF IInv, Tally, Counts
    <2>2. ~late => Exactly(batch'.count, batch'.rows, 0)
        <3>1. ~late => ~batch.stranded /\ Counted(status) = batch.count + batch.new
            <4>1. ~late => ~batch.stranded /\ ~(status = "failed" /\ batch.new > 0)
                BY <1>6, ZenonT(60)
            <4>2. status # "failed" => Counted(status) = batch.count + batch.new
                BY <1>5
            <4>3. ~(batch.new > 0) => Counted(status) = batch.count + batch.new
                BY <1>1, <1>5
            <4> QED BY <4>1, <4>2, <4>3
        <3>2. ~batch.stranded => batch.count + batch.new = Cardinality(DOMAIN batch.rows)
            BY DEF IInv, Tally, Exactly
        <3>3. ~late => Counted(status) + 0 = Cardinality(DOMAIN batch.rows)
            BY <1>1, <3>1, <3>2
        <3> QED BY <1>8, <3>3 DEF Exactly
    <2> QED BY <1>2, <1>8, <2>1, <2>2 DEF IInv, Tally
<1>12. Good(rows)' /\ Good(batch.rows)'
    BY <1>2, <1>8 DEF IInv
<1> QED BY <1>9, <1>10, <1>11, <1>12 DEF IInv

(* The next text of a page leaves no row, or one. *)
LEMMA SkipKeeps ==
    ASSUME IInv, Working, batch.at = "items", batch.left > 0,
           batch' = [batch EXCEPT !.left = @ - 1],
           UNCHANGED <<queue, rows, count, stranded, outside>>
    PROVE  IInv'
<1>1. DOMAIN batch = Fields /\ batch.left \in Nat
    BY WorkingFacts DEF BatchTyped
<1>2. /\ batch'.at = batch.at /\ batch'.todo = batch.todo /\ batch'.queue = batch.queue
      /\ batch'.rows = batch.rows /\ batch'.count = batch.count /\ batch'.new = batch.new
      /\ batch'.stranded = batch.stranded /\ batch'.left = batch.left - 1 /\ DOMAIN batch' = Fields
    BY <1>1 DEF Fields
<1>3. registered' = registered /\ queue' = queue /\ rows' = rows /\ count' = count
      /\ stranded' = stranded /\ uses' = uses
    BY DEF outside
<1>4. BatchTyped'
    BY <1>1, <1>2, <1>3, WorkingFacts DEF BatchTyped
<1>5. Outside' /\ Queued'
    BY <1>2, <1>3 DEF IInv, Outside, Queued, QueueOf
<1>6. Tally'
    BY <1>2, <1>3 DEF IInv, Tally, Counts, Exactly
<1>7. Good(rows)' /\ Good(batch.rows)'
    BY <1>2, <1>3 DEF IInv
<1> QED BY <1>4, <1>5, <1>6, <1>7 DEF IInv

LEMMA StoreKeeps ==
    ASSUME IInv, Working, batch.at = "items", batch.left > 0,
           NEW r \in Source, NEW text \in Texts[r], NEW ai, Readable(text, ai),
           Structure(text, ai) \notin {Raises, NotACoupon}, Store(Structure(text, ai)),
           UNCHANGED <<queue, rows, count, stranded, outside>>
    PROVE  IInv'
<1> DEFINE sc == Structure(text, ai)
           id == Identity(sc)
           new == Stored(id, RowOf(sc))
<1>1. DOMAIN batch = Fields /\ batch.left \in Nat /\ batch.new \in Nat /\ batch.count \in Nat
      /\ Cardinality(DOMAIN batch.rows) \in Nat
    BY WorkingFacts DEF BatchTyped
<1>2. Good(new)
    BY StoringKeeps DEF IInv
<1> HIDE DEF sc
<1>3. batch' = [batch EXCEPT !.left = @ - 1, !.new = @ + Created(id), !.rows = new]
    BY DEF Store, Stored, sc
<1>4. DOMAIN new = DOMAIN batch.rows \cup {id}
    BY DEF Stored
<1>5. Created(id) \in 0 .. 1 /\ Cardinality(DOMAIN new) = Cardinality(DOMAIN batch.rows) + Created(id)
    <2>1. IsFiniteSet(DOMAIN batch.rows)
        BY DEF IInv, Good, RowsTyped
    <2>2. Cardinality(DOMAIN new) = IF id \in DOMAIN batch.rows THEN Cardinality(DOMAIN batch.rows)
                                    ELSE Cardinality(DOMAIN batch.rows) + 1
        BY <1>4, <2>1, FS_AddElement
    <2> QED BY <1>1, <2>2 DEF Created
<1> HIDE DEF new, id
<1>6. /\ batch'.at = batch.at /\ batch'.todo = batch.todo /\ batch'.queue = batch.queue
      /\ batch'.rows = new /\ batch'.count = batch.count /\ batch'.new = batch.new + Created(id)
      /\ batch'.stranded = batch.stranded /\ batch'.left = batch.left - 1 /\ DOMAIN batch' = Fields
    BY <1>1, <1>3 DEF Fields
<1>7. registered' = registered /\ queue' = queue /\ rows' = rows /\ count' = count
      /\ stranded' = stranded /\ uses' = uses
    BY DEF outside
<1>8. BatchTyped'
    BY <1>1, <1>5, <1>6, <1>7, WorkingFacts DEF BatchTyped
<1>9. Outside' /\ Queued'
    BY <1>6, <1>7 DEF IInv, Outside, Queued, QueueOf
<1>10. Tally'
    <2>1. Counts(batch.count, batch.rows, batch.new)
        BY DEF IInv, Tally
    <2>2. Counts(batch'.count, batch'.rows, batch'.new)
        BY <1>1, <1>5, <1>6, <2>1 DEF Counts
    <2>3. ~batch.stranded => Exactly(batch.count, batch.rows, batch.new)
        BY DEF IInv, Tally
    <2>4. ~batch.stranded => Exactly(batch'.count, batch'.rows, batch'.new)
        BY <1>1, <1>5, <1>6, <2>3 DEF Exactly
    <2>5. batch'.at # "fetch" /\ batch'.stranded = batch.stranded
        BY <1>6
    <2>6. Counts(count, rows, 0)' /\ (~stranded => Exactly(count, rows, 0))'
        BY <1>7 DEF IInv, Tally, Counts, Exactly
    <2> QED BY <2>2, <2>4, <2>5, <2>6 DEF Tally
<1>11. Good(rows)' /\ Good(batch.rows)'
    BY <1>2, <1>6, <1>7 DEF IInv
<1> QED BY <1>8, <1>9, <1>10, <1>11 DEF IInv

LEMMA RollBackKeeps ==
    ASSUME IInv, RollBack
    PROVE  IInv'
<1>1. /\ registered' = registered /\ queue' = queue /\ rows' = rows /\ count' = count
      /\ stranded' = stranded /\ uses' = uses
    BY DEF RollBack, outside
<1>2. ~Working'
    BY DEF RollBack, Working
<1>3. Outside'
    BY <1>1, PipelineAssumption DEF IInv, Outside
<1>4. Queued' /\ Tally'
    BY <1>1, <1>2 DEF IInv, Queued, QueueOf, Tally, Counts, Exactly
<1>5. Good(rows)'
    BY <1>1 DEF IInv
<1> QED BY <1>2, <1>3, <1>4, <1>5 DEF IInv

LEMMA CommitKeeps ==
    ASSUME IInv, Working, CommitBatch
    PROVE  IInv'
<1>1. /\ registered' = registered /\ queue' = batch.queue /\ rows' = batch.rows
      /\ count' = batch.count /\ stranded' = batch.stranded /\ uses' = uses
      /\ batch.at = "fetch"
    BY DEF CommitBatch, outside
<1>2. ~Working'
    BY DEF CommitBatch, Working
<1>3. BatchTyped
    BY WorkingFacts
<1>4. Outside'
    BY <1>1, <1>3 DEF IInv, Outside, BatchTyped
<1>5. Queued'
    BY <1>1, <1>2, <1>3 DEF IInv, Queued, QueueOf, BatchTyped
<1>6. batch.new = 0
    BY <1>1 DEF IInv, Tally
<1>7. Tally'
    BY <1>1, <1>2, <1>6 DEF IInv, Tally, Counts, Exactly
<1>8. Good(rows)'
    BY <1>1 DEF IInv
<1> QED BY <1>2, <1>4, <1>5, <1>7, <1>8 DEF IInv

----------------------------------------------------------------------------
(* What happens between the batches. *)

LEMMA RowsChangeKeeps ==
    ASSUME IInv, ~Working, ~Working', uses' \in 0 .. MaxUses, DOMAIN rows' = DOMAIN rows,
           \A id \in DOMAIN rows : SameOffer(rows[id], rows'[id]),
           UNCHANGED <<registered, queue, count, stranded>>
    PROVE  IInv'
<1>1. Good(rows)'
    BY ChangesKeep DEF IInv
<1>2. Outside' /\ Queued'
    BY DEF IInv, Outside, Queued, QueueOf
<1>3. Tally'
    BY DEF IInv, Tally, Counts, Exactly
<1> QED BY <1>1, <1>2, <1>3 DEF IInv

LEMMA UsedWorks ==
    ASSUME IInv, Used
    PROVE  uses' \in 0 .. MaxUses
BY PipelineAssumption DEF IInv, Outside, Used

LEMMA PutKeeps ==
    ASSUME IInv, NEW id \in DOMAIN rows, NEW c, SameOffer(rows[id], c), Put(id, c)
    PROVE  IInv'
<1>1. ~Working /\ ~Working' /\ uses' \in 0 .. MaxUses
    BY UsedWorks DEF Put, Between, Working
<1>2. rows' = [rows EXCEPT ![id] = c] /\ UNCHANGED <<registered, queue, count, stranded>>
    BY DEF Put
<1>3. DOMAIN rows' = DOMAIN rows /\ rows'[id] = c /\ \A d \in DOMAIN rows : d # id => rows'[d] = rows[d]
    BY <1>2
<1>4. \A d \in DOMAIN rows : SameOffer(rows[d], rows[d])
    BY DEF IInv, Good, RowsTyped, RatesFollow, AllDated, SameOffer
<1>5. \A d \in DOMAIN rows : SameOffer(rows[d], rows'[d])
    BY <1>3, <1>4
<1> QED BY <1>1, <1>2, <1>3, <1>5, RowsChangeKeeps

LEMMA RescoringKeepsOffer ==
    ASSUME NEW c \in Row
    PROVE  SameOffer(c, Touched([c EXCEPT !.scores = Rescored(c), !.again = TRUE]))
<1>1. PICK s \in ScoreRecord :
        /\ s = Rescored(c) /\ s.success = SuccessRate(c.ok, c.bad)
        /\ s.duplicate = c.scores.duplicate /\ s.expiry = Expiry(c.days)
    BY RescoredWorks
<1>2. PICK e \in Row : e = [c EXCEPT !.scores = s, !.again = TRUE]
    BY DEF Row
<1>3. /\ e.status = c.status /\ e.by = c.by /\ e.scores = s /\ e.ok = c.ok /\ e.bad = c.bad
      /\ e.days = c.days /\ e.again
    BY <1>2 DEF Row
<1>4. PICK f \in Row : f = Touched(e)
    BY DEF Touched, Row
<1>5. /\ f.status = e.status /\ f.by = e.by /\ f.scores = e.scores /\ f.ok = e.ok
      /\ f.bad = e.bad /\ f.days = e.days /\ f.again = e.again
    BY <1>4 DEF Touched, Row
<1>6. Dated(f)
    <2>1. PICK x \in Thousandths : x = Expiry(c.days)
        BY ExpiryRange DEF Row
    <2>2. x <= x
        BY DEF Thousandths
    <2> QED BY <1>1, <1>3, <1>5, <2>1, <2>2 DEF Dated
<1>7. SameOffer(c, f)
    BY <1>1, <1>3, <1>5, <1>6 DEF SameOffer
<1> QED BY <1>1, <1>2, <1>4, <1>7

LEMMA RescoreKeeps ==
    ASSUME IInv, NEW id \in DOMAIN rows, Rescore(id)
    PROVE  IInv'
<1>1. rows[id] \in Row
    BY DEF IInv, Good, RowsTyped
<1> DEFINE c == Touched([rows[id] EXCEPT !.scores = Rescored(rows[id]), !.again = TRUE])
<1>2. SameOffer(rows[id], c)
    BY <1>1, RescoringKeepsOffer
<1>3. Put(id, c)
    BY DEF Rescore
<1> QED BY <1>2, <1>3, PutKeeps

LEMMA TouchedIsSame ==
    ASSUME NEW c \in Row, c.scores.success = SuccessRate(c.ok, c.bad), Dated(c)
    PROVE  SameOffer(c, Touched(c))
<1>1. PICK d \in Row : d = Touched(c)
    BY DEF Touched, Row
<1>2. /\ d.status = c.status /\ d.by = c.by /\ d.scores = c.scores /\ d.ok = c.ok /\ d.bad = c.bad
      /\ d.days = c.days /\ d.again = c.again
    BY <1>1 DEF Touched, Row
<1>3. Dated(d)
    BY <1>2 DEF Dated
<1> QED BY <1>1, <1>2, <1>3 DEF SameOffer

LEMMA ViewKeeps ==
    ASSUME IInv, NEW id \in DOMAIN rows, View(id)
    PROVE  IInv'
<1>1. /\ rows[id] \in Row /\ rows[id].scores.success = SuccessRate(rows[id].ok, rows[id].bad)
      /\ Dated(rows[id])
    BY DEF IInv, Good, RowsTyped, RatesFollow, AllDated
<1>2. SameOffer(rows[id], Touched(rows[id])) /\ Put(id, Touched(rows[id]))
    BY <1>1, TouchedIsSame DEF View
<1> QED BY <1>2, PutKeeps

LEMMA ExpireStaleKeeps ==
    ASSUME IInv, ExpireStale
    PROVE  IInv'
<1>1. ~Working /\ ~Working' /\ uses' \in 0 .. MaxUses
      /\ UNCHANGED <<registered, queue, count, stranded>>
    BY DEF ExpireStale, Working, outside, IInv, Outside
<1>2. DOMAIN rows' = DOMAIN rows
    BY DEF ExpireStale
<1>3. ASSUME NEW id \in DOMAIN rows
      PROVE  SameOffer(rows[id], rows'[id])
    <2>1. PICK c \in Row : c = rows[id] /\ c.scores.success = SuccessRate(c.ok, c.bad) /\ Dated(c)
        BY DEF IInv, Good, RowsTyped, RatesFollow, AllDated
    <2>2. CASE rows'[id] = rows[id]
        BY <2>1, <2>2 DEF SameOffer
    <2>3. CASE rows'[id] = Touched([c EXCEPT !.status = "expired"])
        <3>1. PICK d \in Row : d = [c EXCEPT !.status = "expired"]
            BY DEF Row
        <3>2. /\ d.status = "expired" /\ d.by = c.by /\ d.scores = c.scores /\ d.ok = c.ok
              /\ d.bad = c.bad /\ d.days = c.days /\ d.again = c.again
            BY <3>1 DEF Row
        <3>3. Dated(d)
            BY <2>1, <3>2 DEF Dated
        <3>4. SameOffer(d, Touched(d))
            BY <2>1, <3>2, <3>3, TouchedIsSame
        <3> QED BY <2>1, <2>3, <3>1, <3>2, <3>4 DEF SameOffer
    <2> QED BY <2>1, <2>2, <2>3 DEF ExpireStale
<1> QED BY <1>1, <1>2, <1>3, RowsChangeKeeps

LEMMA WeekKeeps ==
    ASSUME IInv, Week
    PROVE  IInv'
<1>1. ~Working /\ ~Working' /\ uses' \in 0 .. MaxUses
      /\ UNCHANGED <<registered, queue, count, stranded>>
    BY UsedWorks DEF Week, Between, Working
<1>2. DOMAIN rows' = DOMAIN rows
    BY DEF Week
<1>3. ASSUME NEW id \in DOMAIN rows
      PROVE  SameOffer(rows[id], rows'[id])
    <2>1. PICK c \in Row : c = rows[id] /\ c.scores.success = SuccessRate(c.ok, c.bad) /\ Dated(c)
        BY DEF IInv, Good, RowsTyped, RatesFollow, AllDated
    <2>2. PICK a \in Nat : a = c.age + 1
        BY DEF Row
    <2>3. PICK n \in Int : n = IF c.days = Never THEN c.days ELSE c.days - 7
        BY DEF Row
    <2>4. rows'[id] = [c EXCEPT !.age = a, !.days = n]
        BY <2>1, <2>2, <2>3 DEF Week
    <2>5. PICK d \in Row : d = [c EXCEPT !.age = a, !.days = n]
        BY DEF Row
    <2>6. /\ d.status = c.status /\ d.by = c.by /\ d.scores = c.scores /\ d.ok = c.ok /\ d.bad = c.bad
          /\ d.days = n /\ d.again = c.again
        BY <2>5 DEF Row
    <2>7. Dated(d)
        <3>1. Expiry(n) <= Expiry(c.days)
            BY <2>3, ExpiryFalls DEF Row
        <3>2. PICK x \in Thousandths : x = Expiry(n)
            BY ExpiryRange
        <3>3. PICK y \in Thousandths : y = Expiry(c.days)
            BY ExpiryRange DEF Row
        <3>4. PICK z \in Thousandths : z = c.scores.expiry
            BY DEF Row, ScoreRecord
        <3>5. x <= z
            BY <2>1, <3>1, <3>2, <3>3, <3>4 DEF Dated, Thousandths
        <3> QED BY <2>1, <2>6, <3>2, <3>4, <3>5 DEF Dated
    <2> QED BY <2>1, <2>4, <2>5, <2>6, <2>7 DEF SameOffer
<1> QED BY <1>1, <1>2, <1>3, RowsChangeKeeps

LEMMA RegisterKeeps ==
    ASSUME IInv, NEW r \in Source, Register(r)
    PROVE  IInv'
<1>1. uses' \in 0 .. MaxUses
    BY UsedWorks DEF Register
<1>2. /\ registered' = registered \cup {r} /\ queue' = queue /\ rows' = rows /\ count' = count
      /\ stranded' = stranded /\ batch' = batch
    BY DEF Register, Registered
<1>3. \A q \in Seq(registered) : q \in Seq(registered')
    BY <1>2, SeqMonotonic
<1>4. Outside'
    BY <1>1, <1>2 DEF IInv, Outside
<1>5. Queued'
    BY <1>2, <1>3 DEF IInv, Queued, QueueOf, Working
<1>6. Tally'
    BY <1>2 DEF IInv, Tally, Counts, Exactly, Working
<1>7. Working' => BatchTyped'
    BY <1>2, <1>3 DEF IInv, BatchTyped, Working
<1>8. Good(rows)' /\ (Working' => Good(batch.rows)')
    BY <1>2 DEF IInv, Working
<1> QED BY <1>4, <1>5, <1>6, <1>7, <1>8 DEF IInv

----------------------------------------------------------------------------
(* Every step. *)

LEMMA ItemKeeps ==
    ASSUME IInv, Working, batch.at = "items", NEW text \in Texts[Current],
           NEW ai \in Answers[text.title] \cup {NotAsked, Failed}, Item(text, ai)
    PROVE  IInv'
<1>1. batch.todo # <<>> /\ batch.todo \in Seq(registered)
    BY WorkingFacts DEF IInv, Queued, BatchTyped
<1>2. Current \in Source
    BY <1>1, HeadTailProperties DEF Current, IInv, Outside
<1>3. Readable(text, ai)
    BY <1>2, PipelineAssumption DEF Readable
<1> DEFINE sc == Structure(text, ai)
<1>4. CASE batch' = [batch EXCEPT !.left = @ - 1] /\ UNCHANGED <<queue, rows, count, stranded, outside>>
    BY <1>4, SkipKeeps DEF Item
<1>5. CASE EndSource("failed")
    BY <1>1, <1>5, EndSourceKeeps
<1>6. CASE RollBack
    BY <1>6, RollBackKeeps
<1>7. CASE /\ sc \notin {Raises, NotACoupon} /\ Store(sc)
           /\ UNCHANGED <<queue, rows, count, stranded, outside>>
    <2>1. batch.left > 0
        BY DEF Item
    <2> QED BY <1>2, <1>3, <1>7, <2>1, StoreKeeps
<1> QED BY <1>4, <1>5, <1>6, <1>7 DEF Item

LEMMA WorkKeeps ==
    ASSUME IInv, Work
    PROVE  IInv'
<1>1. ASSUME Working, NEW ok \in BOOLEAN, Fetch(ok)
      PROVE  IInv'
    <2>1. CASE ~ok
        BY <1>1, <2>1, EndSourceKeeps DEF Fetch
    <2>2. CASE ok
        <3>1. /\ batch.at = "fetch" /\ batch.todo # <<>>
              /\ batch' = [batch EXCEPT !.at = "items", !.left = MaxItems]
              /\ UNCHANGED <<queue, rows, count, stranded, outside>>
            BY <1>1, <2>2 DEF Fetch
        <3>2. BatchTyped /\ MaxItems \in Nat /\ batch.new = 0
            BY <1>1, <3>1, WorkingFacts, PipelineAssumption DEF IInv, Tally
        <3>3. /\ batch'.at = "items" /\ batch'.todo = batch.todo /\ batch'.queue = batch.queue
              /\ batch'.rows = batch.rows /\ batch'.count = batch.count /\ batch'.new = batch.new
              /\ batch'.stranded = batch.stranded /\ batch'.left = MaxItems /\ DOMAIN batch' = Fields
            BY <3>1, <3>2 DEF BatchTyped, Fields
        <3>4. registered' = registered /\ queue' = queue /\ rows' = rows /\ count' = count
              /\ stranded' = stranded /\ uses' = uses
            BY <3>1 DEF outside
        <3>5. BatchTyped'
            BY <3>2, <3>3, <3>4 DEF BatchTyped
        <3>6. Outside' /\ Queued'
            BY <1>1, <3>1, <3>3, <3>4 DEF IInv, Outside, Queued, QueueOf
        <3>7. Tally'
            BY <1>1, <3>3, <3>4 DEF IInv, Tally, Counts, Exactly
        <3>8. Good(rows)' /\ Good(batch.rows)'
            BY <1>1, <3>3, <3>4 DEF IInv
        <3> QED BY <3>5, <3>6, <3>7, <3>8 DEF IInv
    <2> QED BY <2>1, <2>2
<1>2. ASSUME Working, EndOfPage
      PROVE  IInv'
    BY <1>2, EndSourceKeeps DEF EndOfPage, IInv, Queued
<1>3. ASSUME Working, CommitBatch
      PROVE  IInv'
    BY <1>3, CommitKeeps
<1>4. ASSUME Working, batch.at = "items", NEW text \in Texts[Current],
             NEW ai \in Answers[text.title] \cup {NotAsked, Failed}, Item(text, ai)
      PROVE  IInv'
    BY <1>4, ItemKeeps
<1> QED BY <1>1, <1>2, <1>3, <1>4 DEF Work

LEMMA InitHolds == Init => IInv
<1> SUFFICES ASSUME Init
             PROVE  IInv
    OBVIOUS
<1>1. DOMAIN rows = {} /\ ~Working /\ queue = <<>>
    BY DEF Init, Working
<1>2. IsFiniteSet(DOMAIN rows) /\ Cardinality(DOMAIN rows) = 0
    BY <1>1, FS_EmptySet
<1>3. Outside
    <2>1. FirstSources \subseteq Source /\ MaxUses \in Nat
        BY PipelineAssumption
    <2>2. registered = FirstSources /\ count = 0 /\ stranded = FALSE /\ uses = 0
        BY DEF Init
    <2>3. uses \in 0 .. MaxUses
        BY <2>1, <2>2
    <2> QED BY <2>1, <2>2, <2>3 DEF Outside
<1>4. Queued
    BY <1>1 DEF Queued, QueueOf, IsInjective
<1>5. Tally
    BY <1>1, <1>2 DEF Init, Tally, Counts, Exactly
<1>6. Good(rows)
    BY <1>1, <1>2 DEF Good, RowsTyped, LiveRecognised, Penalised, RatesFollow, AllDated
<1> QED BY <1>1, <1>3, <1>4, <1>5, <1>6 DEF IInv

LEMMA NextHolds == IInv /\ [Next]_vars => IInv'
<1> SUFFICES ASSUME IInv, [Next]_vars
             PROVE  IInv'
    OBVIOUS
<1>1. CASE StartBatch
    <2>1. PICK todo \in Due : Begin(todo) /\ UNCHANGED uses
        BY <1>1 DEF StartBatch
    <2>2. todo \in Seq(registered)
        BY DueWorks DEF IInv, Outside, Queued, QueueOf
    <2> QED BY <2>1, <2>2, BeginKeeps DEF IInv, Outside
<1>2. CASE Work
    BY <1>2, WorkKeeps
<1>3. CASE Crash
    BY <1>3, RollBackKeeps DEF Crash
<1>4. ASSUME NEW id \in DOMAIN rows, Rescore(id)
      PROVE  IInv'
    BY <1>4, RescoreKeeps
<1>5. ASSUME NEW id \in DOMAIN rows, View(id)
      PROVE  IInv'
    BY <1>5, ViewKeeps
<1>7. ASSUME NEW r \in Source, Register(r)
      PROVE  IInv'
    BY <1>7, RegisterKeeps
<1>8. ASSUME NEW r \in Source, RunNow(r)
      PROVE  IInv'
    <2>1. <<r>> \in Seq(registered)
        BY <1>8 DEF RunNow
    <2> QED BY <1>8, <2>1, BeginKeeps, UsedWorks DEF RunNow
<1>9. CASE ExpireStale
    BY <1>9, ExpireStaleKeeps
<1>10. CASE Week
    BY <1>10, WeekKeeps
<1>11. CASE UNCHANGED vars
    <2>1. /\ registered' = registered /\ queue' = queue /\ rows' = rows /\ count' = count
          /\ batch' = batch /\ stranded' = stranded /\ uses' = uses
        BY <1>11 DEF vars
    <2>2. Outside' /\ Queued'
        BY <2>1 DEF IInv, Outside, Queued, QueueOf, Working
    <2>3. Tally'
        BY <2>1 DEF IInv, Tally, Counts, Exactly, Working
    <2>4. Good(rows)' /\ (Working' => BatchTyped' /\ Good(batch.rows)')
        BY <2>1 DEF IInv, BatchTyped, Working
    <2> QED BY <2>2, <2>3, <2>4 DEF IInv
<1> QED BY <1>1, <1>2, <1>3, <1>4, <1>5, <1>7, <1>8, <1>9, <1>10, <1>11 DEF Next

LEMMA InvHolds == Spec => []IInv
<1> QED BY InitHolds, NextHolds, PTL DEF Spec

----------------------------------------------------------------------------
(* The properties of module Pipeline. *)

(* Every source, row, score and counter has its type, and a source is      *)
(* queued at most once, whatever the batches before it ended with.         *)
THEOREM PipelineTypes == Spec => []TypeOK
<1>1. IInv => TypeOK
    <2> SUFFICES ASSUME IInv
                 PROVE  TypeOK
        OBVIOUS
    <2>1. IsInjective(queue) /\ ToSet(queue) \subseteq registered
        BY DEF IInv, Queued, QueueOf, ToSet
    <2>2. Working => ToSet(batch.todo) \cup ToSet(batch.queue) \subseteq registered
        BY DEF IInv, BatchTyped, ToSet
    <2> QED BY <2>1, <2>2 DEF IInv, Outside, Good, RowsTyped, TypeOK
<1> QED BY <1>1, InvHolds, PTL

(* What the extractor alone makes of a page goes live only if the gate     *)
(* takes the text for an offer, in a sitemap as well; and a later reading  *)
(* that is less sure does not change that.                                 *)
THEOREM NothingUnrecognisedGoesLive == Spec => []LiveIsRecognised
<1>1. IInv => LiveIsRecognised
    BY DEF IInv, Good, LiveRecognised, Recognised, LiveIsRecognised
<1> QED BY <1>1, InvHolds, PTL

(* Of the rows that a title has, whoever read the offer and in whatever    *)
(* order they came, all but one are penalised as duplicates.               *)
THEOREM DuplicatesArePenalised == Spec => []OnlyOriginalIsUnpenalised
<1>1. IInv => OnlyOriginalIsUnpenalised
    BY DEF IInv, Good, Penalised, OnlyOriginalIsUnpenalised
<1> QED BY <1>1, InvHolds, PTL

(* merchants.coupon_count never exceeds the coupons, and falls short only  *)
(* after a crawl that stored one and then failed.                          *)
THEOREM CountIsNeverTooLarge == Spec => []CountMatchesRows
<1>1. IInv => CountMatchesRows
    <2> SUFFICES ASSUME IInv
                 PROVE  CountMatchesRows
        OBVIOUS
    <2>1. count \in Nat
        BY DEF IInv, Outside
    <2> QED BY <2>1 DEF IInv, Tally, Counts, Exactly, CountMatchesRows
<1> QED BY <1>1, InvHolds, PTL

LEMMA ScoresAreIntegers ==
    ASSUME NEW s \in ScoreRecord
    PROVE  /\ {s.trust, s.freshness, s.confidence, s.duplicate, s.success, s.expiry} \subseteq Int
           /\ Rank(s) \in Int
<1>1. Thousandths \subseteq Int
    BY DEF Thousandths
<1>2. /\ s.trust \in Thousandths /\ s.freshness \in Thousandths /\ s.confidence \in Thousandths
      /\ s.duplicate \in Thousandths /\ s.success \in Thousandths /\ s.expiry \in Thousandths
    BY DEF ScoreRecord
<1>3. /\ s.trust \in Int /\ s.freshness \in Int /\ s.confidence \in Int
      /\ s.duplicate \in Int /\ s.success \in Int /\ s.expiry \in Int
    BY <1>1, <1>2
<1>4. PICK x \in Int : x = (25 * s.trust + 20 * s.freshness + 15 * s.confidence + 25 * s.success
                             + 15 * s.expiry - 30 * s.duplicate) \div 100
    BY <1>3
<1>5. Clamp(x) \in Thousandths
    BY ClampRange
<1> QED BY <1>1, <1>3, <1>4, <1>5 DEF Rank

(* However a coupon ages, and whatever touches it, rescoring it gives no   *)
(* higher rank than its crawl stored, until it was rescored once.          *)
THEOREM RescoringOnlyLowers == Spec => []RescoringNeverFlatters
<1>1. IInv => RescoringNeverFlatters
    <2> SUFFICES ASSUME IInv, NEW id \in DOMAIN rows, ~rows[id].again
                 PROVE  Rank(Rescored(rows[id])) <= Rank(rows[id].scores)
        BY DEF RescoringNeverFlatters
    <2>1. PICK c \in Row : c = rows[id] /\ c.scores.success = SuccessRate(c.ok, c.bad) /\ Dated(c)
        BY DEF IInv, Good, RowsTyped, RatesFollow, AllDated
    <2>2. PICK o \in ScoreRecord : o = c.scores
        BY DEF Row
    <2>3. PICK s \in ScoreRecord :
            /\ s = Rescored(c)
            /\ s.success = SuccessRate(c.ok, c.bad) /\ s.trust = o.trust
            /\ s.confidence = o.confidence /\ s.duplicate = o.duplicate
            /\ s.freshness = Freshness(c.age) /\ s.expiry = Expiry(c.days)
        BY <2>2, RescoredWorks
    <2>4. s.freshness <= o.freshness
        <3>1. c.age \in Nat
            BY DEF Row
        <3>2. PICK f \in Thousandths : f = Freshness(c.age)
            BY <3>1, FreshnessRange
        <3>3. o.freshness = 1000
            BY <2>1, <2>2, <3>1, FreshnessRange DEF Dated, SeenNow
        <3>4. f <= 1000
            BY DEF Thousandths
        <3> QED BY <2>3, <3>2, <3>3, <3>4
    <2>5. s.expiry <= o.expiry
        BY <2>1, <2>2, <2>3 DEF Dated
    <2>6. s.success = o.success
        BY <2>1, <2>2, <2>3
    <2>7. /\ {s.trust, s.freshness, s.confidence, s.duplicate, s.success, s.expiry} \subseteq Int
          /\ {o.trust, o.freshness, o.confidence, o.duplicate, o.success, o.expiry} \subseteq Int
        BY ScoresAreIntegers
    <2>8. Rank(s) <= Rank(o)
        BY <2>3, <2>4, <2>5, <2>6, <2>7, RankGrows
    <2> QED BY <2>1, <2>2, <2>3, <2>8
<1> QED BY <1>1, InvHolds, PTL

----------------------------------------------------------------------------
(* A source that waits keeps its place in the queue. *)

(* The sources before r; that r is one of the last Limit, or will be when  *)
(* left more have gone to the back; and that r is in the queue at all.     *)
Ahead(r, q) == {q[i] : i \in {i \in 1 .. Len(q) : \E j \in i + 1 .. Len(q) : q[j] = r}}
Near(r, q, left) == \E i \in 1 .. Len(q) : q[i] = r /\ i + Limit > Len(q) + left
Listed(r, q) == \E i \in 1 .. Len(q) : q[i] = r

(* From old to new each source was either crawled, and with the left ones  *)
(* to come it will still be one of the last Limit, or nobody overtook it.  *)
Keeps(old, new, left) ==
    \A r \in Source : Listed(r, old) =>
        \/ Near(r, new, left)
        \/ Listed(r, new) /\ Ahead(r, new) \subseteq Ahead(r, old)
PlacesKept ==
    Working => Len(batch.todo) <= Limit /\ Keeps(queue, batch.queue, Len(batch.todo))

(* due_sources orders by last_crawled_at, oldest first: in every step a     *)
(* source of the queue is crawled, or none gets ahead of it.               *)
NoneOvertakes ==
    [][\A r \in ToSet(queue) :
          \/ r \in Latest'
          \/ r \in ToSet(queue') /\ Ahead(r, queue') \subseteq Ahead(r, queue)]_vars

LEMMA IsListed ==
    ASSUME NEW S, NEW q \in Seq(S), NEW r
    PROVE  r \in ToSet(q) <=> Listed(r, q)
BY DEF ToSet, Listed

LEMMA AheadIsBefore ==
    ASSUME NEW q, NEW r, NEW a
    PROVE  a \in Ahead(r, q) <=> \E i \in 1 .. Len(q) : \E j \in i + 1 .. Len(q) : q[i] = a /\ q[j] = r
BY DEF Ahead

(* What removing e from q, which gives t, does to the others. *)
Remains(q, t, e) ==
    \A i \in 1 .. Len(q) : q[i] # e =>
        \E k \in 1 .. Len(t) : t[k] = q[i] /\ k + Len(q) >= i + Len(t)
InOrder(q, t) ==
    \A i, j \in 1 .. Len(t) : i < j =>
        \E k, l \in 1 .. Len(q) : k < l /\ q[k] = t[i] /\ q[l] = t[j]

LEMMA RemovedOrder ==
    ASSUME NEW S, NEW q \in Seq(S), NEW e, NEW t, t = RemoveFirst(q, e)
    PROVE  t \in Seq(S) /\ Remains(q, t, e) /\ InOrder(q, t)
<1>1. CASE t = q
    BY <1>1 DEF Remains, InOrder
<1>2. CASE \E x \in 1 .. Len(q) : q[x] = e /\ t = RemoveAt(q, x)
    <2>1. PICK x \in 1 .. Len(q) : q[x] = e /\ t = RemoveAt(q, x)
        BY <1>2
    <2>2. /\ t \in Seq(S) /\ Len(t) = Len(q) - 1
          /\ \A j \in 1 .. Len(q) - 1 : t[j] = IF j < x THEN q[j] ELSE q[j + 1]
        BY <2>1, RemoveAtWorks
    <2>3. ASSUME NEW i \in 1 .. Len(q), q[i] # e
          PROVE  \E k \in 1 .. Len(t) : t[k] = q[i] /\ k + Len(q) >= i + Len(t)
        <3>1. CASE i < x
            BY <2>2, <3>1
        <3>2. CASE i > x
            <4>1. PICK k \in 1 .. Len(t) : k = i - 1
                BY <2>2, <3>2
            <4>2. t[k] = q[k + 1] /\ k + 1 = i
                BY <2>2, <3>2, <4>1
            <4> QED BY <2>2, <4>1, <4>2
        <3> QED BY <2>1, <2>3, <3>1, <3>2
    <2>4. ASSUME NEW i \in 1 .. Len(t), NEW j \in 1 .. Len(t), i < j
          PROVE  \E k, l \in 1 .. Len(q) : k < l /\ q[k] = t[i] /\ q[l] = t[j]
        <3>1. ASSUME NEW h \in 1 .. Len(t)
              PROVE  \E k \in 1 .. Len(q) : k = (IF h < x THEN h ELSE h + 1) /\ q[k] = t[h]
            <4>1. h \in 1 .. Len(q) - 1
                BY <2>2
            <4>2. CASE h < x
                BY <2>2, <4>1, <4>2
            <4>3. CASE ~(h < x)
                <5>1. PICK k \in 1 .. Len(q) : k = h + 1
                    BY <4>1
                <5>2. t[h] = q[h + 1]
                    BY <2>2, <4>1, <4>3
                <5> QED BY <4>3, <5>1, <5>2
            <4> QED BY <4>2, <4>3
        <3>2. PICK k \in 1 .. Len(q) : k = (IF i < x THEN i ELSE i + 1) /\ q[k] = t[i]
            BY <3>1
        <3>3. PICK l \in 1 .. Len(q) : l = (IF j < x THEN j ELSE j + 1) /\ q[l] = t[j]
            BY <3>1
        <3>4. k < l
            BY <2>2, <2>4, <3>2, <3>3
        <3> QED BY <3>2, <3>3, <3>4
    <2> QED BY <2>2, <2>3, <2>4 DEF Remains, InOrder
<1> QED BY <1>1, <1>2, RemoveFirstWorks

(* A crawled source goes behind the others, which keep their order and     *)
(* lose one place at most, counted from the end.                           *)
LEMMA BackOrder ==
    ASSUME NEW S, NEW q \in Seq(S), NEW c \in S
    PROVE  LET new == ToTheBack(c, q)
           IN  /\ new \in Seq(S) /\ Len(new) \in Nat \ {0} /\ new[Len(new)] = c
               /\ \A i \in 1 .. Len(q) : q[i] # c =>
                     \E k \in 1 .. Len(new) : new[k] = q[i] /\ k + Len(q) + 1 >= i + Len(new)
               /\ \A r \in S \ {c} : Ahead(r, new) \subseteq Ahead(r, q)
<1> DEFINE t == RemoveFirst(q, c)
           new == ToTheBack(c, q)
<1>1. /\ t \in Seq(S) /\ Len(t) \in Nat /\ Len(q) \in Nat
      /\ Remains(q, t, c) /\ InOrder(q, t)
    <2>1. t = RemoveFirst(q, c)
        OBVIOUS
    <2> HIDE DEF t
    <2>2. t \in Seq(S) /\ Remains(q, t, c) /\ InOrder(q, t)
        BY <2>1, RemovedOrder
    <2> QED BY <2>2
<1> HIDE DEF t
<1>2. /\ new \in Seq(S) /\ Len(new) = Len(t) + 1
      /\ \A j \in 1 .. Len(t) + 1 : new[j] = IF j <= Len(t) THEN t[j] ELSE c
    BY <1>1 DEF ToTheBack, t
<1> HIDE DEF new
<1>3. Len(new) \in Nat \ {0} /\ new[Len(new)] = c
    BY <1>1, <1>2
<1>4. ASSUME NEW i \in 1 .. Len(q), q[i] # c
      PROVE  \E k \in 1 .. Len(new) : new[k] = q[i] /\ k + Len(q) + 1 >= i + Len(new)
    <2>1. PICK k \in 1 .. Len(t) : t[k] = q[i] /\ k + Len(q) >= i + Len(t)
        BY <1>1, <1>4 DEF Remains
    <2>2. k \in 1 .. Len(new) /\ new[k] = q[i]
        BY <1>1, <1>2, <2>1
    <2>3. k + Len(q) + 1 >= i + Len(new)
        BY <1>1, <1>2, <2>1
    <2> QED BY <2>2, <2>3
<1>5. ASSUME NEW r \in S \ {c}, NEW a \in Ahead(r, new)
      PROVE  a \in Ahead(r, q)
    <2>1. PICK i \in 1 .. Len(new) : \E j \in i + 1 .. Len(new) : new[i] = a /\ new[j] = r
        BY <1>5, AheadIsBefore
    <2>2. PICK j \in i + 1 .. Len(new) : new[j] = r
        BY <2>1
    <2>3. i \in 1 .. Len(t) /\ j \in 1 .. Len(t) /\ i < j /\ t[i] = a /\ t[j] = r
        BY <1>1, <1>2, <1>5, <2>1, <2>2
    <2>4. PICK k, l \in 1 .. Len(q) : k < l /\ q[k] = t[i] /\ q[l] = t[j]
        BY <1>1, <2>3 DEF InOrder
    <2>5. l \in k + 1 .. Len(q) /\ q[k] = a /\ q[l] = r
        BY <1>1, <2>3, <2>4
    <2> QED BY <2>5, AheadIsBefore
<1> QED BY <1>2, <1>3, <1>4, <1>5 DEF new

LEMMA CrawlKeepsPlaces ==
    ASSUME NEW old, NEW q \in Seq(Source), NEW c \in Source, NEW n \in Nat, n > 0, n <= Limit,
           Keeps(old, q, n)
    PROVE  Keeps(old, ToTheBack(c, q), n - 1)
<1> DEFINE new == ToTheBack(c, q)
<1>1. /\ new \in Seq(Source) /\ Len(new) \in Nat \ {0} /\ new[Len(new)] = c
      /\ \A i \in 1 .. Len(q) : q[i] # c =>
            \E k \in 1 .. Len(new) : new[k] = q[i] /\ k + Len(q) + 1 >= i + Len(new)
      /\ \A r \in Source \ {c} : Ahead(r, new) \subseteq Ahead(r, q)
    BY BackOrder
<1> HIDE DEF new
<1>2. Limit \in Nat /\ Len(q) \in Nat
    BY PipelineAssumption
<1>3. Near(c, new, n - 1)
    <2>1. Len(new) \in 1 .. Len(new) /\ Len(new) + Limit > Len(new) + (n - 1)
        BY <1>1, <1>2
    <2> QED BY <1>1, <2>1 DEF Near
<1>4. ASSUME NEW r \in Source, r # c, Near(r, q, n) PROVE Near(r, new, n - 1)
    <2>1. PICK i \in 1 .. Len(q) : q[i] = r /\ i + Limit > Len(q) + n
        BY <1>4 DEF Near
    <2>2. PICK k \in 1 .. Len(new) : new[k] = r /\ k + Len(q) + 1 >= i + Len(new)
        BY <1>1, <1>4, <2>1
    <2>3. k + Limit > Len(new) + (n - 1)
        BY <1>1, <1>2, <2>1, <2>2
    <2> QED BY <2>2, <2>3 DEF Near
<1>5. ASSUME NEW r \in Source, r # c, Listed(r, q) PROVE Listed(r, new)
    BY <1>1, <1>5 DEF Listed
<1>6. ASSUME NEW r \in Source, Listed(r, old)
      PROVE  \/ Near(r, new, n - 1)
             \/ Listed(r, new) /\ Ahead(r, new) \subseteq Ahead(r, old)
    <2>1. CASE r = c
        BY <1>3, <2>1
    <2>2. CASE r # c /\ Near(r, q, n)
        BY <1>4, <2>2
    <2>3. CASE r # c /\ Listed(r, q) /\ Ahead(r, q) \subseteq Ahead(r, old)
        BY <1>1, <1>5, <2>3
    <2> QED BY <1>6, <2>1, <2>2, <2>3 DEF Keeps
<1> QED BY <1>6 DEF Keeps, new

(* What a step can do to the queue, and to that of the batch. *)
LEMMA QueueSteps ==
    ASSUME IInv, [Next]_vars
    PROVE  /\ queue' = queue \/ (Working /\ CommitBatch)
           /\ Working' =>
                \/ /\ Working /\ queue' = queue
                   /\ batch'.queue = batch.queue /\ batch'.todo = batch.todo
                \/ /\ queue' = queue /\ batch'.queue = queue
                   /\ batch'.todo \in Seq(registered) /\ Len(batch'.todo) <= Limit
                \/ /\ Working /\ batch.todo # <<>>
                   /\ \E status \in {"succeeded", "failed"} : EndSource(status)
<1> DEFINE Same == /\ Working /\ queue' = queue
                   /\ batch'.queue = batch.queue /\ batch'.todo = batch.todo
           New == /\ queue' = queue /\ batch'.queue = queue
                  /\ batch'.todo \in Seq(registered) /\ Len(batch'.todo) <= Limit
           Ends == /\ Working /\ batch.todo # <<>>
                   /\ \E status \in {"succeeded", "failed"} : EndSource(status)
<1>1. ASSUME NEW todo \in Seq(registered), Begin(todo), Len(todo) <= Limit
      PROVE  New
    BY <1>1 DEF Begin
<1>2. ASSUME StartBatch PROVE New
    <2>1. PICK todo \in Due : Begin(todo)
        BY <1>2 DEF StartBatch
    <2>2. todo \in Seq(registered) /\ Len(todo) <= Limit
        BY DueWorks DEF IInv, Outside, Queued, QueueOf
    <2> QED BY <1>1, <2>1, <2>2
<1>3. ASSUME NEW r, RunNow(r) PROVE New
    <2>1. r \in registered /\ Begin(<<r>>)
        BY <1>3 DEF RunNow
    <2>2. <<r>> \in Seq(registered) /\ Len(<<r>>) <= Limit
        BY <2>1, PipelineAssumption
    <2> QED BY <1>1, <2>1, <2>2
<1>4. ASSUME NEW status \in {"succeeded", "failed"}, EndSource(status) PROVE queue' = queue
    BY <1>4 DEF EndSource
<1>5. ASSUME RollBack PROVE queue' = queue /\ ~Working'
    BY <1>5 DEF RollBack, Working, Idle
<1>6. ASSUME Work PROVE (queue' = queue \/ (Working /\ CommitBatch)) /\ (Working' => Same \/ Ends)
    <2> DEFINE Moves == queue' = queue /\ (Same \/ Ends \/ ~Working')
    <2>1. ASSUME Working, NEW ok \in BOOLEAN, Fetch(ok) PROVE Moves
        <3>1. BatchTyped
            BY <2>1 DEF IInv
        <3>2. CASE ok
            BY <2>1, <3>1, <3>2 DEF Fetch, BatchTyped, Fields
        <3>3. CASE ~ok
            BY <1>4, <2>1, <3>3 DEF Fetch
        <3> QED BY <3>2, <3>3
    <2>2. ASSUME Working, EndOfPage PROVE Moves
        BY <1>4, <2>2 DEF EndOfPage, IInv, Queued
    <2>3. ASSUME Working, CommitBatch PROVE ~Working'
        BY <2>3 DEF CommitBatch, Working, Idle
    <2>4. ASSUME Working, batch.at = "items", NEW text, NEW ai, Item(text, ai) PROVE Moves
        <3>1. BatchTyped
            BY <2>4 DEF IInv
        <3>2. CASE batch' = [batch EXCEPT !.left = @ - 1] /\ queue' = queue
            BY <2>4, <3>1, <3>2 DEF BatchTyped, Fields
        <3>3. CASE EndSource("failed")
            BY <1>4, <2>4, <3>3 DEF IInv, Queued
        <3>4. CASE RollBack
            BY <1>5, <3>4
        <3>5. ASSUME NEW sc, Store(sc), queue' = queue PROVE Moves
            BY <2>4, <3>1, <3>5 DEF Store, BatchTyped, Fields
        <3> QED BY <2>4, <3>2, <3>3, <3>4, <3>5 DEF Item
    <2> HIDE DEF Same, New, Ends
    <2> QED BY <1>6, <2>1, <2>2, <2>3, <2>4 DEF Work, Working
<1>7. ASSUME Crash PROVE queue' = queue /\ ~Working'
    BY <1>5, <1>7 DEF Crash
<1>8. ASSUME UNCHANGED <<queue, batch>> PROVE queue' = queue /\ (Working' => Same)
    BY <1>8 DEF Working
<1>9. ASSUME NEW id, NEW c, Put(id, c) PROVE UNCHANGED <<queue, batch>>
    BY <1>9 DEF Put
<1>10. ASSUME \/ \E id \in DOMAIN rows :
                   Rescore(id) \/ View(id)
              \/ \E r \in Source : Register(r)
              \/ ExpireStale \/ Week \/ UNCHANGED vars
       PROVE  UNCHANGED <<queue, batch>>
    BY <1>9, <1>10 DEF Rescore, View, Register, ExpireStale, Week, vars
<1> HIDE DEF Same, New, Ends
<1>11. New => queue' = queue
    BY DEF New
<1>12. ASSUME UNCHANGED <<queue, batch>> PROVE queue' = queue /\ (Working' => Same \/ New \/ Ends)
    BY <1>8, <1>12
<1>13. /\ queue' = queue \/ (Working /\ CommitBatch)
       /\ Working' => Same \/ New \/ Ends
    BY <1>2, <1>3, <1>6, <1>7, <1>10, <1>11, <1>12 DEF Next
<1> QED BY <1>13 DEF Same, New, Ends

LEMMA NearIsLast ==
    ASSUME NEW S, NEW q \in Seq(S), NEW r, Near(r, q, 0)
    PROVE  r \in ToSet(SubSeq(q, Len(q) - Capped(Limit, Len(q)) + 1, Len(q)))
<1>1. Limit \in Nat \ {0} /\ Len(q) \in Nat
    BY PipelineAssumption
<1>2. PICK i \in 1 .. Len(q) : q[i] = r /\ i + Limit > Len(q)
    BY <1>1 DEF Near
<1>3. PICK from : from = Len(q) - Capped(Limit, Len(q)) + 1
    OBVIOUS
<1>4. from \in 1 .. Len(q) /\ i \in from .. Len(q)
    BY <1>1, <1>2, <1>3 DEF Capped
<1> DEFINE last == SubSeq(q, from, Len(q))
<1>5. /\ last \in Seq(S) /\ i - from + 1 \in 1 .. Len(last)
      /\ last[i - from + 1] = q[i]
    BY <1>1, <1>4
<1>6. r \in ToSet(last)
    BY <1>2, <1>5 DEF ToSet
<1> QED BY <1>3, <1>6

LEMMA InitPlaces == Init => PlacesKept
BY DEF Init, PlacesKept, Working

LEMMA PlacesStep == IInv /\ PlacesKept /\ [Next]_vars => PlacesKept'
<1> SUFFICES ASSUME IInv, PlacesKept, [Next]_vars, Working'
             PROVE  Len(batch'.todo) <= Limit /\ Keeps(queue', batch'.queue, Len(batch'.todo))
    BY DEF PlacesKept
<1>1. CASE Working /\ queue' = queue /\ batch'.queue = batch.queue /\ batch'.todo = batch.todo
    BY <1>1 DEF PlacesKept
<1>2. CASE queue' = queue /\ batch'.queue = queue /\ Len(batch'.todo) <= Limit
    BY <1>2 DEF Keeps
<1>3. ASSUME Working, batch.todo # <<>>, NEW status \in {"succeeded", "failed"}, EndSource(status)
      PROVE  Len(batch'.todo) <= Limit /\ Keeps(queue', batch'.queue, Len(batch'.todo))
    <2>1. /\ batch.todo \in Seq(Source) /\ batch.queue \in Seq(Source)
          /\ DOMAIN batch = Fields
        BY <1>3 DEF IInv, Outside, BatchTyped
    <2>2. /\ queue' = queue /\ batch'.todo = Tail(batch.todo)
          /\ batch'.queue = ToTheBack(Current, batch.queue)
        BY <1>3, <2>1 DEF EndSource, Crawled, Fields
    <2>3. PICK n \in Nat : n = Len(batch.todo)
        BY <2>1
    <2>4. Current \in Source /\ n > 0 /\ Len(batch'.todo) = n - 1
        BY <1>3, <2>1, <2>2, <2>3 DEF Current
    <2>5. n <= Limit /\ Keeps(queue, batch.queue, n)
        BY <1>3, <2>3 DEF PlacesKept
    <2>6. Keeps(queue, ToTheBack(Current, batch.queue), n - 1)
        BY <2>1, <2>4, <2>5, CrawlKeepsPlaces
    <2> QED BY <2>2, <2>4, <2>5, <2>6, PipelineAssumption
<1> QED BY <1>1, <1>2, <1>3, QueueSteps

(* Whatever crawls fail, batches are lost and sources are registered: a    *)
(* source of the queue is crawled, and then is one of the last that were,  *)
(* or none that was not ahead of it before is ahead of it now.  A batch    *)
(* crawls the head of the queue, so a source that waits comes closer.      *)
THEOREM NobodyOvertakes == Spec => NoneOvertakes
<1> DEFINE Stays == \A r \in ToSet(queue) :
                       \/ r \in Latest'
                       \/ r \in ToSet(queue') /\ Ahead(r, queue') \subseteq Ahead(r, queue)
<1>1. ASSUME IInv, IInv', PlacesKept, [Next]_vars PROVE Stays
    <2>1. queue \in Seq(Source) /\ queue' \in Seq(Source)
        BY <1>1 DEF IInv, Outside, Queued, QueueOf
    <2>2. CASE queue' = queue
        BY <2>2
    <2>3. ASSUME Working, CommitBatch PROVE Stays
        <3> DEFINE left == Len(batch.todo)
        <3>1. queue' = batch.queue /\ left = 0
            BY <2>3 DEF CommitBatch
        <3> HIDE DEF left
        <3>2. Keeps(queue, queue', 0)
            <4>1. Keeps(queue, batch.queue, left)
                BY <1>1, <2>3 DEF PlacesKept, left
            <4> QED BY <3>1, <4>1
        <3>3. ASSUME NEW r \in ToSet(queue)
              PROVE  \/ r \in Latest'
                     \/ r \in ToSet(queue') /\ Ahead(r, queue') \subseteq Ahead(r, queue)
            <4>1. r \in Source /\ Listed(r, queue)
                BY <2>1, IsListed DEF ToSet
            <4>2. CASE Near(r, queue', 0)
                BY <2>1, <4>2, NearIsLast DEF Latest
            <4>3. CASE Listed(r, queue') /\ Ahead(r, queue') \subseteq Ahead(r, queue)
                BY <2>1, <4>3, IsListed
            <4> QED BY <3>2, <4>1, <4>2, <4>3 DEF Keeps
        <3> QED BY <3>3
    <2> QED BY <1>1, <2>2, <2>3, QueueSteps
<1>2. IInv /\ IInv' /\ PlacesKept /\ [Next]_vars => [Stays]_vars
    BY <1>1
<1> QED BY <1>2, InvHolds, InitPlaces, PlacesStep, PTL DEF Spec, NoneOvertakes
=============================================================================
