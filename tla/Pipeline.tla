------------------------------ MODULE Pipeline ------------------------------
(***************************************************************************)
(* The ingest loop of the worker: worker.py, ingestion/pipeline.py,        *)
(* discovery.py, crawler.py, and what happens to the stored coupons        *)
(* afterwards.  One batch crawls up to Limit sources in one transaction.   *)
(* Each of its texts goes through module Extraction into a row, and each   *)
(* row is scored by module Scoring.                                        *)
(*                                                                         *)
(* The worker's loop waits for a batch to end before it starts another.    *)
(* What other transactions do meanwhile is the subject of module Catalog;  *)
(* here time passes, and users act, between batches.  One merchant.        *)
(***************************************************************************)
EXTENDS Extraction, Scoring, SequencesExt, FiniteSets

CONSTANTS
    Source,         \* the active sources
    FirstSources,   \* those registered at first
    Sitemap,        \* those that list URLs instead of texts
    Merchantless,   \* those that belong to no merchant
    Texts,          \* BOUND: the texts that occur on the pages of each source
    Answers,        \* BOUND: what an AI may say of the text of each title
    Limit,          \* the sources of one batch
    MaxItems,       \* max_items
    Trust,          \* the blended trust of a row
    MaxUses         \* BOUND: weeks that pass and things that users and administrators do

ASSUME PipelineAssumption ==
    /\ IsFiniteSet(Source) /\ FirstSources \cup Sitemap \cup Merchantless \subseteq Source
    /\ {Limit, MaxItems, MaxUses} \subseteq Nat /\ Limit > 0
    /\ Trust \in Thousandths
    /\ \A r \in Source : \A text \in Texts[r] :
          text.date \in Int /\ \A ai \in Answers[text.title] : ai.date \in Int

VARIABLES
    registered, \* the sources that there are
    queue,      \* the sources crawled before, oldest last_crawled_at first
    rows,       \* the coupons, by identity
    count,      \* merchants.coupon_count
    batch,      \* the batch in flight, with the rows as it sees them
    stranded,   \* history: a crawl stored a new coupon and then failed
    uses        \* what MaxUses bounds

vars == <<registered, queue, rows, count, batch, stranded, uses>>
outside == <<registered, uses>>

Idle == [at |-> "idle"]
Working == batch # Idle

Init ==
    /\ registered = FirstSources
    /\ queue = <<>>
    /\ rows = <<>>
    /\ count = 0
    /\ batch = Idle
    /\ stranded = FALSE
    /\ uses = 0

----------------------------------------------------------------------------
(* due_sources: sources never crawled come first, in any order.  (No       *)
(* source is left out for having been crawled recently.)                   *)
FirstOf(s) == SubSeq(s, 1, Capped(Len(s), Limit))
Due == {FirstOf(new \o queue) : new \in SetToSeqs(registered \ ToSet(queue))}

Begin(todo) ==
    /\ ~Working
    /\ batch' = [at |-> "fetch", todo |-> todo, queue |-> queue, rows |-> rows,
                 count |-> count, left |-> 0, new |-> 0, stranded |-> stranded]
    /\ UNCHANGED <<registered, queue, rows, count, stranded>>
StartBatch == ~Working /\ \E todo \in Due : Begin(todo) /\ UNCHANGED uses

Current == Head(batch.todo)
(* The end of a crawl sets last_crawled_at, whatever came of it; only a    *)
(* success adds to the merchant's count.                                   *)
ToTheBack_KeepsOld(r, q) == Append(q, r)
ToTheBack(r, q) == Append(RemoveFirst(q, r), r)
Crawled_OnSuccess(status) == IF status = "succeeded" THEN ToTheBack(Current, batch.queue) ELSE batch.queue
Crawled(status) == ToTheBack(Current, batch.queue)
Counted(status) == IF status = "succeeded" THEN batch.count + batch.new ELSE batch.count
EndSource(status) ==
    /\ batch' = [batch EXCEPT !.at = "fetch", !.todo = Tail(@), !.queue = Crawled(status),
                              !.count = Counted(status), !.left = 0, !.new = 0,
                              !.stranded = @ \/ (status = "failed" /\ batch.new > 0)]
    /\ UNCHANGED <<queue, rows, count, stranded, outside>>

(* fetch_url never raises; the page of a source is some of the texts. *)
Fetch(ok) ==
    /\ batch.at = "fetch" /\ batch.todo # <<>>
    /\ IF ok THEN /\ batch' = [batch EXCEPT !.at = "items", !.left = MaxItems]
                  /\ UNCHANGED <<queue, rows, count, stranded, outside>>
             ELSE EndSource("failed")

(* The row that storing sc under its identity leaves: a row that exists    *)
(* keeps its reports, and takes the rest from the text.  (History: by is   *)
(* whose reading brought the row in, or was last sure enough to activate   *)
(* it; one that is not leaves a row as active as it was.  again is whether *)
(* the row was rescored since it was stored.)                              *)
Reports(id) == IF id \in DOMAIN batch.rows THEN batch.rows[id] ELSE [ok |-> 0, bad |-> 0]
StatusBefore(id) == IF id \in DOMAIN batch.rows THEN batch.rows[id].status ELSE "absent"
By(sc, id) == IF id \in DOMAIN batch.rows /\ ~Sure(sc) THEN batch.rows[id].by ELSE sc.by
RowOf(sc) ==
    LET id == Identity(sc)
        facts == [ok |-> Reports(id).ok, bad |-> Reports(id).bad,
                  days |-> IF sc.date = NoDate THEN Never ELSE sc.date]
        sure == ConfidenceScore(sc.code # NoCode, sc.value # "none", TRUE, sc.confidence)
    IN  [status |-> StatusOf(sc, StatusBefore(id)), by |-> By(sc, id),
         ok |-> facts.ok, bad |-> facts.bad, days |-> facts.days, age |-> 0, again |-> FALSE,
         scores |-> Scores(facts, Trust, sure,
                           Cardinality(NearDuplicates(id, DOMAIN batch.rows)))]
Created_Always(id) == 1
Created(id) == IF id \in DOMAIN batch.rows THEN 0 ELSE 1
Store(sc) ==
    LET id == Identity(sc)
    IN  batch' = [batch EXCEPT
           !.left = @ - 1,
           !.new = @ + Created(id),
           !.rows = [d \in DOMAIN batch.rows \cup {id} |->
                       IF d = id THEN RowOf(sc) ELSE batch.rows[d]]]

(* The session is unusable, so the handler of run_source fails as well, or *)
(* the process dies: nothing of the batch remains, nor that it crawled     *)
(* anything.  This may happen to every batch.                              *)
RollBack ==
    /\ batch' = Idle
    /\ UNCHANGED <<queue, rows, count, stranded, outside>>

Storable(ai) == ai \in {NotAsked, Failed} \/ ai.storable
Item(text, ai) ==
    LET sc == Structure(text, ai)
        gated == Current \notin Sitemap /\ ~LooksLikeCoupon(text)
    IN  /\ batch.left > 0
        /\ IF gated \/ sc = NotACoupon \/ (sc # Raises /\ Current \in Merchantless)
           THEN batch' = [batch EXCEPT !.left = @ - 1]
                /\ UNCHANGED <<queue, rows, count, stranded, outside>>
           ELSE IF sc = Raises THEN EndSource("failed")
           ELSE IF ~Storable(ai) THEN RollBack
           ELSE Store(sc) /\ UNCHANGED <<queue, rows, count, stranded, outside>>

EndOfPage == batch.at = "items" /\ EndSource("succeeded")

CommitBatch ==
    /\ batch.at = "fetch" /\ batch.todo = <<>>
    /\ queue' = batch.queue /\ rows' = batch.rows
    /\ count' = batch.count /\ stranded' = batch.stranded
    /\ batch' = Idle
    /\ UNCHANGED outside
Crash == Working /\ RollBack

Work == \/ \E ok \in BOOLEAN : Working /\ Fetch(ok)
        \/ Working /\ (EndOfPage \/ CommitBatch)
        \/ /\ Working /\ batch.at = "items"
           /\ \E text \in Texts[Current] :
                \E ai \in Answers[text.title] \cup {NotAsked, Failed} : Item(text, ai)

----------------------------------------------------------------------------
(* Between batches.  Every UPDATE of a row sets its updated_at, which      *)
(* rescore takes for the day on which the coupon was last seen.            *)
Touched(c) == [c EXCEPT !.age = 0]
Used == uses < MaxUses /\ uses' = uses + 1
Between == ~Working /\ Used
Put(id, c) ==
    /\ Between
    /\ rows' = [rows EXCEPT ![id] = c]
    /\ UNCHANGED <<registered, queue, count, stranded, batch>>

(* submit_feedback never gets that far: its flush expires the updated_at   *)
(* of the row, which rescore then reads and raises, so that the request is *)
(* rolled back.  The reports of every row stay zero.                       *)
Rescore(id) ==
    LET c == [rows[id] EXCEPT !.scores = Rescored(rows[id]), !.again = TRUE]
    IN  /\ c.scores # rows[id].scores \/ c.status = "active"
        /\ Put(id, Touched(c))

View(id) == rows[id].age > 0 /\ Put(id, Touched(rows[id]))

(* register_source does nothing for a URL that is registered; a batch in   *)
(* flight has chosen its sources before.                                   *)
Registered(r) == registered \cup {r}
Register(r) ==
    /\ Used
    /\ registered' = Registered(r)
    /\ UNCHANGED <<queue, rows, count, stranded, batch>>

(* An administrator runs one source, in a transaction of its own. *)
RunNow(r) == r \in registered /\ Begin(<<r>>) /\ Used

Past(c) == c.days # Never /\ c.days <= 0
ExpireStale ==
    /\ ~Working /\ \E id \in DOMAIN rows : rows[id].status = "active" /\ Past(rows[id])
    /\ rows' = [id \in DOMAIN rows |->
          IF rows[id].status = "active" /\ Past(rows[id])
          THEN Touched([rows[id] EXCEPT !.status = "expired"]) ELSE rows[id]]
    /\ UNCHANGED <<queue, count, stranded, batch, outside>>

Week ==
    /\ Between
    /\ rows' = [id \in DOMAIN rows |->
          [rows[id] EXCEPT !.age = @ + 1, !.days = IF @ = Never THEN @ ELSE @ - 7]]
    /\ UNCHANGED <<registered, queue, count, stranded, batch>>

Next ==
    \/ StartBatch \/ Work \/ Crash
    \/ ~Working /\ \E id \in DOMAIN rows : Rescore(id) \/ View(id)
    \/ \E r \in Source : Register(r) \/ RunNow(r)
    \/ ExpireStale \/ Week

Spec == Init /\ [][Next]_vars

(* "never let one failure kill the loop": the task of the worker's loop     *)
(* starts the next batch and goes on with it.                              *)
FairSpec == Spec /\ WF_vars(StartBatch \/ Work)

----------------------------------------------------------------------------
ScoreRecord ==
    [{"trust", "freshness", "confidence", "duplicate", "success", "expiry"} -> Thousandths]
Row ==
    [status : {"active", "expired", "pending_review"}, by : {"extractor", "ai"},
     ok : Nat, bad : Nat, days : Int, age : Nat, again : BOOLEAN, scores : ScoreRecord]
TypeOK ==
    /\ registered \subseteq Source
    /\ IsInjective(queue) /\ ToSet(queue) \subseteq registered
    /\ \A id \in DOMAIN rows : rows[id] \in Row
    /\ count \in Nat /\ stranded \in BOOLEAN
    /\ Working => ToSet(batch.todo) \cup ToSet(batch.queue) \subseteq registered
    /\ uses \in 0 .. MaxUses

(* Without an AI nothing goes live that the gate would not take for an     *)
(* offer, although the URLs of a sitemap are not put through the gate.     *)
LiveIsRecognised ==
    \A id \in DOMAIN rows :
        rows[id].status = "active" /\ rows[id].by = "extractor"
        => \E text \in UNION {Texts[r] : r \in Source} : text.title = Title(id) /\ LooksLikeCoupon(text)

(* Rows that differ only in how the same offer was read (an outage of the  *)
(* AI changes the identity) are told apart by the duplicate penalty: all   *)
(* but one of the rows of a title carry it.                                *)
OnlyOriginalIsUnpenalised ==
    \A c, d \in DOMAIN rows :
        c # d /\ Title(c) = Title(d)
        => rows[c].scores.duplicate > 0 \/ rows[d].scores.duplicate > 0

(* merchants.coupon_count is the number of coupons that were crawled, and  *)
(* never more: crawls that fail, roll back or see a coupon again do not    *)
(* inflate it.  It is too small only if a crawl failed after it had stored *)
(* a coupon.                                                               *)
CountMatchesRows ==
    /\ count <= Cardinality(DOMAIN rows)
    /\ ~stranded => count = Cardinality(DOMAIN rows)

(* From one crawl of a coupon to the next its rank only falls: whatever    *)
(* week it is rescored in, whoever viewed it, rescore finds no higher rank *)
(* than the crawl stored.  It takes a second rescore to lift a coupon      *)
(* again, because the first one counts as having seen it.  (Or an          *)
(* administrator who moves its expiry, which is left to module Catalog.)   *)
RescoringNeverFlatters ==
    \A id \in DOMAIN rows :
        ~rows[id].again => Rank(Rescored(rows[id])) <= Rank(rows[id].scores)

(* Every batch ends, and as long as a batch is committed now and then, no  *)
(* source starves: from its registration on each is crawled again and      *)
(* again, whether its crawls succeed or fail.  (A source whose page loses  *)
(* the batch every time stays in front, and then none is committed.)       *)
Latest == ToSet(SubSeq(queue, Len(queue) - Capped(Limit, Len(queue)) + 1, Len(queue)))
SourcesGetCrawled ==
    /\ []<>~Working
    /\ []<><<CommitBatch>>_vars => \A r \in Source : r \in registered ~> r \in Latest
=============================================================================
