# CouponGPT: TLA+ models, model checking and proofs

CouponGPT is a coupon search service: a FastAPI backend over MySQL (InnoDB),
Redis and Meilisearch, a worker process, and a PHP frontend. The backend keeps
no state of its own: every request is a database transaction, some commands to
Redis, and calls to external services, and any number of requests run at once
in several worker processes. What is hard is therefore not in any one function
but between them: a decision taken from a snapshot that is no longer true, an
exception that undoes what it should have kept, an event delivered twice or
never, a counter shared by requests that may die half-way.

All source paths below are relative to `src/backend/app/` unless they begin
with `src/`.

## Inventory

| Component | State | Operations | How it interacts |
| --- | --- | --- | --- |
| Search quota (`services/quota_service.py`) | one Redis counter per caller and window, with an expiry | `check_and_consume`, `peek_quota`, `get_effective_plan` | called before every search; reads the subscription of the user |
| Sessions (`services/auth_service.py`, `api/v1/endpoints/auth.py`) | `refresh_tokens`, `password_resets`, `users.status` | login, refresh, logout, logout-all, change/forgot/reset password, suspension by an administrator | every endpoint depends on it; the frontend refreshes by itself |
| Request transaction (`core/database.py`) | one session per request | commit on return, roll back on exception | every service |
| Billing (`services/billing_service.py`, `billing/*`) | `subscriptions`, `payments`, `invoices`, `webhook_events` | checkout, change plan, cancel, refund, webhooks | gateways deliver webhooks at least once; the quota reads the plan |
| Ingestion (`ingestion/*`, `worker.py`) | `sources`, `crawl_jobs`, `coupons`, `merchants.coupon_count` | due sources, crawl, structure, upsert by content hash | one transaction per batch of up to 20 sources; asks the AI; writes the index |
| Extraction, identity, scoring (`ingestion/extraction.py`, `structuring.py`, `dedup.py`, `validation.py`, `scoring.py`) | none | a text to a coupon, its identity, its near duplicates, its six scores | between a crawl and its row |
| Coupon lifecycle and index (`services/coupon_service.py`, `services/indexing_service.py`) | `coupons`, the Meilisearch index | submit, create, update, moderate, feedback, view, rescore, expire, index, reindex | the index is written before the transaction commits |
| Deal alerts (`services/alerts_service.py`) | `deal_alerts.last_fired_at`, `notifications` | match new coupons | runs after ingestion, or from the CLI |
| Settings (`services/settings_service.py`) | `settings` and its Redis cache | get, set | only search reads it |
| AI router (`ai/router.py`, `services/ai_service.py`) | the order of the providers, in each process | refresh, complete with fallback | ingestion and search ask it |
| Merchants (`services/merchant_service.py`) | an alias index in each process | build, resolve | search and the administrators' pages |
| Search (`search/*`) | AI answers and responses in Redis, `search_queries` | understand, filter, retrieve, rank, record, suggest | reads the index; takes a unit of the quota first |
| Rate limiting, accounts, engagement, audit, email, other administration and CLI, PHP frontend, infrastructure | none, or single rows | | see "Not modelled" |

The behaviours that are hard, each with its line, are the `hazards` of
`PROJECT.json`. For each component, what makes it correct:

* quota: no window grants more than the limit, no request is denied while
  allowance is left, no unit leaks except with a request that died;
* sessions: what a logout, rotation, password change, reset or suspension took
  away stays away, for every request that starts after it was answered;
* billing: an event takes effect once and is never lost, only the newest
  subscription of a user is active, invoice numbers do not run out;
* ingestion: nothing goes live that is no offer, one offer has one row without
  penalty, counts are counts, and no source starves as long as batches get
  committed;
* coupons and index: the search shows the active coupons that have not expired,
  and no crawl undoes a moderator's decision that it did not see;
* alerts: a coupon notifies an alert once, and is left out for a reason;
* scoring: from one crawl of a coupon to the next its rank only falls, more
  failures never raise a success score and more successes never lower it;
* settings, merchants, providers: a reader of a cache is stale by a bounded time
  at most, and a search works through one chain of providers whatever happens
  to their order;
* search: what is shown is current, fits, and is the best of what is relevant;
  malformed data fails searches for no longer than the caches keep it.

## Modules

| Module | What it is |
| --- | --- |
| `QuotaBudget` | what the quota promises: a budget per window, with no counter and no expiry |
| `Quota` | `check_and_consume`, one step per Redis command; implements `QuotaBudget` |
| `Sessions` | sign-in, rotation, revocation, reset, suspension over the request transaction |
| `EventLedger` | what billing promises of webhook events: one verdict for each, with its effects |
| `Billing` | subscriptions, payments, invoices, refunds and webhooks over the request transaction; implements `EventLedger` |
| `Catalog` | coupon rows, search documents and alerts under overlapping transactions |
| `Extraction` | pure: a text to a coupon, its identity and its duplicates |
| `Scoring` | pure: the six scores of a coupon and their blend |
| `Pipeline` | the worker's batch over the due sources; extends `Extraction` and `Scoring` |
| `Freshness` | what a cached read promises: a value that was current less than a bound ago |
| `Merchants` | pure: a query to a merchant in spite of typing errors |
| `Ranking` | pure: the blend that orders results |
| `Search` | searches, caches, providers and the administrators' transactions; extends `Merchants` and `Ranking`, implements `Freshness` |
| `QuotaProofs`, `SessionsProofs`, `BillingProofs`, `CatalogProofs`, `ScoringProofs`, `PipelineProofs`, `MatchingProofs`, `SearchProofs` | the theorems; `PipelineProofs` builds on `ScoringProofs` and `SearchProofs` on `MatchingProofs` |
| `MCQuota`, `MCSessions`, `MCBilling`, `MCCatalog`, `MCPipeline`, `MCSearch` | the values and symmetries for TLC |

`Catalog` and `Pipeline` look at the same rows from two sides. `Catalog` has
every transaction that writes a coupon, overlapping, and knows of a coupon only
its status and its expiry. `Pipeline` has one batch after another, as the worker
runs them, and knows how a text becomes a row. `Search` takes the documents as
`Catalog` leaves them.

### Quota

A request (`Req`) goes through `Begin` (plan, window and time to live),
`Incr`, `Expire` if it created the key, `Check`, and `Decr` if it was too many;
`pc[r]` says where it is. `Fail` ends it between any two commands: nothing in
`check_and_consume` catches a Redis error, and a process may die. `Tick` is the
clock, which also expires keys. There are several ticks to a second because
`_bucket_and_ttl` truncates to whole seconds. One caller (one user or one
address) is modelled: callers share nothing. The plan is read at `Begin` and may
be any limit in `MinLimit .. MaxLimit`, which stands for a change of plan in the
middle of a window. The client sets `retry_on_timeout` but no socket timeout, so
a command is taken to run at most once.

The properties hold for a window that is not `Closing`: before its last second.
In that second the truncated time to live may already have dropped the counter;
`quota_whole_window` shows the second allowance this gives.

### Sessions

A request is one InnoDB transaction at REPEATABLE READ (MySQL's default, which
the engine does not change). Its first SELECT takes the snapshot from which the
handler decides, so opening a request (`Open`) records its `decision`. Its writes
act on current rows and hold row and gap locks until the transaction ends (the
indexes on `refresh_tokens` and `subscriptions` are in the schema of
`src/infra`), so conflicting write phases are serialised and `Answer` is one
step: commit what the handler wrote, or roll all of it back when the handler
raised (`get_db`). `Abort` is a deadlock, a timeout, a lost connection or a
crash. FastAPI runs `get_db`'s exit code before it sends the response, so what
was answered is committed. A status that an administrator sets to what the
snapshot says it is already is not written (`no_change`): then the suspension
that counts is the one that was written.

`earlier[r]` is the set of requests that had ended when `r` opened. It is a
history variable: the properties use it to say "a request that starts after",
and no action reads it. A token is named by the request that minted it.

### Billing

A `Slot` is a request in flight and is used again, so that deliveries may go on
for ever and liveness can be stated. The snapshot facts a handler uses are in
`job[s]`: whether the event id was known, whether the customer was, how many
invoices there were, which row to cancel. Two unique keys, of `webhook_events`
and of `invoices`, are checked by the writes. `Process` is the whole of
`process_webhook` after its first check: event row, effects and status commit
together; a violated key poisons the SQLAlchemy session, so nothing is kept and
the gateway gets an error. `ApplyFails` is the one failure that leaves the
session usable: a lock wait timeout undoes the UPDATE alone, the event is
recorded as failed and the answer is a success. `Checkout` is the path that
activates without a gateway (free plan, no keys, or a gateway error); with a
gateway, `create_checkout` writes nothing and the gateway emits an event later
(`Emit`). The gateways are external: at least once, any order, until an answer
of success. A Razorpay body may have no id of its own, and then the id of its
entity is used (`EventIds`).

A refund calls the gateway in the middle of the request: `refund_payment` reads
the payment, the gateway decides, and the answer is committed or lost. The
gateway's own books are `returned`. It refuses a charge it has returned, and may
refuse others: the payment of a Stripe checkout is named by its session and a
Razorpay one by its subscription, which are not names of charges. The endpoint
answers the user with success either way. A payment without a gateway is marked
at once. `RefundsAgree` has one direction only: a request that dies after the
gateway's answer leaves "succeeded" on a payment whose money was returned, and
no code repairs it, since the gateway then refuses the next request.

`EventLedger` is the promise without the machinery: an id gets one verdict,
"processed" or "failed", and keeps it; the payment of an event, its invoice and
the subscription a Stripe checkout opens come in the step that gives the verdict;
a failed event brings about nothing; success is acknowledged in that step or
after it. `ImplementsLedger` maps the log to the verdicts, the number of invoice
rows to the ledger's and rows of a Stripe checkout to opened subscriptions. Two
Razorpay events may have one id, and then share the verdict, as the ledger says.

Abstracted: amounts, currencies, plans (only whether one pays), dates other than
a period's end and the year of an invoice number. An event without any id is
ignored and changes nothing, and is not in the model; the plan and the user that
an event names are taken to exist, and its amount not to be zero: without one of
them less would be written, and the properties say what is written at most. Each
gateway subscription has its own customer, since checkout creates one per
session.

### Catalog

A slot is a transaction, a worker's batch or a request. `Open` takes its
snapshot, `Store` and `Request` work on the objects loaded from it, and a flush
writes the changed columns to the current row and locks it (`mine`); a unit of
work that finds a column equal to what it loaded does not write it, which is why
`ConfirmationRevivesNothing` holds. A document is pushed to Meilisearch at the
flush: `doc[c]` changes before the commit and no rollback takes it back. A push
is best-effort and may fail for any reason. (Of a row that is new it always
does: the document has `created_at` in it, `search/indexing.py:47`, which the
object has not loaded. The model lets it succeed as well, so that the properties
do not depend on it.) `Request` stands for submission, creation, update,
moderation, rescoring and reindexing: what they do to status, expiry and
document differs, and that difference is kept. `Create` always rolls back:
`rescore` reads `updated_at` (`coupon_service.py:77`), which the flush of the
new row has not loaded, and which cannot be loaded outside an await. Feedback
ends in the same way, since the flush of its report expires that column
(`models/mixins.py:18`), and so it changes nothing. A view changes nothing that
`Catalog` has. `Match` is an alert run over what the transaction sees, with the
cap and `last_fired_at`; `ExpireStale` is the sweep.

One alert, which every coupon matches; a batch stores a hash at most once; the
newest coupons first is any choice under the cap; no two things happen at one
instant of the clock (a coupon created in the very second of `last_fired_at` is
never looked at, `alerts_service.py:38`, and is listed as a hazard).

`suspect`, `excused` and `overlap` are histories. They name the races and
failures that the code does not handle, so that `IndexAgrees`, `NotifiedOnce`
and `LeftOutForAReason` say that nothing else goes wrong.

### Extraction, Scoring and Pipeline

`Extraction` has what becomes of a text once the regular expressions have found
what they find: the gate, the type, what the AI's answer overrides, the status
rule, the identity, the near duplicates. The identity holds the printed number,
and the AI's integer is not printed like the expression's float: an outage of
the AI gives one offer two rows (`dedup.py:23`). `OnlyOriginalIsUnpenalised`
says that the duplicate penalty tells them apart. A title, too, is the AI's if it
gives one.

`Scoring` computes in thousandths. A crawl and `rescore` compute scores by
different code and from different times: a crawl as if the coupon was seen now,
`rescore` by `updated_at`, which is set by every UPDATE, its own included.
`RescoringNeverFlatters` says of any week, view and roll-back in between that
rescoring finds no higher rank than the crawl stored. (An administrator's edit
may move an expiry; `Catalog` has those edits, `Pipeline` has not.) Its limit is
the first rescore: that one makes the coupon fresh, so that a second one may
lift it.

`Pipeline` is one batch: `Begin` takes the due sources; each step of `Work`
fetches a source, or takes one text of it to a row; the batch commits at its end
or, when a flush failed, rolls everything back, since the handler's own flush
fails as well (`pipeline.py:111`). `Crash` ends it. Both may happen to every
batch. What the batch has not committed is in `batch`: rows, count, and the
order of the sources, since `last_crawled_at` is rolled back with the rest. The
order is a queue, in which a crawled source goes to the back. `by` of a row is a
history: whether the extractor alone or the AI brought it in, or was last sure
enough to activate it. Between batches time passes in weeks, users view, and
administrators register, run and rescore; reports are rolled back, as said
above, and stay zero. `crawl_frequency` is read nowhere: every active source is
due at once. `updated_at` serves as "last seen", so that views and rescores make
a coupon fresh.

Not stated, because the code does otherwise and no document says what it should
do: feedback and an administrator's new coupon always fail (no run of its own
shows it, as it would restate the guard of `Create`); a source whose page loses
the batch every time stays in front of the queue and starves the others;
`coupon_count` misses what a crawl stored before it failed (`stranded`), and two
overlapping batches lose an increment.

### Merchants, Ranking, Freshness and Search

A search goes through `Begin` (the snapshot), `Understand` (the heuristics, the
alias index of its process, the cached AI answer), `AiAnswers` or `AiFails` for
each provider of the chain it took, `Lookup` (the cached response), `Retrieve`,
`Rank` and `Record`. `Rank` reads the cached setting, the setting, and caches both
the setting and the response; the search may miss a setting that is cached by
then, and Redis may fail. `Record` is the analytics row and the commit: it names
the merchant by a foreign key, waits for a transaction that has the merchant
locked, and ends the search with an error if there is no such merchant.
`CutShort` ends a search at any step, for a statement that failed or a process
that died. The batches of the worker lock merchants as well
(`pipeline.py:106`), for as long as they run, but add and remove none: a search
waits for them, as for any step that is not taken yet, or is cut short when the
wait times out.
Administrators' transactions have effects outside the database before they
commit: `EditWeights` deletes the cached setting, `EditMerchant` builds the alias
index of its process from rows not yet committed, `EditProviders` replaces the
router of its process. `Suggest` reads merchant names and titles.

Orders that the code leaves open are open in the model: Meilisearch may return
documents of equal relevance in any order (`ByRelevance`), and `rerank` keeps
the order of equal scores (`ByScore`). A failed search carries the merchant its
analytics row would have named.

The properties are about staleness and its bounds. Each cache lives in Redis or
in a process, has its own lifetime, and is filled from a snapshot that may be as
old as a transaction lasts: so the bounds are a lifetime plus `MaxRequest`.
`WeightsAreFresh` is the refinement of `Freshness`. The key of a cached response
has the second of the clock in it, since the filters do, so that responses are
shared within one second only; the property that depends on it is
`ResultsAreCurrent`.

Any search may be cut short. Beyond that, data may fail a search, and every
search after it that reads the same data: `BadDataWearsOff` bounds for how long.
A malformed AI answer is cached for a day before it is looked at, and every
search for that query fails meanwhile; one that is not an object fails its own
search. Weights that are not numbers fail every search with a hit, until an
administrator changes them. A merchant whose creation was rolled back stays in
the alias index of a process until the index expires, and a search that resolves
to it cannot write its analytics row: `_record_analytics` catches that
("Failures must not break search"), but the session then refuses to commit, as
it does after any other failure of that flush.

What the model shows of the code besides, without a property against it:
normalising strips `%` and `$`, so the heuristics never see a percentage or an
amount; an empty response is cached while the index fails; suggestions do not
filter by expiry; a changed order of providers reaches other web processes, and
the worker, only at their restart.

Assumed: relevance is a number of the document, whatever the text; the AI's
corrected text is not empty; the lifetime of responses, a setting too, is
constant. Coarser than the code: the check, the build and the assignment of
`get_alias_index` are one step (`merchant_service.py:64`), so that of two builds in
one process at once only one is seen, and the other would be as recent; a Redis
that fails a read is a miss; an administrator's `EditMerchant` activates,
deactivates or creates a merchant, but renames none and adds no alias, either of
which rebuilds the index in the same way; merchants are indexed in the order of
their ids, which is MySQL's choice for a select without an order; and the weighted
similarity of a fuzzy match is rounded down, so that for an alias of partial weight
that is just at the threshold the model may not find what the code does.

## Runs

| Run | Bounds | What it shows |
| --- | --- | --- |
| `quota` | 3 requests, limits 1..2, 2 windows of 3 ticks, 2 ticks to a second | the counter balances, limits hold, denials are deserved, an unarmed key has a culprit, `QuotaBudget` is implemented |
| `quota_whole_window` (violation) | limit 1, 1 window | two grants in one window of limit 1 |
| `sessions` | 4 requests, 1 user | revocation, suspension and spent links bind later requests; one live token per family |
| `sessions_reuse` (violation) | same | a replayed token does not revoke its family |
| `sessions_revoke_all` (violation) | same | a rotation that overlaps a password change survives it |
| `billing` | 2 slots, 3 events of 1 Stripe subscription, 1 checkout without gateway, 1 refundable payment, 1 year (0.5 million states) | events apply once, only the newest row is active, success is never answered for an unrecorded event, `EventLedger` is implemented |
| `billing_delivery` | 2 slots, 2 events, 2 gateways, 1 refundable payment, 2 years (0.2 million) | every event is recorded in the end; refunds agree with the gateway's books; the next invoice number is free |
| `billing_razorpay` (violation) | 2 slots, 2 events, 2 gateways | a paid Razorpay checkout activates nothing |
| `billing_period_close` (violation) | 1 slot | a subscription cancelled at period end never ends |
| `catalog` | 3 transactions in 2 slots, 2 coupons, cap 1 (5 in the code), 2 instants (1.3 million) | index and rows agree, a confirmation revives nothing, one notification each, nobody left out without reason |
| `pipeline` | 3 sources of which two are registered later, batches of 2 (20), 2 texts a source (200), 2 weeks or actions of users and administrators (0.2 million) | what goes live, how it is scored and counted, and that no source starves while batches are committed |
| `search` | 2 searches in 2 processes, 1 administrator, a merchant and a second one to be created whose name is one letter apart, a query with a typing error, 2 providers, 3 documents, 3 values of the weights, 1 result (20) of 2 fetched, lifetimes of 1 and 2, 3 seconds, 1 edit, 1 fault of a provider, the index or Redis (1.5 million) | results are current and the best, caches are stale by bounded times, providers are asked once, bad data wears off |

Why these bounds are enough: three requests give a grant, an excess hit and a
third that sees the excess hit before it is given back, and limits 1 and 2 let
them disagree; a window of one and a half seconds has a part before its last
second and the last second. Four requests give a login, two that overlap on its
token and one that starts after both; users share nothing but the interleaving.
Two slots give every pair of overlapping requests; three events give a checkout
and two later events in every order, with a fourth, the checkout without a
gateway, to replace the subscription in between. In `catalog`, three
transactions give two that overlap and one that starts after one of them, for
each of the two coupons, and a cap of one is reached by two coupons. In
`pipeline`, two of three sources a batch leave one for the next, so a source can
starve; two texts of one source can be one offer read twice; an outage, a wrong
and an unstorable answer each occur, and crawls, batches and processes may fail
without bound. In `search`, two processes are needed for a
stale alias index, two searches for a shared answer or response, three documents
for one that is relevant, one that is better and one that does not fit, and
three seconds for the longest lifetime, of two, to pass. With one fault a chain
that fails as a whole is the one with one provider: `Failover` below is for any
length. A search without AI, by choice or for lack of providers, goes on as one
whose only provider failed, and is left to that. The proofs remove these bounds for
every safety property.

Deadlock checking is off where the requests, transactions or the clock are used
up (`Quota`, `Sessions`, `Catalog`, `Search`: the bounds end the run). It is on
in the `billing` and `pipeline` runs: some request can always be opened, and the
worker always has a next batch.

Fairness. `Quota`, `Sessions`, `Catalog` and `Search` are checked for safety
only. `FairSpec` of `Pipeline` is weak fairness of `StartBatch \/ Work`, the
worker's own steps, of which one is possible at any time: `_loop` in `worker.py`
is there to "never let one failure kill the loop". Nothing is assumed of
fetches, of the AI, of users or of crashes: all may go wrong every time, and
then the one thing that is true is that batches go on ending. What the code
makes of `last_crawled_at` is lost with a batch, so that a source whose answers
are unstorable every time, or a process that dies of it, stays in front for ever
and the others starve. `SourcesGetCrawled` therefore says that no source starves
provided that batches are committed again and again, in whatever way their
crawls end. `FairSpec` of `Billing` assumes that a gateway delivers an event
again until one delivery was answered with success (strong: it keeps trying
while slots come and go), that an event which is delivered again and again is
answered at some time (strong: deadlocks, crashes and lost connections are not
permanent), and that requests of users end, refunds and the gateway's answers to
them included (weak). Nothing is assumed of an action of the code that does not
exist: no task ends a subscription at its period's close, and that is what
`billing_period_close` shows.

Each property is shown to depend on the code by a mutant: the definitions
`X_Fault` in the modules are plausible bugs of `X` (a dropped check, an
off-by-one, a forgotten write) under which TLC finds the property violated.

## Proofs

`QuotaProofs` proves, for any finite set of requests and any limits, window and
second lengths (`QuotaAssumption`): type correctness, `CounterIsCharge`,
`GrantsWithinLimit`, `DenialDeserved`, and that `Quota` implements
`QuotaBudget`; and `UnarmedKeyHasCulprit`. None of these is inductive alone. The
inductive invariant `QuotaInv` adds that later windows are untouched, that
before the last second an armed key outlives the window less a second, as does
the time to live that a request is about to set (else a key could be reset
inside the window), that verdicts agree with the comparison that was made, and
that an excess hit means a full smallest limit was accepted. The refinement maps
a Redis unit to a taken unit of the budget at `Incr`, when it is decided that it
is within the limit. An unarmed key has a culprit because a key that does not
exist counts nothing (`AbsentIsZero`): INCR creates a key only for the first
unit, and DECR creates none, since its own unit is still counted
(`CounterIsCharge`).

`SessionsProofs` proves, for any set of requests and users (`SessionsAssumption`:
there is a user), the four safety properties of `Sessions`. The invariant
`SessionsInv` has two halves. `Written` states what each committed request has
left in the tables; `Granted` states that what is in a granted request's past
cannot have taken away what it was granted. A step preserves them because a
request's past contains only requests that had ended (`PastHasEnded`) and a
request that commits now had not. One live token per family needs more: if two
tokens of a family have not been rotated, two rotations of a common ancestor
overlapped (`OneEndPerFamily`).

`BillingProofs` proves, for any slots, users, gateway subscriptions and events
(the assumption of `Billing` on its constants), type correctness, the five
safety invariants and `ImplementsLedger`. All build on `Base`: types, and that
what was delivered was emitted. Rows are never removed (`Follows`), so what a
request found in its snapshot stays. Four lemmas say once what a step can do to
each table (`TablesStep`, `Deliveries`, `InvoicesStep`, `RefundsMove`), and each
property adds what it needs: `SeenIsRecorded`, that a delivery which believes an
event known is right; `OnceInv`, that the log, the charges and the rows a Stripe
checkout sold move together; `NumbersInv`, that invoice numbers are counted and
that a count taken in a snapshot is no more than the invoices there are, across
years; `RefundsInv`, that of the requests for one payment only one was told yes
by the gateway. `ImplementsLedger` maps every step to one of the ledger or a
stutter (`LedgerStep`); what is needed besides `OnceInv` and `SeenIsRecorded` is
that the number an invoice gets is new (`OneMoreInvoice`), so that invoices and
charges grow by the same amount, and that what opens a subscription is charged
(`OpenedByCharge`).

`CatalogProofs` proves, for any transactions in any number of slots, any coupons
and any cap (the assumption of `Catalog`): type correctness, that a crawl revives
nothing, that an alert notifies once, that nobody is left out without a reason,
and that documents agree with rows. `Steps` reduces the many operations to a few
kinds of step: a `Write` of a row by a transaction that has it locked, a
`Republish` of a document, an alert run, a commit, a rollback, the clock. `Base`
is what all properties build on: types, at most one transaction that holds a
row's lock (`Exclusive`), a request that writes once, rows that stay. Beside it,
`AlertInv` says which coupons a run can look at, namely those nobody was
notified of, unless another run committed since it began; `SettledInv` that a
coupon no run will look at again was notified or excused; and `IndexInv` what the
document of each coupon is relative to its row, to the writer that has it locked
and to what `suspect` names. The document changes before the commit, so
`IndexAgrees` is not inductive: in between it is the writer's object that the
document agrees with. `NothingIsRevived` is an action property that needs no
invariant: the commit of a row that the writer found active writes the columns
that it changed only (`Merged`).

`ScoringProofs` has the lemmas about scores: all are thousandths, a duplicate is
penalised, and `FailuresNeverHelp` and `SuccessesNeverHurt`, for any number of
reports. The code takes the lower end of Wilson's interval; the model defines it
without a square root, as the largest value from which the observed rate is
within the interval (`IsLowerBound`). Both theorems rest on two facts: that
being at most the lower end is inherited downwards (`LowerBoundsGoDown`), so that
the largest is well defined, and that a failure only removes such values
(`FailuresLower`), while a success only adds some.

`PipelineProofs` proves, for any sources, texts, answers and limits: type
correctness, `LiveIsRecognised`, `OnlyOriginalIsUnpenalised`,
`CountMatchesRows`, and `RescoringNeverFlatters`. The invariant `IInv` says the
same things twice, of the committed rows and of the rows the batch in flight
sees (`Good(rows)` and `Good(batch.rows)`), because a commit makes the one of
the other and a rollback forgets the latter; `Tally` says that the batch's count
plus what the current source has added is the number of its rows, or less of
them once a crawl failed; `Queued` that the order of the sources has no
repetitions. `RescoringNeverFlatters` needs two facts of each row besides:
`RatesFollow`, that its success score is the one of its reports, and `Dated`,
that the stored expiry score promises at least the time that is left and that
the stored freshness is that of a coupon seen now, until it is rescored. Then no
score that `rescore` refreshes can be above the stored one (`ExpiryFalls`), and
the blend follows (`RankGrows`). `NobodyOvertakes` is the safety half of
`SourcesGetCrawled`: a source that waits is overtaken by nobody, whatever crawls
fail, batches are lost and sources are registered. Its invariant `PlacesKept`
compares the queue of the batch in flight with the committed one: a source of
the latter is still in place or was crawled, and then the batch's remaining
sources cannot push it out of the last `Limit`.

`MatchingProofs` is about the two pure algorithms a search uses. `Dominance`: for
any weights that are not negative, a document at least as good in every factor
and no more of a duplicate scores at least as high, through normalisation and
clamp. It is the reason why `NothingDominatedIsShown` holds of every setting and
not of those in the run. And for any two words, `DistanceIsSound`: the table of
`levenshtein` is symmetric, zero for equal words only, and between the
difference of the lengths and the longer length, so that its early returns say
what the table would. `OneEditCostsOne` adds that a changed, a missing, an
additional letter and two swapped ones cost at most one edit, wherever they are,
and `MisspelledWordsResolve` that a query with such a word resolves to a
merchant, whatever merchants, aliases and other words there are.

The table is a recursive function over cells. That it is defined at all
(`TableExists`), and each fact about its entries, is an induction over the cells
in the order of the code's loops, which is written with a set: were the set of
the cells (or numbers) for which it fails not empty, it would have a least one
(`Least`, `AllNumbers`, `AllCells`). `EntriesWithin` bounds the entries,
`Transposed` is the symmetry, and `OneDetourCostsOne` says that a table whose
two words differ by one detour from the diagonal keeps within one of zero from
there on.

`SearchProofs` proves, for any number of searches, processes, merchants,
documents, settings, edits and any lifetimes (`MerchantsAssumption` and
`SearchAssumption`), all safety properties of `Search`. The invariant is in
parts, each resting on those before it:

* `AskInv`: what a search has asked is the beginning of the chain it took, and
  chains do not repeat. It gives `Failover`.
* `Timely`: what is in flight began at most `MaxRequest` ago.
* `SettingsHeld`: a value of the setting that a search saw, or that is cached, was
  replaced, if at all, no earlier than the search began, or than the cache was
  filled less a transaction. It gives the refinement `SettingsAreFresh`: every
  step is one of `Freshness` or a stutter, through a cache that may be filled
  with an old value after its invalidation, and invalidations that fail.
* `MerchantsHeld`: the merchants a process or a search knows differ from the
  active ones only in merchants that are being changed or changed since
  (`Agrees`), and one that is resolved has a row, or changed since (`Exists`).
* `AnswersHeld`: a malformed answer in the cache is remembered in `poisoned`, with
  a time from which its expiry follows. With `MerchantsHeld` it gives
  `BadDataIsForgotten`.
* `PagesHeld`: the hits of a search and the pages of the cache are what the index
  had when the filters were made, up to documents that changed since
  (`Fits`, `Collected`, `Presented`). It gives `ShownIsCurrent`,
  `TheBestAreShown` and, with `Dominance`, `NoDominatedResult`.
* `Forgives`: what a search has understood of its words names a merchant if one of
  them is misspelled, for an answer from the cache as for one resolved now. With
  `MisspelledWordsResolve` it gives `TypingErrors`.
* `Counted`: what `SearchTypes` needs besides.

These parts were model-checked on the instance of the `search` run before they
were proved; since they are proved, no run repeats it.

What the attempts to prove showed of the models. The lower bound was ambiguous
where every report is a success (1 is then a root of the equation too, and not
the lower one): it is now below 1. `LiveIsRecognised` was not true of a row that
the AI made live and the extractor read again later: it is now about what the
extractor alone read, by the history `by`. A batch of fewer due sources than its
limit took elements past the end of the queue. Ties in relevance and in score
had been broken by the order of TLC's values, which is no order of the code. A
failed analytics row was not related to the merchant it names, so that any
change of any merchant could have served as its cause (`BadDataWearsOff`).
`TypingErrorsAreForgiven` was about any key of full weight that some active
merchant has; but a merchant later in the order takes the key's place in the
index with its own weight, which for a weak alias is too low for a misspelling:
it is now about the keys and weights of the index. And staleness is bounded only
if lifetimes are positive, which those in the code are.

Only model-checked: liveness, `SourcesGetCrawled` and `EventsGetRecorded`
(fairness and ENABLED are beyond the prover). Every other property of a passing
run is a theorem.

## What the models found

Five places where the code does not do what it says; `findings` in
`PROJECT.json` quotes both sides. The quota counter may vanish in the last
second of its window. Reuse detection of refresh tokens revokes nothing, since
the exception that reports it rolls the revocation back. A refresh that overlaps
a password change keeps its session. A paid Razorpay subscription is never
activated. A cancellation "at the period close" never happens.

## Not modelled

* Registration and access tokens: one insert; a signature checked against the
  user row on every request.
* `retry_failed_payments` selects failed payments with a retry time, and no code
  writes one.
* Rate limiting: a Redis counter like the quota's, without the DECR, that lets
  requests through when Redis fails.
* Accounts, engagement (saved coupons, watch lists, alerts and their reading),
  audit and email: single rows read and written in the request transaction, or
  one call to a mail server whose failure is logged.
* Administration and CLI beyond the commands and pages in the models above:
  aggregating queries, migrations, creation of accounts.
* Network protocols of crawlers and providers, HTML and XML, regular
  expressions: their results are inputs of the models.
* The PHP frontend: its calls are requests of the models above. Infrastructure.

## Plan

1. An abstract specification of a session (what is revoked stays revoked) that
   `Sessions` implements.
2. Rate limiting, beside `Quota`: the fixed window without DECR, failing open.
