------------------------------- MODULE Search -------------------------------
(***************************************************************************)
(* Searches in flight in several web processes: understanding the query    *)
(* with the help of AI providers, the filters, the cached response, the    *)
(* documents of the index, the ranking with weights from the settings --   *)
(* and the administrators' transactions that change merchants, settings    *)
(* and providers underneath, together with the caches in Redis and in the  *)
(* processes that both of them use.                                        *)
(*                                                                         *)
(* What puts a document into the index is the subject of module Catalog;   *)
(* the quota that a search takes first, that of module Quota.              *)
(***************************************************************************)
EXTENDS Merchants, Ranking

CONSTANTS
    Req,            \* the searches
    Process,        \* the web processes
    On,             \* On[r]: the process that answers r
    UseAi,          \* BOUND: UseAi[r]: what use_ai of r may be
    Suggests,       \* BOUND: the searches that may ask for suggestions instead
    Prefixed,       \* the merchants whose name begins with what is typed then
    SuggestLimit,   \* how many suggestions are asked for
    Query, Typed,   \* Typed[q]: the words of a query, and what the heuristics see in it
    Answers,        \* Answers[q]: what a provider may answer about it
    Provider,       \* the AI providers
    FirstChain, Chains, \* the orders of available providers: the first one, and all of them
    FirstMerchants, \* BOUND: the merchants that may be there at first, all of them active
    Desk,           \* BOUND: the processes that answer administrators
    Coupon, Doc,    \* Doc[c]: the document of coupon c
    Setting,        \* values of the setting ranking_weights; 0 is to have none
    WeightsOf,      \* the weights in each of them
    Unusable,       \* those with weights that are not numbers
    Limit, OverFetch,                           \* results asked for; 3 times as many are fetched
    AliasTtl, SettingTtl, AiTtl, ResultTtl,     \* how long the caches keep something
    Soon,           \* how far ahead "expiring soon" looks
    MaxTime,        \* BOUND: the clock
    MaxRequest,     \* BOUND: how long a search or an edit takes
    MaxEdits,       \* BOUND: the edits of administrators and changes of the index
    MaxFaults       \* BOUND: failures of providers, of the index and of Redis

(* Answers that raise when they are used: one that is not an object before *)
(* it is cached, one with a field of another type after that, and before   *)
(* its merchant is resolved.                                               *)
Malformed(answer) == answer.kind \in {"not_an_object", "bad_field"}
NoAnswer == [kind |-> "none"]
NoType == "none"
Evergreen == -1
Never == -1

ASSUME SearchAssumption ==
    /\ On \in [Req -> Process] /\ Desk \subseteq Process
    /\ Suggests \subseteq Req /\ Prefixed \subseteq Merchant /\ SuggestLimit \in Nat \ {0}
    /\ FirstMerchants \subseteq SUBSET Merchant
    /\ FirstChain \in Chains /\ Chains \subseteq Seq(Provider)
    /\ \A chain \in Chains : IsInjective(chain)
    /\ \A q \in Query : /\ Typed[q].words \in Seq(Word)
                        /\ \A a \in Answers[q] : ~Malformed(a) => a.merchant.words \in Seq(Word)
    /\ 0 \in Setting /\ Setting \cup Unusable \subseteq Nat
    /\ \A s \in Setting \ Unusable : Numbers(Weights(WeightsOf[s]))
    /\ IsFiniteSet(Coupon)
    /\ \A c \in Coupon : "relevance" \in DOMAIN Doc[c] /\ Document(Doc[c])
    /\ {Limit, OverFetch, Soon, MaxTime, MaxRequest, MaxEdits, MaxFaults} \subseteq Nat
    /\ {AliasTtl, SettingTtl, AiTtl, ResultTtl} \subseteq Nat \ {0}

VARIABLES
    clock,          \* seconds
    merchants,      \* the active merchants
    stored,         \* the merchants that have a row, active or not
    weights,        \* the setting ranking_weights
    providers,      \* the available providers by priority
    index,          \* index[p]: the alias index of a process, and when it was built
    router,         \* router[p]: the providers a process asks
    cachedWeights, cachedAnswers, cachedPages,  \* Redis
    docs,           \* the documents of the search index
    edit,           \* the administrator's transaction
    req,            \* the searches
    changed,        \* history: when each merchant and document changed last
    replaced,       \* history: when each setting was replaced
    used,           \* history: the setting the last ranking used, and when
    poisoned,       \* history: when a provider last gave a malformed answer about a query
    edits, faults   \* what MaxEdits and MaxFaults bound

stores == <<merchants, stored, weights, providers, docs>>
redis == <<cachedWeights, cachedAnswers, cachedPages>>
history == <<changed, replaced, used, poisoned>>
vars == <<clock, stores, index, router, redis, edit, req, history, edits, faults>>

Idle == [at |-> "idle"]
Nothing == [text |-> << >>, merchant |-> NoMerchant, type |-> NoType, least |-> 0, soon |-> FALSE]
Aborted == [at |-> "aborted"]
InFlight(t) == t.at \notin {"idle", "done", "failed", "suggested", "aborted"}

Init ==
    /\ clock = 0
    /\ merchants \in FirstMerchants /\ stored = merchants
    /\ weights = 0 /\ providers = FirstChain
    /\ index = [p \in Process |-> [known |-> merchants, built |-> 0]]
    /\ router = [p \in Process |-> providers]
    /\ cachedWeights = << >>
    /\ cachedAnswers = << >> /\ cachedPages = << >>
    /\ docs = Coupon
    /\ edit = Idle /\ req = [r \in Req |-> Idle]
    /\ changed = [x \in Merchant \cup Coupon |-> Never]
    /\ replaced = [s \in Setting |-> Never]
    /\ used = [value |-> 0, at |-> 0]
    /\ poisoned = [q \in Query |-> Never]
    /\ edits = 0 /\ faults = 0

----------------------------------------------------------------------------
(* What a search sees of the database is as of its first statement, which  *)
(* is that of the authentication or the quota.                             *)
Begin(r, q, ai) ==
    /\ req[r].at = "idle"
    /\ req' = [req EXCEPT ![r] = [at |-> "begun", query |-> q, ai |-> ai, began |-> clock,
                                  view |-> [merchants |-> merchants, weights |-> weights],
                                  intent |-> Nothing, known |-> {}, chain |-> << >>, asked |-> << >>]]
    /\ UNCHANGED <<clock, stores, index, router, redis, edit, history, edits, faults>>

Stage(r, at, intent, known, chain, asked) ==
    [at |-> at, query |-> req[r].query, ai |-> req[r].ai, began |-> req[r].began,
     view |-> req[r].view, intent |-> intent, known |-> known, chain |-> chain, asked |-> asked]
To(r, next) == req' = [req EXCEPT ![r] = next]
Fail(r, why, m) ==
    To(r, [at |-> "failed", query |-> req[r].query, began |-> req[r].began, why |-> why, merchant |-> m])
Answer(r, f, page) ==
    To(r, [at |-> "answering", query |-> req[r].query, began |-> req[r].began,
           filters |-> f, page |-> page])

(* get_alias_index: built anew from what the caller's transaction sees.    *)
Expired_Never(ix) == ix.known = {}
Expired(ix) == ix.known = {} \/ clock - ix.built > AliasTtl
AliasIndex(p, view) ==
    IF Expired(index[p]) THEN [known |-> view.merchants, built |-> clock] ELSE index[p]

Heuristic(q, m) ==
    [text |-> Typed[q].whole, merchant |-> m, type |-> Typed[q].type, least |-> 0,
     soon |-> Typed[q].soon]

(* The merchant an AI names counts only if it resolves to one we know.     *)
Merged(known, intent, answer) ==
    {[text |-> answer.text,
      merchant |-> IF m = NoMerchant THEN intent.merchant ELSE m,
      type |-> IF answer.type = NoType THEN intent.type ELSE answer.type,
      least |-> IF answer.type = NoType THEN intent.least ELSE answer.least,
      soon |-> answer.soon \/ intent.soon] : m \in Resolve(known, answer.merchant)}

(* The rest of understand_query once there is an answer.  What a malformed *)
(* field raises is not caught, and the search ends with an error.          *)
Answered(r, known, intent, answer, asked) ==
    IF Malformed(answer) THEN Fail(r, "answer", NoMerchant)
    ELSE \E i \in Merged(known, intent, answer) :
            To(r, Stage(r, "understood", i, known, << >>, asked))

AnswerOf(q) ==
    IF q \in DOMAIN cachedAnswers THEN cachedAnswers[q].answer ELSE NoAnswer

(* The router object is taken once: a configuration that replaces it later *)
(* is for later searches.                                                  *)
Understand(r) ==
    /\ req[r].at = "begun"
    /\ LET q == req[r].query
           ix == AliasIndex(On[r], req[r].view)
       IN  /\ index' = [index EXCEPT ![On[r]] = ix]
           /\ \E m \in Resolve(ix.known, Typed[q]) :
                LET intent == Heuristic(q, m)
                IN  IF req[r].ai /\ AnswerOf(q) # NoAnswer
                    THEN Answered(r, ix.known, intent, AnswerOf(q), << >>)
                    ELSE LET chain == IF req[r].ai THEN router[On[r]] ELSE << >>
                         IN  To(r, Stage(r, IF chain = << >> THEN "understood" ELSE "asking",
                                         intent, ix.known, chain, << >>))
    /\ UNCHANGED <<clock, stores, router, redis, edit, history, edits, faults>>

(* AIRouter.complete_json: the next provider is asked. *)
NextProvider_OfRouter(r) ==
    LET now == router[On[r]]  next == Len(req[r].asked) + 1
    IN  IF next <= Len(now) THEN now[next] ELSE req[r].chain[next]
NextProvider(r) == req[r].chain[Len(req[r].asked) + 1]

Keep(cache, key, v) == [k \in DOMAIN cache \cup {key} |-> IF k = key THEN v ELSE cache[k]]
Kept_Forever(answer) == [answer |-> answer, until |-> MaxTime + 1]
Kept(answer) == [answer |-> answer, until |-> clock + AiTtl]
AnswerKept(q, answer) ==
    cachedAnswers' = IF answer.kind = "not_an_object" THEN cachedAnswers
                     ELSE Keep(cachedAnswers, q, Kept(answer))

AiAnswers(r, answer) ==
    /\ req[r].at = "asking"
    /\ AnswerKept(req[r].query, answer)
    /\ poisoned' = IF Malformed(answer) THEN [poisoned EXCEPT ![req[r].query] = clock] ELSE poisoned
    /\ index' = IF Malformed(answer) THEN index
                ELSE [index EXCEPT ![On[r]] = AliasIndex(On[r], req[r].view)]
    /\ Answered(r, AliasIndex(On[r], req[r].view).known, req[r].intent, answer,
                Append(req[r].asked, NextProvider(r)))
    /\ UNCHANGED <<clock, stores, router, cachedWeights, cachedPages, edit,
                   changed, replaced, used, edits, faults>>

AiFails(r) ==
    /\ req[r].at = "asking" /\ faults < MaxFaults
    /\ faults' = faults + 1
    /\ LET asked == Append(req[r].asked, NextProvider(r))
       IN  To(r, Stage(r, IF Len(asked) < Len(req[r].chain) THEN "asking" ELSE "understood",
                       req[r].intent, req[r].known, req[r].chain, asked))
    /\ UNCHANGED <<clock, stores, index, router, redis, edit, history, edits>>

----------------------------------------------------------------------------
(* _build_filters reads the clock, so the key of the cached response has   *)
(* the second in it.                                                       *)
Filters(intent) ==
    [merchant |-> intent.merchant, type |-> intent.type, least |-> intent.least,
     soon |-> intent.soon, at |-> clock]

Matches(c, f) ==
    /\ f.merchant # NoMerchant => Doc[c].merchant = f.merchant
    /\ Doc[c].expires = Evergreen \/ Doc[c].expires >= f.at
    /\ f.type \notin {"any", NoType} => Doc[c].type = f.type
    /\ f.type \in {"percentage", "fixed"} => Doc[c].value >= f.least
    /\ f.soon => Doc[c].expires # Evergreen /\ Doc[c].expires <= f.at + Soon

Key_NoTime(text, f) == <<text, [f EXCEPT !.at = 0]>>
Key(text, f) == <<text, f>>

Lookup(r) ==
    /\ req[r].at = "understood"
    /\ LET f == Filters(req[r].intent)
           key == Key(req[r].intent.text, f)
       IN  IF key \in DOMAIN cachedPages
           THEN Answer(r, f, cachedPages[key].page)
           ELSE To(r, [at |-> "retrieving", query |-> req[r].query, began |-> req[r].began,
                       saw |-> req[r].view.weights, text |-> req[r].intent.text, filters |-> f])
    /\ UNCHANGED <<clock, stores, index, router, redis, edit, history, edits, faults>>

(* Meilisearch returns the most relevant of the documents that match; if   *)
(* it fails, there are none.  The order of equals is anybody's guess.      *)
Leading(n, s) == SubSeq(s, 1, Lower(n, Len(s)))
Ahead(c, d) == Doc[c].relevance > Doc[d].relevance
ByRelevance(S) == {o \in SetToSeqs(S) : \A i, j \in DOMAIN o : i < j => ~Ahead(o[j], o[i])}
Fetched_NoMore == Limit
Fetched == Limit * OverFetch
Found(f) == {c \in docs : Matches(c, f)}
Retrieve(r, ok) ==
    /\ req[r].at = "retrieving"
    /\ \E found \in ByRelevance(Found(req[r].filters)) :
         To(r, [at |-> "ranking", query |-> req[r].query, began |-> req[r].began,
                saw |-> req[r].saw, text |-> req[r].text, filters |-> req[r].filters, ok |-> ok,
                hits |-> IF ok THEN ToSet(Leading(Fetched, found)) ELSE {}])
    /\ faults' = IF ok THEN faults ELSE faults + 1
    /\ faults' <= MaxFaults
    /\ UNCHANGED <<clock, stores, index, router, redis, edit, history, edits>>

(* Scores in a table, so that each is computed once. *)
Final == [s \in Setting \ Unusable |-> [c \in Coupon |-> FinalScore(Weights(WeightsOf[s]), Doc[c])]]
Before(s, c, d) ==
    \/ Final[s][c] > Final[s][d]
    \/ Final[s][c] = Final[s][d] /\ Ahead(c, d)
ByScore(s, S) == {o \in SetToSeqs(S) : \A i, j \in DOMAIN o : i < j => ~Before(s, o[j], o[i])}
Shown_All(ranked) == ranked
Shown(ranked) == Leading(Limit, ranked)
Pages(r, s) ==
    {[coupons |-> Shown(ranked), by |-> s, ok |-> req[r].ok] : ranked \in ByScore(s, req[r].hits)}

(* get_setting, then rerank, then the response is cached.  The setting is  *)
(* looked up before it is read, and read before it is cached, so that it   *)
(* may be in Redis although this search missed it; and Redis may fail, at  *)
(* which the setting is read, and what was to be cached is not.            *)
WeightsKey == "ranking_weights"
KeptSetting(s) == [k \in {WeightsKey} |-> [value |-> s, until |-> clock + SettingTtl]]
CachedSetting == WeightsKey \in DOMAIN cachedWeights
SettingOf(r, hit) == IF hit THEN cachedWeights[WeightsKey].value ELSE req[r].saw
RankBy(r, s, cached) ==
    IF s \in Unusable /\ req[r].hits # {}
    THEN Fail(r, "weights", NoMerchant) /\ UNCHANGED cachedPages
    ELSE \E page \in Pages(r, s) :
         /\ Answer(r, req[r].filters, page)
         /\ cachedPages' =
               IF cached THEN Keep(cachedPages, Key(req[r].text, req[r].filters),
                                   [page |-> page, until |-> clock + ResultTtl])
               ELSE cachedPages
Rank(r) ==
    /\ req[r].at = "ranking"
    /\ \E hit, kept \in BOOLEAN :
         LET s == SettingOf(r, hit)
         IN  /\ hit => CachedSetting
             /\ cachedWeights' = IF kept /\ ~hit THEN KeptSetting(s) ELSE cachedWeights
             /\ used' = [value |-> s, at |-> clock]
             /\ RankBy(r, s, kept)
             /\ faults' = IF kept THEN faults ELSE faults + 1
    /\ faults' <= MaxFaults
    /\ UNCHANGED <<clock, stores, index, router, cachedAnswers, edit,
                   changed, replaced, poisoned, edits>>

(* The row about the search names the merchant, and InnoDB waits for a     *)
(* transaction that has it locked.  If there is no such merchant then, the *)
(* flush fails and the exception is caught, but the session is to be       *)
(* rolled back, so that its commit fails before the response is sent.      *)
(* (A batch of the worker locks merchants as well, but those that are      *)
(* there and stay: a search waits for it, or is cut short.)                *)
Locked(m) == edit.at = "open" /\ edit.kind = "merchant" /\ edit.value = m
Record(r) ==
    /\ req[r].at = "answering" /\ ~Locked(req[r].filters.merchant)
    /\ IF req[r].filters.merchant \in stored \cup {NoMerchant}
       THEN To(r, [at |-> "done", filters |-> req[r].filters, page |-> req[r].page])
       ELSE Fail(r, "record", req[r].filters.merchant)
    /\ UNCHANGED <<clock, stores, index, router, redis, edit, history, edits, faults>>

(* A statement of the search fails, the flush of that row included: on a   *)
(* lock wait timeout, as a deadlock or for a lost connection; or its       *)
(* process dies.                                                           *)
CutShort(r) ==
    /\ InFlight(req[r])
    /\ To(r, Aborted)
    /\ UNCHANGED <<clock, stores, index, router, redis, edit, history, edits, faults>>

----------------------------------------------------------------------------
(* suggest: merchants by name, up to half of the limit (of a limit of one, *)
(* only the first name is looked at), then documents, expired or not.      *)
Named(known) ==
    {m \in known \cap Prefixed : SuggestLimit > 1 \/ \A n \in known : m <= n}
ById(S) == {o \in SetToSeqs(S) : \A i, j \in DOMAIN o : i < j => o[i] < o[j]}
Names(sorted) == Leading(IF SuggestLimit > 1 THEN SuggestLimit \div 2 ELSE 1, sorted)
Suggest(r, ok) ==
    /\ r \in Suggests /\ req[r].at = "idle"
    /\ LET ix == AliasIndex(On[r], [merchants |-> merchants])
       IN  /\ index' = [index EXCEPT ![On[r]] = ix]
           /\ \E sorted \in ById(Named(ix.known)), found \in ByRelevance(docs) :
                LET names == Names(sorted)
                IN  To(r, [at |-> "suggested", began |-> clock, names |-> names,
                           coupons |-> IF ok THEN Leading(SuggestLimit - Len(names), found)
                                             ELSE << >>])
    /\ faults' = IF ok THEN faults ELSE faults + 1
    /\ faults' <= MaxFaults
    /\ UNCHANGED <<clock, stores, router, redis, edit, history, edits>>

----------------------------------------------------------------------------
(* The administrators' transactions.  What they do outside the database    *)
(* happens when they flush: only then do they commit, or roll back.        *)
Edit(kind, value) ==
    /\ edit.at = "idle" /\ edits < MaxEdits
    /\ edit' = [at |-> "open", kind |-> kind, value |-> value, began |-> clock]
    /\ edits' = edits + 1
    /\ UNCHANGED <<clock, stores, cachedAnswers, cachedPages, req, history>>

(* set_setting deletes the cached value, if Redis lets it. *)
Invalidated_WriteThrough(s) == KeptSetting(s)
Invalidated(s) == << >>
EditWeights(s, deleted) ==
    /\ s # weights /\ replaced[s] = Never
    /\ Edit("weights", s)
    /\ cachedWeights' = IF deleted THEN Invalidated(s) ELSE cachedWeights
    /\ faults' = IF deleted THEN faults ELSE faults + 1
    /\ faults' <= MaxFaults
    /\ UNCHANGED <<index, router>>

(* create_merchant and update_merchant build the alias index of their own  *)
(* process from what they are about to commit.                             *)
Toggled(m) == SymDiff(merchants, {m})
EditMerchant(p, m) ==
    /\ Edit("merchant", m)
    /\ index' = [index EXCEPT ![p] = [known |-> Toggled(m), built |-> clock]]
    /\ UNCHANGED <<router, cachedWeights, faults>>

(* update_provider does the same to the router. *)
EditProviders(p, chain) ==
    /\ chain # providers
    /\ Edit("providers", chain)
    /\ router' = [router EXCEPT ![p] = chain]
    /\ UNCHANGED <<index, cachedWeights, faults>>

Commit ==
    /\ edit.at = "open"
    /\ edit' = Idle
    /\ weights' = IF edit.kind = "weights" THEN edit.value ELSE weights
    /\ replaced' = IF edit.kind = "weights" THEN [replaced EXCEPT ![weights] = clock] ELSE replaced
    /\ providers' = IF edit.kind = "providers" THEN edit.value ELSE providers
    /\ merchants' = IF edit.kind = "merchant" THEN Toggled(edit.value) ELSE merchants
    /\ stored' = IF edit.kind = "merchant" THEN stored \cup {edit.value} ELSE stored
    /\ changed' = IF edit.kind = "merchant" THEN [changed EXCEPT ![edit.value] = clock] ELSE changed
    /\ UNCHANGED <<clock, docs, index, router, redis, req, used, poisoned, edits, faults>>

Abort ==
    /\ edit.at = "open" /\ faults < MaxFaults
    /\ faults' = faults + 1
    /\ edit' = Idle
    /\ changed' = IF edit.kind = "merchant" THEN [changed EXCEPT ![edit.value] = clock] ELSE changed
    /\ UNCHANGED <<clock, stores, index, router, redis, req, replaced, used, poisoned, edits>>

(* The page of AI usage configures the router of its process, too. *)
RefreshRouter(p) ==
    /\ router[p] # providers
    /\ router' = [router EXCEPT ![p] = providers]
    /\ UNCHANGED <<clock, stores, index, redis, edit, req, history, edits, faults>>

(* Something adds a document to the index or removes one. *)
IndexChanges(c) ==
    /\ edits < MaxEdits
    /\ edits' = edits + 1
    /\ docs' = SymDiff(docs, {c})
    /\ changed' = [changed EXCEPT ![c] = clock]
    /\ UNCHANGED <<clock, merchants, stored, weights, providers, index, router, redis, edit, req,
                   replaced, used, poisoned, faults>>

(* Redis drops what it has kept for long enough. *)
Alive(cache) == Restrict(cache, {k \in DOMAIN cache : cache[k].until > clock + 1})

Began == {req[r].began : r \in {x \in Req : InFlight(req[x])}}
         \cup {edit.began : x \in {y \in {1} : edit.at = "open"}}
Tick ==
    /\ clock < MaxTime /\ \A t \in Began : clock - t < MaxRequest
    /\ clock' = clock + 1
    /\ cachedWeights' = Alive(cachedWeights) /\ cachedAnswers' = Alive(cachedAnswers)
    /\ cachedPages' = Alive(cachedPages)
    /\ UNCHANGED <<stores, index, router, edit, req, history, edits, faults>>

Work(r) ==
    \/ Understand(r)
    \/ \E answer \in UNION {Answers[q] : q \in Query} :
         req[r].at = "asking" /\ answer \in Answers[req[r].query] /\ AiAnswers(r, answer)
    \/ AiFails(r)
    \/ Lookup(r)
    \/ \E ok \in BOOLEAN : Retrieve(r, ok)
    \/ Rank(r)
    \/ Record(r) \/ CutShort(r)
    \/ \E ok \in BOOLEAN : Suggest(r, ok)

Next ==
    \/ \E r \in Req : Work(r) \/ \E q \in Query, ai \in UseAi[r] : Begin(r, q, ai)
    \/ \E s \in Setting, deleted \in BOOLEAN : EditWeights(s, deleted)
    \/ \E p \in Desk : \/ \E m \in Merchant : EditMerchant(p, m)
                       \/ \E chain \in Chains : EditProviders(p, chain)
    \/ \E p \in Process : RefreshRouter(p)
    \/ Commit \/ Abort
    \/ \E c \in Coupon : IndexChanges(c)
    \/ Tick

Spec == Init /\ [][Next]_vars

----------------------------------------------------------------------------
TypeOK ==
    /\ clock \in 0 .. MaxTime
    /\ merchants \subseteq stored /\ stored \subseteq Merchant
    /\ weights \in Setting /\ providers \in Chains
    /\ \A p \in Process : /\ index[p].known \subseteq Merchant /\ index[p].built \in 0 .. clock
                          /\ router[p] \in Chains
    /\ \A k \in DOMAIN cachedWeights : cachedWeights[k].value \in Setting
    /\ \A q \in DOMAIN cachedAnswers : cachedAnswers[q].answer \in Answers[q]
    /\ \A k \in DOMAIN cachedPages : ToSet(cachedPages[k].page.coupons) \subseteq Coupon
    /\ docs \subseteq Coupon /\ used.value \in Setting
    /\ \A r \in Req :
         /\ req[r].at = "done" => Len(req[r].page.coupons) <= Limit
         /\ req[r].at = "suggested" => Len(req[r].names) + Len(req[r].coupons) <= SuggestLimit
    /\ edits \in 0 .. MaxEdits /\ faults \in 0 .. MaxFaults

(* A search shows what was in the index when it began to look, or later,   *)
(* fits its merchant, and has not expired: a cached response is never of   *)
(* an earlier second.                                                      *)
ResultsAreCurrent ==
    \A r \in Req : req[r].at = "done" =>
        \A c \in ToSet(req[r].page.coupons) :
            /\ Matches(c, req[r].filters)
            /\ c \in docs \/ changed[c] >= req[r].filters.at

(* A document that fits is left out only for no worse ones, or because the *)
(* fetch had room only for no less relevant ones, or the index failed.     *)
BestOfTheRelevant ==
    \A r \in Req : req[r].at = "done" /\ req[r].page.ok =>
        LET page == req[r].page
            since(c) == changed[c] >= req[r].filters.at
            fits(c) == Matches(c, req[r].filters)
        IN  \A c \in docs \ ToSet(page.coupons) : ~since(c) /\ fits(c) =>
                \/ /\ Len(page.coupons) = Limit
                   /\ \A d \in ToSet(page.coupons) : ~Before(page.by, c, d)
                \/ Cardinality({d \in Coupon \ {c} : ~Ahead(c, d) /\ fits(d) /\ (d \in docs \/ since(d))})
                   >= Limit * OverFetch

(* A result never takes the place of one that fits, is more relevant and   *)
(* no worse in any factor, however the weights are set.                    *)
NothingDominatedIsShown ==
    \A r \in Req : req[r].at = "done" /\ req[r].page.ok /\ req[r].page.coupons # << >>
                  /\ Sane(Weights(WeightsOf[req[r].page.by])) =>
        \A c \in docs \ ToSet(req[r].page.coupons), d \in ToSet(req[r].page.coupons) :
            Matches(c, req[r].filters) /\ Ahead(c, d) /\ Dominates(Doc[c], Doc[d])
            => changed[c] >= req[r].filters.at

(* What a search takes for the merchants, or suggests, disagrees with the  *)
(* database only about changes that are in flight, or were committed or    *)
(* rolled back within the life of an index and the transaction that built  *)
(* it.                                                                     *)
Disputed(r) ==
    IF req[r].at = "suggested" THEN ToSet(req[r].names) \ merchants
    ELSE IF req[r].at \in {"asking", "understood"} THEN SymDiff(req[r].known, merchants)
    ELSE {}
AliasIndexIsRecent ==
    \A r \in Req : \A m \in Disputed(r) :
        \/ edit.at = "open" /\ edit.kind = "merchant" /\ edit.value = m
        \/ changed[m] # Never /\ req[r].began - changed[m] <= AliasTtl + MaxRequest

(* A word with one typing error in it still finds a merchant, as long as   *)
(* the alias index has it with full weight and four letters at least: it   *)
(* resolves to that merchant, or to another one that is as similar.        *)
TypingErrorsAreForgiven ==
    \A r \in Req :
        /\ req[r].at \in {"asking", "understood"} /\ req[r].asked = << >>
        /\ Misspells(Typed[req[r].query].words, req[r].known)
        => req[r].intent.merchant # NoMerchant

(* A provider is asked at most once for a search, and a search that asked  *)
(* one falls back to the heuristics only when it has asked them all, even  *)
(* when the order of the providers is changed meanwhile.                   *)
EachProviderIsAskedOnce ==
    \A r \in Req : req[r].at \in {"asking", "understood"} =>
        /\ IsInjective(req[r].asked)
        /\ req[r].at = "understood" => ToSet(req[r].chain) \subseteq ToSet(req[r].asked)

(* Bad data wears off.  A malformed answer fails searches for its query    *)
(* only as long as answers are kept, and a merchant that is not there, one *)
(* whose creation was rolled back, only as long as an alias index lives.   *)
(* (What a failing statement or process does to a search is CutShort, and  *)
(* may happen to any.)                                                     *)
BadDataWearsOff ==
    \A r \in Req : req[r].at = "failed" =>
        /\ req[r].why = "record" =>
              /\ req[r].merchant \in Merchant /\ changed[req[r].merchant] # Never
              /\ req[r].began - changed[req[r].merchant] <= AliasTtl + MaxRequest
        /\ req[r].why = "answer" =>
              /\ poisoned[req[r].query] # Never
              /\ req[r].began - poisoned[req[r].query] < AiTtl

(* The weights a ranking uses were those of the settings less than the     *)
(* life of a cached setting and of a transaction ago.                      *)
Promise == INSTANCE Freshness WITH
    Value <- Setting, First <- 0, Bound <- SettingTtl + MaxRequest,
    current <- weights, read <- used
WeightsAreFresh == Promise!Spec
=============================================================================
