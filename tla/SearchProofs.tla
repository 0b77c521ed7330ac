---------------------------- MODULE SearchProofs ----------------------------
(***************************************************************************)
(* The safety of searches, for any searches, processes, merchants,         *)
(* documents, settings, lifetimes and edits.  The inductive invariant is a *)
(* conjunction of parts, each preserved with the help of those before it:  *)
(*                                                                         *)
(*   AskInv         what a search has asked begins the chain it took;      *)
(*   Timely         searches and transactions in flight began lately;      *)
(*   SettingsHeld   what is read, cached or about to be cached of the      *)
(*                  setting was current not long ago;                      *)
(*   MerchantsHeld  what a process or a search takes for the merchants     *)
(*                  disagrees with the database about recent changes only; *)
(*   AnswersHeld    an answer that can fail a search is remembered as one; *)
(*   PagesHeld      hits and pages are what the index had at their time;   *)
(*   Counted        suggestions are few.                                   *)
(*                                                                         *)
(* Each property of the runs is a consequence of some of them.             *)
(***************************************************************************)
EXTENDS Search, MatchingProofs

----------------------------------------------------------------------------
(* The providers: whatever administrators do to the routers meanwhile, a   *)
(* search works through the chain it took, so that what it has asked is    *)
(* the beginning of a chain without repetitions; the routers and the       *)
(* transactions that replace them only ever hold such chains.              *)

(* A search that has not looked for documents yet. *)
Early == {"begun", "asking", "understood"}

Works(t) ==
    t.at \in Early =>
        /\ t.asked \in Seq(Provider) /\ t.chain \in Seq(Provider)
        /\ t.at = "begun" => t.asked = << >> /\ t.chain = << >>
        /\ t.at = "asking" =>
              /\ t.chain \in Chains /\ Len(t.asked) < Len(t.chain)
              /\ \A i \in 1 .. Len(t.asked) : t.asked[i] = t.chain[i]
        /\ t.at = "understood" =>
              IsInjective(t.asked) /\ ToSet(t.chain) \subseteq ToSet(t.asked)

ChainsHeld ==
    /\ providers \in Chains
    /\ router \in [Process -> Chains]
    /\ edit.at = "open" /\ edit.kind = "providers" => edit.value \in Chains
SearchesWork ==
    /\ req = [r \in Req |-> req[r]]
    /\ \A r \in Req : Works(req[r])
AskInv == ChainsHeld /\ SearchesWork

(* A search may become anything that still works through its chain. *)
LEMMA Becomes ==
    ASSUME SearchesWork, NEW r \in Req, NEW t, To(r, t), Works(t)
    PROVE  SearchesWork'
BY DEF SearchesWork, To, Works

(* The beginning of a chain without repetitions has none, either. *)
LEMMA BeginningIsInjective ==
    ASSUME NEW chain \in Chains, NEW asked \in Seq(Provider), Len(asked) <= Len(chain),
           \A i \in 1 .. Len(asked) : asked[i] = chain[i]
    PROVE  IsInjective(asked) /\ (Len(asked) = Len(chain) => ToSet(chain) \subseteq ToSet(asked))
<1>1. chain \in Seq(Provider) /\ IsInjective(chain)
    BY SearchAssumption
<1>2. DOMAIN asked = 1 .. Len(asked) /\ DOMAIN chain = 1 .. Len(chain)
    BY <1>1
<1>3. IsInjective(asked)
    BY <1>1, <1>2 DEF IsInjective
<1>4. ASSUME Len(asked) = Len(chain) PROVE ToSet(chain) \subseteq ToSet(asked)
    BY <1>2, <1>4 DEF ToSet
<1> QED BY <1>3, <1>4

(* What the next answer or failure makes of the list of those asked. *)
LEMMA AskedGrows ==
    ASSUME AskInv, NEW r \in Req, req[r].at = "asking",
           NEW asked, asked = Append(req[r].asked, NextProvider(r))
    PROVE  /\ asked \in Seq(Provider) /\ Len(asked) = Len(req[r].asked) + 1
           /\ Len(asked) <= Len(req[r].chain)
           /\ \A i \in 1 .. Len(asked) : asked[i] = req[r].chain[i]
<1> DEFINE t == req[r]
<1>1. /\ t.asked \in Seq(Provider) /\ t.chain \in Seq(Provider)
      /\ Len(t.asked) < Len(t.chain)
      /\ \A i \in 1 .. Len(t.asked) : t.asked[i] = t.chain[i]
    BY DEF AskInv, SearchesWork, Works, Early
<1>2. t.chain[Len(t.asked) + 1] \in Provider
    BY <1>1
<1> QED BY <1>1, <1>2 DEF NextProvider

LEMMA EmptyChain == /\ << >> \in Seq(Provider) /\ IsInjective(<< >>)
                    /\ ToSet(<< >>) = {} /\ Len(<< >>) = 0
BY DEF IsInjective, ToSet

(* A search that has an answer works on without a chain. *)
LEMMA AnsweredWorks ==
    ASSUME AskInv, NEW r \in Req, NEW known, NEW intent, NEW answer,
           NEW asked \in Seq(Provider), IsInjective(asked), Answered(r, known, intent, answer, asked)
    PROVE  SearchesWork'
<1>1. CASE Malformed(answer)
    <2> DEFINE t == [at |-> "failed", query |-> req[r].query, began |-> req[r].began, why |-> "answer",
                  merchant |-> NoMerchant]
    <2>1. To(r, t) /\ Works(t)
        BY <1>1 DEF Answered, Fail, Works, Early
    <2> QED BY <2>1, Becomes DEF AskInv
<1>2. CASE ~Malformed(answer)
    <2>1. PICK i : To(r, Stage(r, "understood", i, known, << >>, asked))
        BY <1>2 DEF Answered
    <2>2. Works(Stage(r, "understood", i, known, << >>, asked))
        BY EmptyChain DEF Works, Early, Stage
    <2> QED BY <2>1, <2>2, Becomes DEF AskInv
<1> QED BY <1>1, <1>2

LEMMA UnderstandWorks ==
    ASSUME AskInv, NEW r \in Req, Understand(r)
    PROVE  SearchesWork'
<1> DEFINE q == req[r].query
           ix == AliasIndex(On[r], req[r].view)
           chain == IF req[r].ai THEN router[On[r]] ELSE << >>
           at == IF chain = << >> THEN "understood" ELSE "asking"
<1>1. PICK m \in Resolve(ix.known, Typed[q]) :
        IF req[r].ai /\ AnswerOf(q) # NoAnswer
        THEN Answered(r, ix.known, Heuristic(q, m), AnswerOf(q), << >>)
        ELSE To(r, Stage(r, at, Heuristic(q, m), ix.known, chain, << >>))
    BY DEF Understand
<1>2. CASE req[r].ai /\ AnswerOf(q) # NoAnswer
    BY <1>1, <1>2, EmptyChain, AnsweredWorks
<1>3. CASE ~(req[r].ai /\ AnswerOf(q) # NoAnswer)
    <2>1. chain = << >> \/ chain \in Chains
        BY SearchAssumption DEF AskInv, ChainsHeld
    <2>2. chain \in Seq(Provider)
        BY <2>1, EmptyChain, SearchAssumption
    <2>3. chain # << >> => Len(chain) > 0
        BY <2>2
    <2>4. Works(Stage(r, at, Heuristic(q, m), ix.known, chain, << >>))
        <3> HIDE DEF chain
        <3> QED BY <2>1, <2>2, <2>3, EmptyChain DEF Works, Early, Stage
    <2> QED BY <1>1, <1>3, <2>4, Becomes DEF AskInv
<1> QED BY <1>2, <1>3

LEMMA AiAnswersWorks ==
    ASSUME AskInv, NEW r \in Req, NEW answer, AiAnswers(r, answer)
    PROVE  SearchesWork'
<1> DEFINE asked == Append(req[r].asked, NextProvider(r))
<1>1. req[r].at = "asking" /\ req[r].chain \in Chains
    BY DEF AiAnswers, AskInv, SearchesWork, Works, Early
<1>2. /\ asked \in Seq(Provider) /\ Len(asked) <= Len(req[r].chain)
      /\ \A i \in 1 .. Len(asked) : asked[i] = req[r].chain[i]
    BY <1>1, AskedGrows
<1>3. IsInjective(asked)
    BY <1>1, <1>2, BeginningIsInjective
<1>4. Answered(r, AliasIndex(On[r], req[r].view).known, req[r].intent, answer, asked)
    BY DEF AiAnswers
<1> HIDE DEF asked
<1> QED BY <1>2, <1>3, <1>4, AnsweredWorks

LEMMA AiFailsWorks ==
    ASSUME AskInv, NEW r \in Req, AiFails(r)
    PROVE  SearchesWork'
<1> DEFINE asked == Append(req[r].asked, NextProvider(r))
           at == IF Len(asked) < Len(req[r].chain) THEN "asking" ELSE "understood"
           t == Stage(r, at, req[r].intent, req[r].known, req[r].chain, asked)
<1>1. /\ req[r].at = "asking" /\ req[r].chain \in Chains
      /\ req[r].chain \in Seq(Provider)
    BY DEF AiFails, AskInv, SearchesWork, Works, Early
<1>2. /\ asked \in Seq(Provider) /\ Len(asked) <= Len(req[r].chain)
      /\ \A i \in 1 .. Len(asked) : asked[i] = req[r].chain[i]
    BY <1>1, AskedGrows
<1>3. /\ IsInjective(asked)
      /\ Len(asked) = Len(req[r].chain) => ToSet(req[r].chain) \subseteq ToSet(asked)
    BY <1>1, <1>2, BeginningIsInjective
<1>4. To(r, t)
    BY DEF AiFails
<1>5. Works(t)
    <2> HIDE DEF asked
    <2>1. Len(asked) \in Nat /\ Len(req[r].chain) \in Nat
        BY <1>1, <1>2
    <2> QED BY <1>1, <1>2, <1>3, <2>1 DEF Works, Early, Stage
<1> QED BY <1>4, <1>5, Becomes DEF AskInv

(* A ranking fails, or has a page. *)
LEMMA RankMoves ==
    ASSUME NEW r \in Req, Rank(r)
    PROVE  Fail(r, "weights", NoMerchant) \/ \E page : Answer(r, req[r].filters, page)
<1>1. PICK s, kept : RankBy(r, s, kept)
    BY DEF Rank
<1> QED BY <1>1 DEF RankBy

(* The last four steps of a search, its being cut short, and suggestions,  *)
(* leave the early stages behind.                                          *)
Left == {"answering", "done", "failed", "aborted", "retrieving", "ranking", "suggested"}
LEMMA LateStepsLeave ==
    ASSUME NEW r \in Req,
           \/ Lookup(r) \/ Rank(r) \/ Record(r) \/ CutShort(r)
           \/ \E ok \in BOOLEAN : Retrieve(r, ok) \/ Suggest(r, ok)
    PROVE  \E t : To(r, t) /\ t.at \in Left
<1> USE DEF Left
<1>1. CASE Lookup(r)
    BY <1>1 DEF Lookup, Answer
<1>2. CASE \E ok \in BOOLEAN : Retrieve(r, ok)
    BY <1>2 DEF Retrieve
<1>3. CASE Rank(r)
    <2>1. \/ Fail(r, "weights", NoMerchant)
          \/ \E page : Answer(r, req[r].filters, page)
        BY <1>3, RankMoves
    <2>2. CASE Fail(r, "weights", NoMerchant)
        BY <2>2 DEF Fail
    <2>3. CASE \E page : Answer(r, req[r].filters, page)
        BY <2>3 DEF Answer
    <2> QED BY <2>1, <2>2, <2>3
<1>4. CASE \E ok \in BOOLEAN : Suggest(r, ok)
    BY <1>4 DEF Suggest
<1>5. CASE Record(r)
    BY <1>5 DEF Record, Fail
<1>6. CASE CutShort(r)
    BY <1>6 DEF CutShort, Aborted
<1> QED BY <1>1, <1>2, <1>3, <1>4, <1>5, <1>6

LEMMA LateStepsWork ==
    ASSUME AskInv, NEW r \in Req,
           \/ Lookup(r) \/ Rank(r) \/ Record(r) \/ CutShort(r)
           \/ \E ok \in BOOLEAN : Retrieve(r, ok) \/ Suggest(r, ok)
    PROVE  SearchesWork'
<1>1. PICK t : To(r, t) /\ t.at \in Left
    BY LateStepsLeave
<1>2. Works(t)
    BY <1>1 DEF Works, Early, Left
<1> QED BY <1>1, <1>2, Becomes DEF AskInv

LEMMA BeginWorks ==
    ASSUME AskInv, NEW r \in Req, NEW q \in Query, NEW ai, Begin(r, q, ai)
    PROVE  SearchesWork'
<1> DEFINE t == [at |-> "begun", query |-> q, ai |-> ai, began |-> clock,
                 view |-> [merchants |-> merchants, weights |-> weights],
                 intent |-> Nothing, known |-> {}, chain |-> << >>, asked |-> << >>]
<1>1. To(r, t)
    BY DEF Begin, To
<1>2. Works(t)
    BY EmptyChain DEF Works, Early
<1> QED BY <1>1, <1>2, Becomes DEF AskInv

(* What administrators do holds chains, and touches no search. *)
LEMMA EditsHoldChains ==
    ASSUME AskInv, NEW p \in Desk
    PROVE  /\ \A m \in Merchant : EditMerchant(p, m) => AskInv'
           /\ \A chain \in Chains : EditProviders(p, chain) => AskInv'
<1>1. ASSUME UNCHANGED req PROVE SearchesWork'
    BY <1>1 DEF AskInv, SearchesWork
<1>2. p \in Process
    BY SearchAssumption
<1>4. ASSUME NEW m \in Merchant, EditMerchant(p, m) PROVE AskInv'
    <2>1. UNCHANGED <<providers, router, req>> /\ edit'.kind = "merchant"
        BY <1>4 DEF EditMerchant, Edit, stores
    <2> QED BY <1>1, <2>1 DEF AskInv, ChainsHeld
<1>5. ASSUME NEW chain \in Chains, EditProviders(p, chain) PROVE AskInv'
    <2>1. /\ UNCHANGED <<providers, req>> /\ edit'.value = chain
          /\ router' = [router EXCEPT ![p] = chain]
        BY <1>5 DEF EditProviders, Edit, stores
    <2> QED BY <1>1, <1>2, <2>1 DEF AskInv, ChainsHeld
<1> QED BY <1>4, <1>5

LEMMA AskInvInit == Init => AskInv
<1> SUFFICES ASSUME Init PROVE AskInv
    OBVIOUS
<1>1. ChainsHeld
    BY SearchAssumption DEF Init, ChainsHeld, Idle
<1>2. SearchesWork
    BY DEF Init, SearchesWork, Works, Early, Idle
<1> QED BY <1>1, <1>2 DEF AskInv

LEMMA AskInvStep == AskInv /\ [Next]_vars => AskInv'
<1> SUFFICES ASSUME AskInv, [Next]_vars PROVE AskInv'
    OBVIOUS
<1>1. ASSUME UNCHANGED <<providers, router, edit>>, SearchesWork' PROVE AskInv'
    BY <1>1 DEF AskInv, ChainsHeld
<1>2. ASSUME UNCHANGED req PROVE SearchesWork'
    BY <1>2 DEF AskInv, SearchesWork
<1>3. ASSUME NEW r \in Req, Work(r) PROVE AskInv'
    <2>1. UNCHANGED <<providers, router, edit>>
        BY <1>3 DEF Work, Understand, AiAnswers, AiFails, Lookup, Retrieve, Rank, Record, CutShort,
                    Suggest, stores
    <2>2. SearchesWork'
        BY <1>3, UnderstandWorks, AiAnswersWorks, AiFailsWorks, LateStepsWork DEF Work
    <2> QED BY <1>1, <2>1, <2>2, SMTT(40)
<1>4. ASSUME NEW r \in Req, NEW q \in Query, NEW ai \in UseAi[r], Begin(r, q, ai) PROVE AskInv'
    <2>1. UNCHANGED <<providers, router, edit>>
        BY <1>4 DEF Begin, stores
    <2> QED BY <1>1, <1>4, <2>1, BeginWorks
<1>5. ASSUME NEW p \in Desk,
             \/ \E m \in Merchant : EditMerchant(p, m)
             \/ \E chain \in Chains : EditProviders(p, chain)
      PROVE  AskInv'
    BY <1>5, EditsHoldChains
<1>6. ASSUME NEW s \in Setting, NEW deleted \in BOOLEAN, EditWeights(s, deleted) PROVE AskInv'
    <2>1. UNCHANGED <<providers, router, req>> /\ edit'.kind = "weights"
        BY <1>6 DEF EditWeights, Edit, stores
    <2> QED BY <1>2, <2>1 DEF AskInv, ChainsHeld
<1>7. ASSUME NEW p \in Process, RefreshRouter(p) PROVE AskInv'
    <2>1. UNCHANGED <<providers, edit, req>> /\ router' = [router EXCEPT ![p] = providers]
        BY <1>7 DEF RefreshRouter, stores
    <2> QED BY <1>2, <2>1 DEF AskInv, ChainsHeld
<1>8. ASSUME Commit PROVE AskInv'
    <2>1. UNCHANGED <<router, req>> /\ edit' = Idle /\ edit.at = "open"
        BY <1>8 DEF Commit
    <2>2. providers' = IF edit.kind = "providers" THEN edit.value ELSE providers
        BY <1>8 DEF Commit
    <2> QED BY <1>2, <2>1, <2>2 DEF AskInv, ChainsHeld, Idle
<1>9. ASSUME Abort PROVE AskInv'
    <2>1. UNCHANGED <<providers, router, req>> /\ edit' = Idle
        BY <1>9 DEF Abort, stores
    <2> QED BY <1>2, <2>1 DEF AskInv, ChainsHeld, Idle
<1>10. ASSUME (\E c \in Coupon : IndexChanges(c)) \/ Tick \/ UNCHANGED vars PROVE AskInv'
    <2>1. UNCHANGED <<providers, router, edit, req>>
        BY <1>10 DEF IndexChanges, Tick, vars, stores
    <2> QED BY <1>1, <1>2, <2>1
<1> QED BY <1>3, <1>4, <1>5, <1>6, <1>7, <1>8, <1>9, <1>10 DEF Next

(* Failover: a provider is asked at most once for a search, and a search   *)
(* falls back to the heuristics only when it has asked every provider of   *)
(* the chain it took, whenever and however administrators change the       *)
(* order.  The code is AIRouter.complete_json and configure_router of      *)
(* ai/router.py.                                                           *)
THEOREM Failover == Spec => []EachProviderIsAskedOnce
<1>1. AskInv => EachProviderIsAskedOnce
    <2> SUFFICES ASSUME AskInv, NEW r \in Req, req[r].at \in {"asking", "understood"}
                 PROVE  /\ IsInjective(req[r].asked)
                        /\ req[r].at = "understood" => ToSet(req[r].chain) \subseteq ToSet(req[r].asked)
        BY DEF EachProviderIsAskedOnce
    <2>1. Works(req[r]) /\ req[r].at \in Early
        BY DEF AskInv, SearchesWork, Early
    <2>2. CASE req[r].at = "understood"
        BY <2>1, <2>2 DEF Works
    <2>3. CASE req[r].at = "asking"
        <3>1. /\ req[r].chain \in Chains /\ req[r].asked \in Seq(Provider)
              /\ Len(req[r].asked) < Len(req[r].chain)
              /\ \A i \in 1 .. Len(req[r].asked) : req[r].asked[i] = req[r].chain[i]
            BY <2>1, <2>3 DEF Works
        <3>2. req[r].chain \in Seq(Provider)
            BY <3>1, SearchAssumption
        <3>3. Len(req[r].asked) \in Nat /\ Len(req[r].chain) \in Nat
            BY <3>1, <3>2
        <3> QED BY <2>3, <3>1, <3>3, BeginningIsInjective, SMTT(40)
    <2> QED BY <2>2, <2>3
<1> QED BY <1>1, AskInvInit, AskInvStep, PTL DEF Spec
----------------------------------------------------------------------------
(* What a search, a cache and a transaction may still have of the past.    *)

Recent(t) == t \in Nat /\ t <= clock /\ clock <= t + MaxRequest
Timely ==
    /\ clock \in Nat
    /\ edit.at = "open" => Recent(edit.began)
    /\ \A r \in Req : InFlight(req[r]) => Recent(req[r].began)

(* A value of the setting that is current, or was at time t. *)
Seen(v, t) == v \in Setting /\ (v = weights \/ (replaced[v] # Never /\ t <= replaced[v]))
ReadsSettings(t) ==
    /\ t.at \in Early => Seen(t.view.weights, t.began)
    /\ t.at \in {"retrieving", "ranking"} => Seen(t.saw, t.began)
Keeps(cache) ==
    WeightsKey \in DOMAIN cache =>
        LET kept == cache[WeightsKey]
        IN  /\ kept.until \in Int /\ clock < kept.until /\ kept.until <= clock + SettingTtl
            /\ Seen(kept.value, kept.until - (SettingTtl + MaxRequest))
SettingsHeld ==
    /\ weights \in Setting /\ replaced[weights] = Never
    /\ replaced \in [Setting -> Int] /\ \A s \in Setting : replaced[s] <= clock
    /\ edit.at = "open" /\ edit.kind = "weights" =>
          edit.value \in Setting /\ edit.value # weights /\ replaced[edit.value] = Never
    /\ Keeps(cachedWeights)
    /\ \A r \in Req : ReadsSettings(req[r])

(* A merchant that is about to change, or has changed since time t. *)
Changes(m, t) ==
    (edit.at = "open" /\ edit.kind = "merchant" /\ edit.value = m)
    \/ (changed[m] # Never /\ t <= changed[m])
Agrees(known, t) == known \subseteq Merchant /\ \A m \in SymDiff(known, merchants) : Changes(m, t)
Exists(m, t) == m = NoMerchant \/ m \in stored \/ (m \in Merchant /\ Changes(m, t))
Life == AliasTtl + MaxRequest
ReadsMerchants(t) ==
    /\ t.at \in Early => Agrees(t.view.merchants, t.began)
    /\ t.at \in {"asking", "understood"} =>
          Agrees(t.known, t.began - Life) /\ Exists(t.intent.merchant, t.began - Life)
    /\ t.at \in {"retrieving", "ranking", "answering"} => Exists(t.filters.merchant, t.began - Life)
    /\ t.at = "suggested" =>
          t.began \in Nat /\ t.began <= clock
          /\ ToSet(t.names) \subseteq Merchant
          /\ \A m \in ToSet(t.names) \ merchants : Changes(m, t.began - Life)
    /\ t.at = "failed" => t.began \in Nat /\ t.began <= clock
    /\ t.at = "failed" /\ t.why = "record" =>
          t.merchant \in Merchant /\ changed[t.merchant] # Never /\ t.began - Life <= changed[t.merchant]
Built(ix) ==
    ix.built \in Nat /\ ix.built <= clock /\ Agrees(ix.known, ix.built - MaxRequest)
MerchantsHeld ==
    /\ merchants \subseteq stored /\ stored \subseteq Merchant
    /\ changed \in [Merchant \cup Coupon -> Int]
    /\ \A x \in Merchant \cup Coupon : changed[x] <= clock
    /\ edit.at = "open" /\ edit.kind = "merchant" => edit.value \in Merchant
    /\ index = [p \in Process |-> index[p]]
    /\ \A p \in Process : Built(index[p])
    /\ \A r \in Req : ReadsMerchants(req[r])

(* Malformed answers. *)
ReadsAnswers(t) ==
    /\ t.at \in Early => t.query \in Query
    /\ t.at = "failed" /\ t.why = "answer" =>
          t.query \in Query /\ poisoned[t.query] # Never /\ t.began - poisoned[t.query] < AiTtl
    /\ t.at = "failed" => t.why \in {"answer", "weights", "record"} /\ t.began \in Nat
KeepsAnswer(q, kept) ==
    /\ q \in Query /\ kept.answer \in Answers[q]
    /\ kept.until \in Int /\ clock < kept.until
    /\ Malformed(kept.answer) => poisoned[q] # Never /\ kept.until <= poisoned[q] + AiTtl
AnswersHeld ==
    /\ poisoned \in [Query -> Int] /\ \A q \in Query : poisoned[q] <= clock
    /\ \A q \in DOMAIN cachedAnswers : KeepsAnswer(q, cachedAnswers[q])
    /\ \A r \in Req : ReadsAnswers(req[r])

(* The documents that are in the index, or have left it since time t. *)
Since(c, t) == t <= changed[c]
Fits(S, f) == \A c \in S : c \in Coupon /\ Matches(c, f) /\ (c \in docs \/ Since(c, f.at))
Others(c, f) == {d \in Coupon \ {c} : ~Ahead(c, d) /\ Matches(d, f) /\ (d \in docs \/ Since(d, f.at))}
Crowded(c, f, S) == Cardinality(Others(c, f)) >= Fetched /\ \A d \in S : ~Ahead(c, d)
Missing(c, f, S) == c \in docs /\ c \notin S /\ Matches(c, f) /\ ~Since(c, f.at)
Collected(hits, f) ==
    Fits(hits, f) /\ \A c \in Coupon : Missing(c, f, hits) => Crowded(c, f, hits)
Presented(page, f) ==
    LET shown == ToSet(page.coupons)
    IN  /\ page.coupons \in Seq(Coupon) /\ Len(page.coupons) <= Limit
        /\ Fits(shown, f)
        /\ page.coupons # << >> => page.by \in Setting \ Unusable
        /\ page.ok => \A c \in Coupon : Missing(c, f, shown) =>
              \/ Len(page.coupons) = Limit /\ \A d \in shown : ~Before(page.by, c, d)
              \/ Crowded(c, f, shown)
Looks(t) ==
    /\ t.at \in {"retrieving", "ranking", "answering", "done"} =>
          t.filters.at \in Nat /\ t.filters.at <= clock
    /\ t.at = "ranking" => Fits(t.hits, t.filters) /\ (t.ok => Collected(t.hits, t.filters))
    /\ t.at \in {"answering", "done"} => Presented(t.page, t.filters)
KeepsPage(f, page) == f.at \in Nat /\ f.at <= clock /\ Presented(page, f)
PagesHeld ==
    /\ docs \subseteq Coupon
    /\ \A k \in DOMAIN cachedPages : KeepsPage(k[2], cachedPages[k].page)
    /\ \A r \in Req : Looks(req[r])

(* What is left of the types. *)
Short(t) == t.at = "suggested" => Len(t.names) + Len(t.coupons) <= SuggestLimit
Counted ==
    /\ clock \in 0 .. MaxTime /\ edits \in 0 .. MaxEdits /\ faults \in 0 .. MaxFaults
    /\ used.value \in Setting /\ DOMAIN cachedWeights \subseteq {WeightsKey}
    /\ \A r \in Req : Short(req[r])

----------------------------------------------------------------------------
(* What a step of a search makes of it. *)

Carries(t, u) ==
    /\ InFlight(u) => InFlight(t) /\ u.began = t.began
    /\ u.at \in Early => t.at \in Early /\ u.view = t.view /\ u.query = t.query
    /\ u.at = "retrieving" => t.at = "understood" /\ u.saw = t.view.weights
    /\ u.at = "ranking" => t.at = "retrieving" /\ u.saw = t.saw

LEMMA Moves ==
    ASSUME SearchesWork, NEW r \in Req, NEW t, To(r, t)
    PROVE  req'[r] = t /\ \A q \in Req : q # r => req'[q] = req[q]
BY DEF SearchesWork, To

LEMMA AnsweredCarries ==
    ASSUME SearchesWork, NEW r \in Req, req[r].at \in Early, NEW known, NEW intent, NEW answer,
           NEW asked, Answered(r, known, intent, answer, asked)
    PROVE  Carries(req[r], req'[r]) /\ \A q \in Req : q # r => req'[q] = req[q]
<1>1. CASE Malformed(answer)
    <2>1. PICK t : To(r, t) /\ t.at = "failed"
        BY <1>1 DEF Answered, Fail
    <2>2. Carries(req[r], t)
        BY <2>1 DEF Carries, InFlight, Early
    <2> QED BY <2>1, <2>2, Moves
<1>2. CASE ~Malformed(answer)
    <2>1. PICK i : To(r, Stage(r, "understood", i, known, << >>, asked))
        BY <1>2 DEF Answered
    <2>2. Carries(req[r], Stage(r, "understood", i, known, << >>, asked))
        BY DEF Carries, InFlight, Early, Stage
    <2> QED BY <2>1, <2>2, Moves
<1> QED BY <1>1, <1>2

LEMMA WorkCarries ==
    ASSUME SearchesWork, NEW r \in Req, Work(r)
    PROVE  Carries(req[r], req'[r]) /\ \A q \in Req : q # r => req'[q] = req[q]
<1>1. ASSUME NEW t, To(r, t), t.at \in {"answering", "done", "failed", "suggested"},
             t.at = "answering" => InFlight(req[r]) /\ t.began = req[r].began
      PROVE  Carries(req[r], req'[r]) /\ \A q \in Req : q # r => req'[q] = req[q]
    <2>1. Carries(req[r], t)
        BY <1>1 DEF Carries, InFlight, Early
    <2> QED BY <1>1, <2>1, Moves
<1>2. CASE Understand(r)
    <2>1. req[r].at \in Early
        BY <1>2 DEF Understand, Early
    <2>2. \/ \E known, intent, answer, asked : Answered(r, known, intent, answer, asked)
          \/ \E at, intent, known, chain : at \in {"understood", "asking"}
                /\ To(r, Stage(r, at, intent, known, chain, << >>))
        <3> DEFINE ix == AliasIndex(On[r], req[r].view)
                   chain == IF req[r].ai THEN router[On[r]] ELSE << >>
                   at == IF chain = << >> THEN "understood" ELSE "asking"
        <3>1. PICK m :
                IF req[r].ai /\ AnswerOf(req[r].query) # NoAnswer
                THEN Answered(r, ix.known, Heuristic(req[r].query, m), AnswerOf(req[r].query), << >>)
                ELSE To(r, Stage(r, at, Heuristic(req[r].query, m), ix.known, chain, << >>))
            BY <1>2 DEF Understand
        <3>2. at \in {"understood", "asking"}
            OBVIOUS
        <3> HIDE DEF at, ix, chain
        <3> QED BY <3>1, <3>2
    <2>3. CASE \E known, intent, answer, asked : Answered(r, known, intent, answer, asked)
        BY <2>1, <2>3, AnsweredCarries
    <2>4. ASSUME NEW at \in {"understood", "asking"}, NEW intent, NEW known, NEW chain,
                 To(r, Stage(r, at, intent, known, chain, << >>))
          PROVE  Carries(req[r], req'[r]) /\ \A q \in Req : q # r => req'[q] = req[q]
        <3>1. Carries(req[r], Stage(r, at, intent, known, chain, << >>))
            BY <2>1 DEF Carries, InFlight, Early, Stage
        <3> QED BY <2>4, <3>1, Moves
    <2> QED BY <2>2, <2>3, <2>4
<1>3. ASSUME NEW answer, AiAnswers(r, answer)
      PROVE  Carries(req[r], req'[r]) /\ \A q \in Req : q # r => req'[q] = req[q]
    BY <1>3, AnsweredCarries DEF AiAnswers, Early
<1>4. CASE AiFails(r)
    <2>1. PICK at, asked :
            /\ at \in {"asking", "understood"}
            /\ To(r, Stage(r, at, req[r].intent, req[r].known, req[r].chain, asked))
        BY <1>4 DEF AiFails
    <2>2. Carries(req[r], Stage(r, at, req[r].intent, req[r].known, req[r].chain, asked))
        BY <1>4, <2>1 DEF AiFails, Carries, InFlight, Early, Stage
    <2> QED BY <2>1, <2>2, Moves
<1>5. CASE Lookup(r)
    <2>1. PICK f, t :
            /\ To(r, t)
            /\ \/ t.at = "answering" /\ t.began = req[r].began
               \/ t = [at |-> "retrieving", query |-> req[r].query, began |-> req[r].began,
                       saw |-> req[r].view.weights, text |-> req[r].intent.text, filters |-> f]
        BY <1>5, SMTT(40) DEF Lookup, Answer
    <2>2. Carries(req[r], t)
        BY <1>5, <2>1 DEF Lookup, Carries, InFlight, Early
    <2> QED BY <2>1, <2>2, Moves
<1>6. ASSUME NEW ok \in BOOLEAN, Retrieve(r, ok)
      PROVE  Carries(req[r], req'[r]) /\ \A q \in Req : q # r => req'[q] = req[q]
    <2>1. PICK t : /\ To(r, t) /\ t.at = "ranking"
                   /\ t.saw = req[r].saw /\ t.began = req[r].began
        BY <1>6 DEF Retrieve
    <2>2. Carries(req[r], t)
        BY <1>6, <2>1 DEF Retrieve, Carries, InFlight, Early
    <2> QED BY <2>1, <2>2, Moves
<1>7. CASE Rank(r)
    <2>1. \/ Fail(r, "weights", NoMerchant)
          \/ \E page : Answer(r, req[r].filters, page)
        BY <1>7, RankMoves
    <2> QED BY <1>1, <1>7, <2>1 DEF Rank, Fail, Answer, InFlight
<1>8. CASE Record(r)
    BY <1>1, <1>8 DEF Record, Fail
<1>10. CASE CutShort(r)
    <2>1. PICK t : To(r, t) /\ t = Aborted
        BY <1>10 DEF CutShort
    <2>2. ~InFlight(t) /\ InFlight(req[r])
        BY <1>10, <2>1 DEF CutShort, InFlight, Aborted
    <2>3. Carries(req[r], t)
        BY <2>1, <2>2 DEF Carries, Aborted, Early
    <2> QED BY <2>1, <2>3, Moves
<1>9. ASSUME NEW ok \in BOOLEAN, Suggest(r, ok)
      PROVE  Carries(req[r], req'[r]) /\ \A q \in Req : q # r => req'[q] = req[q]
    <2>1. PICK t : To(r, t) /\ t.at = "suggested"
        BY <1>9 DEF Suggest
    <2> QED BY <1>1, <2>1
<1> QED BY <1>2, <1>3, <1>4, <1>5, <1>6, <1>7, <1>8, <1>9, <1>10 DEF Work

LEMMA BeginStarts ==
    ASSUME SearchesWork, NEW r \in Req, NEW q \in Query, NEW ai, Begin(r, q, ai)
    PROVE  /\ req'[r].at = "begun" /\ req'[r].query = q /\ req'[r].began = clock
           /\ req'[r].view = [merchants |-> merchants, weights |-> weights]
           /\ \A p \in Req : p # r => req'[p] = req[p]
<1> DEFINE t == [at |-> "begun", query |-> q, ai |-> ai, began |-> clock,
                 view |-> [merchants |-> merchants, weights |-> weights],
                 intent |-> Nothing, known |-> {}, chain |-> << >>, asked |-> << >>]
<1>1. To(r, t)
    BY DEF Begin, To
<1>2. req'[r] = t /\ \A p \in Req : p # r => req'[p] = req[p]
    BY <1>1, Moves
<1> QED BY <1>2

(* Which steps change what the caches are compared with. *)
LEMMA Frame ==
    ASSUME [Next]_vars
    PROVE  /\ UNCHANGED clock \/ Tick
           /\ UNCHANGED <<weights, replaced, merchants, stored>> \/ Commit
           /\ UNCHANGED used \/ \E r \in Req : Rank(r)
           /\ UNCHANGED docs \/ \E c \in Coupon : IndexChanges(c)
           /\ UNCHANGED changed \/ Commit \/ Abort \/ \E c \in Coupon : IndexChanges(c)
           /\ UNCHANGED poisoned \/ \E r \in Req, answer \in UNION {Answers[q] : q \in Query} :
                                       AiAnswers(r, answer)
<1> USE DEF stores, history
<1>1. ASSUME NEW r \in Req, Work(r)
      PROVE  /\ UNCHANGED <<clock, weights, replaced, merchants, stored, docs, changed>>
             /\ UNCHANGED used \/ Rank(r)
             /\ UNCHANGED poisoned \/ \E answer \in UNION {Answers[q] : q \in Query} : AiAnswers(r, answer)
    <2>1. ASSUME Understand(r) \/ AiFails(r) \/ Lookup(r) \/ Record(r) \/ CutShort(r)
                 \/ \E ok \in BOOLEAN : Retrieve(r, ok) \/ Suggest(r, ok)
          PROVE  UNCHANGED <<clock, weights, replaced, merchants, stored, docs, changed, used, poisoned>>
        BY <2>1 DEF Understand, AiFails, Lookup, Record, CutShort, Retrieve, Suggest
    <2>2. CASE Rank(r)
        BY <2>2 DEF Rank
    <2>3. ASSUME NEW answer, AiAnswers(r, answer)
          PROVE  UNCHANGED <<clock, weights, replaced, merchants, stored, docs, changed, used>>
        BY <2>3 DEF AiAnswers
    <2> QED BY <1>1, <2>1, <2>2, <2>3 DEF Work
<1>2. ASSUME \/ \E r \in Req, q \in Query : \E ai \in UseAi[r] : Begin(r, q, ai)
             \/ \E s \in Setting, deleted \in BOOLEAN : EditWeights(s, deleted)
             \/ \E p \in Desk : \/ \E m \in Merchant : EditMerchant(p, m)
                                \/ \E chain \in Chains : EditProviders(p, chain)
             \/ \E p \in Process : RefreshRouter(p)
             \/ UNCHANGED vars
      PROVE  UNCHANGED <<clock, weights, replaced, merchants, stored, docs, changed, used, poisoned>>
    BY <1>2 DEF Begin, EditWeights, EditMerchant, EditProviders, Edit, RefreshRouter, vars
<1>3. CASE Commit
    BY <1>3 DEF Commit
<1>4. CASE Abort
    BY <1>4 DEF Abort
<1>5. CASE \E c \in Coupon : IndexChanges(c)
    BY <1>5 DEF IndexChanges
<1>6. CASE Tick
    BY <1>6 DEF Tick
<1> QED BY <1>1, <1>2, <1>3, <1>4, <1>5, <1>6 DEF Next

----------------------------------------------------------------------------
(* Searches and transactions do not take long. *)

LEMMA TimelyInit == Init => Timely
<1> SUFFICES ASSUME Init PROVE Timely
    OBVIOUS
<1>1. clock = 0 /\ edit = Idle /\ \A r \in Req : req[r] = Idle
    BY DEF Init
<1>2. edit.at # "open" /\ \A r \in Req : ~InFlight(req[r])
    BY <1>1 DEF Idle, InFlight
<1> QED BY <1>1, <1>2 DEF Timely

LEMMA TimelyStep ==
    ASSUME AskInv, Timely, [Next]_vars
    PROVE  Timely'
<1>1. SearchesWork /\ MaxRequest \in Nat
    BY SearchAssumption DEF AskInv
<1>2. ASSUME UNCHANGED <<clock, edit>>,
             \A r \in Req : InFlight(req'[r]) => Recent(req'[r].began)
      PROVE  Timely'
    BY <1>2 DEF Timely, Recent, InFlight
<1>3. ASSUME UNCHANGED <<clock, req>>, edit'.at = "open" => edit'.began = clock
      PROVE  Timely'
    BY <1>1, <1>3 DEF Timely, Recent, InFlight
<1>4. ASSUME NEW r \in Req, Work(r) PROVE Timely'
    <2>1. UNCHANGED <<clock, edit>>
        BY <1>4 DEF Work, Understand, AiAnswers, AiFails, Lookup, Retrieve, Rank, Record, CutShort, Suggest
    <2>2. Carries(req[r], req'[r]) /\ \A q \in Req : q # r => req'[q] = req[q]
        BY <1>1, <1>4, WorkCarries
    <2> QED BY <1>2, <2>1, <2>2, SMTT(40) DEF Timely, Carries
<1>5. ASSUME NEW r \in Req, NEW q \in Query, NEW ai \in UseAi[r], Begin(r, q, ai) PROVE Timely'
    <2>1. UNCHANGED <<clock, edit>>
        BY <1>5 DEF Begin
    <2>2. req'[r].began = clock /\ \A p \in Req : p # r => req'[p] = req[p]
        BY <1>1, <1>5, BeginStarts
    <2> QED BY <1>1, <1>2, <2>1, <2>2 DEF Timely, Recent
<1>6. ASSUME \/ \E s \in Setting, deleted \in BOOLEAN : EditWeights(s, deleted)
             \/ \E p \in Desk : \/ \E m \in Merchant : EditMerchant(p, m)
                                \/ \E chain \in Chains : EditProviders(p, chain)
      PROVE  Timely'
    BY <1>3, <1>6 DEF EditWeights, EditMerchant, EditProviders, Edit
<1>7. ASSUME Commit \/ Abort PROVE Timely'
    BY <1>3, <1>7 DEF Commit, Abort, Idle
<1>8. ASSUME (\E p \in Process : RefreshRouter(p)) \/ (\E c \in Coupon : IndexChanges(c))
             \/ UNCHANGED vars
      PROVE  Timely'
    <2>1. UNCHANGED <<clock, edit, req>>
        BY <1>8 DEF RefreshRouter, IndexChanges, vars
    <2> QED BY <1>2, <2>1 DEF Timely
<1>9. CASE Tick
    <2>1. clock' = clock + 1 /\ UNCHANGED <<edit, req>> /\ \A t \in Began : clock - t < MaxRequest
        BY <1>9 DEF Tick
    <2>2. \A r \in Req : InFlight(req[r]) => req[r].began \in Began
        BY DEF Began
    <2>3. edit.at = "open" => edit.began \in Began
        BY DEF Began
    <2> QED BY <1>1, <2>1, <2>2, <2>3 DEF Timely, Recent, InFlight
<1> QED BY <1>4, <1>5, <1>6, <1>7, <1>8, <1>9 DEF Next

----------------------------------------------------------------------------
(* A setting that is read was current not long ago: in the database since  *)
(* the search began, and in the cache for as long as that keeps it.        *)

LEMMA SettingsInit == Init => SettingsHeld
<1> SUFFICES ASSUME Init PROVE SettingsHeld
    OBVIOUS
<1>1. /\ clock = 0 /\ weights = 0 /\ replaced = [s \in Setting |-> Never] /\ edit = Idle
      /\ cachedWeights = << >> /\ \A r \in Req : req[r] = Idle
    BY DEF Init
<1>2. 0 \in Setting /\ edit.at # "open" /\ WeightsKey \notin DOMAIN cachedWeights
    BY <1>1, SearchAssumption DEF Idle
<1>3. \A r \in Req : ReadsSettings(req[r])
    BY <1>1 DEF ReadsSettings, Early, Idle
<1> QED BY <1>1, <1>2, <1>3 DEF SettingsHeld, Keeps, Never

(* What was current at a time stays seen when a setting is replaced.       *)
LEMMA SeenStays ==
    ASSUME Timely, SettingsHeld, [Next]_vars, NEW v, NEW t \in Int, t <= clock, Seen(v, t)
    PROVE  Seen(v, t)'
<1>1. CASE UNCHANGED <<weights, replaced>>
    BY <1>1 DEF Seen
<1>2. CASE Commit
    <2>1. CASE edit.kind # "weights"
        BY <1>1, <1>2, <2>1 DEF Commit
    <2>2. CASE edit.kind = "weights"
        <3>1. weights' = edit.value /\ replaced' = [replaced EXCEPT ![weights] = clock]
            BY <1>2, <2>2 DEF Commit
        <3> QED BY <3>1 DEF Seen, SettingsHeld, Timely, Never
    <2> QED BY <2>1, <2>2
<1>3. UNCHANGED <<weights, replaced>> \/ Commit
    BY Frame
<1> QED BY <1>1, <1>2, <1>3

(* What a ranking reads, from the cache or from the database. *)
LEMMA RankReads ==
    ASSUME Timely, SettingsHeld, NEW r \in Req, Rank(r)
    PROVE  \E s \in Setting, kept \in BOOLEAN :
               /\ used' = [value |-> s, at |-> clock] /\ RankBy(r, s, kept)
               /\ s = weights \/ (replaced[s] # Never /\ clock - replaced[s] < SettingTtl + MaxRequest)
<1>1. PICK hit \in BOOLEAN, kept \in BOOLEAN :
        /\ hit => CachedSetting
        /\ used' = [value |-> SettingOf(r, hit), at |-> clock]
        /\ RankBy(r, SettingOf(r, hit), kept)
    BY DEF Rank
<1>2. SettingTtl \in Nat /\ SettingTtl > 0 /\ MaxRequest \in Nat /\ clock \in Nat
    BY SearchAssumption, SMTT(40) DEF Timely
<1>3. PICK s : s = SettingOf(r, hit)
    OBVIOUS
<1>4. s \in Setting /\ (s = weights \/ (replaced[s] # Never /\ clock - replaced[s] < SettingTtl + MaxRequest))
    <2>1. CASE hit
        <3>1. PICK put : /\ put = cachedWeights[WeightsKey] /\ put.until \in Int /\ clock < put.until
                         /\ Seen(put.value, put.until - (SettingTtl + MaxRequest))
            BY <1>1, <2>1 DEF SettingsHeld, Keeps, CachedSetting
        <3>2. s = put.value
            BY <1>3, <2>1, <3>1 DEF SettingOf
        <3>3. replaced[s] \in Int \/ s \notin Setting
            BY DEF SettingsHeld
        <3> QED BY <1>2, <3>1, <3>2, <3>3 DEF Seen
    <2>2. CASE ~hit
        <3>1. s = req[r].saw /\ Seen(s, req[r].began) /\ Recent(req[r].began)
            BY <1>3, <2>2 DEF SettingOf, Rank, SettingsHeld, ReadsSettings, Timely, InFlight
        <3>2. replaced[s] \in Int \/ s \notin Setting
            BY DEF SettingsHeld
        <3> QED BY <1>2, <3>1, <3>2 DEF Seen, Recent
    <2> QED BY <2>1, <2>2
<1> QED BY <1>1, <1>3, <1>4

LEMMA RankKeeps ==
    ASSUME Timely, SettingsHeld, NEW r \in Req, Rank(r)
    PROVE  Keeps(cachedWeights)'
<1>1. UNCHANGED <<clock, weights, replaced>> /\ req[r].at = "ranking"
      /\ (UNCHANGED cachedWeights \/ cachedWeights' = KeptSetting(req[r].saw))
    BY DEF Rank, stores, SettingOf
<1>2. SettingTtl \in Nat /\ SettingTtl > 0 /\ MaxRequest \in Nat /\ clock \in Nat
    BY SearchAssumption, SMTT(40) DEF Timely
<1>3. CASE UNCHANGED cachedWeights
    BY <1>1, <1>3 DEF SettingsHeld, Keeps, Seen
<1>4. CASE cachedWeights' = KeptSetting(req[r].saw)
    <2>1. Seen(req[r].saw, req[r].began) /\ Recent(req[r].began)
        BY <1>1 DEF SettingsHeld, ReadsSettings, Timely, InFlight
    <2>2. PICK v, t : v = req[r].saw /\ t = req[r].began /\ Seen(v, t) /\ Recent(t)
        BY <2>1
    <2>3. Seen(v, clock + SettingTtl - (SettingTtl + MaxRequest))
        BY <1>2, <2>2 DEF Seen, Recent, SettingsHeld
    <2>4. cachedWeights'[WeightsKey] = [value |-> v, until |-> clock + SettingTtl]
        BY <1>1, <1>4, <2>2 DEF KeptSetting
    <2> QED BY <1>1, <1>2, <2>3, <2>4 DEF Keeps, Seen
<1> QED BY <1>1, <1>3, <1>4

LEMMA SettingsStep ==
    ASSUME AskInv, Timely, SettingsHeld, [Next]_vars
    PROVE  SettingsHeld'
<1>1. SearchesWork /\ Keeps(cachedWeights) /\ SettingTtl \in Nat /\ MaxRequest \in Nat /\ clock \in Nat
    BY SearchAssumption DEF AskInv, SettingsHeld, Keeps, Timely
<1>2. ASSUME NEW r \in Req, ReadsSettings(req[r]), req'[r] = req[r] PROVE ReadsSettings(req[r])'
    <2>1. CASE req[r].at \in Early
        <3>1. Seen(req[r].view.weights, req[r].began) /\ Recent(req[r].began)
            BY <1>2, <2>1 DEF ReadsSettings, Timely, InFlight, Early
        <3>2. PICK v, t : v = req[r].view.weights /\ t = req[r].began /\ Seen(v, t) /\ Recent(t)
            BY <3>1
        <3>3. Seen(v, t)'
            BY <3>2, SeenStays DEF Recent
        <3> QED BY <1>2, <2>1, <3>2, <3>3 DEF ReadsSettings, Early, Seen
    <2>2. CASE req[r].at \in {"retrieving", "ranking"}
        <3>1. Seen(req[r].saw, req[r].began) /\ Recent(req[r].began)
            BY <1>2, <2>2 DEF ReadsSettings, Timely, InFlight
        <3>2. PICK v, t : v = req[r].saw /\ t = req[r].began /\ Seen(v, t) /\ Recent(t)
            BY <3>1
        <3>3. Seen(v, t)'
            BY <3>2, SeenStays DEF Recent
        <3> QED BY <1>2, <2>2, <3>2, <3>3 DEF ReadsSettings, Early, Seen
    <2> QED BY <1>2, <2>1, <2>2 DEF ReadsSettings
<1>3. UNCHANGED req => \A r \in Req : ReadsSettings(req[r])'
    BY <1>2 DEF SettingsHeld
<1>4. ASSUME UNCHANGED <<clock, weights, replaced>>, Keeps(cachedWeights)',
             edit'.at = "open" /\ edit'.kind = "weights" =>
                 edit'.value \in Setting /\ edit'.value # weights /\ replaced[edit'.value] = Never,
             \A r \in Req : ReadsSettings(req[r])'
      PROVE  SettingsHeld'
    BY <1>4 DEF SettingsHeld, Keeps
<1>5. ASSUME NEW r \in Req, Work(r) PROVE SettingsHeld'
    <2>1. UNCHANGED <<clock, weights, replaced, edit>>
        BY <1>5, SMTT(40) DEF Work, Understand, AiAnswers, AiFails, Lookup, Retrieve, Rank, Record, CutShort,
                    Suggest, stores, history
    <2>2. Rank(r) \/ UNCHANGED cachedWeights
        BY <1>5 DEF Work, Understand, AiAnswers, AiFails, Lookup, Retrieve, Record, CutShort, Suggest,
                    redis
    <2>3. Keeps(cachedWeights)'
        BY <1>1, <2>1, <2>2, RankKeeps DEF Keeps, Seen
    <2>4. Carries(req[r], req'[r]) /\ \A q \in Req : q # r => req'[q] = req[q]
        BY <1>1, <1>5, WorkCarries
    <2>5. ReadsSettings(req[r])'
        BY <2>1, <2>4 DEF SettingsHeld, ReadsSettings, Carries, InFlight, Early, Seen
    <2>6. \A q \in Req : ReadsSettings(req[q])'
        BY <1>2, <2>4, <2>5 DEF SettingsHeld
    <2> QED BY <1>4, <2>1, <2>3, <2>6, SMTT(40) DEF SettingsHeld
<1>6. ASSUME NEW r \in Req, NEW q \in Query, NEW ai \in UseAi[r], Begin(r, q, ai) PROVE SettingsHeld'
    <2>1. UNCHANGED <<clock, weights, replaced, edit, cachedWeights>>
        BY <1>6 DEF Begin, stores, history, redis
    <2>2. /\ req'[r].at = "begun" /\ req'[r].view.weights = weights
          /\ \A p \in Req : p # r => req'[p] = req[p]
        BY <1>1, <1>6, BeginStarts
    <2>3. ReadsSettings(req[r])'
        BY <2>1, <2>2 DEF SettingsHeld, ReadsSettings, Early, Seen
    <2>4. \A p \in Req : ReadsSettings(req[p])'
        BY <1>2, <2>2, <2>3 DEF SettingsHeld
    <2> QED BY <1>1, <1>4, <2>1, <2>4 DEF SettingsHeld, Keeps, Seen
<1>7. ASSUME NEW s \in Setting, NEW deleted \in BOOLEAN, EditWeights(s, deleted) PROVE SettingsHeld'
    <2>1. UNCHANGED <<clock, weights, replaced, req>>
        BY <1>7 DEF EditWeights, Edit, stores, history
    <2>2. edit'.value = s /\ s # weights /\ replaced[s] = Never
        BY <1>7 DEF EditWeights, Edit
    <2>3. cachedWeights' = << >> \/ cachedWeights' = cachedWeights
        BY <1>7 DEF EditWeights, Invalidated
    <2>4. Keeps(cachedWeights)'
        BY <1>1, <2>1, <2>3 DEF Keeps, Seen
    <2> QED BY <1>3, <1>4, <2>1, <2>2, <2>4
<1>8. ASSUME NEW p \in Desk,
             \/ \E m \in Merchant : EditMerchant(p, m)
             \/ \E chain \in Chains : EditProviders(p, chain)
      PROVE  SettingsHeld'
    <2>1. UNCHANGED <<clock, weights, replaced, req, cachedWeights>> /\ edit'.kind # "weights"
        BY <1>8 DEF EditMerchant, EditProviders, Edit, stores, history
    <2> QED BY <1>1, <1>3, <1>4, <2>1 DEF Keeps, Seen
<1>9. CASE Commit
    <2>1. /\ UNCHANGED <<clock, req, cachedWeights>> /\ edit' = Idle /\ edit.at = "open"
          /\ weights' = IF edit.kind = "weights" THEN edit.value ELSE weights
          /\ replaced' = IF edit.kind = "weights" THEN [replaced EXCEPT ![weights] = clock] ELSE replaced
        BY <1>9 DEF Commit, redis
    <2>2. \A r \in Req : ReadsSettings(req[r])'
        BY <1>3, <2>1
    <2>3. Keeps(cachedWeights)'
        <3>1. ASSUME WeightsKey \in DOMAIN cachedWeights
              PROVE  LET kept == cachedWeights[WeightsKey]
                     IN  kept.until \in Int /\ clock < kept.until /\ kept.until <= clock + SettingTtl
                         /\ Seen(kept.value, kept.until - (SettingTtl + MaxRequest))'
            <4>1. PICK u \in Int, v \in Setting :
                                      /\ v = cachedWeights[WeightsKey].value
                                      /\ u = cachedWeights[WeightsKey].until
                                      /\ clock < u /\ u <= clock + SettingTtl
                                      /\ Seen(v, u - (SettingTtl + MaxRequest))
                BY <1>1, <3>1 DEF Keeps, Seen
            <4>2. u - (SettingTtl + MaxRequest) \in Int /\ u - (SettingTtl + MaxRequest) <= clock
                BY <1>1, <4>1
            <4>3. Seen(v, u - (SettingTtl + MaxRequest))'
                BY <4>1, <4>2, SeenStays
            <4> QED BY <2>1, <4>1, <4>3 DEF Seen
        <3> QED BY <2>1, <3>1 DEF Keeps
    <2>4. edit'.at # "open"
        BY <2>1 DEF Idle
    <2>5. weights' \in Setting /\ replaced'[weights'] = Never /\ replaced' \in [Setting -> Int]
          /\ \A s \in Setting : replaced'[s] <= clock
        BY <1>1, <2>1 DEF SettingsHeld
    <2> QED BY <2>1, <2>2, <2>3, <2>4, <2>5 DEF SettingsHeld, Keeps
<1>10. ASSUME Abort \/ (\E p \in Process : RefreshRouter(p)) \/ (\E c \in Coupon : IndexChanges(c))
              \/ UNCHANGED vars
       PROVE  SettingsHeld'
    <2>1. UNCHANGED <<clock, weights, replaced, req, cachedWeights>> /\ (edit' = edit \/ edit' = Idle)
        BY <1>10 DEF Abort, RefreshRouter, IndexChanges, vars, stores, history, redis
    <2>2. edit' = Idle => edit'.at # "open"
        BY DEF Idle
    <2> QED BY <1>1, <1>3, <1>4, <2>1, <2>2 DEF Keeps, Seen, SettingsHeld
<1>11. CASE Tick
    <2>1. /\ clock' = clock + 1 /\ UNCHANGED <<weights, replaced, req, edit>>
          /\ cachedWeights' = Alive(cachedWeights)
        BY <1>11 DEF Tick, stores, history
    <2>2. Keeps(cachedWeights)'
        BY <1>1, <2>1 DEF Alive, Restrict, Keeps, Seen
    <2>3. \A s \in Setting : replaced[s] <= clock'
        BY <1>1, <2>1 DEF SettingsHeld
    <2> QED BY <1>3, <2>1, <2>2, <2>3 DEF SettingsHeld, Keeps
<1> QED BY <1>5, <1>6, <1>7, <1>8, <1>9, <1>10, <1>11 DEF Next

LEMMA PromiseInit == Init => Promise!Init
BY DEF Init, Promise!Init, Never

LEMMA PromiseStep ==
    ASSUME Timely, SettingsHeld, [Next]_vars
    PROVE  [Promise!Next]_<<clock, weights, replaced, used>>
<1>1. ASSUME NEW r \in Req, Rank(r) PROVE Promise!Next
    <2>1. PICK s \in Setting :
            /\ used' = [value |-> s, at |-> clock]
            /\ s = weights \/ (replaced[s] # Never /\ clock - replaced[s] < SettingTtl + MaxRequest)
        BY <1>1, RankReads
    <2>2. UNCHANGED <<clock, weights, replaced>>
        BY <1>1 DEF Rank, stores
    <2>3. Promise!Read(s)
        BY <2>1, <2>2 DEF Promise!Read, Never
    <2> QED BY <2>3 DEF Promise!Next
<1>2. CASE Commit
    <2>1. UNCHANGED <<clock, used>> /\ edit.at = "open"
        BY <1>2 DEF Commit
    <2>2. CASE edit.kind = "weights"
        <3>1. weights' = edit.value /\ replaced' = [replaced EXCEPT ![weights] = clock]
            BY <1>2, <2>2 DEF Commit
        <3> QED BY <2>1, <2>2, <3>1 DEF SettingsHeld, Promise!Next, Promise!Write, Never
    <2>3. CASE edit.kind # "weights"
        BY <1>2, <2>1, <2>3 DEF Commit
    <2> QED BY <2>2, <2>3
<1>3. CASE Tick
    BY <1>3 DEF Tick, stores, history, Promise!Next, Promise!Advance
<1>4. \/ UNCHANGED <<clock, weights, replaced, used>> \/ Commit \/ Tick
      \/ \E r \in Req : Rank(r)
    BY Frame
<1> QED BY <1>1, <1>2, <1>3, <1>4

(* The weights of a ranking are never older than the life of a cached      *)
(* setting and of a transaction: get_setting and set_setting of            *)
(* services/settings_service.py implement a read of bounded staleness,     *)
(* although what is cached may have been read before a change and is       *)
(* cached after it, and although a failed deletion is ignored.             *)
THEOREM SettingsAreFresh == Spec => WeightsAreFresh
<1>1. Init => AskInv /\ Timely /\ SettingsHeld
    BY AskInvInit, TimelyInit, SettingsInit
<1>2. AskInv /\ Timely /\ SettingsHeld /\ [Next]_vars => AskInv' /\ Timely' /\ SettingsHeld'
    BY AskInvStep, TimelyStep, SettingsStep
<1>3. Timely /\ SettingsHeld /\ [Next]_vars => [Promise!Next]_<<clock, weights, replaced, used>>
    BY PromiseStep
<1> QED BY <1>1, <1>2, <1>3, PromiseInit, PTL DEF Spec, WeightsAreFresh, Promise!Spec

----------------------------------------------------------------------------
(* What is taken for the merchants disagrees with the database only about  *)
(* changes that are in flight or recent.                                   *)

LEMMA MerchantsInit == Init => MerchantsHeld
<1> SUFFICES ASSUME Init PROVE MerchantsHeld
    OBVIOUS
<1>1. /\ clock = 0 /\ stored = merchants /\ edit = Idle /\ \A r \in Req : req[r] = Idle
      /\ changed = [x \in Merchant \cup Coupon |-> Never]
      /\ index = [p \in Process |-> [known |-> merchants, built |-> 0]]
    BY DEF Init
<1>2. merchants \subseteq Merchant
    BY SearchAssumption DEF Init
<1>3. edit.at # "open" /\ \A r \in Req : ReadsMerchants(req[r])
    BY <1>1 DEF ReadsMerchants, Early, Idle
<1>4. \A p \in Process : Built(index[p])
    BY <1>1, <1>2 DEF Built, Agrees, SymDiff
<1> QED BY <1>1, <1>2, <1>3, <1>4 DEF MerchantsHeld, Never

(* A change that is in flight becomes one of now. *)
LEMMA ChangesStay ==
    ASSUME Timely, MerchantsHeld, [Next]_vars, NEW m \in Merchant, NEW t \in Int, t <= clock,
           Changes(m, t)
    PROVE  Changes(m, t)'
<1>1. clock \in Nat /\ changed[m] \in Int
    BY DEF Timely, MerchantsHeld
<1>2. CASE UNCHANGED <<changed, edit>>
    BY <1>2 DEF Changes
<1>3. CASE Commit \/ Abort
    <2>1. edit.at = "open"
          /\ changed' = IF edit.kind = "merchant" THEN [changed EXCEPT ![edit.value] = clock] ELSE changed
        BY <1>3 DEF Commit, Abort
    <2> QED BY <1>1, <2>1 DEF Changes, MerchantsHeld, Never
<1>4. CASE \E c \in Coupon : IndexChanges(c)
    <2>1. PICK c \in Coupon : edit' = edit /\ changed' = [changed EXCEPT ![c] = clock]
        BY <1>4 DEF IndexChanges
    <2> QED BY <1>1, <2>1 DEF Changes, MerchantsHeld, Never
<1>5. ASSUME UNCHANGED changed, edit.at = "idle" PROVE Changes(m, t)'
    BY <1>5 DEF Changes
<1>6. ASSUME NEW r \in Req, Work(r) PROVE UNCHANGED edit
    BY <1>6 DEF Work, Understand, AiAnswers, AiFails, Lookup, Retrieve, Rank, Record, CutShort, Suggest
<1>7. \/ UNCHANGED edit \/ Commit \/ Abort \/ edit.at = "idle"
    BY <1>6 DEF Next, Begin, EditWeights, EditMerchant, EditProviders, Edit, RefreshRouter,
                IndexChanges, Tick, vars
<1>8. UNCHANGED changed \/ Commit \/ Abort \/ \E c \in Coupon : IndexChanges(c)
    BY Frame
<1> QED BY <1>2, <1>3, <1>4, <1>5, <1>7, <1>8

(* A merchant that appears or disappears was about to. *)
LEMMA ToggleIsAChange ==
    ASSUME Timely, MerchantsHeld, [Next]_vars, NEW m \in Merchant, NEW t \in Int, t <= clock,
           m \in SymDiff(merchants, merchants')
    PROVE  Changes(m, t)'
<1>1. Commit
    BY Frame DEF SymDiff
<1>2. /\ edit.at = "open" /\ edit.kind = "merchant" /\ edit.value = m
    BY <1>1 DEF Commit, Toggled, SymDiff
<1>3. Changes(m, t)
    BY <1>2 DEF Changes
<1> QED BY <1>3, ChangesStay

LEMMA AgreesStays ==
    ASSUME Timely, MerchantsHeld, [Next]_vars, NEW known, NEW t \in Int, t <= clock, Agrees(known, t)
    PROVE  Agrees(known, t)'
<1>1. merchants' \subseteq Merchant /\ known \subseteq Merchant
    <2>1. UNCHANGED merchants \/ Commit
        BY Frame
    <2> QED BY <2>1 DEF Agrees, MerchantsHeld, Commit, Toggled, SymDiff
<1>2. ASSUME NEW m \in SymDiff(known, merchants') PROVE Changes(m, t)'
    <2>1. m \in Merchant
        BY <1>1, <1>2 DEF SymDiff
    <2>2. CASE m \in SymDiff(known, merchants)
        BY <2>1, <2>2, ChangesStay DEF Agrees
    <2>3. CASE m \notin SymDiff(known, merchants)
        <3>1. m \in SymDiff(merchants, merchants')
            BY <1>2, <2>3 DEF SymDiff
        <3> QED BY <2>1, <3>1, ToggleIsAChange
    <2> QED BY <2>2, <2>3
<1> QED BY <1>1, <1>2 DEF Agrees

LEMMA ExistsStays ==
    ASSUME Timely, MerchantsHeld, [Next]_vars, NEW m, NEW t \in Int, t <= clock, Exists(m, t)
    PROVE  Exists(m, t)'
<1>1. m \in Merchant /\ Changes(m, t) => Changes(m, t)'
    BY ChangesStay
<1>2. stored \subseteq stored'
    <2>1. UNCHANGED stored \/ Commit
        BY Frame
    <2> QED BY <2>1 DEF Commit
<1> QED BY <1>1, <1>2 DEF Exists

LEMMA ReadsMerchantsStays ==
    ASSUME Timely, MerchantsHeld, [Next]_vars, NEW r \in Req, req'[r] = req[r]
    PROVE  ReadsMerchants(req[r])'
<1>1. clock \in Nat /\ clock' \in Nat /\ clock <= clock' /\ Life \in Nat
    <2>1. clock' = clock \/ clock' = clock + 1
        BY Frame DEF Tick
    <2>2. AliasTtl \in Nat /\ MaxRequest \in Nat /\ clock \in Nat
        BY SearchAssumption DEF Timely
    <2> QED BY <2>1, <2>2 DEF Life
<1>2. ASSUME req[r].at \in Early
      PROVE  Agrees(req[r].view.merchants, req[r].began)'
    <2>1. Agrees(req[r].view.merchants, req[r].began) /\ Recent(req[r].began)
        BY <1>2 DEF MerchantsHeld, ReadsMerchants, Timely, InFlight, Early
    <2>2. PICK known, t : /\ known = req[r].view.merchants /\ t = req[r].began
                          /\ Agrees(known, t) /\ Recent(t)
        BY <2>1
    <2>3. Agrees(known, t)'
        BY <2>2, AgreesStays DEF Recent
    <2> QED BY <2>2, <2>3 DEF Agrees, Changes
<1>3. ASSUME req[r].at \in {"asking", "understood"}
      PROVE  Agrees(req[r].known, req[r].began - Life)'
    <2>1. Agrees(req[r].known, req[r].began - Life) /\ Recent(req[r].began)
        BY <1>3 DEF MerchantsHeld, ReadsMerchants, Timely, InFlight
    <2>2. PICK known, t : /\ known = req[r].known /\ t = req[r].began
                          /\ Agrees(known, t - Life) /\ Recent(t)
        BY <2>1
    <2>3. Agrees(known, t - Life)'
        BY <1>1, <2>2, AgreesStays DEF Recent
    <2> QED BY <2>2, <2>3 DEF Agrees, Changes
<1>4. ASSUME NEW m, Exists(m, req[r].began - Life), InFlight(req[r])
      PROVE  Exists(m, req[r].began - Life)'
    <2>1. PICK t : t = req[r].began /\ Recent(t) /\ Exists(m, t - Life)
        BY <1>4 DEF Timely
    <2>2. Exists(m, t - Life)'
        BY <1>1, <2>1, ExistsStays DEF Recent
    <2> QED BY <2>1, <2>2 DEF Exists, Changes
<1>5. ASSUME req[r].at = "suggested", NEW m \in ToSet(req[r].names) \ merchants'
      PROVE  Changes(m, req[r].began - Life)'
    <2>1. /\ ToSet(req[r].names) \subseteq Merchant /\ req[r].began \in Nat /\ req[r].began <= clock
          /\ m \notin merchants => Changes(m, req[r].began - Life)
        BY <1>5 DEF MerchantsHeld, ReadsMerchants
    <2>2. PICK t \in Int : t = req[r].began - Life /\ t <= clock
        BY <1>1, <2>1
    <2>3. m \in Merchant
        BY <1>5, <2>1
    <2>4. Changes(m, t)'
        <3>1. CASE m \in merchants
            BY <1>5, <2>2, <2>3, <3>1, ToggleIsAChange DEF SymDiff
        <3>2. CASE m \notin merchants
            BY <2>1, <2>2, <2>3, <3>2, ChangesStay
        <3> QED BY <3>1, <3>2
    <2> QED BY <2>2, <2>4 DEF Changes
<1>6. ASSUME req[r].at = "failed", req[r].why = "record"
      PROVE  changed'[req[r].merchant] # Never /\ req[r].began - Life <= changed'[req[r].merchant]
    <2>1. PICK m \in Merchant, t \in Nat :
            /\ m = req[r].merchant /\ t = req[r].began /\ t <= clock
            /\ changed[m] # Never /\ t - Life <= changed[m]
        BY <1>6 DEF MerchantsHeld, ReadsMerchants
    <2>2. changed'[m] = changed[m] \/ changed'[m] = clock
        BY Frame DEF MerchantsHeld, Commit, Abort, IndexChanges
    <2> QED BY <1>1, <2>1, <2>2 DEF Never
<1>7. \/ req[r].at \in Early \/ req[r].at \in {"retrieving", "ranking", "answering", "suggested", "failed"}
      \/ ReadsMerchants(req[r])'
    BY DEF ReadsMerchants, Early
<1>8. CASE req[r].at \in Early
    BY <1>2, <1>3, <1>4, <1>8 DEF MerchantsHeld, ReadsMerchants, Early, InFlight
<1>9. CASE req[r].at \in {"retrieving", "ranking", "answering"}
    BY <1>4, <1>9 DEF MerchantsHeld, ReadsMerchants, Early, InFlight
<1>10. CASE req[r].at = "suggested"
    BY <1>1, <1>5, <1>10 DEF MerchantsHeld, ReadsMerchants, Early
<1>11. CASE req[r].at = "failed"
    BY <1>1, <1>6, <1>11 DEF MerchantsHeld, ReadsMerchants, Early
<1> QED BY <1>7, <1>8, <1>9, <1>10, <1>11

(* The beginning of a sequence of the elements of a set. *)
LEMMA LeadingIsOf ==
    ASSUME NEW S, IsFiniteSet(S), NEW n \in Nat, NEW o \in SetToSeqs(S)
    PROVE  /\ o \in Seq(S) /\ Len(o) = Cardinality(S)
           /\ \A i, j \in 1 .. Len(o) : i # j => o[i] # o[j]
           /\ Leading(n, o) \in Seq(S) /\ Len(Leading(n, o)) = Lower(n, Cardinality(S))
           /\ \A i \in 1 .. Lower(n, Cardinality(S)) : Leading(n, o)[i] = o[i]
<1> DEFINE size == Cardinality(S)
           low == Lower(n, size)
<1>1. size \in Nat
    BY FS_CardinalityType
<1>2. o \in [1 .. size -> S] /\ \A i, j \in 1 .. size : i # j => o[i] # o[j]
    BY DEF SetToSeqs
<1> HIDE DEF size
<1>3. o \in Seq(S) /\ Len(o) = size
    BY <1>1, <1>2, LenProperties, ElementOfSeq, IsASeq
<1>4. low \in 0 .. size
    BY <1>1 DEF Lower
<1>5. Leading(n, o) = SubSeq(o, 1, low)
    BY <1>3 DEF Leading
<1> HIDE DEF low
<1>6. /\ SubSeq(o, 1, low) \in Seq(S) /\ Len(SubSeq(o, 1, low)) = low
      /\ \A i \in 1 .. low : SubSeq(o, 1, low)[i] = o[i]
    <2>1. low \in Int /\ \A i \in 1 .. low : o[i] \in S
        BY <1>1, <1>2, <1>4
    <2>2. /\ SubSeq(o, 1, low) \in Seq(S)
          /\ Len(SubSeq(o, 1, low)) = IF 1 <= low THEN low - 1 + 1 ELSE 0
          /\ \A i \in 1 .. low - 1 + 1 : SubSeq(o, 1, low)[i] = o[1 + i - 1]
        BY <2>1, SubSeqProperties
    <2> QED BY <1>4, <2>1, <2>2
<1> QED BY <1>2, <1>3, <1>5, <1>6 DEF size, low

LEMMA LeadingSet ==
    ASSUME NEW S, IsFiniteSet(S), NEW n \in Nat, NEW o \in SetToSeqs(S)
    PROVE  ToSet(Leading(n, o)) = {o[i] : i \in 1 .. Lower(n, Cardinality(S))}
<1>1. PICK l, low : l = Leading(n, o) /\ low = Lower(n, Cardinality(S))
    OBVIOUS
<1>2. l \in Seq(S) /\ Len(l) = low /\ \A i \in 1 .. low : l[i] = o[i]
    BY <1>1, LeadingIsOf
<1>3. DOMAIN l = 1 .. low
    BY <1>2
<1>4. ToSet(l) = {o[i] : i \in 1 .. low}
    BY <1>2, <1>3 DEF ToSet
<1> QED BY <1>1, <1>4

LEMMA AgreesEarlier ==
    ASSUME MerchantsHeld, NEW known, NEW t \in Int, NEW u \in Int, u <= t, Agrees(known, t)
    PROVE  Agrees(known, u)
<1>1. \A m \in Merchant : changed[m] \in Int
    BY DEF MerchantsHeld
<1>2. SymDiff(known, merchants) \subseteq Merchant
    BY DEF Agrees, SymDiff, MerchantsHeld
<1> QED BY <1>1, <1>2 DEF Agrees, Changes

(* An index is that of the process, if it is not too old, or a new one. *)
LEMMA AliasIndexAgrees ==
    ASSUME Timely, MerchantsHeld, NEW p \in Process, NEW view, NEW t, Recent(t),
           Agrees(view.merchants, t), NEW ix, ix = AliasIndex(p, view)
    PROVE  Agrees(ix.known, t - Life) /\ Built(ix)
<1>1. AliasTtl \in Nat /\ MaxRequest \in Nat /\ clock \in Nat /\ t \in Nat /\ t <= clock
      /\ clock <= t + MaxRequest /\ Life \in Nat /\ Life = AliasTtl + MaxRequest
    BY SearchAssumption, SMTT(40) DEF Timely, Recent, Life
<1>2. CASE Expired(index[p])
    <2>1. ix.known = view.merchants /\ ix.built = clock
        BY <1>2 DEF AliasIndex
    <2>2. t - Life \in Int /\ t - Life <= t /\ clock - MaxRequest \in Int /\ clock - MaxRequest <= t
        BY <1>1
    <2> QED BY <1>1, <2>1, <2>2, AgreesEarlier DEF Built
<1>3. CASE ~Expired(index[p])
    <2>1. PICK built \in Nat : /\ built = index[p].built /\ built <= clock
                               /\ Agrees(index[p].known, built - MaxRequest)
        BY DEF MerchantsHeld, Built
    <2>2. ix = index[p] /\ clock - built <= AliasTtl
        BY <1>1, <1>3, <2>1 DEF AliasIndex, Expired
    <2>3. t - Life \in Int /\ built - MaxRequest \in Int /\ t - Life <= built - MaxRequest
        BY <1>1, <2>1, <2>2
    <2> QED BY <2>1, <2>2, <2>3, AgreesEarlier DEF Built
<1> QED BY <1>2, <1>3

LEMMA KnownExists ==
    ASSUME MerchantsHeld, NEW known, NEW t, Agrees(known, t), NEW m \in known \cup {NoMerchant}
    PROVE  Exists(m, t)
BY DEF Exists, Agrees, SymDiff, MerchantsHeld

(* What the intent of a search says of the merchant, whoever found it. *)
LEMMA AnsweredReads ==
    ASSUME Timely, MerchantsHeld, SearchesWork, NEW r \in Req, req[r].at \in Early,
           req[r].query \in Query, NEW answer \in Answers[req[r].query], NEW known, NEW intent, NEW asked,
           Agrees(known, req[r].began - Life), Exists(intent.merchant, req[r].began - Life),
           Answered(r, known, intent, answer, asked)
    PROVE  ReadsMerchants(req'[r])
<1>1. CASE Malformed(answer)
    <2>1. PICK t : To(r, t) /\ t.at = "failed" /\ t.why = "answer" /\ t.began = req[r].began
        BY <1>1 DEF Answered, Fail
    <2>2. Recent(req[r].began)
        BY DEF Timely, InFlight, Early
    <2>3. ReadsMerchants(t)
        BY <2>1, <2>2 DEF ReadsMerchants, Early, Recent
    <2> QED BY <2>1, <2>3, Moves
<1>2. CASE ~Malformed(answer)
    <2>1. PICK i \in Merged(known, intent, answer) : To(r, Stage(r, "understood", i, known, << >>, asked))
        BY <1>2 DEF Answered
    <2>2. PICK m \in Resolve(known, answer.merchant) :
            i.merchant = IF m = NoMerchant THEN intent.merchant ELSE m
        BY <2>1 DEF Merged
    <2>3. answer.merchant.words \in Seq(Word) /\ known \in SUBSET Merchant
        BY <1>2, SearchAssumption DEF Agrees
    <2>4. m \in known \cup {NoMerchant}
        BY <2>2, <2>3, ResolvesToKnown
    <2>5. Exists(i.merchant, req[r].began - Life)
        BY <2>2, <2>4, KnownExists
    <2>6. Agrees(req[r].view.merchants, req[r].began)
        BY DEF MerchantsHeld, ReadsMerchants
    <2>7. ReadsMerchants(Stage(r, "understood", i, known, << >>, asked))
        BY <2>5, <2>6 DEF ReadsMerchants, Early, Stage
    <2> QED BY <2>1, <2>7, Moves
<1> QED BY <1>1, <1>2

LEMMA UnderstandReads ==
    ASSUME AskInv, Timely, MerchantsHeld, AnswersHeld, NEW r \in Req, Understand(r)
    PROVE  ReadsMerchants(req'[r])
<1> DEFINE q == req[r].query
           chain == IF req[r].ai THEN router[On[r]] ELSE << >>
           at == IF chain = << >> THEN "understood" ELSE "asking"
<1>1. PICK ix, m :
        /\ ix = AliasIndex(On[r], req[r].view) /\ m \in Resolve(ix.known, Typed[q])
        /\ IF req[r].ai /\ AnswerOf(q) # NoAnswer
           THEN Answered(r, ix.known, Heuristic(q, m), AnswerOf(q), << >>)
           ELSE To(r, Stage(r, at, Heuristic(q, m), ix.known, chain, << >>))
    BY DEF Understand
<1>2. req[r].at \in Early /\ q \in Query /\ SearchesWork /\ On[r] \in Process
    BY SearchAssumption DEF Understand, Early, AnswersHeld, ReadsAnswers, AskInv
<1>3. Agrees(req[r].view.merchants, req[r].began) /\ Recent(req[r].began)
    BY <1>2 DEF MerchantsHeld, ReadsMerchants, Timely, InFlight, Early
<1>4. Agrees(ix.known, req[r].began - Life)
    BY <1>1, <1>2, <1>3, AliasIndexAgrees
<1>5. ix.known \in SUBSET Merchant /\ Typed[q].words \in Seq(Word)
    BY <1>2, <1>4, SearchAssumption DEF Agrees
<1>6. m \in ix.known \cup {NoMerchant}
    BY <1>1, <1>5, ResolvesToKnown
<1>7. Exists(Heuristic(q, m).merchant, req[r].began - Life)
    BY <1>4, <1>6, KnownExists DEF Heuristic
<1>8. CASE req[r].ai /\ AnswerOf(q) # NoAnswer
    <2>1. AnswerOf(q) \in Answers[q]
        BY <1>8 DEF AnswerOf, AnswersHeld, KeepsAnswer
    <2> QED BY <1>1, <1>2, <1>4, <1>7, <1>8, <2>1, AnsweredReads
<1>9. CASE ~(req[r].ai /\ AnswerOf(q) # NoAnswer)
    <2>1. at \in {"understood", "asking"}
        OBVIOUS
    <2> HIDE DEF at, chain
    <2>2. ReadsMerchants(Stage(r, at, Heuristic(q, m), ix.known, chain, << >>))
        BY <1>3, <1>4, <1>7, <2>1 DEF ReadsMerchants, Early, Stage
    <2> QED BY <1>1, <1>2, <1>9, <2>2, Moves
<1> QED BY <1>8, <1>9

LEMMA AiAnswersReads ==
    ASSUME AskInv, Timely, MerchantsHeld, AnswersHeld, NEW r \in Req,
           NEW answer \in Answers[req[r].query], AiAnswers(r, answer)
    PROVE  ReadsMerchants(req'[r])
<1>1. PICK ix, asked : /\ ix = AliasIndex(On[r], req[r].view)
                       /\ Answered(r, ix.known, req[r].intent, answer, asked)
    BY DEF AiAnswers
<1>2. req[r].at = "asking" /\ req[r].at \in Early /\ req[r].query \in Query
      /\ SearchesWork /\ On[r] \in Process
    BY SearchAssumption DEF AiAnswers, Early, AnswersHeld, ReadsAnswers, AskInv
<1>3. /\ Agrees(req[r].view.merchants, req[r].began) /\ Recent(req[r].began)
      /\ Exists(req[r].intent.merchant, req[r].began - Life)
    BY <1>2 DEF MerchantsHeld, ReadsMerchants, Timely, InFlight, Early
<1>4. Agrees(ix.known, req[r].began - Life)
    BY <1>1, <1>2, <1>3, AliasIndexAgrees
<1> QED BY <1>1, <1>2, <1>3, <1>4, AnsweredReads

LEMMA AiFailsReads ==
    ASSUME AskInv, Timely, MerchantsHeld, NEW r \in Req, AiFails(r)
    PROVE  ReadsMerchants(req'[r])
<1>1. PICK at, asked :
        /\ at \in {"asking", "understood"}
        /\ To(r, Stage(r, at, req[r].intent, req[r].known, req[r].chain, asked))
    BY DEF AiFails
<1>2. ReadsMerchants(Stage(r, at, req[r].intent, req[r].known, req[r].chain, asked))
    BY <1>1 DEF AiFails, MerchantsHeld, ReadsMerchants, Early, Stage
<1> QED BY <1>1, <1>2, Moves DEF AskInv

(* The filters have the merchant of the intent. *)
LEMMA LateStepsRead ==
    ASSUME AskInv, Timely, MerchantsHeld, NEW r \in Req,
           Lookup(r) \/ Rank(r) \/ Record(r) \/ CutShort(r) \/ \E ok \in BOOLEAN : Retrieve(r, ok)
    PROVE  ReadsMerchants(req'[r])
<1> SUFFICES \E t : To(r, t) /\ ReadsMerchants(t)
    BY Moves DEF AskInv
<1>1. InFlight(req[r]) /\ Recent(req[r].began)
    BY DEF Lookup, Rank, Record, CutShort, Retrieve, Timely, InFlight
<1>2. ASSUME NEW t, To(r, t), t.at \in {"retrieving", "ranking", "answering"},
             Exists(t.filters.merchant, t.began - Life)
      PROVE  \E u : To(r, u) /\ ReadsMerchants(u)
    BY <1>2 DEF ReadsMerchants, Early
<1>3. ASSUME NEW t, To(r, t), t.at = "failed", t.why # "record", t.began = req[r].began
      PROVE  \E u : To(r, u) /\ ReadsMerchants(u)
    BY <1>1, <1>3 DEF ReadsMerchants, Early, Recent
<1>4. CASE Lookup(r)
    <2>1. PICK t : /\ To(r, t) /\ t.at \in {"retrieving", "answering"} /\ t.began = req[r].began
                   /\ t.filters = Filters(req[r].intent)
        BY <1>4 DEF Lookup, Answer
    <2>2. Exists(req[r].intent.merchant, req[r].began - Life)
        BY <1>4 DEF Lookup, MerchantsHeld, ReadsMerchants
    <2> QED BY <1>2, <2>1, <2>2 DEF Filters
<1>5. ASSUME NEW ok \in BOOLEAN, Retrieve(r, ok) PROVE \E t : To(r, t) /\ ReadsMerchants(t)
    <2>1. PICK t : /\ To(r, t) /\ t.at = "ranking" /\ t.began = req[r].began
                   /\ t.filters = req[r].filters
        BY <1>5 DEF Retrieve
    <2>2. Exists(req[r].filters.merchant, req[r].began - Life)
        BY <1>5 DEF Retrieve, MerchantsHeld, ReadsMerchants
    <2> QED BY <1>2, <2>1, <2>2
<1>6. CASE Rank(r)
    <2>1. \/ Fail(r, "weights", NoMerchant)
          \/ \E page : Answer(r, req[r].filters, page)
        BY <1>6, RankMoves
    <2>2. Exists(req[r].filters.merchant, req[r].began - Life)
        BY <1>6 DEF Rank, MerchantsHeld, ReadsMerchants
    <2> QED BY <1>2, <1>3, <2>1, <2>2 DEF Fail, Answer
<1>7. CASE Record(r)
    <2>1. CASE req[r].filters.merchant \in stored \cup {NoMerchant}
        <3>1. PICK t : To(r, t) /\ t.at = "done"
            BY <1>7, <2>1 DEF Record
        <3> QED BY <3>1 DEF ReadsMerchants, Early
    <2>2. CASE req[r].filters.merchant \notin stored \cup {NoMerchant}
        <3>1. PICK t : /\ To(r, t) /\ t.at = "failed" /\ t.merchant = req[r].filters.merchant
                       /\ t.began = req[r].began
            BY <1>7, <2>2 DEF Record, Fail
        <3>2. /\ t.merchant \in Merchant /\ changed[t.merchant] # Never
              /\ t.began - Life <= changed[t.merchant]
            BY <1>7, <2>2, <3>1 DEF Record, MerchantsHeld, ReadsMerchants, Exists, Changes, Locked
        <3>3. ReadsMerchants(t)
            BY <1>1, <3>1, <3>2 DEF ReadsMerchants, Early, Recent
        <3> QED BY <3>1, <3>3
    <2> QED BY <2>1, <2>2
<1>8. CASE CutShort(r)
    BY <1>8 DEF CutShort, Aborted, ReadsMerchants, Early
<1> QED BY <1>4, <1>5, <1>6, <1>7, <1>8

LEMMA SuggestReads ==
    ASSUME AskInv, Timely, MerchantsHeld, NEW r \in Req, NEW ok \in BOOLEAN, Suggest(r, ok)
    PROVE  ReadsMerchants(req'[r])
<1>1. PICK ix, sorted, t :
        /\ ix = AliasIndex(On[r], [merchants |-> merchants]) /\ sorted \in ById(Named(ix.known))
        /\ To(r, t) /\ t.at = "suggested" /\ t.began = clock /\ t.names = Names(sorted)
    BY DEF Suggest
<1>2. Recent(clock) /\ Agrees(merchants, clock) /\ On[r] \in Process /\ clock \in Nat
    BY SearchAssumption, SMTT(40) DEF Recent, Timely, Agrees, SymDiff, MerchantsHeld
<1>3. Agrees(ix.known, clock - Life)
    BY <1>1, <1>2, AliasIndexAgrees
<1>4. ToSet(t.names) \subseteq ix.known
    <2>1. IsFiniteSet(Named(ix.known)) /\ SuggestLimit \in Nat
        BY <1>3, MerchantsAssumption, SearchAssumption, FS_Subset DEF Named, Agrees
    <2>2. sorted \in SetToSeqs(Named(ix.known))
        BY <1>1 DEF ById
    <2>3. (IF SuggestLimit > 1 THEN SuggestLimit \div 2 ELSE 1) \in Nat
        BY <2>1
    <2>4. Names(sorted) \in Seq(Named(ix.known))
        BY <2>1, <2>2, <2>3, LeadingIsOf DEF Names
    <2>5. ToSet(Names(sorted)) \subseteq Named(ix.known)
        BY <2>4 DEF ToSet
    <2> QED BY <1>1, <2>5 DEF Named
<1>5. ReadsMerchants(t)
    BY <1>1, <1>2, <1>3, <1>4 DEF ReadsMerchants, Early, Agrees, SymDiff
<1> QED BY <1>1, <1>5, Moves DEF AskInv

LEMMA WorkReads ==
    ASSUME AskInv, Timely, MerchantsHeld, AnswersHeld, NEW r \in Req, Work(r)
    PROVE  ReadsMerchants(req'[r])
BY UnderstandReads, AiAnswersReads, AiFailsReads, LateStepsRead, SuggestReads DEF Work

LEMMA WorkBuilds ==
    ASSUME AskInv, Timely, MerchantsHeld, NEW r \in Req, Work(r)
    PROVE  index' = [p \in Process |-> index'[p]] /\ \A p \in Process : Built(index'[p])
<1>1. On[r] \in Process
    BY SearchAssumption
<1>2. ASSUME UNCHANGED index
      PROVE  index' = [p \in Process |-> index'[p]] /\ \A p \in Process : Built(index'[p])
    BY <1>2 DEF MerchantsHeld
<1>3. ASSUME NEW ix, Built(ix), index' = [index EXCEPT ![On[r]] = ix]
      PROVE  index' = [p \in Process |-> index'[p]] /\ \A p \in Process : Built(index'[p])
    BY <1>1, <1>3 DEF MerchantsHeld
<1>4. ASSUME req[r].at \in Early PROVE Built(AliasIndex(On[r], req[r].view))
    <2>1. Agrees(req[r].view.merchants, req[r].began) /\ Recent(req[r].began)
        BY <1>4 DEF MerchantsHeld, ReadsMerchants, Timely, InFlight, Early
    <2> QED BY <1>1, <2>1, AliasIndexAgrees
<1>5. CASE Understand(r)
    BY <1>3, <1>4, <1>5 DEF Understand, Early
<1>6. ASSUME NEW answer, AiAnswers(r, answer)
      PROVE  index' = [p \in Process |-> index'[p]] /\ \A p \in Process : Built(index'[p])
    BY <1>2, <1>3, <1>4, <1>6 DEF AiAnswers, Early
<1>7. ASSUME NEW ok \in BOOLEAN, Suggest(r, ok)
      PROVE  index' = [p \in Process |-> index'[p]] /\ \A p \in Process : Built(index'[p])
    <2>1. index' = [index EXCEPT ![On[r]] = AliasIndex(On[r], [merchants |-> merchants])]
        BY <1>7 DEF Suggest
    <2>2. Recent(clock) /\ Agrees(merchants, clock)
        BY SearchAssumption, SMTT(40) DEF Recent, Timely, Agrees, SymDiff, MerchantsHeld
    <2>3. Built(AliasIndex(On[r], [merchants |-> merchants]))
        BY <1>1, <2>2, AliasIndexAgrees
    <2> QED BY <1>3, <2>1, <2>3
<1>8. CASE \/ AiFails(r) \/ Lookup(r) \/ Rank(r) \/ Record(r) \/ CutShort(r)
           \/ \E ok \in BOOLEAN : Retrieve(r, ok)
    BY <1>2, <1>8 DEF AiFails, Lookup, Rank, Record, CutShort, Retrieve
<1> QED BY <1>5, <1>6, <1>7, <1>8 DEF Work

LEMMA BuiltStays ==
    ASSUME Timely, MerchantsHeld, [Next]_vars, NEW ix, Built(ix)
    PROVE  Built(ix)'
<1>1. clock' = clock \/ clock' = clock + 1
    BY Frame DEF Tick
<1>2. clock \in Nat /\ MaxRequest \in Nat
    BY SearchAssumption DEF Timely
<1>3. PICK t \in Int : t = ix.built - MaxRequest /\ t <= clock /\ Agrees(ix.known, t)
    BY <1>2 DEF Built
<1>4. Agrees(ix.known, t)'
    BY <1>3, AgreesStays
<1> QED BY <1>1, <1>2, <1>3, <1>4 DEF Built

LEMMA MerchantsStep ==
    ASSUME AskInv, Timely, MerchantsHeld, AnswersHeld, [Next]_vars
    PROVE  MerchantsHeld'
<1>1. SearchesWork /\ clock \in Nat /\ MaxRequest \in Nat
    BY SearchAssumption DEF AskInv, Timely
<1>2. clock' = clock \/ clock' = clock + 1
    BY Frame DEF Tick
<1>3. merchants' \subseteq stored' /\ stored' \subseteq Merchant
    <2>1. UNCHANGED <<merchants, stored>> \/ Commit
        BY Frame
    <2> QED BY <2>1 DEF MerchantsHeld, Commit, Toggled, SymDiff
<1>4. /\ changed' \in [Merchant \cup Coupon -> Int]
      /\ \A x \in Merchant \cup Coupon : changed'[x] <= clock'
    <2>1. \/ UNCHANGED changed
          \/ \E y \in Merchant \cup Coupon : changed' = [changed EXCEPT ![y] = clock]
        BY Frame DEF MerchantsHeld, Commit, Abort, IndexChanges
    <2> QED BY <1>1, <1>2, <2>1 DEF MerchantsHeld
<1>5. ASSUME edit' = edit \/ edit' = Idle \/ edit'.kind # "merchant" \/ edit'.value \in Merchant,
             index' = [p \in Process |-> index'[p]], \A p \in Process : Built(index[p])',
             \A r \in Req : ReadsMerchants(req[r])'
      PROVE  MerchantsHeld'
    BY <1>3, <1>4, <1>5 DEF MerchantsHeld, Idle
<1>6. ASSUME NEW p \in Process, index'[p] = index[p] PROVE Built(index[p])'
    <2>1. PICK ix : ix = index[p] /\ Built(ix)
        BY DEF MerchantsHeld
    <2>2. Built(ix)'
        BY <2>1, BuiltStays
    <2> QED BY <1>6, <2>1, <2>2
<1>7. ASSUME UNCHANGED index
      PROVE  index' = [p \in Process |-> index'[p]] /\ \A p \in Process : Built(index[p])'
    BY <1>6, <1>7 DEF MerchantsHeld
<1>8. UNCHANGED req => \A r \in Req : ReadsMerchants(req[r])'
    BY ReadsMerchantsStays
<1>9. ASSUME NEW r \in Req, Work(r) PROVE MerchantsHeld'
    <2>1. UNCHANGED <<clock, merchants, stored, changed, edit>>
        BY <1>9 DEF Work, Understand, AiAnswers, AiFails, Lookup, Retrieve, Rank, Record, CutShort,
                    Suggest, stores, history
    <2>2. \A q \in Req : q # r => req'[q] = req[q]
        BY <1>1, <1>9, WorkCarries
    <2>3. ReadsMerchants(req'[r])
        BY <1>9, WorkReads
    <2>4. ReadsMerchants(req[r])'
        BY <2>1, <2>3 DEF ReadsMerchants, Agrees, Exists, Changes
    <2>5. \A q \in Req : ReadsMerchants(req[q])'
        BY <2>2, <2>4, ReadsMerchantsStays
    <2>6. index' = [p \in Process |-> index'[p]] /\ \A p \in Process : Built(index'[p])
        BY <1>9, WorkBuilds
    <2>7. \A p \in Process : Built(index[p])'
        BY <2>1, <2>6 DEF Built, Agrees, Changes
    <2> QED BY <1>5, <2>1, <2>5, <2>6, <2>7, SMTT(40)
<1>10. ASSUME NEW r \in Req, NEW q \in Query, NEW ai \in UseAi[r], Begin(r, q, ai) PROVE MerchantsHeld'
    <2>1. UNCHANGED <<clock, merchants, edit, index>>
        BY <1>10 DEF Begin, stores
    <2>2. /\ req'[r].at = "begun" /\ req'[r].view.merchants = merchants
          /\ \A p \in Req : p # r => req'[p] = req[p]
        BY <1>1, <1>10, BeginStarts
    <2>3. ReadsMerchants(req[r])'
        BY <1>3, <2>1, <2>2 DEF MerchantsHeld, ReadsMerchants, Early, Agrees, SymDiff
    <2>4. \A p \in Req : ReadsMerchants(req[p])'
        BY <2>2, <2>3, ReadsMerchantsStays
    <2> QED BY <1>5, <1>7, <2>1, <2>4
<1>11. ASSUME NEW p \in Desk, NEW m \in Merchant, EditMerchant(p, m) PROVE MerchantsHeld'
    <2>1. /\ UNCHANGED <<clock, merchants, req>> /\ p \in Process
          /\ edit'.at = "open" /\ edit'.kind = "merchant" /\ edit'.value = m
          /\ index' = [index EXCEPT ![p] = [known |-> Toggled(m), built |-> clock]]
        BY <1>11, SearchAssumption DEF EditMerchant, Edit, stores
    <2>2. index' = [q \in Process |-> index'[q]] /\ \A q \in Process : q # p => index'[q] = index[q]
        BY <2>1 DEF MerchantsHeld
    <2>3. index'[p].known = Toggled(m) /\ index'[p].built = clock
        BY <2>1 DEF MerchantsHeld
    <2>4. Toggled(m) \subseteq Merchant /\ SymDiff(Toggled(m), merchants) \subseteq {m}
        BY DEF MerchantsHeld, Toggled, SymDiff
    <2>5. Built(index[p])'
        BY <1>1, <2>1, <2>3, <2>4 DEF Built, Agrees, Changes
    <2> QED BY <1>5, <1>6, <1>8, <2>1, <2>2, <2>5
<1>12. ASSUME \/ \E s \in Setting, deleted \in BOOLEAN : EditWeights(s, deleted)
              \/ \E p \in Desk, chain \in Chains : EditProviders(p, chain)
              \/ \E p \in Process : RefreshRouter(p)
              \/ Commit \/ Abort \/ (\E c \in Coupon : IndexChanges(c)) \/ Tick \/ UNCHANGED vars
       PROVE  MerchantsHeld'
    <2>1. UNCHANGED <<index, req>> /\ (edit' = edit \/ edit' = Idle \/ edit'.kind # "merchant")
        <3>1. ASSUME NEW s \in Setting, NEW deleted \in BOOLEAN, EditWeights(s, deleted)
              PROVE  UNCHANGED <<index, req>> /\ edit'.kind # "merchant"
            BY <3>1 DEF EditWeights, Edit
        <3>2. ASSUME NEW p \in Desk, NEW chain \in Chains, EditProviders(p, chain)
              PROVE  UNCHANGED <<index, req>> /\ edit'.kind # "merchant"
            BY <3>2 DEF EditProviders, Edit
        <3>3. CASE Commit \/ Abort
            BY <3>3 DEF Commit, Abort
        <3>4. CASE \/ \E p \in Process : RefreshRouter(p)
                   \/ (\E c \in Coupon : IndexChanges(c)) \/ Tick \/ UNCHANGED vars
            BY <3>4 DEF RefreshRouter, IndexChanges, Tick, vars
        <3> QED BY <1>12, <3>1, <3>2, <3>3, <3>4
    <2> QED BY <1>5, <1>7, <1>8, <2>1
<1> QED BY <1>9, <1>10, <1>11, <1>12 DEF Next

----------------------------------------------------------------------------
(* A malformed answer does harm for as long as answers are kept. *)

LEMMA AnswersInit == Init => AnswersHeld
<1> SUFFICES ASSUME Init PROVE AnswersHeld
    OBVIOUS
<1>1. /\ clock = 0 /\ cachedAnswers = << >> /\ \A r \in Req : req[r] = Idle
      /\ poisoned = [q \in Query |-> Never]
    BY DEF Init
<1>2. \A r \in Req : ReadsAnswers(req[r])
    BY <1>1 DEF ReadsAnswers, Early, Idle
<1>3. DOMAIN cachedAnswers = {}
    BY <1>1
<1> QED BY <1>1, <1>2, <1>3 DEF AnswersHeld, Never

(* The record of malformed answers only grows. *)
LEMMA PoisonGrows ==
    ASSUME Timely, AnswersHeld, [Next]_vars
    PROVE  /\ poisoned' \in [Query -> Int] /\ \A q \in Query : poisoned'[q] <= clock'
           /\ \A q \in Query : poisoned[q] # Never =>
                  poisoned'[q] # Never /\ poisoned[q] <= poisoned'[q]
<1>1. (clock' = clock \/ clock' = clock + 1) /\ clock \in Nat
    BY Frame DEF Tick, Timely
<1>2. \/ UNCHANGED poisoned
      \/ \E q \in Query : poisoned' = [poisoned EXCEPT ![q] = clock]
    BY Frame DEF AiAnswers, AnswersHeld, ReadsAnswers, Early
<1>3. CASE UNCHANGED poisoned
    BY <1>1, <1>3 DEF AnswersHeld
<1>4. CASE \E q \in Query : poisoned' = [poisoned EXCEPT ![q] = clock]
    BY <1>1, <1>4 DEF AnswersHeld, Never
<1> QED BY <1>2, <1>3, <1>4

LEMMA ReadsAnswersStays ==
    ASSUME Timely, AnswersHeld, [Next]_vars, NEW r \in Req, req'[r] = req[r]
    PROVE  ReadsAnswers(req[r])'
<1>1. AiTtl \in Nat
    BY SearchAssumption
<1>2. CASE ~(req[r].at = "failed" /\ req[r].why = "answer")
    BY <1>2 DEF AnswersHeld, ReadsAnswers
<1>3. CASE req[r].at = "failed" /\ req[r].why = "answer"
    <2>1. PICK q \in Query, t \in Nat :
            q = req[r].query /\ t = req[r].began /\ poisoned[q] # Never /\ t - poisoned[q] < AiTtl
        BY <1>3 DEF AnswersHeld, ReadsAnswers
    <2>2. poisoned[q] \in Int /\ poisoned'[q] \in Int /\ poisoned'[q] # Never /\ poisoned[q] <= poisoned'[q]
        BY <2>1, PoisonGrows DEF AnswersHeld
    <2>3. t - poisoned'[q] < AiTtl
        BY <1>1, <2>1, <2>2
    <2> QED BY <1>3, <2>1, <2>2, <2>3 DEF AnswersHeld, ReadsAnswers, Early
<1> QED BY <1>2, <1>3


LEMMA KeptStays ==
    ASSUME Timely, AnswersHeld, [Next]_vars, NEW q, NEW kept, KeepsAnswer(q, kept),
           UNCHANGED clock \/ kept.until > clock + 1
    PROVE  KeepsAnswer(q, kept)'
<1>1. (clock' = clock \/ clock' = clock + 1) /\ clock \in Nat /\ AiTtl \in Nat
    BY Frame, SearchAssumption DEF Tick, Timely
<1>2. clock' < kept.until
    BY <1>1 DEF KeepsAnswer
<1>3. CASE ~Malformed(kept.answer)
    BY <1>2, <1>3 DEF KeepsAnswer
<1>4. CASE Malformed(kept.answer)
    <2>1. poisoned[q] \in Int /\ poisoned'[q] \in Int /\ poisoned'[q] # Never /\ poisoned[q] <= poisoned'[q]
        BY <1>4, PoisonGrows DEF AnswersHeld, KeepsAnswer
    <2> QED BY <1>1, <1>2, <2>1 DEF KeepsAnswer
<1> QED BY <1>3, <1>4

(* A search that fails for an answer has seen a malformed one. *)
LEMMA AnsweredPoisons ==
    ASSUME SearchesWork, Timely, AnswersHeld, NEW r \in Req, req[r].at \in Early,
           NEW known, NEW intent, NEW answer, NEW asked, Answered(r, known, intent, answer, asked),
           Malformed(answer) => poisoned'[req[r].query] # Never
                                /\ req[r].began - poisoned'[req[r].query] < AiTtl
    PROVE  ReadsAnswers(req[r])'
<1>1. req[r].query \in Query /\ Recent(req[r].began)
    BY DEF AnswersHeld, ReadsAnswers, Timely, InFlight, Early
<1>2. CASE Malformed(answer)
    <2>1. PICK t : To(r, t) /\ t.at = "failed" /\ t.why = "answer" /\ t.began = req[r].began
                   /\ t.query = req[r].query
        BY <1>2 DEF Answered, Fail
    <2>2. req'[r] = t
        BY <2>1, Moves
    <2> QED BY <1>1, <1>2, <2>1, <2>2 DEF ReadsAnswers, Early, Recent
<1>3. CASE ~Malformed(answer)
    <2>1. PICK i : To(r, Stage(r, "understood", i, known, << >>, asked))
        BY <1>3 DEF Answered
    <2>2. req'[r] = Stage(r, "understood", i, known, << >>, asked)
        BY <2>1, Moves
    <2> QED BY <1>1, <2>2 DEF ReadsAnswers, Early, Stage
<1> QED BY <1>2, <1>3

LEMMA WorkReadsAnswers ==
    ASSUME AskInv, Timely, AnswersHeld, NEW r \in Req, Work(r)
    PROVE  ReadsAnswers(req[r])'
<1>1. AiTtl \in Nat \ {0} /\ clock \in Nat /\ SearchesWork
    BY SearchAssumption DEF Timely, AskInv
<1>2. ASSUME NEW t, To(r, t), t.at \in Early => t.query \in Query,
             t.at = "failed" => t.why \in {"weights", "record"} /\ t.began \in Nat
      PROVE  ReadsAnswers(req[r])'
    <2>1. req'[r] = t
        BY <1>1, <1>2, Moves
    <2> QED BY <1>2, <2>1 DEF ReadsAnswers
<1>3. InFlight(req[r]) => Recent(req[r].began)
    BY DEF Timely
<1>4. CASE Understand(r)
    <2> DEFINE q == req[r].query
               chain == IF req[r].ai THEN router[On[r]] ELSE << >>
               at == IF chain = << >> THEN "understood" ELSE "asking"
    <2>1. PICK known, intent :
            IF req[r].ai /\ AnswerOf(q) # NoAnswer
            THEN Answered(r, known, intent, AnswerOf(q), << >>)
            ELSE To(r, Stage(r, at, intent, known, chain, << >>))
        BY <1>4 DEF Understand
    <2>2. req[r].at \in Early /\ InFlight(req[r]) /\ q \in Query /\ UNCHANGED poisoned
        BY <1>4 DEF Understand, Early, InFlight, AnswersHeld, ReadsAnswers, history
    <2>3. CASE req[r].ai /\ AnswerOf(q) # NoAnswer
        <3>1. KeepsAnswer(q, cachedAnswers[q]) /\ AnswerOf(q) = cachedAnswers[q].answer
            BY <2>3 DEF AnswerOf, AnswersHeld
        <3>2. PICK until \in Int :
                /\ until = cachedAnswers[q].until /\ clock < until
                /\ Malformed(AnswerOf(q)) => poisoned[q] # Never /\ until <= poisoned[q] + AiTtl
            BY <3>1 DEF KeepsAnswer
        <3>3. Malformed(AnswerOf(q)) => poisoned[q] # Never /\ req[r].began - poisoned[q] < AiTtl
            <4>1. PICK b \in Nat : b = req[r].began /\ b <= clock
                BY <1>3, <2>2 DEF Recent
            <4>2. poisoned[q] \in Int
                BY <2>2 DEF AnswersHeld
            <4> QED BY <1>1, <3>2, <4>1, <4>2
        <3> QED BY <1>1, <2>1, <2>2, <2>3, <3>3, AnsweredPoisons
    <2>4. CASE ~(req[r].ai /\ AnswerOf(q) # NoAnswer)
        <3>1. at \in {"understood", "asking"}
            OBVIOUS
        <3> HIDE DEF at, chain
        <3>2. PICK t : To(r, t) /\ t.at \in {"understood", "asking"} /\ t.query = q
            BY <2>1, <2>4, <3>1 DEF Stage
        <3> QED BY <1>2, <2>2, <3>2
    <2> QED BY <2>3, <2>4
<1>5. ASSUME NEW answer, AiAnswers(r, answer) PROVE ReadsAnswers(req[r])'
    <2>1. PICK known, intent, asked : Answered(r, known, intent, answer, asked)
        BY <1>5 DEF AiAnswers
    <2>2. req[r].at \in Early /\ InFlight(req[r]) /\ req[r].query \in Query
        BY <1>5 DEF AiAnswers, Early, InFlight, AnswersHeld, ReadsAnswers
    <2>3. Malformed(answer) => poisoned' = [poisoned EXCEPT ![req[r].query] = clock]
        BY <1>5 DEF AiAnswers
    <2>4. Malformed(answer) => poisoned'[req[r].query] = clock
        BY <2>2, <2>3 DEF AnswersHeld
    <2>5. Malformed(answer) => poisoned'[req[r].query] # Never
                               /\ req[r].began - poisoned'[req[r].query] < AiTtl
        BY <1>1, <1>3, <2>2, <2>4 DEF Recent, Never
    <2> QED BY <1>1, <2>1, <2>2, <2>5, AnsweredPoisons
<1>6. CASE AiFails(r)
    <2>1. PICK t : To(r, t) /\ t.at \in {"asking", "understood"} /\ t.query = req[r].query
        BY <1>6 DEF AiFails, Stage
    <2>2. req[r].query \in Query
        BY <1>6 DEF AiFails, AnswersHeld, ReadsAnswers, Early
    <2> QED BY <1>2, <2>1, <2>2
<1>7. CASE Lookup(r)
    <2>1. PICK t : To(r, t) /\ t.at \in {"retrieving", "answering"}
        BY <1>7 DEF Lookup, Answer
    <2> QED BY <1>2, <2>1 DEF Early
<1>8. ASSUME NEW ok \in BOOLEAN, Retrieve(r, ok) \/ Suggest(r, ok) PROVE ReadsAnswers(req[r])'
    <2>1. CASE Retrieve(r, ok)
        <3>1. PICK t : To(r, t) /\ t.at = "ranking"
            BY <2>1 DEF Retrieve
        <3> QED BY <1>2, <3>1 DEF Early
    <2>2. CASE Suggest(r, ok)
        <3>1. PICK t : To(r, t) /\ t.at = "suggested"
            BY <2>2 DEF Suggest
        <3> QED BY <1>2, <3>1 DEF Early
    <2> QED BY <1>8, <2>1, <2>2
<1>9. CASE Rank(r)
    <2>1. \/ Fail(r, "weights", NoMerchant)
          \/ \E page : Answer(r, req[r].filters, page)
        BY <1>9, RankMoves
    <2>2. CASE Fail(r, "weights", NoMerchant)
        <3>1. PICK t : To(r, t) /\ t.at = "failed" /\ t.why = "weights" /\ t.began = req[r].began
            BY <2>2 DEF Fail
        <3> QED BY <1>2, <1>3, <1>9, <3>1 DEF Early, Rank, InFlight, Recent
    <2>3. CASE \E page : Answer(r, req[r].filters, page)
        <3>1. PICK t : To(r, t) /\ t.at = "answering"
            BY <2>3 DEF Answer
        <3> QED BY <1>2, <3>1 DEF Early
    <2> QED BY <2>1, <2>2, <2>3
<1>10. CASE Record(r)
    <2>1. PICK t : /\ To(r, t)
                   /\ t.at = "done" \/ (t.at = "failed" /\ t.why = "record" /\ t.began = req[r].began)
        BY <1>10 DEF Record, Fail
    <2> QED BY <1>2, <1>3, <1>10, <2>1 DEF Early, Record, InFlight, Recent
<1>11. CASE CutShort(r)
    BY <1>2, <1>11 DEF CutShort, Aborted, Early
<1> QED BY <1>4, <1>5, <1>6, <1>7, <1>8, <1>9, <1>10, <1>11 DEF Work

LEMMA AnswersStep ==
    ASSUME AskInv, Timely, AnswersHeld, [Next]_vars
    PROVE  AnswersHeld'
<1>1. AiTtl \in Nat \ {0} /\ clock \in Nat /\ SearchesWork
    BY SearchAssumption DEF Timely, AskInv
<1>2. ASSUME \A q \in DOMAIN cachedAnswers' : KeepsAnswer(q, cachedAnswers[q])',
             \A r \in Req : ReadsAnswers(req[r])'
      PROVE  AnswersHeld'
    BY <1>2, PoisonGrows DEF AnswersHeld
<1>3. UNCHANGED req => \A r \in Req : ReadsAnswers(req[r])'
    BY ReadsAnswersStays
<1>4. ASSUME NEW q \in DOMAIN cachedAnswers, UNCHANGED clock, cachedAnswers'[q] = cachedAnswers[q]
      PROVE  KeepsAnswer(q, cachedAnswers[q])'
    <2>1. PICK kept : kept = cachedAnswers[q] /\ KeepsAnswer(q, kept)
        BY DEF AnswersHeld
    <2>2. KeepsAnswer(q, kept)'
        BY <1>4, <2>1, KeptStays
    <2> QED BY <1>4, <2>1, <2>2
<1>5. ASSUME UNCHANGED <<clock, cachedAnswers>>
      PROVE  \A q \in DOMAIN cachedAnswers' : KeepsAnswer(q, cachedAnswers[q])'
    BY <1>4, <1>5
<1>6. ASSUME NEW r \in Req, Work(r) PROVE AnswersHeld'
    <2>1. ReadsAnswers(req[r])'
        BY <1>6, WorkReadsAnswers
    <2>2. \A q \in Req : q # r => req'[q] = req[q]
        BY <1>1, <1>6, WorkCarries
    <2>3. \A q \in Req : ReadsAnswers(req[q])'
        BY <2>1, <2>2, ReadsAnswersStays, SMTT(40)
    <2>4. UNCHANGED clock
        BY <1>6 DEF Work, Understand, AiAnswers, AiFails, Lookup, Retrieve, Rank, Record, CutShort, Suggest
    <2>5. CASE UNCHANGED cachedAnswers
        BY <1>2, <1>5, <2>3, <2>4, <2>5
    <2>6. ASSUME NEW answer \in Answers[req[r].query], AiAnswers(r, answer) PROVE AnswersHeld'
        <3>1. PICK q \in Query : /\ q = req[r].query /\ AnswerKept(q, answer)
            BY <2>6 DEF AiAnswers, AnswersHeld, ReadsAnswers, Early
        <3>2. CASE UNCHANGED cachedAnswers
            BY <2>5, <3>2
        <3>3. CASE cachedAnswers' = Keep(cachedAnswers, q, Kept(answer))
            <4>1. Malformed(answer) => poisoned'[q] = clock
                BY <2>6, <3>1 DEF AiAnswers, AnswersHeld
            <4>2. PICK kept : kept = [answer |-> answer, until |-> clock + AiTtl]
                OBVIOUS
            <4>3. KeepsAnswer(q, kept)'
                BY <1>1, <2>4, <2>6, <3>1, <4>1, <4>2 DEF KeepsAnswer, Never
            <4>4. KeepsAnswer(q, cachedAnswers[q])' /\ cachedAnswers'[q] = kept
                BY <3>3, <4>2, <4>3 DEF Keep, Kept
            <4>5. \A k \in DOMAIN cachedAnswers' : k # q =>
                    k \in DOMAIN cachedAnswers /\ cachedAnswers'[k] = cachedAnswers[k]
                BY <3>3, SMTT(40) DEF Keep
            <4> QED BY <1>2, <1>4, <2>3, <2>4, <4>4, <4>5
        <3> QED BY <3>1, <3>2, <3>3 DEF AnswerKept
    <2>7. UNCHANGED cachedAnswers \/ \E answer \in Answers[req[r].query] : AiAnswers(r, answer)
        BY <1>6 DEF Work, Understand, AiFails, Lookup, Retrieve, Rank, Record, CutShort, Suggest,
                    redis
    <2> QED BY <2>5, <2>6, <2>7
<1>7. ASSUME NEW r \in Req, NEW q \in Query, NEW ai \in UseAi[r], Begin(r, q, ai) PROVE AnswersHeld'
    <2>1. /\ req'[r].at = "begun" /\ req'[r].query = q
          /\ \A p \in Req : p # r => req'[p] = req[p]
        BY <1>1, <1>7, BeginStarts
    <2>2. ReadsAnswers(req[r])'
        BY <2>1 DEF ReadsAnswers, Early
    <2>3. \A p \in Req : ReadsAnswers(req[p])'
        BY <2>1, <2>2, ReadsAnswersStays
    <2> QED BY <1>2, <1>5, <1>7, <2>3 DEF Begin, redis
<1>8. ASSUME \/ \E s \in Setting, deleted \in BOOLEAN : EditWeights(s, deleted)
             \/ \E p \in Desk : \/ \E m \in Merchant : EditMerchant(p, m)
                                \/ \E chain \in Chains : EditProviders(p, chain)
      PROVE  AnswersHeld'
    BY <1>2, <1>3, <1>5, <1>8 DEF EditWeights, EditMerchant, EditProviders, Edit
<1>9. ASSUME \/ \E p \in Process : RefreshRouter(p)
             \/ Commit \/ Abort \/ (\E c \in Coupon : IndexChanges(c)) \/ UNCHANGED vars
      PROVE  AnswersHeld'
    BY <1>2, <1>3, <1>5, <1>9 DEF RefreshRouter, Commit, Abort, IndexChanges, vars, redis
<1>10. CASE Tick
    <2>1. UNCHANGED req /\ cachedAnswers' = Alive(cachedAnswers)
        BY <1>10 DEF Tick
    <2>2. ASSUME NEW q \in DOMAIN cachedAnswers' PROVE KeepsAnswer(q, cachedAnswers[q])'
        <3>1. PICK kept : /\ kept = cachedAnswers[q] /\ KeepsAnswer(q, kept)
                          /\ kept.until > clock + 1 /\ cachedAnswers'[q] = kept
            BY <2>1 DEF Alive, Restrict, AnswersHeld
        <3>2. KeepsAnswer(q, kept)'
            BY <3>1, KeptStays
        <3> QED BY <3>1, <3>2
    <2> QED BY <1>2, <1>3, <2>1, <2>2
<1> QED BY <1>6, <1>7, <1>8, <1>9, <1>10 DEF Next

LEMMA KnowledgeHeld == Spec => [](AskInv /\ Timely /\ MerchantsHeld /\ AnswersHeld)
<1>1. Init => AskInv /\ Timely /\ MerchantsHeld /\ AnswersHeld
    BY AskInvInit, TimelyInit, MerchantsInit, AnswersInit
<1>2. AskInv /\ Timely /\ MerchantsHeld /\ AnswersHeld /\ [Next]_vars
      => AskInv' /\ Timely' /\ MerchantsHeld' /\ AnswersHeld'
    BY AskInvStep, TimelyStep, MerchantsStep, AnswersStep
<1> QED BY <1>1, <1>2, PTL DEF Spec

(* What a search takes for the merchants, and what is suggested, disagrees *)
(* with the database only about changes that are in flight or were made,   *)
(* or rolled back, within the life of an index and of the transaction that *)
(* built it: get_alias_index and build_alias_index of                      *)
(* services/merchant_service.py, although an administrator's process       *)
(* builds its index from what is not committed yet.                        *)
THEOREM AliasesAreRecent == Spec => []AliasIndexIsRecent
<1>1. Timely /\ MerchantsHeld => AliasIndexIsRecent
    <2> SUFFICES ASSUME Timely, MerchantsHeld, NEW r \in Req, NEW m \in Disputed(r)
                 PROVE  \/ edit.at = "open" /\ edit.kind = "merchant" /\ edit.value = m
                        \/ changed[m] # Never /\ req[r].began - changed[m] <= AliasTtl + MaxRequest
        BY DEF AliasIndexIsRecent
    <2>1. AliasTtl \in Nat /\ MaxRequest \in Nat
        BY SearchAssumption
    <2>2. m \in Merchant /\ Changes(m, req[r].began - Life) /\ req[r].began \in Nat
        BY DEF Disputed, MerchantsHeld, ReadsMerchants, Agrees, SymDiff, Timely, InFlight, Recent
    <2>3. changed[m] \in Int
        BY <2>2 DEF MerchantsHeld
    <2> QED BY <2>1, <2>2, <2>3 DEF Changes, Life
<1> QED BY <1>1, KnowledgeHeld, PTL

(* Bad data wears off: an answer that makes a search fail was given no     *)
(* longer ago than answers are kept, and the merchant for whose absence a  *)
(* search fails was rolled back no longer ago than an index lives:         *)
(* understand_query and the recording of a search in search/service.py,    *)
(* however many searches are cut short besides.                            *)
THEOREM BadDataIsForgotten == Spec => []BadDataWearsOff
<1>1. MerchantsHeld /\ AnswersHeld => BadDataWearsOff
    <2> SUFFICES ASSUME MerchantsHeld, AnswersHeld, NEW r \in Req, req[r].at = "failed"
                 PROVE  /\ req[r].why = "record" =>
                              /\ req[r].merchant \in Merchant /\ changed[req[r].merchant] # Never
                              /\ req[r].began - changed[req[r].merchant] <= AliasTtl + MaxRequest
                        /\ req[r].why = "answer" =>
                              /\ poisoned[req[r].query] # Never
                              /\ req[r].began - poisoned[req[r].query] < AiTtl
        BY DEF BadDataWearsOff
    <2>1. AliasTtl \in Nat /\ MaxRequest \in Nat /\ req[r].began \in Nat
        BY SearchAssumption DEF AnswersHeld, ReadsAnswers
    <2>2. CASE req[r].why = "record"
        <3>1. PICK m \in Merchant : m = req[r].merchant /\ changed[m] # Never
                                    /\ req[r].began - Life <= changed[m] /\ changed[m] \in Int
            BY <2>2 DEF MerchantsHeld, ReadsMerchants
        <3> QED BY <2>1, <2>2, <3>1 DEF Life
    <2>3. CASE req[r].why # "record"
        BY <2>3 DEF AnswersHeld, ReadsAnswers
    <2> QED BY <2>2, <2>3
<1> QED BY <1>1, KnowledgeHeld, PTL

----------------------------------------------------------------------------
(* Typing errors.  What a search took for the merchant before it asked a   *)
(* provider is what the query resolved to with the merchants it knows, so  *)
(* that a misspelled word has found one; a cached answer that names none   *)
(* does not take it away.                                                  *)

Forgives(t) ==
    /\ t.at \in {"asking", "understood"} /\ t.asked = << >>
    /\ Misspells(Typed[t.query].words, t.known)
    => t.intent.merchant # NoMerchant

LEMMA ForgivesAsResolved ==
    ASSUME NEW t, NEW known \in SUBSET Merchant, NEW q \in Query, NEW m,
           m \in Resolve(known, Typed[q]), t.known = known, t.query = q,
           m # NoMerchant => t.intent.merchant # NoMerchant
    PROVE  Forgives(t)
<1> SUFFICES ASSUME Misspells(Typed[q].words, known) PROVE t.intent.merchant # NoMerchant
    BY DEF Forgives
<1>1. Typed[q].words \in Seq(Word)
    BY SearchAssumption
<1>2. NoMerchant \notin Resolve(known, Typed[q])
    BY <1>1, MisspelledWordsResolve
<1> QED BY <1>2

LEMMA UnderstandForgives ==
    ASSUME AskInv, Timely, MerchantsHeld, AnswersHeld, NEW r \in Req, Understand(r)
    PROVE  Forgives(req'[r])
<1> DEFINE q == req[r].query
           chain == IF req[r].ai THEN router[On[r]] ELSE << >>
           at == IF chain = << >> THEN "understood" ELSE "asking"
<1>1. PICK ix, m :
        /\ ix = AliasIndex(On[r], req[r].view) /\ m \in Resolve(ix.known, Typed[q])
        /\ IF req[r].ai /\ AnswerOf(q) # NoAnswer
           THEN Answered(r, ix.known, Heuristic(q, m), AnswerOf(q), << >>)
           ELSE To(r, Stage(r, at, Heuristic(q, m), ix.known, chain, << >>))
    BY DEF Understand
<1>2. req[r].at \in Early /\ q \in Query /\ SearchesWork /\ On[r] \in Process
    BY SearchAssumption DEF Understand, Early, AnswersHeld, ReadsAnswers, AskInv
<1>3. Agrees(req[r].view.merchants, req[r].began) /\ Recent(req[r].began)
    BY <1>2 DEF MerchantsHeld, ReadsMerchants, Timely, InFlight, Early
<1>4. ix.known \in SUBSET Merchant
    BY <1>1, <1>2, <1>3, AliasIndexAgrees DEF Agrees
<1>5. CASE req[r].ai /\ AnswerOf(q) # NoAnswer /\ Malformed(AnswerOf(q))
    <2>1. PICK t : To(r, t) /\ t.at = "failed"
        BY <1>1, <1>5 DEF Answered, Fail
    <2>2. Forgives(t)
        BY <2>1 DEF Forgives
    <2> QED BY <1>2, <2>1, <2>2, Moves
<1>6. CASE req[r].ai /\ AnswerOf(q) # NoAnswer /\ ~Malformed(AnswerOf(q))
    <2>1. PICK i \in Merged(ix.known, Heuristic(q, m), AnswerOf(q)) :
            To(r, Stage(r, "understood", i, ix.known, << >>, << >>))
        BY <1>1, <1>6 DEF Answered
    <2>2. PICK n : i.merchant = IF n = NoMerchant THEN Heuristic(q, m).merchant ELSE n
        BY <2>1 DEF Merged
    <2> DEFINE t == Stage(r, "understood", i, ix.known, << >>, << >>)
    <2>3. t.known = ix.known /\ t.query = q /\ t.intent = i
        BY DEF Stage
    <2> HIDE DEF t
    <2>4. m # NoMerchant => t.intent.merchant # NoMerchant
        BY <2>2, <2>3 DEF Heuristic
    <2>5. Forgives(t)
        BY <1>1, <1>2, <1>4, <2>3, <2>4, ForgivesAsResolved
    <2> QED BY <1>2, <2>1, <2>5, Moves DEF t
<1>7. CASE ~(req[r].ai /\ AnswerOf(q) # NoAnswer)
    <2> DEFINE t == Stage(r, at, Heuristic(q, m), ix.known, chain, << >>)
    <2>1. t.known = ix.known /\ t.query = q /\ t.intent.merchant = m
        BY DEF Stage, Heuristic
    <2> HIDE DEF t
    <2>2. Forgives(t)
        BY <1>1, <1>2, <1>4, <2>1, ForgivesAsResolved
    <2> QED BY <1>1, <1>2, <1>7, <2>2, Moves DEF t
<1> QED BY <1>5, <1>6, <1>7

(* Once a provider is asked, it is no longer empty what was asked.         *)
LEMMA AskingForgives ==
    ASSUME AskInv, NEW r \in Req, NEW answer, AiAnswers(r, answer) \/ AiFails(r)
    PROVE  Forgives(req'[r])
<1> DEFINE asked == Append(req[r].asked, NextProvider(r))
<1>1. req[r].at = "asking" /\ SearchesWork
    BY DEF AiAnswers, AiFails, AskInv
<1>2. asked # << >>
    <2>1. req[r].asked \in Seq(Provider) /\ Len(req[r].asked) \in Nat
        BY <1>1 DEF SearchesWork, Works, Early
    <2>2. asked \in Seq(Provider) /\ Len(asked) = Len(req[r].asked) + 1
        BY <1>1, AskedGrows
    <2> HIDE DEF asked
    <2>3. Len(asked) # Len(<< >>)
        BY <2>1, <2>2, EmptyChain
    <2> QED BY <2>3
<1> HIDE DEF asked
<1>3. \E t : To(r, t) /\ (t.at = "failed" \/ t.asked = asked)
    <2>1. CASE AiFails(r)
        BY <2>1 DEF AiFails, Stage, asked
    <2>2. CASE AiAnswers(r, answer)
        <3>1. Answered(r, AliasIndex(On[r], req[r].view).known, req[r].intent, answer, asked)
            BY <2>2 DEF AiAnswers, asked
        <3>2. CASE Malformed(answer)
            BY <3>1, <3>2 DEF Answered, Fail
        <3>3. CASE ~Malformed(answer)
            <4>1. PICK known, i : To(r, Stage(r, "understood", i, known, << >>, asked))
                BY <3>1, <3>3 DEF Answered
            <4>2. Stage(r, "understood", i, known, << >>, asked).asked = asked
                BY DEF Stage
            <4> QED BY <4>1, <4>2
        <3> QED BY <3>2, <3>3
    <2> QED BY <2>1, <2>2
<1>4. PICK t : To(r, t) /\ (t.at = "failed" \/ t.asked = asked)
    BY <1>3
<1>5. Forgives(t)
    BY <1>2, <1>4 DEF Forgives
<1> QED BY <1>1, <1>4, <1>5, Moves

LEMMA ForgivesStep ==
    ASSUME AskInv, Timely, MerchantsHeld, AnswersHeld, TypingErrorsAreForgiven, [Next]_vars
    PROVE  TypingErrorsAreForgiven'
<1> SUFFICES ASSUME NEW r \in Req PROVE Forgives(req'[r])
    BY DEF TypingErrorsAreForgiven, Forgives
<1>1. Forgives(req[r])
    BY DEF TypingErrorsAreForgiven, Forgives
<1>2. SearchesWork
    BY DEF AskInv
<1>3. ASSUME req'[r] = req[r] PROVE Forgives(req'[r])
    BY <1>1, <1>3
<1>4. ASSUME NEW q \in Req, Work(q) PROVE Forgives(req'[r])
    <2>1. CASE q # r
        BY <1>2, <1>3, <1>4, <2>1, WorkCarries
    <2>2. CASE q = r
        <3>1. CASE Understand(r)
            BY <3>1, UnderstandForgives
        <3>2. CASE AiFails(r) \/ \E answer \in UNION {Answers[x] : x \in Query} : AiAnswers(r, answer)
            BY <3>2, AskingForgives
        <3>3. CASE \/ Lookup(r) \/ Rank(r) \/ Record(r) \/ CutShort(r)
                   \/ \E ok \in BOOLEAN : Retrieve(r, ok) \/ Suggest(r, ok)
            <4>1. PICK t : To(r, t) /\ t.at \in Left
                BY <3>3, LateStepsLeave
            <4>2. Forgives(t)
                BY <4>1 DEF Forgives, Left
            <4> QED BY <1>2, <4>1, <4>2, Moves
        <3> QED BY <1>4, <2>2, <3>1, <3>2, <3>3 DEF Work
    <2> QED BY <2>1, <2>2
<1>5. ASSUME NEW q \in Req, NEW x \in Query, NEW ai \in UseAi[q], Begin(q, x, ai)
      PROVE  Forgives(req'[r])
    <2>1. req'[r].at = "begun" \/ req'[r] = req[r]
        BY <1>2, <1>5, BeginStarts
    <2> QED BY <1>3, <2>1 DEF Forgives
<1>6. CASE UNCHANGED req
    BY <1>3, <1>6
<1>7. \/ \E q \in Req : Work(q) \/ \E x \in Query, ai \in UseAi[q] : Begin(q, x, ai)
      \/ UNCHANGED req
    BY DEF Next, EditWeights, EditMerchant, EditProviders, Edit, RefreshRouter, Commit, Abort,
           IndexChanges, Tick, vars
<1> QED BY <1>4, <1>5, <1>6, <1>7

(* A word that is in the alias index with full weight but for a letter     *)
(* more, less or other, or two in the wrong order, and that has four       *)
(* letters at least, finds a merchant, whatever is cached of an AI's       *)
(* answer: resolve_merchant of services/merchant_service.py, levenshtein   *)
(* of utils/text.py and understand_query of search/understanding.py.       *)
THEOREM TypingErrors == Spec => []TypingErrorsAreForgiven
<1>1. Init => TypingErrorsAreForgiven
    BY DEF Init, TypingErrorsAreForgiven, Idle
<1>2. AskInv /\ Timely /\ MerchantsHeld /\ AnswersHeld /\ TypingErrorsAreForgiven /\ [Next]_vars
      => TypingErrorsAreForgiven'
    BY ForgivesStep
<1> QED BY <1>1, <1>2, KnowledgeHeld, PTL DEF Spec

----------------------------------------------------------------------------
(* The beginning of a sorted sequence: as many as there is room for, and   *)
(* what is left out does not come before any of them.                      *)

LEMMA ListsAll ==
    ASSUME NEW S, IsFiniteSet(S), NEW o \in SetToSeqs(S), NEW x \in S
    PROVE  \E i \in 1 .. Cardinality(S) : o[i] = x
<1> DEFINE size == Cardinality(S)
<1>1. size \in Nat
    BY FS_CardinalityType
<1>2. o \in [1 .. size -> S] /\ \A i, j \in 1 .. size : i # j => o[i] # o[j]
    BY DEF SetToSeqs
<1>3. Cardinality(1 .. size) = size
    BY <1>1, FS_Interval
<1> HIDE DEF size
<1>4. o \in Injection(1 .. size, S)
    BY <1>2 DEF Injection, IsInjective
<1>5. o \in Surjection(1 .. size, S)
    BY <1>3, <1>4, FS_Injection DEF size
<1> QED BY <1>5 DEF Surjection, size

LEMMA LeadingSize ==
    ASSUME NEW S, IsFiniteSet(S), NEW n \in Nat, NEW o \in SetToSeqs(S)
    PROVE  Cardinality(ToSet(Leading(n, o))) = Lower(n, Cardinality(S))
<1> DEFINE low == Lower(n, Cardinality(S))
           T == ToSet(Leading(n, o))
           l == [i \in 1 .. low |-> o[i]]
<1>1. Cardinality(S) \in Nat
    BY FS_CardinalityType
<1>2. low \in Nat /\ low <= Cardinality(S)
    BY <1>1 DEF Lower
<1>3. T = {o[i] : i \in 1 .. low}
    BY LeadingSet
<1>4. \A i, j \in 1 .. low : i # j => o[i] # o[j]
    <2>1. Len(o) = Cardinality(S) /\ \A i, j \in 1 .. Len(o) : i # j => o[i] # o[j]
        BY LeadingIsOf
    <2> HIDE DEF low
    <2> QED BY <1>1, <1>2, <2>1
<1> HIDE DEF low, T
<1>5. l \in Surjection(1 .. low, T)
    BY <1>3 DEF Surjection
<1>6. l \in Injection(1 .. low, T)
    <2>1. l \in [1 .. low -> T] /\ \A i, j \in 1 .. low : i # j => l[i] # l[j]
        BY <1>4, <1>5 DEF Surjection
    <2> HIDE DEF l
    <2> QED BY <2>1 DEF Injection, IsInjective
<1>7. IsFiniteSet(1 .. low) /\ Cardinality(1 .. low) = low
    BY <1>2, FS_Interval
<1> HIDE DEF l
<1>8. Cardinality(T) = low
    BY <1>5, <1>6, <1>7, FS_Surjection
<1> QED BY <1>8 DEF low, T

LEMMA LeftOut ==
    ASSUME NEW S, IsFiniteSet(S), NEW n \in Nat, NEW o \in SetToSeqs(S),
           NEW c \in S, c \notin ToSet(Leading(n, o))
    PROVE  /\ Len(Leading(n, o)) = n /\ Cardinality(ToSet(Leading(n, o))) = n
           /\ \A d \in ToSet(Leading(n, o)) : \E i, j \in DOMAIN o : i < j /\ o[i] = d /\ o[j] = c
<1> DEFINE size == Cardinality(S)
           low == Lower(n, size)
<1>1. size \in Nat
    BY FS_CardinalityType
<1>2. PICK j \in 1 .. size : o[j] = c
    BY ListsAll
<1>3. ToSet(Leading(n, o)) = {o[i] : i \in 1 .. low}
    BY LeadingSet
<1>4. DOMAIN o = 1 .. size
    BY DEF SetToSeqs
<1> HIDE DEF size
<1>5. low \in Nat /\ low < j /\ low = n
    BY <1>1, <1>2, <1>3 DEF Lower
<1>6. Len(Leading(n, o)) = low /\ Cardinality(ToSet(Leading(n, o))) = low
    BY LeadingIsOf, LeadingSize DEF size
<1>7. ASSUME NEW d \in ToSet(Leading(n, o))
      PROVE  \E i, k \in DOMAIN o : i < k /\ o[i] = d /\ o[k] = c
    <2>1. PICK i \in 1 .. low : o[i] = d
        BY <1>3, <1>7
    <2>2. i \in 1 .. size /\ i < j
        BY <1>1, <1>2, <1>5, <2>1
    <2> QED BY <1>2, <1>4, <2>1, <2>2
<1> QED BY <1>5, <1>6, <1>7

----------------------------------------------------------------------------
(* A document that comes or goes does so after every search that has       *)
(* looked already.                                                         *)

LEMMA DocumentsStay ==
    ASSUME Timely, MerchantsHeld, [Next]_vars, NEW c \in Coupon, NEW t \in Nat, t <= clock
    PROVE  /\ c \in docs \/ Since(c, t) => (c \in docs \/ Since(c, t))'
           /\ c \in docs' /\ ~Since(c, t)' => c \in docs /\ ~Since(c, t)
<1>1. clock \in Nat /\ changed[c] \in Int
    BY DEF Timely, MerchantsHeld
<1>2. Since(c, t) => Since(c, t)'
    <2>1. changed'[c] = changed[c] \/ changed'[c] = clock
        BY Frame DEF MerchantsHeld, Commit, Abort, IndexChanges
    <2> QED BY <1>1, <2>1 DEF Since
<1>3. (c \in docs' <=> c \in docs) \/ Since(c, t)'
    <2>1. CASE UNCHANGED docs
        BY <2>1
    <2>2. CASE \E d \in Coupon : IndexChanges(d)
        <3>1. PICK d \in Coupon : docs' = SymDiff(docs, {d}) /\ changed' = [changed EXCEPT ![d] = clock]
            BY <2>2 DEF IndexChanges
        <3>2. CASE c = d
            BY <3>1, <3>2 DEF MerchantsHeld, Since
        <3>3. CASE c # d
            BY <3>1, <3>3 DEF SymDiff
        <3> QED BY <3>2, <3>3
    <2> QED BY <2>1, <2>2, Frame
<1> QED BY <1>2, <1>3

LEMMA FitsStays ==
    ASSUME Timely, MerchantsHeld, [Next]_vars, NEW S, NEW f, f.at \in Nat, f.at <= clock, Fits(S, f)
    PROVE  Fits(S, f)'
<1>1. \A c \in S : c \in Coupon /\ Matches(c, f) /\ (c \in docs \/ Since(c, f.at))
    BY DEF Fits
<1>2. \A c \in S : (c \in docs \/ Since(c, f.at))'
    BY <1>1, DocumentsStay
<1> QED BY <1>1, <1>2 DEF Fits, Matches

LEMMA CrowdedStays ==
    ASSUME Timely, MerchantsHeld, [Next]_vars, NEW S, NEW f, f.at \in Nat, f.at <= clock,
           NEW c, Crowded(c, f, S)
    PROVE  Crowded(c, f, S)'
<1>1. Others(c, f) \subseteq Others(c, f)'
    <2>1. \A d \in Coupon : d \in docs \/ Since(d, f.at) => (d \in docs \/ Since(d, f.at))'
        BY DocumentsStay
    <2> QED BY <2>1 DEF Others, Ahead, Matches
<1>2. IsFiniteSet(Others(c, f)')
    <2>1. Others(c, f)' \in SUBSET Coupon
        BY DEF Others
    <2> QED BY <2>1, SearchAssumption, FS_Subset
<1>3. /\ Cardinality(Others(c, f)) \in Nat /\ Cardinality(Others(c, f)') \in Nat
      /\ Cardinality(Others(c, f)) <= Cardinality(Others(c, f)')
    BY <1>1, <1>2, FS_Subset, FS_CardinalityType
<1>4. Fetched \in Nat
    BY SearchAssumption DEF Fetched
<1> QED BY <1>3, <1>4 DEF Crowded, Fetched, Ahead

LEMMA MissingWas ==
    ASSUME Timely, MerchantsHeld, [Next]_vars, NEW S, NEW f, f.at \in Nat, f.at <= clock,
           NEW c \in Coupon, Missing(c, f, S)'
    PROVE  Missing(c, f, S)
BY DocumentsStay DEF Missing, Matches

LEMMA CollectedStays ==
    ASSUME Timely, MerchantsHeld, [Next]_vars, NEW S, NEW f, f.at \in Nat, f.at <= clock,
           Collected(S, f)
    PROVE  Collected(S, f)'
<1>1. Fits(S, f)'
    BY FitsStays DEF Collected
<1>2. \A c \in Coupon : Missing(c, f, S)' => Crowded(c, f, S)'
    BY MissingWas, CrowdedStays DEF Collected
<1> QED BY <1>1, <1>2 DEF Collected

LEMMA PresentedStays ==
    ASSUME Timely, MerchantsHeld, [Next]_vars, NEW page, NEW f, f.at \in Nat, f.at <= clock,
           Presented(page, f)
    PROVE  Presented(page, f)'
<1> DEFINE shown == ToSet(page.coupons)
<1>1. Fits(shown, f)'
    BY FitsStays DEF Presented
<1>2. \A c \in Coupon : Missing(c, f, shown)' => Missing(c, f, shown)
    BY MissingWas
<1>3. \A c \in Coupon : Crowded(c, f, shown) => Crowded(c, f, shown)'
    BY CrowdedStays
<1> QED BY <1>1, <1>2, <1>3 DEF Presented, Before, Ahead, Final

LEMMA LooksStays ==
    ASSUME Timely, MerchantsHeld, PagesHeld, [Next]_vars, NEW r \in Req, req'[r] = req[r]
    PROVE  Looks(req[r])'
<1>1. clock \in Nat /\ (clock' = clock \/ clock' = clock + 1)
    BY Frame DEF Timely, Tick
<1>2. PICK t : t = req[r] /\ Looks(t)
    BY DEF PagesHeld
<1>3. ASSUME t.at \in {"retrieving", "ranking", "answering", "done"}
      PROVE  t.filters.at \in Nat /\ t.filters.at <= clock /\ t.filters.at <= clock'
    BY <1>1, <1>2, <1>3 DEF Looks
<1>4. ASSUME t.at = "ranking"
      PROVE  Fits(t.hits, t.filters)' /\ (t.ok => Collected(t.hits, t.filters)')
    BY <1>2, <1>3, <1>4, FitsStays, CollectedStays DEF Looks
<1>5. ASSUME t.at \in {"answering", "done"} PROVE Presented(t.page, t.filters)'
    BY <1>2, <1>3, <1>5, PresentedStays DEF Looks
<1>6. Looks(t)'
    BY <1>3, <1>4, <1>5 DEF Looks
<1> QED BY <1>2, <1>6

----------------------------------------------------------------------------
(* What a search finds, and what it shows of that. *)

LEMMA PagesInit == Init => PagesHeld
<1> SUFFICES ASSUME Init PROVE PagesHeld
    OBVIOUS
<1>1. docs = Coupon /\ cachedPages = << >> /\ \A r \in Req : req[r] = Idle
    BY DEF Init
<1>2. \A r \in Req : Looks(req[r])
    BY <1>1 DEF Looks, Idle
<1> QED BY <1>1, <1>2 DEF PagesHeld

LEMMA FindsTheRelevant ==
    ASSUME PagesHeld, NEW f, NEW found \in ByRelevance(Found(f)), NEW hits,
           hits = ToSet(Leading(Fetched, found))
    PROVE  Collected(hits, f)
<1> DEFINE S == Found(f)
<1>1. IsFiniteSet(S) /\ S \subseteq Coupon /\ S \subseteq docs /\ \A c \in S : Matches(c, f)
    BY SearchAssumption, FS_Subset DEF Found, PagesHeld
<1>2. found \in SetToSeqs(S) /\ \A i, j \in DOMAIN found : i < j => ~Ahead(found[j], found[i])
    BY DEF ByRelevance
<1>3. Fetched \in Nat
    BY SearchAssumption DEF Fetched
<1> HIDE DEF S
<1>4. hits \subseteq S
    BY <1>1, <1>2, <1>3, LeadingIsOf DEF ToSet
<1>5. Fits(hits, f)
    BY <1>1, <1>4 DEF Fits
<1>6. ASSUME NEW c \in Coupon, Missing(c, f, hits) PROVE Crowded(c, f, hits)
    <2>1. c \in S /\ c \notin hits
        BY <1>6 DEF Missing, S, Found
    <2>2. Cardinality(hits) = Fetched
        BY <1>1, <1>2, <1>3, <2>1, LeftOut
    <2>3. \A d \in hits : ~Ahead(c, d)
        <3> TAKE d \in hits
        <3>1. PICK i, j \in DOMAIN found : i < j /\ found[i] = d /\ found[j] = c
            BY <1>1, <1>2, <1>3, <2>1, LeftOut
        <3> QED BY <1>2, <3>1
    <2>4. hits \subseteq Others(c, f)
        BY <1>1, <1>4, <2>1, <2>3 DEF Others
    <2>5. IsFiniteSet(Others(c, f))
        <3>1. Others(c, f) \in SUBSET Coupon
            BY DEF Others
        <3> QED BY <3>1, SearchAssumption, FS_Subset
    <2>6. Cardinality(Others(c, f)) \in Nat /\ Cardinality(hits) <= Cardinality(Others(c, f))
        BY <2>4, <2>5, FS_Subset, FS_CardinalityType
    <2> QED BY <1>3, <2>2, <2>3, <2>6 DEF Crowded
<1> QED BY <1>5, <1>6 DEF Collected

LEMMA ShowsTheBest ==
    ASSUME NEW f, NEW hits, Fits(hits, f), NEW s \in Setting, s \in Unusable => hits = {},
           NEW ok, ok => Collected(hits, f), NEW ranked \in ByScore(s, hits),
           NEW page, page = [coupons |-> Shown(ranked), by |-> s, ok |-> ok]
    PROVE  Presented(page, f)
<1> DEFINE shown == ToSet(page.coupons)
<1>1. IsFiniteSet(hits) /\ hits \subseteq Coupon
    <2>1. hits \in SUBSET Coupon
        BY DEF Fits
    <2> QED BY <2>1, SearchAssumption, FS_Subset
<1>2. /\ ranked \in SetToSeqs(hits)
      /\ \A i, j \in DOMAIN ranked : i < j => ~Before(s, ranked[j], ranked[i])
    BY DEF ByScore
<1>3. Limit \in Nat /\ page.coupons = Leading(Limit, ranked) /\ page.by = s /\ page.ok = ok
    BY SearchAssumption DEF Shown
<1>4. Cardinality(hits) \in Nat
    BY <1>1, FS_CardinalityType
<1>5. page.coupons \in Seq(hits) /\ Len(page.coupons) = Lower(Limit, Cardinality(hits))
    BY <1>1, <1>2, <1>3, LeadingIsOf
<1>6. page.coupons \in Seq(Coupon) /\ Len(page.coupons) <= Limit /\ shown \subseteq hits
    <2>1. page.coupons \in Seq(Coupon)
        BY <1>1, <1>5, SeqMonotonic
    <2>2. Len(page.coupons) <= Limit
        BY <1>3, <1>4, <1>5 DEF Lower
    <2>3. shown \subseteq hits
        BY <1>5 DEF ToSet
    <2> QED BY <2>1, <2>2, <2>3
<1>7. page.coupons # << >> => s \in Setting \ Unusable
    <2> SUFFICES ASSUME hits = {} PROVE page.coupons = << >>
        OBVIOUS
    <2>1. Cardinality(hits) = 0
        BY FS_EmptySet
    <2>2. Len(page.coupons) = 0
        BY <1>3, <1>5, <2>1 DEF Lower
    <2> QED BY <1>5, <2>2, EmptySeq
<1>8. Fits(shown, f)
    BY <1>6 DEF Fits
<1>9. ASSUME ok, NEW c \in Coupon, Missing(c, f, shown)
      PROVE  \/ Len(page.coupons) = Limit /\ \A d \in shown : ~Before(s, c, d)
             \/ Crowded(c, f, shown)
    <2>1. CASE c \notin hits
        <3>1. Missing(c, f, hits)
            BY <1>9, <2>1 DEF Missing
        <3> QED BY <1>6, <1>9, <3>1 DEF Collected, Crowded
    <2>2. CASE c \in hits
        <3>1. c \notin ToSet(Leading(Limit, ranked))
            BY <1>3, <1>9 DEF Missing
        <3>2. Len(page.coupons) = Limit
            BY <1>1, <1>2, <1>3, <2>2, <3>1, LeftOut
        <3>3. \A d \in shown : ~Before(s, c, d)
            <4> TAKE d \in shown
            <4>1. d \in ToSet(Leading(Limit, ranked))
                BY <1>3
            <4>2. PICK i, j \in DOMAIN ranked : i < j /\ ranked[i] = d /\ ranked[j] = c
                BY <1>1, <1>2, <1>3, <2>2, <3>1, <4>1, LeftOut
            <4> QED BY <1>2, <4>2
        <3> QED BY <3>2, <3>3
    <2> QED BY <2>1, <2>2
<1> HIDE DEF shown
<1> QED BY <1>3, <1>6, <1>7, <1>8, <1>9 DEF Presented, shown

LEMMA WorkLooks ==
    ASSUME AskInv, Timely, SettingsHeld, PagesHeld, NEW r \in Req, Work(r)
    PROVE  Looks(req'[r])
<1>1. SearchesWork /\ clock \in Nat
    BY DEF AskInv, Timely
<1>2. ASSUME NEW t, To(r, t), Looks(t) PROVE Looks(req'[r])
    BY <1>1, <1>2, Moves
<1>3. ASSUME NEW t, To(r, t), t.at \in {"asking", "understood", "failed", "aborted", "suggested"}
      PROVE  Looks(req'[r])
    BY <1>2, <1>3 DEF Looks
<1>4. ASSUME NEW known, NEW intent, NEW answer, NEW asked, Answered(r, known, intent, answer, asked)
      PROVE  Looks(req'[r])
    <2>1. CASE Malformed(answer)
        <3>1. PICK t : To(r, t) /\ t.at = "failed"
            BY <1>4, <2>1 DEF Answered, Fail
        <3> QED BY <1>3, <3>1
    <2>2. CASE ~Malformed(answer)
        <3>1. PICK i : To(r, Stage(r, "understood", i, known, << >>, asked))
            BY <1>4, <2>2 DEF Answered
        <3>2. PICK t : To(r, t) /\ t.at = "understood"
            BY <3>1 DEF Stage
        <3> QED BY <1>3, <3>2
    <2> QED BY <2>1, <2>2
<1>5. CASE Understand(r)
    <2> DEFINE chain == IF req[r].ai THEN router[On[r]] ELSE << >>
               at == IF chain = << >> THEN "understood" ELSE "asking"
    <2>1. PICK known, intent :
            IF req[r].ai /\ AnswerOf(req[r].query) # NoAnswer
            THEN Answered(r, known, intent, AnswerOf(req[r].query), << >>)
            ELSE To(r, Stage(r, at, intent, known, chain, << >>))
        BY <1>5 DEF Understand
    <2>2. at \in {"understood", "asking"}
        OBVIOUS
    <2> HIDE DEF at, chain
    <2>3. CASE ~(req[r].ai /\ AnswerOf(req[r].query) # NoAnswer)
        <3>1. PICK t : To(r, t) /\ t.at \in {"understood", "asking"}
            BY <2>1, <2>2, <2>3 DEF Stage
        <3> QED BY <1>3, <3>1
    <2> QED BY <1>4, <2>1, <2>3
<1>6. ASSUME NEW answer, AiAnswers(r, answer) PROVE Looks(req'[r])
    BY <1>4, <1>6 DEF AiAnswers
<1>7. CASE AiFails(r)
    <2>1. PICK t : To(r, t) /\ t.at \in {"asking", "understood"}
        BY <1>7 DEF AiFails, Stage
    <2> QED BY <1>3, <2>1
<1>8. CASE Lookup(r)
    <2> DEFINE f == Filters(req[r].intent)
               key == Key(req[r].intent.text, f)
    <2>1. f.at = clock /\ key[2] = f
        BY DEF Filters, Key
    <2>2. CASE key \in DOMAIN cachedPages
        <3>1. PICK t : To(r, t) /\ t.at = "answering" /\ t.filters = f /\ t.page = cachedPages[key].page
            BY <1>8, <2>2 DEF Lookup, Answer
        <3>2. KeepsPage(key[2], cachedPages[key].page)
            BY <2>2 DEF PagesHeld
        <3> HIDE DEF f, key
        <3>3. Looks(t)
            BY <2>1, <3>1, <3>2 DEF Looks, KeepsPage
        <3> QED BY <1>2, <3>1, <3>3
    <2>3. CASE key \notin DOMAIN cachedPages
        <3>1. PICK t : To(r, t) /\ t.at = "retrieving" /\ t.filters = f
            BY <1>8, <2>3 DEF Lookup
        <3>2. Looks(t)
            BY <1>1, <2>1, <3>1 DEF Looks
        <3> QED BY <1>2, <3>1, <3>2
    <2> QED BY <2>2, <2>3
<1>9. ASSUME NEW ok \in BOOLEAN, Retrieve(r, ok) PROVE Looks(req'[r])
    <2>1. PICK found, t :
            /\ found \in ByRelevance(Found(req[r].filters))
            /\ To(r, t) /\ t.at = "ranking" /\ t.filters = req[r].filters /\ t.ok = ok
            /\ t.hits = IF ok THEN ToSet(Leading(Fetched, found)) ELSE {}
        BY <1>9 DEF Retrieve
    <2>2. ok => Collected(t.hits, t.filters)
        BY <2>1, FindsTheRelevant
    <2>3. Fits(t.hits, t.filters)
        BY <2>1, <2>2 DEF Fits, Collected
    <2>4. t.filters.at \in Nat /\ t.filters.at <= clock
        BY <1>9, <2>1 DEF Retrieve, PagesHeld, Looks
    <2>5. Looks(t)
        BY <2>1, <2>2, <2>3, <2>4 DEF Looks
    <2> QED BY <1>2, <2>1, <2>5
<1>10. CASE Rank(r)
    <2>1. PICK s \in Setting, kept \in BOOLEAN : RankBy(r, s, kept)
        BY <1>10, RankReads
    <2>2. \/ Fail(r, "weights", NoMerchant)
          \/ /\ s \in Unusable => req[r].hits = {}
             /\ \E page \in Pages(r, s) : Answer(r, req[r].filters, page)
        BY <2>1 DEF RankBy
    <2>3. CASE Fail(r, "weights", NoMerchant)
        BY <1>3, <2>3 DEF Fail
    <2>4. ASSUME s \in Unusable => req[r].hits = {}, NEW page \in Pages(r, s), Answer(r, req[r].filters, page)
          PROVE  Looks(req'[r])
        <3>1. PICK ranked \in ByScore(s, req[r].hits) :
                page = [coupons |-> Shown(ranked), by |-> s, ok |-> req[r].ok]
            BY <2>4 DEF Pages
        <3>2. /\ Fits(req[r].hits, req[r].filters) /\ (req[r].ok => Collected(req[r].hits, req[r].filters))
              /\ req[r].filters.at \in Nat /\ req[r].filters.at <= clock
            BY <1>10 DEF Rank, PagesHeld, Looks
        <3>3. Presented(page, req[r].filters)
            BY <2>1, <2>4, <3>1, <3>2, ShowsTheBest
        <3>4. PICK t : To(r, t) /\ t.at = "answering" /\ t.filters = req[r].filters /\ t.page = page
            BY <2>4 DEF Answer
        <3>5. Looks(t)
            BY <3>2, <3>3, <3>4 DEF Looks
        <3> QED BY <1>2, <3>4, <3>5
    <2> QED BY <2>2, <2>3, <2>4
<1>11. CASE Record(r)
    <2>1. CASE req[r].filters.merchant \in stored \cup {NoMerchant}
        <3>1. PICK t : To(r, t) /\ t.at = "done" /\ t.filters = req[r].filters /\ t.page = req[r].page
            BY <1>11, <2>1 DEF Record
        <3>2. Looks(t)
            BY <1>11, <3>1 DEF Record, PagesHeld, Looks
        <3> QED BY <1>2, <3>1, <3>2
    <2>2. CASE req[r].filters.merchant \notin stored \cup {NoMerchant}
        BY <1>3, <1>11, <2>2 DEF Record, Fail
    <2> QED BY <2>1, <2>2
<1>12. ASSUME NEW ok \in BOOLEAN, Suggest(r, ok) PROVE Looks(req'[r])
    <2>1. PICK t : To(r, t) /\ t.at = "suggested"
        BY <1>12 DEF Suggest
    <2> QED BY <1>3, <2>1
<1>13. CASE CutShort(r)
    <2>1. PICK t : To(r, t) /\ t = Aborted
        BY <1>13 DEF CutShort
    <2> QED BY <1>3, <2>1 DEF Aborted
<1> QED BY <1>5, <1>6, <1>7, <1>8, <1>9, <1>10, <1>11, <1>12, <1>13 DEF Work

(* The page that a ranking presents is the one that is cached. *)
LEMMA RankCaches ==
    ASSUME AskInv, Timely, SettingsHeld, PagesHeld, NEW r \in Req, Rank(r)
    PROVE  \/ UNCHANGED cachedPages
           \/ \E text, f, page : KeepsPage(f, page)
                /\ cachedPages' =
                      Keep(cachedPages, Key(text, f), [page |-> page, until |-> clock + ResultTtl])
<1>1. \/ UNCHANGED cachedPages
      \/ \E page :
            /\ Answer(r, req[r].filters, page)
            /\ cachedPages' = Keep(cachedPages, Key(req[r].text, req[r].filters),
                                   [page |-> page, until |-> clock + ResultTtl])
    <2>1. PICK s, kept : RankBy(r, s, kept)
        BY DEF Rank
    <2> QED BY <2>1 DEF RankBy
<1>2. ASSUME NEW page, Answer(r, req[r].filters, page) PROVE KeepsPage(req[r].filters, page)
    <2>1. PICK t : To(r, t) /\ t.at = "answering" /\ t.filters = req[r].filters /\ t.page = page
        BY <1>2 DEF Answer
    <2>2. req'[r] = t
        BY <2>1, Moves DEF AskInv
    <2>3. Looks(t)
        BY <2>2, WorkLooks DEF Work
    <2> QED BY <2>1, <2>3 DEF Looks, KeepsPage
<1> QED BY <1>1, <1>2

LEMMA KeptPageStays ==
    ASSUME Timely, MerchantsHeld, [Next]_vars, NEW f, NEW page, KeepsPage(f, page)
    PROVE  KeepsPage(f, page)'
<1>1. clock \in Nat /\ (clock' = clock \/ clock' = clock + 1)
    BY Frame DEF Timely, Tick
<1> QED BY <1>1, PresentedStays DEF KeepsPage

LEMMA PagesStep ==
    ASSUME AskInv, Timely, SettingsHeld, MerchantsHeld, PagesHeld, [Next]_vars
    PROVE  PagesHeld'
<1>1. SearchesWork
    BY DEF AskInv
<1>2. docs' \subseteq Coupon
    BY Frame DEF PagesHeld, IndexChanges, SymDiff
<1>3. ASSUME NEW k \in DOMAIN cachedPages, cachedPages'[k] = cachedPages[k]
      PROVE  KeepsPage(k[2], cachedPages[k].page)'
    <2>1. PICK page : page = cachedPages[k].page /\ KeepsPage(k[2], page)
        BY DEF PagesHeld
    <2>2. KeepsPage(k[2], page)'
        BY <2>1, KeptPageStays
    <2> QED BY <1>3, <2>1, <2>2
<1>4. ASSUME \A k \in DOMAIN cachedPages' : KeepsPage(k[2], cachedPages[k].page)',
             \A r \in Req : Looks(req[r])'
      PROVE  PagesHeld'
    BY <1>2, <1>4 DEF PagesHeld
<1>5. ASSUME UNCHANGED cachedPages
      PROVE  \A k \in DOMAIN cachedPages' : KeepsPage(k[2], cachedPages[k].page)'
    BY <1>3, <1>5
<1>6. UNCHANGED req => \A r \in Req : Looks(req[r])'
    BY LooksStays
<1>7. ASSUME NEW r \in Req, Work(r) PROVE PagesHeld'
    <2>1. Looks(req'[r])
        BY <1>7, WorkLooks
    <2>2. UNCHANGED <<clock, docs, changed>>
        BY <1>7, SMTT(40) DEF Work, Understand, AiAnswers, AiFails, Lookup, Retrieve, Rank, Record, CutShort,
                    Suggest, stores, history
    <2>3. Looks(req[r])'
        BY <2>1, <2>2, ZenonT(60) DEF Looks, Collected, Presented, Fits, Missing, Crowded, Others, Since,
                          Matches, Ahead, Before, Final, Fetched
    <2>4. \A q \in Req : q # r => req'[q] = req[q]
        BY <1>1, <1>7, WorkCarries
    <2>5. \A q \in Req : Looks(req[q])'
        BY <2>3, <2>4, LooksStays
    <2>6. UNCHANGED cachedPages \/ Rank(r)
        BY <1>7 DEF Work, Understand, AiAnswers, AiFails, Lookup, Retrieve, Record, CutShort, Suggest,
                    redis
    <2>7. CASE UNCHANGED cachedPages
        BY <1>4, <1>5, <2>5, <2>7
    <2>8. ASSUME NEW text, NEW f, NEW page, KeepsPage(f, page),
                 cachedPages' = Keep(cachedPages, Key(text, f), [page |-> page, until |-> clock + ResultTtl])
          PROVE  PagesHeld'
        <3>1. PICK key : key = <<text, f>> /\ key = Key(text, f) /\ key[2] = f
            <4>1. Key(text, f) = <<text, f>> /\ <<text, f>>[2] = f
                BY DEF Key
            <4> QED BY <4>1
        <3>2. KeepsPage(f, page)'
            BY <2>8, KeptPageStays
        <3>3. key \in DOMAIN cachedPages' /\ cachedPages'[key].page = page
            BY <2>8, <3>1 DEF Keep
        <3>4. KeepsPage(key[2], cachedPages[key].page)'
            BY <3>1, <3>2, <3>3
        <3>5. ASSUME NEW k \in DOMAIN cachedPages', k # key
              PROVE  KeepsPage(k[2], cachedPages[k].page)'
            <4>1. k \in DOMAIN cachedPages /\ cachedPages'[k] = cachedPages[k]
                BY <2>8, <3>1, <3>5 DEF Keep
            <4> QED BY <1>3, <4>1
        <3> QED BY <1>4, <2>5, <3>4, <3>5
    <2> QED BY <2>6, <2>7, <2>8, RankCaches
<1>8. ASSUME NEW r \in Req, NEW q \in Query, NEW ai \in UseAi[r], Begin(r, q, ai) PROVE PagesHeld'
    <2>1. req'[r].at = "begun" /\ \A p \in Req : p # r => req'[p] = req[p]
        BY <1>1, <1>8, BeginStarts
    <2>2. Looks(req[r])'
        BY <2>1 DEF Looks
    <2>3. \A p \in Req : Looks(req[p])'
        BY <2>1, <2>2, LooksStays
    <2> QED BY <1>4, <1>5, <1>8, <2>3 DEF Begin, redis
<1>9. ASSUME \/ \E s \in Setting, deleted \in BOOLEAN : EditWeights(s, deleted)
             \/ \E p \in Desk : \/ \E m \in Merchant : EditMerchant(p, m)
                                \/ \E chain \in Chains : EditProviders(p, chain)
      PROVE  PagesHeld'
    BY <1>4, <1>5, <1>6, <1>9 DEF EditWeights, EditMerchant, EditProviders, Edit
<1>10. ASSUME \/ \E p \in Process : RefreshRouter(p)
              \/ Commit \/ Abort \/ (\E c \in Coupon : IndexChanges(c)) \/ UNCHANGED vars
       PROVE  PagesHeld'
    BY <1>4, <1>5, <1>6, <1>10 DEF RefreshRouter, Commit, Abort, IndexChanges, vars, redis
<1>11. CASE Tick
    <2>1. UNCHANGED req /\ cachedPages' = Alive(cachedPages)
        BY <1>11 DEF Tick
    <2>2. \A k \in DOMAIN cachedPages' : k \in DOMAIN cachedPages /\ cachedPages'[k] = cachedPages[k]
        BY <2>1 DEF Alive, Restrict
    <2> QED BY <1>3, <1>4, <1>6, <2>1, <2>2
<1> QED BY <1>7, <1>8, <1>9, <1>10, <1>11 DEF Next

LEMMA PagesAlwaysHeld == Spec => []PagesHeld
<1>1. Init => AskInv /\ Timely /\ SettingsHeld /\ MerchantsHeld /\ AnswersHeld /\ PagesHeld
    BY AskInvInit, TimelyInit, SettingsInit, MerchantsInit, AnswersInit, PagesInit
<1>2. AskInv /\ Timely /\ SettingsHeld /\ MerchantsHeld /\ AnswersHeld /\ PagesHeld /\ [Next]_vars
      => AskInv' /\ Timely' /\ SettingsHeld' /\ MerchantsHeld' /\ AnswersHeld' /\ PagesHeld'
    BY AskInvStep, TimelyStep, SettingsStep, MerchantsStep, AnswersStep, PagesStep
<1> QED BY <1>1, <1>2, PTL DEF Spec

(* A search shows what fits it and was in the index when it began to look, *)
(* or later: the key of a cached response in search/service.py has the     *)
(* second in it.                                                           *)
THEOREM ShownIsCurrent == Spec => []ResultsAreCurrent
<1>1. PagesHeld => ResultsAreCurrent
    <2> SUFFICES ASSUME PagesHeld, NEW r \in Req, req[r].at = "done",
                        NEW c \in ToSet(req[r].page.coupons)
                 PROVE  Matches(c, req[r].filters) /\ (c \in docs \/ changed[c] >= req[r].filters.at)
        BY DEF ResultsAreCurrent
    <2>1. Fits(ToSet(req[r].page.coupons), req[r].filters)
        BY DEF PagesHeld, Looks, Presented
    <2> QED BY <2>1 DEF Fits, Since
<1> QED BY <1>1, PagesAlwaysHeld, PTL

(* A document that fits is left out only for no worse ones, or because the *)
(* fetch had room only for no less relevant ones: search in                *)
(* search/service.py fetches three times as many documents as it shows,    *)
(* and ranks them before it cuts.                                          *)
THEOREM TheBestAreShown == Spec => []BestOfTheRelevant
<1>1. PagesHeld => BestOfTheRelevant
    <2> SUFFICES ASSUME PagesHeld, NEW r \in Req, req[r].at = "done", req[r].page.ok,
                        NEW c \in docs \ ToSet(req[r].page.coupons),
                        ~(changed[c] >= req[r].filters.at), Matches(c, req[r].filters)
                 PROVE  \/ /\ Len(req[r].page.coupons) = Limit
                           /\ \A d \in ToSet(req[r].page.coupons) : ~Before(req[r].page.by, c, d)
                        \/ Cardinality({d \in Coupon \ {c} :
                                ~Ahead(c, d) /\ Matches(d, req[r].filters)
                                /\ (d \in docs \/ changed[d] >= req[r].filters.at)})
                           >= Limit * OverFetch
        BY ZenonT(60) DEF BestOfTheRelevant
    <2> DEFINE page == req[r].page
               f == req[r].filters
    <2>1. Missing(c, f, ToSet(page.coupons)) /\ c \in Coupon
        BY DEF Missing, Since, PagesHeld
    <2>2. Presented(page, f)
        BY DEF PagesHeld, Looks
    <2>3. \/ Len(page.coupons) = Limit /\ \A d \in ToSet(page.coupons) : ~Before(page.by, c, d)
          \/ Crowded(c, f, ToSet(page.coupons))
        BY <2>1, <2>2 DEF Presented
    <2>4. Others(c, f) = {d \in Coupon \ {c} :
                ~Ahead(c, d) /\ Matches(d, f) /\ (d \in docs \/ changed[d] >= f.at)}
        BY DEF Others, Since
    <2> QED BY <2>3, <2>4 DEF Crowded, Fetched
<1> QED BY <1>1, PagesAlwaysHeld, PTL

(* A result never takes the place of one that fits, is more relevant and   *)
(* no worse in any factor, for any weights that are not negative: the      *)
(* Dominance of rerank in search/ranking.py survives the fetch and the     *)
(* cut.                                                                    *)
THEOREM NoDominatedResult == Spec => []NothingDominatedIsShown
<1>1. PagesHeld => NothingDominatedIsShown
    <2> SUFFICES ASSUME PagesHeld, NEW r \in Req, req[r].at = "done", req[r].page.ok,
                        req[r].page.coupons # << >>, Sane(Weights(WeightsOf[req[r].page.by])),
                        NEW c \in docs \ ToSet(req[r].page.coupons),
                        NEW d \in ToSet(req[r].page.coupons), Matches(c, req[r].filters),
                        Ahead(c, d), Dominates(Doc[c], Doc[d]), ~(changed[c] >= req[r].filters.at)
                 PROVE  FALSE
        BY ZenonT(60) DEF NothingDominatedIsShown
    <2>1. PICK page, f, s, w : /\ page = req[r].page /\ f = req[r].filters
                               /\ s = page.by /\ w = Weights(WeightsOf[s])
        OBVIOUS
    <2>2. Presented(page, f)
        BY <2>1 DEF PagesHeld, Looks
    <2>3. Missing(c, f, ToSet(page.coupons)) /\ c \in Coupon /\ d \in Coupon
        BY <2>1, <2>2 DEF Missing, Since, PagesHeld, Presented, Fits
    <2>4. ~Crowded(c, f, ToSet(page.coupons))
        BY <2>1 DEF Crowded
    <2>5. ~Before(s, c, d)
        BY <2>1, <2>2, <2>3, <2>4 DEF Presented
    <2>6. s \in Setting \ Unusable /\ Numbers(w) /\ Sane(w) /\ Document(Doc[c]) /\ Document(Doc[d])
        BY <2>1, <2>2, <2>3, SearchAssumption DEF Presented
    <2>7. Final[s][c] = FinalScore(w, Doc[c]) /\ Final[s][d] = FinalScore(w, Doc[d])
        BY <2>1, <2>3, <2>6 DEF Final
    <2>8. FinalScore(w, Doc[c]) >= FinalScore(w, Doc[d])
        BY <2>6, Dominance
    <2>9. FinalScore(w, Doc[c]) \in Int /\ FinalScore(w, Doc[d]) \in Int
        BY <2>6, ScoreIsANumber
    <2> QED BY <2>5, <2>7, <2>8, <2>9 DEF Before
<1> QED BY <1>1, PagesAlwaysHeld, PTL

----------------------------------------------------------------------------
(* Types. *)

LEMMA SuggestsFew ==
    ASSUME AskInv, Timely, MerchantsHeld, PagesHeld, NEW r \in Req, NEW ok \in BOOLEAN, Suggest(r, ok)
    PROVE  Short(req'[r])
<1>1. PICK ix, sorted, found, t :
        /\ ix = AliasIndex(On[r], [merchants |-> merchants]) /\ sorted \in ById(Named(ix.known))
        /\ found \in ByRelevance(docs) /\ To(r, t) /\ t.names = Names(sorted)
        /\ t.coupons = IF ok THEN Leading(SuggestLimit - Len(t.names), found) ELSE << >>
    BY DEF Suggest
<1>2. IsFiniteSet(docs) /\ found \in SetToSeqs(docs) /\ SuggestLimit \in Nat /\ SuggestLimit > 0
    <2>1. docs \in SUBSET Coupon
        BY DEF PagesHeld
    <2> QED BY <1>1, <2>1, SearchAssumption, FS_Subset DEF ByRelevance
<1>3. IsFiniteSet(Named(ix.known)) /\ sorted \in SetToSeqs(Named(ix.known))
    <2>1. Recent(clock) /\ Agrees(merchants, clock) /\ On[r] \in Process
        BY SearchAssumption, SMTT(40) DEF Recent, Timely, Agrees, SymDiff, MerchantsHeld
    <2>2. ix.known \subseteq Merchant
        BY <1>1, <2>1, AliasIndexAgrees DEF Agrees
    <2>3. Named(ix.known) \in SUBSET Merchant
        BY <2>2 DEF Named
    <2> QED BY <1>1, <2>3, MerchantsAssumption, FS_Subset DEF ById
<1>4. Len(t.names) \in 0 .. SuggestLimit
    <2> DEFINE n == IF SuggestLimit > 1 THEN SuggestLimit \div 2 ELSE 1
    <2>1. n \in Nat /\ n <= SuggestLimit
        BY <1>2
    <2>2. t.names = Leading(n, sorted)
        BY <1>1 DEF Names
    <2>3. Cardinality(Named(ix.known)) \in Nat
        BY <1>3, FS_CardinalityType
    <2> HIDE DEF n
    <2>4. Len(t.names) = Lower(n, Cardinality(Named(ix.known)))
        BY <1>3, <2>1, <2>2, LeadingIsOf
    <2> QED BY <1>2, <2>1, <2>3, <2>4 DEF Lower
<1>5. Len(t.coupons) <= SuggestLimit - Len(t.names) /\ Len(t.coupons) \in Nat
    <2>1. PICK n \in Nat : n = SuggestLimit - Len(t.names)
        <3>1. PICK a \in 0 .. SuggestLimit : a = Len(t.names)
            BY <1>4
        <3>2. SuggestLimit - a \in Nat
            BY <1>2
        <3> QED BY <3>1, <3>2
    <2>2. CASE ok
        <3>1. Cardinality(docs) \in Nat
            BY <1>2, FS_CardinalityType
        <3>2. Len(t.coupons) = Lower(n, Cardinality(docs))
            BY <1>1, <1>2, <2>1, <2>2, LeadingIsOf
        <3> QED BY <2>1, <3>1, <3>2 DEF Lower
    <2>3. CASE ~ok
        <3>1. t.coupons = << >>
            BY <1>1, <2>3
        <3> QED BY <2>1, <3>1, EmptyChain
    <2> QED BY <2>2, <2>3
<1>6. Short(t)
    <2>1. PICK a \in 0 .. SuggestLimit, b \in Nat : a = Len(t.names) /\ b = Len(t.coupons)
        BY <1>4, <1>5
    <2>2. b <= SuggestLimit - a
        BY <1>5, <2>1
    <2>3. a + b <= SuggestLimit
        BY <1>2, <2>2
    <2> QED BY <2>1, <2>3 DEF Short
<1> QED BY <1>1, <1>6, Moves DEF AskInv

LEMMA OthersSuggestNothing ==
    ASSUME SearchesWork, NEW r \in Req, Work(r), \A ok \in BOOLEAN : ~Suggest(r, ok)
    PROVE  Short(req'[r])
<1>1. ASSUME NEW t, To(r, t), t.at # "suggested" PROVE Short(req'[r])
    BY <1>1, Moves DEF Short
<1>2. ASSUME NEW known, NEW intent, NEW answer, NEW asked, Answered(r, known, intent, answer, asked)
      PROVE  Short(req'[r])
    <2>1. CASE Malformed(answer)
        <3>1. PICK t : To(r, t) /\ t.at = "failed"
            BY <1>2, <2>1 DEF Answered, Fail
        <3> QED BY <1>1, <3>1
    <2>2. CASE ~Malformed(answer)
        <3>1. PICK i : To(r, Stage(r, "understood", i, known, << >>, asked))
            BY <1>2, <2>2 DEF Answered
        <3> QED BY <1>1, <3>1 DEF Stage
    <2> QED BY <2>1, <2>2
<1>3. CASE Understand(r)
    <2> DEFINE chain == IF req[r].ai THEN router[On[r]] ELSE << >>
               at == IF chain = << >> THEN "understood" ELSE "asking"
    <2>1. PICK known, intent :
            IF req[r].ai /\ AnswerOf(req[r].query) # NoAnswer
            THEN Answered(r, known, intent, AnswerOf(req[r].query), << >>)
            ELSE To(r, Stage(r, at, intent, known, chain, << >>))
        BY <1>3 DEF Understand
    <2>2. at # "suggested"
        OBVIOUS
    <2> HIDE DEF at, chain
    <2>3. CASE ~(req[r].ai /\ AnswerOf(req[r].query) # NoAnswer)
        <3>1. PICK t : To(r, t) /\ t.at # "suggested"
            BY <2>1, <2>2, <2>3 DEF Stage
        <3> QED BY <1>1, <3>1
    <2> QED BY <1>2, <2>1, <2>3
<1>4. ASSUME NEW answer, AiAnswers(r, answer) PROVE Short(req'[r])
    BY <1>2, <1>4 DEF AiAnswers
<1>5. CASE AiFails(r)
    <2>1. PICK t : To(r, t) /\ t.at # "suggested"
        BY <1>5 DEF AiFails, Stage
    <2> QED BY <1>1, <2>1
<1>6. CASE Lookup(r)
    <2>1. PICK t : To(r, t) /\ t.at # "suggested"
        BY <1>6 DEF Lookup, Answer
    <2> QED BY <1>1, <2>1
<1>7. ASSUME NEW ok \in BOOLEAN, Retrieve(r, ok) PROVE Short(req'[r])
    <2>1. PICK t : To(r, t) /\ t.at = "ranking"
        BY <1>7 DEF Retrieve
    <2> QED BY <1>1, <2>1
<1>8. CASE Rank(r)
    <2>1. \/ Fail(r, "weights", NoMerchant)
          \/ \E page : Answer(r, req[r].filters, page)
        BY <1>8, RankMoves
    <2> QED BY <1>1, <2>1 DEF Fail, Answer
<1>9. CASE Record(r) \/ CutShort(r)
    <2>1. PICK t : To(r, t) /\ t.at # "suggested"
        BY <1>9 DEF Record, Fail, CutShort, Aborted
    <2> QED BY <1>1, <2>1
<1> QED BY <1>3, <1>4, <1>5, <1>6, <1>7, <1>8, <1>9 DEF Work

LEMMA CountedStep ==
    ASSUME AskInv, Timely, SettingsHeld, MerchantsHeld, PagesHeld, Counted, [Next]_vars
    PROVE  Counted'
<1>1. SearchesWork /\ {MaxTime, MaxEdits, MaxFaults} \subseteq Nat
    BY SearchAssumption DEF AskInv
<1>2. clock' \in 0 .. MaxTime
    BY <1>1, Frame DEF Counted, Tick
<1>3. used'.value \in Setting
    <2>1. ASSUME NEW r \in Req, Rank(r) PROVE used'.value \in Setting
        BY <2>1, RankReads
    <2> QED BY <2>1, Frame DEF Counted
<1>4. ASSUME edits' \in 0 .. MaxEdits, faults' \in 0 .. MaxFaults,
             DOMAIN cachedWeights' \subseteq {WeightsKey}, \A r \in Req : Short(req'[r])
      PROVE  Counted'
    BY <1>2, <1>3, <1>4 DEF Counted, Short
<1>5. UNCHANGED req => \A r \in Req : Short(req'[r])
    BY DEF Counted
<1>6. ASSUME NEW r \in Req, Work(r) PROVE Counted'
    <2>1. Short(req'[r])
        BY <1>1, <1>6, SuggestsFew, OthersSuggestNothing
    <2>2. \A q \in Req : q # r => req'[q] = req[q]
        BY <1>1, <1>6, WorkCarries
    <2>3. \A q \in Req : Short(req'[q])
        BY <2>1, <2>2, SMTT(40) DEF Counted
    <2>4. UNCHANGED edits
        BY <1>6 DEF Work, Understand, AiAnswers, AiFails, Lookup, Retrieve, Rank, Record, CutShort, Suggest
    <2>5. faults' = faults \/ (faults' = faults + 1 /\ faults' <= MaxFaults)
        <3>1. CASE \E ok \in BOOLEAN : Retrieve(r, ok) \/ Suggest(r, ok)
            BY <3>1 DEF Retrieve, Suggest
        <3>2. CASE AiFails(r)
            BY <1>1, <3>2 DEF AiFails, Counted
        <3>3. CASE \/ Understand(r) \/ Lookup(r) \/ Rank(r) \/ Record(r) \/ CutShort(r)
                   \/ \E answer : AiAnswers(r, answer)
            BY <3>3 DEF Understand, Lookup, Rank, Record, CutShort, AiAnswers
        <3> QED BY <1>6, <3>1, <3>2, <3>3 DEF Work
    <2>6. DOMAIN cachedWeights' \subseteq {WeightsKey}
        <3>1. CASE Rank(r)
            BY <3>1 DEF Rank, KeptSetting, Counted
        <3>2. CASE ~Rank(r)
            BY <1>6, <3>2, SMTT(40) DEF Work, Understand, AiAnswers, AiFails, Lookup, Retrieve, Record,
                CutShort, Suggest, redis, Counted
        <3> QED BY <3>1, <3>2
    <2> QED BY <1>1, <1>4, <2>3, <2>4, <2>5, <2>6 DEF Counted
<1>7. ASSUME NEW r \in Req, NEW q \in Query, NEW ai \in UseAi[r], Begin(r, q, ai) PROVE Counted'
    <2>1. req'[r].at = "begun" /\ \A p \in Req : p # r => req'[p] = req[p]
        BY <1>1, <1>7, BeginStarts
    <2>2. \A p \in Req : Short(req'[p])
        BY <2>1 DEF Short, Counted
    <2> QED BY <1>4, <1>7, <2>2 DEF Begin, redis, Counted
<1>8. ASSUME NEW s \in Setting, NEW deleted \in BOOLEAN, EditWeights(s, deleted) PROVE Counted'
    <2>1. UNCHANGED req /\ edits' = edits + 1 /\ edits < MaxEdits
          /\ faults' \in {faults, faults + 1} /\ faults' <= MaxFaults
        BY <1>8 DEF EditWeights, Edit
    <2>2. DOMAIN cachedWeights' \subseteq {WeightsKey}
        BY <1>8 DEF EditWeights, Invalidated, Counted
    <2> QED BY <1>1, <1>4, <1>5, <2>1, <2>2 DEF Counted
<1>9. ASSUME \E p \in Desk : \/ \E m \in Merchant : EditMerchant(p, m)
                             \/ \E chain \in Chains : EditProviders(p, chain)
      PROVE  Counted'
    <2>1. UNCHANGED <<req, faults, cachedWeights>> /\ edits' = edits + 1 /\ edits < MaxEdits
        BY <1>9 DEF EditMerchant, EditProviders, Edit
    <2> QED BY <1>1, <1>4, <1>5, <2>1 DEF Counted
<1>10. CASE Abort
    <2>1. UNCHANGED <<req, edits, cachedWeights>> /\ faults' = faults + 1 /\ faults < MaxFaults
        BY <1>10 DEF Abort, redis
    <2> QED BY <1>1, <1>4, <1>5, <2>1 DEF Counted
<1>11. CASE \E c \in Coupon : IndexChanges(c)
    <2>1. UNCHANGED <<req, faults, cachedWeights>> /\ edits' = edits + 1 /\ edits < MaxEdits
        BY <1>11 DEF IndexChanges, redis
    <2> QED BY <1>1, <1>4, <1>5, <2>1 DEF Counted
<1>12. CASE Tick
    <2>1. UNCHANGED <<req, edits, faults>> /\ cachedWeights' = Alive(cachedWeights)
        BY <1>12 DEF Tick
    <2>2. DOMAIN cachedWeights' \subseteq {WeightsKey}
        BY <2>1 DEF Alive, Restrict, Counted
    <2> QED BY <1>4, <1>5, <2>1, <2>2 DEF Counted
<1>13. ASSUME (\E p \in Process : RefreshRouter(p)) \/ Commit \/ UNCHANGED vars PROVE Counted'
    <2>1. UNCHANGED <<req, edits, faults, cachedWeights>>
        BY <1>13 DEF RefreshRouter, Commit, vars, redis
    <2> QED BY <1>4, <1>5, <2>1 DEF Counted
<1> QED BY <1>6, <1>7, <1>8, <1>9, <1>10, <1>11, <1>12, <1>13 DEF Next

LEMMA CountedInit == Init => Counted
<1> SUFFICES ASSUME Init PROVE Counted
    OBVIOUS
<1>1. /\ clock = 0 /\ edits = 0 /\ faults = 0 /\ used = [value |-> 0, at |-> 0]
      /\ cachedWeights = << >> /\ \A r \in Req : req[r] = Idle
    BY DEF Init
<1>2. \A r \in Req : Short(req[r])
    BY <1>1 DEF Short, Idle
<1> QED BY <1>1, <1>2, SearchAssumption DEF Counted

(* Type correctness: nothing that a cache, a router or a response holds is *)
(* anything but what was put there, and no response is longer than asked   *)
(* for.                                                                    *)
THEOREM SearchTypes == Spec => []TypeOK
<1> DEFINE Inv == AskInv /\ Timely /\ SettingsHeld /\ MerchantsHeld /\ AnswersHeld /\ PagesHeld /\ Counted
<1>1. Init => Inv
    BY AskInvInit, TimelyInit, SettingsInit, MerchantsInit, AnswersInit, PagesInit, CountedInit
<1>2. Inv /\ [Next]_vars => Inv'
    BY AskInvStep, TimelyStep, SettingsStep, MerchantsStep, AnswersStep, PagesStep, CountedStep
<1>3. Inv => TypeOK
    <2> SUFFICES ASSUME Inv PROVE TypeOK
        OBVIOUS
    <2>1. /\ clock \in 0 .. MaxTime /\ merchants \subseteq stored /\ stored \subseteq Merchant
          /\ weights \in Setting /\ providers \in Chains /\ docs \subseteq Coupon
          /\ used.value \in Setting /\ edits \in 0 .. MaxEdits /\ faults \in 0 .. MaxFaults
        BY DEF Counted, MerchantsHeld, SettingsHeld, AskInv, ChainsHeld, PagesHeld
    <2>2. \A p \in Process : /\ index[p].known \subseteq Merchant /\ index[p].built \in 0 .. clock
                             /\ router[p] \in Chains
        BY <2>1 DEF MerchantsHeld, Built, Agrees, AskInv, ChainsHeld
    <2>3. \A k \in DOMAIN cachedWeights : cachedWeights[k].value \in Setting
        BY DEF Counted, SettingsHeld, Keeps, Seen
    <2>4. \A q \in DOMAIN cachedAnswers : cachedAnswers[q].answer \in Answers[q]
        BY DEF AnswersHeld, KeepsAnswer
    <2>5. \A k \in DOMAIN cachedPages : ToSet(cachedPages[k].page.coupons) \subseteq Coupon
        BY DEF PagesHeld, KeepsPage, Presented, Fits
    <2>6. \A r \in Req :
            /\ req[r].at = "done" => Len(req[r].page.coupons) <= Limit
            /\ req[r].at = "suggested" => Len(req[r].names) + Len(req[r].coupons) <= SuggestLimit
        BY DEF Counted, Short, PagesHeld, Looks, Presented
    <2> QED BY <2>1, <2>2, <2>3, <2>4, <2>5, <2>6 DEF TypeOK
<1> QED BY <1>1, <1>2, <1>3, PTL DEF Spec
=============================================================================
