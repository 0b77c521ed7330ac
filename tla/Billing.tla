------------------------------ MODULE Billing ------------------------------
(***************************************************************************)
(* Subscriptions, payments, invoices and gateway webhooks:                 *)
(* services/billing_service.py, its endpoints and the two gateway classes, *)
(* over the request transaction of core/database.py.                       *)
(*                                                                         *)
(* A slot is one request in flight, in any worker process.  As in module   *)
(* Sessions, opening it takes the snapshot that its SELECTs read, and its  *)
(* writes are one step: conflicting write phases are serialised by InnoDB. *)
(* Two constraints are checked by the writes and not by the snapshot: the  *)
(* unique keys of webhook_events and of invoices.                          *)
(*                                                                         *)
(* The gateways are external: they emit events, deliver each of them at    *)
(* least once and in any order, and stop once one delivery has been        *)
(* answered with success.                                                  *)
(***************************************************************************)
EXTENDS Naturals, Sequences, FiniteSets

CONSTANTS
    Slot,           \* the requests in flight
    User,
    Gsub,           \* the subscriptions that exist at a gateway
    Stripe,         \* those of them at Stripe; the others are at Razorpay
    OwnerOf,        \* OwnerOf[g]: the user_id in the metadata of checkout g
    Event,          \* BOUND: the events that the gateways ever emit
    NoGsub,
    MaxCheckouts,   \* BOUND: checkouts activated without a gateway
    Refundable,     \* BOUND: the payments that somebody asks to refund
    LastYear        \* BOUND: the last year the clock reaches

ASSUME BillingAssumption ==
    /\ Stripe \subseteq Gsub /\ NoGsub \notin Gsub \cup Event
    /\ OwnerOf \in [Gsub -> User]
    /\ Gsub \cap Event = {}
    /\ MaxCheckouts \in Nat /\ LastYear \in Nat

VARIABLES
    year,       \* the wall clock
    bought,     \* the subscriptions that a checkout opened at their gateway
    event,      \* event[e]: its type, gateway subscription and id, once emitted
    acked,      \* the events for which the gateway got an answer of success
    log,        \* log[k]: status of webhook event id k ("absent": no row)
    charged,    \* charged[e]: the payments recorded for event e
    returned,   \* the events whose charge the gateway has returned
    refunded,   \* the payments with the status "refunded"
    subs,       \* the rows of subscriptions, in order of creation
    invoices,   \* the invoice numbers given, with their year
    job         \* job[s]: the request in slot s and what its snapshot told it

gateway == <<bought, event, returned>>
payments == <<charged, refunded>>
vars == <<year, gateway, acked, log, payments, subs, invoices, job>>

Types == {"checkout", "charge", "failed", "canceled"}
NotEmitted == [type |-> "none", gsub |-> NoGsub, id |-> NoGsub]

(* verify_and_parse_webhook: the id that an event is known by.  A Razorpay *)
(* body without an id is known by the id of its entity.                    *)
StripeIds(e) == {e}
RazorpayIds(e, g) == {e, g}
EventIds(e, g) == IF g \in Stripe THEN StripeIds(e) ELSE RazorpayIds(e, g)
EventId == Event \cup Gsub
Recorded(e) == event[e] # NotEmitted /\ log[event[e].id] # "absent"

Idle == [op |-> "idle"]

Init ==
    /\ year = 0
    /\ bought = {}
    /\ event = [e \in Event |-> NotEmitted]
    /\ acked = {}
    /\ log = [k \in EventId |-> "absent"]
    /\ charged = [e \in Event |-> 0]
    /\ returned = {} /\ refunded = {}
    /\ subs = <<>>
    /\ invoices = {}
    /\ job = [s \in Slot |-> Idle]

----------------------------------------------------------------------------
(* create_checkout with a gateway writes nothing here.  Stripe opens a     *)
(* session, and the subscription comes with the payment; Razorpay creates  *)
(* the subscription at once, which may be cancelled before it is paid for. *)
Buy(g) ==
    /\ g \notin bought
    /\ bought' = bought \cup {g}
    /\ UNCHANGED <<year, event, returned, acked, log, payments, subs, invoices, job>>
StripeCheckout(g) == g \in Stripe /\ Buy(g)
RazorpayCheckout(g) == g \notin Stripe /\ Buy(g)

(* A gateway emits one event of type "checkout" when the user has paid,    *)
(* and other events about the subscription while there is one.             *)
Emit(e, t, g) ==
    /\ g \in bought /\ event[e] = NotEmitted
    /\ LET earlier == {d \in Event : event[d].gsub = g}
           paid == \E d \in earlier : event[d].type = "checkout"
       IN  IF t = "checkout" THEN earlier = {} ELSE paid \/ (g \notin Stripe /\ t = "canceled")
    /\ \E id \in EventIds(e, g) : event' = [event EXCEPT ![e] = [type |-> t, gsub |-> g, id |-> id]]
    /\ UNCHANGED <<year, bought, returned, acked, log, payments, subs, invoices, job>>

----------------------------------------------------------------------------
(* Opening a request.  A definition X_Fault, here and below, is a faulty X *)
(* that a property must exclude.                                           *)
Rows == DOMAIN subs
Active(u) == {i \in Rows : subs[i].user = u /\ subs[i].status = "active"}

Open(s, request) ==
    /\ job[s] = Idle
    /\ job' = [job EXCEPT ![s] = request]
    /\ UNCHANGED <<year, gateway, acked, log, payments, subs, invoices>>

(* process_webhook: is the id known, is the customer known, and how many   *)
(* invoices are there?                                                     *)
Seen_OrInFlight(e) ==
    \/ Recorded(e)
    \/ \E s \in Slot : job[s].op = "webhook" /\ job[s].event = e
Seen(e) == Recorded(e)
Deliver(s, e) ==
    /\ event[e] # NotEmitted
    /\ Open(s, [op |-> "webhook", event |-> e, seen |-> Seen(e),
                known |-> \E i \in Rows : subs[i].gsub = event[e].gsub,
                count |-> Cardinality(invoices)])

(* create_checkout without a gateway, because the plan is free, or none is *)
(* configured, or its API failed.  With a gateway nothing is written here. *)
Checkout(s, u, pays) ==
    /\ Cardinality({i \in Rows : subs[i].gsub = NoGsub})
         + Cardinality({r \in Slot : job[r].op = "checkout"}) < MaxCheckouts
    /\ Open(s, [op |-> "checkout", user |-> u, pays |-> pays, count |-> Cardinality(invoices)])

(* cancel_subscription finds the newest active row, or answers 404. *)
Cancel_Unchecked(s, atEnd) ==
    Open(s, [op |-> "cancel", row |-> Len(subs), atEnd |-> atEnd])
Cancel(s, atEnd) ==
    \E u \in User : \E i \in Active(u) :
        /\ \A j \in Active(u) : j <= i
        /\ Open(s, [op |-> "cancel", row |-> i, atEnd |-> atEnd])

(* refund_payment finds a payment that is "succeeded", or answers 404 or   *)
(* 409.  A payment is known by its event, that of a checkout without a     *)
(* gateway by its row.                                                     *)
Payments == {e \in Event : charged[e] > 0} \cup {i \in Rows : subs[i].demo}
Refunding == {s \in Slot : job[s].op = "refund"}
Refund(s, p) ==
    /\ p \in Refundable \cap Payments /\ p \notin refunded
    /\ Open(s, [op |-> "refund", payment |-> p, said |-> "nothing"])

(* The gateway returns a charge once.  It is not part of the transaction;  *)
(* it may refuse, and a lost answer counts as a refusal.                   *)
GatewayRefunds(s) ==
    /\ job[s].op = "refund" /\ job[s].payment \in Event /\ job[s].said = "nothing"
    /\ \E returns \in SUBSET ({job[s].payment} \ returned) :
         /\ returned' = returned \cup returns
         /\ \E said \in {"no"} \cup {"yes" : p \in returns} : job' = [job EXCEPT ![s].said = said]
    /\ UNCHANGED <<year, bought, event, acked, log, payments, subs, invoices>>

----------------------------------------------------------------------------
(* The writes. *)

(* activate_subscription *)
ActiveRow(u, g, demo) ==
    [user |-> u, gsub |-> g, status |-> "active", demo |-> demo, atEnd |-> FALSE, over |-> FALSE]
Activated_OthersKept(u, g, demo) == Append(subs, ActiveRow(u, g, demo))
Activated(u, g, demo) ==
    Append([i \in Rows |-> IF subs[i].user = u /\ subs[i].status \in {"active", "past_due"}
                           THEN [subs[i] EXCEPT !.status = "canceled"] ELSE subs[i]],
           ActiveRow(u, g, demo))

(* record_payment gives the number after the count of its snapshot. *)
InvoiceNumber_OffByOne(count) == <<year, IF count = 0 THEN 1 ELSE count>>
InvoiceNumber(count) == <<year, count + 1>>

(* _apply_event.  Only Stripe's checkout carries a plan and a user where   *)
(* they are looked for; other events know their user by the customer id of *)
(* an earlier row.                                                         *)
Marked(g, status) ==
    [i \in Rows |-> IF subs[i].gsub = g THEN [subs[i] EXCEPT !.status = status] ELSE subs[i]]
AppliedRows(ev) ==
    IF ev.type = "checkout" /\ ev.gsub \in Stripe THEN Activated(OwnerOf[ev.gsub], ev.gsub, FALSE)
    ELSE IF ev.type = "failed" THEN Marked(ev.gsub, "past_due")
    ELSE IF ev.type = "canceled" THEN Marked(ev.gsub, "canceled")
    ELSE subs
Pays(ev, known) ==
    \/ ev.type = "checkout" /\ ev.gsub \in Stripe
    \/ ev.type = "charge" /\ known

(* The request ends, and its slot with it. *)
Close(s) == job' = [job EXCEPT ![s] = Idle] /\ UNCHANGED <<year, gateway>>

(* Nothing is left of a request that a constraint, a deadlock, a lost      *)
(* connection or a crash ends; a gateway will deliver again.               *)
RollBack_Answered(s) ==
    /\ acked' = acked \cup {e \in Event : job[s].op = "webhook" /\ job[s].event = e}
    /\ Close(s) /\ UNCHANGED <<log, payments, subs, invoices>>
RollBack(s) == Close(s) /\ UNCHANGED <<acked, log, payments, subs, invoices>>

Duplicate(s) ==
    /\ job[s].seen
    /\ acked' = acked \cup {job[s].event}
    /\ Close(s) /\ UNCHANGED <<log, payments, subs, invoices>>

(* The event's row, its effects and its status are one transaction. *)
UniqueEvent_NotEnforced(s) == TRUE
UniqueEvent(s) == log[event[job[s].event].id] = "absent"
Process(s) ==
    LET e == job[s].event
        number == InvoiceNumber(job[s].count)
    IN  /\ ~job[s].seen
        /\ IF UniqueEvent(s) /\ ~(Pays(event[e], job[s].known) /\ number \in invoices)
           THEN /\ log' = [log EXCEPT ![event[e].id] = "processed"]
                /\ subs' = AppliedRows(event[e])
                /\ IF Pays(event[e], job[s].known)
                   THEN /\ charged' = [charged EXCEPT ![e] = @ + 1]
                        /\ invoices' = invoices \cup {number}
                   ELSE UNCHANGED <<charged, invoices>>
                /\ acked' = acked \cup {e}
                /\ Close(s) /\ UNCHANGED refunded
           ELSE RollBack(s)

(* A lock wait timeout undoes the UPDATE of _apply_event and nothing else: *)
(* the event is recorded as failed, and the answer is still a success.     *)
ApplyFails(s) ==
    LET e == job[s].event
    IN  /\ job[s].op = "webhook" /\ ~job[s].seen /\ UniqueEvent(s)
        /\ event[e].type # "charge" /\ (event[e].type = "checkout" => event[e].gsub \in Stripe)
        /\ log' = [log EXCEPT ![event[e].id] = "failed"]
        /\ acked' = acked \cup {e}
        /\ Close(s) /\ UNCHANGED <<payments, subs, invoices>>

AnswerWebhook(s) == job[s].op = "webhook" /\ (Duplicate(s) \/ Process(s))

AnswerCheckout(s) ==
    LET number == InvoiceNumber(job[s].count)
    IN  /\ job[s].op = "checkout"
        /\ IF job[s].pays /\ number \in invoices
           THEN RollBack(s)
           ELSE /\ subs' = Activated(job[s].user, NoGsub, job[s].pays)
                /\ invoices' = IF job[s].pays THEN invoices \cup {number} ELSE invoices
                /\ Close(s) /\ UNCHANGED <<acked, log, payments>>

(* The row found in the snapshot is updated, whatever it has become. *)
AnswerCancel(s) ==
    /\ job[s].op = "cancel"
    /\ subs' = IF job[s].atEnd THEN [subs EXCEPT ![job[s].row].atEnd = TRUE]
                               ELSE [subs EXCEPT ![job[s].row].status = "canceled"]
    /\ Close(s) /\ UNCHANGED <<acked, log, payments, invoices>>

(* A payment keeps its status when the gateway did not agree. *)
Agreed_Unchecked(s) == job[s].payment \in Event => job[s].said # "nothing"
Agreed(s) == job[s].payment \in Event => job[s].said = "yes"
AnswerRefund(s) ==
    /\ job[s].op = "refund"
    /\ job[s].payment \in Event => job[s].said # "nothing"
    /\ refunded' = IF Agreed(s) THEN refunded \cup {job[s].payment} ELSE refunded
    /\ Close(s) /\ UNCHANGED <<acked, log, charged, subs, invoices>>

Abort(s) == job[s] # Idle /\ RollBack(s)

----------------------------------------------------------------------------
(* current_period_end passes.  No code reads it; the model follows it only *)
(* for a row that is to end then.                                          *)
PeriodEnds(i) ==
    /\ subs[i].atEnd /\ ~subs[i].over
    /\ subs' = [subs EXCEPT ![i].over = TRUE]
    /\ UNCHANGED <<year, gateway, acked, log, payments, invoices, job>>

NewYear ==
    /\ year < LastYear
    /\ year' = year + 1
    /\ UNCHANGED <<gateway, acked, log, payments, subs, invoices, job>>

Next ==
    \/ \E g \in Gsub : StripeCheckout(g) \/ RazorpayCheckout(g)
    \/ \E e \in Event, t \in Types, g \in Gsub : Emit(e, t, g)
    \/ \E s \in Slot :
         \/ \E e \in Event : Deliver(s, e)
         \/ \E u \in User, pays \in BOOLEAN : Checkout(s, u, pays)
         \/ \E atEnd \in BOOLEAN : Cancel(s, atEnd)
         \/ \E p \in Refundable : Refund(s, p)
         \/ AnswerWebhook(s) \/ ApplyFails(s) \/ AnswerCheckout(s) \/ AnswerCancel(s)
         \/ GatewayRefunds(s) \/ AnswerRefund(s) \/ Abort(s)
    \/ \E i \in Rows : PeriodEnds(i)
    \/ NewYear

Spec == Init /\ [][Next]_vars

(* A gateway does not give up on an event, and failures are not permanent: *)
(* an event that is delivered again and again is answered in the end.      *)
DeliverAgain(e) == e \notin acked /\ \E s \in Slot : Deliver(s, e)
Settle(e) == \E s \in Slot : job[s].op = "webhook" /\ job[s].event = e /\ AnswerWebhook(s)
AnswerUser(s) == AnswerCheckout(s) \/ AnswerCancel(s) \/ GatewayRefunds(s) \/ AnswerRefund(s)
FairSpec ==
    /\ Spec
    /\ \A e \in Event : SF_vars(DeliverAgain(e)) /\ SF_vars(Settle(e))
    /\ \A s \in Slot : WF_vars(AnswerUser(s))

----------------------------------------------------------------------------
Row == [user : User, gsub : Gsub \cup {NoGsub}, demo : BOOLEAN, atEnd : BOOLEAN,
        over : BOOLEAN, status : {"active", "past_due", "canceled"}]
Job ==
    {Idle} \cup [op : {"webhook"}, event : Event, seen : BOOLEAN, known : BOOLEAN, count : Nat]
           \cup [op : {"checkout"}, user : User, pays : BOOLEAN, count : Nat]
           \cup [op : {"cancel"}, row : Rows, atEnd : BOOLEAN]
           \cup [op : {"refund"}, payment : Payments, said : {"nothing", "yes", "no"}]
TypeOK ==
    /\ year \in 0 .. LastYear
    /\ bought \subseteq Gsub /\ returned \subseteq Event
    /\ event \in [Event -> {NotEmitted} \cup [type : Types, gsub : Gsub, id : EventId]]
    /\ acked \subseteq Event
    /\ log \in [EventId -> {"absent", "processed", "failed"}]
    /\ charged \in [Event -> Nat] /\ refunded \subseteq Payments
    /\ subs \in Seq(Row)
    /\ invoices \subseteq Nat \X Nat
    /\ job \in [Slot -> Job]

(* "Cancel any other currently-active subscriptions (single active plan    *)
(* model)": only the newest subscription of a user may be active, however  *)
(* activations, cancellations and late events interleave.                  *)
OnlyNewestIsActive ==
    \A i, j \in Rows : subs[i].status = "active" /\ subs[i].user = subs[j].user => j <= i

(* "All webhook processing is idempotent": the effects of an event are all *)
(* there or none, and once, whatever is delivered again or at once.        *)
AppliedOnce ==
    \A e \in Event :
        /\ charged[e] <= 1
        /\ charged[e] = 1 => log[event[e].id] = "processed"
        /\ event[e].type = "checkout" /\ event[e].gsub \in Stripe =>
             Cardinality({i \in Rows : subs[i].gsub = event[e].gsub}) = charged[e]

(* The gateway is never told of success, not even by "duplicate", for an   *)
(* event whose row is not committed: it would not deliver it again.        *)
AckedIsRecorded == \A e \in acked : Recorded(e)

(* The two, and that nothing of an event is ever taken back or added:      *)
(* requests, snapshots, constraints and rollbacks implement the ledger.    *)
Opened ==
    {e \in Event : /\ event[e].type = "checkout" /\ event[e].gsub \in Stripe
                   /\ \E i \in Rows : subs[i].gsub = event[e].gsub}
Ledger == INSTANCE EventLedger WITH
    Unknown <- NoGsub, id <- [e \in Event |-> event[e].id], verdict <- log,
    opened <- Opened, invoiced <- Cardinality(invoices)
ImplementsLedger == Ledger!Spec

(* A payment is refused its invoice number only because another payment    *)
(* was committed after its snapshot: count + 1 is free at the snapshot,    *)
(* over the change of the year too.                                        *)
NextNumberIsFree ==
    \A s \in Slot :
        /\ job[s].op = "webhook" \/ job[s].op = "checkout"
        /\ job[s].count = Cardinality(invoices)
        => InvoiceNumber(job[s].count) \notin invoices

(* "Only succeeded payments can be refunded": a payment says that it was   *)
(* refunded only if the gateway returned its charge, and of requests that  *)
(* overlap or come again one at most is told so.  (The reverse may fail: a *)
(* request that dies, or whose answer is lost, leaves "succeeded", and the *)
(* gateway refuses the next one.)                                          *)
RefundsAgree ==
    \A e \in Event :
        LET told == {s \in Refunding : job[s].payment = e /\ job[s].said = "yes"}
        IN  /\ e \in refunded \/ told # {} => e \in returned
            /\ Cardinality(told) <= (IF e \in refunded THEN 0 ELSE 1)

(* Every event that a gateway emits is recorded in the end. *)
EventsGetRecorded == \A e \in Event : event[e] # NotEmitted ~> Recorded(e)

(* "lets the billing service treat Stripe and Razorpay uniformly"          *)
(* (billing/base.py): a paid checkout that was processed, under its own    *)
(* id, has created its subscription.                                       *)
PaidCheckoutActivates ==
    \A e \in Event :
        event[e].type = "checkout" /\ event[e].id = e /\ log[e] = "processed" =>
            \E i \in Rows : subs[i].gsub = event[e].gsub

(* "Subscription will end at the period close." (endpoints/billing.py) *)
EndsAtPeriodClose ==
    \A i \in 1 .. MaxCheckouts :
        (i \in Rows /\ subs[i].atEnd /\ subs[i].over) ~> (i \in Rows /\ subs[i].status # "active")
=============================================================================
