--------------------------- MODULE BillingProofs ---------------------------
(***************************************************************************)
(* Type correctness and the safety of Billing, for any number of requests, *)
(* users, subscriptions and events.  Base is the invariant that all other  *)
(* parts build on: what a request has read of rows, payments and events    *)
(* stays there, since none of them is ever removed (Follows, JobsKeepType, *)
(* DeliveredIsEmitted).  TablesStep, Deliveries, InvoicesStep and          *)
(* RefundsMove say once what a step can do to each table, and each         *)
(* property has an inductive part of its own beside Base.                  *)
(***************************************************************************)
EXTENDS Billing, FiniteSetTheorems, TLAPS

Typed == TypeOK /\ IsFiniteSet(invoices)

(* What a step may do to the rows of subscriptions: they keep their user,  *)
(* their subscription at a gateway and their payment, and more may follow. *)
Follows(new, old) ==
    /\ new \in Seq(Row) /\ Len(new) >= Len(old)
    /\ \A i \in 1 .. Len(old) :
         new[i].user = old[i].user /\ new[i].gsub = old[i].gsub /\ new[i].demo = old[i].demo

LEMMA RowsAreRows ==
    ASSUME subs \in Seq(Row)
    PROVE  /\ Len(subs) \in Nat /\ Rows = 1 .. Len(subs)
           /\ \A i \in Rows : subs[i] \in Row
BY DEF Rows

(* The four ways in which the code writes subscriptions. *)
LEMMA Rewritten ==
    ASSUME subs \in Seq(Row), NEW new, new = [i \in Rows |-> new[i]],
           \A i \in Rows : /\ new[i] \in Row /\ new[i].user = subs[i].user
                           /\ new[i].gsub = subs[i].gsub /\ new[i].demo = subs[i].demo
    PROVE  Follows(new, subs) /\ Len(new) = Len(subs)
<1>1. new \in [1 .. Len(subs) -> Row]
    BY RowsAreRows
<1>2. new \in Seq(Row) /\ Len(new) = Len(subs)
    BY <1>1, RowsAreRows
<1> QED BY <1>2, RowsAreRows DEF Follows

LEMMA MarkedFollows ==
    ASSUME subs \in Seq(Row), NEW g, NEW status \in {"active", "past_due", "canceled"}
    PROVE  Follows(Marked(g, status), subs) /\ Len(Marked(g, status)) = Len(subs)
<1> DEFINE new == Marked(g, status)
<1>1. \A i \in Rows : new[i] \in Row /\ new[i].user = subs[i].user
                      /\ new[i].gsub = subs[i].gsub /\ new[i].demo = subs[i].demo
    BY RowsAreRows DEF Marked, Row
<1>2. new = [i \in Rows |-> new[i]]
    BY DEF Marked
<1> QED BY <1>1, <1>2, Rewritten

LEMMA ActivatedFollows ==
    ASSUME subs \in Seq(Row), NEW u \in User, NEW g \in Gsub \cup {NoGsub}, NEW demo \in BOOLEAN
    PROVE  /\ Follows(Activated(u, g, demo), subs)
           /\ Len(Activated(u, g, demo)) = Len(subs) + 1
           /\ Activated(u, g, demo)[Len(subs) + 1] = ActiveRow(u, g, demo)
           /\ \A i \in Rows : Activated(u, g, demo)[i] =
                 IF subs[i].user = u /\ subs[i].status \in {"active", "past_due"}
                 THEN [subs[i] EXCEPT !.status = "canceled"] ELSE subs[i]
<1> DEFINE old == [i \in Rows |-> IF subs[i].user = u /\ subs[i].status \in {"active", "past_due"}
                                  THEN [subs[i] EXCEPT !.status = "canceled"] ELSE subs[i]]
<1>1. \A i \in Rows : old[i] \in Row /\ old[i].user = subs[i].user
                      /\ old[i].gsub = subs[i].gsub /\ old[i].demo = subs[i].demo
    BY RowsAreRows DEF Row
<1>2. old = [i \in Rows |-> old[i]]
    OBVIOUS
<1> HIDE DEF old
<1>3. Follows(old, subs) /\ Len(old) = Len(subs)
    BY <1>1, <1>2, Rewritten
<1>4. ActiveRow(u, g, demo) \in Row
    BY DEF ActiveRow, Row
<1>5. Activated(u, g, demo) = Append(old, ActiveRow(u, g, demo))
    BY DEF Activated, old
<1>6. old \in Seq(Row) /\ Rows = 1 .. Len(subs) /\ Len(subs) \in Nat
    BY <1>3, RowsAreRows DEF Follows
<1>7. /\ Activated(u, g, demo) \in Seq(Row)
      /\ Len(Activated(u, g, demo)) = Len(subs) + 1
      /\ Activated(u, g, demo)[Len(subs) + 1] = ActiveRow(u, g, demo)
      /\ \A i \in Rows : Activated(u, g, demo)[i] = old[i]
    BY <1>3, <1>4, <1>5, <1>6
<1>8. Follows(Activated(u, g, demo), subs)
    BY <1>1, <1>6, <1>7 DEF Follows
<1> QED BY <1>7, <1>8 DEF old

LEMMA ChangedFollows ==
    ASSUME subs \in Seq(Row), NEW row \in Rows,
           NEW new, new \in {[subs EXCEPT ![row].atEnd = TRUE], [subs EXCEPT ![row].over = TRUE],
                             [subs EXCEPT ![row].status = "canceled"]}
    PROVE  Follows(new, subs) /\ Len(new) = Len(subs)
<1>1. \E r \in {[subs[row] EXCEPT !.atEnd = TRUE], [subs[row] EXCEPT !.over = TRUE],
                [subs[row] EXCEPT !.status = "canceled"]} : new = [subs EXCEPT ![row] = r]
    OBVIOUS
<1>2. PICK r \in {[subs[row] EXCEPT !.atEnd = TRUE], [subs[row] EXCEPT !.over = TRUE],
                 [subs[row] EXCEPT !.status = "canceled"]} : new = [subs EXCEPT ![row] = r]
    BY <1>1
<1>3. r \in Row /\ r.user = subs[row].user /\ r.gsub = subs[row].gsub /\ r.demo = subs[row].demo
    BY <1>2, RowsAreRows DEF Row
<1>4. subs = [i \in Rows |-> subs[i]]
    BY RowsAreRows
<1>5. new = [i \in Rows |-> IF i = row THEN r ELSE subs[i]]
    BY <1>2, <1>4
<1>6. \A i \in Rows : new[i] \in Row /\ new[i].user = subs[i].user
                      /\ new[i].gsub = subs[i].gsub /\ new[i].demo = subs[i].demo
    BY <1>3, <1>5, RowsAreRows
<1>7. new = [i \in Rows |-> new[i]]
    BY <1>5
<1> QED BY <1>6, <1>7, Rewritten

(* Rows and payments are never removed, so what a request has read of them *)
(* keeps its type.                                                         *)
LEMMA JobsKeepType ==
    ASSUME subs \in Seq(Row), Follows(subs', subs), charged \in [Event -> Nat],
           \A e \in Event : charged[e] > 0 => charged'[e] > 0
    PROVE  Rows \subseteq Rows' /\ Payments \subseteq Payments' /\ Job \subseteq Job'
<1>1. subs' \in Seq(Row) /\ Len(subs') >= Len(subs)
    BY DEF Follows
<1>2. Rows' = 1 .. Len(subs') /\ Len(subs') \in Nat /\ Rows = 1 .. Len(subs) /\ Len(subs) \in Nat
    BY <1>1, RowsAreRows DEF Rows
<1>3. Rows \subseteq Rows'
    BY <1>1, <1>2
<1>4. Payments \subseteq Payments'
    BY <1>2, <1>3 DEF Payments, Follows
<1>5. Job \subseteq Job'
    BY <1>3, <1>4 DEF Job
<1> QED BY <1>3, <1>4, <1>5

LEMMA NothingFollows ==
    ASSUME subs \in Seq(Row)
    PROVE  Follows(subs, subs)
BY RowsAreRows DEF Follows, Rows

LEMMA AppliedFollows ==
    ASSUME subs \in Seq(Row), NEW ev \in [type : Types, gsub : Gsub, id : EventId]
    PROVE  Follows(AppliedRows(ev), subs)
<1>1. ev.gsub \in Gsub /\ OwnerOf[ev.gsub] \in User /\ FALSE \in BOOLEAN
    BY BillingAssumption
<1>2. Follows(Activated(OwnerOf[ev.gsub], ev.gsub, FALSE), subs)
    BY <1>1, ActivatedFollows
<1>3. Follows(Marked(ev.gsub, "past_due"), subs) /\ Follows(Marked(ev.gsub, "canceled"), subs)
    BY MarkedFollows
<1> QED BY <1>2, <1>3, NothingFollows DEF AppliedRows

----------------------------------------------------------------------------
(* What each request carries, and that a delivered event was emitted. *)
LEMMA RequestsHold ==
    ASSUME TypeOK, NEW s \in Slot
    PROVE  /\ job[s] \in Job
           /\ job[s].op = "webhook" =>
                /\ job[s].event \in Event /\ job[s].seen \in BOOLEAN
                /\ job[s].known \in BOOLEAN /\ job[s].count \in Nat
           /\ job[s].op = "checkout" =>
                job[s].user \in User /\ job[s].pays \in BOOLEAN /\ job[s].count \in Nat
           /\ job[s].op = "cancel" => job[s].row \in Rows /\ job[s].atEnd \in BOOLEAN
           /\ job[s].op = "refund" =>
                /\ job[s].payment \in Payments
                /\ job[s] = [op |-> "refund", payment |-> job[s].payment, said |-> job[s].said]
BY DEF TypeOK, Job, Idle

(* The part of the invariant that every other part needs. *)
DeliveredIsEmitted ==
    \A s \in Slot : job[s].op = "webhook" => event[job[s].event] # NotEmitted
Base == Typed /\ DeliveredIsEmitted

LEMMA DeliveredEvent ==
    ASSUME Base, NEW s \in Slot, job[s].op = "webhook"
    PROVE  /\ job[s].event \in Event
           /\ event[job[s].event] \in [type : Types, gsub : Gsub, id : EventId]
BY RequestsHold DEF Base, Typed, TypeOK, DeliveredIsEmitted

LEMMA BaseInit == Init => Base
<1> SUFFICES ASSUME Init PROVE Base
    OBVIOUS
<1>1. subs \in Seq(Row) /\ IsFiniteSet(invoices)
    BY FS_EmptySet DEF Init
<1>2. job \in [Slot -> Job]
    BY DEF Init, Job
<1>3. TypeOK
    BY <1>1, <1>2, BillingAssumption DEF Init, TypeOK
<1>4. DeliveredIsEmitted
    BY DEF Init, DeliveredIsEmitted, Idle
<1> QED BY <1>1, <1>3, <1>4 DEF Base, Typed

(* A request that begins, goes on or ends leaves the others as they are. *)
LEMMA OneRequestMoves ==
    ASSUME Base, NEW s \in Slot, NEW j \in Job', Job \subseteq Job',
           job' = [job EXCEPT ![s] = j],
           \A e \in Event : event[e] # NotEmitted => event'[e] = event[e],
           j.op = "webhook" => event'[j.event] # NotEmitted
    PROVE  job' \in [Slot -> Job'] /\ DeliveredIsEmitted'
<1>1. job \in [Slot -> Job]
    BY DEF Base, Typed, TypeOK
<1>2. job' \in [Slot -> Job']
    BY <1>1
<1>3. ASSUME NEW r \in Slot, job'[r].op = "webhook" PROVE event'[job'[r].event] # NotEmitted
    <2>1. CASE r = s
        BY <2>1, <1>1, <1>3
    <2>2. CASE r # s
        <3>1. job'[r] = job[r]
            BY <2>2, <1>1
        <3>2. job[r].event \in Event /\ event[job[r].event] # NotEmitted
            BY <3>1, <1>3, RequestsHold DEF Base, Typed, DeliveredIsEmitted
        <3> QED BY <3>1, <3>2
    <2> QED BY <2>1, <2>2
<1> QED BY <1>2, <1>3 DEF DeliveredIsEmitted

LEMMA NothingRemoved ==
    ASSUME Base, UNCHANGED <<subs, charged>>
    PROVE  Rows' = Rows /\ Payments' = Payments /\ Job' = Job
BY DEF Rows, Payments, Job

LEMMA NumbersAreNumbers ==
    ASSUME Base, NEW count \in Nat
    PROVE  /\ InvoiceNumber(count) \in Nat \X Nat
           /\ IsFiniteSet(invoices \cup {InvoiceNumber(count)})
           /\ Cardinality(invoices) \in Nat
<1>1. IsFiniteSet(invoices) /\ year \in Nat
    BY BillingAssumption DEF Base, Typed, TypeOK
<1> DEFINE number == InvoiceNumber(count)
<1>2. number \in Nat \X Nat
    BY <1>1 DEF InvoiceNumber
<1> HIDE DEF number
<1>3. IsFiniteSet(invoices \cup {number}) /\ Cardinality(invoices) \in Nat
    BY <1>1, FS_AddElement, FS_CardinalityType
<1> QED BY <1>2, <1>3 DEF number

(* A request that opens. *)
LEMMA OpenKeepsBase ==
    ASSUME Base, NEW s \in Slot, NEW j \in Job, Open(s, j),
           j.op = "webhook" => event[j.event] # NotEmitted
    PROVE  Base'
<1>1. /\ job' = [job EXCEPT ![s] = j]
      /\ UNCHANGED <<year, gateway, acked, log, payments, subs, invoices>>
    BY DEF Open
<1>2. Job' = Job /\ Payments' = Payments
    BY <1>1, NothingRemoved DEF payments
<1>3. job' \in [Slot -> Job'] /\ DeliveredIsEmitted'
    BY <1>1, <1>2, OneRequestMoves DEF gateway
<1>4. TypeOK'
    BY <1>1, <1>2, <1>3 DEF Base, Typed, TypeOK, gateway, payments
<1> QED BY <1>1, <1>3, <1>4 DEF Base, Typed

LEMMA CountIsNumber ==
    ASSUME Base
    PROVE  Cardinality(invoices) \in Nat
BY FS_CardinalityType DEF Base, Typed

LEMMA OpeningKeepsBase ==
    ASSUME Base, NEW s \in Slot
    PROVE  /\ \A e \in Event : Deliver(s, e) => Base'
           /\ \A u \in User, pays \in BOOLEAN : Checkout(s, u, pays) => Base'
           /\ \A atEnd \in BOOLEAN : Cancel(s, atEnd) => Base'
           /\ \A p \in Refundable : Refund(s, p) => Base'
<1>1. ASSUME NEW e \in Event, Deliver(s, e) PROVE Base'
    <2> DEFINE j == [op |-> "webhook", event |-> e, seen |-> Seen(e),
                     known |-> \E i \in Rows : subs[i].gsub = event[e].gsub,
                     count |-> Cardinality(invoices)]
    <2>1. Seen(e) \in BOOLEAN /\ (\E i \in Rows : subs[i].gsub = event[e].gsub) \in BOOLEAN
        BY DEF Seen, Recorded
    <2>2. j \in Job
        BY <2>1, CountIsNumber DEF Job
    <2>3. Open(s, j) /\ event[e] # NotEmitted /\ j.event = e
        BY <1>1 DEF Deliver
    <2> QED BY <2>2, <2>3, OpenKeepsBase
<1>2. ASSUME NEW u \in User, NEW pays \in BOOLEAN, Checkout(s, u, pays) PROVE Base'
    <2> DEFINE j == [op |-> "checkout", user |-> u, pays |-> pays, count |-> Cardinality(invoices)]
    <2>1. j \in Job /\ j.op # "webhook"
        BY CountIsNumber DEF Job
    <2>2. Open(s, j)
        BY <1>2 DEF Checkout
    <2> QED BY <2>1, <2>2, OpenKeepsBase
<1>3. ASSUME NEW atEnd \in BOOLEAN, Cancel(s, atEnd) PROVE Base'
    <2>1. PICK i \in Rows : Open(s, [op |-> "cancel", row |-> i, atEnd |-> atEnd])
        BY <1>3 DEF Cancel, Active
    <2> DEFINE j == [op |-> "cancel", row |-> i, atEnd |-> atEnd]
    <2>2. j \in Job /\ j.op # "webhook"
        BY DEF Job
    <2> QED BY <2>1, <2>2, OpenKeepsBase
<1>4. ASSUME NEW p \in Refundable, Refund(s, p) PROVE Base'
    <2> DEFINE j == [op |-> "refund", payment |-> p, said |-> "nothing"]
    <2>1. j \in Job /\ j.op # "webhook"
        BY <1>4 DEF Job, Refund
    <2>2. Open(s, j)
        BY <1>4 DEF Refund
    <2> QED BY <2>1, <2>2, OpenKeepsBase
<1> QED BY <1>1, <1>2, <1>3, <1>4

(* A request that ends. *)
LEMMA CloseKeepsBase ==
    ASSUME Base, NEW s \in Slot, Close(s), Follows(subs', subs),
           acked' \subseteq Event, log' \in [EventId -> {"absent", "processed", "failed"}],
           charged' \in [Event -> Nat], \A e \in Event : charged'[e] >= charged[e],
           refunded' \subseteq Payments \cup refunded,
           invoices' \subseteq Nat \X Nat, IsFiniteSet(invoices')
    PROVE  Base'
<1>1. /\ job' = [job EXCEPT ![s] = Idle]
      /\ UNCHANGED <<year, bought, event, returned>>
    BY DEF Close, gateway
<1>2. Payments \subseteq Payments' /\ Job \subseteq Job'
    <2>1. \A e \in Event : charged[e] > 0 => charged'[e] > 0
        BY DEF Base, Typed, TypeOK
    <2> QED BY <2>1, JobsKeepType DEF Base, Typed, TypeOK
<1>3. Idle \in Job' /\ Idle.op # "webhook"
    BY DEF Job, Idle
<1>4. job' \in [Slot -> Job'] /\ DeliveredIsEmitted'
    BY <1>1, <1>2, <1>3, OneRequestMoves
<1>5. refunded' \subseteq Payments' /\ subs' \in Seq(Row)
    BY <1>2 DEF Base, Typed, TypeOK, Follows
<1>6. TypeOK'
    BY <1>1, <1>4, <1>5 DEF Base, Typed, TypeOK
<1> QED BY <1>4, <1>6 DEF Base, Typed

LEMMA RollBackKeepsBase ==
    ASSUME Base, NEW s \in Slot, RollBack(s)
    PROVE  Base'
<1>1. Close(s) /\ UNCHANGED <<acked, log, charged, refunded, subs, invoices>>
    BY DEF RollBack, payments
<1>2. /\ subs \in Seq(Row) /\ acked \subseteq Event /\ charged \in [Event -> Nat]
      /\ log \in [EventId -> {"absent", "processed", "failed"}]
      /\ invoices \subseteq Nat \X Nat /\ IsFiniteSet(invoices)
    BY DEF Base, Typed, TypeOK
<1>3. Follows(subs', subs)
    BY <1>1, <1>2, NothingFollows
<1>4. \A e \in Event : charged'[e] >= charged[e]
    BY <1>1, <1>2
<1> QED BY <1>1, <1>2, <1>3, <1>4, CloseKeepsBase

LEMMA WebhookKeepsBase ==
    ASSUME Base, NEW s \in Slot, AnswerWebhook(s) \/ ApplyFails(s)
    PROVE  Base'
<1> DEFINE e == job[s].event
           number == InvoiceNumber(job[s].count)
<1>1. /\ job[s].op = "webhook" /\ e \in Event /\ job[s].count \in Nat
      /\ event[e] \in [type : Types, gsub : Gsub, id : EventId]
    BY DeliveredEvent, RequestsHold DEF AnswerWebhook, ApplyFails, Base, Typed
<1>2. /\ subs \in Seq(Row) /\ acked \subseteq Event /\ charged \in [Event -> Nat]
      /\ log \in [EventId -> {"absent", "processed", "failed"}]
      /\ invoices \subseteq Nat \X Nat /\ IsFiniteSet(invoices)
    BY DEF Base, Typed, TypeOK
<1>3. Follows(subs, subs) /\ Follows(AppliedRows(event[e]), subs)
    BY <1>1, <1>2, NothingFollows, AppliedFollows
<1>4. number \in Nat \X Nat /\ IsFiniteSet(invoices \cup {number})
    BY <1>1, NumbersAreNumbers
<1> HIDE DEF number
<1>5. CASE Duplicate(s)
    <2>1. /\ Close(s) /\ acked' = acked \cup {e}
          /\ UNCHANGED <<log, charged, refunded, subs, invoices>>
        BY <1>5 DEF Duplicate, payments
    <2>2. Follows(subs', subs)
        BY <2>1, <1>3
    <2> QED BY <2>1, <2>2, <1>1, <1>2, CloseKeepsBase
<1>6. CASE Process(s)
    <2>1. CASE UniqueEvent(s) /\ ~(Pays(event[e], job[s].known) /\ number \in invoices)
        <3>1. /\ Close(s) /\ acked' = acked \cup {e} /\ UNCHANGED refunded
              /\ log' = [log EXCEPT ![event[e].id] = "processed"]
              /\ subs' = AppliedRows(event[e])
              /\ charged' \in {charged, [charged EXCEPT ![e] = @ + 1]}
              /\ invoices' \in {invoices, invoices \cup {number}}
            BY <1>6, <2>1 DEF Process, number
        <3>2. log' \in [EventId -> {"absent", "processed", "failed"}] /\ acked' \subseteq Event
            BY <3>1, <1>1, <1>2
        <3>5. charged' \in [Event -> Nat] /\ \A d \in Event : charged'[d] >= charged[d]
            <4>1. CASE charged' = charged
                BY <4>1, <1>2
            <4>2. CASE charged' = [charged EXCEPT ![e] = @ + 1]
                BY <4>2, <1>1, <1>2
            <4> QED BY <3>1, <4>1, <4>2
        <3>3. invoices' \subseteq Nat \X Nat /\ IsFiniteSet(invoices')
            BY <3>1, <1>2, <1>4
        <3>4. Follows(subs', subs)
            BY <3>1, <1>3
        <3> QED BY <3>1, <3>2, <3>3, <3>4, <3>5, CloseKeepsBase
    <2>2. CASE ~(UniqueEvent(s) /\ ~(Pays(event[e], job[s].known) /\ number \in invoices))
        <3>1. RollBack(s)
            BY <1>6, <2>2 DEF Process, number
        <3> QED BY <3>1, RollBackKeepsBase
    <2> QED BY <2>1, <2>2
<1>7. CASE ApplyFails(s)
    <2>1. /\ Close(s) /\ acked' = acked \cup {e}
          /\ log' = [log EXCEPT ![event[e].id] = "failed"]
          /\ UNCHANGED <<charged, refunded, subs, invoices>>
        BY <1>7 DEF ApplyFails, payments
    <2>2. log' \in [EventId -> {"absent", "processed", "failed"}] /\ acked' \subseteq Event
        BY <2>1, <1>1, <1>2
    <2>3. Follows(subs', subs)
        BY <2>1, <1>3
    <2> QED BY <2>1, <2>2, <2>3, <1>2, CloseKeepsBase
<1> QED BY <1>5, <1>6, <1>7, SMTT(40) DEF AnswerWebhook

LEMMA AnswersKeepBase ==
    ASSUME Base, NEW s \in Slot, AnswerCheckout(s) \/ AnswerCancel(s) \/ AnswerRefund(s) \/ Abort(s)
    PROVE  Base'
<1> DEFINE number == InvoiceNumber(job[s].count)
<1>2. /\ subs \in Seq(Row) /\ acked \subseteq Event /\ charged \in [Event -> Nat]
      /\ log \in [EventId -> {"absent", "processed", "failed"}]
      /\ invoices \subseteq Nat \X Nat /\ IsFiniteSet(invoices) /\ TypeOK
    BY DEF Base, Typed, TypeOK
<1>3. CASE AnswerCheckout(s)
    <2>1. job[s].user \in User /\ job[s].pays \in BOOLEAN /\ job[s].count \in Nat
        BY <1>2, <1>3, RequestsHold DEF AnswerCheckout
    <2>2. number \in Nat \X Nat /\ IsFiniteSet(invoices \cup {number})
        BY <2>1, NumbersAreNumbers
    <2>3. Follows(Activated(job[s].user, NoGsub, job[s].pays), subs)
        BY <1>2, <2>1, ActivatedFollows
    <2> HIDE DEF number
    <2>4. CASE job[s].pays /\ number \in invoices
        BY <1>3, <2>4, RollBackKeepsBase DEF AnswerCheckout, number
    <2>5. CASE ~(job[s].pays /\ number \in invoices)
        <3>1. /\ Close(s) /\ UNCHANGED <<acked, log, charged, refunded>>
              /\ subs' = Activated(job[s].user, NoGsub, job[s].pays)
              /\ invoices' \in {invoices, invoices \cup {number}}
            BY <1>3, <2>5 DEF AnswerCheckout, payments, number
        <3>2. invoices' \subseteq Nat \X Nat /\ IsFiniteSet(invoices')
            BY <3>1, <1>2, <2>2
        <3>3. Follows(subs', subs)
            BY <3>1, <2>3
        <3> QED BY <3>1, <3>2, <3>3, <1>2, CloseKeepsBase
    <2> QED BY <2>4, <2>5
<1>4. CASE AnswerCancel(s)
    <2>1. job[s].row \in Rows
        BY <1>2, <1>4, RequestsHold DEF AnswerCancel
    <2>2. /\ Close(s) /\ UNCHANGED <<acked, log, charged, refunded, invoices>>
          /\ subs' \in {[subs EXCEPT ![job[s].row].atEnd = TRUE], [subs EXCEPT ![job[s].row].over = TRUE],
                        [subs EXCEPT ![job[s].row].status = "canceled"]}
        BY <1>4 DEF AnswerCancel, payments
    <2>3. Follows(subs', subs)
        BY <2>1, <2>2, <1>2, ChangedFollows
    <2>4. /\ acked' \subseteq Event /\ log' \in [EventId -> {"absent", "processed", "failed"}]
          /\ charged' \in [Event -> Nat] /\ \A e \in Event : charged'[e] >= charged[e]
          /\ refunded' \subseteq Payments \cup refunded
          /\ invoices' \subseteq Nat \X Nat /\ IsFiniteSet(invoices') /\ Close(s)
        BY <2>2, <1>2
    <2> QED BY <2>3, <2>4, CloseKeepsBase
<1>5. CASE AnswerRefund(s)
    <2>1. job[s].payment \in Payments
        BY <1>2, <1>5, RequestsHold DEF AnswerRefund
    <2>2. /\ Close(s) /\ UNCHANGED <<acked, log, charged, subs, invoices>>
          /\ refunded' \in {refunded, refunded \cup {job[s].payment}}
        BY <1>5 DEF AnswerRefund
    <2>3. refunded' \subseteq Payments \cup refunded
        BY <2>1, <2>2
    <2>4. Follows(subs', subs)
        BY <2>2, <1>2, NothingFollows
    <2> QED BY <2>2, <2>3, <2>4, <1>2, CloseKeepsBase
<1>6. CASE Abort(s)
    BY <1>6, RollBackKeepsBase DEF Abort
<1> QED BY <1>3, <1>4, <1>5, <1>6

(* The gateways and the clock. *)
LEMMA SurroundingsKeepBase ==
    ASSUME Base
    PROVE  /\ \A g \in Gsub : Buy(g) => Base'
           /\ \A e \in Event, t \in Types, g \in Gsub : Emit(e, t, g) => Base'
           /\ \A s \in Slot : GatewayRefunds(s) => Base'
           /\ \A i \in Rows : PeriodEnds(i) => Base'
           /\ NewYear => Base'
<1>1. ASSUME NEW g \in Gsub, Buy(g) PROVE Base'
    <2>1. /\ bought' = bought \cup {g}
          /\ UNCHANGED <<year, event, returned, acked, log, charged, refunded, subs, invoices, job>>
        BY <1>1 DEF Buy, payments
    <2>2. Job' = Job /\ Payments' = Payments
        BY <2>1, NothingRemoved
    <2> QED BY <2>1, <2>2 DEF Base, Typed, TypeOK, DeliveredIsEmitted
<1>2. ASSUME NEW e \in Event, NEW t \in Types, NEW g \in Gsub, Emit(e, t, g) PROVE Base'
    <2>1. PICK id \in EventIds(e, g) :
             event' = [event EXCEPT ![e] = [type |-> t, gsub |-> g, id |-> id]]
        BY <1>2 DEF Emit
    <2>2. /\ event[e] = NotEmitted
          /\ UNCHANGED <<year, bought, returned, acked, log, charged, refunded, subs, invoices, job>>
        BY <1>2 DEF Emit, payments
    <2>3. id \in EventId
        BY DEF EventIds, StripeIds, RazorpayIds, EventId
    <2>4. event' \in [Event -> {NotEmitted} \cup [type : Types, gsub : Gsub, id : EventId]]
        BY <2>1, <2>3 DEF Base, Typed, TypeOK
    <2>5. Job' = Job /\ Payments' = Payments
        BY <2>2, NothingRemoved
    <2>6. TypeOK' /\ IsFiniteSet(invoices)'
        BY <2>2, <2>4, <2>5 DEF Base, Typed, TypeOK
    <2>7. ASSUME NEW s \in Slot, job'[s].op = "webhook" PROVE event'[job'[s].event] # NotEmitted
        <3>1. job[s].event \in Event /\ event[job[s].event] # NotEmitted
            BY <2>2, <2>7, RequestsHold DEF Base, Typed, DeliveredIsEmitted
        <3>2. job[s].event # e
            BY <3>1, <2>2
        <3> QED BY <3>1, <3>2, <2>1, <2>2
    <2> QED BY <2>6, <2>7 DEF Base, Typed, DeliveredIsEmitted
<1>3. ASSUME NEW s \in Slot, GatewayRefunds(s) PROVE Base'
    <2>1. PICK said \in {"yes", "no"} : job' = [job EXCEPT ![s].said = said]
        BY <1>3 DEF GatewayRefunds
    <2>2. /\ job[s].op = "refund" /\ returned' \in {returned, returned \cup {job[s].payment}}
          /\ job[s].payment \in Event
          /\ UNCHANGED <<year, bought, event, acked, log, charged, refunded, subs, invoices>>
        BY <1>3 DEF GatewayRefunds, payments
    <2> DEFINE j == [op |-> "refund", payment |-> job[s].payment, said |-> said]
    <2>3. Job' = Job /\ Payments' = Payments
        BY <2>2, NothingRemoved
    <2>4. /\ job[s].payment \in Payments
          /\ job[s] = [op |-> "refund", payment |-> job[s].payment, said |-> job[s].said]
        BY <2>2, RequestsHold DEF Base, Typed
    <2>5. j \in Job /\ j.op # "webhook"
        BY <2>4 DEF Job
    <2>6. [job[s] EXCEPT !.said = said] = j
        BY <2>4
    <2>7. job' = [job EXCEPT ![s] = j]
        BY <2>1, <2>6
    <2> HIDE DEF j
    <2>8. job' \in [Slot -> Job'] /\ DeliveredIsEmitted'
        BY <2>2, <2>3, <2>5, <2>7, OneRequestMoves
    <2>9. TypeOK'
        BY <2>2, <2>3, <2>8 DEF Base, Typed, TypeOK
    <2> QED BY <2>2, <2>8, <2>9 DEF Base, Typed
<1>4. ASSUME NEW i \in Rows, PeriodEnds(i) PROVE Base'
    <2>1. /\ subs' = [subs EXCEPT ![i].over = TRUE]
          /\ UNCHANGED <<year, bought, event, returned, acked, log, charged, refunded, invoices, job>>
        BY <1>4 DEF PeriodEnds, gateway, payments
    <2>2. Follows(subs', subs) /\ subs' \in Seq(Row)
        BY <2>1, ChangedFollows, ZenonT(60) DEF Base, Typed, TypeOK, Follows
    <2>3. Payments \subseteq Payments' /\ Job \subseteq Job'
        BY <2>1, <2>2, JobsKeepType DEF Base, Typed, TypeOK
    <2>4. TypeOK'
        BY <2>1, <2>2, <2>3 DEF Base, Typed, TypeOK
    <2> QED BY <2>1, <2>4 DEF Base, Typed, DeliveredIsEmitted
<1>5. ASSUME NewYear PROVE Base'
    <2>1. /\ year < LastYear /\ year' = year + 1
          /\ UNCHANGED <<bought, event, returned, acked, log, charged, refunded, subs, invoices, job>>
        BY <1>5 DEF NewYear, gateway, payments
    <2>2. Job' = Job /\ Payments' = Payments
        BY <2>1, NothingRemoved
    <2>3. year' \in 0 .. LastYear
        BY <2>1, BillingAssumption DEF Base, Typed, TypeOK
    <2> QED BY <2>1, <2>2, <2>3 DEF Base, Typed, TypeOK, DeliveredIsEmitted
<1> QED BY <1>1, <1>2, <1>3, <1>4, <1>5

LEMMA BaseStep == Base /\ [Next]_vars => Base'
<1> SUFFICES ASSUME Base, [Next]_vars PROVE Base'
    OBVIOUS
<1>1. CASE UNCHANGED vars
    <2>1. UNCHANGED <<year, bought, event, returned, acked, log, charged, refunded, subs, invoices, job>>
        BY <1>1 DEF vars, gateway, payments
    <2>2. Job' = Job /\ Payments' = Payments
        BY <2>1, NothingRemoved
    <2> QED BY <2>1, <2>2 DEF Base, Typed, TypeOK, DeliveredIsEmitted
<1>2. CASE \E g \in Gsub : StripeCheckout(g) \/ RazorpayCheckout(g)
    BY <1>2, SurroundingsKeepBase DEF StripeCheckout, RazorpayCheckout
<1>3. CASE \E e \in Event, t \in Types, g \in Gsub : Emit(e, t, g)
    BY <1>3, SurroundingsKeepBase
<1>4. ASSUME NEW s \in Slot,
             \/ \E e \in Event : Deliver(s, e)
             \/ \E u \in User, pays \in BOOLEAN : Checkout(s, u, pays)
             \/ \E atEnd \in BOOLEAN : Cancel(s, atEnd)
             \/ \E p \in Refundable : Refund(s, p)
      PROVE  Base'
    BY <1>4, OpeningKeepsBase
<1>5. ASSUME NEW s \in Slot, AnswerWebhook(s) \/ ApplyFails(s) PROVE Base'
    BY <1>5, WebhookKeepsBase
<1>6. ASSUME NEW s \in Slot, AnswerCheckout(s) \/ AnswerCancel(s) \/ AnswerRefund(s) \/ Abort(s)
      PROVE  Base'
    BY <1>6, AnswersKeepBase
<1>7. ASSUME NEW s \in Slot, GatewayRefunds(s) PROVE Base'
    BY <1>7, SurroundingsKeepBase
<1>8. CASE \E i \in Rows : PeriodEnds(i)
    BY <1>8, SurroundingsKeepBase
<1>9. CASE NewYear
    BY <1>9, SurroundingsKeepBase
<1> QED BY <1>1, <1>2, <1>3, <1>4, <1>5, <1>6, <1>7, <1>8, <1>9 DEF Next

(* Every variable keeps its type: a request to cancel or to refund still   *)
(* finds its row and its payment when it writes, for rows are never        *)
(* removed.                                                                *)
THEOREM BillingType == Spec => []TypeOK
<1>1. Base => TypeOK
    BY DEF Base, Typed
<1> QED BY <1>1, BaseInit, BaseStep, PTL DEF Spec

----------------------------------------------------------------------------
(* What a step can do to each table. *)

Activation(u, g, demo) == subs' = Activated(u, g, demo)
RowsUpdated ==
    \/ subs' = subs
    \/ \E g \in Gsub, status \in {"past_due", "canceled"} : subs' = Marked(g, status)
    \/ \E row \in Rows : subs' \in {[subs EXCEPT ![row].atEnd = TRUE], [subs EXCEPT ![row].over = TRUE],
                                   [subs EXCEPT ![row].status = "canceled"]}

(* A webhook that is processed. *)
Processes(s) ==
    LET e == job[s].event
    IN  /\ job[s].op = "webhook" /\ log[event[e].id] = "absent"
        /\ log' = [log EXCEPT ![event[e].id] = "processed"]
        /\ acked' = acked \cup {e}
        /\ subs' = AppliedRows(event[e])
        /\ charged' = (IF Pays(event[e], job[s].known) THEN [charged EXCEPT ![e] = @ + 1] ELSE charged)
        /\ IF Pays(event[e], job[s].known)
           THEN /\ InvoiceNumber(job[s].count) \notin invoices
                /\ invoices' = invoices \cup {InvoiceNumber(job[s].count)}
           ELSE invoices' = invoices
        /\ UNCHANGED <<event, returned, refunded>>

LEMMA TablesStep ==
    ASSUME Base, [Next]_vars
    PROVE  \/ UNCHANGED <<charged, log, event, acked>> /\ RowsUpdated
           \/ /\ UNCHANGED <<charged, log, event, acked>>
              /\ \E u \in User, demo \in BOOLEAN : Activation(u, NoGsub, demo)
           \/ /\ UNCHANGED <<charged, log, event, subs>> /\ invoices' = invoices
              /\ \E s \in Slot : /\ job[s].op = "webhook" /\ job[s].seen
                                 /\ acked' = acked \cup {job[s].event}
           \/ /\ UNCHANGED <<charged, event, subs>> /\ invoices' = invoices
              /\ \E s \in Slot : /\ job[s].op = "webhook"
                                 /\ acked' = acked \cup {job[s].event}
                                 /\ log[event[job[s].event].id] = "absent"
                                 /\ log' = [log EXCEPT ![event[job[s].event].id] = "failed"]
           \/ \E s \in Slot : Processes(s)
           \/ /\ UNCHANGED <<charged, log, subs, acked>> /\ invoices' = invoices
              /\ \E e \in Event, t \in Types, g \in Gsub : Emit(e, t, g)
<1>1. CASE UNCHANGED vars
    BY <1>1 DEF vars, gateway, payments, RowsUpdated
<1>2. CASE \E g \in Gsub : StripeCheckout(g) \/ RazorpayCheckout(g)
    BY <1>2 DEF StripeCheckout, RazorpayCheckout, Buy, payments, RowsUpdated
<1>3. CASE \E e \in Event, t \in Types, g \in Gsub : Emit(e, t, g)
    BY <1>3 DEF Emit, payments
<1>4. ASSUME NEW s \in Slot, NEW j, Open(s, j)
      PROVE  UNCHANGED <<charged, log, event, acked, subs>>
    BY <1>4 DEF Open, gateway, payments
<1>5. ASSUME NEW s \in Slot,
             \/ \E e \in Event : Deliver(s, e)
             \/ \E u \in User, pays \in BOOLEAN : Checkout(s, u, pays)
             \/ \E atEnd \in BOOLEAN : Cancel(s, atEnd)
             \/ \E p \in Refundable : Refund(s, p)
      PROVE  UNCHANGED <<charged, log, event, acked, subs>>
    BY <1>4, <1>5 DEF Deliver, Checkout, Cancel, Refund
<1>6. ASSUME NEW s \in Slot, RollBack(s)
      PROVE  UNCHANGED <<charged, log, event, acked, subs>>
    BY <1>6 DEF RollBack, Close, gateway, payments
<1>7. ASSUME NEW s \in Slot, job[s].op = "webhook", Duplicate(s)
      PROVE  /\ UNCHANGED <<charged, log, event, subs>> /\ invoices' = invoices /\ job[s].seen
             /\ acked' = acked \cup {job[s].event}
    BY <1>7 DEF Duplicate, Close, gateway, payments
<1>8. ASSUME NEW s \in Slot, job[s].op = "webhook", Process(s)
      PROVE  Processes(s) \/ RollBack(s)
    BY <1>8 DEF Process, Processes, UniqueEvent, Close, gateway
<1>9. ASSUME NEW s \in Slot, ApplyFails(s)
      PROVE  /\ UNCHANGED <<charged, event, subs>> /\ invoices' = invoices /\ job[s].op = "webhook"
             /\ acked' = acked \cup {job[s].event}
             /\ log[event[job[s].event].id] = "absent"
             /\ log' = [log EXCEPT ![event[job[s].event].id] = "failed"]
    BY <1>9 DEF ApplyFails, UniqueEvent, Close, gateway, payments
<1>10. ASSUME NEW s \in Slot, AnswerCheckout(s)
       PROVE  \/ RollBack(s)
              \/ /\ UNCHANGED <<charged, log, event, acked>>
                 /\ \E u \in User, demo \in BOOLEAN : Activation(u, NoGsub, demo)
    <2>1. job[s].user \in User /\ job[s].pays \in BOOLEAN
        BY <1>10, RequestsHold DEF AnswerCheckout, Base, Typed
    <2> QED BY <1>10, <2>1 DEF AnswerCheckout, Activation, Close, gateway, payments
<1>11. ASSUME NEW s \in Slot, AnswerCancel(s)
       PROVE  UNCHANGED <<charged, log, event, acked>> /\ RowsUpdated
    <2>1. job[s].row \in Rows
        BY <1>11, RequestsHold DEF AnswerCancel, Base, Typed
    <2> QED BY <1>11, <2>1 DEF AnswerCancel, Close, gateway, payments, RowsUpdated
<1>12. ASSUME NEW s \in Slot, GatewayRefunds(s) \/ AnswerRefund(s)
       PROVE  UNCHANGED <<charged, log, event, acked, subs>>
    BY <1>12 DEF GatewayRefunds, AnswerRefund, Close, gateway, payments
<1>13. ASSUME NEW i \in Rows, PeriodEnds(i)
       PROVE  UNCHANGED <<charged, log, event, acked>> /\ RowsUpdated
    BY <1>13 DEF PeriodEnds, gateway, payments, RowsUpdated
<1>14. CASE NewYear
    BY <1>14 DEF NewYear, gateway, payments, RowsUpdated
<1>15. UNCHANGED <<charged, log, event, acked, subs>>
         => UNCHANGED <<charged, log, event, acked>> /\ RowsUpdated
    BY DEF RowsUpdated
<1> QED
    BY <1>1, <1>2, <1>3, <1>5, <1>6, <1>7, <1>8, <1>9, <1>10, <1>11, <1>12, <1>13, <1>14, <1>15
    DEF Next, AnswerWebhook, Abort

----------------------------------------------------------------------------
(* Only the newest subscription of a user is active. *)

LEMMA NewestActivated ==
    ASSUME subs \in Seq(Row), OnlyNewestIsActive,
           NEW u \in User, NEW g \in Gsub \cup {NoGsub}, NEW demo \in BOOLEAN,
           Activation(u, g, demo)
    PROVE  OnlyNewestIsActive'
<1> DEFINE n == Len(subs)
<1>1. /\ n \in Nat /\ Rows = 1 .. n /\ \A i \in Rows : subs[i] \in Row
    BY RowsAreRows
<1>2. /\ subs' \in Seq(Row) /\ Len(subs') = n + 1
      /\ subs'[n + 1] = ActiveRow(u, g, demo)
      /\ \A i \in Rows : subs'[i] =
            IF subs[i].user = u /\ subs[i].status \in {"active", "past_due"}
            THEN [subs[i] EXCEPT !.status = "canceled"] ELSE subs[i]
    BY ActivatedFollows, ZenonT(60) DEF Activation, Follows
<1>3. Rows' = 1 .. n + 1
    BY <1>2, RowsAreRows DEF Rows
<1>4. subs'[n + 1].user = u
    BY <1>2 DEF ActiveRow
<1>5. \A i \in Rows : /\ subs'[i].user = subs[i].user
                      /\ subs'[i].status = "active" => subs[i].status = "active" /\ subs[i].user # u
    BY <1>1, <1>2 DEF Row
<1> SUFFICES ASSUME NEW i \in Rows', NEW j \in Rows',
                    subs'[i].status = "active", subs'[i].user = subs'[j].user
             PROVE  j <= i
    BY DEF OnlyNewestIsActive
<1>6. CASE i = n + 1
    BY <1>6, <1>1, <1>3
<1>7. CASE i \in Rows /\ j \in Rows
    BY <1>7, <1>5 DEF OnlyNewestIsActive
<1>8. CASE i \in Rows /\ j = n + 1
    BY <1>8, <1>4, <1>5
<1> QED BY <1>1, <1>3, <1>6, <1>7, <1>8

LEMMA NewestUpdated ==
    ASSUME subs \in Seq(Row), OnlyNewestIsActive, RowsUpdated
    PROVE  OnlyNewestIsActive'
<1> DEFINE Kept == /\ Rows' = Rows
                   /\ \A i \in Rows : /\ subs'[i].user = subs[i].user
                                      /\ subs'[i].status = "active" => subs[i].status = "active"
<1>1. Kept
    <2>1. CASE subs' = subs
        BY <2>1 DEF Rows
    <2>2. ASSUME NEW g \in Gsub, NEW status \in {"past_due", "canceled"}, subs' = Marked(g, status)
          PROVE  Kept
        BY <2>2, RowsAreRows DEF Marked, Row, Rows
    <2>3. ASSUME NEW row \in Rows,
                 subs' \in {[subs EXCEPT ![row].atEnd = TRUE], [subs EXCEPT ![row].over = TRUE],
                            [subs EXCEPT ![row].status = "canceled"]}
          PROVE  Kept
        <3>1. \E r \in {[subs[row] EXCEPT !.atEnd = TRUE], [subs[row] EXCEPT !.over = TRUE],
                        [subs[row] EXCEPT !.status = "canceled"]} : subs' = [subs EXCEPT ![row] = r]
            BY <2>3
        <3>2. PICK r \in {[subs[row] EXCEPT !.atEnd = TRUE], [subs[row] EXCEPT !.over = TRUE],
                         [subs[row] EXCEPT !.status = "canceled"]} : subs' = [subs EXCEPT ![row] = r]
            BY <3>1
        <3>3. r.user = subs[row].user /\ r.status \in {subs[row].status, "canceled"}
            BY <3>2, RowsAreRows DEF Row
        <3>4. subs = [i \in Rows |-> subs[i]]
            BY RowsAreRows
        <3>5. subs' = [i \in Rows |-> IF i = row THEN r ELSE subs[i]]
            BY <3>2, <3>4
        <3>6. Rows' = Rows
            BY <3>5 DEF Rows
        <3>7. \A i \in Rows : /\ subs'[i].user = subs[i].user
                              /\ subs'[i].status = "active" => subs[i].status = "active"
            <4>1. ASSUME NEW i \in Rows
                  PROVE  subs'[i] = IF i = row THEN r ELSE subs[i]
                BY <3>5
            <4> QED BY <3>3, <4>1
        <3> QED BY <3>6, <3>7
    <2> QED BY <2>1, <2>2, <2>3 DEF RowsUpdated
<1> QED BY <1>1 DEF OnlyNewestIsActive

LEMMA NewestStep == Base /\ OnlyNewestIsActive /\ [Next]_vars => OnlyNewestIsActive'
<1> SUFFICES ASSUME Base, OnlyNewestIsActive, [Next]_vars PROVE OnlyNewestIsActive'
    OBVIOUS
<1>1. subs \in Seq(Row)
    BY DEF Base, Typed, TypeOK
<1>2. CASE RowsUpdated
    BY <1>1, <1>2, NewestUpdated
<1>3. CASE \E u \in User, g \in Gsub \cup {NoGsub}, demo \in BOOLEAN : Activation(u, g, demo)
    BY <1>1, <1>3, NewestActivated, SMTT(40)
<1>4. ASSUME NEW s \in Slot, Processes(s)
      PROVE  \/ RowsUpdated
             \/ \E u \in User, g \in Gsub \cup {NoGsub}, demo \in BOOLEAN : Activation(u, g, demo)
    <2>1. event[job[s].event] \in [type : Types, gsub : Gsub, id : EventId]
        BY <1>4, DeliveredEvent DEF Processes
    <2>2. event[job[s].event].gsub \in Gsub /\ OwnerOf[event[job[s].event].gsub] \in User
        BY <2>1, BillingAssumption
    <2> QED BY <1>4, <2>2 DEF Processes, AppliedRows, RowsUpdated, Activation
<1>5. subs' = subs => RowsUpdated
    BY DEF RowsUpdated
<1> QED BY <1>2, <1>3, <1>4, <1>5, TablesStep

(* However activations, cancellations and late events interleave, only the *)
(* newest subscription of a user is active: an activation cancels what it  *)
(* finds when it writes, and nothing else makes a row active.              *)
THEOREM BillingOnlyNewestIsActive == Spec => []OnlyNewestIsActive
<1>1. Init => OnlyNewestIsActive
    BY DEF Init, OnlyNewestIsActive, Rows
<1> QED BY <1>1, BaseInit, BaseStep, NewestStep, PTL DEF Spec

----------------------------------------------------------------------------
(* The gateway is told of success only for events that are recorded. *)

(* An event keeps what it was emitted with, and its row is never removed. *)
LEMMA RecordsStay ==
    ASSUME Base, [Next]_vars
    PROVE  \A e \in Event : /\ event[e] # NotEmitted => event'[e] = event[e]
                            /\ Recorded(e) => Recorded(e)'
<1>1. event \in [Event -> {NotEmitted} \cup [type : Types, gsub : Gsub, id : EventId]]
      /\ log \in [EventId -> {"absent", "processed", "failed"}]
    BY DEF Base, Typed, TypeOK
<1>2. \A e \in Event : event[e] # NotEmitted => event'[e] = event[e]
    <2>1. CASE \E e \in Event, t \in Types, g \in Gsub : Emit(e, t, g)
        BY <2>1, <1>1 DEF Emit
    <2> QED BY <2>1, TablesStep DEF Processes
<1>3. \A k \in EventId : log[k] # "absent" => log'[k] # "absent"
    <2>1. ASSUME NEW s \in Slot, NEW status \in {"processed", "failed"}, job[s].op = "webhook",
                 log' = [log EXCEPT ![event[job[s].event].id] = status]
          PROVE  \A k \in EventId : log[k] # "absent" => log'[k] # "absent"
        BY <2>1, <1>1
    <2> QED BY <2>1, TablesStep DEF Processes
<1>4. \A e \in Event : event[e] # NotEmitted => event[e].id \in EventId
    BY <1>1
<1> QED BY <1>2, <1>3, <1>4 DEF Recorded

SeenIsRecorded ==
    \A s \in Slot : job[s].op = "webhook" /\ job[s].seen => Recorded(job[s].event)

(* A delivery in flight has begun in this step, or was there before. *)
LEMMA Deliveries ==
    ASSUME Base, [Next]_vars, NEW s \in Slot, job'[s].op = "webhook"
    PROVE  \/ job'[s] = job[s]
           \/ /\ UNCHANGED <<event, log, invoices>>
              /\ job'[s].event \in Event /\ job'[s].seen = Seen(job'[s].event)
              /\ job'[s].count = Cardinality(invoices)
<1>1. job \in [Slot -> Job]
    BY DEF Base, Typed, TypeOK
<1>2. UNCHANGED vars => job' = job
    BY DEF vars
<1>3. ASSUME NEW r \in Slot, Close(r) PROVE job'[s] = job[s]
    BY <1>1, <1>3 DEF Close, Idle
<1>4. ASSUME NEW r \in Slot, NEW e \in Event, Deliver(r, e)
      PROVE  \/ job'[s] = job[s]
             \/ /\ UNCHANGED <<event, log, invoices>>
                /\ job'[s].event \in Event /\ job'[s].seen = Seen(job'[s].event)
                /\ job'[s].count = Cardinality(invoices)
    BY <1>1, <1>4 DEF Deliver, Open, gateway
<1>5. ASSUME NEW r \in Slot, NEW j, j.op # "webhook", Open(r, j) PROVE job'[s] = job[s]
    BY <1>1, <1>5 DEF Open
<1>6. ASSUME NEW r \in Slot,
             \/ \E u \in User, pays \in BOOLEAN : Checkout(r, u, pays)
             \/ \E atEnd \in BOOLEAN : Cancel(r, atEnd)
             \/ \E p \in Refundable : Refund(r, p)
      PROVE  job'[s] = job[s]
    BY <1>5, <1>6 DEF Checkout, Cancel, Refund
<1>7. ASSUME NEW r \in Slot, GatewayRefunds(r) PROVE job'[s] = job[s]
    <2>1. PICK said : job[r].op = "refund" /\ job' = [job EXCEPT ![r].said = said]
        BY <1>7 DEF GatewayRefunds
    <2>2. job[r] = [op |-> "refund", payment |-> job[r].payment, said |-> job[r].said]
        BY <2>1, RequestsHold DEF Base, Typed
    <2>3. [job[r] EXCEPT !.said = said].op = "refund"
        BY <2>2
    <2> QED BY <1>1, <2>1, <2>3
<1>8. ASSUME NEW r \in Slot,
             AnswerWebhook(r) \/ ApplyFails(r) \/ AnswerCheckout(r) \/ AnswerCancel(r)
               \/ AnswerRefund(r) \/ Abort(r)
      PROVE  job'[s] = job[s]
    BY <1>3, <1>8 DEF AnswerWebhook, Duplicate, Process, RollBack, ApplyFails, AnswerCheckout,
                      AnswerCancel, AnswerRefund, Abort
<1>9. ASSUME \/ \E g \in Gsub : StripeCheckout(g) \/ RazorpayCheckout(g)
             \/ \E e \in Event, t \in Types, g \in Gsub : Emit(e, t, g)
             \/ \E i \in Rows : PeriodEnds(i)
             \/ NewYear
      PROVE  job' = job
    BY <1>9 DEF StripeCheckout, RazorpayCheckout, Buy, Emit, PeriodEnds, NewYear
<1> QED BY <1>2, <1>4, <1>6, <1>7, <1>8, <1>9 DEF Next

LEMMA SeenStep == Base /\ SeenIsRecorded /\ [Next]_vars => SeenIsRecorded'
<1> SUFFICES ASSUME Base, SeenIsRecorded, [Next]_vars,
                    NEW s \in Slot, job'[s].op = "webhook", job'[s].seen
             PROVE  Recorded(job[s].event)'
    BY DEF SeenIsRecorded
<1>1. CASE job'[s] = job[s]
    <2>1. job[s].event \in Event /\ Recorded(job[s].event)
        BY <1>1, RequestsHold DEF SeenIsRecorded, Base, Typed
    <2>2. PICK e \in Event : e = job[s].event
        BY <2>1
    <2>3. Recorded(e)'
        BY <2>1, <2>2, RecordsStay
    <2> QED BY <1>1, <2>2, <2>3 DEF Recorded
<1>2. CASE /\ UNCHANGED <<event, log, invoices>>
           /\ job'[s].event \in Event /\ job'[s].seen = Seen(job'[s].event)
    BY <1>2 DEF Seen, Recorded
<1> QED BY <1>1, <1>2, Deliveries

LEMMA AckedStep == Base /\ SeenIsRecorded /\ AckedIsRecorded /\ [Next]_vars => AckedIsRecorded'
<1> SUFFICES ASSUME Base, SeenIsRecorded, AckedIsRecorded, [Next]_vars, NEW e \in acked'
             PROVE  Recorded(e)'
    BY DEF AckedIsRecorded
<1>1. acked \subseteq Event /\ log \in [EventId -> {"absent", "processed", "failed"}]
    BY DEF Base, Typed, TypeOK
<1>2. CASE e \in acked
    BY <1>1, <1>2, RecordsStay DEF AckedIsRecorded
<1>3. ASSUME NEW s \in Slot, job[s].op = "webhook", job[s].seen, e = job[s].event
      PROVE  Recorded(e)'
    <2>1. e \in Event /\ Recorded(e)
        BY <1>3, RequestsHold DEF SeenIsRecorded, Base, Typed
    <2> QED BY <2>1, RecordsStay
<1>4. ASSUME NEW s \in Slot, NEW status \in {"processed", "failed"}, job[s].op = "webhook",
             e = job[s].event, event' = event, log' = [log EXCEPT ![event[e].id] = status]
      PROVE  Recorded(e)'
    <2>1. event[e] \in [type : Types, gsub : Gsub, id : EventId] /\ event[e] # NotEmitted
        BY <1>4, DeliveredEvent DEF Base, DeliveredIsEmitted
    <2>2. log'[event[e].id] # "absent"
        BY <1>1, <1>4, <2>1
    <2> QED BY <1>4, <2>1, <2>2 DEF Recorded
<1> QED BY <1>2, <1>3, <1>4, TablesStep DEF Processes

(* Duplicated, concurrent and failing deliveries: no event is answered with *)
(* success, not even as a duplicate, unless its row is committed.           *)
THEOREM BillingAckedIsRecorded == Spec => []AckedIsRecorded
<1>1. Init => SeenIsRecorded /\ AckedIsRecorded
    BY DEF Init, SeenIsRecorded, AckedIsRecorded, Idle
<1> QED BY <1>1, BaseInit, BaseStep, SeenStep, AckedStep, PTL DEF Spec

----------------------------------------------------------------------------
(* The effects of an event are there once or not at all. *)

Sold(g) == {i \in Rows : subs[i].gsub = g}
Single(S) == \E i : S = {i}
CheckoutOf(e, g) == event[e].type = "checkout" /\ event[e].gsub = g
ChargedOnce ==
    \A e \in Event :
        /\ charged[e] \in {0, 1}
        /\ charged[e] = 1 => event[e] # NotEmitted /\ log[event[e].id] = "processed"
OneCheckout ==
    \A d, e \in Event, g \in Stripe : CheckoutOf(d, g) /\ CheckoutOf(e, g) => d = e
SoldOnce ==
    \A g \in Stripe :
        /\ \A e \in Event : CheckoutOf(e, g) =>
              IF charged[e] = 0 THEN Sold(g) = {} ELSE Single(Sold(g))
        /\ (\A e \in Event : ~CheckoutOf(e, g)) => Sold(g) = {}
OnceInv == ChargedOnce /\ OneCheckout /\ SoldOnce

LEMMA OnceIsAppliedOnce == Base /\ OnceInv => AppliedOnce
<1> SUFFICES ASSUME Base, OnceInv, NEW e \in Event
             PROVE  /\ charged[e] <= 1
                    /\ charged[e] = 1 => log[event[e].id] = "processed"
                    /\ \A g \in Stripe : CheckoutOf(e, g) => Cardinality(Sold(g)) = charged[e]
    BY DEF AppliedOnce, CheckoutOf, Sold
<1>1. charged[e] \in {0, 1} /\ (charged[e] = 1 => log[event[e].id] = "processed")
    BY DEF OnceInv, ChargedOnce
<1>2. ASSUME NEW g \in Stripe, CheckoutOf(e, g) PROVE Cardinality(Sold(g)) = charged[e]
    <2>1. CASE charged[e] = 0
        <3>1. Sold(g) = {}
            BY <1>2, <2>1 DEF OnceInv, SoldOnce
        <3> QED BY <2>1, <3>1, FS_EmptySet
    <2>2. CASE charged[e] = 1
        <3>1. Single(Sold(g))
            BY <1>2, <2>2 DEF OnceInv, SoldOnce
        <3>2. PICK i : Sold(g) = {i}
            BY <3>1 DEF Single
        <3>3. Cardinality(Sold(g)) = 1
            BY <3>2, FS_Singleton
        <3> QED BY <2>2, <3>3
    <2> QED BY <1>1, <2>1, <2>2
<1> QED BY <1>1, <1>2

(* Updating rows sells nothing; an activation sells one row. *)
LEMMA UpdatesSellNothing ==
    ASSUME subs \in Seq(Row), RowsUpdated
    PROVE  \A g : Sold(g)' = Sold(g)
<1>1. Follows(subs', subs) /\ Len(subs') = Len(subs)
    BY NothingFollows, MarkedFollows, ChangedFollows DEF RowsUpdated
<1>2. Rows' = Rows /\ \A i \in Rows : subs'[i].gsub = subs[i].gsub
    BY <1>1, RowsAreRows DEF Follows, Rows
<1> QED BY <1>2 DEF Sold

LEMMA ActivationSells ==
    ASSUME subs \in Seq(Row), NEW u \in User, NEW h \in Gsub \cup {NoGsub}, NEW demo \in BOOLEAN,
           Activation(u, h, demo), NEW g
    PROVE  IF g = h THEN Sold(g)' = Sold(g) \cup {Len(subs) + 1} ELSE Sold(g)' = Sold(g)
<1> DEFINE n == Len(subs)
<1>1. n \in Nat /\ Rows = 1 .. n
    BY RowsAreRows
<1>2. /\ subs' \in Seq(Row) /\ Len(subs') = n + 1 /\ subs'[n + 1] = ActiveRow(u, h, demo)
      /\ \A i \in Rows : subs'[i].gsub = subs[i].gsub
    BY <1>1, ActivatedFollows DEF Activation, Follows
<1>3. Rows' = Rows \cup {n + 1} /\ n + 1 \notin Rows
    BY <1>1, <1>2 DEF Rows
<1>4. subs'[n + 1].gsub = h
    BY <1>2 DEF ActiveRow
<1>5. Sold(g)' = {i \in Rows' : subs'[i].gsub = g}
    BY DEF Sold
<1>6. CASE g = h
    BY <1>2, <1>3, <1>4, <1>5, <1>6 DEF Sold
<1>7. CASE g # h
    BY <1>2, <1>3, <1>4, <1>5, <1>7 DEF Sold
<1> QED BY <1>6, <1>7

(* A step that emits and charges nothing, and sells nothing at Stripe. *)
LEMMA OnceKept ==
    ASSUME Base, OnceInv, UNCHANGED <<charged, event>>,
           \A k \in EventId : log[k] = "processed" => log'[k] = "processed",
           \A g \in Stripe : Sold(g)' = Sold(g)
    PROVE  OnceInv'
<1>1. \A e \in Event : event[e] # NotEmitted => event[e].id \in EventId
    BY DEF Base, Typed, TypeOK
<1>2. ChargedOnce'
    BY <1>1 DEF OnceInv, ChargedOnce
<1>3. \A e, g : CheckoutOf(e, g)' <=> CheckoutOf(e, g)
    BY DEF CheckoutOf
<1>4. OneCheckout'
    BY <1>3 DEF OnceInv, OneCheckout
<1>5. SoldOnce'
    BY <1>3 DEF OnceInv, SoldOnce, Single
<1> QED BY <1>2, <1>4, <1>5 DEF OnceInv

LEMMA OnceEmitted ==
    ASSUME Base, OnceInv, UNCHANGED <<charged, log, subs>>,
           NEW e \in Event, NEW t \in Types, NEW h \in Gsub, Emit(e, t, h)
    PROVE  OnceInv'
<1>1. PICK id : event' = [event EXCEPT ![e] = [type |-> t, gsub |-> h, id |-> id]]
    BY DEF Emit
<1>2. /\ event[e] = NotEmitted /\ charged[e] = 0
      /\ t = "checkout" => \A d \in Event : event[d].gsub # h
    BY DEF Emit, OnceInv, ChargedOnce
<1>3. /\ event'[e] = [type |-> t, gsub |-> h, id |-> id]
      /\ \A d \in Event \ {e} : event'[d] = event[d]
    BY <1>1 DEF Base, Typed, TypeOK
<1>4. \A g : Sold(g)' = Sold(g)
    BY DEF Sold, Rows
<1>5. ChargedOnce'
    BY <1>2, <1>3 DEF OnceInv, ChargedOnce
<1>6. ASSUME NEW g \in Stripe
      PROVE  /\ \A d \in Event \ {e} : CheckoutOf(d, g)' <=> CheckoutOf(d, g)
             /\ CheckoutOf(e, g)' <=> t = "checkout" /\ g = h
             /\ ~CheckoutOf(e, g)
    BY <1>2, <1>3 DEF CheckoutOf, NotEmitted
<1>7. ASSUME NEW g \in Stripe, CheckoutOf(e, g)' PROVE \A d \in Event : ~CheckoutOf(d, g)
    BY <1>2, <1>6, <1>7 DEF CheckoutOf
<1>8. OneCheckout'
    BY <1>6, <1>7 DEF OnceInv, OneCheckout
<1>9. ASSUME NEW g \in Stripe, NEW d \in Event, CheckoutOf(d, g)'
      PROVE  IF charged[d] = 0 THEN Sold(g) = {} ELSE Single(Sold(g))
    <2>1. CASE d = e
        BY <1>2, <1>7, <1>9, <2>1 DEF OnceInv, SoldOnce
    <2>2. CASE d # e
        BY <1>6, <1>9, <2>2 DEF OnceInv, SoldOnce
    <2> QED BY <2>1, <2>2
<1>10. ASSUME NEW g \in Stripe, \A d \in Event : ~CheckoutOf(d, g)'
       PROVE  Sold(g) = {}
    BY <1>6, <1>10 DEF OnceInv, SoldOnce
<1>11. SoldOnce'
    BY <1>4, <1>9, <1>10 DEF SoldOnce, Single
<1> QED BY <1>5, <1>8, <1>11 DEF OnceInv

LEMMA OnceProcessed ==
    ASSUME Base, OnceInv, NEW s \in Slot, Processes(s)
    PROVE  OnceInv'
<1>1. PICK e \in Event :
         /\ e = job[s].event /\ event[e] \in [type : Types, gsub : Gsub, id : EventId]
         /\ event[e] # NotEmitted
    BY DeliveredEvent DEF Processes, Base, DeliveredIsEmitted
<1>2. /\ subs \in Seq(Row) /\ charged \in [Event -> Nat]
      /\ log \in [EventId -> {"absent", "processed", "failed"}]
    BY DEF Base, Typed, TypeOK
<1>3. /\ event' = event /\ log[event[e].id] = "absent"
      /\ log' = [log EXCEPT ![event[e].id] = "processed"]
      /\ charged' = (IF Pays(event[e], job[s].known) THEN [charged EXCEPT ![e] = @ + 1] ELSE charged)
      /\ subs' = AppliedRows(event[e])
    BY <1>1 DEF Processes
<1>4. charged[e] = 0
    BY <1>1, <1>3 DEF OnceInv, ChargedOnce
<1>5. \A k \in EventId : log[k] = "processed" => log'[k] = "processed"
    BY <1>1, <1>2, <1>3
<1>6. log'[event[e].id] = "processed"
    BY <1>1, <1>2, <1>3
<1>7. ChargedOnce'
    <2>1. \A d \in Event : charged'[d] = charged[d] \/ (d = e /\ charged'[d] = 1)
        BY <1>1, <1>2, <1>3, <1>4
    <2>2. \A d \in Event : event[d] # NotEmitted => event[d].id \in EventId
        BY DEF Base, Typed, TypeOK
    <2> QED BY <1>1, <1>3, <1>5, <1>6, <2>1, <2>2 DEF OnceInv, ChargedOnce
<1>8. \A d, g : CheckoutOf(d, g)' <=> CheckoutOf(d, g)
    BY <1>3 DEF CheckoutOf
<1>9. OneCheckout'
    BY <1>8 DEF OnceInv, OneCheckout
<1>10. ASSUME NEW h \in Stripe, CheckoutOf(e, h) PROVE SoldOnce'
    <2>1. OwnerOf[h] \in User /\ h \in Gsub /\ FALSE \in BOOLEAN
        BY BillingAssumption
    <2>2. Activation(OwnerOf[h], h, FALSE)
        BY <1>3, <1>10 DEF AppliedRows, Activation, CheckoutOf
    <2>3. \A g : IF g = h THEN Sold(g)' = Sold(g) \cup {Len(subs) + 1} ELSE Sold(g)' = Sold(g)
        BY <1>2, <2>1, <2>2, ActivationSells
    <2>4. Sold(h) = {}
        BY <1>1, <1>4, <1>10 DEF OnceInv, SoldOnce
    <2>5. Single(Sold(h)')
        <3>1. Sold(h)' = Sold(h) \cup {Len(subs) + 1}
            BY <2>3
        <3> QED BY <2>4, <3>1 DEF Single
    <2>6. charged' = [charged EXCEPT ![e] = @ + 1]
        BY <1>3, <1>10 DEF Pays, CheckoutOf
    <2>7. charged'[e] = 1 /\ \A d \in Event \ {e} : charged'[d] = charged[d]
        BY <1>1, <1>2, <1>4, <2>6
    <2>8. ASSUME NEW g \in Stripe, NEW d \in Event, CheckoutOf(d, g)
          PROVE  IF charged'[d] = 0 THEN Sold(g)' = {} ELSE Single(Sold(g)')
        <3>1. CASE g = h
            <4>1. d = e
                BY <1>1, <1>10, <2>8, <3>1 DEF OnceInv, OneCheckout
            <4> QED BY <2>5, <2>7, <3>1, <4>1
        <3>2. CASE g # h
            <4>1. d # e
                BY <1>10, <2>8, <3>2 DEF CheckoutOf
            <4>2. Sold(g)' = Sold(g)
                BY <2>3, <3>2
            <4> QED BY <2>7, <2>8, <4>1, <4>2 DEF OnceInv, SoldOnce
        <3> QED BY <3>1, <3>2
    <2>9. ASSUME NEW g \in Stripe, \A d \in Event : ~CheckoutOf(d, g)
          PROVE  Sold(g)' = {}
        <3>1. Sold(g)' = Sold(g)
            BY <1>1, <1>10, <2>3, <2>9
        <3> QED BY <2>9, <3>1 DEF OnceInv, SoldOnce
    <2> QED BY <1>8, <2>8, <2>9 DEF SoldOnce, Single
<1>11. ASSUME \A g \in Stripe : ~CheckoutOf(e, g) PROVE SoldOnce'
    <2>1. RowsUpdated
        BY <1>1, <1>3, <1>11 DEF AppliedRows, RowsUpdated, CheckoutOf
    <2>2. \A g : Sold(g)' = Sold(g)
        BY <1>2, <2>1, UpdatesSellNothing
    <2>3. \A d \in Event, g \in Stripe : CheckoutOf(d, g) => charged'[d] = charged[d]
        BY <1>1, <1>2, <1>3, <1>11
    <2> QED BY <1>8, <2>2, <2>3 DEF OnceInv, SoldOnce, Single
<1> QED BY <1>7, <1>9, <1>10, <1>11 DEF OnceInv

LEMMA OnceStep == Base /\ OnceInv /\ [Next]_vars => OnceInv'
<1> SUFFICES ASSUME Base, OnceInv, [Next]_vars PROVE OnceInv'
    OBVIOUS
<1>1. subs \in Seq(Row) /\ log \in [EventId -> {"absent", "processed", "failed"}]
    BY DEF Base, Typed, TypeOK
<1>2. CASE UNCHANGED <<charged, log, event, acked>> /\ RowsUpdated
    <2>1. \A g : Sold(g)' = Sold(g)
        BY <1>1, <1>2, UpdatesSellNothing
    <2> QED BY <1>2, <2>1, OnceKept
<1>3. ASSUME UNCHANGED <<charged, log, event>>,
             NEW u \in User, NEW demo \in BOOLEAN, Activation(u, NoGsub, demo)
      PROVE  OnceInv'
    <2>1. \A g \in Stripe : g # NoGsub
        BY BillingAssumption
    <2>2. \A g \in Stripe : Sold(g)' = Sold(g)
        BY <1>1, <1>3, <2>1, ActivationSells
    <2> QED BY <1>3, <2>2, OnceKept
<1>4. CASE UNCHANGED <<charged, log, event, subs>>
    <2>1. \A g : Sold(g)' = Sold(g)
        BY <1>4 DEF Sold, Rows
    <2> QED BY <1>4, <2>1, OnceKept
<1>5. ASSUME UNCHANGED <<charged, event, subs>>, NEW s \in Slot, job[s].op = "webhook",
             log[event[job[s].event].id] = "absent",
             log' = [log EXCEPT ![event[job[s].event].id] = "failed"]
      PROVE  OnceInv'
    <2>1. \A g : Sold(g)' = Sold(g)
        BY <1>5 DEF Sold, Rows
    <2>2. \A k \in EventId : log[k] = "processed" => log'[k] = "processed"
        BY <1>1, <1>5
    <2> QED BY <1>5, <2>1, <2>2, OnceKept
<1>6. ASSUME NEW s \in Slot, Processes(s) PROVE OnceInv'
    BY <1>6, OnceProcessed
<1>7. ASSUME UNCHANGED <<charged, log, subs, acked>>,
             NEW e \in Event, NEW t \in Types, NEW g \in Gsub, Emit(e, t, g)
      PROVE  OnceInv'
    BY <1>7, OnceEmitted
<1> QED BY <1>2, <1>3, <1>4, <1>5, <1>6, <1>7, TablesStep

(* An event is charged once, and its checkout creates one subscription,    *)
(* whatever is delivered again, at once or in another order, and whatever  *)
(* fails on the way.                                                       *)
THEOREM BillingAppliedOnce == Spec => []AppliedOnce
<1>1. Init => OnceInv
    BY BillingAssumption
    DEF Init, OnceInv, ChargedOnce, OneCheckout, SoldOnce, CheckoutOf, Sold, Rows, NotEmitted
<1> QED BY <1>1, BaseInit, BaseStep, OnceStep, OnceIsAppliedOnce, PTL DEF Spec

----------------------------------------------------------------------------
(* A number after the count of the invoices is free. *)

Pending(s) == job[s].op = "webhook" \/ job[s].op = "checkout"
NumbersInv ==
    /\ \A number \in invoices : number[2] <= Cardinality(invoices)
    /\ \A s \in Slot : Pending(s) => job[s].count <= Cardinality(invoices)

LEMMA NumbersAreFree == Base /\ NumbersInv => NextNumberIsFree
<1> SUFFICES ASSUME Base, NumbersInv, NEW s \in Slot,
                    job[s].count = Cardinality(invoices),
                    InvoiceNumber(job[s].count) \in invoices
             PROVE  FALSE
    BY DEF NextNumberIsFree
<1>1. InvoiceNumber(job[s].count)[2] = Cardinality(invoices) + 1
    BY DEF InvoiceNumber
<1> QED BY <1>1, CountIsNumber DEF NumbersInv

(* A payment that is recorded had its number from its own snapshot. *)
LEMMA InvoicesStep ==
    ASSUME Base, [Next]_vars
    PROVE  \/ invoices' = invoices
           \/ \E s \in Slot :
                /\ Pending(s) /\ InvoiceNumber(job[s].count) \notin invoices
                /\ invoices' = invoices \cup {InvoiceNumber(job[s].count)}
                /\ Close(s)
<1>1. UNCHANGED vars => invoices' = invoices
    BY DEF vars
<1>2. ASSUME NEW s \in Slot, NEW j, Open(s, j) PROVE invoices' = invoices
    BY <1>2 DEF Open
<1>3. ASSUME NEW s \in Slot,
             \/ \E e \in Event : Deliver(s, e)
             \/ \E u \in User, pays \in BOOLEAN : Checkout(s, u, pays)
             \/ \E atEnd \in BOOLEAN : Cancel(s, atEnd)
             \/ \E p \in Refundable : Refund(s, p)
      PROVE  invoices' = invoices
    BY <1>2, <1>3 DEF Deliver, Checkout, Cancel, Refund
<1>4. ASSUME NEW s \in Slot, AnswerWebhook(s)
      PROVE  \/ invoices' = invoices
             \/ /\ Pending(s) /\ InvoiceNumber(job[s].count) \notin invoices
                /\ invoices' = invoices \cup {InvoiceNumber(job[s].count)}
                /\ Close(s)
    BY <1>4 DEF AnswerWebhook, Duplicate, Process, RollBack, Pending
<1>5. ASSUME NEW s \in Slot, AnswerCheckout(s)
      PROVE  \/ invoices' = invoices
             \/ /\ Pending(s) /\ InvoiceNumber(job[s].count) \notin invoices
                /\ invoices' = invoices \cup {InvoiceNumber(job[s].count)}
                /\ Close(s)
    BY <1>5 DEF AnswerCheckout, RollBack, Pending
<1>6. ASSUME NEW s \in Slot,
             ApplyFails(s) \/ AnswerCancel(s) \/ GatewayRefunds(s) \/ AnswerRefund(s) \/ Abort(s)
      PROVE  invoices' = invoices
    BY <1>6 DEF ApplyFails, AnswerCancel, GatewayRefunds, AnswerRefund, Abort, RollBack
<1>7. ASSUME \/ \E g \in Gsub : StripeCheckout(g) \/ RazorpayCheckout(g)
             \/ \E e \in Event, t \in Types, g \in Gsub : Emit(e, t, g)
             \/ \E i \in Rows : PeriodEnds(i)
             \/ NewYear
      PROVE  invoices' = invoices
    BY <1>7 DEF StripeCheckout, RazorpayCheckout, Buy, Emit, PeriodEnds, NewYear
<1> QED BY <1>1, <1>3, <1>4, <1>5, <1>6, <1>7 DEF Next

LEMMA Checkouts ==
    ASSUME Base, [Next]_vars, NEW s \in Slot, job'[s].op = "checkout"
    PROVE  job'[s] = job[s] \/ (job'[s].count = Cardinality(invoices) /\ UNCHANGED invoices)
<1>1. job \in [Slot -> Job]
    BY DEF Base, Typed, TypeOK
<1>2. UNCHANGED vars => job' = job
    BY DEF vars
<1>3. ASSUME NEW r \in Slot, Close(r) PROVE job'[s] = job[s]
    BY <1>1, <1>3 DEF Close, Idle
<1>4. ASSUME NEW r \in Slot, NEW u \in User, NEW pays \in BOOLEAN, Checkout(r, u, pays)
      PROVE  job'[s] = job[s] \/ (job'[s].count = Cardinality(invoices) /\ UNCHANGED invoices)
    BY <1>1, <1>4 DEF Checkout, Open
<1>5. ASSUME NEW r \in Slot, NEW j, j.op # "checkout", Open(r, j) PROVE job'[s] = job[s]
    BY <1>1, <1>5 DEF Open
<1>6. ASSUME NEW r \in Slot,
             \/ \E e \in Event : Deliver(r, e)
             \/ \E atEnd \in BOOLEAN : Cancel(r, atEnd)
             \/ \E p \in Refundable : Refund(r, p)
      PROVE  job'[s] = job[s]
    BY <1>5, <1>6 DEF Deliver, Cancel, Refund
<1>7. ASSUME NEW r \in Slot, GatewayRefunds(r) PROVE job'[s] = job[s]
    <2>1. PICK said : job[r].op = "refund" /\ job' = [job EXCEPT ![r].said = said]
        BY <1>7 DEF GatewayRefunds
    <2>2. job[r] = [op |-> "refund", payment |-> job[r].payment, said |-> job[r].said]
        BY <2>1, RequestsHold DEF Base, Typed
    <2>3. [job[r] EXCEPT !.said = said].op = "refund"
        BY <2>2
    <2> QED BY <1>1, <2>1, <2>3
<1>8. ASSUME NEW r \in Slot,
             AnswerWebhook(r) \/ ApplyFails(r) \/ AnswerCheckout(r) \/ AnswerCancel(r)
               \/ AnswerRefund(r) \/ Abort(r)
      PROVE  job'[s] = job[s]
    BY <1>3, <1>8 DEF AnswerWebhook, Duplicate, Process, RollBack, ApplyFails, AnswerCheckout,
                      AnswerCancel, AnswerRefund, Abort
<1>9. ASSUME \/ \E g \in Gsub : StripeCheckout(g) \/ RazorpayCheckout(g)
             \/ \E e \in Event, t \in Types, g \in Gsub : Emit(e, t, g)
             \/ \E i \in Rows : PeriodEnds(i)
             \/ NewYear
      PROVE  job' = job
    BY <1>9 DEF StripeCheckout, RazorpayCheckout, Buy, Emit, PeriodEnds, NewYear
<1> QED BY <1>2, <1>4, <1>6, <1>7, <1>8, <1>9 DEF Next

LEMMA NumbersStep == Base /\ NumbersInv /\ [Next]_vars => NumbersInv'
<1> SUFFICES ASSUME Base, NumbersInv, [Next]_vars PROVE NumbersInv'
    OBVIOUS
<1> DEFINE card == Cardinality(invoices)
<1>1. card \in Nat /\ IsFiniteSet(invoices)
    BY CountIsNumber DEF Base, Typed
<1>2. card' \in Nat /\ card' >= card
      /\ \A number \in invoices' : number[2] <= card'
    <2>1. CASE invoices' = invoices
        BY <1>1, <2>1 DEF NumbersInv
    <2>2. ASSUME NEW s \in Slot, Pending(s), InvoiceNumber(job[s].count) \notin invoices,
                 invoices' = invoices \cup {InvoiceNumber(job[s].count)}
          PROVE  card' = card + 1 /\ \A number \in invoices' : number[2] <= card'
        <3> DEFINE new == InvoiceNumber(job[s].count)
        <3>1. job[s].count \in Nat /\ job[s].count <= card
            BY <2>2, RequestsHold DEF Pending, NumbersInv, Base, Typed
        <3>2. new[2] = job[s].count + 1
            BY DEF InvoiceNumber
        <3> HIDE DEF new
        <3>3. Cardinality(invoices \cup {new}) = card + 1
            BY <1>1, <2>2, FS_AddElement DEF new
        <3>4. card' = card + 1
            BY <2>2, <3>3 DEF new
        <3>5. \A number \in invoices : number[2] <= card
            BY DEF NumbersInv
        <3>6. invoices \subseteq Nat \X Nat
            BY DEF Base, Typed, TypeOK
        <3>7. ASSUME NEW number \in invoices' PROVE number[2] <= card + 1
            <4>1. CASE number \in invoices
                <5>1. number[2] \in Nat /\ number[2] <= card
                    BY <3>5, <3>6, <4>1
                <5> HIDE DEF card
                <5> QED BY <1>1, <5>1
            <4>2. CASE number = new
                BY <1>1, <3>1, <3>2, <4>2
            <4> QED BY <2>2, <4>1, <4>2 DEF new
        <3> QED BY <3>4, <3>7
    <2> QED BY <1>1, <2>1, <2>2, InvoicesStep
<1>3. ASSUME NEW s \in Slot, Pending(s)' PROVE job'[s].count <= card'
    <2>1. CASE job'[s] = job[s]
        <3>1. job[s].count \in Nat /\ job[s].count <= card
            BY <1>3, <2>1, RequestsHold DEF Pending, NumbersInv, Base, Typed
        <3> QED BY <1>1, <1>2, <2>1, <3>1
    <2>2. CASE job'[s].count = card /\ UNCHANGED invoices
        BY <1>1, <2>2
    <2> QED BY <1>3, <2>1, <2>2, Deliveries, Checkouts DEF Pending
<1> QED BY <1>2, <1>3 DEF NumbersInv

(* Numbering by the count never runs into a number that was given: a       *)
(* payment is refused its number only because another one was committed    *)
(* after its snapshot, in any year.                                        *)
THEOREM BillingNextNumberIsFree == Spec => []NextNumberIsFree
<1>1. Init => NumbersInv
    BY DEF Init, NumbersInv, Pending, Idle
<1> QED BY <1>1, BaseInit, BaseStep, NumbersStep, NumbersAreFree, PTL DEF Spec

----------------------------------------------------------------------------
(* Refunded payments were returned, and one request is told so. *)

Told(s, e) == job[s].op = "refund" /\ job[s].payment = e /\ job[s].said = "yes"
RefundsInv ==
    \A e \in Event :
        /\ e \in refunded => e \in returned
        /\ \A s \in Slot : Told(s, e) => e \in returned /\ e \notin refunded
        /\ \A s, r \in Slot : Told(s, e) /\ Told(r, e) => s = r

LEMMA RefundsInvAgree == RefundsInv => RefundsAgree
<1> SUFFICES ASSUME RefundsInv, NEW e \in Event
             PROVE  LET told == {s \in Refunding : job[s].payment = e /\ job[s].said = "yes"}
                    IN  /\ e \in refunded \/ told # {} => e \in returned
                        /\ Cardinality(told) <= (IF e \in refunded THEN 0 ELSE 1)
    BY DEF RefundsAgree
<1> DEFINE told == {s \in Refunding : job[s].payment = e /\ job[s].said = "yes"}
<1>1. \A s : s \in told <=> s \in Slot /\ Told(s, e)
    BY DEF Refunding, Told
<1> HIDE DEF told
<1>2. CASE told = {}
    <2>1. Cardinality(told) = 0
        BY <1>2, FS_EmptySet
    <2> QED BY <1>2, <2>1 DEF RefundsInv, told
<1>3. ASSUME NEW s, s \in told
      PROVE  /\ e \in returned /\ e \notin refunded
             /\ Cardinality(told) = 1
    <2>1. s \in Slot /\ Told(s, e)
        BY <1>1, <1>3
    <2>2. told = {s}
        BY <1>1, <1>3, <2>1 DEF RefundsInv
    <2>3. Cardinality({s}) = 1
        BY FS_Singleton
    <2> QED BY <2>1, <2>2, <2>3 DEF RefundsInv
<1> QED BY <1>2, <1>3 DEF told

(* What a step can do to refunds. *)
LEMMA RefundsMove ==
    ASSUME Base, [Next]_vars
    PROVE  \/ /\ UNCHANGED <<returned, refunded>>
              /\ \A s \in Slot, e \in Event : Told(s, e)' => Told(s, e)
           \/ \E s \in Slot : GatewayRefunds(s)
           \/ \E s \in Slot : AnswerRefund(s)
<1> DEFINE Quiet == /\ UNCHANGED <<returned, refunded>>
                    /\ \A s \in Slot, e \in Event : Told(s, e)' => Told(s, e)
<1>1. job \in [Slot -> Job]
    BY DEF Base, Typed, TypeOK
<1>2. UNCHANGED <<returned, refunded, job>> => Quiet
    BY DEF Told
<1>3. UNCHANGED vars => Quiet
    BY <1>2 DEF vars, gateway, payments
<1>4. ASSUME NEW r \in Slot, Close(r), UNCHANGED refunded PROVE Quiet
    BY <1>1, <1>4 DEF Close, gateway, Idle, Told
<1>5. ASSUME NEW r \in Slot, NEW j, j.op # "refund" \/ j.said = "nothing", Open(r, j) PROVE Quiet
    BY <1>1, <1>5 DEF Open, gateway, payments, Told
<1>6. ASSUME NEW r \in Slot,
             \/ \E e \in Event : Deliver(r, e)
             \/ \E u \in User, pays \in BOOLEAN : Checkout(r, u, pays)
             \/ \E atEnd \in BOOLEAN : Cancel(r, atEnd)
             \/ \E p \in Refundable : Refund(r, p)
      PROVE  Quiet
    BY <1>5, <1>6 DEF Deliver, Checkout, Cancel, Refund
<1>7. ASSUME NEW r \in Slot,
             AnswerWebhook(r) \/ ApplyFails(r) \/ AnswerCheckout(r) \/ AnswerCancel(r) \/ Abort(r)
      PROVE  Quiet
    <2>1. Close(r) /\ UNCHANGED refunded
        BY <1>7 DEF AnswerWebhook, Duplicate, Process, RollBack, ApplyFails, AnswerCheckout,
                    AnswerCancel, Abort, payments
    <2> QED BY <1>4, <2>1
<1>8. ASSUME \/ \E g \in Gsub : StripeCheckout(g) \/ RazorpayCheckout(g)
             \/ \E e \in Event, t \in Types, g \in Gsub : Emit(e, t, g)
             \/ \E i \in Rows : PeriodEnds(i)
             \/ NewYear
      PROVE  Quiet
    <2>1. UNCHANGED <<returned, refunded, job>>
        BY <1>8 DEF StripeCheckout, RazorpayCheckout, Buy, Emit, PeriodEnds, NewYear, gateway, payments
    <2> QED BY <1>2, <2>1
<1> HIDE DEF Quiet
<1>9. \/ Quiet \/ \E s \in Slot : GatewayRefunds(s) \/ AnswerRefund(s)
    BY <1>3, <1>6, <1>7, <1>8 DEF Next
<1> QED BY <1>9 DEF Quiet

LEMMA GatewayKeepsRefunds ==
    ASSUME Base, RefundsInv, NEW r \in Slot, GatewayRefunds(r)
    PROVE  RefundsInv'
<1>1. PICK p \in Event : /\ p = job[r].payment /\ job[r].op = "refund" /\ job[r].said = "nothing"
                         /\ refunded' = refunded
    BY DEF GatewayRefunds, payments
<1>2. PICK returns \in SUBSET ({p} \ returned), said \in {"yes", "no"} :
         /\ returned' = returned \cup returns /\ (said = "yes" => p \in returns)
         /\ job' = [job EXCEPT ![r].said = said]
    BY <1>1 DEF GatewayRefunds
<1>3. job[r] = [op |-> "refund", payment |-> p, said |-> "nothing"] /\ job \in [Slot -> Job]
    BY <1>1, RequestsHold DEF Base, Typed, TypeOK
<1>4. job' = [job EXCEPT ![r] = [op |-> "refund", payment |-> p, said |-> said]]
    <2>1. [job[r] EXCEPT !.said = said] = [op |-> "refund", payment |-> p, said |-> said]
        BY <1>3
    <2>2. job' = [job EXCEPT ![r] = [job[r] EXCEPT !.said = said]]
        BY <1>2
    <2> QED BY <2>1, <2>2
<1>5. /\ \A s \in Slot \ {r}, e \in Event : Told(s, e)' <=> Told(s, e)
      /\ \A e \in Event : Told(r, e)' => e = p /\ p \in returns
    BY <1>2, <1>3, <1>4 DEF Told
<1>6. \A s \in Slot : Told(s, p) => p \in returned
    BY DEF RefundsInv
<1>7. p \in returns => /\ p \in returned' /\ p \notin refunded
                       /\ \A s \in Slot : ~Told(s, p)
    BY <1>2, <1>6 DEF RefundsInv
<1> QED BY <1>1, <1>2, <1>5, <1>7 DEF RefundsInv

LEMMA AnswerKeepsRefunds ==
    ASSUME Base, RefundsInv, NEW r \in Slot, AnswerRefund(r)
    PROVE  RefundsInv'
<1>1. /\ job[r].op = "refund" /\ returned' = returned
      /\ job' = [job EXCEPT ![r] = Idle] /\ job \in [Slot -> Job]
    BY DEF AnswerRefund, Close, gateway, Base, Typed, TypeOK
<1>2. \A e \in Event : e \in refunded' => e \in refunded \/ Told(r, e)
    BY <1>1 DEF AnswerRefund, Agreed, Told
<1>3. /\ \A s \in Slot \ {r}, e \in Event : Told(s, e)' <=> Told(s, e)
      /\ \A e \in Event : ~Told(r, e)'
    BY <1>1 DEF Told, Idle
<1> QED BY <1>1, <1>2, <1>3 DEF RefundsInv

LEMMA RefundsStep == Base /\ RefundsInv /\ [Next]_vars => RefundsInv'
<1> SUFFICES ASSUME Base, RefundsInv, [Next]_vars PROVE RefundsInv'
    OBVIOUS
<1>1. CASE /\ UNCHANGED <<returned, refunded>>
           /\ \A s \in Slot, e \in Event : Told(s, e)' => Told(s, e)
    BY <1>1 DEF RefundsInv
<1> QED BY <1>1, RefundsMove, GatewayKeepsRefunds, AnswerKeepsRefunds

(* Refunds of one payment may overlap, come again, lose the gateway's      *)
(* answer or die: none is recorded that the gateway did not make, and the  *)
(* gateway's agreement goes to one request.                                *)
THEOREM BillingRefundsAgree == Spec => []RefundsAgree
<1>1. Init => RefundsInv
    BY DEF Init, RefundsInv, Told, Idle
<1> QED BY <1>1, BaseInit, BaseStep, RefundsStep, RefundsInvAgree, PTL DEF Spec

----------------------------------------------------------------------------
(* The tables implement the ledger of module EventLedger. *)

LEMMA OpenedIsSold ==
    /\ Opened = {e \in Event : \E g \in Stripe : CheckoutOf(e, g) /\ Sold(g) # {}}
    /\ Opened' = {e \in Event : \E g \in Stripe : CheckoutOf(e, g)' /\ Sold(g)' # {}}
BY DEF Opened, CheckoutOf, Sold

LEMMA OpenedStays ==
    ASSUME event' = event, \A g \in Stripe : Sold(g)' = Sold(g)
    PROVE  Opened' = Opened
<1>1. \A e, g : CheckoutOf(e, g)' <=> CheckoutOf(e, g)
    BY DEF CheckoutOf
<1> QED BY <1>1, OpenedIsSold

LEMMA OneMoreInvoice ==
    ASSUME Base, NEW s \in Slot, Pending(s), InvoiceNumber(job[s].count) \notin invoices,
           invoices' = invoices \cup {InvoiceNumber(job[s].count)}
    PROVE  Cardinality(invoices)' = Cardinality(invoices) + 1
<1>1. PICK number : number = InvoiceNumber(job[s].count)
    OBVIOUS
<1>2. IsFiniteSet(invoices) /\ number \notin invoices /\ invoices' = invoices \cup {number}
    BY <1>1 DEF Base, Typed
<1>3. Cardinality(invoices \cup {number}) = Cardinality(invoices) + 1
    BY <1>2, FS_AddElement
<1> QED BY <1>2, <1>3

(* What opens a subscription is charged in the same step. *)
LEMMA OpenedByCharge ==
    ASSUME Base, OnceInv, NEW s \in Slot, Processes(s)
    PROVE  \/ Opened' = Opened
           \/ /\ Pays(event[job[s].event], job[s].known)
              /\ Opened' = Opened \cup {job[s].event}
<1>1. PICK e \in Event :
         /\ e = job[s].event /\ event[e] \in [type : Types, gsub : Gsub, id : EventId]
    BY DeliveredEvent DEF Processes
<1>2. subs \in Seq(Row) /\ event' = event /\ subs' = AppliedRows(event[e])
    BY <1>1 DEF Processes, Base, Typed, TypeOK
<1>3. ASSUME NEW h \in Stripe, CheckoutOf(e, h)
      PROVE  Pays(event[e], job[s].known) /\ Opened' = Opened \cup {e}
    <2>1. OwnerOf[h] \in User /\ h \in Gsub /\ FALSE \in BOOLEAN
        BY BillingAssumption
    <2>2. Activation(OwnerOf[h], h, FALSE)
        BY <1>2, <1>3 DEF AppliedRows, Activation, CheckoutOf
    <2>3. \A g : IF g = h THEN Sold(g)' = Sold(g) \cup {Len(subs) + 1} ELSE Sold(g)' = Sold(g)
        BY <1>2, <2>1, <2>2, ActivationSells
    <2>4. \A d, g : CheckoutOf(d, g)' <=> CheckoutOf(d, g)
        BY <1>2 DEF CheckoutOf
    <2>5. \A d \in Event : CheckoutOf(d, h) => d = e
        BY <1>1, <1>3 DEF OnceInv, OneCheckout
    <2>6. Sold(h)' # {} /\ \A g \in Stripe : g # h => Sold(g)' = Sold(g)
        BY <2>3
    <2>7. Opened' = {d \in Event : \E g \in Stripe : CheckoutOf(d, g) /\ Sold(g)' # {}}
        BY <2>4, OpenedIsSold
    <2>8. Opened' = Opened \cup {e}
        BY <1>1, <1>3, <2>5, <2>6, <2>7, OpenedIsSold
    <2> QED BY <1>3, <2>8 DEF Pays, CheckoutOf
<1>4. ASSUME \A g \in Stripe : ~CheckoutOf(e, g) PROVE Opened' = Opened
    <2>1. RowsUpdated
        BY <1>1, <1>2, <1>4 DEF AppliedRows, RowsUpdated, CheckoutOf
    <2> QED BY <1>2, <2>1, UpdatesSellNothing, OpenedStays, SMTT(40)
<1> QED BY <1>1, <1>3, <1>4

LEMMA ProcessesConclude ==
    ASSUME Base, OnceInv, NEW s \in Slot, Processes(s)
    PROVE  \E e \in Event, paid \in 0 .. 1 : Ledger!Conclude(e, "processed", paid)
<1>1. PICK e \in Event :
         /\ e = job[s].event /\ event[e] \in [type : Types, gsub : Gsub, id : EventId]
    BY DeliveredEvent DEF Processes
<1>2. PICK paid \in 0 .. 1 : paid = 1 <=> Pays(event[e], job[s].known)
    OBVIOUS
<1> DEFINE ids == [d \in Event |-> event[d].id]
<1>3. ids[e] # NoGsub /\ ids[e] = event[e].id
    BY <1>1, BillingAssumption DEF EventId
<1>4. ids' = ids
    BY DEF Processes
<1>5. charged' = [charged EXCEPT ![e] = @ + paid]
    <2>1. charged \in [Event -> Nat]
        BY DEF Base, Typed, TypeOK
    <2>2. CASE paid = 1
        BY <1>1, <1>2, <2>2 DEF Processes
    <2>3. CASE paid = 0
        <3>1. charged' = charged
            BY <1>1, <1>2, <2>3 DEF Processes
        <3>2. charged = [charged EXCEPT ![e] = @ + 0]
            BY <2>1
        <3> QED BY <2>3, <3>1, <3>2
    <2> QED BY <2>2, <2>3
<1>6. Cardinality(invoices)' = Cardinality(invoices) + paid
    <2>1. Pending(s)
        BY DEF Processes, Pending
    <2>2. CASE paid = 1
        <3>1. /\ InvoiceNumber(job[s].count) \notin invoices
              /\ invoices' = invoices \cup {InvoiceNumber(job[s].count)}
            BY <1>1, <1>2, <2>2 DEF Processes
        <3> QED BY <2>1, <2>2, <3>1, OneMoreInvoice
    <2>3. CASE paid = 0
        <3>1. invoices' = invoices
            BY <1>1, <1>2, <2>3 DEF Processes
        <3>2. Cardinality(invoices) \in Nat
            BY FS_CardinalityType DEF Base, Typed
        <3> QED BY <2>3, <3>1, <3>2
    <2> QED BY <2>2, <2>3
<1>7. Opened' = Opened \/ (paid = 1 /\ Opened' = Opened \cup {e})
    BY <1>1, <1>2, OpenedByCharge
<1>8. /\ log[event[e].id] = "absent" /\ log' = [log EXCEPT ![event[e].id] = "processed"]
      /\ acked' = acked \cup {e}
    BY <1>1 DEF Processes
<1>9. Ledger!Conclude(e, "processed", paid)
    BY <1>3, <1>4, <1>5, <1>6, <1>7, <1>8 DEF Ledger!Conclude
<1> QED BY <1>9

(* A step in which nothing is sold at Stripe and no event is concluded. *)
LEMMA OtherSales ==
    ASSUME Base, [Next]_vars, UNCHANGED <<charged, log, event, acked>>,
           \A g \in Stripe : Sold(g)' = Sold(g)
    PROVE  Ledger!Sell \/ UNCHANGED Ledger!vars
<1>1. Opened' = Opened
    BY OpenedStays
<1>2. [e \in Event |-> event[e].id]' = [e \in Event |-> event[e].id]
    OBVIOUS
<1>3. CASE invoices' = invoices
    BY <1>1, <1>2, <1>3 DEF Ledger!vars
<1>4. CASE Cardinality(invoices)' = Cardinality(invoices) + 1
    BY <1>1, <1>2, <1>4 DEF Ledger!Sell
<1> QED BY <1>3, <1>4, InvoicesStep, OneMoreInvoice

LEMMA LedgerStep ==
    ASSUME Base, OnceInv, SeenIsRecorded, [Next]_vars
    PROVE  [Ledger!Next]_(Ledger!vars)
<1> DEFINE ids == [d \in Event |-> event[d].id]
<1>1. /\ subs \in Seq(Row) /\ charged \in [Event -> Nat]
      /\ \A e \in Event : event[e] \in {NotEmitted} \cup [type : Types, gsub : Gsub, id : EventId]
    BY DEF Base, Typed, TypeOK
<1>2. ASSUME NEW e \in Event, event[e] # NotEmitted
      PROVE  ids[e] = event[e].id /\ ids[e] \in EventId /\ ids[e] # NoGsub
    BY <1>1, <1>2, BillingAssumption DEF EventId
<1>3. CASE UNCHANGED <<charged, log, event, acked>> /\ RowsUpdated
    <2>1. \A g : Sold(g)' = Sold(g)
        BY <1>1, <1>3, UpdatesSellNothing
    <2>2. Ledger!Sell \/ UNCHANGED Ledger!vars
        BY <1>3, <2>1, OtherSales
    <2> QED BY <2>2 DEF Ledger!Next
<1>4. ASSUME UNCHANGED <<charged, log, event, acked>>,
             NEW u \in User, NEW demo \in BOOLEAN, Activation(u, NoGsub, demo)
      PROVE  [Ledger!Next]_(Ledger!vars)
    <2>1. \A g \in Stripe : g # NoGsub
        BY BillingAssumption
    <2>2. \A g \in Stripe : Sold(g)' = Sold(g)
        BY <1>1, <1>4, <2>1, ActivationSells
    <2> QED BY <1>4, <2>2, OtherSales DEF Ledger!Next
<1>5. ASSUME UNCHANGED <<charged, log, event, subs>>, invoices' = invoices,
             NEW s \in Slot, job[s].op = "webhook", job[s].seen,
             acked' = acked \cup {job[s].event}
      PROVE  Ledger!Next
    <2>1. PICK e \in Event : e = job[s].event /\ Recorded(e)
        BY <1>5, DeliveredEvent DEF SeenIsRecorded
    <2>2. Opened' = Opened /\ ids' = ids
        BY <1>5 DEF Opened, Rows
    <2>3. ids[e] # NoGsub /\ log[ids[e]] # "absent"
        BY <1>2, <2>1 DEF Recorded
    <2>4. Ledger!Acknowledge(e)
        BY <1>5, <2>1, <2>2, <2>3 DEF Ledger!Acknowledge
    <2> QED BY <2>4 DEF Ledger!Next
<1>6. ASSUME UNCHANGED <<charged, event, subs>>, invoices' = invoices,
             NEW s \in Slot, job[s].op = "webhook", acked' = acked \cup {job[s].event},
             log[event[job[s].event].id] = "absent",
             log' = [log EXCEPT ![event[job[s].event].id] = "failed"]
      PROVE  Ledger!Next
    <2>1. PICK e \in Event : e = job[s].event /\ event[e] # NotEmitted
        BY <1>6, DeliveredEvent DEF Base, DeliveredIsEmitted
    <2>2. Opened' = Opened /\ ids' = ids
        BY <1>6 DEF Opened, Rows
    <2>3. ids[e] # NoGsub /\ ids[e] = event[e].id
        BY <1>2, <2>1
    <2>4. charged' = [charged EXCEPT ![e] = @ + 0]
        BY <1>1, <1>6
    <2>5. Cardinality(invoices)' = Cardinality(invoices) + 0
        <3>1. Cardinality(invoices) \in Nat
            BY FS_CardinalityType DEF Base, Typed
        <3> QED BY <1>6, <3>1
    <2>6. Ledger!Conclude(e, "failed", 0)
        BY <1>6, <2>1, <2>2, <2>3, <2>4, <2>5 DEF Ledger!Conclude
    <2> QED BY <2>6 DEF Ledger!Next
<1>7. ASSUME NEW s \in Slot, Processes(s) PROVE Ledger!Next
    BY <1>7, ProcessesConclude DEF Ledger!Next
<1>8. ASSUME UNCHANGED <<charged, log, subs, acked>>, invoices' = invoices,
             NEW e \in Event, NEW t \in Types, NEW h \in Gsub, Emit(e, t, h)
      PROVE  Ledger!Next
    <2>1. PICK k \in EventId : event' = [event EXCEPT ![e] = [type |-> t, gsub |-> h, id |-> k]]
        BY <1>8 DEF Emit, EventIds, StripeIds, RazorpayIds, EventId
    <2>2. /\ event[e] = NotEmitted /\ event'[e] = [type |-> t, gsub |-> h, id |-> k]
          /\ \A d \in Event \ {e} : event'[d] = event[d]
        BY <1>8, <2>1 DEF Emit, Base, Typed, TypeOK
    <2>3. ids[e] = NoGsub /\ ids' = [ids EXCEPT ![e] = k]
        <3>1. event[e].id = NoGsub /\ event'[e].id = k
            BY <2>2 DEF NotEmitted
        <3>2. \A d \in Event : event'[d].id = (IF d = e THEN k ELSE event[d].id)
            BY <2>2, <3>1
        <3> QED BY <3>1, <3>2
    <2>4. ASSUME NEW g \in Stripe, CheckoutOf(e, g)' PROVE Sold(g) = {} /\ ~CheckoutOf(e, g)
        <3>1. t = "checkout" /\ h = g
            BY <2>2, <2>4 DEF CheckoutOf
        <3>2. \A d \in Event : event[d].gsub # h
            BY <1>8, <3>1 DEF Emit
        <3> QED BY <3>1, <3>2 DEF OnceInv, SoldOnce, CheckoutOf
    <2>5. Opened' = Opened
        <3>1. \A g : Sold(g)' = Sold(g)
            BY <1>8 DEF Sold, Rows
        <3>2. \A d \in Event \ {e} : \A g : CheckoutOf(d, g)' <=> CheckoutOf(d, g)
            BY <2>2 DEF CheckoutOf
        <3>3. \A g : ~CheckoutOf(e, g)
            BY <2>2 DEF CheckoutOf, NotEmitted
        <3> QED BY <2>4, <3>1, <3>2, <3>3, OpenedIsSold
    <2>6. Ledger!Emitted(e)
        BY <1>8, <2>3, <2>5 DEF Ledger!Emitted
    <2> QED BY <2>6 DEF Ledger!Next
<1> QED BY <1>3, <1>4, <1>5, <1>6, <1>7, <1>8, TablesStep DEF Ledger!Next

(* Whatever is delivered twice, at once, in another order or fails on the  *)
(* way: an event gets one verdict that is never changed, its payment, its  *)
(* invoice and its subscription come with the verdict or never, and the    *)
(* gateway is told of success no earlier.                                  *)
THEOREM BillingImplementsLedger == Spec => ImplementsLedger
<1>1. Init => Ledger!Init
    <2> SUFFICES ASSUME Init PROVE Ledger!Init
        OBVIOUS
    <2>1. [e \in Event |-> event[e].id] = [e \in Event |-> NoGsub]
        BY DEF Init, NotEmitted
    <2>2. Opened = {} /\ Cardinality(invoices) = 0
        BY FS_EmptySet DEF Init, Opened, Rows
    <2> QED BY <2>1, <2>2 DEF Init, Ledger!Init
<1>2. Init => OnceInv /\ SeenIsRecorded
    BY BillingAssumption
    DEF Init, OnceInv, ChargedOnce, OneCheckout, SoldOnce, CheckoutOf, Sold, Rows, NotEmitted,
        SeenIsRecorded, Idle
<1> QED
    BY <1>1, <1>2, BaseInit, BaseStep, OnceStep, SeenStep, LedgerStep, PTL
    DEF Spec, ImplementsLedger, Ledger!Spec
=============================================================================
