--------------------------- MODULE OrderLifecycle ----------------------------
(***************************************************************************)
(* From "generate the link" to "paid, sold or given back": the payment     *)
(* tool (tools/payment.py), Asaas and the customer, the payment webhook    *)
(* (api/routes/payment_webhook.py) and the expiry sweep, all working on    *)
(* the tables of Inventory.                                                *)
(*                                                                         *)
(* Neither the tool nor the webhook holds a transaction across its steps:  *)
(* each statement commits on its own, so every step below is one commit    *)
(* and anything may run, fail or crash between two of them.  Asaas reports *)
(* what happened to a charge by events it may deliver late, in any order   *)
(* and more than once; two uvicorn workers handle deliveries at once.      *)
(***************************************************************************)
EXTENDS Inventory

CONSTANTS
    CardOrders,     \* orders paid through the hosted card checkout
    LeadRef,        \* LeadRef[o]: externalReference tenant:phone:product:sku
    EventKinds,     \* the Asaas events considered
    Handlers,       \* webhook requests that may be in progress at once
    MaxFaults       \* bound: database errors and crashes in one behaviour

\* Asaas's ids: each order's call makes one charge, and a card call also makes
\* the checkout session the charge comes out of.
ChargeId(o) == <<"charge", o>>
SessionId(o) == <<"session", o>>

PaidKinds == {"PAYMENT_CONFIRMED", "PAYMENT_RECEIVED"}
CancelKinds == {"PAYMENT_DELETED", "PAYMENT_BANK_SLIP_CANCELLED"}

ASSUME LifecycleAssumption ==
    /\ CardOrders \subseteq Orders
    /\ PaymentIds = {ChargeId(o) : o \in Orders} \cup {SessionId(o) : o \in CardOrders}
    /\ EventKinds \subseteq PaidKinds \cup CancelKinds \cup
          {"PAYMENT_CREATED", "PAYMENT_REFUNDED"}
    /\ MaxFaults \in Nat

Events == [kind : EventKinds, order : Orders]

VARIABLES
    call,       \* call[o]: where the payment tool's call for order o stands
    created,    \* the rows of orders, by created_at
    asaas,      \* asaas[o]: the charge that call made, as Asaas keeps it
    sent,       \* events Asaas reports; a reported event may come again
    recorded,   \* events with a row in payment_events
    handler,    \* handler[h]: the event a webhook request works on, and how far
    settled,    \* settled[e]: times the inventory effects of e were committed
    booked,     \* booked[e]: times e was appended to the lead's purchase_history
    faults,     \* faults so far
    tainted     \* orders one of whose writes a fault has lost

callVars == <<call, created, asaas, sent>>
hookVars == <<recorded, handler, settled, booked>>
faultVars == <<faults, tainted>>
vars == <<inventoryVars, callVars, hookVars, faultVars>>

CallStep == {"idle", "drafted", "held", "charged", "undoing", "failing"}
CallEnd == {"linked", "failed", "dead"}
HandlerStep == {"recorded", "attached", "synced", "settled"}
Idle == [step |-> "idle"]

Init ==
    /\ InventoryInit
    /\ call = [o \in Orders |-> "idle"]
    /\ created = <<>>
    /\ asaas = [o \in Orders |-> "none"]
    /\ sent = {} /\ recorded = {}
    /\ handler = [h \in Handlers |-> Idle]
    /\ settled = [e \in Events |-> 0]
    /\ booked = [e \in Events |-> 0]
    /\ faults = 0 /\ tainted = {}

NoFault == UNCHANGED faultVars

\* A fault that costs order o a write, or its call.
FaultOn(o) ==
    /\ faults < MaxFaults
    /\ faults' = faults + 1
    /\ tainted' = tainted \cup {o}

Goto(o, step) == call' = [call EXCEPT ![o] = step]

SetStatus(o, s) == status' = [status EXCEPT ![o] = s]

\* What Asaas has to report about the charge of o, of the kinds considered.
Report(o, kinds) ==
    sent' = sent \cup {e \in Events : e.order = o /\ e.kind \in kinds}

-----------------------------------------------------------------------------
(* The payment tool: generate_payment_link, one call per order *)

\* create_order_draft commits the orders row.
Draft(o) ==
    /\ call[o] = "idle"
    /\ SetStatus(o, "checkout_ready")
    /\ created' = Append(created, o)
    /\ Goto(o, "drafted")
    /\ NoFault
    /\ UNCHANGED <<stockVars, asaasPaymentId, asaas, sent, hookVars>>

\* create_order_draft returns "" and the call ends; the orders row may be there
\* already when it is the address insert that failed.
DraftFails(o) ==
    /\ call[o] = "idle"
    /\ \/ SetStatus(o, "checkout_ready") /\ created' = Append(created, o)
       \/ UNCHANGED <<status, created>>
    /\ Goto(o, "failed")
    /\ FaultOn(o)
    /\ UNCHANGED <<stockVars, asaasPaymentId, asaas, sent, hookVars>>

\* Wrong: the answer of reserve_inventory is not looked at.
ReserveForCallUnchecked(o) ==
    /\ call[o] = "drafted"
    /\ Reserve(o) \/ (Available < Qty[o] /\ UNCHANGED inventoryVars)
    /\ Goto(o, "held")
    /\ NoFault
    /\ UNCHANGED <<created, asaas, sent, hookVars>>

ReserveForCall(o) ==
    /\ call[o] = "drafted"
    /\ \/ Reserve(o) /\ Goto(o, "held")
       \/ /\ Available < Qty[o]
          /\ Goto(o, "failed")
          /\ UNCHANGED inventoryVars
    /\ NoFault
    /\ UNCHANGED <<created, asaas, sent, hookVars>>

\* reserve_inventory reports "error"; its transaction may have committed.
ReserveFails(o) ==
    /\ call[o] = "drafted"
    /\ Reserve(o) \/ UNCHANGED inventoryVars
    /\ Goto(o, "failed")
    /\ FaultOn(o)
    /\ UNCHANGED <<created, asaas, sent, hookVars>>

\* Asaas creates the charge or the checkout session.  The answer may be
\* unusable all the same: lost to a timeout, or without a link or a Pix code.
AsaasCreates(o) ==
    /\ call[o] = "held"
    /\ asaas' = [asaas EXCEPT ![o] = "open"]
    /\ IF o \in CardOrders THEN UNCHANGED sent
                           ELSE Report(o, {"PAYMENT_CREATED"})
    /\ Goto(o, "charged") \/ Goto(o, "undoing")
    /\ NoFault
    /\ UNCHANGED <<inventoryVars, created, hookVars>>

\* Wrong: the order is marked failed but its hold is not released.
AsaasRefusesKeepingHold(o) ==
    /\ call[o] = "held"
    /\ Goto(o, "failing")
    /\ NoFault
    /\ UNCHANGED <<inventoryVars, created, asaas, sent, hookVars>>

AsaasRefuses(o) ==
    /\ call[o] = "held"
    /\ Goto(o, "undoing")
    /\ NoFault
    /\ UNCHANGED <<inventoryVars, created, asaas, sent, hookVars>>

\* mark_order_payment_created overwrites the status whatever it is.
MarkCreated(o) ==
    /\ call[o] = "charged"
    /\ SetStatus(o, "payment_link_created")
    /\ asaasPaymentId' = [asaasPaymentId EXCEPT
          ![o] = IF o \in CardOrders THEN SessionId(o) ELSE ChargeId(o)]
    /\ Goto(o, "linked")
    /\ NoFault
    /\ UNCHANGED <<stockVars, created, asaas, sent, hookVars>>

\* Its errors are only logged: the customer gets a link the order does not know.
MarkCreatedFails(o) ==
    /\ call[o] = "charged"
    /\ Goto(o, "linked")
    /\ FaultOn(o)
    /\ UNCHANGED <<inventoryVars, created, asaas, sent, hookVars>>

\* _release_failed_reservation, first half: release_reservation.
UndoHold(o) ==
    /\ call[o] = "undoing"
    /\ Release(o) \/ (reservation[o] # "active" /\ UNCHANGED inventoryVars)
    /\ Goto(o, "failing")
    /\ NoFault
    /\ UNCHANGED <<created, asaas, sent, hookVars>>

\* Wrong: the failed order gives its units back once more.
MarkFailedAndRelease(o) ==
    /\ call[o] = "failing"
    /\ SetStatus(o, "payment_link_failed")
    /\ reserved' = reserved - Qty[o]
    /\ Goto(o, "failed")
    /\ NoFault
    /\ UNCHANGED <<onHand, committed, reservation, rows, lapsed, movements,
                   underReview, sweepList, asaasPaymentId, created, asaas, sent,
                   hookVars>>

\* Second half: mark_order_payment_failed.
MarkFailed(o) ==
    /\ call[o] = "failing"
    /\ IF status[o] = "paid" THEN UNCHANGED status
                             ELSE SetStatus(o, "payment_link_failed")
    /\ Goto(o, "failed")
    /\ NoFault
    /\ UNCHANGED <<stockVars, asaasPaymentId, created, asaas, sent, hookVars>>

\* Either half may fail; its error is logged and the call goes on.
UndoFails(o) ==
    /\ \/ call[o] = "undoing" /\ Goto(o, "failing")
       \/ call[o] = "failing" /\ Goto(o, "failed")
    /\ FaultOn(o)
    /\ UNCHANGED <<inventoryVars, created, asaas, sent, hookVars>>

\* The process dies in the middle of the call; nothing resumes it.
CallDies(o) ==
    /\ call[o] \in CallStep \ {"idle"}
    /\ Goto(o, "dead")
    /\ FaultOn(o)
    /\ UNCHANGED <<inventoryVars, created, asaas, sent, hookVars>>

-----------------------------------------------------------------------------
(* Asaas and the customer (outside the repository) *)

\* The customer pays through the link the call returned.  A card charge only
\* comes into being now.
Pay(o) ==
    /\ call[o] = "linked" /\ asaas[o] = "open"
    /\ asaas' = [asaas EXCEPT ![o] = "paid"]
    /\ Report(o, PaidKinds \cup {"PAYMENT_CREATED"})
    /\ NoFault
    /\ UNCHANGED <<inventoryVars, call, created, hookVars>>

Refund(o) ==
    /\ asaas[o] = "paid"
    /\ asaas' = [asaas EXCEPT ![o] = "refunded"]
    /\ Report(o, {"PAYMENT_REFUNDED"})
    /\ NoFault
    /\ UNCHANGED <<inventoryVars, call, created, hookVars>>

\* An unpaid Pix or boleto charge is deleted at Asaas.
Delete(o) ==
    /\ asaas[o] = "open" /\ o \notin CardOrders
    /\ asaas' = [asaas EXCEPT ![o] = "deleted"]
    /\ Report(o, {"PAYMENT_DELETED"})
    /\ NoFault
    /\ UNCHANGED <<inventoryVars, call, created, hookVars>>

\* The bank slip of a charge is cancelled; the charge may have been paid by then.
CancelSlip(o) ==
    /\ asaas[o] \in {"open", "paid"} /\ o \notin CardOrders
    /\ Report(o, {"PAYMENT_BANK_SLIP_CANCELLED"})
    /\ NoFault
    /\ UNCHANGED <<inventoryVars, call, created, asaas, hookVars>>

-----------------------------------------------------------------------------
(* The payment webhook: receive_payment_webhook *)

At(h, step) == handler[h].step = step
Continue(h, step) == handler' = [handler EXCEPT ![h].step = step]

\* Wrong: no look at whether the event has a row.
RecordEventAgain(h, e) ==
    /\ handler[h] = Idle
    /\ e \in sent
    /\ recorded' = recorded \cup {e}
    /\ handler' = [handler EXCEPT ![h] = [step |-> "recorded", event |-> e]]
    /\ NoFault
    /\ UNCHANGED <<inventoryVars, callVars, settled, booked>>

\* Wrong: no look at who reports the event.
RecordAnyEvent(h, e) ==
    /\ handler[h] = Idle
    /\ e \notin recorded
    /\ recorded' = recorded \cup {e}
    /\ handler' = [handler EXCEPT ![h] = [step |-> "recorded", event |-> e]]
    /\ NoFault
    /\ UNCHANGED <<inventoryVars, callVars, settled, booked>>

\* INSERT INTO payment_events ... ON CONFLICT DO NOTHING: a delivery of an event
\* that has a row is answered "accepted_duplicate" and changes nothing.
RecordEvent(h, e) ==
    /\ handler[h] = Idle
    /\ e \in sent \ recorded
    /\ recorded' = recorded \cup {e}
    /\ handler' = [handler EXCEPT ![h] = [step |-> "recorded", event |-> e]]
    /\ NoFault
    /\ UNCHANGED <<inventoryVars, callVars, settled, booked>>

\* The card order attach_hosted_checkout_payment_conn takes for the charge of
\* order x: the latest one created for the same lead, product and sku.
LatestCardOrder(o, x) ==
    \E i \in DOMAIN created :
        /\ created[i] = o
        /\ o \in CardOrders /\ LeadRef[o] = LeadRef[x]
        /\ \A j \in DOMAIN created :
              j > i => ~ (created[j] \in CardOrders /\ LeadRef[created[j]] = LeadRef[x])

\* attach_hosted_checkout_payment_conn, for every event of every kind of charge.
Attach(h) ==
    /\ At(h, "recorded")
    /\ LET x == handler[h].event.order
           target == {o \in Orders : LatestCardOrder(o, x) /\ status[o] # "paid"}
       IN  asaasPaymentId' = [o \in Orders |-> IF o \in target THEN ChargeId(x)
                                               ELSE asaasPaymentId[o]]
    /\ Continue(h, "attached")
    /\ NoFault
    /\ UNCHANGED <<stockVars, status, callVars, recorded, settled, booked>>

\* Wrong: a cancellation overwrites "paid".
SyncedRegardless(kind, s) ==
    CASE kind \in PaidKinds -> "paid"
      [] kind = "PAYMENT_REFUNDED" -> "refunded"
      [] kind \in CancelKinds -> "cancelled"
      [] OTHER -> s

\* The status _sync_order_status gives an order for an event of this kind.
Synced(kind, s) ==
    CASE kind \in PaidKinds -> "paid"
      [] kind = "PAYMENT_REFUNDED" -> "refunded"
      [] kind \in CancelKinds /\ s # "paid" -> "cancelled"
      [] OTHER -> s

\* _sync_order_status: every order row that carries the charge's id.
SyncStatus(h) ==
    /\ At(h, "attached")
    /\ LET e == handler[h].event
       IN  status' = [o \in Orders |->
                        IF asaasPaymentId[o] = ChargeId(e.order)
                        THEN Synced(e.kind, status[o]) ELSE status[o]]
    /\ Continue(h, "synced")
    /\ NoFault
    /\ UNCHANGED <<stockVars, asaasPaymentId, callVars, recorded, settled, booked>>

\* _apply_inventory_effects, one transaction.
Settle(h) ==
    /\ At(h, "synced")
    /\ LET e == handler[h].event
           p == ChargeId(e.order)
       IN  /\ \/ e.kind \in PaidKinds /\ ConfirmSale(p)
              \/ e.kind \in CancelKinds /\ ReleaseForPayment(p)
              \/ e.kind = "PAYMENT_REFUNDED" /\ MarkRefundReview(p)
              \/ e.kind = "PAYMENT_CREATED" /\ UNCHANGED inventoryVars
           /\ settled' = [settled EXCEPT ![e] = @ + 1]
    /\ Continue(h, "settled")
    /\ NoFault
    /\ UNCHANGED <<callVars, recorded, booked>>

\* The transaction rolls back; the error is logged and the request goes on.
SettleFails(h) ==
    /\ At(h, "synced")
    /\ Continue(h, "settled")
    /\ FaultOn(handler[h].event.order)
    /\ UNCHANGED <<inventoryVars, callVars, recorded, settled, booked>>

\* A paid event is appended to the lead's purchase_history; the request ends.
Book(h) ==
    /\ At(h, "settled")
    /\ LET e == handler[h].event
       IN  booked' = IF e.kind \in PaidKinds THEN [booked EXCEPT ![e] = @ + 1]
                                             ELSE booked
    /\ handler' = [handler EXCEPT ![h] = Idle]
    /\ NoFault
    /\ UNCHANGED <<inventoryVars, callVars, recorded, settled>>

\* A statement fails (answered 200 "accepted_db_error") or the process dies.
\* The event has its row by now, so no later delivery gets past RecordEvent.
HandlerDies(h) ==
    /\ handler[h] # Idle
    /\ FaultOn(handler[h].event.order)
    /\ handler' = [handler EXCEPT ![h] = Idle]
    /\ UNCHANGED <<inventoryVars, callVars, recorded, settled, booked>>

-----------------------------------------------------------------------------
(* Time, the sweep and the operator *)

\* A hold lasts 30 minutes and a call makes at most a handful of requests of 10
\* seconds each, so a hold lapses only when its call is over.
HoldLapses(o) ==
    /\ call[o] \in CallEnd
    /\ Lapse(o)
    /\ UNCHANGED <<callVars, hookVars, faultVars>>

Sweep(w) ==
    /\ SweepSelect(w) \/ \E o \in Orders : SweepRelease(w, o)
    /\ UNCHANGED <<callVars, hookVars, faultVars>>

SweepDies(w) ==
    /\ SweepAbort(w)
    /\ faults < MaxFaults
    /\ faults' = faults + 1
    /\ UNCHANGED <<callVars, hookVars, tainted>>

Adjust(d) ==
    /\ ManualAdjustment(d)
    /\ UNCHANGED <<callVars, hookVars, faultVars>>

-----------------------------------------------------------------------------

\* The steps a call takes by itself once it has started.
CallProceeds(o) ==
    \/ ReserveForCall(o)
    \/ AsaasCreates(o) \/ AsaasRefuses(o)
    \/ MarkCreated(o)
    \/ UndoHold(o) \/ MarkFailed(o)

\* The steps a request takes by itself once its event is recorded.
HandlerProceeds(h) == Attach(h) \/ SyncStatus(h) \/ Settle(h) \/ Book(h)

CallFaults(o) ==
    \/ DraftFails(o) \/ ReserveFails(o) \/ MarkCreatedFails(o) \/ UndoFails(o)
    \/ CallDies(o)

Next ==
    \/ \E o \in Orders :
          \/ Draft(o) \/ CallProceeds(o) \/ CallFaults(o)
          \/ Pay(o) \/ Refund(o) \/ Delete(o) \/ CancelSlip(o)
          \/ HoldLapses(o)
    \/ \E h \in Handlers :
          \/ \E e \in Events : RecordEvent(h, e)
          \/ HandlerProceeds(h)
          \/ SettleFails(h) \/ HandlerDies(h)
    \/ \E w \in Sweepers : Sweep(w) \/ SweepDies(w)
    \/ \E d \in Adjustments : Adjust(d)

Spec == Init /\ [][Next]_vars

\* A started call and a recorded event run on by themselves, time passes, and
\* each worker's scheduler runs the sweep again and again (every 5 minutes).
\* Nobody owes us a checkout, a payment, a delivery or a fault.
Fairness ==
    /\ \A o \in Orders : WF_vars(CallProceeds(o)) /\ WF_vars(HoldLapses(o))
    /\ \A h \in Handlers : WF_vars(HandlerProceeds(h))
    /\ \A w \in Sweepers : WF_vars(Sweep(w))

FairSpec == Spec /\ Fairness

-----------------------------------------------------------------------------
(* Properties *)

InFlight(e) == \E h \in Handlers : handler[h] # Idle /\ handler[h].event = e

PaidEventsOf(o) == {e \in recorded : e.order = o /\ e.kind \in PaidKinds}

\* No request is working on the charge of o.
Quiet(o) == \A h \in Handlers : handler[h] # Idle => handler[h].event.order # o

LifecycleTypeOK ==
    /\ call \in [Orders -> CallStep \cup CallEnd]
    /\ created \in Seq(Orders)
    /\ asaas \in [Orders -> {"none", "open", "paid", "refunded", "deleted"}]
    /\ sent \subseteq Events /\ recorded \subseteq sent
    /\ handler \in [Handlers -> {Idle} \cup [step : HandlerStep, event : Events]]
    /\ settled \in [Events -> Nat] /\ booked \in [Events -> Nat]
    /\ faults \in 0 .. MaxFaults /\ tainted \subseteq Orders

\* A charge can reach its own order and any card order of the same reference:
\* attach_hosted_checkout_payment_conn looks no further than the reference.
MayCarry(o, x) == o = x \/ (o \in CardOrders /\ LeadRef[o] = LeadRef[x])

\* No charge but its own can reach order o, and its charge no other order: if o is
\* a card order, no other order has its reference, and if not, no card order has.
OwnReference(o) ==
    \A x \in Orders : MayCarry(o, x) \/ MayCarry(x, o) => x = o

\* Units are only sold against money, and money sells once: every confirmed
\* reservation has a paid event of its own whose stock effects were committed, of
\* the order's own charge or, for a card order, of a charge of that lead and
\* product, whatever was lost, repeated or reordered on the way.
SaleHasItsPaidEvent ==
    \E paidBy \in [OrdersIn("confirmed") -> {e \in Events : e.kind \in PaidKinds}] :
        \A o \in OrdersIn("confirmed") :
            /\ MayCarry(o, paidBy[o].order)
            /\ settled[paidBy[o]] > 0
            /\ \A x \in OrdersIn("confirmed") : paidBy[x] = paidBy[o] => x = o

\* "Each event is applied at most once" (payment_webhook.py): however often and
\* to however many workers Asaas delivers an event, its stock effects and its
\* entry in purchase_history happen at most once.
EventAppliedOnce == \A e \in Events : settled[e] <= 1 /\ booked[e] <= 1

\* Money never just disappears: once a paid event has been handled without a
\* fault on its order, the units are sold to that order, or its hold had ended
\* before the payment came and a human has been asked to look at it.  The orders
\* of a shared reference are excepted, whose payments the webhook mixes up.
PaymentServedOrFlagged ==
    \A o \in Orders \ tainted : \A e \in PaidEventsOf(o) :
        OwnReference(o) /\ ~ InFlight(e) =>
            \/ reservation[o] = "confirmed"
            \/ reservation[o] \in {"released", "expired"} /\ o \in underReview

\* When no request is at work on it, an order with a reference of its own that no
\* fault has touched shows the status its stock deserves: "paid" exactly with units sold, unless a human
\* has been asked to look at the sale, "cancelled" only with the units given back
\* or, after a refund, with a human asked, "refunded" only with a human asked,
\* "manual_review" only for a hold that had ended.  Two paid events, a refund and
\* a cancellation may be handled at the same time by two workers, each writing
\* the status and the stock in separate commits.
StatusMatchesStock ==
    \A o \in Orders \ tainted :
        OwnReference(o) /\ Quiet(o) =>
            /\ status[o] = "paid" => reservation[o] = "confirmed"
            /\ reservation[o] = "confirmed" => status[o] = "paid" \/ o \in underReview
            /\ status[o] = "refunded" => o \in underReview
            /\ status[o] = "cancelled" =>
                  reservation[o] \in {"released", "expired"} \/ o \in underReview
            /\ status[o] = "manual_review" =>
                  reservation[o] \in {"released", "expired"} /\ o \in underReview

\* "If we cannot guarantee a unit, we never create the charge" (payment.py): a
\* charge comes into being only while the order's own hold is open, unless the
\* payment of another order with its reference has just closed that.
ChargeNeedsHold ==
    [][\A o \in Orders :
          asaas[o] = "none" /\ asaas'[o] # "none" =>
              \/ reservation[o] = "active"
              \/ ~ OwnReference(o) /\ reservation[o] \in {"confirmed", "released"}]_vars

\* A call that ends without a link and without a fault leaves no units held,
\* whichever step it failed at.
FailedCallHoldsNothing ==
    \A o \in Orders \ tainted : call[o] = "failed" => reservation[o] # "active"

\* Everything above happens through the transactions of Inventory.
UsesInventory == InventorySpec

\* The orders whose charges can reach order o.
moneyFor == [o \in Orders |-> {x \in Orders : MayCarry(o, x)}]

\* Call, charge, events and sweep together implement the promises of
\* SalesPromises: "if we cannot guarantee a unit, we never create the charge"
\* (payment.py), nothing is sold but against money, the order's own unless it
\* shares its reference, and a human is asked only about a refund or a payment
\* that came too late.
Sales == INSTANCE SalesPromises WITH
    supply <- onHand, promise <- promiseOf, money <- asaas, review <- underReview,
    MoneyFor <- moneyFor

ImplementsSales == Sales!SalesSpec

\* No hold is stranded: whatever crashed or got lost, a hold that was opened is
\* sold, released or expired in the end.
HoldsEventuallyClose ==
    \A o \in Orders : reservation[o] = "active" ~> reservation[o] # "active"

\* "Confirms/releases stock in the same tx as the payment event" (the gate of
\* story 034): a paid event that has its row and that no request is working on
\* any more has closed the hold of the order that carries the charge.
RecordedPaymentClosedHold ==
    \A o \in Orders : \A e \in PaidEventsOf(o) :
        asaasPaymentId[o] = ChargeId(o) /\ ~ InFlight(e)
            => reservation[o] # "active"

\* "If no order is found by asaas_payment_id = payment.id, find the latest
\* matching card order" (story 048): a charge that some order carries already
\* is not attached to another order of the same lead and product.
AttachesOnlyUnmatchedCharge ==
    [][\A x, o \in Orders :
          asaasPaymentId[x] = ChargeId(x) /\ asaasPaymentId'[o] = ChargeId(x)
              => asaasPaymentId[o] = ChargeId(x)]_vars

=============================================================================
