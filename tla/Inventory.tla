------------------------------ MODULE Inventory ------------------------------
(***************************************************************************)
(* The inventory tables of one (tenant, product) row and the transactions  *)
(* of memory/inventory_store.py over them.                                 *)
(*                                                                         *)
(* One action is one committed transaction.  Postgres runs them under READ *)
(* COMMITTED; each takes a row lock (the conditional UPDATE on the item,   *)
(* or SELECT ... FOR UPDATE on the reservation) before it decides, and     *)
(* re-reads the row after waiting, so two transactions on one row behave   *)
(* as one after the other.  What interleaves is everything between         *)
(* transactions: the sweep's SELECT and its releases, and all callers.     *)
(*                                                                         *)
(* The orders row is written by other modules too (order_store.py and the  *)
(* payment webhook).  Here they are the action OrderWrite, which may write *)
(* anything; OrderLifecycle says what they really write.                   *)
(*                                                                         *)
(* Definitions marked "Wrong:" are plausible slips of the definition they  *)
(* precede.  No specification uses them; they are put in its place to see  *)
(* that a property notices.                                                *)
(***************************************************************************)
EXTENDS StockUnits, Sequences

CONSTANTS
    PaymentIds,     \* ids Asaas gives to charges and to checkout sessions
    NoPaymentId,    \* orders.asaas_payment_id IS NULL
    Sweepers,       \* processes that run the expiry sweep (uvicorn workers, cron)
    SafetyBuffer,   \* inventory_items.safety_buffer_qty
    InitialOnHand,  \* inventory_items.on_hand_qty as seeded
    Adjustments,    \* on-hand corrections an operator may enter
    MaxOnHand       \* largest value of the INTEGER column on_hand_qty

ASSUME InventoryAssumption ==
    /\ NoPaymentId \notin PaymentIds
    /\ SafetyBuffer \in Nat
    /\ InitialOnHand \in Nat
    /\ Adjustments \subseteq Int
    /\ MaxOnHand \in Nat

VARIABLES
    onHand,         \* inventory_items.on_hand_qty
    reserved,       \* inventory_items.reserved_qty
    committed,      \* inventory_items.committed_qty
    reservation,    \* inventory_reservations.status per order, "none" = no row
    rows,           \* the orders of inventory_reservations, by created_at
    lapsed,         \* orders whose reserved_until is in the past
    movements,      \* inventory_movements: rows per order and movement_type
    underReview,    \* orders with a refund_review movement (quantity 0)
    sweepList,      \* sweepList[w]: order ids worker w's sweep has still to visit
    status,         \* orders.status, "absent" = no row
    asaasPaymentId  \* orders.asaas_payment_id

stockVars == <<onHand, reserved, committed, reservation, rows, lapsed,
               movements, underReview, sweepList>>
orderVars == <<status, asaasPaymentId>>
inventoryVars == <<onHand, reserved, committed, reservation, rows, lapsed,
                   movements, underReview, sweepList, status, asaasPaymentId>>

OrderStatus == {"checkout_ready", "stock_reserved", "payment_link_created",
                "payment_link_failed", "paid", "refunded", "cancelled",
                "manual_review"}

MovementType == {"reserved", "confirmed_sale", "released", "expired"}

ReservationStatus == {"none", "active", "confirmed", "released", "expired"}

InventoryTypeOK ==
    /\ onHand \in Nat /\ reserved \in Nat /\ committed \in Nat
    /\ reservation \in [Orders -> ReservationStatus]
    /\ rows \in Seq(Orders)
    /\ lapsed \subseteq Orders
    /\ movements \in [Orders -> [MovementType -> Nat]]
    /\ underReview \subseteq Orders
    /\ sweepList \in [Sweepers -> SUBSET Orders]
    /\ status \in [Orders -> OrderStatus \cup {"absent"}]
    /\ asaasPaymentId \in [Orders -> PaymentIds \cup {NoPaymentId}]

InventoryInit ==
    /\ onHand = InitialOnHand /\ reserved = 0 /\ committed = 0
    /\ reservation = [o \in Orders |-> "none"]
    /\ rows = <<>>
    /\ lapsed = {}
    /\ movements = [o \in Orders |-> [m \in MovementType |-> 0]]
    /\ underReview = {}
    /\ sweepList = [w \in Sweepers |-> {}]
    /\ status = [o \in Orders |-> "absent"]
    /\ asaasPaymentId = [o \in Orders |-> NoPaymentId]

-----------------------------------------------------------------------------
(* Helpers *)

\* Wrong: sold units are available again.
AvailableWithSold == onHand - reserved - SafetyBuffer

Available == onHand - reserved - committed - SafetyBuffer

OrdersIn(s) == {o \in Orders : reservation[o] = s}

Record(o, m) == movements' = [movements EXCEPT ![o][m] = @ + 1]

-----------------------------------------------------------------------------
(* Transactions on the stock *)

\* reserve_inventory for an order that has no reservation yet and finds enough
\* units.  Every other call changes nothing: a row for this order exists
\* already (the retry is answered from it), or the conditional UPDATE matches
\* no row.
Reserve(o) ==
    /\ status[o] # "absent"
    /\ reservation[o] = "none"
    /\ Available >= Qty[o]
    /\ reserved' = reserved + Qty[o]
    /\ reservation' = [reservation EXCEPT ![o] = "active"]
    /\ rows' = Append(rows, o)
    /\ Record(o, "reserved")
    /\ status' = IF status[o] = "paid" THEN status
                 ELSE [status EXCEPT ![o] = "stock_reserved"]
    /\ UNCHANGED <<onHand, committed, lapsed, underReview, sweepList,
                   asaasPaymentId>>

\* Wrong: releases without asking whether the hold is still open.
CloseHoldTwice(o, newStatus, movement) ==
    /\ reservation[o] # "none"
    /\ reserved' = reserved - Qty[o]
    /\ reservation' = [reservation EXCEPT ![o] = newStatus]
    /\ Record(o, movement)
    /\ UNCHANGED <<onHand, committed, rows, lapsed, underReview, orderVars>>

\* release_reservation_conn: frees the units of an active hold and leaves the
\* new status and the movement its caller asks for.
CloseHold(o, newStatus, movement) ==
    /\ reservation[o] = "active"
    /\ reserved' = reserved - Qty[o]
    /\ reservation' = [reservation EXCEPT ![o] = newStatus]
    /\ Record(o, movement)
    /\ UNCHANGED <<onHand, committed, rows, lapsed, underReview, orderVars>>

\* release_reservation, called when Asaas gave no usable link.
Release(o) == CloseHold(o, "released", "released") /\ UNCHANGED sweepList

\* The reservation confirm_sale_for_payment_conn picks for a payment id: among
\* the orders that carry it, the one reserved last.
LatestReservation(o, p) ==
    /\ asaasPaymentId[o] = p
    /\ \E i \in DOMAIN rows :
          /\ rows[i] = o
          /\ \A j \in DOMAIN rows : j > i => asaasPaymentId[rows[j]] # p

\* Wrong: the units are committed and stay reserved.
CommitKeepingReserved(o) ==
    /\ reservation[o] = "active"
    /\ committed' = committed + Qty[o]
    /\ reservation' = [reservation EXCEPT ![o] = "confirmed"]
    /\ Record(o, "confirmed_sale")
    /\ UNCHANGED <<onHand, reserved, rows, lapsed, underReview, sweepList,
                   orderVars>>

\* The paid hold is still open: its units move from reserved to committed.
CommitHold(o) ==
    /\ reservation[o] = "active"
    /\ reserved' = reserved - Qty[o]
    /\ committed' = committed + Qty[o]
    /\ reservation' = [reservation EXCEPT ![o] = "confirmed"]
    /\ Record(o, "confirmed_sale")
    /\ UNCHANGED <<onHand, rows, lapsed, underReview, sweepList, orderVars>>

\* Wrong: a late payment is ignored.
IgnoreLatePayment(o) ==
    /\ reservation[o] \in {"released", "expired"}
    /\ UNCHANGED inventoryVars

\* Wrong: a late payment sells the units all the same.
SellLatePayment(o) ==
    /\ reservation[o] \in {"released", "expired"}
    /\ committed' = committed + Qty[o]
    /\ reservation' = [reservation EXCEPT ![o] = "confirmed"]
    /\ Record(o, "confirmed_sale")
    /\ UNCHANGED <<onHand, reserved, rows, lapsed, underReview, sweepList,
                   orderVars>>

\* The paid hold was released or has expired: the stock is left alone and the
\* order goes to a human.
FlagLatePayment(o) ==
    /\ reservation[o] \in {"released", "expired"}
    /\ status' = [status EXCEPT ![o] = "manual_review"]
    /\ underReview' = underReview \cup {o}
    /\ UNCHANGED <<onHand, reserved, committed, reservation, rows, lapsed,
                   movements, sweepList, asaasPaymentId>>

ConfirmSale(p) ==
    \/ \E o \in Orders : /\ LatestReservation(o, p)
                         /\ \/ CommitHold(o)
                            \/ FlagLatePayment(o)
                            \/ /\ reservation[o] = "confirmed"
                               /\ UNCHANGED inventoryVars
    \/ /\ ~ \E o \in Orders : LatestReservation(o, p)
       /\ UNCHANGED inventoryVars

\* release_reservation_for_payment_conn: LIMIT 1 without an ORDER BY picks any
\* order that carries the payment id.
ReleaseForPayment(p) ==
    \/ \E o \in Orders : /\ asaasPaymentId[o] = p
                         /\ \/ Release(o)
                            \/ /\ reservation[o] # "active"
                               /\ UNCHANGED inventoryVars
    \/ /\ \A o \in Orders : asaasPaymentId[o] # p
       /\ UNCHANGED inventoryVars

\* mark_refund_review_conn: a refund never returns units to the shelf.
MarkRefundReview(p) ==
    /\ \/ \E o \in Orders : /\ asaasPaymentId[o] = p
                            /\ underReview' = underReview \cup {o}
       \/ /\ \A o \in Orders : asaasPaymentId[o] # p
          /\ UNCHANGED underReview
    /\ UNCHANGED <<onHand, reserved, committed, reservation, rows, lapsed,
                   movements, sweepList, orderVars>>

-----------------------------------------------------------------------------
(* The expiry sweep *)

\* reserved_until of an open hold passes; it is never moved forward again.
Lapse(o) ==
    /\ reservation[o] = "active"
    /\ o \notin lapsed
    /\ lapsed' = lapsed \cup {o}
    /\ UNCHANGED <<onHand, reserved, committed, reservation, rows, movements,
                   underReview, sweepList, orderVars>>

\* Wrong: only holds of orders that got their link are looked for.
SweepSelectLinked(w) ==
    LET overdue == {o \in OrdersIn("active") \cap lapsed :
                      status[o] = "payment_link_created"}
    IN  /\ sweepList[w] = {} /\ overdue # {}
        /\ sweepList' = [sweepList EXCEPT ![w] = overdue]
        /\ UNCHANGED <<onHand, reserved, committed, reservation, rows, lapsed,
                       movements, underReview, orderVars>>

\* release_expired reads the overdue holds, outside any transaction.
SweepSelect(w) ==
    /\ sweepList[w] = {}
    /\ OrdersIn("active") \cap lapsed # {}
    /\ sweepList' = [sweepList EXCEPT ![w] = OrdersIn("active") \cap lapsed]
    /\ UNCHANGED <<onHand, reserved, committed, reservation, rows, lapsed,
                   movements, underReview, orderVars>>

\* ... and releases them one transaction each, from the list it read before.
SweepRelease(w, o) ==
    /\ o \in sweepList[w]
    /\ sweepList' = [sweepList EXCEPT ![w] = @ \ {o}]
    /\ \/ CloseHold(o, "expired", "expired")
       \/ /\ reservation[o] # "active"
          /\ UNCHANGED <<onHand, reserved, committed, reservation, rows,
                         lapsed, movements, underReview, orderVars>>

\* An error or a restart ends the sweep; what it had not visited waits for the
\* next one.
SweepAbort(w) ==
    /\ sweepList[w] # {}
    /\ sweepList' = [sweepList EXCEPT ![w] = {}]
    /\ UNCHANGED <<onHand, reserved, committed, reservation, rows, lapsed,
                   movements, underReview, orderVars>>

-----------------------------------------------------------------------------
(* The operator and the other writers of the orders row *)

\* Wrong: nothing stops a correction.
AdjustUnchecked(d) ==
    /\ onHand + d <= MaxOnHand
    /\ onHand' = onHand + d
    /\ UNCHANGED <<reserved, committed, reservation, rows, lapsed, movements,
                   underReview, sweepList, orderVars>>

\* manual_adjustment: the CHECK constraints of inventory_items reject the
\* transaction when the correction would cut into held or sold units, and the
\* column's width when it would overflow.
ManualAdjustment(d) ==
    /\ onHand + d \in 0 .. MaxOnHand
    /\ reserved + committed <= onHand + d
    /\ onHand' = onHand + d
    /\ UNCHANGED <<reserved, committed, reservation, rows, lapsed, movements,
                   underReview, sweepList, orderVars>>

\* create_order_draft, mark_order_payment_created, mark_order_payment_failed,
\* attach_hosted_checkout_payment_conn and _sync_order_status write these two
\* columns of any set of order rows and nothing of the stock.
OrderWrite ==
    /\ status' \in [Orders -> OrderStatus \cup {"absent"}]
    /\ asaasPaymentId' \in [Orders -> PaymentIds \cup {NoPaymentId}]
    /\ \A o \in Orders : status[o] # "absent" => status'[o] # "absent"
    /\ UNCHANGED stockVars

StockNext ==
    \/ \E o \in Orders : Reserve(o) \/ Release(o) \/ Lapse(o)
    \/ \E p \in PaymentIds :
          ConfirmSale(p) \/ ReleaseForPayment(p) \/ MarkRefundReview(p)
    \/ \E w \in Sweepers :
          \/ SweepSelect(w)
          \/ \E o \in Orders : SweepRelease(w, o)
          \/ SweepAbort(w)
    \/ \E d \in Adjustments : ManualAdjustment(d)

InventoryNext == StockNext \/ OrderWrite

InventorySpec == InventoryInit /\ [][InventoryNext]_inventoryVars

-----------------------------------------------------------------------------
(* Properties *)

\* The two counters of inventory_items, which every transaction only adds to or
\* subtracts from, stay equal to what the reservation rows say: reserved_qty is
\* the number of units under an active hold, committed_qty the number sold.
CountersMatchReservations ==
    /\ reserved = UnitCount(OrdersIn("active"))
    /\ committed = UnitCount(OrdersIn("confirmed"))

\* No unit is promised twice: held and sold units together never exceed what is
\* on the shelf.  The CHECK constraint inventory_items_no_oversell, "the hard
\* no-oversell invariant", therefore never fires on reserve, release, confirm
\* or expire; only a manual correction can run into it.
NoOversell == reserved + committed <= onHand

\* The append-only ledger tells the same story as the reservation rows: a hold
\* is opened once, closed at most once, and by the movement its status names.
LedgerExplainsReservations ==
    \A o \in Orders :
        LET n(m) == movements[o][m]
            once(b) == IF b THEN 1 ELSE 0
        IN  /\ n("reserved") = once(reservation[o] # "none")
            /\ n("confirmed_sale") = once(reservation[o] = "confirmed")
            /\ n("released") = once(reservation[o] = "released")
            /\ n("expired") = once(reservation[o] = "expired")

\* A hold leaves "active" for good: whatever arrives later, a payment for an
\* expired hold, a second sweep working from an old list, a cancellation of a
\* sold order, it never changes how the hold ended or opens it again.
ClosedHoldsStayClosed ==
    [][\A o \in Orders :
          reservation[o] \in {"confirmed", "released", "expired"}
              => reservation'[o] = reservation[o]]_inventoryVars

\* Where each order stands with its units, in the words of StockPromises.
promiseOf == [o \in Orders |->
                CASE reservation[o] = "none" -> "never"
                  [] reservation[o] = "active" -> "held"
                  [] reservation[o] = "confirmed" -> "sold"
                  [] OTHER -> "void"]

\* The counters implement the promises of StockPromises: each transaction sets
\* units aside, keeps or gives up one promise, recounts the shelf, or does
\* nothing that the promises can see.
Promises == INSTANCE StockPromises WITH supply <- onHand, promise <- promiseOf

ImplementsPromises == Promises!PromiseSpec

=============================================================================
