----------------------------- MODULE Fulfilment -----------------------------
(***************************************************************************)
(* From the label to the loyalty messages: shipping/service.py buys a      *)
(* label at SuperFrete, superfrete_webhook.py and memory/order_store.py    *)
(* record its tracking events, a delivery schedules follow-ups, and        *)
(* agents/fidelizacao.py sends those that are due.                         *)
(*                                                                         *)
(* Every statement on the database commits by itself.  No constraint makes *)
(* shipments unique per order; followup_events is unique per order and     *)
(* kind, webhook_events per provider event.                                *)
(***************************************************************************)
EXTENDS LeadMemory, Sequences, FiniteSets

CONSTANTS
    Orders,
    Buyer,          \* the <<lead, product>> of an order
    Kinds,          \* follow-ups of a delivery
    Delay,          \* days from the delivery to a follow-up
    Labellers,      \* calls of create_label_for_order
    Trackers,       \* requests of the SuperFrete webhook
    Dispatchers,    \* the cron of each worker
    LastDay,        \* bound: days of a behaviour
    MaxParcels      \* bound: labels put in the cart

ASSUME FulfilmentAssumption ==
    /\ Orders # {} /\ Kinds # {}
    /\ Buyer \in [Orders -> Leads \X STRING]
    /\ Delay \in [Kinds -> Nat]
    /\ LastDay \in Nat /\ MaxParcels \in Nat \ {0}

VARIABLES
    day,
    parcel,     \* SuperFrete: its orders, in the order of their creation
    announced,  \* SuperFrete: the events it sends, any of them repeatedly
    shipments,  \* rows of shipments, in the order of created_at
    seen,       \* events with a row in webhook_events
    followup,   \* followup[o][k]: the row of followup_events
    label,      \* label[b]: the call b of create_label_for_order
    tracker,    \* tracker[h]: the request h of the webhook
    run,        \* run[d]: the run of dispatcher d
    ran,        \* ran[d]: the last day dispatcher d ran
    \* what the properties speak of
    cut,        \* rows of shipments whose delivery was cut short by a fault
    reached,    \* reached[o][k]: messages the lead got for the follow-up
    excused     \* follow-ups two runs or a fault may send again

shippingVars == <<parcel, announced, shipments, seen, followup, label, tracker, cut>>
loyaltyVars == <<run, ran, reached, excused>>
fulfilmentVars == <<day, shippingVars, loyaltyVars>>

Parcels == 1 .. MaxParcels
Statuses == {"created", "paid", "posted", "delivered", "cancelled"}
\* code is the tracking code of a parcel, 0 for none; at the day it arrived.  An
\* event may carry its code, and as the id of its body that of the order.
Shipment == [order : Orders, ext : Parcels, code : Parcels \cup {0},
             status : Statuses, delivered : BOOLEAN]
Event == [kind : {"posted", "delivered", "cancelled"}, of : Parcels, coded : BOOLEAN,
          byOrder : BOOLEAN, at : 0 .. LastDay]
Followup == [status : {"none", "scheduled", "sent"}, due : Nat]
NoFollowup == [status |-> "none", due |-> 0]

\* row is what the call found, 0 for nothing.
Labelling == [pc : {"idle", "find", "save", "pay"}, order : Orders,
              of : Parcels \cup {0}, paid : BOOLEAN, row : Nat]
NoLabelling == [pc |-> "idle", order |-> CHOOSE o \in Orders : TRUE, of |-> 0,
                paid |-> FALSE, row |-> 0]

Tracking == [pc : {"idle", "record", "apply", "schedule"}, event : Event,
             row : Nat, todo : SUBSET Kinds]

Due == [order : Orders, kind : Kinds, copy : Nat, due : Nat]
Run == [pc : {"idle", "next", "mark"}, todo : SUBSET Due, hand : Due]

AnyEvent == [kind |-> "posted", of |-> 1, coded |-> FALSE,
             byOrder |-> FALSE, at |-> 0]
NoTracking == [pc |-> "idle", event |-> AnyEvent, row |-> 0, todo |-> {}]
NoDue == [order |-> CHOOSE o \in Orders : TRUE, kind |-> CHOOSE k \in Kinds : TRUE,
          copy |-> 0, due |-> 0]
NoRun == [pc |-> "idle", todo |-> {}, hand |-> NoDue]

FulfilmentInit ==
    /\ day = 0
    /\ parcel = <<>> /\ announced = {}
    /\ shipments = <<>> /\ seen = {} /\ cut = {}
    /\ followup = [o \in Orders |-> [k \in Kinds |-> NoFollowup]]
    /\ label = [b \in Labellers |-> NoLabelling]
    /\ tracker = [h \in Trackers |-> NoTracking]
    /\ run = [d \in Dispatchers |-> NoRun]
    /\ ran = [d \in Dispatchers |-> 0]
    /\ reached = [o \in Orders |-> [k \in Kinds |-> 0]]
    /\ excused = {}

-----------------------------------------------------------------------------
(* SuperFrete and the carrier *)

\* What becomes of a paid parcel, and the event sent of it.
Carry(x, kind, coded, byOrder) ==
    LET from == [posted |-> "paid", delivered |-> "posted", cancelled |-> "paid"] IN
    /\ parcel[x] = from[kind]
    /\ parcel' = [parcel EXCEPT ![x] = kind]
    /\ announced' = announced \cup
         {[kind |-> kind, of |-> x, coded |-> coded, byOrder |-> byOrder, at |-> day]}
    /\ UNCHANGED <<day, shipments, seen, followup, label, tracker, cut, loyaltyVars>>

-----------------------------------------------------------------------------
(* create_label_for_order *)

Newest(rows) == CHOOSE i \in rows : \A j \in rows : j <= i

\* The row of this SuperFrete order, or else the newest row of our order.
_find_shipment_id(o, x) ==
    LET same == {i \in DOMAIN shipments : shipments[i].ext = x}
        ours == {i \in DOMAIN shipments : shipments[i].order = o}
    IN IF same # {} THEN Newest(same) ELSE IF ours # {} THEN Newest(ours) ELSE 0

\* add_to_cart; without an id in the answer nothing is stored.
AddToCart(b, o) ==
    /\ label[b].pc = "idle" /\ Len(parcel) < MaxParcels
    /\ parcel' = Append(parcel, "created")
    /\ label' = [label EXCEPT ![b] = [NoLabelling EXCEPT !.pc = "find", !.order = o,
                                                       !.of = Len(parcel) + 1]]
    /\ UNCHANGED <<day, announced, shipments, seen, followup, tracker, cut, loyaltyVars>>

FindShipment(b) ==
    /\ label[b].pc = "find"
    /\ label' = [label EXCEPT ![b].pc = "save",
                              ![b].row = _find_shipment_id(label[b].order, label[b].of)]
    /\ UNCHANGED <<day, parcel, announced, shipments, seen, followup, tracker, cut,
                   loyaltyVars>>

Relabelled(s, x, coded, status) ==
    [s EXCEPT !.ext = x, !.code = IF coded THEN x ELSE @, !.status = status]

\* Find and write are two statements: calls that both find nothing insert two
\* rows, and a later call for the order takes over the row of the first.  A label just
\* bought is not delivered, so the branch for that is not reached from here.
upsert_shipment(b, coded) ==
    LET o == label[b].order
        x == label[b].of
        code == IF coded THEN x ELSE 0
        status == IF label[b].paid THEN "paid" ELSE "created"
    IN
    /\ label[b].pc = "save" /\ (coded => label[b].paid)
    /\ shipments' = IF label[b].row = 0
                    THEN Append(shipments, [order |-> o, ext |-> x, code |-> code,
                                            status |-> status, delivered |-> FALSE])
                    ELSE [shipments EXCEPT ![label[b].row] = Relabelled(@, x, coded, status)]
    /\ label' = [label EXCEPT ![b] = IF label[b].paid THEN NoLabelling
                                     ELSE [@ EXCEPT !.pc = "pay", !.row = 0]]
    /\ UNCHANGED <<day, parcel, announced, seen, followup, tracker, cut, loyaltyVars>>

\* Not every call checks out.
Checkout(b, execute_checkout) ==
    LET x == label[b].of IN
    /\ label[b].pc = "pay"
    /\ IF execute_checkout
       THEN /\ parcel' = [parcel EXCEPT ![x] = "paid"]
            /\ label' = [label EXCEPT ![b].pc = "find", ![b].paid = TRUE]
       ELSE /\ parcel' = parcel
            /\ label' = [label EXCEPT ![b] = NoLabelling]
    /\ UNCHANGED <<day, announced, shipments, seen, followup, tracker, cut, loyaltyVars>>

\* upsert_shipment logs and swallows an error of the database: a label may be
\* paid of which there is no row.
SaveFails(b) ==
    /\ label[b].pc \in {"find", "save"} /\ ~label[b].paid /\ faults < MaxFaults
    /\ faults' = faults + 1
    /\ label' = [label EXCEPT ![b].pc = "pay", ![b].row = 0]
    /\ UNCHANGED <<day, parcel, announced, shipments, seen, followup, tracker, cut,
                   loyaltyVars>>

\* SuperFrete or the last statement fails, or the process dies: nothing is undone.
LabelFails(b) ==
    /\ label[b].pc # "idle" /\ faults < MaxFaults
    /\ faults' = faults + 1
    /\ label' = [label EXCEPT ![b] = NoLabelling]
    /\ UNCHANGED <<day, parcel, announced, shipments, seen, followup, tracker, cut,
                   loyaltyVars>>

-----------------------------------------------------------------------------
(* record_superfrete_tracking_event *)

Matching(e) ==
    {i \in DOMAIN shipments : \/ shipments[i].ext = e.of
                              \/ e.coded /\ shipments[i].code = e.of}

\* The id of the body, or else the event's name, order and code; the day does not
\* belong to it.  An id of the body that is the order's, as the webhook reads it, is
\* the same for all that becomes of the order.
EventId(e) == IF e.byOrder THEN <<"any", e.of, FALSE>> ELSE <<e.kind, e.of, e.coded>>

\* missing_shipment is answered before anything is written.
receive_superfrete_webhook(h, e) ==
    /\ tracker[h].pc = "idle" /\ e \in announced /\ Matching(e) # {}
    /\ tracker' = [tracker EXCEPT ![h] = [pc |-> "record", event |-> e,
                                          row |-> Newest(Matching(e)), todo |-> {}]]
    /\ UNCHANGED <<day, parcel, announced, shipments, seen, followup, label, cut,
                   loyaltyVars>>

RecordEvent(h) ==
    LET id == EventId(tracker[h].event) IN
    /\ tracker[h].pc = "record"
    /\ tracker' = [tracker EXCEPT ![h] = IF id \in seen THEN NoTracking
                                         ELSE [@ EXCEPT !.pc = "apply"]]
    /\ seen' = seen \cup {id}
    /\ UNCHANGED <<day, parcel, announced, shipments, followup, label, cut, loyaltyVars>>

\* The status is the event's, whatever it was; delivered_at is kept.
Tracked(s, e) ==
    [s EXCEPT !.status = e.kind, !.code = IF e.coded THEN e.of ELSE @,
              !.delivered = @ \/ e.kind = "delivered"]

ApplyEvent(h) ==
    LET e == tracker[h].event IN
    /\ tracker[h].pc = "apply"
    /\ shipments' = [shipments EXCEPT ![tracker[h].row] = Tracked(@, e)]
    /\ tracker' = [tracker EXCEPT ![h] =
                     IF e.kind = "delivered"
                     THEN [@ EXCEPT !.pc = "schedule", !.todo = Kinds]
                     ELSE NoTracking]
    /\ UNCHANGED <<day, parcel, announced, seen, followup, label, cut, loyaltyVars>>

\* Wrong: a second delivery arms a follow-up that was sent.
ScheduledAgain(row, due) == [status |-> "scheduled", due |-> due]

\* A follow-up that was sent stays sent; one that was not is moved.
Scheduled(row, due) ==
    [status |-> IF row.status = "sent" THEN "sent" ELSE "scheduled", due |-> due]

\* Wrong: the request is over with its first follow-up.
ScheduleOne(h, k) ==
    LET o == shipments[tracker[h].row].order IN
    /\ tracker[h].pc = "schedule" /\ k \in tracker[h].todo
    /\ followup' = [followup EXCEPT ![o][k] =
                      Scheduled(@, tracker[h].event.at + Delay[k])]
    /\ tracker' = [tracker EXCEPT ![h] = NoTracking]
    /\ UNCHANGED <<day, parcel, announced, shipments, seen, label, cut, loyaltyVars>>

_schedule_delivery_followups(h, k) ==
    LET o == shipments[tracker[h].row].order
        rest == tracker[h].todo \ {k}
    IN
    /\ tracker[h].pc = "schedule" /\ k \in tracker[h].todo
    /\ followup' = [followup EXCEPT ![o][k] =
                      Scheduled(@, tracker[h].event.at + Delay[k])]
    /\ tracker' = [tracker EXCEPT ![h] = IF rest = {} THEN NoTracking
                                         ELSE [@ EXCEPT !.todo = rest]]
    /\ UNCHANGED <<day, parcel, announced, shipments, seen, label, cut, loyaltyVars>>

\* An error or a death between two statements; the event is recorded by then,
\* so no redelivery makes up for what is missing.
TrackerFails(h) ==
    /\ tracker[h].pc # "idle" /\ faults < MaxFaults
    /\ faults' = faults + 1
    /\ tracker' = [tracker EXCEPT ![h] = NoTracking]
    /\ cut' = IF tracker[h].pc \in {"apply", "schedule"} THEN cut \cup {tracker[h].row}
              ELSE cut
    /\ UNCHANGED <<day, parcel, announced, shipments, seen, followup, label, loyaltyVars>>

-----------------------------------------------------------------------------
(* FidelizacaoScheduler *)

\* LEFT JOIN shipments: a row per shipment of the order, or one.
Copies(o) ==
    LET n == Cardinality({i \in DOMAIN shipments : shipments[i].order = o}) IN
    1 .. (IF n = 0 THEN 1 ELSE n)

DueRows ==
    {r \in [order : Orders, kind : Kinds, copy : 1 .. Len(shipments) + 1, due : 0 .. day] :
        /\ followup[r.order][r.kind] = [status |-> "scheduled", due |-> r.due]
        /\ Buyer[r.order][1] \notin optedOut
        /\ r.copy \in Copies(r.order)}

InHand(d) == run[d].todo \cup (IF run[d].pc = "mark" THEN {run[d].hand} ELSE {})
Followups(rows) == {<<r.order, r.kind>> : r \in rows}

\* The rows of _mark_followup_sent: every follow-up of this kind for the same
\* lead and product.
Alike(o, k) == {<<p, k>> : p \in {q \in Orders : Buyer[q] = Buyer[o]}}

\* Once a day in each worker.
_check_and_dispatch(d) ==
    /\ run[d].pc = "idle" /\ ran[d] < day /\ DueRows # {}
    /\ ran' = [ran EXCEPT ![d] = day]
    /\ run' = [run EXCEPT ![d] = [pc |-> "next", todo |-> DueRows, hand |-> NoDue]]
    /\ excused' = excused
         \cup (Followups(DueRows) \cap UNION {Followups(InHand(e)) : e \in Dispatchers \ {d}})
         \cup Followups({r \in DueRows : Cardinality(Copies(r.order)) > 1})
    /\ UNCHANGED <<day, shippingVars, reached>>

\* The agent sends with its tool and may fail before or after that; a row whose
\* agent failed is not marked.
Dispatch(d, sends, fails) ==
    /\ run[d].pc = "next" /\ faults' = IF fails THEN faults + 1 ELSE faults
    /\ fails => faults < MaxFaults
    /\ \E r \in {q \in run[d].todo : \A p \in run[d].todo : q.due <= p.due} :
         /\ run' = [run EXCEPT ![d] = [pc |-> IF fails THEN "next" ELSE "mark",
                                       todo |-> @.todo \ {r},
                                       hand |-> IF fails THEN NoDue ELSE r]]
         /\ reached' = [reached EXCEPT ![r.order][r.kind] = IF sends THEN @ + 1 ELSE @]
         /\ excused' = IF fails THEN excused \cup {<<r.order, r.kind>>} ELSE excused
    /\ UNCHANGED <<day, shippingVars, ran>>

\* An error is logged and swallowed.
_mark_followup_sent(d, fails) ==
    LET r == run[d].hand
        marked == Alike(r.order, r.kind)
    IN
    /\ run[d].pc = "mark" /\ faults' = IF fails THEN faults + 1 ELSE faults
    /\ fails => faults < MaxFaults
    /\ followup' = IF fails THEN followup
                   ELSE [o \in Orders |-> [k \in Kinds |->
                           IF <<o, k>> \in marked /\ followup[o][k].status = "scheduled"
                           THEN [followup[o][k] EXCEPT !.status = "sent"]
                           ELSE followup[o][k]]]
    /\ excused' = IF fails THEN excused \cup {<<r.order, r.kind>>} ELSE excused
    /\ run' = [run EXCEPT ![d].pc = "next", ![d].hand = NoDue]
    /\ UNCHANGED <<day, parcel, announced, shipments, seen, label, tracker, cut, ran, reached>>

RunEnds(d) ==
    /\ run[d].pc = "next" /\ run[d].todo = {}
    /\ run' = [run EXCEPT ![d] = NoRun]
    /\ UNCHANGED <<day, shippingVars, ran, reached, excused>>

DispatcherDies(d) ==
    /\ run[d].pc # "idle" /\ faults < MaxFaults
    /\ faults' = faults + 1
    /\ excused' = excused \cup
         (IF run[d].pc = "mark" THEN {<<run[d].hand.order, run[d].hand.kind>>} ELSE {})
    /\ run' = [run EXCEPT ![d] = NoRun]
    /\ UNCHANGED <<day, shippingVars, ran, reached>>

DayPasses ==
    /\ day < LastDay
    /\ day' = day + 1
    /\ UNCHANGED <<shippingVars, loyaltyVars>>

-----------------------------------------------------------------------------
Ship ==
    \/ \E x \in DOMAIN parcel, kind \in {"posted", "delivered", "cancelled"},
          coded \in BOOLEAN, byOrder \in BOOLEAN : Carry(x, kind, coded, byOrder)
    \/ \E b \in Labellers, o \in Orders : AddToCart(b, o)
    \/ \E b \in Labellers : FindShipment(b)
    \/ \E b \in Labellers, flag \in BOOLEAN : upsert_shipment(b, flag) \/ Checkout(b, flag)

Track ==
    \/ \E h \in Trackers, e \in announced : receive_superfrete_webhook(h, e)
    \/ \E h \in Trackers : RecordEvent(h) \/ ApplyEvent(h)
    \/ \E h \in Trackers, k \in Kinds : _schedule_delivery_followups(h, k)

Loyalty(d) ==
    \/ _check_and_dispatch(d) /\ UNCHANGED faults
    \/ \E sends \in BOOLEAN, fails \in BOOLEAN : Dispatch(d, sends, fails)
    \/ \E fails \in BOOLEAN : _mark_followup_sent(d, fails)
    \/ RunEnds(d) /\ UNCHANGED faults
    \/ DispatcherDies(d)

FulfilmentNext ==
    \/ Ship /\ UNCHANGED faults
    \/ Track /\ UNCHANGED faults
    \/ \E b \in Labellers : SaveFails(b) \/ LabelFails(b)
    \/ \E h \in Trackers : TrackerFails(h)
    \/ \E d \in Dispatchers : Loyalty(d)
    \/ DayPasses /\ UNCHANGED faults

-----------------------------------------------------------------------------
(* Properties *)

\* Rows and calls are in states the code knows; the rows that calls and requests
\* hold exist, a follow-up that is due was scheduled by a delivery.
FulfilmentTypeOK ==
    /\ day \in 0 .. LastDay
    /\ parcel \in Seq(Statuses) /\ Len(parcel) <= MaxParcels
    /\ announced \subseteq Event
    /\ shipments \in Seq(Shipment)
    /\ cut \subseteq DOMAIN shipments
    /\ followup \in [Orders -> [Kinds -> Followup]]
    /\ label \in [Labellers -> Labelling]
    /\ \A b \in Labellers : /\ label[b].row \in 0 .. Len(shipments)
                            /\ label[b].pc # "idle" => label[b].of \in DOMAIN parcel
    /\ tracker \in [Trackers -> Tracking]
    /\ \A h \in Trackers : tracker[h].pc # "idle" => tracker[h].row \in DOMAIN shipments
    /\ run \in [Dispatchers -> Run] /\ ran \in [Dispatchers -> 0 .. LastDay]
    /\ reached \in [Orders -> [Kinds -> Nat]]
    /\ excused \subseteq Orders \X Kinds

\* A recorded delivery is followed up: every kind has a row, whatever became of
\* the events before it, of a second label and of a second delivery, unless the
\* request that recorded it was cut short.
DeliveryIsFollowedUp ==
    \A i \in DOMAIN shipments \ cut :
        shipments[i].delivered =>
            \/ \A k \in Kinds : followup[shipments[i].order][k].status # "none"
            \/ \E h \in Trackers : tracker[h].pc = "schedule" /\ tracker[h].row = i

\* "dispara o FidelizacaoAgent uma vez": a lead gets a follow-up twice only if
\* two runs overlapped on it, the order had two shipments, or its run failed or
\* died.  No later delivery and no moved date brings a sent one back.
FollowupSentOnce ==
    \A o \in Orders, k \in Kinds : reached[o][k] > 1 => <<o, k>> \in excused
=============================================================================
