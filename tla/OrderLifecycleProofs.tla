------------------------ MODULE OrderLifecycleProofs ------------------------
(***************************************************************************)
(* What the payment tool and the webhook guarantee for every set of        *)
(* orders, customers, requests in progress and faults.                     *)
(*                                                                         *)
(* First: they touch the stock only through the transactions of Inventory  *)
(* (LifecycleUsesInventory), so what InventoryProofs proves holds here.    *)
(* Then three guarantees of their own, each from an invariant about who    *)
(* may still act: which request holds an event, how far a call has got,    *)
(* and which charges an order can carry; from the last, every sale has a   *)
(* paid event of its own.  Then what call, money, events and clock know of *)
(* an order (CallsFit), and for the orders that have their reference for   *)
(* themselves what requests have written and have yet to write (OwnInv).   *)
(* Last, the refinement of SalesPromises, the goods against the money.     *)
(***************************************************************************)
EXTENDS OrderLifecycle, InventoryProofs

-----------------------------------------------------------------------------
(* Types *)

\* An event a request works on is an event, and its charge has an id.
LEMMA HandlerEvent ==
    ASSUME LifecycleTypeOK, NEW h \in Handlers, handler[h] # Idle
    PROVE  /\ handler[h] \in [step : HandlerStep, event : Events]
           /\ handler[h].event \in Events
           /\ handler[h].event.order \in Orders
           /\ handler[h].event.kind \in EventKinds
           /\ ChargeId(handler[h].event.order) \in PaymentIds
<1>1. handler[h] \in [step : HandlerStep, event : Events]
  BY DEF LifecycleTypeOK
<1>2. handler[h].event \in Events
  BY <1>1
<1>3. handler[h].event.order \in Orders /\ handler[h].event.kind \in EventKinds
  BY <1>2 DEF Events
<1> QED
  BY <1>1, <1>2, <1>3, LifecycleAssumption

\* A request that has got somewhere is not idle.
LEMMA AtIsNotIdle ==
    ASSUME NEW h, NEW step \in HandlerStep, At(h, step)
    PROVE  handler[h] # Idle
BY DEF At, Idle, HandlerStep

\* Moving a request on keeps its event.
LEMMA ContinueMoves ==
    ASSUME LifecycleTypeOK, NEW h \in Handlers, handler[h] # Idle,
           NEW step \in HandlerStep, Continue(h, step)
    PROVE  /\ handler' \in [Handlers -> {Idle} \cup [step : HandlerStep, event : Events]]
           /\ handler' = [handler EXCEPT
                 ![h] = [step |-> step, event |-> handler[h].event]]
<1>1. handler[h] \in [step : HandlerStep, event : Events]
  BY HandlerEvent
<1>2. [handler[h] EXCEPT !.step = step]
        = [step |-> step, event |-> handler[h].event]
  BY <1>1
<1>3. handler' = [handler EXCEPT
                 ![h] = [step |-> step, event |-> handler[h].event]]
  BY <1>2 DEF Continue
<1>4. [step |-> step, event |-> handler[h].event]
        \in [step : HandlerStep, event : Events]
  BY <1>1
<1> QED
  BY <1>3, <1>4 DEF LifecycleTypeOK

LEMMA InitTypes == Init => LifecycleTypeOK
BY LifecycleAssumption, EmptySeq
DEF Init, LifecycleTypeOK, CallStep, CallEnd, Events

LEMMA FaultTypes ==
    ASSUME LifecycleTypeOK, NEW o \in Orders, FaultOn(o)
    PROVE  faults' \in 0 .. MaxFaults /\ tainted' \subseteq Orders
BY LifecycleAssumption DEF LifecycleTypeOK, FaultOn

LEMMA GotoTypes ==
    ASSUME LifecycleTypeOK, NEW o \in Orders,
           NEW step \in CallStep \cup CallEnd, Goto(o, step)
    PROVE  call' \in [Orders -> CallStep \cup CallEnd]
BY DEF LifecycleTypeOK, Goto

CallTypesOK ==
    /\ call \in [Orders -> CallStep \cup CallEnd]
    /\ created \in Seq(Orders)
    /\ asaas \in [Orders -> {"none", "open", "paid", "refunded", "deleted"}]
    /\ faults \in 0 .. MaxFaults /\ tainted \subseteq Orders

HookTypesOK ==
    /\ sent \subseteq Events /\ recorded \subseteq sent
    /\ handler \in [Handlers -> {Idle} \cup [step : HandlerStep, event : Events]]
    /\ settled \in [Events -> Nat] /\ booked \in [Events -> Nat]

LEMMA CallTypesPreserved ==
    ASSUME LifecycleTypeOK, [Next]_vars
    PROVE  CallTypesOK'
<1> USE DEF CallTypesOK, callVars, NoFault, faultVars
<1> DEFINE Leaves == UNCHANGED <<call, created, asaas>>
<1>0. ASSUME Leaves, \/ UNCHANGED faultVars
                     \/ \E o \in Orders : FaultOn(o)
      PROVE  CallTypesOK'
  BY <1>0, FaultTypes DEF LifecycleTypeOK
<1>1. ASSUME NEW o \in Orders, Draft(o) PROVE CallTypesOK'
  <2>1. created' \in Seq(Orders)
    BY <1>1, AppendProperties DEF Draft, LifecycleTypeOK
  <2>2. call' \in [Orders -> CallStep \cup CallEnd]
    BY <1>1, GotoTypes DEF Draft, CallStep
  <2> QED
    BY <1>1, <2>1, <2>2 DEF Draft, LifecycleTypeOK
<1>2. ASSUME NEW o \in Orders, DraftFails(o) PROVE CallTypesOK'
  <2>1. created \in Seq(Orders) /\ Append(created, o) \in Seq(Orders)
    BY AppendProperties DEF LifecycleTypeOK
  <2>2. call' \in [Orders -> CallStep \cup CallEnd]
    BY <1>2, GotoTypes DEF DraftFails, CallEnd
  <2> QED
    BY <1>2, <2>1, <2>2, FaultTypes DEF DraftFails, LifecycleTypeOK
<1>3. ASSUME NEW o \in Orders, ReserveForCall(o) PROVE CallTypesOK'
  BY <1>3, GotoTypes DEF ReserveForCall, LifecycleTypeOK, CallStep, CallEnd
<1>4. ASSUME NEW o \in Orders, ReserveFails(o) PROVE CallTypesOK'
  BY <1>4, GotoTypes, FaultTypes DEF ReserveFails, LifecycleTypeOK, CallEnd
<1>5. ASSUME NEW o \in Orders, AsaasCreates(o) PROVE CallTypesOK'
  BY <1>5, GotoTypes DEF AsaasCreates, LifecycleTypeOK, CallStep
<1>6. ASSUME NEW o \in Orders, AsaasRefuses(o) PROVE CallTypesOK'
  BY <1>6, GotoTypes DEF AsaasRefuses, LifecycleTypeOK, CallStep
<1>7. ASSUME NEW o \in Orders, MarkCreated(o) PROVE CallTypesOK'
  BY <1>7, GotoTypes DEF MarkCreated, LifecycleTypeOK, CallEnd
<1>8. ASSUME NEW o \in Orders, MarkCreatedFails(o) PROVE CallTypesOK'
  BY <1>8, GotoTypes, FaultTypes DEF MarkCreatedFails, LifecycleTypeOK, CallEnd
<1>9. ASSUME NEW o \in Orders, UndoHold(o) PROVE CallTypesOK'
  BY <1>9, GotoTypes DEF UndoHold, LifecycleTypeOK, CallStep
<1>10. ASSUME NEW o \in Orders, MarkFailed(o) PROVE CallTypesOK'
  BY <1>10, GotoTypes DEF MarkFailed, LifecycleTypeOK, CallEnd
<1>11. ASSUME NEW o \in Orders, UndoFails(o) PROVE CallTypesOK'
  BY <1>11, GotoTypes, FaultTypes DEF UndoFails, LifecycleTypeOK, CallStep, CallEnd
<1>12. ASSUME NEW o \in Orders, CallDies(o) PROVE CallTypesOK'
  BY <1>12, GotoTypes, FaultTypes DEF CallDies, LifecycleTypeOK, CallEnd
<1>13. ASSUME NEW o \in Orders,
              Pay(o) \/ Refund(o) \/ Delete(o) \/ CancelSlip(o)
       PROVE  CallTypesOK'
  BY <1>13 DEF Pay, Refund, Delete, CancelSlip, LifecycleTypeOK
<1>14. ASSUME NEW o \in Orders, HoldLapses(o) PROVE CallTypesOK'
  BY <1>14, <1>0 DEF HoldLapses
<1>15. ASSUME NEW h \in Handlers, NEW e \in Events, RecordEvent(h, e)
       PROVE  CallTypesOK'
  BY <1>15, <1>0 DEF RecordEvent
<1>16. ASSUME NEW h \in Handlers, HandlerProceeds(h) PROVE CallTypesOK'
  BY <1>16, <1>0 DEF HandlerProceeds, Attach, SyncStatus, Settle, Book
<1>17. ASSUME NEW h \in Handlers, SettleFails(h) \/ HandlerDies(h)
       PROVE  CallTypesOK'
  <2>1. handler[h] # Idle
    BY <1>17, AtIsNotIdle DEF SettleFails, HandlerDies, HandlerStep
  <2>2. handler[h].event.order \in Orders
    BY <2>1, HandlerEvent
  <2> QED
    BY <1>17, <1>0, <2>2 DEF SettleFails, HandlerDies
<1>18. ASSUME NEW w \in Sweepers, Sweep(w) PROVE CallTypesOK'
  BY <1>18, <1>0 DEF Sweep
<1>19. ASSUME NEW w \in Sweepers, SweepDies(w) PROVE CallTypesOK'
  BY <1>19, LifecycleAssumption DEF SweepDies, LifecycleTypeOK
<1>20. ASSUME NEW d \in Adjustments, Adjust(d) PROVE CallTypesOK'
  BY <1>20, <1>0 DEF Adjust
<1>21. ASSUME UNCHANGED vars PROVE CallTypesOK'
  BY <1>21, <1>0 DEF vars
<1> HIDE DEF CallTypesOK
<1> QED
  BY <1>1, <1>2, <1>3, <1>4, <1>5, <1>6, <1>7, <1>8, <1>9, <1>10, <1>11, <1>12,
     <1>13, <1>14, <1>15, <1>16, <1>17, <1>18, <1>19, <1>20, <1>21
  DEF Next, CallProceeds, CallFaults

-----------------------------------------------------------------------------
(* What a step does to the requests in progress and to what they leave *)

Sets(h, step) ==
    handler' = [handler EXCEPT ![h] = [step |-> step, event |-> handler[h].event]]

Takes(h, e) ==
    /\ handler[h] = Idle
    /\ e \in sent \ recorded
    /\ recorded' = recorded \cup {e}
    /\ handler' = [handler EXCEPT ![h] = [step |-> "recorded", event |-> e]]
    /\ UNCHANGED <<settled, booked>>

Advances(h) ==
    /\ handler[h] # Idle /\ handler[h].step # "settled"
    /\ \E step \in HandlerStep : Sets(h, step)
    /\ UNCHANGED <<recorded, settled, booked>>

Settles(h) ==
    /\ At(h, "synced")
    /\ Sets(h, "settled")
    /\ settled' = [settled EXCEPT ![handler[h].event] = @ + 1]
    /\ UNCHANGED <<recorded, booked>>

Finishes(h) ==
    /\ handler[h] # Idle
    /\ handler' = [handler EXCEPT ![h] = Idle]
    /\ \/ booked' = [booked EXCEPT ![handler[h].event] = @ + 1]
       \/ UNCHANGED booked
    /\ UNCHANGED <<recorded, settled>>

HookStep ==
    \/ \E h \in Handlers : \/ \E e \in Events : Takes(h, e)
                           \/ Advances(h) \/ Settles(h) \/ Finishes(h)
    \/ UNCHANGED hookVars

\* Seen from the webhook, a step takes up a delivery, moves a request on,
\* commits its stock effects, ends it, or is none of its business.
LEMMA EveryStepIsAHookStep ==
    ASSUME LifecycleTypeOK, [Next]_vars
    PROVE  HookStep
<1>1. ASSUME NEW h \in Handlers, NEW e \in Events, RecordEvent(h, e)
      PROVE  HookStep
  BY <1>1 DEF RecordEvent, Takes, HookStep
<1>2. ASSUME NEW h \in Handlers, Attach(h) \/ SyncStatus(h) \/ SettleFails(h)
      PROVE  HookStep
  <2>1. /\ handler[h].step \in {"recorded", "attached", "synced"}
        /\ handler[h] # Idle
    BY <1>2, AtIsNotIdle DEF Attach, SyncStatus, SettleFails, At, HandlerStep
  <2>2. \E step \in HandlerStep : Sets(h, step)
    <3>1. PICK step \in HandlerStep : Continue(h, step)
      BY <1>2 DEF Attach, SyncStatus, SettleFails, HandlerStep
    <3> QED
      BY <2>1, <3>1, ContinueMoves DEF Sets
  <2> QED
    BY <1>2, <2>1, <2>2 DEF Attach, SyncStatus, SettleFails, Advances, HookStep
<1>3. ASSUME NEW h \in Handlers, Settle(h) PROVE HookStep
  <2>1. handler[h] # Idle /\ Continue(h, "settled")
    BY <1>3, AtIsNotIdle DEF Settle, HandlerStep
  <2>2. Sets(h, "settled")
    BY <2>1, ContinueMoves DEF Sets, HandlerStep
  <2> QED
    BY <1>3, <2>2 DEF Settle, Settles, HookStep
<1>4. ASSUME NEW h \in Handlers, Book(h) PROVE HookStep
  <2>1. handler[h] # Idle
    BY <1>4, AtIsNotIdle DEF Book, HandlerStep
  <2> QED
    BY <1>4, <2>1 DEF Book, Finishes, HookStep
<1>5. ASSUME NEW h \in Handlers, HandlerDies(h) PROVE HookStep
  BY <1>5 DEF HandlerDies, Finishes, HookStep
<1>6. ASSUME NEW o \in Orders,
             \/ Draft(o) \/ CallProceeds(o) \/ CallFaults(o)
             \/ Pay(o) \/ Refund(o) \/ Delete(o) \/ CancelSlip(o)
             \/ HoldLapses(o)
      PROVE  HookStep
  <2>1. UNCHANGED hookVars
    BY <1>6
    DEF Draft, CallProceeds, CallFaults, ReserveForCall, AsaasCreates,
        AsaasRefuses, MarkCreated, UndoHold, MarkFailed, DraftFails, ReserveFails,
        MarkCreatedFails, UndoFails, CallDies, Pay, Refund, Delete, CancelSlip,
        HoldLapses
  <2> QED
    BY <2>1 DEF HookStep
<1>7. ASSUME NEW w \in Sweepers, Sweep(w) \/ SweepDies(w) PROVE HookStep
  BY <1>7 DEF Sweep, SweepDies, HookStep
<1>8. ASSUME NEW d \in Adjustments, Adjust(d) PROVE HookStep
  BY <1>8 DEF Adjust, HookStep
<1>9. ASSUME UNCHANGED vars PROVE HookStep
  BY <1>9 DEF vars, HookStep
<1> QED
  BY <1>1, <1>2, <1>3, <1>4, <1>5, <1>6, <1>7, <1>8, <1>9
  DEF Next, HandlerProceeds

\* What Asaas has reported stays reported.
LEMMA ReportsOnlyGrow ==
    ASSUME LifecycleTypeOK, [Next]_vars
    PROVE  sent \subseteq sent' /\ sent' \subseteq Events
<1> DEFINE Grows == sent \subseteq sent' /\ sent' \subseteq Events
<1>0. ASSUME UNCHANGED sent PROVE Grows
  BY <1>0 DEF LifecycleTypeOK
<1>1. ASSUME NEW o \in Orders, NEW kinds, Report(o, kinds) PROVE Grows
  BY <1>1 DEF Report, LifecycleTypeOK
<1>2. ASSUME NEW o \in Orders, AsaasCreates(o) PROVE Grows
  BY <1>0, <1>1, <1>2 DEF AsaasCreates
<1>3. ASSUME NEW o \in Orders, Pay(o) \/ Refund(o) \/ Delete(o) \/ CancelSlip(o)
      PROVE  Grows
  BY <1>1, <1>3 DEF Pay, Refund, Delete, CancelSlip
<1>4. ASSUME NEW o \in Orders,
             \/ Draft(o) \/ ReserveForCall(o) \/ AsaasRefuses(o) \/ MarkCreated(o)
             \/ UndoHold(o) \/ MarkFailed(o) \/ CallFaults(o) \/ HoldLapses(o)
      PROVE  Grows
  <2>1. UNCHANGED sent
    BY <1>4
    DEF Draft, CallFaults, ReserveForCall, AsaasRefuses, MarkCreated, UndoHold,
        MarkFailed, DraftFails, ReserveFails, MarkCreatedFails, UndoFails,
        CallDies, HoldLapses, callVars
  <2> QED
    BY <1>0, <2>1
<1>5. ASSUME NEW h \in Handlers,
             \/ \E e \in Events : RecordEvent(h, e)
             \/ HandlerProceeds(h) \/ SettleFails(h) \/ HandlerDies(h)
      PROVE  Grows
  <2>1. UNCHANGED sent
    BY <1>5
    DEF RecordEvent, HandlerProceeds, Attach, SyncStatus, Settle, Book,
        SettleFails, HandlerDies, callVars
  <2> QED
    BY <1>0, <2>1
<1>6. ASSUME NEW w \in Sweepers, Sweep(w) \/ SweepDies(w) PROVE Grows
  BY <1>0, <1>6 DEF Sweep, SweepDies, callVars
<1>7. ASSUME NEW d \in Adjustments, Adjust(d) PROVE Grows
  BY <1>0, <1>7 DEF Adjust, callVars
<1>8. ASSUME UNCHANGED vars PROVE Grows
  BY <1>0, <1>8 DEF vars, callVars
<1> HIDE DEF Grows
<1>9. Grows
  BY <1>2, <1>3, <1>4, <1>5, <1>6, <1>7, <1>8 DEF Next, CallProceeds
<1> QED
  BY <1>9 DEF Grows

LEMMA HookTypesPreserved ==
    ASSUME LifecycleTypeOK, [Next]_vars
    PROVE  HookTypesOK'
<1>0. HookTypesOK
  BY DEF LifecycleTypeOK, HookTypesOK
<1>1. sent \subseteq sent' /\ sent' \subseteq Events
  BY ReportsOnlyGrow
<1>2. ASSUME NEW h \in Handlers, NEW e \in Events, Takes(h, e)
      PROVE  HookTypesOK'
  BY <1>0, <1>1, <1>2 DEF Takes, HookTypesOK, HandlerStep
<1>3. ASSUME NEW h \in Handlers, Advances(h) PROVE HookTypesOK'
  <2>1. handler[h].event \in Events
    BY <1>3, HandlerEvent DEF Advances
  <2> QED
    BY <1>0, <1>1, <1>3, <2>1 DEF Advances, Sets, HookTypesOK
<1>4. ASSUME NEW h \in Handlers, Settles(h) PROVE HookTypesOK'
  <2>1. handler[h].event \in Events
    BY <1>4, HandlerEvent, AtIsNotIdle DEF Settles, HandlerStep
  <2> QED
    BY <1>0, <1>1, <1>4, <2>1 DEF Settles, Sets, HookTypesOK, HandlerStep
<1>5. ASSUME NEW h \in Handlers, Finishes(h) PROVE HookTypesOK'
  BY <1>0, <1>1, <1>5 DEF Finishes, HookTypesOK
<1>6. ASSUME UNCHANGED hookVars PROVE HookTypesOK'
  BY <1>0, <1>1, <1>6 DEF hookVars, HookTypesOK
<1> QED
  BY <1>2, <1>3, <1>4, <1>5, <1>6, EveryStepIsAHookStep DEF HookStep

LEMMA StepPreservesTypes ==
    ASSUME LifecycleTypeOK, [Next]_vars
    PROVE  LifecycleTypeOK'
BY CallTypesPreserved, HookTypesPreserved
DEF LifecycleTypeOK, CallTypesOK, HookTypesOK

-----------------------------------------------------------------------------
(* Every step is a transaction of Inventory, or leaves its tables alone *)

LEMMA SetStatusWrites ==
    ASSUME InventoryTypeOK, NEW o \in Orders, NEW s \in OrderStatus,
           SetStatus(o, s),
           asaasPaymentId' \in [Orders -> PaymentIds \cup {NoPaymentId}],
           UNCHANGED stockVars
    PROVE  OrderWrite
<1>1. "absent" \notin OrderStatus
  BY DEF OrderStatus
<1>2. status' \in [Orders -> OrderStatus \cup {"absent"}]
  BY DEF SetStatus, InventoryTypeOK
<1>3. \A x \in Orders : status[x] # "absent" => status'[x] # "absent"
  BY <1>1 DEF SetStatus, InventoryTypeOK
<1> QED
  BY <1>2, <1>3 DEF OrderWrite

\* The status the webhook gives a row is one of the table's, and never removes
\* the row.
LEMMA SyncedIsStatus ==
    ASSUME NEW kind, NEW s \in OrderStatus \cup {"absent"}
    PROVE  /\ Synced(kind, s) \in OrderStatus \cup {"absent"}
           /\ s # "absent" => Synced(kind, s) # "absent"
BY DEF Synced, PaidKinds, CancelKinds, OrderStatus

LEMMA EveryStepUsesInventory ==
    ASSUME InventoryTypeOK, LifecycleTypeOK, [Next]_vars
    PROVE  [InventoryNext]_inventoryVars
<1> DEFINE Goal == [InventoryNext]_inventoryVars
<1>0. /\ UNCHANGED inventoryVars => Goal
      /\ OrderWrite => Goal
      /\ StockNext => Goal
  BY DEF InventoryNext
<1>a. asaasPaymentId \in [Orders -> PaymentIds \cup {NoPaymentId}]
  BY DEF InventoryTypeOK
<1> HIDE DEF Goal
<1>1. ASSUME NEW o \in Orders, Draft(o) PROVE Goal
  BY <1>0, <1>1, <1>a, SetStatusWrites DEF Draft, OrderStatus
<1>2. ASSUME NEW o \in Orders, DraftFails(o) PROVE Goal
  <2>1. CASE SetStatus(o, "checkout_ready")
    BY <1>0, <1>2, <1>a, <2>1, SetStatusWrites DEF DraftFails, OrderStatus
  <2>2. CASE UNCHANGED status
    BY <1>0, <1>2, <2>2 DEF DraftFails, stockVars, inventoryVars
  <2> QED
    BY <1>2, <2>1, <2>2 DEF DraftFails
<1>3. ASSUME NEW o \in Orders, ReserveForCall(o) \/ ReserveFails(o) PROVE Goal
  BY <1>0, <1>3 DEF ReserveForCall, ReserveFails, StockNext
<1>4. ASSUME NEW o \in Orders, MarkCreated(o) PROVE Goal
  <2>1. ChargeId(o) \in PaymentIds /\ (o \in CardOrders => SessionId(o) \in PaymentIds)
    BY LifecycleAssumption
  <2>2. asaasPaymentId' \in [Orders -> PaymentIds \cup {NoPaymentId}]
    BY <1>4, <1>a, <2>1 DEF MarkCreated
  <2> QED
    BY <1>0, <1>4, <2>2, SetStatusWrites DEF MarkCreated, OrderStatus
<1>5. ASSUME NEW o \in Orders, UndoHold(o) PROVE Goal
  BY <1>0, <1>5 DEF UndoHold, StockNext
<1>6. ASSUME NEW o \in Orders, MarkFailed(o) PROVE Goal
  <2>1. CASE status[o] = "paid"
    BY <1>0, <1>6, <2>1 DEF MarkFailed, stockVars, inventoryVars
  <2>2. CASE status[o] # "paid"
    BY <1>0, <1>6, <1>a, <2>2, SetStatusWrites DEF MarkFailed, OrderStatus
  <2> QED
    BY <2>1, <2>2
<1>7. ASSUME NEW o \in Orders,
             \/ AsaasCreates(o) \/ AsaasRefuses(o) \/ MarkCreatedFails(o)
             \/ UndoFails(o) \/ CallDies(o)
             \/ Pay(o) \/ Refund(o) \/ Delete(o) \/ CancelSlip(o)
      PROVE  Goal
  BY <1>0, <1>7
  DEF AsaasCreates, AsaasRefuses, MarkCreatedFails, UndoFails, CallDies, Pay,
      Refund, Delete, CancelSlip
<1>8. ASSUME NEW o \in Orders, HoldLapses(o) PROVE Goal
  BY <1>0, <1>8 DEF HoldLapses, StockNext
<1>9. ASSUME NEW h \in Handlers, Attach(h) PROVE Goal
  <2>1. ChargeId(handler[h].event.order) \in PaymentIds
    BY <1>9, HandlerEvent, AtIsNotIdle DEF Attach, HandlerStep
  <2>2. asaasPaymentId' \in [Orders -> PaymentIds \cup {NoPaymentId}]
    BY <1>9, <1>a, <2>1 DEF Attach
  <2> QED
    BY <1>0, <1>9, <2>2 DEF Attach, OrderWrite, InventoryTypeOK
<1>10. ASSUME NEW h \in Handlers, SyncStatus(h) PROVE Goal
  <2> DEFINE e == handler[h].event
  <2>1. \A o \in Orders : status[o] \in OrderStatus \cup {"absent"}
    BY DEF InventoryTypeOK
  <2>2. \A o \in Orders :
          /\ Synced(e.kind, status[o]) \in OrderStatus \cup {"absent"}
          /\ status[o] # "absent" => Synced(e.kind, status[o]) # "absent"
    BY <2>1, SyncedIsStatus
  <2>3. /\ status' = [o \in Orders |-> IF asaasPaymentId[o] = ChargeId(e.order)
                                       THEN Synced(e.kind, status[o]) ELSE status[o]]
        /\ UNCHANGED <<stockVars, asaasPaymentId>>
    BY <1>10 DEF SyncStatus
  <2> HIDE DEF e
  <2>4. status' \in [Orders -> OrderStatus \cup {"absent"}]
    BY <2>1, <2>2, <2>3
  <2>5. \A o \in Orders : status[o] # "absent" => status'[o] # "absent"
    BY <2>2, <2>3
  <2> QED
    BY <1>0, <1>a, <2>3, <2>4, <2>5 DEF OrderWrite
<1>11. ASSUME NEW h \in Handlers, Settle(h) PROVE Goal
  <2>1. ChargeId(handler[h].event.order) \in PaymentIds
    BY <1>11, HandlerEvent, AtIsNotIdle DEF Settle, HandlerStep
  <2> QED
    BY <1>0, <1>11, <2>1 DEF Settle, StockNext
<1>12. ASSUME NEW h \in Handlers,
              \/ \E e \in Events : RecordEvent(h, e)
              \/ SettleFails(h) \/ Book(h) \/ HandlerDies(h)
       PROVE  Goal
  BY <1>0, <1>12 DEF RecordEvent, SettleFails, Book, HandlerDies
<1>13. ASSUME NEW w \in Sweepers, Sweep(w) \/ SweepDies(w) PROVE Goal
  BY <1>0, <1>13 DEF Sweep, SweepDies, StockNext
<1>14. ASSUME NEW d \in Adjustments, Adjust(d) PROVE Goal
  BY <1>0, <1>14 DEF Adjust, StockNext
<1>15. ASSUME UNCHANGED vars PROVE Goal
  BY <1>0, <1>15 DEF vars
<1>16. Goal
  BY <1>1, <1>2, <1>3, <1>4, <1>5, <1>6, <1>7, <1>8, <1>9, <1>10, <1>11, <1>12,
     <1>13, <1>14, <1>15
  DEF Next, CallProceeds, CallFaults, HandlerProceeds
<1> QED
  BY <1>16 DEF Goal

LInv == LifecycleTypeOK /\ IInv

LEMMA LInvIsInvariant == Spec => []LInv
<1>1. Init => LInv
  BY InitTypes, InitEstablishesIInv DEF Init, LInv
<1>2. LInv /\ [Next]_vars => LInv'
  <2> SUFFICES ASSUME LInv, [Next]_vars PROVE LInv'
    OBVIOUS
  <2>1. [InventoryNext]_inventoryVars
    BY EveryStepUsesInventory DEF LInv, IInv
  <2> QED
    BY <2>1, StepPreservesTypes, StepPreservesIInv DEF LInv
<1> QED
  BY <1>1, <1>2, PTL DEF Spec

-----------------------------------------------------------------------------
(* Theorems about types and stock *)

\* Calls, charges, requests and events are always in a state the code knows, for
\* any number of orders, workers and deliveries.
THEOREM LifecycleTypeCorrect == Spec => []LifecycleTypeOK
BY LInvIsInvariant, PTL DEF LInv

\* The payment tool, the webhook, the sweep and the operator together do nothing
\* to the stock that Inventory does not describe.
THEOREM LifecycleUsesInventory == Spec => UsesInventory
<1>1. Init => InventoryInit
  BY DEF Init
<1>2. LInv /\ [Next]_vars => [InventoryNext]_inventoryVars
  BY EveryStepUsesInventory DEF LInv, IInv
<1> QED
  BY <1>1, <1>2, LInvIsInvariant, PTL DEF Spec, UsesInventory, InventorySpec

\* Whatever is paid, refunded, repeated, lost or crashes, held and sold units
\* never exceed what is on the shelf.
THEOREM LifecycleNeverOversells == Spec => []NoOversell
BY LInvIsInvariant, PTL DEF LInv, IInv

\* What the tool, the webhook and the sweep write beside the stock, in any order
\* and with any faults, breaks none of the promises made to the orders.
THEOREM LifecycleKeepsStockPromises == Spec => ImplementsPromises
BY LifecycleUsesInventory, InventoryKeepsPromises DEF UsesInventory

\* The movements explain every hold through the whole way of an order.
THEOREM LifecycleLedgerIsExact == Spec => []LedgerExplainsReservations
BY LifecycleUsesInventory, LedgerIsExact DEF UsesInventory

\* No late event, retried request or crashed call opens a closed hold again or
\* changes how it was closed.
THEOREM LifecycleClosesForGood == Spec => ClosedHoldsStayClosed
BY LifecycleUsesInventory, ClosedForGood DEF UsesInventory

-----------------------------------------------------------------------------
(* An event is worked on once *)

\* A request in progress owns its event: the event has its row, nobody else
\* works on it, and nothing the request has still to do was done before.
EventInv ==
    /\ \A h \in Handlers :
          handler[h] # Idle =>
              LET e == handler[h].event
              IN  /\ e \in recorded
                  /\ booked[e] = 0
                  /\ handler[h].step # "settled" => settled[e] = 0
    /\ \A g, h \in Handlers :
          /\ handler[g] # Idle /\ handler[h] # Idle
          /\ handler[g].event = handler[h].event
          => g = h
    /\ \A e \in Events : e \notin recorded => settled[e] = 0 /\ booked[e] = 0

LEMMA StepPreservesEventInv ==
    ASSUME LifecycleTypeOK, EventInv, EventAppliedOnce, [Next]_vars
    PROVE  EventInv' /\ EventAppliedOnce'
<1> DEFINE Goal == EventInv' /\ EventAppliedOnce'
<1> USE DEF EventInv, EventAppliedOnce
<1>t. /\ recorded \subseteq Events
      /\ settled \in [Events -> Nat] /\ booked \in [Events -> Nat]
      /\ DOMAIN handler = Handlers
      /\ \A h \in Handlers :
            handler[h] # Idle => handler[h].event \in Events
  BY HandlerEvent DEF LifecycleTypeOK
<1>1. ASSUME NEW h \in Handlers, NEW e \in Events, Takes(h, e) PROVE Goal
  <2>1. /\ e \notin recorded
        /\ recorded' = recorded \cup {e}
        /\ settled' = settled /\ booked' = booked
        /\ handler'[h] = [step |-> "recorded", event |-> e]
        /\ \A g \in Handlers : g # h => handler'[g] = handler[g]
    BY <1>1, <1>t DEF Takes
  <2>2. settled[e] = 0 /\ booked[e] = 0
    BY <2>1
  <2>3. \A g \in Handlers : handler[g] # Idle => handler[g].event # e
    BY <2>1
  <2>4. handler'[h].event = e /\ handler'[h].step = "recorded"
    BY <2>1
  <2> QED
    BY <1>t, <2>1, <2>2, <2>3, <2>4
<1>2. ASSUME NEW h \in Handlers, Advances(h) PROVE Goal
  <2>1. /\ handler[h] # Idle /\ handler[h].step # "settled"
        /\ recorded' = recorded /\ settled' = settled /\ booked' = booked
        /\ \A g \in Handlers : g # h => handler'[g] = handler[g]
        /\ handler'[h].event = handler[h].event
    BY <1>2, <1>t DEF Advances, Sets
  <2> QED
    BY <1>t, <2>1
<1>3. ASSUME NEW h \in Handlers, Settles(h) PROVE Goal
  <2> DEFINE e == handler[h].event
  <2>1. handler[h] # Idle /\ handler[h].step # "settled" /\ e \in Events
    BY <1>3, <1>t, AtIsNotIdle DEF Settles, At, HandlerStep
  <2>2. /\ recorded' = recorded /\ booked' = booked
        /\ \A g \in Handlers : g # h => handler'[g] = handler[g]
        /\ handler'[h].event = e /\ handler'[h].step = "settled"
    BY <1>3, <1>t DEF Settles, Sets
  <2>3. /\ settled'[e] = settled[e] + 1
        /\ \A d \in Events : d # e => settled'[d] = settled[d]
    BY <1>3, <1>t, <2>1 DEF Settles
  <2>4. settled[e] = 0 /\ e \in recorded
    BY <2>1
  <2>5. \A g \in Handlers : g # h /\ handler[g] # Idle => handler[g].event # e
    BY <2>1
  <2>6. settled'[e] = 1
    BY <2>3, <2>4
  <2>7. EventAppliedOnce'
    BY <2>2, <2>3, <2>6
  <2>8. \A d \in Events : d \notin recorded' => settled'[d] = 0 /\ booked'[d] = 0
    BY <2>2, <2>3, <2>4
  <2>9. EventInv'
    BY <1>t, <2>1, <2>2, <2>3, <2>5, <2>8
  <2> QED
    BY <2>7, <2>9
<1>4. ASSUME NEW h \in Handlers, Finishes(h) PROVE Goal
  <2> DEFINE e == handler[h].event
  <2>1. /\ handler[h] # Idle /\ e \in Events /\ e \in recorded /\ booked[e] = 0
        /\ recorded' = recorded /\ settled' = settled
        /\ handler'[h] = Idle
        /\ \A g \in Handlers : g # h => handler'[g] = handler[g]
    BY <1>4, <1>t DEF Finishes
  <2>2. \A g \in Handlers : g # h /\ handler[g] # Idle => handler[g].event # e
    BY <2>1
  <2>3. /\ booked'[e] \in {0, 1}
        /\ \A d \in Events : d # e => booked'[d] = booked[d]
    BY <1>4, <1>t, <2>1 DEF Finishes
  <2> QED
    BY <1>t, <2>1, <2>2, <2>3
<1>5. ASSUME UNCHANGED hookVars PROVE Goal
  BY <1>5 DEF hookVars
<1> HIDE DEF EventInv, EventAppliedOnce
<1> QED
  BY <1>1, <1>2, <1>3, <1>4, <1>5, EveryStepIsAHookStep DEF HookStep

\* Asaas may deliver an event any number of times, to any number of workers, and
\* any of them may crash: the stock effects of the event are committed at most
\* once and it enters purchase_history at most once.
THEOREM EventsAreAppliedOnce == Spec => []EventAppliedOnce
<1>1. Init => EventInv /\ EventAppliedOnce
  BY DEF Init, EventInv, EventAppliedOnce
<1>2. LInv /\ (EventInv /\ EventAppliedOnce) /\ [Next]_vars
        => (EventInv /\ EventAppliedOnce)'
  BY StepPreservesEventInv DEF LInv
<1> QED
  BY <1>1, <1>2, LInvIsInvariant, PTL DEF Spec

-----------------------------------------------------------------------------
(* How far a call has got, and the hold of its order *)

\* Only Reserve opens a hold; a reservation that is not an open hold is left
\* alone by everything else.
LeavesUnheld(o) == reservation[o] # "active" => reservation'[o] = reservation[o]

LEMMA OnlyReserveOpensHolds ==
    ASSUME InventoryTypeOK, NEW o \in Orders,
           \/ UNCHANGED stockVars
           \/ UNCHANGED inventoryVars
           \/ \E x \in Orders : Release(x) \/ Lapse(x)
           \/ \E x \in Orders \ {o} : Reserve(x)
           \/ \E p : ConfirmSale(p) \/ ReleaseForPayment(p) \/ MarkRefundReview(p)
           \/ \E w \in Sweepers :
                 \/ SweepSelect(w) \/ SweepAbort(w)
                 \/ \E x \in Orders : SweepRelease(w, x)
           \/ \E d \in Adjustments : ManualAdjustment(d)
    PROVE  LeavesUnheld(o)
<1> USE DEF LeavesUnheld, InventoryTypeOK
<1>1. ASSUME UNCHANGED reservation PROVE LeavesUnheld(o)
  BY <1>1
<1>2. CASE UNCHANGED stockVars \/ UNCHANGED inventoryVars
  BY <1>1, <1>2 DEF stockVars, inventoryVars
<1>3. ASSUME NEW x \in Orders, Release(x) PROVE LeavesUnheld(o)
  BY <1>3 DEF Release, CloseHold
<1>4. ASSUME NEW x \in Orders, Lapse(x) PROVE LeavesUnheld(o)
  BY <1>1, <1>4 DEF Lapse
<1>5. ASSUME NEW x \in Orders \ {o}, Reserve(x) PROVE LeavesUnheld(o)
  BY <1>5 DEF Reserve
<1>6. ASSUME NEW p, ConfirmSale(p) PROVE LeavesUnheld(o)
  BY <1>6 DEF ConfirmSale, CommitHold, FlagLatePayment, inventoryVars
<1>7. ASSUME NEW p, ReleaseForPayment(p) PROVE LeavesUnheld(o)
  BY <1>3, <1>7 DEF ReleaseForPayment, inventoryVars
<1>8. ASSUME NEW p, MarkRefundReview(p) PROVE LeavesUnheld(o)
  BY <1>1, <1>8 DEF MarkRefundReview
<1>9. ASSUME NEW w \in Sweepers, SweepSelect(w) \/ SweepAbort(w)
      PROVE  LeavesUnheld(o)
  BY <1>1, <1>9 DEF SweepSelect, SweepAbort
<1>10. ASSUME NEW w \in Sweepers, NEW x \in Orders, SweepRelease(w, x)
       PROVE  LeavesUnheld(o)
  BY <1>10 DEF SweepRelease, CloseHold
<1>11. ASSUME NEW d \in Adjustments, ManualAdjustment(d) PROVE LeavesUnheld(o)
  BY <1>1, <1>11 DEF ManualAdjustment
<1> HIDE DEF LeavesUnheld, InventoryTypeOK
<1> QED
  BY <1>2, <1>3, <1>4, <1>5, <1>6, <1>7, <1>8, <1>9, <1>10, <1>11

\* Before a call reserves there is nothing to hold, and once it has undone its
\* hold without a fault nothing opens it again.
CallInv(o) ==
    /\ call[o] \in {"idle", "drafted"} => reservation[o] = "none"
    /\ o \notin tainted /\ call[o] \in {"failing", "failed"}
          => reservation[o] # "active"

LEMMA StepPreservesCallInv ==
    ASSUME LInv, NEW o \in Orders, CallInv(o), [Next]_vars
    PROVE  CallInv(o)'
<1> USE DEF CallInv
<1>t. /\ InventoryTypeOK
      /\ DOMAIN call = Orders /\ DOMAIN reservation = Orders
  BY DEF LInv, IInv, InventoryTypeOK, LifecycleTypeOK
<1>u. UNCHANGED inventoryVars => UNCHANGED reservation
  BY DEF inventoryVars
<1>v. UNCHANGED stockVars => UNCHANGED reservation
  BY DEF stockVars
<1>0. ASSUME call'[o] = call[o], tainted \subseteq tainted', LeavesUnheld(o)
      PROVE  CallInv(o)'
  BY <1>0 DEF LeavesUnheld
<1>1. ASSUME NEW x \in Orders, NEW step, Goto(x, step), x # o
      PROVE  call'[o] = call[o]
  BY <1>1, <1>t DEF Goto
<1>2. ASSUME NEW step, Goto(o, step) PROVE call'[o] = step
  BY <1>2, <1>t DEF Goto
<1>3. ASSUME NEW x, FaultOn(x) PROVE tainted' = tainted \cup {x}
  BY <1>3 DEF FaultOn
<1>4. ASSUME NoFault PROVE tainted' = tainted
  BY <1>4 DEF NoFault, faultVars
<1>5. ASSUME Draft(o) PROVE CallInv(o)'
  BY <1>2, <1>5, <1>v DEF Draft
<1>6. ASSUME DraftFails(o) PROVE CallInv(o)'
  BY <1>2, <1>3, <1>6, <1>v DEF DraftFails
<1>7. ASSUME ReserveForCall(o) PROVE CallInv(o)'
  <2>1. CASE Goto(o, "held")
    BY <1>2, <1>7, <2>1
  <2>2. CASE Goto(o, "failed") /\ UNCHANGED inventoryVars
    BY <1>2, <1>7, <1>u, <2>2 DEF ReserveForCall
  <2> QED
    BY <1>7, <2>1, <2>2 DEF ReserveForCall
<1>8. ASSUME ReserveFails(o) PROVE CallInv(o)'
  BY <1>2, <1>3, <1>8 DEF ReserveFails
<1>9. ASSUME \/ AsaasCreates(o) \/ AsaasRefuses(o) \/ MarkCreated(o)
             \/ MarkCreatedFails(o) \/ CallDies(o)
      PROVE  CallInv(o)'
  <2>1. PICK step \in {"charged", "undoing", "linked", "dead"} : Goto(o, step)
    BY <1>9 DEF AsaasCreates, AsaasRefuses, MarkCreated, MarkCreatedFails, CallDies
  <2> QED
    BY <1>2, <2>1
<1>10. ASSUME UndoHold(o) PROVE CallInv(o)'
  <2>1. call'[o] = "failing" /\ tainted' = tainted
    BY <1>2, <1>4, <1>10 DEF UndoHold
  <2>2. reservation'[o] # "active"
    BY <1>10, <1>t, <1>u DEF UndoHold, Release, CloseHold
  <2> QED
    BY <2>1, <2>2
<1>11. ASSUME MarkFailed(o) PROVE CallInv(o)'
  BY <1>2, <1>4, <1>11, <1>v DEF MarkFailed
<1>12. ASSUME UndoFails(o) PROVE CallInv(o)'
  <2>1. call'[o] \in {"failing", "failed"}
    BY <1>2, <1>12 DEF UndoFails
  <2>2. o \in tainted'
    BY <1>3, <1>12 DEF UndoFails
  <2> QED
    BY <2>1, <2>2
<1>13. ASSUME NEW x \in Orders \ {o},
              Draft(x) \/ CallProceeds(x) \/ CallFaults(x)
       PROVE  CallInv(o)'
  <2>1. \E step : Goto(x, step)
    BY <1>13
    DEF Draft, CallProceeds, CallFaults, ReserveForCall, AsaasCreates,
        AsaasRefuses, MarkCreated, UndoHold, MarkFailed, DraftFails, ReserveFails,
        MarkCreatedFails, UndoFails, CallDies
  <2>2. NoFault \/ FaultOn(x)
    BY <1>13
    DEF Draft, CallProceeds, CallFaults, ReserveForCall, AsaasCreates,
        AsaasRefuses, MarkCreated, UndoHold, MarkFailed, DraftFails, ReserveFails,
        MarkCreatedFails, UndoFails, CallDies
  <2>3. \/ UNCHANGED stockVars \/ UNCHANGED inventoryVars
        \/ Reserve(x) \/ Release(x)
    BY <1>13
    DEF Draft, CallProceeds, CallFaults, ReserveForCall, AsaasCreates,
        AsaasRefuses, MarkCreated, UndoHold, MarkFailed, DraftFails, ReserveFails,
        MarkCreatedFails, UndoFails, CallDies
  <2>4. LeavesUnheld(o)
    BY <1>t, <2>3, OnlyReserveOpensHolds
  <2> QED
    BY <1>0, <1>1, <1>3, <1>4, <2>1, <2>2, <2>4
<1>14. ASSUME NEW x \in Orders,
              \/ Pay(x) \/ Refund(x) \/ Delete(x) \/ CancelSlip(x)
              \/ HoldLapses(x)
       PROVE  CallInv(o)'
  <2>1. call' = call /\ tainted' = tainted
    BY <1>14
    DEF Pay, Refund, Delete, CancelSlip, HoldLapses, NoFault, faultVars, callVars
  <2>2. UNCHANGED inventoryVars \/ Lapse(x)
    BY <1>14 DEF Pay, Refund, Delete, CancelSlip, HoldLapses
  <2>3. LeavesUnheld(o)
    BY <1>t, <2>2, OnlyReserveOpensHolds
  <2> QED
    BY <1>0, <2>1, <2>3
<1>15. ASSUME NEW h \in Handlers,
              \/ \E e \in Events : RecordEvent(h, e)
              \/ HandlerProceeds(h) \/ SettleFails(h) \/ HandlerDies(h)
       PROVE  CallInv(o)'
  <2>1. UNCHANGED callVars /\ (NoFault \/ \E x : FaultOn(x))
    BY <1>15
    DEF RecordEvent, HandlerProceeds, Attach, SyncStatus, Settle, Book,
        SettleFails, HandlerDies
  <2>2. call' = call /\ tainted \subseteq tainted'
    BY <1>3, <1>4, <2>1 DEF callVars
  <2>3. \/ UNCHANGED stockVars \/ UNCHANGED inventoryVars
        \/ \E p : ConfirmSale(p) \/ ReleaseForPayment(p) \/ MarkRefundReview(p)
    BY <1>15
    DEF RecordEvent, HandlerProceeds, Attach, SyncStatus, Settle, Book,
        SettleFails, HandlerDies
  <2>4. LeavesUnheld(o)
    BY <1>t, <2>3, OnlyReserveOpensHolds
  <2> QED
    BY <1>0, <2>2, <2>4
<1>16. ASSUME NEW w \in Sweepers, Sweep(w) \/ SweepDies(w) PROVE CallInv(o)'
  <2>1. call' = call /\ tainted' = tainted
    BY <1>16 DEF Sweep, SweepDies, faultVars, callVars
  <2>2. LeavesUnheld(o)
    BY <1>16, <1>t, OnlyReserveOpensHolds DEF Sweep, SweepDies
  <2> QED
    BY <1>0, <2>1, <2>2
<1>17. ASSUME NEW d \in Adjustments, Adjust(d) PROVE CallInv(o)'
  <2>1. LeavesUnheld(o)
    BY <1>17, <1>t, OnlyReserveOpensHolds DEF Adjust
  <2> QED
    BY <1>0, <1>17, <2>1 DEF Adjust, callVars, faultVars
<1>18. ASSUME UNCHANGED vars PROVE CallInv(o)'
  BY <1>18 DEF vars, inventoryVars, callVars, faultVars
<1> HIDE DEF CallInv
<1> QED
  BY <1>5, <1>6, <1>7, <1>8, <1>9, <1>10, <1>11, <1>12, <1>13, <1>14, <1>15,
     <1>16, <1>17, <1>18
  DEF Next, CallProceeds, CallFaults

\* Whichever step a call fails at, it leaves no units held, unless a fault lost
\* one of its writes.
THEOREM FailedCallsHoldNothing == Spec => []FailedCallHoldsNothing
<1> DEFINE AllCalls == \A o \in Orders : CallInv(o)
<1>1. Init => AllCalls
  BY DEF Init, InventoryInit, CallInv
<1>2. LInv /\ AllCalls /\ [Next]_vars => AllCalls'
  BY StepPreservesCallInv
<1>3. AllCalls => FailedCallHoldsNothing
  BY DEF CallInv, FailedCallHoldsNothing
<1> HIDE DEF AllCalls
<1> QED
  BY <1>1, <1>2, <1>3, LInvIsInvariant, PTL DEF Spec

-----------------------------------------------------------------------------
(* Which charges an order can carry, and what sells its units *)

\* An order carries its own charge or its checkout session or, if it is a card
\* order, a charge of the same lead, product and sku.
ChargesMatch ==
    \A o, x \in Orders : asaasPaymentId[o] = ChargeId(x) => MayCarry(o, x)

LEMMA IdsAreDistinct ==
    ASSUME NEW o, NEW x
    PROVE  /\ ChargeId(o) = ChargeId(x) => o = x
           /\ SessionId(o) # ChargeId(x)
BY DEF ChargeId, SessionId

\* Only mark_order_payment_created and attach_hosted_checkout_payment_conn
\* write the payment id.
LEMMA OtherStepsKeepPaymentIds ==
    ASSUME [Next]_vars,
           \A o \in Orders : ~ MarkCreated(o),
           \A h \in Handlers : ~ Attach(h)
    PROVE  UNCHANGED asaasPaymentId
<1> USE DEF inventoryVars, orderVars
<1>1. ASSUME NEW o \in Orders, CallFaults(o) PROVE UNCHANGED asaasPaymentId
  BY <1>1
  DEF CallFaults, DraftFails, ReserveFails, MarkCreatedFails, UndoFails,
      CallDies, Reserve
<1>2. ASSUME NEW o \in Orders,
             \/ Draft(o) \/ ReserveForCall(o) \/ AsaasCreates(o)
             \/ AsaasRefuses(o) \/ UndoHold(o) \/ MarkFailed(o)
      PROVE  UNCHANGED asaasPaymentId
  BY <1>2
  DEF Draft, ReserveForCall, AsaasCreates, AsaasRefuses, UndoHold, MarkFailed,
      Reserve, Release, CloseHold
<1>3. ASSUME NEW o \in Orders,
             \/ Pay(o) \/ Refund(o) \/ Delete(o) \/ CancelSlip(o)
             \/ HoldLapses(o)
      PROVE  UNCHANGED asaasPaymentId
  BY <1>3 DEF Pay, Refund, Delete, CancelSlip, HoldLapses, Lapse
<1>4. ASSUME NEW p, ConfirmSale(p) \/ ReleaseForPayment(p) \/ MarkRefundReview(p)
      PROVE  UNCHANGED asaasPaymentId
  BY <1>4
  DEF ConfirmSale, CommitHold, FlagLatePayment, ReleaseForPayment, Release,
      CloseHold, MarkRefundReview
<1>5. ASSUME NEW h \in Handlers,
             \/ \E e \in Events : RecordEvent(h, e)
             \/ SyncStatus(h) \/ Book(h) \/ SettleFails(h) \/ HandlerDies(h)
      PROVE  UNCHANGED asaasPaymentId
  BY <1>5 DEF RecordEvent, SyncStatus, Book, SettleFails, HandlerDies
<1>6. ASSUME NEW h \in Handlers, Settle(h) PROVE UNCHANGED asaasPaymentId
  BY <1>4, <1>6 DEF Settle
<1>7. ASSUME NEW w \in Sweepers, Sweep(w) \/ SweepDies(w)
      PROVE  UNCHANGED asaasPaymentId
  BY <1>7 DEF Sweep, SweepDies, SweepSelect, SweepRelease, SweepAbort, CloseHold
<1>8. ASSUME NEW d \in Adjustments, Adjust(d) PROVE UNCHANGED asaasPaymentId
  BY <1>8 DEF Adjust, ManualAdjustment
<1>9. ASSUME UNCHANGED vars PROVE UNCHANGED asaasPaymentId
  BY <1>9 DEF vars
<1> QED
  BY <1>1, <1>2, <1>3, <1>5, <1>6, <1>7, <1>8, <1>9
  DEF Next, CallProceeds, HandlerProceeds

LEMMA StepPreservesChargesMatch ==
    ASSUME LInv, ChargesMatch, [Next]_vars
    PROVE  ChargesMatch'
<1>t. DOMAIN asaasPaymentId = Orders
  BY DEF LInv, IInv, InventoryTypeOK
<1>1. ASSUME NEW o \in Orders, MarkCreated(o) PROVE ChargesMatch'
  <2>1. asaasPaymentId'[o] \in {SessionId(o), ChargeId(o)}
    BY <1>1, <1>t DEF MarkCreated
  <2>2. \A x \in Orders \ {o} : asaasPaymentId'[x] = asaasPaymentId[x]
    BY <1>1, <1>t DEF MarkCreated
  <2>3. \A x \in Orders : asaasPaymentId'[o] = ChargeId(x) => x = o
    BY <2>1, IdsAreDistinct
  <2> QED
    BY <2>2, <2>3 DEF ChargesMatch, MayCarry
<1>2. ASSUME NEW h \in Handlers, Attach(h) PROVE ChargesMatch'
  <2> DEFINE y == handler[h].event.order
  <2>1. \A o \in Orders :
           \/ asaasPaymentId'[o] = asaasPaymentId[o]
           \/ asaasPaymentId'[o] = ChargeId(y) /\ LatestCardOrder(o, y)
    BY <1>2 DEF Attach
  <2>2. \A o \in Orders : LatestCardOrder(o, y) => MayCarry(o, y)
    BY DEF LatestCardOrder, MayCarry
  <2> HIDE DEF y
  <2>3. \A x : ChargeId(y) = ChargeId(x) => x = y
    BY IdsAreDistinct
  <2> QED
    BY <2>1, <2>2, <2>3 DEF ChargesMatch
<1>3. ASSUME UNCHANGED asaasPaymentId PROVE ChargesMatch'
  BY <1>3 DEF ChargesMatch
<1> QED
  BY <1>1, <1>2, <1>3, OtherStepsKeepPaymentIds

\* A step that sells the units of an order settles a paid event whose charge
\* the order carries.
Sold(o) == reservation[o] # "confirmed" /\ reservation'[o] = "confirmed"

LEMMA OnlyPaymentsSell ==
    ASSUME InventoryTypeOK, [Next]_vars, NEW o \in Orders, Sold(o)
    PROVE  \E h \in Handlers :
              /\ At(h, "synced") /\ Settle(h)
              /\ handler[h].event.kind \in PaidKinds
              /\ asaasPaymentId[o] = ChargeId(handler[h].event.order)
<1> USE DEF Sold, InventoryTypeOK
<1>0. /\ ~ UNCHANGED reservation
      /\ ~ UNCHANGED stockVars
      /\ ~ UNCHANGED inventoryVars
  BY DEF stockVars, inventoryVars
<1>1. \A x \in Orders : ~ Reserve(x) /\ ~ Release(x) /\ ~ Lapse(x)
  <2>1. ASSUME NEW x \in Orders, Reserve(x) PROVE FALSE
    BY <2>1 DEF Reserve
  <2>2. ASSUME NEW x \in Orders, Release(x) PROVE FALSE
    BY <2>2 DEF Release, CloseHold
  <2>3. ASSUME NEW x \in Orders, Lapse(x) PROVE FALSE
    BY <1>0, <2>3 DEF Lapse
  <2> QED
    BY <2>1, <2>2, <2>3
<1>2. \A p : ~ ReleaseForPayment(p) /\ ~ MarkRefundReview(p)
  BY <1>0, <1>1 DEF ReleaseForPayment, MarkRefundReview
<1>3. ASSUME NEW p, ConfirmSale(p) PROVE asaasPaymentId[o] = p
  <2>1. PICK x \in Orders : LatestReservation(x, p) /\ CommitHold(x)
    BY <1>0, <1>3 DEF ConfirmSale, FlagLatePayment
  <2>2. x = o
    BY <2>1 DEF CommitHold
  <2> QED
    BY <2>1, <2>2 DEF LatestReservation
<1>4. \A w \in Sweepers : ~ Sweep(w) /\ ~ SweepDies(w)
  <2>1. ASSUME NEW w \in Sweepers, NEW x \in Orders, SweepRelease(w, x) PROVE FALSE
    BY <1>0, <2>1 DEF SweepRelease, CloseHold
  <2>2. ASSUME NEW w \in Sweepers, SweepSelect(w) \/ SweepAbort(w) PROVE FALSE
    BY <1>0, <2>2 DEF SweepSelect, SweepAbort
  <2> QED
    BY <2>1, <2>2 DEF Sweep, SweepDies
<1>5. \A d \in Adjustments : ~ Adjust(d)
  BY <1>0 DEF Adjust, ManualAdjustment
<1>6. \A x \in Orders :
         /\ ~ Draft(x) /\ ~ CallProceeds(x) /\ ~ CallFaults(x)
         /\ ~ Pay(x) /\ ~ Refund(x) /\ ~ Delete(x) /\ ~ CancelSlip(x)
         /\ ~ HoldLapses(x)
  <2> HIDE DEF Sold, InventoryTypeOK
  <2> QED
    BY <1>0, <1>1
    DEF Draft, CallProceeds, CallFaults, ReserveForCall, AsaasCreates,
        AsaasRefuses, MarkCreated, UndoHold, MarkFailed, DraftFails,
        ReserveFails, MarkCreatedFails, UndoFails, CallDies, Pay, Refund, Delete,
        CancelSlip, HoldLapses
<1>7. PICK h \in Handlers : Settle(h)
  <2> HIDE DEF Sold, InventoryTypeOK
  <2>1. \A h \in Handlers :
           /\ ~ Attach(h) /\ ~ SyncStatus(h) /\ ~ Book(h)
           /\ ~ SettleFails(h) /\ ~ HandlerDies(h)
           /\ \A e \in Events : ~ RecordEvent(h, e)
    BY <1>0 DEF Attach, SyncStatus, Book, SettleFails, HandlerDies, RecordEvent
  <2>2. ~ UNCHANGED vars
    BY <1>0 DEF vars
  <2> QED
    BY <1>4, <1>5, <1>6, <2>1, <2>2 DEF Next, HandlerProceeds
<1>8. /\ At(h, "synced")
      /\ handler[h].event.kind \in PaidKinds
      /\ ConfirmSale(ChargeId(handler[h].event.order))
  BY <1>0, <1>2, <1>7 DEF Settle
<1> QED
  BY <1>3, <1>7, <1>8

\* Each sale takes an event of its own: the one being settled has sold nothing
\* before.
Backs(paidBy, sold, times) ==
    /\ paidBy \in [sold -> {e \in Events : e.kind \in PaidKinds}]
    /\ \A o \in sold :
          /\ MayCarry(o, paidBy[o].order)
          /\ times[paidBy[o]] > 0
          /\ \A x \in sold : paidBy[x] = paidBy[o] => x = o

LEMMA BackedSales ==
    /\ SaleHasItsPaidEvent
          <=> \E paidBy : Backs(paidBy, OrdersIn("confirmed"), settled)
    /\ SaleHasItsPaidEvent'
          <=> \E paidBy : Backs(paidBy, OrdersIn("confirmed")', settled')
BY DEF SaleHasItsPaidEvent, Backs

\* The number of times an event took effect never falls.
LEMMA SettledOnlyGrows ==
    ASSUME LifecycleTypeOK, [Next]_vars, NEW e \in Events, settled[e] > 0
    PROVE  settled'[e] > 0
<1>1. settled \in [Events -> Nat]
  BY DEF LifecycleTypeOK
<1>2. \/ UNCHANGED settled
      \/ \E d \in Events : settled' = [settled EXCEPT ![d] = @ + 1]
  <2>1. ASSUME NEW h \in Handlers, Settles(h)
        PROVE  \E d \in Events : settled' = [settled EXCEPT ![d] = @ + 1]
    <3>1. handler[h].event \in Events
      BY <2>1, HandlerEvent, AtIsNotIdle DEF Settles, HandlerStep
    <3> QED
      BY <2>1, <3>1 DEF Settles
  <2> QED
    BY <2>1, EveryStepIsAHookStep DEF HookStep, Takes, Advances, Finishes, hookVars
<1> QED
  BY <1>1, <1>2

LEMMA StepPreservesSaleHasItsPaidEvent ==
    ASSUME LInv, EventInv, ChargesMatch, SaleHasItsPaidEvent, [Next]_vars
    PROVE  SaleHasItsPaidEvent'
<1> DEFINE sold == OrdersIn("confirmed")
<1>t. LifecycleTypeOK /\ InventoryTypeOK /\ settled \in [Events -> Nat]
  BY DEF LInv, IInv, LifecycleTypeOK
<1>1. PICK paidBy : Backs(paidBy, sold, settled)
  BY BackedSales
<1>2. \/ sold' = sold
      \/ \E o \in Orders : Sold(o) /\ sold' = sold \cup {o} /\ o \notin sold
  <2>1. StockStep
    BY <1>t, EveryStepUsesInventory, EveryStepIsAStockStep DEF LInv, IInv
  <2>2. DOMAIN reservation = Orders
    BY <1>t DEF InventoryTypeOK
  <2>3. ASSUME NEW o \in Orders, Sells(o)
        PROVE  Sold(o) /\ sold' = sold \cup {o} /\ o \notin sold
    BY <2>2, <2>3 DEF Sells, Sold, OrdersIn
  <2>4. ASSUME NEW o \in Orders,
               Opens(o) \/ \E s \in {"released", "expired"} : Closes(o, s)
        PROVE  sold' = sold
    BY <2>2, <2>4 DEF Opens, Closes, OrdersIn
  <2>5. ASSUME Recounts \/ LeavesStock PROVE sold' = sold
    BY <2>5 DEF Recounts, LeavesStock, OrdersIn
  <2> QED
    BY <2>1, <2>3, <2>4, <2>5 DEF StockStep
<1> HIDE DEF sold
<1>3. CASE sold' = sold
  <2>1. Backs(paidBy, sold', settled')
    BY <1>t, <1>1, <1>3, SettledOnlyGrows DEF Backs
  <2> QED
    BY <2>1, BackedSales DEF sold
<1>4. ASSUME NEW o \in Orders, Sold(o), sold' = sold \cup {o}, o \notin sold
      PROVE  SaleHasItsPaidEvent'
  <2>1. PICK h \in Handlers :
              /\ At(h, "synced") /\ Settle(h)
              /\ handler[h].event.kind \in PaidKinds
              /\ asaasPaymentId[o] = ChargeId(handler[h].event.order)
    BY <1>4, <1>t, OnlyPaymentsSell
  <2> DEFINE e == handler[h].event
  <2>2. handler[h] # Idle
    BY <2>1, AtIsNotIdle DEF HandlerStep
  <2>3. e \in Events /\ e.order \in Orders /\ settled[e] = 0
    BY <1>t, <2>1, <2>2, HandlerEvent DEF EventInv, At
  <2>4. MayCarry(o, e.order)
    BY <2>1, <2>3 DEF ChargesMatch
  <2>5. settled'[e] > 0
    BY <1>t, <2>1, <2>3 DEF Settle
  <2> HIDE DEF e
  <2> DEFINE with == [x \in sold \cup {o} |-> IF x = o THEN e ELSE paidBy[x]]
  <2>6. e.kind \in PaidKinds
    BY <2>1 DEF e
  <2>7. \A x \in sold : /\ paidBy[x] \in {d \in Events : d.kind \in PaidKinds}
                        /\ paidBy[x] # e
                        /\ settled'[paidBy[x]] > 0
    BY <1>1, <1>t, <2>3, SettledOnlyGrows DEF Backs
  <2>8. with \in [sold \cup {o} -> {d \in Events : d.kind \in PaidKinds}]
    BY <2>3, <2>6, <2>7
  <2>9. ASSUME NEW x \in sold \cup {o}
        PROVE  /\ MayCarry(x, with[x].order)
               /\ settled'[with[x]] > 0
               /\ \A y \in sold \cup {o} : with[y] = with[x] => y = x
    BY <1>1, <1>4, <2>4, <2>5, <2>7 DEF Backs
  <2> HIDE DEF with
  <2>10. Backs(with, sold', settled')
    BY <1>4, <2>8, <2>9 DEF Backs
  <2> QED
    BY <2>10, BackedSales DEF sold
<1> QED
  BY <1>2, <1>3, <1>4

\* Units are sold only against a recorded payment: of the order's own charge or,
\* for a card order, of a charge of the same lead, product and sku.
SaleHasPaidEvent ==
    \A o \in Orders :
        reservation[o] = "confirmed" =>
            \E e \in recorded : e.kind \in PaidKinds /\ MayCarry(o, e.order)

LEMMA BackedSalesArePaid ==
    ASSUME LInv, EventInv, SaleHasItsPaidEvent
    PROVE  SaleHasPaidEvent
<1>1. settled \in [Events -> Nat]
  BY DEF LInv, LifecycleTypeOK
<1>2. \A e \in Events : settled[e] > 0 => e \in recorded
  BY <1>1 DEF EventInv
<1> QED
  BY <1>2 DEF SaleHasItsPaidEvent, SaleHasPaidEvent, OrdersIn

\* What the theorems about sales share.
SaleInv == LInv /\ EventInv /\ ChargesMatch /\ SaleHasItsPaidEvent

LEMMA SaleInvIsInvariant == Spec => []SaleInv
<1>1. Init => EventInv /\ EventAppliedOnce /\ ChargesMatch /\ SaleHasItsPaidEvent
  <2>1. \A x \in Orders : ChargeId(x) # NoPaymentId
    BY InventoryAssumption, LifecycleAssumption
  <2>2. ASSUME Init PROVE SaleHasItsPaidEvent
    <3>1. OrdersIn("confirmed") = {}
      BY <2>2 DEF Init, InventoryInit, OrdersIn
    <3>2. [o \in {} |-> 0] \in [{} -> {e \in Events : e.kind \in PaidKinds}]
      OBVIOUS
    <3> QED
      BY <3>1, <3>2 DEF SaleHasItsPaidEvent
  <2> QED
    BY <2>1, <2>2
    DEF Init, InventoryInit, EventInv, EventAppliedOnce, ChargesMatch
<1>2. LInv /\ (EventInv /\ EventAppliedOnce) /\ [Next]_vars
        => (EventInv /\ EventAppliedOnce)'
  BY StepPreservesEventInv DEF LInv
<1>3. LInv /\ ChargesMatch /\ [Next]_vars => ChargesMatch'
  BY StepPreservesChargesMatch
<1>4. LInv /\ EventInv /\ ChargesMatch /\ SaleHasItsPaidEvent /\ [Next]_vars
        => SaleHasItsPaidEvent'
  BY StepPreservesSaleHasItsPaidEvent
<1> QED
  BY <1>1, <1>2, <1>3, <1>4, LInvIsInvariant, PTL DEF Spec, SaleInv

\* A payment sells once: also when several orders of a lead share a reference and
\* so a charge, no event has sold the units of two of them, and none is sold
\* without one, whatever was lost, repeated or reordered on the way.
THEOREM SalesHaveTheirPaidEvents == Spec => []SaleHasItsPaidEvent
BY SaleInvIsInvariant, PTL DEF SaleInv

\* So behind every sale there is money that came in.
THEOREM SalesHavePaidEvents == Spec => []SaleHasPaidEvent
BY SaleInvIsInvariant, BackedSalesArePaid, PTL DEF SaleInv

-----------------------------------------------------------------------------
(* What is known of an order, and of one that has its reference for itself *)

\* No order has two rows, in orders or in inventory_reservations.
RowsInv ==
    /\ \A i, j \in DOMAIN created : created[i] = created[j] => i = j
    /\ \A o \in Orders :
          /\ (\E i \in DOMAIN created : created[i] = o) => call[o] # "idle"
          /\ call[o] \in {"drafted", "held", "charged", "linked"}
                => \E i \in DOMAIN created : created[i] = o
    /\ \A i, j \in DOMAIN rows : rows[i] = rows[j] => i = j
    /\ \A o \in Orders :
          reservation[o] # "none" <=> \E i \in DOMAIN rows : rows[i] = o

\* A request works on an event of order o, of one of these kinds, and has got to
\* this step.
Working(o, step, kinds) ==
    \E h \in Handlers : /\ handler[h].step = step
                        /\ handler[h].event.order = o
                        /\ handler[h].event.kind \in kinds

\* The hold of order o is open, or the charge of another order has reached o and
\* closed it.
OpenOrTaken(o) ==
    \/ reservation[o] = "active"
    \/ /\ reservation[o] \in {"confirmed", "released"}
       /\ \E x \in Orders \ {o} : MayCarry(o, x) /\ asaas[x] # "none"

\* What Asaas and the clock know of an order, its call has done before.
CallFits(o) ==
    /\ call[o] = "held" => OpenOrTaken(o)
    /\ asaas[o] # "none" => /\ call[o] \notin {"idle", "drafted", "held"}
                            /\ reservation[o] # "none"
    /\ asaas[o] \in {"paid", "refunded"} => call[o] = "linked"
    /\ \A e \in sent :
          e.order = o =>
              /\ asaas[o] # "none"
              /\ o \in CardOrders \/ e.kind \in PaidKinds \cup {"PAYMENT_REFUNDED"}
                    => asaas[o] \in {"paid", "refunded"}
              /\ e.kind = "PAYMENT_REFUNDED" => asaas[o] = "refunded"
    /\ o \in lapsed \/ (\E w \in Sweepers : o \in sweepList[w]) => call[o] \in CallEnd

CallsFit == \A o \in Orders : CallFits(o)

\* The webhook's statuses are those of orders that carry their charge, and a
\* linked order carries it once a request has attached it.
OrderFits(o) ==
    /\ status[o] \in {"paid", "refunded", "cancelled"}
          => asaasPaymentId[o] = ChargeId(o)
    /\ status[o] = "manual_review"
          => reservation[o] \in {"released", "expired"} /\ o \in underReview
    /\ /\ o \notin tainted /\ call[o] = "linked"
       /\ \/ o \notin CardOrders
          \/ Working(o, "attached", EventKinds) \/ Working(o, "synced", EventKinds)
       => asaasPaymentId[o] = ChargeId(o)

\* A paid event still has its stock effects to come, or had them.
Served(o) ==
    \A e \in PaidEventsOf(o) :
        \/ \E h \in Handlers : /\ handler[h].step \in {"recorded", "attached", "synced"}
                               /\ handler[h].event = e
        \/ reservation[o] = "confirmed"
        \/ reservation[o] \in {"released", "expired"} /\ o \in underReview

\* Status and stock agree, or a request has written one and not yet the other.
Shown(o) ==
    /\ reservation[o] = "confirmed" \/ Working(o, "synced", PaidKinds)
          => \/ status[o] = "paid" \/ o \in underReview
             \/ Working(o, "synced", {"PAYMENT_REFUNDED"})
    /\ status[o] = "paid"
          => reservation[o] = "confirmed" \/ Working(o, "synced", PaidKinds)
    /\ status[o] = "cancelled"
          => \/ reservation[o] \in {"released", "expired"} \/ o \in underReview
             \/ Working(o, "synced", CancelKinds \cup {"PAYMENT_REFUNDED"})
    /\ status[o] = "refunded"
          => o \in underReview \/ Working(o, "synced", {"PAYMENT_REFUNDED"})

Own(o) ==
    /\ OrderFits(o)
    /\ o \notin tainted => Served(o) /\ Shown(o)

OwnInv == \A o \in Orders : OwnReference(o) => Own(o)

LEMMA OwnCharge ==
    ASSUME ChargesMatch, NEW o \in Orders, NEW x \in Orders,
           OwnReference(o) \/ OwnReference(x), asaasPaymentId[o] = ChargeId(x)
    PROVE  o = x
BY DEF OwnReference, ChargesMatch

LEMMA AppendKeepsUnique ==
    ASSUME NEW S, NEW s \in Seq(S), NEW x \in S,
           \A i, j \in DOMAIN s : s[i] = s[j] => i = j,
           \A i \in DOMAIN s : s[i] # x
    PROVE  LET t == Append(s, x)
           IN  /\ \A i, j \in DOMAIN t : t[i] = t[j] => i = j
               /\ \A y : (\E i \in DOMAIN t : t[i] = y)
                            <=> y = x \/ \E i \in DOMAIN s : s[i] = y
<1> DEFINE t == Append(s, x)
<1>1. /\ Len(s) \in Nat /\ DOMAIN s = 1 .. Len(s)
      /\ DOMAIN t = 1 .. Len(s) + 1
      /\ \A i \in 1 .. Len(s) : t[i] = s[i]
      /\ t[Len(s) + 1] = x
  BY AppendProperties, LenProperties
<1> HIDE DEF t
<1>2. \A i \in DOMAIN t : i \in DOMAIN s \/ i = Len(s) + 1
  BY <1>1
<1>3. \A i \in DOMAIN s : i \in DOMAIN t /\ t[i] = s[i]
  BY <1>1
<1>4. Len(s) + 1 \in DOMAIN t
  BY <1>1
<1>5. \A i, j \in DOMAIN t : t[i] = t[j] => i = j
  BY <1>1, <1>2, <1>3
<1>6. \A y : (\E i \in DOMAIN t : t[i] = y)
                <=> y = x \/ \E i \in DOMAIN s : s[i] = y
  BY <1>1, <1>2, <1>3, <1>4
<1> QED
  BY <1>5, <1>6 DEF t

\* A hold is opened by Reserve, which appends its row; nothing else adds rows or
\* makes a reservation from none.
LEMMA RowsComeFromReserve ==
    ASSUME InventoryTypeOK, [InventoryNext]_inventoryVars
    PROVE  \/ \E o \in Orders : Reserve(o)
           \/ /\ UNCHANGED rows
              /\ \A o \in Orders : reservation'[o] = "none" <=> reservation[o] = "none"
<1> DEFINE Goal == /\ UNCHANGED rows
                   /\ \A o \in Orders :
                         reservation'[o] = "none" <=> reservation[o] = "none"
<1> USE DEF InventoryTypeOK
<1>0. ASSUME UNCHANGED <<rows, reservation>> PROVE Goal
  BY <1>0
<1>1. ASSUME NEW o \in Orders, Release(o) PROVE Goal
  BY <1>1 DEF Release, CloseHold
<1>2. ASSUME NEW o \in Orders, Lapse(o) PROVE Goal
  BY <1>2 DEF Lapse
<1>3. ASSUME NEW p, ConfirmSale(p) PROVE Goal
  BY <1>3 DEF ConfirmSale, CommitHold, FlagLatePayment, inventoryVars
<1>4. ASSUME NEW p, ReleaseForPayment(p) PROVE Goal
  BY <1>0, <1>1, <1>4 DEF ReleaseForPayment, inventoryVars
<1>5. ASSUME NEW p, MarkRefundReview(p) PROVE Goal
  BY <1>5 DEF MarkRefundReview
<1>6. ASSUME NEW w \in Sweepers, SweepSelect(w) \/ SweepAbort(w) PROVE Goal
  BY <1>6 DEF SweepSelect, SweepAbort
<1>7. ASSUME NEW w \in Sweepers, NEW o \in Orders, SweepRelease(w, o) PROVE Goal
  BY <1>7 DEF SweepRelease, CloseHold
<1>8. ASSUME NEW d \in Adjustments, ManualAdjustment(d) PROVE Goal
  BY <1>8 DEF ManualAdjustment
<1>9. ASSUME OrderWrite PROVE Goal
  BY <1>9 DEF OrderWrite, stockVars
<1>10. ASSUME UNCHANGED inventoryVars PROVE Goal
  BY <1>10 DEF inventoryVars
<1> QED
  BY <1>1, <1>2, <1>3, <1>4, <1>5, <1>6, <1>7, <1>8, <1>9, <1>10
  DEF InventoryNext, StockNext

\* A row of orders is written at the start of its call.
Begins(o, step) ==
    call[o] = "idle" /\ Goto(o, step) /\ created' = Append(created, o)

\* The steps of a call that has its row.
WithRow == {"drafted", "held", "charged", "linked"}

LEMMA RowsComeFromDrafts ==
    ASSUME LifecycleTypeOK, [Next]_vars
    PROVE  \/ \E o \in Orders : Begins(o, "drafted") \/ Begins(o, "failed")
           \/ /\ UNCHANGED created
              /\ \A o \in Orders :
                    /\ call'[o] = "idle" => call[o] = "idle"
                    /\ call'[o] \in WithRow => call[o] \in WithRow
<1> DEFINE Goal ==
       \/ \E o \in Orders : Begins(o, "drafted") \/ Begins(o, "failed")
       \/ /\ UNCHANGED created
          /\ \A o \in Orders :
                /\ call'[o] = "idle" => call[o] = "idle"
                /\ call'[o] \in WithRow => call[o] \in WithRow
<1>0. ASSUME UNCHANGED <<call, created>> PROVE Goal
  BY <1>0
<1>1. ASSUME NEW x \in Orders, NEW step, Goto(x, step), UNCHANGED created,
             step \in CallStep \cup CallEnd, step # "idle",
             step \in WithRow => call[x] \in WithRow
      PROVE  Goal
  BY <1>1 DEF Goto, LifecycleTypeOK
<1>2. ASSUME NEW x \in Orders, Draft(x) PROVE Goal
  BY <1>2 DEF Draft, Begins
<1>3. ASSUME NEW x \in Orders, DraftFails(x) PROVE Goal
  <2>1. CASE created' = Append(created, x)
    BY <1>3, <2>1 DEF DraftFails, Begins
  <2>2. CASE UNCHANGED created
    BY <1>1, <1>3, <2>2 DEF DraftFails, WithRow, CallEnd
  <2> QED
    BY <1>3, <2>1, <2>2 DEF DraftFails
<1>4. ASSUME NEW x \in Orders, CallProceeds(x) PROVE Goal
  <2>1. UNCHANGED created
    BY <1>4
    DEF CallProceeds, ReserveForCall, AsaasCreates, AsaasRefuses, MarkCreated,
        UndoHold, MarkFailed
  <2>2. \E step \in (CallStep \cup CallEnd) \ {"idle"} :
           Goto(x, step) /\ (step \in WithRow => call[x] \in WithRow)
    BY <1>4
    DEF CallProceeds, ReserveForCall, AsaasCreates, AsaasRefuses, MarkCreated,
        UndoHold, MarkFailed, WithRow, CallStep, CallEnd
  <2> QED
    BY <1>1, <2>1, <2>2
<1>5. ASSUME NEW x \in Orders,
             ReserveFails(x) \/ MarkCreatedFails(x) \/ UndoFails(x) \/ CallDies(x)
      PROVE  Goal
  <2>1. UNCHANGED created
    BY <1>5 DEF ReserveFails, MarkCreatedFails, UndoFails, CallDies
  <2>2. \E step \in (CallStep \cup CallEnd) \ {"idle"} :
           Goto(x, step) /\ (step \in WithRow => call[x] \in WithRow)
    BY <1>5
    DEF ReserveFails, MarkCreatedFails, UndoFails, CallDies, WithRow, CallStep,
        CallEnd
  <2> QED
    BY <1>1, <2>1, <2>2
<1>6. ASSUME NEW x \in Orders,
             Pay(x) \/ Refund(x) \/ Delete(x) \/ CancelSlip(x) \/ HoldLapses(x)
      PROVE  Goal
  BY <1>0, <1>6 DEF Pay, Refund, Delete, CancelSlip, HoldLapses, callVars
<1>7. ASSUME NEW h \in Handlers,
             \/ \E e \in Events : RecordEvent(h, e)
             \/ HandlerProceeds(h) \/ SettleFails(h) \/ HandlerDies(h)
      PROVE  Goal
  <2>1. UNCHANGED callVars
    BY <1>7
    DEF RecordEvent, HandlerProceeds, Attach, SyncStatus, Settle, Book,
        SettleFails, HandlerDies
  <2> QED
    BY <1>0, <2>1 DEF callVars
<1>8. ASSUME NEW w \in Sweepers, Sweep(w) \/ SweepDies(w) PROVE Goal
  BY <1>0, <1>8 DEF Sweep, SweepDies, callVars
<1>9. ASSUME NEW d \in Adjustments, Adjust(d) PROVE Goal
  BY <1>0, <1>9 DEF Adjust, callVars
<1>10. ASSUME UNCHANGED vars PROVE Goal
  BY <1>0, <1>10 DEF vars, callVars
<1> HIDE DEF Goal
<1>11. Goal
  BY <1>2, <1>3, <1>4, <1>5, <1>6, <1>7, <1>8, <1>9, <1>10
  DEF Next, CallFaults
<1> QED
  BY <1>11 DEF Goal

LEMMA StepPreservesRowsInv ==
    ASSUME LInv, RowsInv, [Next]_vars
    PROVE  RowsInv'
<1>t. /\ LifecycleTypeOK /\ InventoryTypeOK
      /\ created \in Seq(Orders) /\ rows \in Seq(Orders)
      /\ DOMAIN call = Orders /\ DOMAIN reservation = Orders
  BY DEF LInv, IInv, LifecycleTypeOK, InventoryTypeOK
<1> DEFINE Calls ==
       /\ \A i, j \in DOMAIN created : created[i] = created[j] => i = j
       /\ \A o \in Orders :
             /\ (\E i \in DOMAIN created : created[i] = o) => call[o] # "idle"
             /\ call[o] \in WithRow => \E i \in DOMAIN created : created[i] = o
<1> DEFINE Holds ==
       /\ \A i, j \in DOMAIN rows : rows[i] = rows[j] => i = j
       /\ \A o \in Orders :
             reservation[o] # "none" <=> \E i \in DOMAIN rows : rows[i] = o
<1>1. Calls /\ Holds
  BY DEF RowsInv, WithRow
<1>2. Calls'
  <2>1. ASSUME NEW o \in Orders, NEW step \in {"drafted", "failed"}, Begins(o, step)
        PROVE  Calls'
    <3>0. created' = Append(created, o) /\ call[o] = "idle"
      BY <2>1 DEF Begins
    <3>1. /\ \A i, j \in DOMAIN created : created[i] = created[j] => i = j
          /\ \A i \in DOMAIN created : created[i] # o
      BY <1>1, <3>0
    <3>2. /\ \A i, j \in DOMAIN created' : created'[i] = created'[j] => i = j
          /\ \A y : (\E i \in DOMAIN created' : created'[i] = y)
                       <=> y = o \/ \E i \in DOMAIN created : created[i] = y
      BY <1>t, <3>0, <3>1, AppendKeepsUnique
    <3>3. call'[o] = step /\ \A x \in Orders \ {o} : call'[x] = call[x]
      BY <1>t, <2>1 DEF Begins, Goto
    <3> QED
      BY <1>1, <3>2, <3>3
  <2>2. ASSUME UNCHANGED created,
               \A o \in Orders :
                  /\ call'[o] = "idle" => call[o] = "idle"
                  /\ call'[o] \in WithRow => call[o] \in WithRow
        PROVE  Calls'
    BY <1>1, <2>2 DEF WithRow
  <2> QED
    BY <1>t, <2>1, <2>2, RowsComeFromDrafts
<1>3. Holds'
  <2>1. ASSUME NEW o \in Orders, Reserve(o) PROVE Holds'
    <3>1. \A i \in DOMAIN rows : rows[i] # o
      BY <1>1, <2>1 DEF Reserve
    <3>2. /\ \A i, j \in DOMAIN rows' : rows'[i] = rows'[j] => i = j
          /\ \A y : (\E i \in DOMAIN rows' : rows'[i] = y)
                       <=> y = o \/ \E i \in DOMAIN rows : rows[i] = y
      BY <1>1, <1>t, <2>1, <3>1, AppendKeepsUnique DEF Reserve
    <3>3. /\ reservation'[o] = "active"
          /\ \A x \in Orders \ {o} : reservation'[x] = reservation[x]
      BY <1>t, <2>1 DEF Reserve
    <3> QED
      BY <1>1, <3>2, <3>3
  <2>2. ASSUME UNCHANGED rows,
               \A o \in Orders : reservation'[o] = "none" <=> reservation[o] = "none"
        PROVE  Holds'
    BY <1>1, <2>2
  <2>3. [InventoryNext]_inventoryVars
    BY EveryStepUsesInventory DEF LInv, IInv
  <2> QED
    BY <1>t, <2>1, <2>2, <2>3, RowsComeFromReserve
<1> QED
  BY <1>2, <1>3 DEF RowsInv, WithRow

-----------------------------------------------------------------------------
(* What a step does to one order *)

\* The requests that work on an event of order o.
Of(h, o) == handler[h] # Idle /\ handler[h].event.order = o

\* A step that is not about order o.
Elsewhere(o) ==
    /\ call'[o] = call[o] /\ asaas'[o] = asaas[o]
    /\ status'[o] = status[o] /\ asaasPaymentId'[o] = asaasPaymentId[o]
    /\ reservation'[o] = reservation[o]
    /\ o \in underReview => o \in underReview'
    /\ \A e \in Events :
          e.order = o => (e \in sent' <=> e \in sent) /\ (e \in recorded' <=> e \in recorded)
    /\ \A h \in Handlers :
          \/ handler'[h] = handler[h]
          \/ ~ Of(h, o) /\ ~ Of(h, o)'
    /\ o \in tainted => o \in tainted'
    /\ o \in lapsed' \/ (\E w \in Sweepers : o \in sweepList'[w])
          => o \in lapsed \/ (\E w \in Sweepers : o \in sweepList[w])

\* A step of the call of order o.
CallMoves(o) ==
    /\ call[o] \in CallStep
    /\ UNCHANGED <<hookVars, lapsed, sweepList, underReview>>
    /\ tainted \subseteq tainted'
    /\ \/ reservation'[o] = reservation[o]
       \/ reservation[o] = "none" /\ reservation'[o] = "active"
       \/ reservation[o] = "active" /\ reservation'[o] = "released"
    /\ \/ status'[o] = status[o]
       \/ status'[o] \notin {"paid", "refunded", "cancelled", "manual_review"}
    /\ call'[o] = "held" => reservation'[o] = "active"
    /\ call'[o] \in {"idle", "drafted", "held"} => call[o] \in {"idle", "drafted"}
    /\ \/ asaas'[o] = asaas[o] /\ sent' = sent
       \/ /\ call[o] = "held" /\ call'[o] \in {"charged", "undoing"}
          /\ reservation'[o] = reservation[o]
          /\ asaas'[o] = "open"
          /\ \A e \in sent' : \/ e \in sent
                              \/ /\ e.order = o /\ e.kind = "PAYMENT_CREATED"
                                 /\ o \notin CardOrders
    /\ \/ /\ asaasPaymentId'[o] = asaasPaymentId[o]
          /\ call'[o] = "linked" => o \in tainted'
       \/ /\ call[o] = "charged"
          /\ o \notin CardOrders => asaasPaymentId'[o] = ChargeId(o)
          /\ status'[o] = "payment_link_created"

\* A step of Asaas or of the customer about order o.
CustomerMoves(o) == Pay(o) \/ Refund(o) \/ Delete(o) \/ CancelSlip(o)

\* The hold of order o lapses or is swept, or a sweep selects it.
ClockMoves(o) ==
    /\ UNCHANGED <<callVars, hookVars, tainted, orderVars, underReview>>
    /\ \/ reservation'[o] = reservation[o]
       \/ /\ reservation[o] = "active" /\ reservation'[o] = "expired"
          /\ \E w \in Sweepers : o \in sweepList[w]
    /\ o \in lapsed' \/ (\E w \in Sweepers : o \in sweepList'[w])
          => \/ o \in lapsed \/ (\E w \in Sweepers : o \in sweepList[w])
             \/ call[o] \in CallEnd

\* A step of a request for order o.
HookMoves(o) ==
    \E h \in Handlers :
       \/ \E e \in Events : e.order = o /\ RecordEvent(h, e)
       \/ Of(h, o) /\ (HandlerProceeds(h) \/ SettleFails(h) \/ HandlerDies(h))

\* A step of a request for another order whose charge can reach order o.
StrangerMoves(o) ==
    \E h \in Handlers :
       /\ handler[h] # Idle /\ handler[h].event.order # o
       /\ MayCarry(o, handler[h].event.order)
       /\ HandlerProceeds(h)

\* Money moves on its own: no step that touches a charge touches the stock or
\* asks a human, and a step of a request is all that asks one.
MoneyStep(o) == AsaasCreates(o) \/ Pay(o) \/ Refund(o) \/ Delete(o)

LEMMA MoneyAndReviewMoveAlone ==
    ASSUME [Next]_vars
    PROVE  \/ \E o \in Orders : MoneyStep(o)
           \/ \E h \in Handlers : Settle(h) /\ UNCHANGED asaas
           \/ UNCHANGED <<asaas, underReview>>
<1> DEFINE Goal == \/ \E o \in Orders : MoneyStep(o)
                   \/ \E h \in Handlers : Settle(h) /\ UNCHANGED asaas
                   \/ UNCHANGED <<asaas, underReview>>
<1> USE DEF inventoryVars, stockVars, callVars
<1>1. ASSUME NEW o \in Orders,
             \/ Draft(o) \/ ReserveForCall(o) \/ AsaasRefuses(o) \/ MarkCreated(o)
             \/ UndoHold(o) \/ MarkFailed(o)
      PROVE  Goal
  BY <1>1
  DEF Draft, ReserveForCall, AsaasRefuses, MarkCreated, UndoHold, MarkFailed,
      Reserve, Release, CloseHold
<1>2. ASSUME NEW o \in Orders, CallFaults(o) PROVE Goal
  BY <1>2
  DEF CallFaults, DraftFails, ReserveFails, MarkCreatedFails, UndoFails, CallDies,
      Reserve
<1>3. ASSUME NEW o \in Orders,
             \/ AsaasCreates(o) \/ Pay(o) \/ Refund(o) \/ Delete(o)
             \/ CancelSlip(o) \/ HoldLapses(o)
      PROVE  Goal
  BY <1>3 DEF MoneyStep, CancelSlip, HoldLapses, Lapse
<1>4. ASSUME NEW h \in Handlers,
             \/ \E e \in Events : RecordEvent(h, e)
             \/ HandlerProceeds(h) \/ SettleFails(h) \/ HandlerDies(h)
      PROVE  Goal
  BY <1>4
  DEF RecordEvent, HandlerProceeds, Attach, SyncStatus, Book, SettleFails,
      HandlerDies, Settle
<1>5. ASSUME NEW w \in Sweepers, Sweep(w) \/ SweepDies(w) PROVE Goal
  BY <1>5 DEF Sweep, SweepDies, SweepSelect, SweepRelease, SweepAbort, CloseHold
<1>6. ASSUME NEW d \in Adjustments, Adjust(d) PROVE Goal
  BY <1>6 DEF Adjust, ManualAdjustment
<1>7. ASSUME UNCHANGED vars PROVE Goal
  BY <1>7 DEF vars
<1> HIDE DEF Goal
<1>8. Goal
  BY <1>1, <1>2, <1>3, <1>4, <1>5, <1>6, <1>7 DEF Next, CallProceeds
<1> QED
  BY <1>8 DEF Goal

\* The stock effects of a payment stay with the orders that carry it.
LEMMA PaymentStaysWithItsOrder ==
    ASSUME InventoryTypeOK, NEW o \in Orders, NEW p, asaasPaymentId[o] # p,
           ConfirmSale(p) \/ ReleaseForPayment(p) \/ MarkRefundReview(p)
    PROVE  /\ reservation'[o] = reservation[o] /\ status'[o] = status[o]
           /\ o \in underReview => o \in underReview'
<1> USE DEF InventoryTypeOK
<1>0. UNCHANGED inventoryVars
         => /\ reservation'[o] = reservation[o] /\ status'[o] = status[o]
            /\ underReview' = underReview
  BY DEF inventoryVars
<1>1. CASE ConfirmSale(p)
  <2>1. \/ UNCHANGED inventoryVars
        \/ \E x \in Orders \ {o} : CommitHold(x) \/ FlagLatePayment(x)
    BY <1>1 DEF ConfirmSale, LatestReservation
  <2> QED
    BY <1>0, <2>1 DEF CommitHold, FlagLatePayment, orderVars
<1>2. CASE ReleaseForPayment(p)
  <2>1. \/ UNCHANGED inventoryVars
        \/ \E x \in Orders \ {o} : Release(x)
    BY <1>2 DEF ReleaseForPayment
  <2> QED
    BY <1>0, <2>1 DEF Release, CloseHold, orderVars
<1>3. CASE MarkRefundReview(p)
  BY <1>3 DEF MarkRefundReview, orderVars
<1> QED
  BY <1>1, <1>2, <1>3

LEMMA CallStepsMoveTheCall ==
    ASSUME LInv, NEW o \in Orders, Draft(o) \/ CallProceeds(o) \/ CallFaults(o)
    PROVE  CallMoves(o)
<1>t. /\ DOMAIN call = Orders /\ DOMAIN reservation = Orders
      /\ DOMAIN asaasPaymentId = Orders /\ DOMAIN status = Orders
      /\ DOMAIN asaas = Orders
  BY DEF LInv, IInv, InventoryTypeOK, LifecycleTypeOK
<1>g. ASSUME NEW step, Goto(o, step) PROVE call'[o] = step
  BY <1>g, <1>t DEF Goto
<1>s. ASSUME NEW s, SetStatus(o, s) PROVE status'[o] = s
  BY <1>s, <1>t DEF SetStatus
<1>i. UNCHANGED inventoryVars
         => /\ UNCHANGED <<lapsed, sweepList, underReview>>
            /\ reservation'[o] = reservation[o] /\ status'[o] = status[o]
            /\ asaasPaymentId'[o] = asaasPaymentId[o]
  BY DEF inventoryVars
<1>k. UNCHANGED stockVars
         => /\ UNCHANGED <<lapsed, sweepList, underReview>>
            /\ reservation'[o] = reservation[o]
  BY DEF stockVars
<1>n. NoFault => tainted' = tainted
  BY DEF NoFault, faultVars
<1>f. FaultOn(o) => tainted \subseteq tainted' /\ o \in tainted'
  BY DEF FaultOn
<1>r. ASSUME Reserve(o)
      PROVE  /\ UNCHANGED <<lapsed, sweepList, underReview>>
             /\ reservation[o] = "none" /\ reservation'[o] = "active"
             /\ status'[o] = status[o] \/ status'[o] = "stock_reserved"
             /\ asaasPaymentId'[o] = asaasPaymentId[o]
  BY <1>r, <1>t DEF Reserve
<1>u. ASSUME Release(o)
      PROVE  /\ UNCHANGED <<lapsed, sweepList, underReview>>
             /\ reservation[o] = "active" /\ reservation'[o] = "released"
             /\ status'[o] = status[o]
             /\ asaasPaymentId'[o] = asaasPaymentId[o]
  BY <1>u, <1>t DEF Release, CloseHold, orderVars
<1>1. CASE Draft(o)
  BY <1>1, <1>g, <1>s, <1>k, <1>n DEF Draft, CallMoves, CallStep
<1>2. CASE DraftFails(o)
  <2>1. status'[o] = status[o] \/ status'[o] = "checkout_ready"
    BY <1>2, <1>s DEF DraftFails
  <2> QED
    BY <1>2, <2>1, <1>g, <1>k, <1>f DEF DraftFails, CallMoves, CallStep
<1>3. CASE ReserveForCall(o)
  BY <1>3, <1>g, <1>r, <1>i, <1>n DEF ReserveForCall, CallMoves, CallStep
<1>4. CASE ReserveFails(o)
  BY <1>4, <1>g, <1>r, <1>i, <1>f DEF ReserveFails, CallMoves, CallStep
<1>5. CASE AsaasCreates(o)
  <2>1. /\ call'[o] \in {"charged", "undoing"} /\ asaas'[o] = "open"
        /\ call[o] = "held" /\ UNCHANGED hookVars
    BY <1>5, <1>g, <1>t DEF AsaasCreates
  <2>2. \A e \in sent' : \/ e \in sent
                         \/ /\ e.order = o /\ e.kind = "PAYMENT_CREATED"
                            /\ o \notin CardOrders
    BY <1>5 DEF AsaasCreates, Report
  <2>3. /\ UNCHANGED <<lapsed, sweepList, underReview>> /\ tainted' = tainted
        /\ reservation'[o] = reservation[o] /\ status'[o] = status[o]
        /\ asaasPaymentId'[o] = asaasPaymentId[o]
    BY <1>5, <1>i, <1>n DEF AsaasCreates
  <2> QED
    BY <2>1, <2>2, <2>3 DEF CallMoves, CallStep
<1>6. CASE AsaasRefuses(o)
  BY <1>6, <1>g, <1>i, <1>n DEF AsaasRefuses, CallMoves, CallStep
<1>7. CASE MarkCreated(o)
  <2>1. /\ status'[o] = "payment_link_created"
        /\ o \notin CardOrders => asaasPaymentId'[o] = ChargeId(o)
        /\ call'[o] = "linked" /\ call[o] = "charged"
    BY <1>7, <1>g, <1>s, <1>t DEF MarkCreated
  <2> QED
    BY <1>7, <2>1, <1>k, <1>n DEF MarkCreated, CallMoves, CallStep
<1>8. CASE MarkCreatedFails(o)
  BY <1>8, <1>g, <1>i, <1>f DEF MarkCreatedFails, CallMoves, CallStep
<1>9. CASE UndoHold(o)
  BY <1>9, <1>g, <1>u, <1>i, <1>n DEF UndoHold, CallMoves, CallStep
<1>10. CASE MarkFailed(o)
  <2>1. status'[o] = status[o] \/ status'[o] = "payment_link_failed"
    BY <1>10, <1>s DEF MarkFailed
  <2> QED
    BY <1>10, <2>1, <1>g, <1>k, <1>n DEF MarkFailed, CallMoves, CallStep
<1>11. CASE UndoFails(o)
  <2>1. /\ call[o] \in {"undoing", "failing"} /\ call'[o] \in {"failing", "failed"}
        /\ UNCHANGED <<inventoryVars, created, asaas, sent, hookVars>>
    BY <1>11, <1>g DEF UndoFails
  <2> QED
    BY <1>11, <2>1, <1>i, <1>f DEF UndoFails, CallMoves, CallStep
<1>12. CASE CallDies(o)
  BY <1>12, <1>g, <1>i, <1>f DEF CallDies, CallMoves, CallStep
<1> QED
  BY <1>1, <1>2, <1>3, <1>4, <1>5, <1>6, <1>7, <1>8, <1>9, <1>10, <1>11, <1>12
  DEF CallProceeds, CallFaults

\* Every step is about order o, or about one whose charge can reach it, or leaves
\* order o alone.
LEMMA EveryStepMovesOrLeaves ==
    ASSUME LInv, ChargesMatch, NEW o \in Orders, [Next]_vars
    PROVE  \/ Elsewhere(o) \/ StrangerMoves(o)
           \/ CallMoves(o) \/ CustomerMoves(o) \/ ClockMoves(o) \/ HookMoves(o)
<1>t. /\ LifecycleTypeOK /\ InventoryTypeOK
      /\ DOMAIN call = Orders /\ DOMAIN reservation = Orders
      /\ DOMAIN asaasPaymentId = Orders /\ DOMAIN status = Orders
      /\ DOMAIN asaas = Orders /\ DOMAIN handler = Handlers
  BY DEF LInv, IInv, InventoryTypeOK, LifecycleTypeOK
<1> DEFINE SameStock ==
       /\ reservation'[o] = reservation[o] /\ status'[o] = status[o]
       /\ asaasPaymentId'[o] = asaasPaymentId[o]
       /\ o \in underReview => o \in underReview'
       /\ UNCHANGED <<lapsed, sweepList>>
<1> DEFINE SameCall ==
       /\ call'[o] = call[o] /\ asaas'[o] = asaas[o]
       /\ \A e \in Events : e.order = o => (e \in sent' <=> e \in sent)
<1>i. UNCHANGED inventoryVars => SameStock
  BY DEF inventoryVars
<1>f. /\ NoFault => tainted' = tainted
      /\ \A x : FaultOn(x) => tainted \subseteq tainted'
  BY DEF NoFault, faultVars, FaultOn
<1>h. UNCHANGED hookVars
         => /\ \A e \in Events : e \in recorded' <=> e \in recorded
            /\ \A h \in Handlers : handler'[h] = handler[h]
  BY DEF hookVars
<1>c. UNCHANGED callVars => SameCall
  BY DEF callVars
<1>e. ASSUME SameStock, SameCall, tainted \subseteq tainted', UNCHANGED hookVars
      PROVE  Elsewhere(o)
  BY <1>e, <1>h DEF Elsewhere
<1>1. ASSUME NEW x \in Orders \ {o}, Draft(x) \/ CallProceeds(x) \/ CallFaults(x)
      PROVE  Elsewhere(o)
  <2>1. UNCHANGED hookVars /\ (NoFault \/ FaultOn(x))
    BY <1>1
    DEF Draft, CallProceeds, CallFaults, ReserveForCall, AsaasCreates,
        AsaasRefuses, MarkCreated, UndoHold, MarkFailed, DraftFails, ReserveFails,
        MarkCreatedFails, UndoFails, CallDies
  <2>2. \E step : Goto(x, step)
    BY <1>1
    DEF Draft, CallProceeds, CallFaults, ReserveForCall, AsaasCreates,
        AsaasRefuses, MarkCreated, UndoHold, MarkFailed, DraftFails, ReserveFails,
        MarkCreatedFails, UndoFails, CallDies
  <2>3. call'[o] = call[o]
    BY <1>1, <1>t, <2>2 DEF Goto
  <2>4. CASE AsaasCreates(x)
    <3>1. SameCall
      BY <1>1, <1>t, <2>3, <2>4 DEF AsaasCreates, Report
    <3> QED
      BY <1>i, <1>e, <1>f, <2>1, <2>4, <3>1 DEF AsaasCreates
  <2>5. CASE ~ AsaasCreates(x)
    <3>1. UNCHANGED <<asaas, sent>>
      BY <1>1, <2>5
      DEF Draft, CallProceeds, CallFaults, ReserveForCall, AsaasRefuses,
          MarkCreated, UndoHold, MarkFailed, DraftFails, ReserveFails,
          MarkCreatedFails, UndoFails, CallDies
    <3>2. \/ UNCHANGED inventoryVars \/ Reserve(x) \/ Release(x)
          \/ /\ UNCHANGED stockVars
             /\ (\E s : SetStatus(x, s)) \/ UNCHANGED status
             /\ \/ UNCHANGED asaasPaymentId
                \/ \E p : asaasPaymentId' = [asaasPaymentId EXCEPT ![x] = p]
      BY <1>1, <2>5
      DEF Draft, CallProceeds, CallFaults, ReserveForCall, AsaasRefuses,
          MarkCreated, UndoHold, MarkFailed, DraftFails, ReserveFails,
          MarkCreatedFails, UndoFails, CallDies
    <3>3. ASSUME Reserve(x) PROVE SameStock
      BY <1>1, <1>t, <3>3 DEF Reserve
    <3>4. ASSUME Release(x) PROVE SameStock
      BY <1>1, <1>t, <3>4 DEF Release, CloseHold, orderVars
    <3>5. ASSUME UNCHANGED stockVars,
                 (\E s : SetStatus(x, s)) \/ UNCHANGED status,
                 \/ UNCHANGED asaasPaymentId
                 \/ \E p : asaasPaymentId' = [asaasPaymentId EXCEPT ![x] = p]
          PROVE  SameStock
      BY <1>1, <1>t, <3>5 DEF stockVars, SetStatus
    <3>6. SameStock
      BY <1>i, <3>2, <3>3, <3>4, <3>5
    <3> QED
      BY <1>e, <1>f, <2>1, <2>3, <3>1, <3>6
  <2> QED
    BY <2>4, <2>5
<1>2. ASSUME NEW x \in Orders \ {o}, CustomerMoves(x) PROVE Elsewhere(o)
  <2>1. /\ UNCHANGED inventoryVars /\ UNCHANGED hookVars /\ NoFault
        /\ UNCHANGED call /\ asaas'[o] = asaas[o]
    BY <1>2, <1>t DEF CustomerMoves, Pay, Refund, Delete, CancelSlip
  <2>2. \E kinds : Report(x, kinds)
    BY <1>2 DEF CustomerMoves, Pay, Refund, Delete, CancelSlip
  <2>3. SameCall
    BY <1>2, <2>1, <2>2 DEF Report
  <2> QED
    BY <1>i, <1>e, <1>f, <2>1, <2>3
<1>3. ASSUME NEW x \in Orders, HoldLapses(x) PROVE ClockMoves(o)
  BY <1>3, <1>t DEF HoldLapses, Lapse, ClockMoves, faultVars
<1>4. ASSUME NEW w \in Sweepers, Sweep(w) \/ SweepDies(w) PROVE ClockMoves(o)
  <2>1. UNCHANGED <<callVars, hookVars, tainted>>
    BY <1>4 DEF Sweep, SweepDies, faultVars
  <2>2. CASE SweepSelect(w)
    BY <1>t, <2>1, <2>2 DEF SweepSelect, ClockMoves, InventoryTypeOK
  <2>3. ASSUME NEW x \in Orders, SweepRelease(w, x) PROVE ClockMoves(o)
    <3>1. UNCHANGED <<orderVars, underReview, lapsed>>
      BY <2>3 DEF SweepRelease, CloseHold
    <3>2. \A v \in Sweepers : sweepList'[v] \subseteq sweepList[v]
      BY <1>t, <2>3 DEF SweepRelease, InventoryTypeOK
    <3>3. \/ reservation'[o] = reservation[o]
          \/ /\ reservation[o] = "active" /\ reservation'[o] = "expired"
             /\ o \in sweepList[w]
      BY <1>t, <2>3 DEF SweepRelease, CloseHold
    <3> QED
      BY <2>1, <3>1, <3>2, <3>3 DEF ClockMoves
  <2>4. CASE SweepAbort(w)
    BY <1>t, <2>1, <2>4 DEF SweepAbort, ClockMoves, InventoryTypeOK
  <2> QED
    BY <1>4, <2>2, <2>3, <2>4 DEF Sweep, SweepDies
<1>5. ASSUME NEW d \in Adjustments, Adjust(d) PROVE Elsewhere(o)
  <2>1. SameStock
    BY <1>5 DEF Adjust, ManualAdjustment, orderVars
  <2> QED
    BY <1>c, <1>e, <1>5, <2>1 DEF Adjust, faultVars
<1>6. ASSUME UNCHANGED vars PROVE Elsewhere(o)
  BY <1>i, <1>c, <1>e, <1>6 DEF vars, faultVars
<1>7. ASSUME NEW h \in Handlers, NEW e \in Events, RecordEvent(h, e), e.order # o
      PROVE  Elsewhere(o)
  <2>1. /\ \A d \in Events : d.order = o => (d \in recorded' <=> d \in recorded)
        /\ \A g \in Handlers \ {h} : handler'[g] = handler[g]
        /\ handler[h] = Idle /\ handler'[h].event = e
    BY <1>7, <1>t DEF RecordEvent
  <2>2. ~ Of(h, o) /\ ~ Of(h, o)'
    BY <1>7, <2>1 DEF Of
  <2> QED
    BY <1>i, <1>c, <1>f, <1>7, <2>1, <2>2 DEF RecordEvent, Elsewhere
<1>8. ASSUME NEW h \in Handlers, ~ Of(h, o),
             HandlerProceeds(h) \/ SettleFails(h) \/ HandlerDies(h)
      PROVE  Elsewhere(o) \/ StrangerMoves(o)
  <2> DEFINE x == handler[h].event.order
  <2>1. handler[h] # Idle
    BY <1>8, AtIsNotIdle
    DEF HandlerProceeds, Attach, SyncStatus, Settle, Book, SettleFails,
        HandlerDies, HandlerStep
  <2>2. x \in Orders \ {o}
    BY <1>8, <1>t, <2>1, HandlerEvent DEF Of
  <2>3. /\ \A g \in Handlers \ {h} : handler'[g] = handler[g]
        /\ handler'[h] = Idle \/ handler'[h].event = handler[h].event
    <3>1. (\E step : Continue(h, step)) \/ handler' = [handler EXCEPT ![h] = Idle]
      BY <1>8
      DEF HandlerProceeds, Attach, SyncStatus, Settle, Book, SettleFails,
          HandlerDies
    <3>2. handler[h] \in [step : HandlerStep, event : Events]
      BY <1>t, <2>1, HandlerEvent
    <3> QED
      BY <1>t, <3>1, <3>2 DEF Continue
  <2>4. ~ Of(h, o)'
    BY <2>2, <2>3 DEF Of
  <2>5. /\ UNCHANGED <<callVars, recorded>>
        /\ NoFault \/ FaultOn(x)
    BY <1>8
    DEF HandlerProceeds, Attach, SyncStatus, Settle, Book, SettleFails,
        HandlerDies
  <2>6. CASE HandlerProceeds(h) /\ MayCarry(o, x)
    BY <2>1, <2>2, <2>6 DEF StrangerMoves
  <2>7. ASSUME ~ (HandlerProceeds(h) /\ MayCarry(o, x)) PROVE SameStock
    <3>0. ASSUME HandlerProceeds(h)
          PROVE  asaasPaymentId[o] # ChargeId(x) /\ ~ LatestCardOrder(o, x)
      BY <2>2, <2>7, <3>0 DEF ChargesMatch, LatestCardOrder, MayCarry
    <3>1. CASE Attach(h)
      BY <3>0, <3>1 DEF Attach, stockVars, HandlerProceeds
    <3>2. CASE SyncStatus(h)
      BY <3>0, <3>2 DEF SyncStatus, stockVars, HandlerProceeds
    <3>3. CASE Settle(h)
      <4>1. \/ UNCHANGED inventoryVars
            \/ \E p : /\ p = ChargeId(x)
                      /\ ConfirmSale(p) \/ ReleaseForPayment(p) \/ MarkRefundReview(p)
        BY <3>3 DEF Settle
      <4>2. ASSUME NEW p,
                   ConfirmSale(p) \/ ReleaseForPayment(p) \/ MarkRefundReview(p)
            PROVE  UNCHANGED <<lapsed, sweepList, asaasPaymentId>>
        BY <4>2
        DEF ConfirmSale, CommitHold, FlagLatePayment, ReleaseForPayment, Release,
            CloseHold, MarkRefundReview, inventoryVars, orderVars
      <4> QED
        BY <1>i, <1>t, <3>0, <3>3, <4>1, <4>2, PaymentStaysWithItsOrder
        DEF HandlerProceeds
    <3>4. CASE Book(h) \/ SettleFails(h) \/ HandlerDies(h)
      BY <1>i, <3>4 DEF Book, SettleFails, HandlerDies
    <3> QED
      BY <1>8, <3>1, <3>2, <3>3, <3>4 DEF HandlerProceeds
  <2> QED
    BY <1>c, <1>f, <1>8, <2>3, <2>4, <2>5, <2>6, <2>7 DEF Elsewhere
<1>9. ASSUME NEW h \in Handlers,
             \/ \E e \in Events : RecordEvent(h, e)
             \/ HandlerProceeds(h) \/ SettleFails(h) \/ HandlerDies(h)
      PROVE  Elsewhere(o) \/ StrangerMoves(o) \/ HookMoves(o)
  BY <1>7, <1>8, <1>9 DEF HookMoves
<1>10. ASSUME NEW x \in Orders,
              \/ Draft(x) \/ CallProceeds(x) \/ CallFaults(x) \/ CustomerMoves(x)
       PROVE  Elsewhere(o) \/ CallMoves(o) \/ CustomerMoves(o)
  BY <1>1, <1>2, <1>10, CallStepsMoveTheCall
<1> HIDE DEF SameStock, SameCall
<1> QED
  BY <1>3, <1>4, <1>5, <1>6, <1>9, <1>10 DEF Next, CustomerMoves

\* What a step of a request, for whatever order, leaves alone.
LEMMA RequestsLeaveTheCall ==
    ASSUME LInv, NEW h \in Handlers,
           \/ \E e \in Events : RecordEvent(h, e)
           \/ HandlerProceeds(h) \/ SettleFails(h) \/ HandlerDies(h)
    PROVE  /\ UNCHANGED <<call, created, asaas, sent, lapsed, sweepList>>
           /\ tainted \subseteq tainted'
           /\ \A o \in Orders :
                 \/ reservation'[o] = reservation[o]
                 \/ /\ At(h, "synced") /\ reservation[o] = "active"
                    /\ reservation'[o] \in {"confirmed", "released"}
                    /\ asaasPaymentId[o] = ChargeId(handler[h].event.order)
<1>t. InventoryTypeOK
  BY DEF LInv, IInv
<1>1. UNCHANGED callVars /\ (NoFault \/ \E x : FaultOn(x))
  BY
  DEF RecordEvent, HandlerProceeds, Attach, SyncStatus, Settle, Book, SettleFails,
      HandlerDies
<1>2. \/ UNCHANGED stockVars \/ UNCHANGED inventoryVars
      \/ /\ At(h, "synced")
         /\ \E p : /\ p = ChargeId(handler[h].event.order)
                   /\ ConfirmSale(p) \/ ReleaseForPayment(p) \/ MarkRefundReview(p)
  BY
  DEF RecordEvent, HandlerProceeds, Attach, SyncStatus, Settle, Book, SettleFails,
      HandlerDies
<1>3. UNCHANGED <<lapsed, sweepList>>
  BY <1>2
  DEF stockVars, inventoryVars, ConfirmSale, CommitHold, FlagLatePayment,
      ReleaseForPayment, Release, CloseHold, MarkRefundReview
<1>4. ASSUME NEW o \in Orders, reservation'[o] # reservation[o]
      PROVE  /\ At(h, "synced") /\ reservation[o] = "active"
             /\ reservation'[o] \in {"confirmed", "released"}
             /\ asaasPaymentId[o] = ChargeId(handler[h].event.order)
  <2>1. PICK p : /\ p = ChargeId(handler[h].event.order) /\ At(h, "synced")
                 /\ ConfirmSale(p) \/ ReleaseForPayment(p) \/ MarkRefundReview(p)
    BY <1>2, <1>4 DEF stockVars, inventoryVars
  <2>2. asaasPaymentId[o] = p
    BY <1>t, <1>4, <2>1, PaymentStaysWithItsOrder
  <2>3. ASSUME ConfirmSale(p)
        PROVE  reservation[o] = "active" /\ reservation'[o] = "confirmed"
    BY <1>t, <1>4, <2>3
    DEF ConfirmSale, CommitHold, FlagLatePayment, inventoryVars, InventoryTypeOK
  <2>4. ASSUME ReleaseForPayment(p) \/ MarkRefundReview(p)
        PROVE  reservation[o] = "active" /\ reservation'[o] = "released"
    BY <1>t, <1>4, <2>4
    DEF ReleaseForPayment, Release, CloseHold, MarkRefundReview, inventoryVars,
        InventoryTypeOK
  <2> QED
    BY <2>1, <2>2, <2>3, <2>4
<1> QED
  BY <1>1, <1>3, <1>4 DEF callVars, NoFault, faultVars, FaultOn

\* Once Asaas has the charge of an order it keeps it.
LEMMA ChargesStay ==
    ASSUME LInv, [Next]_vars, NEW x \in Orders, asaas[x] # "none"
    PROVE  asaas'[x] # "none"
<1>1. DOMAIN asaas = Orders
  BY DEF LInv, LifecycleTypeOK
<1>2. ASSUME NEW o \in Orders, MoneyStep(o) PROVE asaas'[x] # "none"
  BY <1>1, <1>2 DEF MoneyStep, AsaasCreates, Pay, Refund, Delete
<1> QED
  BY <1>2, MoneyAndReviewMoveAlone

\* Every order's call, money, events and hold fit, whatever orders share: only the
\* hold of a call in progress can be closed by another order's charge.
LEMMA StepPreservesCallsFit ==
    ASSUME LInv, LInv', EventInv, ChargesMatch, CallsFit, [Next]_vars
    PROVE  CallsFit'
<1> SUFFICES ASSUME NEW o \in Orders PROVE CallFits(o)'
  BY DEF CallsFit
<1>t. sent' \subseteq Events /\ LifecycleTypeOK /\ DOMAIN asaas = Orders
  BY DEF LInv, LifecycleTypeOK
<1>f. CallFits(o)
  BY DEF CallsFit
<1>k. ASSUME OpenOrTaken(o), reservation'[o] = reservation[o]
      PROVE  OpenOrTaken(o)'
  <2>1. \A x \in Orders : asaas[x] # "none" => asaas'[x] # "none"
    BY ChargesStay
  <2> QED
    BY <1>k, <2>1 DEF OpenOrTaken, MayCarry
<1>1. CASE Elsewhere(o)
  <2>1. \A e \in sent' : e.order = o => e \in sent
    BY <1>1, <1>t DEF Elsewhere
  <2>2. /\ call'[o] = call[o] /\ asaas'[o] = asaas[o]
        /\ reservation'[o] = reservation[o]
        /\ o \in lapsed' \/ (\E w \in Sweepers : o \in sweepList'[w])
              => o \in lapsed \/ (\E w \in Sweepers : o \in sweepList[w])
    BY <1>1 DEF Elsewhere
  <2> QED
    BY <1>f, <1>k, <2>1, <2>2 DEF CallFits
<1>2. CASE CallMoves(o)
  <2>0. /\ UNCHANGED <<lapsed, sweepList>>
        /\ call[o] \in CallStep /\ call[o] # "linked" /\ call[o] \notin CallEnd
    BY <1>2 DEF CallMoves, CallStep, CallEnd
  <2>1. call'[o] = "held" => OpenOrTaken(o)'
    BY <1>2 DEF CallMoves, OpenOrTaken
  <2>2. call[o] = "held" => reservation[o] # "none"
    BY <1>f DEF CallFits, OpenOrTaken
  <2>3. /\ asaas'[o] # "none" => /\ call'[o] \notin {"idle", "drafted", "held"}
                                 /\ reservation'[o] # "none"
        /\ asaas'[o] \notin {"paid", "refunded"}
    BY <1>2, <1>f, <2>0, <2>2 DEF CallMoves, CallFits
  <2>4. \A e \in sent' :
           e.order = o =>
              /\ asaas'[o] # "none"
              /\ o \in CardOrders \/ e.kind \in PaidKinds \cup {"PAYMENT_REFUNDED"}
                    => asaas'[o] \in {"paid", "refunded"}
              /\ e.kind = "PAYMENT_REFUNDED" => asaas'[o] = "refunded"
    BY <1>2, <1>f, <2>0 DEF CallMoves, CallFits, PaidKinds
  <2>5. ~ (o \in lapsed \/ \E w \in Sweepers : o \in sweepList[w])
    BY <1>f, <2>0 DEF CallFits
  <2> QED
    BY <2>0, <2>1, <2>3, <2>4, <2>5 DEF CallFits
<1>3. CASE CustomerMoves(o)
  <2>0. /\ UNCHANGED <<reservation, lapsed, sweepList, call>>
    BY <1>3 DEF CustomerMoves, Pay, Refund, Delete, CancelSlip, inventoryVars
  <2>1. /\ asaas[o] # "none" /\ asaas'[o] # "none"
        /\ asaas'[o] \in {"paid", "refunded"} => call[o] = "linked"
        /\ asaas[o] \in {"paid", "refunded"} => asaas'[o] \in {"paid", "refunded"}
        /\ asaas[o] = "refunded" => asaas'[o] = "refunded"
    BY <1>3, <1>f, <1>t DEF CustomerMoves, Pay, Refund, Delete, CancelSlip, CallFits
  <2>2. \A e \in sent' : e.order = o =>
           \/ e \in sent
           \/ /\ asaas'[o] \in {"paid", "refunded"}
              /\ e.kind = "PAYMENT_REFUNDED" => asaas'[o] = "refunded"
           \/ /\ o \notin CardOrders
              /\ e.kind \in {"PAYMENT_DELETED", "PAYMENT_BANK_SLIP_CANCELLED"}
    BY <1>3, <1>t DEF CustomerMoves, Pay, Refund, Delete, CancelSlip, Report, PaidKinds
  <2>3. \A e \in sent' :
           e.order = o =>
              /\ o \in CardOrders \/ e.kind \in PaidKinds \cup {"PAYMENT_REFUNDED"}
                    => asaas'[o] \in {"paid", "refunded"}
              /\ e.kind = "PAYMENT_REFUNDED" => asaas'[o] = "refunded"
    BY <1>f, <2>1, <2>2 DEF CallFits, PaidKinds
  <2> QED
    BY <1>f, <1>k, <2>0, <2>1, <2>3 DEF CallFits
<1>4. CASE ClockMoves(o)
  <2>0. /\ UNCHANGED <<call, asaas, sent>>
        /\ \/ reservation'[o] = reservation[o]
           \/ /\ reservation[o] = "active" /\ reservation'[o] = "expired"
              /\ call[o] \in CallEnd
    BY <1>4, <1>f DEF ClockMoves, callVars, CallFits
  <2>1. o \in lapsed' \/ (\E w \in Sweepers : o \in sweepList'[w])
           => call[o] \in CallEnd
    BY <1>4, <1>f DEF ClockMoves, CallFits
  <2>2. call[o] = "held" => call[o] \notin CallEnd
    BY DEF CallEnd
  <2> QED
    BY <1>f, <1>k, <2>0, <2>1, <2>2 DEF CallFits
<1>5. CASE HookMoves(o) \/ StrangerMoves(o)
  <2>1. PICK h \in Handlers :
           \/ \E e \in Events : RecordEvent(h, e)
           \/ HandlerProceeds(h) \/ SettleFails(h) \/ HandlerDies(h)
    BY <1>5 DEF HookMoves, StrangerMoves
  <2> DEFINE x == handler[h].event.order
  <2>2. UNCHANGED <<call, asaas, sent, lapsed, sweepList>>
    BY <2>1, RequestsLeaveTheCall
  <2>3. \/ reservation'[o] = reservation[o]
        \/ reservation[o] = "active" /\ reservation'[o] \in {"confirmed", "released"}
    BY <2>1, RequestsLeaveTheCall
  <2>4. ASSUME call[o] = "held", reservation'[o] # reservation[o]
        PROVE  OpenOrTaken(o)'
    <3>1. /\ At(h, "synced") /\ reservation'[o] \in {"confirmed", "released"}
          /\ asaasPaymentId[o] = ChargeId(x)
      BY <2>1, <2>4, RequestsLeaveTheCall
    <3>2. handler[h].event \in sent /\ x \in Orders
      BY <1>t, <3>1, AtIsNotIdle, HandlerEvent
      DEF EventInv, LifecycleTypeOK, HandlerStep
    <3>3. MayCarry(o, x)
      BY <3>1, <3>2 DEF ChargesMatch
    <3>4. asaas[x] # "none"
      BY <3>2 DEF CallsFit, CallFits
    <3>5. x # o
      BY <1>f, <2>4, <3>4 DEF CallFits
    <3> QED
      BY <2>2, <3>1, <3>2, <3>3, <3>4, <3>5 DEF OpenOrTaken, MayCarry
  <2> QED
    BY <1>f, <1>k, <2>2, <2>3, <2>4 DEF CallFits
<1> QED
  BY <1>1, <1>2, <1>3, <1>4, <1>5, EveryStepMovesOrLeaves

\* The hold of an order that no other order's charge can reach is open while its
\* call is about to ask for money.
LEMMA OwnHold ==
    ASSUME NEW o \in Orders, OwnReference(o), OpenOrTaken(o)
    PROVE  reservation[o] = "active"
BY DEF OwnReference, OpenOrTaken

\* Only a paid charge is reported as paid or refunded, so its call is over.
LEMMA PaidIsLinked ==
    ASSUME LInv, EventInv, SaleHasPaidEvent,
           NEW o \in Orders, OwnReference(o), CallFits(o)
    PROVE  /\ \A e \in recorded :
                 e.order = o /\ e.kind \in PaidKinds \cup {"PAYMENT_REFUNDED"}
                    => call[o] = "linked"
           /\ reservation[o] = "confirmed" => call[o] = "linked"
           /\ \A step \in HandlerStep :
                 Working(o, step, PaidKinds \cup {"PAYMENT_REFUNDED"})
                    => call[o] = "linked"
           /\ \A h \in Handlers :
                 Of(h, o) => /\ handler[h].event \in recorded
                             /\ asaas[o] # "none"
                             /\ o \in CardOrders => call[o] = "linked"
<1>t. LifecycleTypeOK
  BY DEF LInv
<1>r. recorded \subseteq sent /\ sent \subseteq Events
  BY <1>t DEF LifecycleTypeOK
<1>1. \A e \in recorded :
         e.order = o /\ e.kind \in PaidKinds \cup {"PAYMENT_REFUNDED"}
            => call[o] = "linked"
  BY <1>r DEF CallFits
<1>2. ASSUME reservation[o] = "confirmed" PROVE call[o] = "linked"
  <2>1. PICK e \in recorded : e.kind \in PaidKinds /\ MayCarry(o, e.order)
    BY <1>2 DEF SaleHasPaidEvent
  <2>2. e.order = o
    BY <1>r, <2>1 DEF OwnReference, Events
  <2> QED
    BY <1>1, <2>1, <2>2
<1>3. ASSUME NEW h \in Handlers, Of(h, o)
      PROVE  /\ handler[h].event \in recorded
             /\ asaas[o] # "none"
             /\ o \in CardOrders => call[o] = "linked"
  <2>1. handler[h].event \in recorded
    BY <1>3 DEF Of, EventInv
  <2> QED
    BY <1>r, <1>3, <2>1 DEF Of, CallFits
<1>4. ASSUME NEW step \in HandlerStep,
             Working(o, step, PaidKinds \cup {"PAYMENT_REFUNDED"})
      PROVE  call[o] = "linked"
  <2>1. PICK h \in Handlers :
              /\ handler[h].step = step /\ handler[h].event.order = o
              /\ handler[h].event.kind \in PaidKinds \cup {"PAYMENT_REFUNDED"}
    BY <1>4 DEF Working
  <2>2. Of(h, o)
    BY <2>1, AtIsNotIdle DEF At, Of
  <2> QED
    BY <1>1, <1>3, <2>1, <2>2
<1> QED
  BY <1>1, <1>2, <1>3, <1>4

LEMMA ElsewhereKeepsOwn ==
    ASSUME LInv, LInv', NEW o \in Orders, Own(o), Elsewhere(o)
    PROVE  Own(o)'
<1>t. /\ sent' \subseteq Events /\ recorded' \subseteq Events
      /\ sent \subseteq Events /\ recorded \subseteq Events
  BY DEF LInv, LifecycleTypeOK
<1> USE DEF Elsewhere
<1>w. ASSUME NEW step \in HandlerStep, NEW kinds
      PROVE  Working(o, step, kinds)' <=> Working(o, step, kinds)
  BY DEF Working, Of, HandlerStep, Idle
<1>2. OrderFits(o)'
  <2>0. OrderFits(o)
    BY DEF Own
  <2> QED
    BY <1>w, <2>0 DEF OrderFits, HandlerStep
<1>3. ASSUME o \notin tainted' PROVE Served(o)'
  <2>0. Served(o)
    BY <1>3 DEF Own
  <2>1. PaidEventsOf(o)' \subseteq PaidEventsOf(o)
    BY <1>t DEF PaidEventsOf
  <2>2. \A e \in PaidEventsOf(o) : \A h \in Handlers :
           handler[h].step \in {"recorded", "attached", "synced"} /\ handler[h].event = e
              => handler'[h] = handler[h]
    BY DEF Of, Idle, PaidEventsOf
  <2> QED
    BY <2>0, <2>1, <2>2 DEF Served
<1>4. ASSUME o \notin tainted' PROVE Shown(o)'
  <2>0. Shown(o)
    BY <1>4 DEF Own
  <2> QED
    BY <1>w, <2>0 DEF Shown, HandlerStep
<1> QED
  BY <1>2, <1>3, <1>4 DEF Own

LEMMA CallKeepsOwn ==
    ASSUME LInv, LInv', EventInv, SaleHasPaidEvent,
           NEW o \in Orders, OwnReference(o), CallFits(o), Own(o), CallMoves(o)
    PROVE  Own(o)'
<1>u. /\ UNCHANGED <<handler, recorded>>
      /\ tainted \subseteq tainted'
      /\ UNCHANGED <<lapsed, sweepList, underReview>>
      /\ call[o] \in CallStep /\ call[o] # "linked" /\ call[o] \notin CallEnd
  BY DEF CallMoves, hookVars, CallStep, CallEnd
<1>w. \A step, kinds : Working(o, step, kinds)' <=> Working(o, step, kinds)
  BY <1>u DEF Working
<1>p. /\ reservation[o] # "confirmed" /\ reservation'[o] # "confirmed"
      /\ PaidEventsOf(o) = {}
      /\ ~ Working(o, "synced", PaidKinds)
  <2>1. /\ reservation[o] # "confirmed"
        /\ \A e \in recorded : ~ (e.order = o /\ e.kind \in PaidKinds)
        /\ ~ Working(o, "synced", PaidKinds \cup {"PAYMENT_REFUNDED"})
    BY <1>u, PaidIsLinked DEF HandlerStep
  <2>2. reservation'[o] # "confirmed"
    BY <2>1 DEF CallMoves
  <2>3. ~ Working(o, "synced", PaidKinds)
    BY <2>1 DEF Working
  <2>4. PaidEventsOf(o) = {}
    BY <2>1 DEF PaidEventsOf
  <2> QED
    BY <2>1, <2>2, <2>3, <2>4
<1>2. OrderFits(o)'
  <2>0. OrderFits(o)
    BY DEF Own
  <2>1. status'[o] \in {"paid", "refunded", "cancelled"}
           => asaasPaymentId'[o] = ChargeId(o)
    BY <2>0 DEF OrderFits, CallMoves
  <2>2. status'[o] = "manual_review"
           => reservation'[o] \in {"released", "expired"} /\ o \in underReview'
    BY <2>0 DEF OrderFits, CallMoves
  <2>3. ASSUME o \notin tainted', call'[o] = "linked",
               \/ o \notin CardOrders
               \/ Working(o, "attached", EventKinds) \/ Working(o, "synced", EventKinds)
        PROVE  asaasPaymentId'[o] = ChargeId(o)
    <3>1. o \notin CardOrders
      <4>1. ASSUME NEW h \in Handlers, Of(h, o) PROVE o \notin CardOrders
        BY <1>u, <4>1, PaidIsLinked
      <4> QED
        BY <2>3, <4>1 DEF Working, Of, Idle
    <3> QED
      BY <1>u, <2>3, <3>1 DEF CallMoves
  <2> QED
    BY <1>w, <2>1, <2>2, <2>3 DEF OrderFits
<1>3. Served(o)'
  BY <1>u, <1>p DEF Served, PaidEventsOf
<1>4. ASSUME o \notin tainted' PROVE Shown(o)'
  <2>0. Shown(o)
    BY <1>4, <1>u DEF Own
  <2>1. status[o] # "paid"
    BY <1>p, <2>0 DEF Shown
  <2>2. status'[o] # "paid"
    BY <2>1 DEF CallMoves
  <2>3. status'[o] = "cancelled"
           => \/ reservation'[o] \in {"released", "expired"} \/ o \in underReview'
              \/ Working(o, "synced", CancelKinds \cup {"PAYMENT_REFUNDED"})'
    BY <1>u, <1>w, <2>0 DEF Shown, CallMoves
  <2>4. status'[o] = "refunded"
           => o \in underReview' \/ Working(o, "synced", {"PAYMENT_REFUNDED"})'
    BY <1>u, <1>w, <2>0 DEF Shown, CallMoves
  <2> QED
    BY <1>p, <1>w, <2>2, <2>3, <2>4 DEF Shown
<1> QED
  BY <1>2, <1>3, <1>4 DEF Own

LEMMA CustomerKeepsOwn ==
    ASSUME LInv, NEW o \in Orders, Own(o), CustomerMoves(o)
    PROVE  Own(o)'
<1>u. UNCHANGED inventoryVars /\ UNCHANGED hookVars /\ NoFault /\ UNCHANGED call
  BY DEF CustomerMoves, Pay, Refund, Delete, CancelSlip
<1>v. UNCHANGED <<status, asaasPaymentId, reservation, underReview, lapsed,
                  sweepList, handler, recorded, tainted, call>>
  BY <1>u DEF inventoryVars, hookVars, NoFault, faultVars
<1>2. \A step, kinds : Working(o, step, kinds)' <=> Working(o, step, kinds)
  BY <1>v DEF Working
<1>3. OrderFits(o)'
  <2>0. OrderFits(o)
    BY DEF Own
  <2> QED
    BY <1>v, <1>2, <2>0 DEF OrderFits
<1>4. ASSUME o \notin tainted PROVE Served(o)' /\ Shown(o)'
  <2>0. Served(o) /\ Shown(o)
    BY <1>4 DEF Own
  <2>1. Served(o)'
    BY <1>v, <2>0 DEF Served, PaidEventsOf
  <2>2. Shown(o)'
    BY <1>v, <1>2, <2>0 DEF Shown
  <2> QED
    BY <2>1, <2>2
<1> QED
  BY <1>v, <1>3, <1>4 DEF Own

LEMMA ClockKeepsOwn ==
    ASSUME LInv, NEW o \in Orders, CallFits(o), Own(o), ClockMoves(o)
    PROVE  Own(o)'
<1>v. /\ UNCHANGED <<status, asaasPaymentId, underReview, handler, recorded,
                     tainted, call, asaas, sent>>
      /\ \/ reservation'[o] = reservation[o]
         \/ reservation[o] = "active" /\ reservation'[o] = "expired" /\ call[o] \in CallEnd
  BY DEF ClockMoves, callVars, hookVars, orderVars, CallFits
<1>2. \A step, kinds : Working(o, step, kinds)' <=> Working(o, step, kinds)
  BY <1>v DEF Working
<1>3. OrderFits(o)'
  <2>0. OrderFits(o)
    BY DEF Own
  <2> QED
    BY <1>v, <1>2, <2>0 DEF OrderFits
<1>4. ASSUME o \notin tainted PROVE Served(o)' /\ Shown(o)'
  <2>0. Served(o) /\ Shown(o)
    BY <1>4 DEF Own
  <2>1. Served(o)'
    BY <1>v, <2>0 DEF Served, PaidEventsOf
  <2>2. Shown(o)'
    BY <1>v, <1>2, <2>0 DEF Shown
  <2> QED
    BY <2>1, <2>2
<1> QED
  BY <1>v, <1>3, <1>4 DEF Own

\* What the stock effects of a request do to the order that carries its charge.
LEMMA SettleActsOnItsOrder ==
    ASSUME LInv, ChargesMatch, RowsInv, NEW o \in Orders, OwnReference(o),
           NEW h \in Handlers, Settle(h), handler[h].event.order = o,
           asaasPaymentId[o] = ChargeId(o), reservation[o] # "none"
    PROVE  LET kind == handler[h].event.kind
           IN  /\ kind \in PaidKinds =>
                     \/ /\ reservation[o] = "active" /\ reservation'[o] = "confirmed"
                        /\ status'[o] = status[o] /\ underReview' = underReview
                     \/ /\ reservation[o] \in {"released", "expired"}
                        /\ reservation'[o] = reservation[o]
                        /\ status'[o] = "manual_review" /\ o \in underReview'
                     \/ reservation[o] = "confirmed" /\ UNCHANGED inventoryVars
               /\ kind \in CancelKinds =>
                     /\ status'[o] = status[o] /\ underReview' = underReview
                     /\ \/ reservation[o] = "active" /\ reservation'[o] = "released"
                        \/ /\ reservation[o] # "active"
                           /\ reservation'[o] = reservation[o]
               /\ kind = "PAYMENT_REFUNDED" =>
                     /\ o \in underReview'
                     /\ reservation'[o] = reservation[o] /\ status'[o] = status[o]
               /\ kind = "PAYMENT_CREATED" => UNCHANGED inventoryVars
<1> DEFINE kind == handler[h].event.kind
<1> DEFINE p == ChargeId(o)
<1>t. /\ InventoryTypeOK
      /\ DOMAIN reservation = Orders /\ DOMAIN status = Orders
      /\ reservation[o] \in ReservationStatus
  BY DEF LInv, IInv, InventoryTypeOK
<1>o. \A x \in Orders : asaasPaymentId[x] = p => x = o
  BY OwnCharge
<1>k. /\ kind \in PaidKinds => ConfirmSale(p)
      /\ kind \in CancelKinds => ReleaseForPayment(p)
      /\ kind = "PAYMENT_REFUNDED" => MarkRefundReview(p)
      /\ kind = "PAYMENT_CREATED" => UNCHANGED inventoryVars
  BY DEF Settle, PaidKinds, CancelKinds
<1> HIDE DEF p, kind
<1>1. ASSUME kind \in PaidKinds
      PROVE  \/ /\ reservation[o] = "active" /\ reservation'[o] = "confirmed"
                /\ status'[o] = status[o] /\ underReview' = underReview
             \/ /\ reservation[o] \in {"released", "expired"}
                /\ reservation'[o] = reservation[o]
                /\ status'[o] = "manual_review" /\ o \in underReview'
             \/ reservation[o] = "confirmed" /\ UNCHANGED inventoryVars
  <2>1. LatestReservation(o, p)
    <3>1. PICK i \in DOMAIN rows : rows[i] = o
      BY DEF RowsInv
    <3>2. rows \in Seq(Orders) /\ \A j \in DOMAIN rows : rows[j] \in Orders
      BY <1>t DEF InventoryTypeOK
    <3>3. \A j \in DOMAIN rows : j # i => rows[j] # o
      BY <3>1 DEF RowsInv
    <3>4. \A j \in DOMAIN rows : j > i => asaasPaymentId[rows[j]] # p
      <4>1. DOMAIN rows \subseteq Int
        BY <3>2
      <4> QED
        BY <1>o, <3>2, <3>3, <4>1
    <3> QED
      BY <3>1, <3>4 DEF LatestReservation, p
  <2>2. \A x \in Orders : LatestReservation(x, p) => x = o
    BY <1>o DEF LatestReservation
  <2>3. \/ CommitHold(o) \/ FlagLatePayment(o)
        \/ reservation[o] = "confirmed" /\ UNCHANGED inventoryVars
    BY <1>1, <1>k, <2>1, <2>2 DEF ConfirmSale
  <2> QED
    BY <1>t, <2>3 DEF CommitHold, FlagLatePayment, orderVars
<1>2. ASSUME kind \in CancelKinds
      PROVE  /\ status'[o] = status[o] /\ underReview' = underReview
             /\ \/ reservation[o] = "active" /\ reservation'[o] = "released"
                \/ reservation[o] # "active" /\ reservation'[o] = reservation[o]
  <2>1. \/ Release(o)
        \/ reservation[o] # "active" /\ UNCHANGED inventoryVars
    BY <1>2, <1>k, <1>o DEF ReleaseForPayment, p
  <2> QED
    BY <1>t, <2>1 DEF Release, CloseHold, orderVars, inventoryVars
<1>3. ASSUME kind = "PAYMENT_REFUNDED"
      PROVE  /\ o \in underReview'
             /\ reservation'[o] = reservation[o] /\ status'[o] = status[o]
  BY <1>3, <1>k, <1>o DEF MarkRefundReview, orderVars, p
<1> QED
  BY <1>1, <1>2, <1>3, <1>k DEF kind

\* A request that takes up a step loses its place at the one before.
LEMMA WorkingAfter ==
    ASSUME LifecycleTypeOK, NEW o, NEW h \in Handlers, Of(h, o),
           NEW next \in HandlerStep, Continue(h, next)
    PROVE  /\ handler'[h].step = next /\ handler'[h].event = handler[h].event
           /\ \A g \in Handlers \ {h} : handler'[g] = handler[g]
           /\ \A step, kinds :
                 /\ step # next => (Working(o, step, kinds)' => Working(o, step, kinds))
                 /\ ~ (step = handler[h].step /\ handler[h].event.kind \in kinds)
                       => (Working(o, step, kinds) => Working(o, step, kinds)')
                 /\ handler[h].event.kind \notin kinds
                       => (Working(o, step, kinds)' => Working(o, step, kinds))
                 /\ step = next /\ handler[h].event.kind \in kinds
                       => Working(o, step, kinds)'
<1>1. handler[h] # Idle
  BY DEF Of
<1>2. handler' = [handler EXCEPT ![h] = [step |-> next, event |-> handler[h].event]]
  BY <1>1, ContinueMoves
<1>3. /\ handler'[h].step = next /\ handler'[h].event = handler[h].event
      /\ \A g \in Handlers \ {h} : handler'[g] = handler[g]
  BY <1>2 DEF LifecycleTypeOK
<1>4. handler[h].event.order = o
  BY DEF Of
<1> QED
  BY <1>3, <1>4 DEF Working

\* A linked order that no fault has touched carries its charge once a request
\* has attached it.
LEMMA AttachFinds ==
    ASSUME LInv, RowsInv, NEW o \in Orders, OwnReference(o), OrderFits(o),
           NEW h \in Handlers, Of(h, o), Attach(h)
    PROVE  /\ asaasPaymentId'[o] \in {asaasPaymentId[o], ChargeId(o)}
           /\ o \notin tainted /\ call[o] = "linked" => asaasPaymentId'[o] = ChargeId(o)
<1>1. handler[h].event.order = o
  BY DEF Of
<1>2. asaasPaymentId'[o] = IF LatestCardOrder(o, o) /\ status[o] # "paid"
                           THEN ChargeId(o) ELSE asaasPaymentId[o]
  BY <1>1 DEF Attach
<1>3. ASSUME o \in CardOrders, call[o] = "linked" PROVE LatestCardOrder(o, o)
  <2>1. PICK i \in DOMAIN created : created[i] = o
    BY <1>3 DEF RowsInv
  <2>2. created \in Seq(Orders) /\ \A j \in DOMAIN created : created[j] \in Orders
    BY DEF LInv, LifecycleTypeOK
  <2>3. \A j \in DOMAIN created : j # i => created[j] # o
    BY <2>1 DEF RowsInv
  <2>4. DOMAIN created \subseteq Int
    BY <2>2
  <2>5. \A j \in DOMAIN created : j > i => LeadRef[created[j]] # LeadRef[o]
    BY <1>3, <2>2, <2>3, <2>4 DEF OwnReference, MayCarry
  <2> QED
    BY <1>3, <2>1, <2>5 DEF LatestCardOrder
<1>4. ASSUME o \notin tainted, call[o] = "linked"
      PROVE  asaasPaymentId'[o] = ChargeId(o)
  <2>1. CASE o \in CardOrders
    BY <1>2, <1>3, <1>4, <2>1 DEF OrderFits
  <2>2. CASE o \notin CardOrders
    BY <1>2, <1>4, <2>2 DEF OrderFits
  <2> QED
    BY <2>1, <2>2
<1> QED
  BY <1>2, <1>4

LEMMA HookKeepsOwn ==
    ASSUME LInv, EventInv, SaleHasPaidEvent, ChargesMatch, RowsInv,
           NEW o \in Orders, OwnReference(o), CallFits(o), Own(o), HookMoves(o)
    PROVE  Own(o)'
<1>t. /\ InventoryTypeOK /\ LifecycleTypeOK
      /\ DOMAIN handler = Handlers /\ DOMAIN asaasPaymentId = Orders
      /\ EventKinds \subseteq PaidKinds \cup CancelKinds \cup
            {"PAYMENT_CREATED", "PAYMENT_REFUNDED"}
  BY LifecycleAssumption DEF LInv, IInv, LifecycleTypeOK, InventoryTypeOK
<1>o. CallFits(o) /\ OrderFits(o)
  BY DEF Own
<1>c. UNCHANGED <<call, created, asaas, sent>> /\ tainted \subseteq tainted'
  BY RequestsLeaveTheCall DEF HookMoves
<1>s. o \notin tainted' => Served(o) /\ Shown(o)
  BY <1>c DEF Own
<1>1. ASSUME NEW h \in Handlers, NEW e \in Events, e.order = o, RecordEvent(h, e)
      PROVE  Own(o)'
  <2>1. /\ handler[h] = Idle /\ recorded' = recorded \cup {e}
        /\ handler'[h].step = "recorded" /\ handler'[h].event = e
        /\ \A g \in Handlers \ {h} : handler'[g] = handler[g]
        /\ UNCHANGED inventoryVars /\ NoFault
    BY <1>1, <1>t DEF RecordEvent
  <2>2. UNCHANGED <<status, asaasPaymentId, reservation, underReview, tainted>>
    BY <2>1 DEF inventoryVars, NoFault, faultVars
  <2>3. \A step \in {"attached", "synced"} : \A kinds :
           Working(o, step, kinds)' <=> Working(o, step, kinds)
    BY <2>1 DEF Working, Idle
  <2>4. OrderFits(o)'
    BY <1>c, <1>o, <2>2, <2>3 DEF OrderFits
  <2>5. ASSUME o \notin tainted' PROVE Served(o)'
    <3>1. \A d \in PaidEventsOf(o)' : d = e \/ d \in PaidEventsOf(o)
      BY <2>1 DEF PaidEventsOf
    <3>2. \A g \in Handlers :
             handler[g].step \in {"recorded", "attached", "synced"}
                => handler'[g] = handler[g]
      BY <2>1 DEF Idle
    <3> QED
      BY <1>s, <2>1, <2>2, <2>5, <3>1, <3>2 DEF Served
  <2>6. ASSUME o \notin tainted' PROVE Shown(o)'
    BY <1>s, <2>2, <2>3, <2>6 DEF Shown
  <2> QED
    BY <1>c, <2>4, <2>5, <2>6 DEF Own
<1>2. ASSUME NEW h \in Handlers, Of(h, o), Attach(h) PROVE Own(o)'
  <2>1. /\ handler[h].step = "recorded" /\ Continue(h, "attached")
        /\ UNCHANGED <<status, reservation, underReview, tainted, recorded>>
    BY <1>2 DEF Attach, At, stockVars, NoFault, faultVars
  <2>2. /\ handler'[h].step = "attached" /\ handler'[h].event = handler[h].event
        /\ \A g \in Handlers \ {h} : handler'[g] = handler[g]
    BY <1>2, <1>t, <2>1, WorkingAfter DEF HandlerStep
  <2>3. \A kinds : Working(o, "synced", kinds)' <=> Working(o, "synced", kinds)
    BY <2>1, <2>2 DEF Working
  <2>4. /\ asaasPaymentId'[o] \in {asaasPaymentId[o], ChargeId(o)}
        /\ o \notin tainted /\ call[o] = "linked" => asaasPaymentId'[o] = ChargeId(o)
    BY <1>2, <1>o, AttachFinds
  <2>5. OrderFits(o)'
    BY <1>c, <1>o, <2>1, <2>4 DEF OrderFits
  <2>6. ASSUME o \notin tainted' PROVE Served(o)'
    <3>1. Served(o) /\ PaidEventsOf(o)' = PaidEventsOf(o)
      BY <1>s, <2>1, <2>6 DEF PaidEventsOf
    <3> QED
      BY <2>1, <2>2, <3>1 DEF Served
  <2>7. ASSUME o \notin tainted' PROVE Shown(o)'
    BY <1>s, <2>1, <2>3, <2>7 DEF Shown
  <2> QED
    BY <1>c, <2>5, <2>6, <2>7 DEF Own
<1>3. ASSUME NEW h \in Handlers, Of(h, o), SyncStatus(h) PROVE Own(o)'
  <2> DEFINE kind == handler[h].event.kind
  <2>1. /\ handler[h].step = "attached" /\ Continue(h, "synced")
        /\ handler[h].event.order = o
        /\ UNCHANGED <<asaasPaymentId, reservation, underReview, tainted, recorded>>
    BY <1>3 DEF SyncStatus, At, stockVars, NoFault, faultVars, Of
  <2>2. /\ handler'[h].step = "synced" /\ handler'[h].event = handler[h].event
        /\ \A g \in Handlers \ {h} : handler'[g] = handler[g]
    BY <1>3, <1>t, <2>1, WorkingAfter DEF HandlerStep
  <2>3. /\ \A kinds : Working(o, "synced", kinds) => Working(o, "synced", kinds)'
        /\ \A kinds : kind \notin kinds
              => (Working(o, "synced", kinds)' => Working(o, "synced", kinds))
        /\ \A kinds : kind \in kinds => Working(o, "synced", kinds)'
        /\ \A kinds : Working(o, "attached", kinds)' => Working(o, "attached", kinds)
    BY <2>1, <2>2 DEF Working
  <2>4. status'[o] = IF asaasPaymentId[o] = ChargeId(o) THEN Synced(kind, status[o])
                     ELSE status[o]
    BY <1>3, <2>1 DEF SyncStatus
  <2>k. /\ handler[h].event \in Events /\ kind \in EventKinds
        /\ handler[h].event \in recorded
    BY <1>3, <1>t, HandlerEvent DEF Of, EventInv
  <2>5. Working(o, "attached", EventKinds)
    BY <2>1, <2>k DEF Working
  <2>6. OrderFits(o)'
    <3>1. status'[o] \in {"paid", "refunded", "cancelled"}
             => asaasPaymentId'[o] = ChargeId(o)
      BY <1>o, <2>1, <2>4 DEF OrderFits
    <3>2. status'[o] = "manual_review" => status[o] = "manual_review"
      BY <2>4 DEF Synced
    <3>3. o \notin tainted /\ call[o] = "linked" => asaasPaymentId[o] = ChargeId(o)
      BY <1>o, <2>5 DEF OrderFits
    <3> QED
      BY <1>c, <1>o, <2>1, <3>1, <3>2, <3>3 DEF OrderFits
  <2>7. ASSUME o \notin tainted' PROVE Served(o)'
    <3>1. Served(o) /\ PaidEventsOf(o)' = PaidEventsOf(o)
      BY <1>s, <2>1, <2>7 DEF PaidEventsOf
    <3> QED
      BY <2>1, <2>2, <3>1 DEF Served
  <2>8. ASSUME o \notin tainted' PROVE Shown(o)'
    <3>0. Shown(o)
      BY <1>s, <2>8
    <3>1. CASE kind \in PaidKinds
      <4>1. call[o] = "linked"
        BY <1>o, <2>1, <2>k, <3>1, PaidIsLinked
      <4>2. asaasPaymentId[o] = ChargeId(o)
        BY <1>c, <1>o, <2>5, <2>8, <4>1 DEF OrderFits
      <4>3. status'[o] = "paid"
        BY <2>4, <3>1, <4>2 DEF Synced, PaidKinds, CancelKinds
      <4> QED
        BY <2>3, <3>1, <4>3 DEF Shown
    <3>2. CASE kind = "PAYMENT_REFUNDED"
      <4>1. call[o] = "linked"
        BY <1>o, <2>1, <2>k, <3>2, PaidIsLinked
      <4>2. asaasPaymentId[o] = ChargeId(o)
        BY <1>c, <1>o, <2>5, <2>8, <4>1 DEF OrderFits
      <4>3. status'[o] = "refunded"
        BY <2>4, <3>2, <4>2 DEF Synced, PaidKinds, CancelKinds
      <4> QED
        BY <2>3, <3>2, <4>3 DEF Shown
    <3>3. CASE kind \in CancelKinds
      <4>1. kind \notin PaidKinds /\ kind # "PAYMENT_REFUNDED"
        BY <3>3 DEF CancelKinds, PaidKinds
      <4>2. CASE status'[o] = status[o]
        BY <2>1, <2>3, <3>0, <4>1, <4>2 DEF Shown
      <4>3. CASE status[o] # "paid" /\ status'[o] = "cancelled"
        BY <2>1, <2>3, <3>0, <3>3, <4>1, <4>3 DEF Shown
      <4> QED
        BY <2>4, <3>3, <4>1, <4>2, <4>3 DEF Synced
    <3>4. CASE kind = "PAYMENT_CREATED"
      <4>1. kind \notin PaidKinds \cup CancelKinds \cup {"PAYMENT_REFUNDED"}
        BY <3>4 DEF PaidKinds, CancelKinds
      <4>2. status'[o] = status[o]
        BY <2>4, <4>1 DEF Synced
      <4> QED
        BY <2>1, <2>3, <3>0, <4>1, <4>2 DEF Shown
    <3> QED
      BY <1>t, <2>k, <3>1, <3>2, <3>3, <3>4
  <2> QED
    BY <1>c, <2>6, <2>7, <2>8 DEF Own
<1>4. ASSUME NEW h \in Handlers, Of(h, o), Settle(h) PROVE Own(o)'
  <2> DEFINE kind == handler[h].event.kind
  <2>1. /\ handler[h].step = "synced" /\ Continue(h, "settled")
        /\ handler[h].event.order = o
        /\ UNCHANGED <<tainted, recorded>>
    BY <1>4 DEF Settle, At, NoFault, faultVars, Of
  <2>2. /\ handler'[h].step = "settled" /\ handler'[h].event = handler[h].event
        /\ \A g \in Handlers \ {h} : handler'[g] = handler[g]
    BY <1>4, <1>t, <2>1, WorkingAfter DEF HandlerStep
  <2>3. /\ \A step \in {"attached", "synced"} : \A kinds :
              Working(o, step, kinds)' => Working(o, step, kinds)
        /\ \A kinds : kind \notin kinds
              => (Working(o, "synced", kinds) => Working(o, "synced", kinds)')
        /\ \A kinds : kind \in kinds => Working(o, "synced", kinds)
    BY <2>1, <2>2 DEF Working
  <2>k. /\ handler[h].event \in Events /\ kind \in EventKinds
        /\ handler[h].event \in recorded
    BY <1>4, <1>t, HandlerEvent DEF Of, EventInv
  <2>4. asaas[o] # "none" /\ reservation[o] # "none"
    BY <1>4, <1>o, PaidIsLinked DEF CallFits
  <2>5. UNCHANGED asaasPaymentId
    BY <1>4
    DEF Settle, ConfirmSale, CommitHold, FlagLatePayment, ReleaseForPayment,
        Release, CloseHold, MarkRefundReview, inventoryVars, orderVars
  <2>6. CASE asaasPaymentId[o] # ChargeId(o)
    <3>1. \/ UNCHANGED inventoryVars
          \/ \E p : /\ p = ChargeId(o)
                    /\ ConfirmSale(p) \/ ReleaseForPayment(p) \/ MarkRefundReview(p)
      BY <1>4, <2>1 DEF Settle
    <3>2. /\ reservation'[o] = reservation[o] /\ status'[o] = status[o]
          /\ o \in underReview => o \in underReview'
      BY <1>t, <2>6, <3>1, PaymentStaysWithItsOrder DEF inventoryVars
    <3>3. OrderFits(o)'
      BY <1>c, <1>o, <2>1, <2>3, <2>5, <3>2 DEF OrderFits
    <3>4. ASSUME o \notin tainted'
          PROVE  kind \notin PaidKinds \cup {"PAYMENT_REFUNDED"}
      <4>1. Working(o, "synced", EventKinds)
        BY <2>3, <2>k
      <4>2. call[o] # "linked"
        BY <1>c, <1>o, <2>6, <3>4, <4>1 DEF OrderFits
      <4> QED
        BY <1>o, <2>1, <2>k, <4>2, PaidIsLinked
    <3>5. ASSUME o \notin tainted' PROVE Served(o)'
      <4>1. Served(o) /\ PaidEventsOf(o)' = PaidEventsOf(o)
        BY <1>s, <2>1, <3>5 DEF PaidEventsOf
      <4>2. \A e \in PaidEventsOf(o) : e # handler[h].event
        BY <3>4, <3>5 DEF PaidEventsOf
      <4> QED
        BY <2>2, <3>2, <4>1, <4>2 DEF Served
    <3>6. ASSUME o \notin tainted' PROVE Shown(o)'
      <4>1. Shown(o) /\ status[o] # "cancelled"
        BY <1>o, <1>s, <2>6, <3>6 DEF OrderFits
      <4> QED
        BY <2>3, <3>2, <3>4, <3>6, <4>1 DEF Shown
    <3> QED
      BY <1>c, <3>3, <3>5, <3>6 DEF Own
  <2>7. CASE asaasPaymentId[o] = ChargeId(o)
    <3>a. /\ kind \in PaidKinds =>
                \/ /\ reservation[o] = "active" /\ reservation'[o] = "confirmed"
                   /\ status'[o] = status[o] /\ underReview' = underReview
                \/ /\ reservation[o] \in {"released", "expired"}
                   /\ reservation'[o] = reservation[o]
                   /\ status'[o] = "manual_review" /\ o \in underReview'
                \/ /\ reservation[o] = "confirmed" /\ reservation'[o] = "confirmed"
                   /\ status'[o] = status[o] /\ underReview' = underReview
          /\ kind \in CancelKinds =>
                /\ status'[o] = status[o] /\ underReview' = underReview
                /\ \/ reservation[o] = "active" /\ reservation'[o] = "released"
                   \/ /\ reservation[o] # "active"
                      /\ reservation'[o] = reservation[o]
          /\ kind = "PAYMENT_REFUNDED" =>
                /\ o \in underReview'
                /\ reservation'[o] = reservation[o] /\ status'[o] = status[o]
          /\ kind = "PAYMENT_CREATED" =>
                /\ reservation'[o] = reservation[o] /\ status'[o] = status[o]
                /\ underReview' = underReview
      BY <1>4, <2>1, <2>4, <2>7, SettleActsOnItsOrder DEF inventoryVars
    <3>k. \/ kind \in PaidKinds
             /\ kind \notin CancelKinds \cup {"PAYMENT_REFUNDED", "PAYMENT_CREATED"}
          \/ kind \in CancelKinds
             /\ kind \notin PaidKinds \cup {"PAYMENT_REFUNDED", "PAYMENT_CREATED"}
          \/ kind = "PAYMENT_REFUNDED" /\ kind \notin PaidKinds \cup CancelKinds
          \/ kind = "PAYMENT_CREATED" /\ kind \notin PaidKinds \cup CancelKinds
      BY <1>t, <2>k DEF PaidKinds, CancelKinds
    <3>1. OrderFits(o)'
      <4>1. status'[o] = "manual_review"
               => reservation'[o] \in {"released", "expired"} /\ o \in underReview'
        BY <1>o, <3>a, <3>k DEF OrderFits
      <4> QED
        BY <2>5, <2>7, <4>1 DEF OrderFits
    <3>2. ASSUME o \notin tainted' PROVE Served(o)'
      <4>1. Served(o) /\ PaidEventsOf(o)' = PaidEventsOf(o)
        BY <1>s, <2>1, <3>2 DEF PaidEventsOf
      <4>2. CASE kind \in PaidKinds
        BY <3>a, <4>2 DEF Served
      <4>3. CASE kind \notin PaidKinds
        <5>1. /\ reservation[o] = "confirmed" => reservation'[o] = "confirmed"
              /\ o \in underReview => o \in underReview'
              /\ reservation[o] \in {"released", "expired"}
                    => reservation'[o] = reservation[o]
          BY <3>a, <3>k, <4>3
        <5>2. \A e \in PaidEventsOf(o) : e # handler[h].event
          BY <4>3 DEF PaidEventsOf
        <5> QED
          BY <2>2, <4>1, <5>1, <5>2 DEF Served
      <4> QED
        BY <4>2, <4>3
    <3>3. ASSUME o \notin tainted' PROVE Shown(o)'
      <4>0. Shown(o)
        BY <1>s, <3>3
      <4>1. CASE kind \in PaidKinds
        BY <2>3, <3>a, <3>k, <4>0, <4>1 DEF Shown
      <4>2. CASE kind \in CancelKinds
        <5>1. /\ status'[o] = status[o] /\ underReview' = underReview
              /\ reservation'[o] = "confirmed" <=> reservation[o] = "confirmed"
              /\ reservation'[o] \in {"confirmed", "released", "expired"}
          BY <1>t, <2>4, <3>a, <4>2 DEF InventoryTypeOK, ReservationStatus
        <5>2. /\ Working(o, "synced", PaidKinds)' <=> Working(o, "synced", PaidKinds)
              /\ Working(o, "synced", {"PAYMENT_REFUNDED"})'
                    <=> Working(o, "synced", {"PAYMENT_REFUNDED"})
          BY <2>3, <3>k, <4>2
        <5>3. Working(o, "synced", {"PAYMENT_REFUNDED"})'
                 => Working(o, "synced", CancelKinds \cup {"PAYMENT_REFUNDED"})'
          BY DEF Working
        <5>4. status'[o] = "cancelled"
                 => \/ reservation'[o] \in {"released", "expired"}
                    \/ o \in underReview'
                    \/ Working(o, "synced", CancelKinds \cup {"PAYMENT_REFUNDED"})'
          BY <4>0, <5>1, <5>2, <5>3 DEF Shown
        <5> QED
          BY <4>0, <5>1, <5>2, <5>4 DEF Shown
      <4>3. CASE kind = "PAYMENT_REFUNDED"
        BY <2>3, <3>a, <3>k, <4>0, <4>3 DEF Shown
      <4>4. CASE kind = "PAYMENT_CREATED"
        BY <2>3, <3>a, <3>k, <4>0, <4>4 DEF Shown
      <4> QED
        BY <3>k, <4>1, <4>2, <4>3, <4>4
    <3> QED
      BY <1>c, <3>1, <3>2, <3>3 DEF Own
  <2> QED
    BY <2>6, <2>7
<1>5. ASSUME NEW h \in Handlers, Of(h, o), Book(h) PROVE Own(o)'
  <2>1. /\ handler[h].step = "settled" /\ handler'[h] = Idle
        /\ \A g \in Handlers \ {h} : handler'[g] = handler[g]
        /\ UNCHANGED inventoryVars /\ NoFault /\ UNCHANGED recorded
    BY <1>5, <1>t DEF Book, At
  <2>2. UNCHANGED <<status, asaasPaymentId, reservation, underReview, tainted>>
    BY <2>1 DEF inventoryVars, NoFault, faultVars
  <2>3. \A step \in {"attached", "synced"} : \A kinds :
           Working(o, step, kinds)' <=> Working(o, step, kinds)
    BY <2>1 DEF Working, Idle
  <2>4. OrderFits(o)'
    BY <1>c, <1>o, <2>2, <2>3 DEF OrderFits
  <2>5. ASSUME o \notin tainted' PROVE Served(o)' /\ Shown(o)'
    <3>1. Served(o) /\ PaidEventsOf(o)' = PaidEventsOf(o)
      BY <1>s, <2>1, <2>5 DEF PaidEventsOf
    <3>2. Served(o)'
      BY <2>1, <2>2, <3>1 DEF Served
    <3>3. Shown(o)'
      BY <1>s, <2>2, <2>3, <2>5 DEF Shown
    <3> QED
      BY <3>2, <3>3
  <2> QED
    BY <1>c, <2>4, <2>5 DEF Own
<1>6. ASSUME NEW h \in Handlers, Of(h, o), SettleFails(h) \/ HandlerDies(h)
      PROVE  Own(o)'
  <2>1. /\ o \in tainted'
        /\ UNCHANGED <<status, asaasPaymentId, reservation>>
        /\ underReview' = underReview
    BY <1>6 DEF SettleFails, HandlerDies, FaultOn, Of, inventoryVars
  <2>2. OrderFits(o)'
    BY <1>o, <2>1 DEF OrderFits
  <2> QED
    BY <1>c, <2>1, <2>2 DEF Own
<1> QED
  BY <1>1, <1>2, <1>3, <1>4, <1>5, <1>6 DEF HookMoves, HandlerProceeds

-----------------------------------------------------------------------------
(* Theorems about an order, its money and its stock *)

LEMMA StepPreservesOwnInv ==
    ASSUME LInv, LInv', EventInv, SaleHasPaidEvent, ChargesMatch, RowsInv, CallsFit,
           OwnInv, [Next]_vars
    PROVE  OwnInv'
<1> SUFFICES ASSUME NEW o \in Orders, OwnReference(o) PROVE Own(o)'
  BY DEF OwnInv, OwnReference, MayCarry
<1>1. Own(o) /\ CallFits(o)
  BY DEF OwnInv, CallsFit
<1>2. CASE Elsewhere(o)
  BY <1>1, <1>2, ElsewhereKeepsOwn
<1>3. CASE CallMoves(o)
  BY <1>1, <1>3, CallKeepsOwn
<1>4. CASE CustomerMoves(o)
  BY <1>1, <1>4, CustomerKeepsOwn
<1>5. CASE ClockMoves(o)
  BY <1>1, <1>5, ClockKeepsOwn
<1>6. CASE HookMoves(o)
  BY <1>1, <1>6, HookKeepsOwn
<1>7. ~ StrangerMoves(o)
  <2>1. \A h \in Handlers : handler[h] # Idle => handler[h].event.order \in Orders
    BY HandlerEvent DEF LInv
  <2> QED
    BY <2>1 DEF StrangerMoves, OwnReference
<1> QED
  BY <1>2, <1>3, <1>4, <1>5, <1>6, <1>7, EveryStepMovesOrLeaves

\* What the theorems below share.
FullInv ==
    /\ LInv /\ EventInv /\ ChargesMatch /\ SaleHasPaidEvent
    /\ RowsInv /\ CallsFit /\ OwnInv

LEMMA FullInvIsInvariant == Spec => []FullInv
<1>1. ASSUME Init PROVE RowsInv /\ CallsFit /\ OwnInv
  <2>1. RowsInv
    BY <1>1 DEF Init, InventoryInit, RowsInv
  <2>2. CallsFit
    BY <1>1 DEF Init, InventoryInit, CallsFit, CallFits
  <2>3. ASSUME NEW o \in Orders PROVE Own(o)
    <3>1. \A step \in {"attached", "synced"} : \A kinds : ~ Working(o, step, kinds)
      BY <1>1 DEF Init, Working, Idle
    <3>2. OrderFits(o)
      BY <1>1, <3>1 DEF Init, InventoryInit, OrderFits
    <3>3. Served(o)
      BY <1>1 DEF Init, Served, PaidEventsOf
    <3>4. Shown(o)
      BY <1>1, <3>1 DEF Init, InventoryInit, Shown
    <3> QED
      BY <3>2, <3>3, <3>4 DEF Own
  <2> QED
    BY <2>1, <2>2, <2>3 DEF OwnInv
<1>2. LInv /\ RowsInv /\ [Next]_vars => RowsInv'
  BY StepPreservesRowsInv
<1>3. LInv /\ LInv' /\ EventInv /\ ChargesMatch /\ CallsFit /\ [Next]_vars => CallsFit'
  BY StepPreservesCallsFit
<1>4. LInv /\ LInv' /\ EventInv /\ ChargesMatch /\ SaleHasPaidEvent /\ RowsInv
      /\ CallsFit /\ OwnInv /\ [Next]_vars => OwnInv'
  BY StepPreservesOwnInv
<1> QED
  BY <1>1, <1>2, <1>3, <1>4, SaleInvIsInvariant, SalesHavePaidEvents, PTL
  DEF Spec, FullInv, SaleInv

\* No charge is ever created without the order's own hold being open, whatever the
\* webhook, the sweep and faults do meanwhile, but for an order whose hold the
\* charge of another one with its reference has closed.
THEOREM ChargesNeedTheirHold == Spec => ChargeNeedsHold
<1>1. FullInv /\ [Next]_vars
        => [\A o \in Orders :
               asaas[o] = "none" /\ asaas'[o] # "none" =>
                  \/ reservation[o] = "active"
                  \/ ~ OwnReference(o) /\ reservation[o] \in {"confirmed", "released"}]_vars
  <2> SUFFICES ASSUME FullInv, [Next]_vars, NEW o \in Orders,
                      asaas[o] = "none", asaas'[o] # "none"
               PROVE  \/ reservation[o] = "active"
                      \/ /\ ~ OwnReference(o)
                         /\ reservation[o] \in {"confirmed", "released"}
    OBVIOUS
  <2>1. CallFits(o) /\ DOMAIN asaas = Orders
    BY DEF FullInv, CallsFit, LInv, LifecycleTypeOK
  <2>2. ASSUME NEW x \in Orders, MoneyStep(x) PROVE AsaasCreates(o)
    BY <2>1, <2>2 DEF MoneyStep, AsaasCreates, Pay, Refund, Delete
  <2>3. AsaasCreates(o)
    BY <2>2, MoneyAndReviewMoveAlone DEF FullInv
  <2>4. OpenOrTaken(o)
    BY <2>1, <2>3 DEF AsaasCreates, CallFits
  <2> QED
    BY <2>4, OwnHold DEF OpenOrTaken
<1> QED
  BY <1>1, FullInvIsInvariant, PTL DEF Spec, ChargeNeedsHold

\* A payment whose handling no fault has hit is never lost: its units are sold or a
\* human is asked to look, whatever its event overtakes or is overtaken by, for
\* every order whose reference is its own.
THEOREM PaymentsAreServedOrFlagged == Spec => []PaymentServedOrFlagged
<1>1. FullInv => PaymentServedOrFlagged
  <2> SUFFICES ASSUME FullInv, NEW o \in Orders \ tainted, NEW e \in PaidEventsOf(o),
                      OwnReference(o), ~ InFlight(e)
               PROVE  \/ reservation[o] = "confirmed"
                      \/ reservation[o] \in {"released", "expired"} /\ o \in underReview
    BY DEF PaymentServedOrFlagged
  <2>1. Served(o)
    BY DEF FullInv, OwnInv, Own
  <2>2. \A h \in Handlers :
           ~ (/\ handler[h].step \in {"recorded", "attached", "synced"}
              /\ handler[h].event = e)
    BY DEF InFlight, Idle
  <2> QED
    BY <2>1, <2>2 DEF Served
<1> QED
  BY <1>1, FullInvIsInvariant, PTL

\* The status of an order that no fault has hit and that has its reference for
\* itself says what became of its stock, once no request is at work on it: any
\* number of requests may have written status and stock in any order.
THEOREM StatusesMatchTheStock == Spec => []StatusMatchesStock
<1>1. FullInv => StatusMatchesStock
  <2> SUFFICES ASSUME FullInv, NEW o \in Orders \ tainted, OwnReference(o), Quiet(o)
               PROVE  /\ status[o] = "paid" => reservation[o] = "confirmed"
                      /\ reservation[o] = "confirmed"
                            => status[o] = "paid" \/ o \in underReview
                      /\ status[o] = "refunded" => o \in underReview
                      /\ status[o] = "cancelled" =>
                            reservation[o] \in {"released", "expired"} \/ o \in underReview
                      /\ status[o] = "manual_review" =>
                            reservation[o] \in {"released", "expired"} /\ o \in underReview
    BY DEF StatusMatchesStock
  <2>1. Shown(o) /\ OrderFits(o)
    BY DEF FullInv, OwnInv, Own
  <2>2. \A kinds : ~ Working(o, "synced", kinds)
    BY DEF Quiet, Working, Idle
  <2> QED
    BY <2>1, <2>2 DEF Shown, OrderFits
<1> QED
  BY <1>1, FullInvIsInvariant, PTL

-----------------------------------------------------------------------------
(* Goods against money: OrderLifecycle implements SalesPromises *)

\* SalesPromises sees the stock through the same promises as Inventory.
LEMMA SalesSeesThePromises ==
    /\ \A o : /\ Promises!SetAside(o) => Sales!SetAside(o)
              /\ Promises!Keep(o) => Sales!Keep(o)
              /\ Promises!GiveUp(o) => Sales!GiveUp(o)
    /\ Promises!Recount => Sales!Recount
<1>1. Sales!Promised = Promises!Promised
  BY DEF Sales!Promised, Promises!Promised, Sales!With, Promises!With
<1>2. \A S : Sales!UnitCount(S) = Promises!UnitCount(S)
  BY DEF Sales!UnitCount, Sales!UnitsOf, Sales!Cardinality, Promises!UnitCount,
         Promises!UnitsOf, Promises!Cardinality
<1> QED
  BY <1>1, <1>2
  DEF Sales!SetAside, Promises!SetAside, Sales!Keep, Promises!Keep, Sales!GiveUp,
      Promises!GiveUp, Sales!Recount, Promises!Recount

LEMMA MoneyStepKeepsSales ==
    ASSUME LInv, NEW o \in Orders, CallFits(o), MoneyStep(o)
    PROVE  Sales!SalesNext
<1>1. UNCHANGED <<onHand, promiseOf, underReview>>
  BY DEF MoneyStep, AsaasCreates, Pay, Refund, Delete, inventoryVars, promiseOf
<1>2. CASE AsaasCreates(o)
  <2>1. OpenOrTaken(o) /\ asaas[o] = "none"
    BY <1>2 DEF AsaasCreates, CallFits
  <2>2. \/ promiseOf[o] = "held"
        \/ promiseOf[o] # "never" /\ \E x \in moneyFor[o] \ {o} : asaas[x] # "none"
    BY <2>1 DEF OpenOrTaken, promiseOf, moneyFor
  <2> QED
    BY <1>1, <1>2, <2>1, <2>2
    DEF AsaasCreates, Sales!SalesNext, Sales!Ask, Sales!MoneyMoves
<1>3. CASE Pay(o)
  BY <1>1, <1>3 DEF Pay, Sales!SalesNext, Sales!Receive, Sales!MoneyMoves
<1>4. CASE Refund(o)
  BY <1>1, <1>4 DEF Refund, Sales!SalesNext, Sales!GiveBack, Sales!MoneyMoves
<1>5. CASE Delete(o)
  BY <1>1, <1>5 DEF Delete, Sales!SalesNext, Sales!Waive, Sales!MoneyMoves
<1> QED
  BY <1>2, <1>3, <1>4, <1>5 DEF MoneyStep

\* The event a request settles tells the truth about the money of its order.
LEMMA SettledMoney ==
    ASSUME LInv, EventInv, CallsFit, NEW h \in Handlers, At(h, "synced")
    PROVE  LET e == handler[h].event
           IN  /\ e.order \in Orders
               /\ e.kind \in PaidKinds => asaas[e.order] \in {"paid", "refunded"}
               /\ e.kind = "PAYMENT_REFUNDED" => asaas[e.order] = "refunded"
<1>1. handler[h] # Idle
  BY AtIsNotIdle DEF HandlerStep
<1>2. handler[h].event \in sent /\ handler[h].event.order \in Orders
  BY <1>1, HandlerEvent DEF LInv, LifecycleTypeOK, EventInv
<1>3. CallFits(handler[h].event.order)
  BY <1>2 DEF CallsFit
<1> QED
  BY <1>2, <1>3 DEF CallFits

LEMMA SettlingKeepsSales ==
    ASSUME LInv, EventInv, ChargesMatch, CallsFit,
           NEW h \in Handlers, Settle(h), UNCHANGED asaas
    PROVE  \/ Sales!SalesNext
           \/ UNCHANGED <<asaas, underReview>>
<1> DEFINE e == handler[h].event
<1>1. /\ e.order \in Orders
      /\ e.kind \in PaidKinds => asaas[e.order] \in {"paid", "refunded"}
      /\ e.kind = "PAYMENT_REFUNDED" => asaas[e.order] = "refunded"
  BY SettledMoney DEF Settle
<1>2. \A o \in Orders : asaasPaymentId[o] = ChargeId(e.order) => e.order \in moneyFor[o]
  BY <1>1 DEF ChargesMatch, moneyFor
<1> HIDE DEF e
<1>3. ASSUME NEW o \in Orders, FlagLatePayment(o), LatestReservation(o, ChargeId(e.order)),
             e.kind \in PaidKinds
      PROVE  Sales!SalesNext
  <2>1. e.order \in moneyFor[o] /\ asaas[e.order] \in {"paid", "refunded"}
    BY <1>1, <1>2, <1>3 DEF LatestReservation
  <2>2. promiseOf[o] = "void"
    BY <1>3 DEF FlagLatePayment, promiseOf
  <2>3. UNCHANGED <<onHand, promiseOf, asaas>> /\ underReview' = underReview \cup {o}
    BY <1>3 DEF FlagLatePayment, promiseOf
  <2> QED
    BY <2>1, <2>2, <2>3 DEF Sales!SalesNext, Sales!CallHuman
<1>4. ASSUME MarkRefundReview(ChargeId(e.order)), e.kind = "PAYMENT_REFUNDED"
      PROVE  Sales!SalesNext \/ UNCHANGED underReview
  <2>1. UNCHANGED <<onHand, promiseOf, asaas>>
    BY <1>4 DEF MarkRefundReview, promiseOf
  <2>2. \/ UNCHANGED underReview
        \/ \E o \in Orders : /\ e.order \in moneyFor[o]
                              /\ underReview' = underReview \cup {o}
    BY <1>2, <1>4 DEF MarkRefundReview
  <2> QED
    BY <1>1, <1>4, <2>1, <2>2 DEF Sales!SalesNext, Sales!CallHuman
<1>5. \/ e.kind \in PaidKinds /\ ConfirmSale(ChargeId(e.order))
      \/ ReleaseForPayment(ChargeId(e.order)) \/ UNCHANGED inventoryVars
      \/ e.kind = "PAYMENT_REFUNDED" /\ MarkRefundReview(ChargeId(e.order))
  BY DEF Settle, e
<1>6. \/ \E o \in Orders : /\ LatestReservation(o, ChargeId(e.order))
                           /\ FlagLatePayment(o) /\ e.kind \in PaidKinds
      \/ e.kind = "PAYMENT_REFUNDED" /\ MarkRefundReview(ChargeId(e.order))
      \/ UNCHANGED underReview
  BY <1>5
  DEF ConfirmSale, CommitHold, ReleaseForPayment, Release, CloseHold, inventoryVars
<1> QED
  BY <1>3, <1>4, <1>6

\* With the money and the reviews at rest, a step moves a promise or nothing.
LEMMA StockStepKeepsSales ==
    ASSUME LInv, EventInv, ChargesMatch, CallsFit, [Next]_vars,
           UNCHANGED <<asaas, underReview>>
    PROVE  [Sales!SalesNext]_(Sales!salesVars)
<1>1. StockStep
  BY EveryStepUsesInventory, EveryStepIsAStockStep DEF LInv, IInv
<1>2. IInv /\ InventoryTypeOK
  BY DEF LInv, IInv
<1>3. ASSUME NEW o \in Orders, Opens(o) PROVE Sales!SalesNext
  <2>1. asaas[o] = "none"
    BY <1>3 DEF Opens, CallsFit, CallFits
  <2>2. Sales!SetAside(o)
    BY <1>2, <1>3, OpensSetsAside, SalesSeesThePromises
  <2> QED
    BY <2>1, <2>2 DEF Sales!SalesNext, Sales!Offer
<1>4. ASSUME NEW o \in Orders, NEW s \in {"released", "expired"}, Closes(o, s)
      PROVE  Sales!SalesNext
  <2>1. Sales!GiveUp(o)
    BY <1>2, <1>4, ClosesGivesUp, SalesSeesThePromises
  <2> QED
    BY <2>1 DEF Sales!SalesNext, Sales!LetGo
<1>5. ASSUME NEW o \in Orders, Sells(o) PROVE Sales!SalesNext
  <2>1. Sold(o)
    BY <1>2, <1>5 DEF Sells, Sold, InventoryTypeOK
  <2>2. PICK h \in Handlers :
              /\ At(h, "synced")
              /\ handler[h].event.kind \in PaidKinds
              /\ asaasPaymentId[o] = ChargeId(handler[h].event.order)
    BY <1>2, <2>1, OnlyPaymentsSell
  <2>3. /\ handler[h].event.order \in Orders
        /\ asaas[handler[h].event.order] \in {"paid", "refunded"}
    BY <2>2, SettledMoney
  <2>4. handler[h].event.order \in moneyFor[o]
    BY <2>2, <2>3 DEF ChargesMatch, moneyFor
  <2>5. Sales!Keep(o)
    BY <1>2, <1>5, SellsKeepsPromise, SalesSeesThePromises
  <2> QED
    BY <2>3, <2>4, <2>5 DEF Sales!SalesNext, Sales!HandOver
<1>6. ASSUME Recounts PROVE Sales!SalesNext
  <2>1. Sales!Recount
    BY <1>2, <1>6, RecountsRecounts, SalesSeesThePromises
  <2> QED
    BY <2>1 DEF Sales!SalesNext, Sales!Restock
<1>7. ASSUME LeavesStock PROVE UNCHANGED Sales!salesVars
  BY <1>7 DEF LeavesStock, Sales!salesVars, promiseOf
<1> QED
  BY <1>1, <1>3, <1>4, <1>5, <1>6, <1>7 DEF StockStep

\* The whole of call, charge, events, sweep and operator keeps the promises of
\* SalesPromises: for any number of orders, workers, faults and deliveries, money
\* is asked for only while the order's units are held, units go out once and only
\* against money, and no human is called without need.  The money is the order's
\* own; only where a card order shares its reference can it be another's.
THEOREM LifecycleKeepsSalesPromises == Spec => ImplementsSales
<1>1. Init => Sales!SalesInit
  BY InventoryAssumption
  DEF Init, InventoryInit, Sales!SalesInit, Sales!PromiseInit, promiseOf
<1>2. FullInv /\ [Next]_vars => [Sales!SalesNext]_(Sales!salesVars)
  <2> SUFFICES ASSUME FullInv, [Next]_vars
               PROVE  [Sales!SalesNext]_(Sales!salesVars)
    OBVIOUS
  <2>0. LInv /\ EventInv /\ ChargesMatch /\ CallsFit /\ \A o \in Orders : CallFits(o)
    BY DEF FullInv, CallsFit
  <2>1. CASE \E o \in Orders : MoneyStep(o)
    BY <2>0, <2>1, MoneyStepKeepsSales
  <2>2. CASE \E h \in Handlers : Settle(h) /\ UNCHANGED asaas
    BY <2>0, <2>2, SettlingKeepsSales, StockStepKeepsSales
  <2>3. CASE UNCHANGED <<asaas, underReview>>
    BY <2>0, <2>3, StockStepKeepsSales
  <2> QED
    BY <2>1, <2>2, <2>3, MoneyAndReviewMoveAlone
<1> QED
  BY <1>1, <1>2, FullInvIsInvariant, PTL DEF Spec, ImplementsSales, Sales!SalesSpec

=============================================================================
