--------------------------- MODULE InventoryProofs ---------------------------
(***************************************************************************)
(* What Inventory guarantees for every set of orders, every quantity,      *)
(* every number of sweepers and whatever the other writers put into the    *)
(* orders rows.                                                            *)
(*                                                                         *)
(* The argument: reserved_qty and committed_qty are adjusted by each       *)
(* transaction separately, so that subtracting never goes below zero is    *)
(* only known because the counters equal the units of the open and sold    *)
(* reservations (CountersMatchReservations).  Type, counters and the       *)
(* oversell bound are therefore proved together, as IInv.                  *)
(***************************************************************************)
EXTENDS Inventory, FiniteSetTheorems, FunctionTheorems, SequenceTheorems, TLAPS

-----------------------------------------------------------------------------
(* Counting units *)

\* The units a set of orders asks for are finitely many, so they can be counted.
LEMMA UnitsAreCountable ==
    ASSUME NEW S \in SUBSET Orders
    PROVE  IsFiniteSet(UnitsOf(S)) /\ UnitCount(S) \in Nat
<1> DEFINE bundle(o) == {o} \X (1 .. Qty[o])
           bundles == {bundle(o) : o \in S}
           f == [o \in S |-> bundle(o)]
<1>1. IsFiniteSet(S)
  BY FS_Subset, OrdersAssumption
<1>2. f \in Surjection(S, bundles)
  <2>1. f \in [S -> bundles]
    OBVIOUS
  <2>2. \A b \in bundles : \E o \in S : f[o] = b
    OBVIOUS
  <2> QED
    BY <2>1, <2>2 DEF Surjection
<1>3. IsFiniteSet(bundles)
  <2> HIDE DEF f, bundles
  <2> QED
    BY <1>1, <1>2, FS_Surjection
<1>4. \A b \in bundles : IsFiniteSet(b)
  <2> SUFFICES ASSUME NEW o \in S PROVE IsFiniteSet(bundle(o))
    OBVIOUS
  <2>1. Qty[o] \in Int
    BY OrdersAssumption
  <2>2. IsFiniteSet({o})
    BY FS_Singleton
  <2>3. IsFiniteSet(1 .. Qty[o])
    BY <2>1, FS_Interval
  <2> QED
    BY <2>2, <2>3, FS_Product
<1>5. IsFiniteSet(UNION bundles)
  <2> HIDE DEF bundles
  <2> QED
    BY <1>3, <1>4, FS_UNION
<1>6. IsFiniteSet(UnitsOf(S))
  BY <1>5 DEF UnitsOf
<1> QED
  BY <1>6, FS_CardinalityType DEF UnitCount

LEMMA NoOrdersNoUnits == UnitCount({}) = 0
<1>1. UnitsOf({}) = {}
  BY DEF UnitsOf
<1> QED
  BY <1>1, FS_EmptySet DEF UnitCount

\* One order more adds exactly its quantity.
LEMMA UnitsOfOneMore ==
    ASSUME NEW S \in SUBSET Orders, NEW o \in Orders, o \notin S
    PROVE  UnitCount(S \cup {o}) = UnitCount(S) + Qty[o]
<1> DEFINE bundle == {o} \X (1 .. Qty[o])
<1>1. Qty[o] \in Nat \ {0}
  BY OrdersAssumption
<1>2. IsFiniteSet(bundle) /\ Cardinality(bundle) = Qty[o]
  <2>1. IsFiniteSet({o}) /\ Cardinality({o}) = 1
    BY FS_Singleton
  <2>2. IsFiniteSet(1 .. Qty[o]) /\ Cardinality(1 .. Qty[o]) = Qty[o]
    BY <1>1, FS_Interval
  <2>3. IsFiniteSet(bundle) /\ Cardinality(bundle) = 1 * Qty[o]
    BY <2>1, <2>2, FS_Product
  <2> QED
    BY <1>1, <2>3
<1>3. UnitsOf(S \cup {o}) = UnitsOf(S) \cup bundle
  BY DEF UnitsOf
<1>4. UnitsOf(S) \cap bundle = {}
  BY DEF UnitsOf
<1>5. IsFiniteSet(UnitsOf(S)) /\ UnitCount(S) \in Nat
  BY UnitsAreCountable
<1> HIDE DEF bundle
<1>6. Cardinality(UnitsOf(S) \cup bundle)
        = Cardinality(UnitsOf(S)) + Cardinality(bundle) - Cardinality({})
  BY <1>2, <1>4, <1>5, FS_Union
<1>7. Cardinality({}) = 0
  BY FS_EmptySet
<1>8. UnitCount(S \cup {o}) = UnitCount(S) + Qty[o] - 0
  BY <1>2, <1>3, <1>6, <1>7 DEF UnitCount
<1> QED
  BY <1>1, <1>5, <1>8

\* One order less takes exactly its quantity away.
LEMMA UnitsOfOneLess ==
    ASSUME NEW S \in SUBSET Orders, NEW o \in S
    PROVE  /\ UnitCount(S \ {o}) = UnitCount(S) - Qty[o]
           /\ Qty[o] <= UnitCount(S)
<1>1. (S \ {o}) \cup {o} = S
  OBVIOUS
<1>2. UnitCount(S) = UnitCount(S \ {o}) + Qty[o]
  BY <1>1, UnitsOfOneMore
<1>3. UnitCount(S \ {o}) \in Nat /\ UnitCount(S) \in Nat
  BY UnitsAreCountable
<1>4. Qty[o] \in Nat
  BY OrdersAssumption
<1> QED
  BY <1>2, <1>3, <1>4

\* The units of two groups of orders add up.
LEMMA UnitsOfTwoGroups ==
    ASSUME NEW S \in SUBSET Orders, NEW T \in SUBSET Orders, S \cap T = {}
    PROVE  UnitCount(S \cup T) = UnitCount(S) + UnitCount(T)
<1>1. UnitsOf(S \cup T) = UnitsOf(S) \cup UnitsOf(T)
  BY DEF UnitsOf
<1>2. UnitsOf(S) \cap UnitsOf(T) = {}
  BY DEF UnitsOf
<1>3. /\ IsFiniteSet(UnitsOf(S)) /\ UnitCount(S) \in Nat
      /\ IsFiniteSet(UnitsOf(T)) /\ UnitCount(T) \in Nat
  BY UnitsAreCountable
<1>4. Cardinality(UnitsOf(S) \cup UnitsOf(T))
        = Cardinality(UnitsOf(S)) + Cardinality(UnitsOf(T)) - Cardinality({})
  BY <1>2, <1>3, FS_Union
<1>5. Cardinality({}) = 0
  BY FS_EmptySet
<1>6. UnitCount(S \cup T) = UnitCount(S) + UnitCount(T) - 0
  BY <1>1, <1>4, <1>5 DEF UnitCount
<1> QED
  BY <1>3, <1>6

-----------------------------------------------------------------------------
(* What a step does to the counters, the reservation rows and the ledger *)

Opens(o) ==
    /\ reservation[o] = "none"
    /\ Available >= Qty[o]
    /\ reserved' = reserved + Qty[o]
    /\ reservation' = [reservation EXCEPT ![o] = "active"]
    /\ Record(o, "reserved")
    /\ UNCHANGED <<onHand, committed>>

Closes(o, s) ==
    /\ reservation[o] = "active"
    /\ reserved' = reserved - Qty[o]
    /\ reservation' = [reservation EXCEPT ![o] = s]
    /\ Record(o, s)
    /\ UNCHANGED <<onHand, committed>>

Sells(o) ==
    /\ reservation[o] = "active"
    /\ reserved' = reserved - Qty[o]
    /\ committed' = committed + Qty[o]
    /\ reservation' = [reservation EXCEPT ![o] = "confirmed"]
    /\ Record(o, "confirmed_sale")
    /\ UNCHANGED onHand

Recounts ==
    /\ onHand' \in Nat
    /\ reserved + committed <= onHand'
    /\ UNCHANGED <<reserved, committed, reservation, movements>>

LeavesStock == UNCHANGED <<onHand, reserved, committed, reservation, movements>>

StockStep ==
    \/ \E o \in Orders : \/ Opens(o)
                         \/ \E s \in {"released", "expired"} : Closes(o, s)
                         \/ Sells(o)
    \/ Recounts
    \/ LeavesStock

\* Seen from the stock, every transaction opens one hold, closes one, sells
\* one, recounts the shelf, or does nothing.
LEMMA EveryStepIsAStockStep ==
    ASSUME [InventoryNext]_inventoryVars
    PROVE  StockStep
<1> USE DEF StockStep
<1>1. ASSUME NEW o \in Orders, Reserve(o) PROVE StockStep
  BY <1>1 DEF Reserve, Opens
<1>2. ASSUME NEW o \in Orders, Release(o) PROVE StockStep
  BY <1>2 DEF Release, CloseHold, Closes
<1>3. ASSUME NEW o \in Orders, Lapse(o) PROVE StockStep
  BY <1>3 DEF Lapse, LeavesStock
<1>4. ASSUME NEW p \in PaymentIds, ConfirmSale(p) PROVE StockStep
  <2>1. ASSUME NEW o \in Orders, CommitHold(o) PROVE StockStep
    BY <2>1 DEF CommitHold, Sells
  <2>2. ASSUME NEW o \in Orders, FlagLatePayment(o) PROVE StockStep
    BY <2>2 DEF FlagLatePayment, LeavesStock
  <2>3. ASSUME UNCHANGED inventoryVars PROVE StockStep
    BY <2>3 DEF inventoryVars, LeavesStock
  <2> HIDE DEF StockStep
  <2> QED
    BY <1>4, <2>1, <2>2, <2>3 DEF ConfirmSale
<1>5. ASSUME NEW p \in PaymentIds, ReleaseForPayment(p) PROVE StockStep
  <2>1. ASSUME UNCHANGED inventoryVars PROVE StockStep
    BY <2>1 DEF inventoryVars, LeavesStock
  <2> HIDE DEF StockStep
  <2> QED
    BY <1>2, <1>5, <2>1 DEF ReleaseForPayment
<1>6. ASSUME NEW p \in PaymentIds, MarkRefundReview(p) PROVE StockStep
  BY <1>6 DEF MarkRefundReview, LeavesStock
<1>7. ASSUME NEW w \in Sweepers, SweepSelect(w) PROVE StockStep
  BY <1>7 DEF SweepSelect, LeavesStock
<1>8. ASSUME NEW w \in Sweepers, NEW o \in Orders, SweepRelease(w, o)
      PROVE  StockStep
  BY <1>8 DEF SweepRelease, CloseHold, Closes, LeavesStock
<1>9. ASSUME NEW w \in Sweepers, SweepAbort(w) PROVE StockStep
  BY <1>9 DEF SweepAbort, LeavesStock
<1>10. ASSUME NEW d \in Adjustments, ManualAdjustment(d) PROVE StockStep
  BY <1>10, InventoryAssumption DEF ManualAdjustment, Recounts
<1>11. ASSUME OrderWrite PROVE StockStep
  BY <1>11 DEF OrderWrite, stockVars, LeavesStock
<1>12. ASSUME UNCHANGED inventoryVars PROVE StockStep
  BY <1>12 DEF inventoryVars, LeavesStock
<1> HIDE DEF StockStep
<1> QED
  BY <1>1, <1>2, <1>3, <1>4, <1>5, <1>6, <1>7, <1>8, <1>9, <1>10, <1>11, <1>12
  DEF InventoryNext, StockNext

-----------------------------------------------------------------------------
(* The counters *)

\* How the sets of open and sold orders change when one reservation does.
LEMMA OneReservationChanges ==
    ASSUME InventoryTypeOK, NEW o \in Orders, NEW s \in ReservationStatus,
           reservation' = [reservation EXCEPT ![o] = s]
    PROVE  \A t \in ReservationStatus :
              OrdersIn(t)' = IF t = s THEN OrdersIn(t) \cup {o}
                                      ELSE OrdersIn(t) \ {o}
BY DEF InventoryTypeOK, OrdersIn

LEMMA OpensKeepsCounters ==
    ASSUME InventoryTypeOK, CountersMatchReservations,
           NEW o \in Orders, Opens(o)
    PROVE  CountersMatchReservations'
<1> DEFINE A == OrdersIn("active")
           C == OrdersIn("confirmed")
<1>1. A \in SUBSET Orders /\ o \notin A /\ o \notin C
  BY DEF Opens, OrdersIn
<1>2. OrdersIn("active")' = A \cup {o} /\ OrdersIn("confirmed")' = C \ {o}
  BY OneReservationChanges DEF Opens, ReservationStatus
<1>3. OrdersIn("confirmed")' = C
  BY <1>1, <1>2
<1>4. UnitCount(A \cup {o}) = UnitCount(A) + Qty[o]
  BY <1>1, UnitsOfOneMore
<1> QED
  BY <1>2, <1>3, <1>4 DEF CountersMatchReservations, Opens

LEMMA ClosesKeepsCounters ==
    ASSUME InventoryTypeOK, CountersMatchReservations,
           NEW o \in Orders, NEW s \in {"released", "expired"}, Closes(o, s)
    PROVE  CountersMatchReservations'
<1> DEFINE A == OrdersIn("active")
           C == OrdersIn("confirmed")
<1>1. A \in SUBSET Orders /\ o \in A /\ o \notin C
  BY DEF Closes, OrdersIn
<1>2. OrdersIn("active")' = A \ {o} /\ OrdersIn("confirmed")' = C \ {o}
  BY OneReservationChanges DEF Closes, ReservationStatus
<1>3. OrdersIn("confirmed")' = C
  BY <1>1, <1>2
<1>4. UnitCount(A \ {o}) = UnitCount(A) - Qty[o]
  BY <1>1, UnitsOfOneLess
<1> QED
  BY <1>2, <1>3, <1>4 DEF CountersMatchReservations, Closes

LEMMA SellsKeepsCounters ==
    ASSUME InventoryTypeOK, CountersMatchReservations,
           NEW o \in Orders, Sells(o)
    PROVE  CountersMatchReservations'
<1> DEFINE A == OrdersIn("active")
           C == OrdersIn("confirmed")
<1>1. A \in SUBSET Orders /\ C \in SUBSET Orders /\ o \in A /\ o \notin C
  BY DEF Sells, OrdersIn
<1>2. OrdersIn("active")' = A \ {o} /\ OrdersIn("confirmed")' = C \cup {o}
  BY OneReservationChanges DEF Sells, ReservationStatus
<1>3. UnitCount(A \ {o}) = UnitCount(A) - Qty[o]
  BY <1>1, UnitsOfOneLess
<1>4. UnitCount(C \cup {o}) = UnitCount(C) + Qty[o]
  BY <1>1, UnitsOfOneMore
<1> QED
  BY <1>2, <1>3, <1>4 DEF CountersMatchReservations, Sells

\* A hold never asks for more units than reserved_qty counts.
LEMMA OpenHoldIsCounted ==
    ASSUME CountersMatchReservations, NEW o \in Orders, reservation[o] = "active"
    PROVE  Qty[o] <= reserved
<1>1. OrdersIn("active") \in SUBSET Orders /\ o \in OrdersIn("active")
  BY DEF OrdersIn
<1> QED
  BY <1>1, UnitsOfOneLess DEF CountersMatchReservations

-----------------------------------------------------------------------------
(* The inductive invariant *)

IInv == InventoryTypeOK /\ CountersMatchReservations /\ NoOversell

LEMMA InitEstablishesIInv == InventoryInit => IInv
<1> SUFFICES ASSUME InventoryInit PROVE IInv
  OBVIOUS
<1>1. InventoryTypeOK
  BY InventoryAssumption, EmptySeq
  DEF InventoryInit, InventoryTypeOK, ReservationStatus, MovementType
<1>2. OrdersIn("active") = {} /\ OrdersIn("confirmed") = {}
  BY DEF InventoryInit, OrdersIn
<1>3. CountersMatchReservations
  BY <1>2, NoOrdersNoUnits DEF InventoryInit, CountersMatchReservations
<1>4. NoOversell
  BY InventoryAssumption DEF InventoryInit, NoOversell
<1> QED
  BY <1>1, <1>3, <1>4 DEF IInv

\* The columns and rows the counters do not depend on.
OtherTypesOK ==
    /\ rows \in Seq(Orders)
    /\ lapsed \subseteq Orders
    /\ underReview \subseteq Orders
    /\ sweepList \in [Sweepers -> SUBSET Orders]
    /\ status \in [Orders -> OrderStatus \cup {"absent"}]
    /\ asaasPaymentId \in [Orders -> PaymentIds \cup {NoPaymentId}]

LEMMA OtherTypesPreserved ==
    ASSUME InventoryTypeOK, [InventoryNext]_inventoryVars
    PROVE  OtherTypesOK'
<1> USE DEF InventoryTypeOK, OtherTypesOK, orderVars
<1>0. ASSUME UNCHANGED <<rows, lapsed, underReview, sweepList, status,
                         asaasPaymentId>>
      PROVE  OtherTypesOK'
  BY <1>0
<1>1. ASSUME NEW o \in Orders, Reserve(o) PROVE OtherTypesOK'
  <2>1. status' \in [Orders -> OrderStatus \cup {"absent"}]
    BY <1>1 DEF Reserve, OrderStatus
  <2>2. rows' \in Seq(Orders)
    BY <1>1, AppendProperties DEF Reserve
  <2> QED
    BY <1>1, <2>1, <2>2 DEF Reserve
<1>2. ASSUME NEW o \in Orders, Release(o) PROVE OtherTypesOK'
  BY <1>2 DEF Release, CloseHold
<1>3. ASSUME NEW o \in Orders, Lapse(o) PROVE OtherTypesOK'
  BY <1>3 DEF Lapse
<1>4. ASSUME NEW o \in Orders, CommitHold(o) PROVE OtherTypesOK'
  BY <1>4 DEF CommitHold
<1>5. ASSUME NEW o \in Orders, FlagLatePayment(o) PROVE OtherTypesOK'
  BY <1>5 DEF FlagLatePayment, OrderStatus
<1>6. ASSUME UNCHANGED inventoryVars PROVE OtherTypesOK'
  BY <1>6 DEF inventoryVars
<1>7. ASSUME NEW p \in PaymentIds, ConfirmSale(p) PROVE OtherTypesOK'
  BY <1>4, <1>5, <1>6, <1>7 DEF ConfirmSale
<1>8. ASSUME NEW p \in PaymentIds, ReleaseForPayment(p) PROVE OtherTypesOK'
  BY <1>2, <1>6, <1>8 DEF ReleaseForPayment
<1>9. ASSUME NEW p \in PaymentIds, MarkRefundReview(p) PROVE OtherTypesOK'
  BY <1>9 DEF MarkRefundReview
<1>10. ASSUME NEW w \in Sweepers, SweepSelect(w) PROVE OtherTypesOK'
  BY <1>10 DEF SweepSelect, OrdersIn
<1>11. ASSUME NEW w \in Sweepers, NEW o \in Orders, SweepRelease(w, o)
       PROVE  OtherTypesOK'
  BY <1>11 DEF SweepRelease, CloseHold
<1>12. ASSUME NEW w \in Sweepers, SweepAbort(w) PROVE OtherTypesOK'
  BY <1>12 DEF SweepAbort
<1>13. ASSUME NEW d \in Adjustments, ManualAdjustment(d) PROVE OtherTypesOK'
  BY <1>13 DEF ManualAdjustment
<1>14. ASSUME OrderWrite PROVE OtherTypesOK'
  BY <1>14 DEF OrderWrite, stockVars
<1> HIDE DEF InventoryTypeOK, OtherTypesOK, orderVars
<1> QED
  BY <1>1, <1>2, <1>3, <1>6, <1>7, <1>8, <1>9, <1>10, <1>11, <1>12, <1>13, <1>14
  DEF InventoryNext, StockNext

LEMMA StockTypesPreserved ==
    ASSUME IInv, StockStep
    PROVE  /\ onHand' \in Nat /\ reserved' \in Nat /\ committed' \in Nat
           /\ reservation' \in [Orders -> ReservationStatus]
           /\ movements' \in [Orders -> [MovementType -> Nat]]
           /\ NoOversell'
<1> DEFINE Goal == /\ onHand' \in Nat /\ reserved' \in Nat /\ committed' \in Nat
                   /\ reservation' \in [Orders -> ReservationStatus]
                   /\ movements' \in [Orders -> [MovementType -> Nat]]
                   /\ NoOversell'
<1> USE DEF IInv, InventoryTypeOK, NoOversell
<1>1. ASSUME NEW o \in Orders, Opens(o) PROVE Goal
  <2>1. Qty[o] \in Nat /\ SafetyBuffer \in Nat
    BY OrdersAssumption, InventoryAssumption
  <2>2. reserved' \in Nat /\ NoOversell'
    BY <1>1, <2>1 DEF Opens, Available
  <2>3. movements' \in [Orders -> [MovementType -> Nat]]
    BY <1>1 DEF Opens, Record, MovementType
  <2>4. reservation' \in [Orders -> ReservationStatus]
    BY <1>1 DEF Opens, ReservationStatus
  <2> QED
    BY <1>1, <2>2, <2>3, <2>4 DEF Opens
<1>2. ASSUME NEW o \in Orders, NEW s \in {"released", "expired"}, Closes(o, s)
      PROVE  Goal
  <2>1. Qty[o] \in Nat /\ Qty[o] <= reserved
    BY <1>2, OrdersAssumption, OpenHoldIsCounted DEF Closes
  <2>2. reserved' \in Nat /\ NoOversell'
    BY <1>2, <2>1 DEF Closes
  <2>3. movements' \in [Orders -> [MovementType -> Nat]]
    BY <1>2 DEF Closes, Record, MovementType
  <2>4. reservation' \in [Orders -> ReservationStatus]
    BY <1>2 DEF Closes, ReservationStatus
  <2> QED
    BY <1>2, <2>2, <2>3, <2>4 DEF Closes
<1>3. ASSUME NEW o \in Orders, Sells(o) PROVE Goal
  <2>1. Qty[o] \in Nat /\ Qty[o] <= reserved
    BY <1>3, OrdersAssumption, OpenHoldIsCounted DEF Sells
  <2>2. reserved' \in Nat /\ committed' \in Nat /\ NoOversell'
    BY <1>3, <2>1 DEF Sells
  <2>3. movements' \in [Orders -> [MovementType -> Nat]]
    BY <1>3 DEF Sells, Record, MovementType
  <2>4. reservation' \in [Orders -> ReservationStatus]
    BY <1>3 DEF Sells, ReservationStatus
  <2> QED
    BY <1>3, <2>2, <2>3, <2>4 DEF Sells
<1>4. ASSUME Recounts PROVE Goal
  BY <1>4 DEF Recounts
<1>5. ASSUME LeavesStock PROVE Goal
  BY <1>5 DEF LeavesStock
<1> HIDE DEF Goal, IInv, InventoryTypeOK, NoOversell
<1>6. Goal
  BY <1>1, <1>2, <1>3, <1>4, <1>5 DEF StockStep
<1> QED
  BY <1>6 DEF Goal

LEMMA CountersPreserved ==
    ASSUME IInv, StockStep
    PROVE  CountersMatchReservations'
<1>1. CASE Recounts \/ LeavesStock
  BY <1>1 DEF IInv, CountersMatchReservations, OrdersIn, Recounts, LeavesStock
<1> QED
  BY <1>1, OpensKeepsCounters, ClosesKeepsCounters, SellsKeepsCounters
  DEF StockStep, IInv

LEMMA StepPreservesIInv ==
    ASSUME IInv, [InventoryNext]_inventoryVars
    PROVE  IInv'
<1>1. StockStep
  BY EveryStepIsAStockStep
<1>2. OtherTypesOK'
  BY OtherTypesPreserved DEF IInv
<1>3. InventoryTypeOK' /\ NoOversell'
  BY <1>1, <1>2, StockTypesPreserved DEF InventoryTypeOK, OtherTypesOK
<1>4. CountersMatchReservations'
  BY <1>1, CountersPreserved
<1> QED
  BY <1>3, <1>4 DEF IInv

LEMMA IInvIsInvariant == InventorySpec => []IInv
BY InitEstablishesIInv, StepPreservesIInv, PTL DEF InventorySpec

-----------------------------------------------------------------------------
(* Theorems *)

\* In every state each table row and column has a value of its type; reserved_qty
\* and committed_qty in particular never become negative.
THEOREM InventoryTypeCorrect == InventorySpec => []InventoryTypeOK
BY IInvIsInvariant, PTL DEF IInv

\* reserved_qty and committed_qty always equal the units of the open and of the
\* sold reservations, for any number of orders and any quantities.
THEOREM CountersAreExact == InventorySpec => []CountersMatchReservations
BY IInvIsInvariant, PTL DEF IInv

\* No interleaving of checkouts, payments, cancellations, sweeps and corrections
\* promises or sells more units than are on the shelf.
THEOREM NeverOversold == InventorySpec => []NoOversell
BY IInvIsInvariant, PTL DEF IInv

-----------------------------------------------------------------------------
(* The ledger and the reservation rows *)

LEMMA InitEstablishesLedger == InventoryInit => LedgerExplainsReservations
BY DEF InventoryInit, LedgerExplainsReservations, MovementType

LEMMA StepPreservesLedger ==
    ASSUME IInv, LedgerExplainsReservations, StockStep
    PROVE  LedgerExplainsReservations'
<1> USE DEF LedgerExplainsReservations, MovementType
<1>1. /\ reservation \in [Orders -> ReservationStatus]
      /\ movements \in [Orders -> [MovementType -> Nat]]
  BY DEF IInv, InventoryTypeOK
<1>2. ASSUME NEW o \in Orders, Opens(o) PROVE LedgerExplainsReservations'
  BY <1>1, <1>2 DEF Opens, Record
<1>3. ASSUME NEW o \in Orders, NEW s \in {"released", "expired"}, Closes(o, s)
      PROVE  LedgerExplainsReservations'
  BY <1>1, <1>3 DEF Closes, Record
<1>4. ASSUME NEW o \in Orders, Sells(o) PROVE LedgerExplainsReservations'
  BY <1>1, <1>4 DEF Sells, Record
<1>5. ASSUME Recounts \/ LeavesStock PROVE LedgerExplainsReservations'
  BY <1>5 DEF Recounts, LeavesStock
<1> HIDE DEF LedgerExplainsReservations
<1> QED
  BY <1>2, <1>3, <1>4, <1>5 DEF StockStep

\* The append-only ledger and the reservation rows never tell different stories:
\* a hold is opened once and closed at most once, by the movement it names.
THEOREM LedgerIsExact == InventorySpec => []LedgerExplainsReservations
<1>1. IInv /\ LedgerExplainsReservations /\ [InventoryNext]_inventoryVars
        => LedgerExplainsReservations'
  BY EveryStepIsAStockStep, StepPreservesLedger
<1> QED
  BY <1>1, InitEstablishesLedger, IInvIsInvariant, PTL DEF InventorySpec

\* No transaction changes how a hold ended, or opens it again.
THEOREM ClosedForGood == InventorySpec => ClosedHoldsStayClosed
<1> DEFINE Kept == \A o \in Orders :
              reservation[o] \in {"confirmed", "released", "expired"}
                  => reservation'[o] = reservation[o]
<1>1. ASSUME IInv, StockStep PROVE Kept
  <2>1. reservation \in [Orders -> ReservationStatus]
    BY <1>1 DEF IInv, InventoryTypeOK
  <2> QED
    BY <1>1, <2>1 DEF StockStep, Opens, Closes, Sells, Recounts, LeavesStock
<1>2. IInv /\ [InventoryNext]_inventoryVars => [Kept]_inventoryVars
  BY <1>1, EveryStepIsAStockStep
<1> HIDE DEF Kept
<1>3. InventorySpec => [][Kept]_inventoryVars
  BY <1>2, IInvIsInvariant, PTL DEF InventorySpec
<1> QED
  BY <1>3 DEF ClosedHoldsStayClosed, Kept

-----------------------------------------------------------------------------
(* Inventory implements StockPromises *)

\* Inside Promises, Promised is the union of the open and the sold orders, and
\* its units are what the two counters add up to.
LEMMA PromisedUnits ==
    ASSUME IInv
    PROVE  /\ Promises!Promised = OrdersIn("active") \cup OrdersIn("confirmed")
           /\ Promises!UnitCount(Promises!Promised) = reserved + committed
           /\ \A S : Promises!UnitCount(S) = UnitCount(S)
<1>1. Promises!Promised = OrdersIn("active") \cup OrdersIn("confirmed")
  BY DEF Promises!Promised, Promises!With, OrdersIn, promiseOf
<1>2. \A S : Promises!UnitCount(S) = UnitCount(S)
  BY DEF Promises!UnitCount, Promises!UnitsOf, Promises!Cardinality, UnitCount,
         UnitsOf, Cardinality
<1>3. UnitCount(OrdersIn("active") \cup OrdersIn("confirmed"))
        = reserved + committed
  <2>1. /\ OrdersIn("active") \in SUBSET Orders
        /\ OrdersIn("confirmed") \in SUBSET Orders
        /\ OrdersIn("active") \cap OrdersIn("confirmed") = {}
    BY DEF OrdersIn
  <2> QED
    BY <2>1, UnitsOfTwoGroups DEF IInv, CountersMatchReservations
<1> QED
  BY <1>1, <1>2, <1>3

\* When one reservation changes, one promise does.
LEMMA OnePromiseChanges ==
    ASSUME IInv, NEW o \in Orders, NEW s \in ReservationStatus,
           reservation' = [reservation EXCEPT ![o] = s]
    PROVE  promiseOf' = [promiseOf EXCEPT
              ![o] = CASE s = "none" -> "never"
                       [] s = "active" -> "held"
                       [] s = "confirmed" -> "sold"
                       [] OTHER -> "void"]
BY DEF IInv, InventoryTypeOK, promiseOf

LEMMA OpensSetsAside ==
    ASSUME IInv, NEW o \in Orders, Opens(o)
    PROVE  Promises!SetAside(o)
<1>1. promiseOf[o] = "never"
  BY DEF Opens, promiseOf
<1>2. promiseOf' = [promiseOf EXCEPT ![o] = "held"]
  BY OnePromiseChanges DEF Opens, ReservationStatus
<1>3. Promises!UnitCount(Promises!Promised \cup {o}) = reserved + committed + Qty[o]
  <2> DEFINE P == OrdersIn("active") \cup OrdersIn("confirmed")
  <2>1. P \in SUBSET Orders /\ o \notin P
    BY DEF OrdersIn, Opens
  <2>2. UnitCount(P \cup {o}) = UnitCount(P) + Qty[o]
    BY <2>1, UnitsOfOneMore
  <2> QED
    BY <2>2, PromisedUnits
<1>4. reserved + committed + Qty[o] <= onHand
  <2>1. /\ onHand \in Nat /\ reserved \in Nat /\ committed \in Nat
        /\ Qty[o] \in Nat /\ SafetyBuffer \in Nat
    BY InventoryAssumption, OrdersAssumption DEF IInv, InventoryTypeOK
  <2>2. onHand - reserved - committed - SafetyBuffer >= Qty[o]
    BY DEF Opens, Available
  <2> QED
    BY <2>1, <2>2
<1> QED
  BY <1>1, <1>2, <1>3, <1>4 DEF Opens, Promises!SetAside, promiseOf

LEMMA ClosesGivesUp ==
    ASSUME IInv, NEW o \in Orders, NEW s \in {"released", "expired"}, Closes(o, s)
    PROVE  Promises!GiveUp(o)
<1>1. promiseOf[o] = "held"
  BY DEF Closes, promiseOf
<1>2. promiseOf' = [promiseOf EXCEPT ![o] = "void"]
  BY OnePromiseChanges DEF Closes, ReservationStatus
<1> QED
  BY <1>1, <1>2 DEF Closes, Promises!GiveUp, promiseOf

LEMMA SellsKeepsPromise ==
    ASSUME IInv, NEW o \in Orders, Sells(o)
    PROVE  Promises!Keep(o)
<1>1. promiseOf[o] = "held"
  BY DEF Sells, promiseOf
<1>2. promiseOf' = [promiseOf EXCEPT ![o] = "sold"]
  BY OnePromiseChanges DEF Sells, ReservationStatus
<1> QED
  BY <1>1, <1>2 DEF Sells, Promises!Keep, promiseOf

LEMMA RecountsRecounts ==
    ASSUME IInv, Recounts
    PROVE  Promises!Recount
<1>1. Promises!UnitCount(Promises!Promised) <= onHand'
  BY PromisedUnits DEF Recounts
<1> QED
  BY <1>1 DEF Recounts, Promises!Recount, promiseOf

\* The counters implement the promises: whatever the transactions do, units are
\* set aside only while the shelf holds them, and an order's promise is kept or
\* given up once.
THEOREM InventoryKeepsPromises == InventorySpec => ImplementsPromises
<1>1. InventoryInit => Promises!PromiseInit
  BY InventoryAssumption DEF InventoryInit, Promises!PromiseInit, promiseOf
<1>2. IInv /\ [InventoryNext]_inventoryVars
        => [Promises!PromiseNext]_(Promises!promiseVars)
  <2> SUFFICES ASSUME IInv, StockStep
               PROVE  [Promises!PromiseNext]_(Promises!promiseVars)
    BY EveryStepIsAStockStep
  <2>1. CASE LeavesStock
    BY <2>1 DEF LeavesStock, Promises!promiseVars, promiseOf
  <2> QED
    BY <2>1, OpensSetsAside, ClosesGivesUp, SellsKeepsPromise, RecountsRecounts
    DEF StockStep, Promises!PromiseNext
<1> QED
  BY <1>1, <1>2, IInvIsInvariant, PTL
  DEF InventorySpec, ImplementsPromises, Promises!PromiseSpec

=============================================================================
