----------------------------- MODULE StockUnits -----------------------------
(***************************************************************************)
(* The units of one product row that a set of orders asks for.             *)
(*                                                                         *)
(* inventory_items keeps two integers, reserved_qty and committed_qty.     *)
(* What those integers ought to be is a statement about sets: the number   *)
(* of distinct units asked for by the orders whose hold is open, and by    *)
(* the orders that were sold.  UnitCount is that reference definition.     *)
(***************************************************************************)
EXTENDS Integers, FiniteSets

CONSTANTS
    Orders,     \* orders of one (tenant, product) row, identified by orders.id
    Qty         \* Qty[o] is inventory_reservations.quantity of order o

\* inventory_reservations has CHECK (quantity > 0), and reserve_inventory
\* refuses quantity <= 0.
ASSUME OrdersAssumption ==
    /\ IsFiniteSet(Orders)
    /\ Qty \in [Orders -> Nat \ {0}]

UnitsOf(S) == UNION {{o} \X (1 .. Qty[o]) : o \in S}

UnitCount(S) == Cardinality(UnitsOf(S))

=============================================================================
