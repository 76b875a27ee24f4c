---------------------------- MODULE MCInventory -----------------------------
(***************************************************************************)
(* Inventory on a small instance: two orders of different sizes that do    *)
(* not both fit, two payment ids, two sweepers.                            *)
(***************************************************************************)
EXTENDS Inventory

CONSTANTS o1, o2

MCQty == [o \in Orders |-> IF o = o1 THEN 1 ELSE 2]
MCAdjustments == {-1, 1}

\* The stock only asks whether an order row exists and whether it is paid, so
\* the other writers are represented by writing one row at a time with one
\* status of each kind.
MCOrderWrite(o) ==
    /\ \E s \in {"checkout_ready", "paid"} :
          status' = [status EXCEPT ![o] = s]
    /\ \E p \in PaymentIds \cup {NoPaymentId} :
          asaasPaymentId' = [asaasPaymentId EXCEPT ![o] = p]
    /\ UNCHANGED stockVars

MCNext == StockNext \/ \E o \in Orders : MCOrderWrite(o)

MCSpec == InventoryInit /\ [][MCNext]_inventoryVars

=============================================================================
