-------------------------- MODULE MCOrderLifecycle ---------------------------
(***************************************************************************)
(* OrderLifecycle on small instances: o1 is a Pix order of one unit, o2 a  *)
(* hosted card checkout of two.                                            *)
(***************************************************************************)
EXTENDS OrderLifecycle, TLC

CONSTANTS o1, o2

MCQty == [o \in Orders |-> IF o = o1 THEN 1 ELSE 2]
MCPaymentIds == {ChargeId(o) : o \in Orders} \cup {SessionId(o) : o \in CardOrders}
OwnRef == [o \in Orders |-> o]
OneRef == [o \in Orders |-> o1]
MCAdjustments == {-1}
NoAdjustments == {}

\* Requests differ only by name.
HandlerSymmetry == Permutations(Handlers)

=============================================================================
