---------------------------- MODULE SalesPromises ----------------------------
(***************************************************************************)
(* What the shop promises, without calls, charges, events or workers:      *)
(* the stock promises of StockPromises, and beside them the money of each  *)
(* order.  Money is asked for only while the units are set aside, units    *)
(* are handed over only against money that came in, and a human is called  *)
(* only when money came for units that are gone or has gone back.          *)
(*                                                                         *)
(* An order's money is its own.  Only where orders are not told apart can  *)
(* it be that of another, one that MoneyFor names.                         *)
(***************************************************************************)
EXTENDS StockPromises

CONSTANT MoneyFor   \* MoneyFor[o]: the orders whose money counts for order o

VARIABLES
    money,      \* money[o]: what became of the charge of order o
    review      \* orders a human has been asked to look at

salesVars == <<supply, promise, money, review>>

MoneyState == {"none", "open", "paid", "refunded", "deleted"}

SalesInit ==
    /\ PromiseInit
    /\ money = [o \in Orders |-> "none"]
    /\ review = {}

MoneyMoves(o, from, to) ==
    /\ money[o] = from
    /\ money' = [money EXCEPT ![o] = to]
    /\ UNCHANGED <<supply, promise, review>>

\* Money is asked for while the units are held, never before and never after,
\* unless the money of another order can have closed the hold.
Ask(o) ==
    /\ \/ promise[o] = "held"
       \/ promise[o] # "never" /\ \E x \in MoneyFor[o] \ {o} : money[x] # "none"
    /\ MoneyMoves(o, "none", "open")

Receive(o) == MoneyMoves(o, "open", "paid")
GiveBack(o) == MoneyMoves(o, "paid", "refunded")
Waive(o) == MoneyMoves(o, "open", "deleted")

\* Units are set aside before any money is asked for.
Offer(o) == money[o] = "none" /\ SetAside(o) /\ UNCHANGED <<money, review>>

\* Units leave the shelf only against money.
HandOver(o) ==
    /\ \E x \in MoneyFor[o] : money[x] \in {"paid", "refunded"}
    /\ Keep(o)
    /\ UNCHANGED <<money, review>>

LetGo(o) == GiveUp(o) /\ UNCHANGED <<money, review>>

Restock == Recount /\ UNCHANGED <<money, review>>

\* No false alarms: the units are gone although the money came, or the money
\* went back.
CallHuman(o) ==
    /\ \E x \in MoneyFor[o] : \/ money[x] = "paid" /\ promise[o] = "void"
                              \/ money[x] = "refunded"
    /\ review' = review \cup {o}
    /\ UNCHANGED <<supply, promise, money>>

SalesNext ==
    \/ \E o \in Orders :
          \/ Offer(o) \/ Ask(o) \/ Receive(o) \/ GiveBack(o) \/ Waive(o)
          \/ HandOver(o) \/ LetGo(o) \/ CallHuman(o)
    \/ Restock

SalesSpec == SalesInit /\ [][SalesNext]_salesVars

=============================================================================
