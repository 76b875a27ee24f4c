--------------------------- MODULE StockPromises ----------------------------
(***************************************************************************)
(* What the inventory promises, without counters: units on the shelf are   *)
(* promised to orders, each order is promised its units at most once, and  *)
(* the shelf always holds every unit that is promised or sold.             *)
(***************************************************************************)
EXTENDS StockUnits

VARIABLES
    supply,     \* units physically on the shelf
    promise     \* promise[o]: where order o stands with its units

promiseVars == <<supply, promise>>

PromiseState == {"never", "held", "sold", "void"}

With(s) == {o \in Orders : promise[o] = s}

Promised == With("held") \cup With("sold")

PromiseInit ==
    /\ supply \in Nat
    /\ promise = [o \in Orders |-> "never"]

\* An order that was never promised anything gets its units set aside, if the
\* shelf holds them beside everything promised so far.
SetAside(o) ==
    /\ promise[o] = "never"
    /\ UnitCount(Promised \cup {o}) <= supply
    /\ promise' = [promise EXCEPT ![o] = "held"]
    /\ UNCHANGED supply

\* A held promise is kept: the units are sold to the order they were held for.
Keep(o) ==
    /\ promise[o] = "held"
    /\ promise' = [promise EXCEPT ![o] = "sold"]
    /\ UNCHANGED supply

\* A held promise is given up; the same order is never promised units again.
GiveUp(o) ==
    /\ promise[o] = "held"
    /\ promise' = [promise EXCEPT ![o] = "void"]
    /\ UNCHANGED supply

\* The shelf is recounted; a recount never takes away promised or sold units.
Recount ==
    /\ supply' \in Nat
    /\ UnitCount(Promised) <= supply'
    /\ UNCHANGED promise

PromiseNext ==
    \/ \E o \in Orders : SetAside(o) \/ Keep(o) \/ GiveUp(o)
    \/ Recount

PromiseSpec == PromiseInit /\ [][PromiseNext]_promiseVars

=============================================================================
