------------------------------ MODULE MCOrders ------------------------------
(***************************************************************************)
(* The safety run of OrderLifecycle.  A behaviour plays one scene, chosen  *)
(* at the start.  In three of them both orders contend for the stock, are  *)
(* charged, paid and swept, and the webhook hears of payments and of one   *)
(* other kind of event; in the other two a single order, the Pix order or  *)
(* the card order, meets every kind of event, every fault and stock        *)
(* adjusted by hand.                                                       *)
(***************************************************************************)
EXTENDS MCOrderLifecycle

VARIABLE scene

Contention(kind, limit) ==
    [active |-> Orders, heard |-> {"PAYMENT_CONFIRMED", kind}, limit |-> limit]

Alone(o) == [active |-> {o}, heard |-> EventKinds, limit |-> MaxFaults]

Scenes ==
    {Contention("PAYMENT_RECEIVED", 0), Contention("PAYMENT_REFUNDED", 1),
     Contention("PAYMENT_BANK_SLIP_CANCELLED", 1)} \cup {Alone(o) : o \in Orders}

MCInit == Init /\ scene \in Scenes

MCNext ==
    /\ Next
    /\ \A o \in Orders \ scene.active : call'[o] = "idle"
    /\ \A e \in recorded' : e.kind \in scene.heard
    /\ faults' <= scene.limit
    /\ scene.active = Orders => ~\E d \in Adjustments : Adjust(d)
    /\ scene' = scene

MCSpec == MCInit /\ [][MCNext]_<<vars, scene>>

=============================================================================
