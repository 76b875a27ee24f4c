----------------------------- MODULE MCRecords ------------------------------
(***************************************************************************)
(* A small instance of Records.  The parts share little, so a behaviour    *)
(* plays one scene, chosen at the start: the lead's messages, the labels   *)
(* and events of one order, the loyalty messages of two orders, or the     *)
(* improvement queue.                                                      *)
(***************************************************************************)
EXTENDS Records

MCTasks == {<<"w1", 1>>, <<"w2", 1>>}
MCBuyer == [o \in Orders |-> <<"l1", "new-woman">>]
MCDelay == [k \in Kinds |-> IF k = "received_usage" THEN 0 ELSE 1]

VARIABLE scene

MCInit ==
    /\ Init
    /\ scene \in {"memory", "parcels", "loyalty", "queue"}
    /\ scene # "memory" => enabled /\ keyed

\* What changes in a scene, and what is left out of it for size.
MemoryScene == UNCHANGED <<fulfilmentVars, queueVars>>

\* Calls are alike, and so are requests: the second begins beside the first.
\* Ids of the order's are played with one parcel.
ParcelScene ==
    /\ UNCHANGED <<day, loyaltyVars, task, lead, queueVars>>
    /\ \A b \in Labellers : label'[b].order = "o1"
    /\ label["b2"].pc = "idle" /\ label'["b2"].pc # "idle" => label["b1"].pc # "idle"
    /\ tracker["h2"].pc = "idle" /\ tracker'["h2"].pc # "idle" => tracker["h1"].pc # "idle"
    /\ \A e \in announced' : e.coded <=> (e.kind # "delivered")
    /\ \A e, f \in announced' : e.byOrder = f.byOrder /\ (e.byOrder => Len(parcel') = 1)
    /\ \A h \in Trackers : LET e == tracker'[h].event IN
          tracker'[h].pc # "idle" => (e.kind = "posted" => e.of = 1)
                                     /\ (e.kind = "cancelled" => e.of = 2)

\* A parcel is bought and posted in one go, and events are recorded one by one.
Busy == \/ label["b1"].pc # "idle" \/ tracker["h1"].pc # "idle"
        \/ \E x \in DOMAIN parcel : parcel[x] = "paid"
        \/ \E c \in Tasks : ~Doing(c, "idle")

\* The lead says stop before anything else, or nothing.  The dispatchers are
\* alike: d1 runs first, and faults are its own.
LoyaltyScene ==
    /\ UNCHANGED <<queueVars, lead>>
    /\ inbound' <= 1 /\ (task' # task => parcel = <<>>)
    /\ \A c \in Tasks : task'[c] = NoTask \/ (task'[c].what = "stop" /\ ~task'[c].spoken)
    /\ \A e \in announced' : ~e.coded /\ ~e.byOrder /\ e.kind # "cancelled"
    /\ label'["b1"].of = 1 => label'["b1"].order = "o1"
    /\ label["b1"].pc = "pay" => label'["b1"].pc # "idle"
    /\ label'["b2"] = label["b2"] /\ tracker'["h2"] = tracker["h2"]
    /\ \A h \in Trackers : tracker'[h].pc # "idle" => tracker'[h].event.kind = "delivered"
    /\ Busy => UNCHANGED <<day, run>>
    /\ tracker["h1"].pc # "idle" => UNCHANGED parcel
    /\ Len(parcel') > Len(parcel) => day = 0
    /\ ran'["d2"] <= ran'["d1"]
    /\ \A d \in Dispatchers :
          LET r == run'[d].hand IN
          run[d].pc = "next" /\ run'[d].pc = "mark" =>
             /\ reached' # reached
             /\ r.order = "o2" => \A q \in run[d].todo : q.due = r.due => q.order = "o2"
    /\ faults' # faults => run'["d1"] # run["d1"]

\* Follow-ups are scheduled in the order of _DELIVERY_FOLLOWUPS.
InOrder == \A h \in Trackers : tracker'[h].todo \in {{}, Kinds, {"delivery_15d"}}

MCNext ==
    /\ Next /\ InOrder
    /\ scene' = scene
    /\ scene = "memory" => MemoryScene
    /\ scene = "parcels" => ParcelScene
    /\ scene = "loyalty" => LoyaltyScene
    /\ scene = "queue" => UNCHANGED <<memoryVars, fulfilmentVars>>

MCSpec == MCInit /\ [][MCNext]_<<vars, scene>>
=============================================================================
