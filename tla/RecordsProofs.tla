--------------------------- MODULE RecordsProofs ---------------------------
(***************************************************************************)
(* What the records of leads, parcels and suggestions guarantee together,  *)
(* for any number of orders, labels, requests, dispatchers, days and       *)
(* faults: the types of every table, the follow-ups of a delivery and how  *)
(* often one is sent.  The memory of leads and the improvement queue have  *)
(* proofs of their own.                                                    *)
(***************************************************************************)
EXTENDS Records, LeadMemoryProofs, ImprovementQueueProofs, FiniteSetTheorems,
        SequenceTheorems, WellFoundedInduction

-----------------------------------------------------------------------------
(* The newest row *)

\* A finite set of numbers has a greatest one: otherwise the sets of larger
\* elements would descend forever.
LEMMA Greatest ==
    ASSUME NEW S \in SUBSET Int, IsFiniteSet(S), S # {}
    PROVE  \E x \in S : \A y \in S : y <= x
<1> DEFINE Above(x) == {y \in S : y > x}
           R == StrictSubsetOrdering(S)
           T == {Above(x) : x \in S}
<1>1. IsWellFoundedOn(R, FiniteSubsetsOf(S))
  BY FS_StrictSubsetOrderingWellFounded
<1>2. T \subseteq FiniteSubsetsOf(S) /\ T # {}
  <2>1. \A x \in S : IsFiniteSet(Above(x))
    <3>1. \A x \in S : Above(x) \in SUBSET S
      OBVIOUS
    <3> HIDE DEF Above
    <3> QED
      BY <3>1, FS_Subset
  <2> QED
    BY <2>1 DEF FiniteSubsetsOf
<1>3. PICK A \in T : \A B \in T : <<B, A>> \notin R
  <2> HIDE DEF R, T
  <2> QED
    BY <1>1, <1>2, WFMin
<1>4. PICK x \in S : A = Above(x)
  OBVIOUS
<1>5. ASSUME NEW y \in S, y > x PROVE FALSE
  <2>1. \A z \in S : z > y => z > x
    <3>1. \A z \in S : z \in Int
      OBVIOUS
    <3> QED
      BY <1>5, <3>1
  <2>2. ~(y > y)
    <3>1. y \in Int
      OBVIOUS
    <3> QED
      BY <3>1
  <2>3. Above(y) \subseteq Above(x) /\ y \in Above(x) /\ y \notin Above(y)
    BY <1>5, <2>1, <2>2, Zenon
  <2>4. Above(y) \in T /\ Above(y) \in SUBSET S /\ Above(x) \in SUBSET S
        /\ Above(y) # Above(x)
    BY <2>3
  <2>5. <<Above(y), Above(x)>> \in R
    BY <2>3, <2>4 DEF StrictSubsetOrdering
  <2> QED
    BY <1>3, <1>4, <2>4, <2>5
<1>6. \A y \in S : y \in Int /\ x \in Int
  OBVIOUS
<1> QED
  BY <1>5, <1>6

\* ORDER BY created_at DESC LIMIT 1 finds a row where there is one.
LEMMA NewestFound ==
    ASSUME shipments \in Seq(Shipment), NEW rows \in SUBSET DOMAIN shipments, rows # {}
    PROVE  Newest(rows) \in rows
<1>1. Len(shipments) \in Nat /\ DOMAIN shipments = 1 .. Len(shipments)
  BY LenProperties
<1>2. IsFiniteSet(rows)
  <2>1. IsFiniteSet(1 .. Len(shipments))
    BY <1>1, FS_Interval
  <2> QED
    BY <1>1, <2>1, FS_Subset
<1>3. rows \in SUBSET Int
  BY <1>1
<1> QED
  BY <1>2, <1>3, Greatest DEF Newest

LEMMA FoundExists ==
    ASSUME shipments \in Seq(Shipment), NEW o, NEW x
    PROVE  _find_shipment_id(o, x) \in 0 .. Len(shipments)
<1>1. Len(shipments) \in Nat /\ DOMAIN shipments = 1 .. Len(shipments)
  BY LenProperties
<1> DEFINE same == {i \in DOMAIN shipments : shipments[i].ext = x}
           ours == {i \in DOMAIN shipments : shipments[i].order = o}
<1>2. same # {} => Newest(same) \in 1 .. Len(shipments)
  BY <1>1, NewestFound
<1>3. ours # {} => Newest(ours) \in 1 .. Len(shipments)
  BY <1>1, NewestFound
<1>4. _find_shipment_id(o, x) = IF same # {} THEN Newest(same)
                                ELSE IF ours # {} THEN Newest(ours) ELSE 0
  BY DEF _find_shipment_id
<1>5. 0 \in 0 .. Len(shipments) /\ 1 .. Len(shipments) \subseteq 0 .. Len(shipments)
  BY <1>1
<1> HIDE DEF same, ours
<1> QED
  BY <1>2, <1>3, <1>4, <1>5, Zenon

-----------------------------------------------------------------------------
(* Types, in two halves *)

ShippingTypes ==
    /\ day \in 0 .. LastDay
    /\ parcel \in Seq(Statuses) /\ Len(parcel) <= MaxParcels
    /\ announced \subseteq Event
    /\ shipments \in Seq(Shipment)
    /\ cut \subseteq DOMAIN shipments
    /\ label \in [Labellers -> Labelling]
    /\ \A b \in Labellers : /\ label[b].row \in 0 .. Len(shipments)
                            /\ label[b].pc # "idle" => label[b].of \in DOMAIN parcel
    /\ tracker \in [Trackers -> Tracking]
    /\ \A h \in Trackers : tracker[h].pc # "idle" => tracker[h].row \in DOMAIN shipments

LoyaltyTypes ==
    /\ followup \in [Orders -> [Kinds -> Followup]]
    /\ run \in [Dispatchers -> Run] /\ ran \in [Dispatchers -> 0 .. LastDay]
    /\ reached \in [Orders -> [Kinds -> Nat]]
    /\ excused \subseteq Orders \X Kinds

LEMMA TypesInHalves ==
    /\ FulfilmentTypeOK <=> ShippingTypes /\ LoyaltyTypes
    /\ FulfilmentTypeOK' <=> ShippingTypes' /\ LoyaltyTypes'
BY DEF FulfilmentTypeOK, ShippingTypes, LoyaltyTypes

LEMMA ConstantsTyped ==
    /\ NoLabelling \in Labelling /\ NoLabelling.pc = "idle" /\ NoLabelling.row = 0
    /\ NoTracking \in Tracking /\ NoTracking.pc = "idle"
    /\ NoRun \in Run /\ NoRun.pc = "idle" /\ NoDue \in Due
<1>1. NoLabelling \in Labelling /\ NoLabelling.pc = "idle" /\ NoLabelling.row = 0
  BY FulfilmentAssumption DEF NoLabelling, Labelling
<1>2. AnyEvent \in Event
  BY FulfilmentAssumption DEF AnyEvent, Event, Parcels
<1>3. NoTracking \in Tracking /\ NoTracking.pc = "idle"
  BY <1>2 DEF NoTracking, Tracking
<1>4. NoDue \in Due
  BY FulfilmentAssumption DEF NoDue, Due
<1>5. NoRun \in Run /\ NoRun.pc = "idle"
  BY <1>4 DEF NoRun, Run
<1> QED
  BY <1>1, <1>3, <1>4, <1>5

LEMMA FulfilmentInitTyped == FulfilmentInit => FulfilmentTypeOK
<1> SUFFICES ASSUME FulfilmentInit PROVE ShippingTypes /\ LoyaltyTypes
  BY TypesInHalves
<1>1. parcel \in Seq(Statuses) /\ Len(parcel) = 0 /\ shipments \in Seq(Shipment)
      /\ Len(shipments) = 0
  BY EmptySeq DEF FulfilmentInit
<1>2. ShippingTypes
  BY <1>1, ConstantsTyped, FulfilmentAssumption DEF FulfilmentInit, ShippingTypes
<1>3. NoFollowup \in Followup
  BY DEF NoFollowup, Followup
<1>4. LoyaltyTypes
  BY <1>3, ConstantsTyped, FulfilmentAssumption DEF FulfilmentInit, LoyaltyTypes
<1> QED
  BY <1>2, <1>4

\* A call for a label goes on with another record.
LEMMA LabelMoves ==
    ASSUME ShippingTypes, NEW b \in Labellers, NEW next \in Labelling,
           label' = [label EXCEPT ![b] = next],
           next.row \in 0 .. Len(shipments'), Len(shipments) <= Len(shipments'),
           next.pc # "idle" => next.of \in DOMAIN parcel',
           DOMAIN parcel \subseteq DOMAIN parcel', shipments' \in Seq(Shipment)
    PROVE  /\ label' \in [Labellers -> Labelling]
           /\ \A c \in Labellers : /\ label'[c].row \in 0 .. Len(shipments')
                                   /\ label'[c].pc # "idle" => label'[c].of \in DOMAIN parcel'
<1>1. Len(shipments) \in Nat /\ Len(shipments') \in Nat
  BY LenProperties DEF ShippingTypes
<1>2. label' \in [Labellers -> Labelling] /\ label'[b] = next
  BY DEF ShippingTypes
<1>3. ASSUME NEW c \in Labellers \ {b}
      PROVE  /\ label'[c].row \in 0 .. Len(shipments')
             /\ label'[c].pc # "idle" => label'[c].of \in DOMAIN parcel'
  BY <1>1, <1>3 DEF ShippingTypes
<1> QED
  BY <1>2, <1>3

LEMMA TrackerMoves ==
    ASSUME ShippingTypes, NEW h \in Trackers, NEW next \in Tracking,
           tracker' = [tracker EXCEPT ![h] = next],
           next.pc # "idle" => next.row \in DOMAIN shipments',
           DOMAIN shipments \subseteq DOMAIN shipments'
    PROVE  /\ tracker' \in [Trackers -> Tracking]
           /\ \A g \in Trackers : tracker'[g].pc # "idle" => tracker'[g].row \in DOMAIN shipments'
BY DEF ShippingTypes

-----------------------------------------------------------------------------
(* Types, action by action *)

LEMMA CarryTyped ==
    ASSUME ShippingTypes, NEW x \in DOMAIN parcel,
           NEW kind \in {"posted", "delivered", "cancelled"}, NEW coded \in BOOLEAN,
           NEW byOrder \in BOOLEAN, Carry(x, kind, coded, byOrder)
    PROVE  ShippingTypes'
<1>1. parcel \in Seq(Statuses) /\ x \in 1 .. Len(parcel) /\ Len(parcel) \in Nat
      /\ DOMAIN parcel = 1 .. Len(parcel)
  BY LenProperties DEF ShippingTypes
<1>2. kind \in Statuses
  BY DEF Statuses
<1>3. parcel' = [parcel EXCEPT ![x] = kind]
  BY DEF Carry
<1>4. parcel' \in Seq(Statuses) /\ Len(parcel') = Len(parcel)
  BY <1>1, <1>2, <1>3, ExceptSeq
<1>5. DOMAIN parcel' = DOMAIN parcel
  BY <1>3
<1>6. [kind |-> kind, of |-> x, coded |-> coded, byOrder |-> byOrder, at |-> day] \in Event
  BY <1>1, FulfilmentAssumption DEF Event, Parcels, ShippingTypes
<1> QED
  BY <1>4, <1>5, <1>6 DEF Carry, ShippingTypes

LEMMA AddToCartTyped ==
    ASSUME ShippingTypes, NEW b \in Labellers, NEW o \in Orders, AddToCart(b, o)
    PROVE  ShippingTypes'
<1>1. parcel \in Seq(Statuses) /\ Len(parcel) \in Nat /\ DOMAIN parcel = 1 .. Len(parcel)
      /\ Len(shipments) \in Nat
  BY LenProperties DEF ShippingTypes
<1>2. parcel' = Append(parcel, "created") /\ Len(parcel) < MaxParcels
  BY DEF AddToCart
<1>3. parcel' \in Seq(Statuses) /\ Len(parcel') = Len(parcel) + 1
  <2>1. "created" \in Statuses
    BY DEF Statuses
  <2> QED
    BY <1>1, <1>2, <2>1, AppendProperties
<1>4. DOMAIN parcel' = 1 .. Len(parcel')
  BY <1>3, LenProperties
<1>5. Len(parcel') <= MaxParcels /\ DOMAIN parcel \subseteq DOMAIN parcel'
      /\ Len(parcel) + 1 \in DOMAIN parcel' /\ Len(parcel) + 1 \in Parcels
  BY <1>1, <1>2, <1>3, <1>4, FulfilmentAssumption DEF Parcels
<1> DEFINE next == [NoLabelling EXCEPT !.pc = "find", !.order = o, !.of = Len(parcel) + 1]
<1>6. next \in Labelling /\ next.row = 0 /\ next.of = Len(parcel) + 1
  BY <1>5, ConstantsTyped DEF Labelling
<1>7. label' = [label EXCEPT ![b] = next] /\ shipments' = shipments
  BY DEF AddToCart
<1> HIDE DEF next
<1>8. /\ label' \in [Labellers -> Labelling]
      /\ \A c \in Labellers : /\ label'[c].row \in 0 .. Len(shipments')
                              /\ label'[c].pc # "idle" => label'[c].of \in DOMAIN parcel'
  <2>1. next.row \in 0 .. Len(shipments') /\ Len(shipments) <= Len(shipments')
        /\ shipments' \in Seq(Shipment)
    BY <1>1, <1>6, <1>7 DEF ShippingTypes
  <2> QED
    BY <1>5, <1>6, <1>7, <2>1, LabelMoves
<1> QED
  BY <1>3, <1>5, <1>8 DEF AddToCart, ShippingTypes

\* A call moves on, and neither parcels nor shipments come or go.
LEMMA LabelStepTyped ==
    ASSUME ShippingTypes, NEW b \in Labellers, NEW next \in Labelling,
           label' = [label EXCEPT ![b] = next],
           next.row \in 0 .. Len(shipments), next.pc # "idle" => next.of \in DOMAIN parcel,
           parcel' \in Seq(Statuses), Len(parcel') = Len(parcel),
           UNCHANGED <<day, announced, shipments, tracker, cut>>
    PROVE  ShippingTypes'
<1>1. Len(shipments) \in Nat
  BY LenProperties DEF ShippingTypes
<1>2. DOMAIN parcel' = DOMAIN parcel
  BY LenProperties DEF ShippingTypes
<1>3. Len(shipments') = Len(shipments) /\ shipments' \in Seq(Shipment)
  BY DEF ShippingTypes
<1>4. Len(shipments) <= Len(shipments')
  BY <1>1, <1>3
<1>5. /\ label' \in [Labellers -> Labelling]
      /\ \A c \in Labellers : /\ label'[c].row \in 0 .. Len(shipments')
                              /\ label'[c].pc # "idle" => label'[c].of \in DOMAIN parcel'
  BY <1>2, <1>3, <1>4, LabelMoves
<1> QED
  BY <1>2, <1>5 DEF ShippingTypes

LEMMA FindShipmentTyped ==
    ASSUME ShippingTypes, NEW b \in Labellers, FindShipment(b)
    PROVE  ShippingTypes'
<1> DEFINE found == _find_shipment_id(label[b].order, label[b].of)
           next == [label[b] EXCEPT !.pc = "save", !.row = found]
<1>1. found \in 0 .. Len(shipments) /\ Len(shipments) \in Nat
  BY FoundExists, LenProperties DEF ShippingTypes
<1>2. label[b] \in Labelling /\ label[b].of \in DOMAIN parcel
  BY DEF ShippingTypes, FindShipment
<1>3. label' = [label EXCEPT ![b].pc = "save", ![b].row = found]
  BY Zenon DEF FindShipment
<1> HIDE DEF found
<1>4. next \in Labelling /\ next.row = found /\ next.of = label[b].of
  <2>1. found \in Nat
    BY <1>1
  <2> QED
    BY <1>2, <2>1 DEF Labelling
<1>5. label' = [label EXCEPT ![b] = next]
  BY <1>3 DEF ShippingTypes
<1>6. parcel' \in Seq(Statuses) /\ Len(parcel') = Len(parcel)
      /\ UNCHANGED <<day, announced, shipments, tracker, cut>>
  BY DEF FindShipment, ShippingTypes
<1> HIDE DEF next
<1> QED
  BY <1>1, <1>2, <1>4, <1>5, <1>6, LabelStepTyped

LEMMA CheckoutTyped ==
    ASSUME ShippingTypes, NEW b \in Labellers, NEW execute \in BOOLEAN, Checkout(b, execute)
    PROVE  ShippingTypes'
<1>1. Len(shipments) \in Nat /\ Len(parcel) \in Nat /\ DOMAIN parcel = 1 .. Len(parcel)
  BY LenProperties DEF ShippingTypes
<1>2. label[b] \in Labelling /\ label[b].of \in DOMAIN parcel
      /\ label[b].row \in 0 .. Len(shipments)
  BY DEF ShippingTypes, Checkout
<1>3. CASE execute
  <2> DEFINE next == [label[b] EXCEPT !.pc = "find", !.paid = TRUE]
  <2>1. next \in Labelling /\ next.row = label[b].row /\ next.of = label[b].of
    BY <1>2 DEF Labelling
  <2>2. label' = [label EXCEPT ![b] = next] /\ parcel' = [parcel EXCEPT ![label[b].of] = "paid"]
    BY <1>3 DEF Checkout, ShippingTypes
  <2>3. parcel' \in Seq(Statuses) /\ Len(parcel') = Len(parcel)
    <3>1. "paid" \in Statuses /\ parcel \in Seq(Statuses)
      BY DEF Statuses, ShippingTypes
    <3> QED
      BY <1>1, <1>2, <2>2, <3>1, ExceptSeq
  <2>4. UNCHANGED <<day, announced, shipments, tracker, cut>>
    BY DEF Checkout
  <2> HIDE DEF next
  <2> QED
    BY <1>2, <2>1, <2>2, <2>3, <2>4, LabelStepTyped
<1>4. CASE ~execute
  <2>1. label' = [label EXCEPT ![b] = NoLabelling] /\ parcel' = parcel
        /\ UNCHANGED <<day, announced, shipments, tracker, cut>>
    BY <1>4 DEF Checkout
  <2>2. parcel' \in Seq(Statuses) /\ Len(parcel') = Len(parcel) /\ 0 \in 0 .. Len(shipments)
    BY <1>1, <2>1 DEF ShippingTypes
  <2> QED
    BY <2>1, <2>2, ConstantsTyped, LabelStepTyped
<1> QED
  BY <1>3, <1>4

LEMMA LabelFailsTyped ==
    ASSUME ShippingTypes, NEW b \in Labellers, LabelFails(b)
    PROVE  ShippingTypes'
<1>1. Len(shipments) \in Nat
  BY LenProperties DEF ShippingTypes
<1>2. label' = [label EXCEPT ![b] = NoLabelling] /\ parcel' = parcel
      /\ UNCHANGED <<day, announced, shipments, tracker, cut>>
  BY DEF LabelFails
<1>3. parcel' \in Seq(Statuses) /\ Len(parcel') = Len(parcel) /\ 0 \in 0 .. Len(shipments)
  BY <1>1, <1>2 DEF ShippingTypes
<1> QED
  BY <1>2, <1>3, ConstantsTyped, LabelStepTyped

LEMMA SaveFailsTyped ==
    ASSUME ShippingTypes, NEW b \in Labellers, SaveFails(b)
    PROVE  ShippingTypes'
<1>1. Len(shipments) \in Nat
  BY LenProperties DEF ShippingTypes
<1>2. label[b] \in Labelling /\ label[b].pc # "idle" /\ label[b].of \in DOMAIN parcel
  BY DEF SaveFails, ShippingTypes
<1> DEFINE next == [label[b] EXCEPT !.pc = "pay", !.row = 0]
<1>3. next \in Labelling /\ next.row = 0 /\ next.of = label[b].of
  BY <1>2 DEF Labelling
<1>4. label' = [label EXCEPT ![b] = next] /\ parcel' = parcel
      /\ UNCHANGED <<day, announced, shipments, tracker, cut>>
  BY <1>2 DEF SaveFails, ShippingTypes, Labelling
<1>5. parcel' \in Seq(Statuses) /\ Len(parcel') = Len(parcel) /\ 0 \in 0 .. Len(shipments)
  BY <1>1, <1>4 DEF ShippingTypes
<1> QED
  BY <1>2, <1>3, <1>4, <1>5, LabelStepTyped

\* A row is written in place, or added at the end.
LEMMA RowsTyped ==
    ASSUME shipments \in Seq(Shipment), NEW next \in Shipment,
           \/ shipments' = Append(shipments, next)
           \/ \E i \in DOMAIN shipments : shipments' = [shipments EXCEPT ![i] = next]
    PROVE  /\ shipments' \in Seq(Shipment) /\ DOMAIN shipments \subseteq DOMAIN shipments'
           /\ Len(shipments) \in Nat /\ Len(shipments') \in Nat
           /\ Len(shipments) <= Len(shipments')
           /\ DOMAIN shipments = 1 .. Len(shipments)
           /\ \A j \in DOMAIN shipments' :
                 shipments'[j] = next \/ (j \in DOMAIN shipments /\ shipments'[j] = shipments[j])
<1>1. Len(shipments) \in Nat /\ DOMAIN shipments = 1 .. Len(shipments)
  BY LenProperties
<1>2. CASE shipments' = Append(shipments, next)
  <2>1. shipments' \in Seq(Shipment) /\ Len(shipments') = Len(shipments) + 1
        /\ \A j \in 1 .. Len(shipments) : shipments'[j] = shipments[j]
        /\ shipments'[Len(shipments) + 1] = next
    BY <1>2, AppendProperties
  <2>2. DOMAIN shipments' = 1 .. Len(shipments) + 1
    BY <2>1, LenProperties
  <2>3. /\ 1 .. Len(shipments) \subseteq 1 .. Len(shipments) + 1
        /\ Len(shipments) + 1 \in Nat /\ Len(shipments) <= Len(shipments) + 1
        /\ \A j \in 1 .. Len(shipments) + 1 : j \in 1 .. Len(shipments) \/ j = Len(shipments) + 1
    BY <1>1
  <2>4. \A j \in DOMAIN shipments' :
                 shipments'[j] = next \/ (j \in DOMAIN shipments /\ shipments'[j] = shipments[j])
    <3> SUFFICES ASSUME NEW j \in DOMAIN shipments', j \notin DOMAIN shipments
                 PROVE  shipments'[j] = next
      BY <1>1, <2>1
    <3>1. j = Len(shipments) + 1
      BY <1>1, <2>2, <2>3
    <3> QED
      BY <2>1, <3>1
  <2> QED
    BY <1>1, <2>1, <2>2, <2>3, <2>4, Zenon
<1>3. ASSUME NEW i \in DOMAIN shipments, shipments' = [shipments EXCEPT ![i] = next]
      PROVE  /\ shipments' \in Seq(Shipment) /\ Len(shipments') = Len(shipments)
             /\ DOMAIN shipments' = DOMAIN shipments
             /\ \A j \in DOMAIN shipments' : shipments'[j] = next \/ shipments'[j] = shipments[j]
  <2>1. shipments' \in Seq(Shipment) /\ Len(shipments') = Len(shipments)
        /\ \A j \in 1 .. Len(shipments) : shipments'[j] = IF j = i THEN next ELSE shipments[j]
    BY <1>1, <1>3, ExceptSeq
  <2>2. DOMAIN shipments' = DOMAIN shipments
    BY <1>3
  <2> QED
    BY <1>1, <2>1, <2>2, Zenon
<1>4. Len(shipments) <= Len(shipments)
  BY <1>1
<1> QED
  BY <1>1, <1>2, <1>3, <1>4, Zenon

\* What upsert_shipment writes, and where.
LEMMA ShipmentWritten ==
    ASSUME ShippingTypes, NEW b \in Labellers, NEW coded \in BOOLEAN, upsert_shipment(b, coded)
    PROVE  \E next \in Shipment :
              \/ shipments' = Append(shipments, next) /\ ~next.delivered
              \/ \E i \in DOMAIN shipments :
                    /\ shipments' = [shipments EXCEPT ![i] = next]
                    /\ next.order = shipments[i].order
                    /\ next.delivered = shipments[i].delivered
<1>1. Len(shipments) \in Nat /\ DOMAIN shipments = 1 .. Len(shipments)
      /\ DOMAIN parcel = 1 .. Len(parcel) /\ Len(parcel) \in Nat
  BY LenProperties DEF ShippingTypes
<1>2. label[b] \in Labelling /\ label[b].of \in DOMAIN parcel
      /\ label[b].row \in 0 .. Len(shipments)
  BY DEF ShippingTypes, upsert_shipment
<1>3. label[b].of \in Parcels /\ label[b].order \in Orders
  BY <1>1, <1>2, FulfilmentAssumption DEF Parcels, Labelling, ShippingTypes
<1>4. PICK code \in Parcels \cup {0} : code = IF coded THEN label[b].of ELSE 0
  BY <1>3
<1>5. PICK status \in Statuses : status = IF label[b].paid THEN "paid" ELSE "created"
  BY DEF Statuses
<1>6. CASE label[b].row = 0
  <2>1. [order |-> label[b].order, ext |-> label[b].of, code |-> code,
         status |-> status, delivered |-> FALSE] \in Shipment
    BY <1>3 DEF Shipment
  <2>2. shipments' = Append(shipments, [order |-> label[b].order, ext |-> label[b].of,
                       code |-> code, status |-> status, delivered |-> FALSE])
    BY <1>4, <1>5, <1>6 DEF upsert_shipment
  <2> QED
    BY <2>1, <2>2
<1>7. CASE label[b].row # 0
  <2> DEFINE i == label[b].row
  <2>1. i \in DOMAIN shipments
    BY <1>1, <1>2, <1>7
  <2>2. shipments[i] \in Shipment
    BY <2>1, ElementOfSeq, <1>1 DEF ShippingTypes
  <2> DEFINE next == Relabelled(shipments[i], label[b].of, coded, status)
  <2>3. next \in Shipment /\ next.order = shipments[i].order
        /\ next.delivered = shipments[i].delivered
    BY <1>3, <2>2 DEF Relabelled, Shipment
  <2>4. shipments' = [shipments EXCEPT ![i] = next]
    BY <1>5, <1>7 DEF upsert_shipment
  <2> QED
    BY <2>1, <2>3, <2>4
<1> QED
  BY <1>6, <1>7

LEMMA UpsertShipmentTyped ==
    ASSUME ShippingTypes, NEW b \in Labellers, NEW coded \in BOOLEAN, upsert_shipment(b, coded)
    PROVE  ShippingTypes'
<1>1. PICK next \in Shipment :
         \/ shipments' = Append(shipments, next)
         \/ \E i \in DOMAIN shipments : shipments' = [shipments EXCEPT ![i] = next]
  BY ShipmentWritten
<1>2. /\ shipments' \in Seq(Shipment) /\ DOMAIN shipments \subseteq DOMAIN shipments'
      /\ Len(shipments) \in Nat /\ Len(shipments') \in Nat
      /\ Len(shipments) <= Len(shipments')
  BY <1>1, RowsTyped DEF ShippingTypes
<1>3. label[b] \in Labelling /\ label[b].of \in DOMAIN parcel
  BY DEF ShippingTypes, upsert_shipment
<1> DEFINE l == IF label[b].paid THEN NoLabelling
                ELSE [label[b] EXCEPT !.pc = "pay", !.row = 0]
<1>4. l \in Labelling /\ l.row = 0 /\ (l.pc # "idle" => l.of = label[b].of)
  <2>1. CASE label[b].paid
    BY <2>1, ConstantsTyped
  <2>2. CASE ~label[b].paid
    BY <1>3, <2>2 DEF Labelling
  <2> QED
    BY <2>1, <2>2
<1>5. label' = [label EXCEPT ![b] = l] /\ parcel' = parcel
      /\ UNCHANGED <<day, announced, tracker, cut>>
  BY DEF upsert_shipment, ShippingTypes
<1> HIDE DEF l
<1>6. l.row \in 0 .. Len(shipments')
  BY <1>2, <1>4
<1>7. /\ label' \in [Labellers -> Labelling]
      /\ \A c \in Labellers : /\ label'[c].row \in 0 .. Len(shipments')
                              /\ label'[c].pc # "idle" => label'[c].of \in DOMAIN parcel'
  BY <1>2, <1>3, <1>4, <1>5, <1>6, LabelMoves
<1> QED
  BY <1>2, <1>5, <1>7 DEF ShippingTypes

\* A request goes on, and nothing else changes but the events seen, the
\* follow-ups and the rows cut short.
LEMMA TrackerStepTyped ==
    ASSUME ShippingTypes, NEW h \in Trackers, NEW next \in Tracking,
           tracker' = [tracker EXCEPT ![h] = next],
           next.pc # "idle" => next.row \in DOMAIN shipments,
           cut' \subseteq DOMAIN shipments,
           UNCHANGED <<day, parcel, announced, shipments, label>>
    PROVE  ShippingTypes'
<1>1. /\ tracker' \in [Trackers -> Tracking]
      /\ \A g \in Trackers : tracker'[g].pc # "idle" => tracker'[g].row \in DOMAIN shipments'
  BY TrackerMoves
<1> QED
  BY <1>1 DEF ShippingTypes

LEMMA WebhookTyped ==
    ASSUME ShippingTypes, NEW h \in Trackers, NEW e \in announced,
           receive_superfrete_webhook(h, e)
    PROVE  ShippingTypes'
<1>1. Len(shipments) \in Nat /\ DOMAIN shipments = 1 .. Len(shipments)
  BY LenProperties DEF ShippingTypes
<1>2. Matching(e) \in SUBSET DOMAIN shipments /\ Matching(e) # {}
  BY DEF receive_superfrete_webhook, Matching
<1>3. Newest(Matching(e)) \in DOMAIN shipments
  BY <1>2, NewestFound DEF ShippingTypes
<1>4. PICK i \in DOMAIN shipments : i = Newest(Matching(e))
  BY <1>3
<1> DEFINE next == [pc |-> "record", event |-> e, row |-> i, todo |-> {}]
<1>5. next \in Tracking /\ next.row = i
  BY <1>1, <1>4 DEF Tracking, ShippingTypes
<1>6. tracker' = [tracker EXCEPT ![h] = next]
  BY <1>4 DEF receive_superfrete_webhook
<1>7. UNCHANGED <<day, parcel, announced, shipments, label, cut>>
  BY DEF receive_superfrete_webhook
<1> HIDE DEF next
<1> QED
  BY <1>5, <1>6, <1>7, TrackerStepTyped DEF ShippingTypes

LEMMA RecordEventTyped ==
    ASSUME ShippingTypes, NEW h \in Trackers, RecordEvent(h)
    PROVE  ShippingTypes' /\ tracker'[h].pc \in {"idle", "apply"}
           /\ \A g \in Trackers \ {h} : tracker'[g] = tracker[g]
<1>1. tracker[h] \in Tracking /\ tracker[h].row \in DOMAIN shipments
  BY DEF RecordEvent, ShippingTypes
<1>2. PICK next \in Tracking :
         /\ next = IF EventId(tracker[h].event) \in seen THEN NoTracking
                   ELSE [tracker[h] EXCEPT !.pc = "apply"]
         /\ next.pc \in {"idle", "apply"}
         /\ next.pc # "idle" => next.row = tracker[h].row
  <2> DEFINE t == [tracker[h] EXCEPT !.pc = "apply"]
  <2>1. t \in Tracking /\ t.pc = "apply" /\ t.row = tracker[h].row
    BY <1>1 DEF Tracking
  <2> HIDE DEF t
  <2>2. CASE EventId(tracker[h].event) \in seen
    BY <2>2, ConstantsTyped
  <2>3. CASE EventId(tracker[h].event) \notin seen
    BY <2>1, <2>3 DEF t
  <2> QED
    BY <2>2, <2>3
<1>3. tracker' = [tracker EXCEPT ![h] = next]
  BY <1>2 DEF RecordEvent, ShippingTypes
<1>4. UNCHANGED <<day, parcel, announced, shipments, label, cut>>
  BY DEF RecordEvent
<1>5. ShippingTypes'
  BY <1>1, <1>2, <1>3, <1>4, TrackerStepTyped DEF ShippingTypes
<1> QED
  BY <1>2, <1>3, <1>5 DEF ShippingTypes

\* What ApplyEvent writes, and how the request goes on.
LEMMA EventApplied ==
    ASSUME ShippingTypes, NEW h \in Trackers, ApplyEvent(h)
    PROVE  \E i \in DOMAIN shipments, s \in Shipment, next \in Tracking :
              /\ i = tracker[h].row
              /\ shipments' = [shipments EXCEPT ![i] = s]
              /\ s.order = shipments[i].order
              /\ tracker' = [tracker EXCEPT ![h] = next]
              /\ \/ next.pc = "idle" /\ s.delivered = shipments[i].delivered
                 \/ next.pc = "schedule" /\ next.row = i /\ next.todo = Kinds
<1> DEFINE e == tracker[h].event
           i == tracker[h].row
           s == Tracked(shipments[i], e)
<1>1. tracker[h] \in Tracking /\ i \in DOMAIN shipments
  BY DEF ApplyEvent, ShippingTypes
<1>2. e \in Event
  BY <1>1 DEF Tracking
<1>3. shipments[i] \in Shipment
  BY <1>1, ElementOfSeq, LenProperties DEF ShippingTypes
<1>4. s \in Shipment /\ s.order = shipments[i].order
      /\ s.delivered = (shipments[i].delivered \/ e.kind = "delivered")
  BY <1>2, <1>3 DEF Tracked, Shipment, Statuses, Event
<1>5. shipments' = [shipments EXCEPT ![i] = s]
  BY DEF ApplyEvent
<1>6. CASE e.kind = "delivered"
  <2> DEFINE next == [tracker[h] EXCEPT !.pc = "schedule", !.todo = Kinds]
  <2>1. next \in Tracking /\ next.pc = "schedule" /\ next.row = i /\ next.todo = Kinds
    BY <1>1 DEF Tracking
  <2>2. tracker' = [tracker EXCEPT ![h] = next]
    BY <1>6 DEF ApplyEvent, ShippingTypes
  <2> HIDE DEF s, next
  <2> QED
    BY <1>1, <1>4, <1>5, <2>1, <2>2
<1>7. CASE e.kind # "delivered"
  <2>1. tracker' = [tracker EXCEPT ![h] = NoTracking]
    BY <1>7 DEF ApplyEvent, ShippingTypes
  <2>2. shipments[i].delivered \in BOOLEAN
    BY <1>3 DEF Shipment
  <2>3. s.delivered = shipments[i].delivered
    BY <1>4, <1>7, <2>2
  <2> HIDE DEF s
  <2> QED
    BY <1>1, <1>4, <1>5, <2>1, <2>3, ConstantsTyped
<1> QED
  BY <1>6, <1>7

LEMMA ApplyEventTyped ==
    ASSUME ShippingTypes, NEW h \in Trackers, ApplyEvent(h)
    PROVE  ShippingTypes'
<1>1. PICK i \in DOMAIN shipments, s \in Shipment, next \in Tracking :
         /\ i = tracker[h].row
         /\ shipments' = [shipments EXCEPT ![i] = s]
         /\ tracker' = [tracker EXCEPT ![h] = next]
         /\ next.pc # "idle" => next.row = i
  BY EventApplied
<1>2. shipments' \in Seq(Shipment) /\ Len(shipments') = Len(shipments)
  BY <1>1, ExceptSeq, LenProperties DEF ShippingTypes
<1>3. DOMAIN shipments' = DOMAIN shipments
  BY <1>1
<1>4. /\ tracker' \in [Trackers -> Tracking]
      /\ \A g \in Trackers : tracker'[g].pc # "idle" => tracker'[g].row \in DOMAIN shipments'
  BY <1>1, <1>3, TrackerMoves
<1> QED
  BY <1>2, <1>3, <1>4 DEF ApplyEvent, ShippingTypes

LEMMA ScheduleTyped ==
    ASSUME FulfilmentTypeOK, NEW h \in Trackers, NEW k \in Kinds,
           _schedule_delivery_followups(h, k)
    PROVE  FulfilmentTypeOK'
<1> DEFINE i == tracker[h].row
           o == shipments[i].order
           rest == tracker[h].todo \ {k}
           due == tracker[h].event.at + Delay[k]
<1>t. ShippingTypes /\ LoyaltyTypes
  BY TypesInHalves
<1>1. tracker[h] \in Tracking /\ i \in DOMAIN shipments
  BY <1>t DEF _schedule_delivery_followups, ShippingTypes
<1>2. shipments[i] \in Shipment
  BY <1>1, <1>t, ElementOfSeq, LenProperties DEF ShippingTypes
<1>3. o \in Orders /\ due \in Nat
  <2>1. o \in Orders
    BY <1>2 DEF Shipment
  <2>2. tracker[h].event.at \in 0 .. LastDay /\ Delay[k] \in Nat
    BY <1>1, FulfilmentAssumption DEF Tracking, Event
  <2> QED
    BY <2>1, <2>2
<1>4. PICK next \in Tracking :
         /\ next = IF rest = {} THEN NoTracking ELSE [tracker[h] EXCEPT !.todo = rest]
         /\ next.pc # "idle" => next.row = i
  <2>1. [tracker[h] EXCEPT !.todo = rest] \in Tracking
        /\ [tracker[h] EXCEPT !.todo = rest].row = i
    BY <1>1 DEF Tracking
  <2>2. CASE rest = {}
    BY <2>2, ConstantsTyped
  <2>3. CASE rest # {}
    BY <2>1, <2>3
  <2> QED
    BY <2>2, <2>3
<1>5. tracker' = [tracker EXCEPT ![h] = next]
  BY <1>4, <1>t DEF _schedule_delivery_followups, ShippingTypes
<1>6. ShippingTypes'
  BY <1>1, <1>4, <1>5, <1>t, TrackerStepTyped DEF _schedule_delivery_followups, ShippingTypes
<1>7. followup' \in [Orders -> [Kinds -> Followup]]
  <2>1. followup[o][k] \in Followup
    BY <1>3, <1>t DEF LoyaltyTypes
  <2>2. Scheduled(followup[o][k], due) \in Followup
    BY <1>3, <2>1 DEF Scheduled, Followup
  <2>3. followup' = [followup EXCEPT ![o][k] = Scheduled(@, due)]
    BY Zenon DEF _schedule_delivery_followups
  <2> HIDE DEF o, due
  <2> QED
    BY <1>3, <1>t, <2>2, <2>3 DEF LoyaltyTypes
<1>8. LoyaltyTypes'
  BY <1>7, <1>t DEF _schedule_delivery_followups, loyaltyVars, LoyaltyTypes
<1> QED
  BY <1>6, <1>8, TypesInHalves

\* The steps of the cron change nothing of the parcels.
LEMMA ShippingKept ==
    ASSUME ShippingTypes, UNCHANGED <<day, shippingVars>> \/
                          UNCHANGED <<day, parcel, announced, shipments, label, tracker, cut>>
    PROVE  ShippingTypes'
BY DEF ShippingTypes, shippingVars

LEMMA DueRowsTyped ==
    ASSUME ShippingTypes
    PROVE  /\ DueRows \subseteq Due
           /\ \A r \in DueRows : followup[r.order][r.kind].status = "scheduled"
                                /\ followup[r.order][r.kind].due = r.due
                                /\ r.copy \in Copies(r.order)
<1>1. Len(shipments) \in Nat /\ day \in Nat
  BY LenProperties, FulfilmentAssumption DEF ShippingTypes
<1>2. 1 .. Len(shipments) + 1 \subseteq Nat /\ 0 .. day \subseteq Nat
  BY <1>1
<1> QED
  BY <1>2 DEF DueRows, Due

\* A run goes on with another record.
LEMMA RunMoves ==
    ASSUME LoyaltyTypes, NEW d \in Dispatchers, NEW next \in Run,
           run' = [run EXCEPT ![d] = next]
    PROVE  /\ run' \in [Dispatchers -> Run] /\ run'[d] = next
           /\ \A e \in Dispatchers \ {d} : run'[e] = run[e]
BY DEF LoyaltyTypes

LEMMA BeginRunTyped ==
    ASSUME FulfilmentTypeOK, NEW d \in Dispatchers, _check_and_dispatch(d)
    PROVE  FulfilmentTypeOK'
<1>t. ShippingTypes /\ LoyaltyTypes
  BY TypesInHalves
<1>1. DueRows \subseteq Due
  BY <1>t, DueRowsTyped
<1> DEFINE next == [pc |-> "next", todo |-> DueRows, hand |-> NoDue]
<1>2. next \in Run
  BY <1>1, ConstantsTyped DEF Run
<1>3. run' = [run EXCEPT ![d] = next]
  BY DEF _check_and_dispatch
<1>4. \A r \in DueRows : <<r.order, r.kind>> \in Orders \X Kinds
  BY <1>1 DEF Due
<1>5. excused' \subseteq Orders \X Kinds
  BY <1>4, <1>t DEF _check_and_dispatch, Followups, LoyaltyTypes
<1>6. ran' \in [Dispatchers -> 0 .. LastDay]
  BY <1>t DEF _check_and_dispatch, ShippingTypes, LoyaltyTypes
<1>7. UNCHANGED <<followup, reached>> /\ UNCHANGED <<day, shippingVars>>
  BY DEF _check_and_dispatch, shippingVars
<1>8. LoyaltyTypes'
  BY <1>2, <1>3, <1>5, <1>6, <1>7, <1>t, RunMoves DEF LoyaltyTypes
<1> QED
  BY <1>7, <1>8, <1>t, ShippingKept, TypesInHalves

\* What Dispatch does, with its row and the run's next record named.
Dispatched(d, sends, fails, r, next) ==
    /\ r \in Due
    /\ run' = [run EXCEPT ![d] = next]
    /\ next.todo = run[d].todo \ {r}
    /\ next.pc = IF fails THEN "next" ELSE "mark"
    /\ ~fails => next.hand = r
    /\ reached' = [reached EXCEPT ![r.order][r.kind] = IF sends THEN @ + 1 ELSE @]
    /\ excused' = IF fails THEN excused \cup {<<r.order, r.kind>>} ELSE excused

LEMMA RowDispatched ==
    ASSUME LoyaltyTypes, NEW d \in Dispatchers, NEW sends \in BOOLEAN, NEW fails \in BOOLEAN,
           Dispatch(d, sends, fails)
    PROVE  \E r \in run[d].todo, next \in Run : Dispatched(d, sends, fails, r, next)
<1>1. PICK r \in run[d].todo :
         /\ run' = [run EXCEPT ![d] = [pc |-> IF fails THEN "next" ELSE "mark",
                                       todo |-> run[d].todo \ {r},
                                       hand |-> IF fails THEN NoDue ELSE r]]
         /\ reached' = [reached EXCEPT ![r.order][r.kind] = IF sends THEN @ + 1 ELSE @]
         /\ excused' = IF fails THEN excused \cup {<<r.order, r.kind>>} ELSE excused
  BY DEF Dispatch
<1>2. run[d] \in Run /\ r \in Due
  BY DEF LoyaltyTypes, Run
<1> DEFINE next == [pc |-> IF fails THEN "next" ELSE "mark", todo |-> run[d].todo \ {r},
                    hand |-> IF fails THEN NoDue ELSE r]
<1>3. next \in Run
  BY <1>2, ConstantsTyped DEF Run
<1>4. next.todo = run[d].todo \ {r} /\ next.pc = (IF fails THEN "next" ELSE "mark")
      /\ (~fails => next.hand = r)
  OBVIOUS
<1>5. run' = [run EXCEPT ![d] = next]
  BY <1>1
<1> HIDE DEF next
<1> QED
  BY <1>1, <1>2, <1>3, <1>4, <1>5 DEF Dispatched

LEMMA DispatchTyped ==
    ASSUME FulfilmentTypeOK, NEW d \in Dispatchers, NEW sends \in BOOLEAN,
           NEW fails \in BOOLEAN, Dispatch(d, sends, fails)
    PROVE  FulfilmentTypeOK'
<1>t. ShippingTypes /\ LoyaltyTypes
  BY TypesInHalves
<1>1. PICK r \in run[d].todo, next \in Run : Dispatched(d, sends, fails, r, next)
  BY <1>t, RowDispatched
<1>2. r.order \in Orders /\ r.kind \in Kinds
  BY <1>1 DEF Dispatched, Due
<1>3. reached' \in [Orders -> [Kinds -> Nat]]
  BY <1>1, <1>2, <1>t DEF Dispatched, LoyaltyTypes
<1>4. excused' \subseteq Orders \X Kinds
  BY <1>1, <1>2, <1>t DEF Dispatched, LoyaltyTypes
<1>5. UNCHANGED <<day, shippingVars>> /\ ran' = ran /\ followup' = followup
  BY DEF Dispatch, shippingVars
<1>6. LoyaltyTypes'
  BY <1>1, <1>3, <1>4, <1>5, <1>t, RunMoves DEF Dispatched, LoyaltyTypes
<1> QED
  BY <1>5, <1>6, <1>t, ShippingKept, TypesInHalves

LEMMA MarkTyped ==
    ASSUME FulfilmentTypeOK, NEW d \in Dispatchers, NEW fails \in BOOLEAN,
           _mark_followup_sent(d, fails)
    PROVE  FulfilmentTypeOK'
<1> DEFINE r == run[d].hand
           next == [run[d] EXCEPT !.pc = "next", !.hand = NoDue]
<1>t. ShippingTypes /\ LoyaltyTypes
  BY TypesInHalves
<1>1. run[d] \in Run /\ r \in Due
  BY <1>t DEF LoyaltyTypes, Run
<1>2. next \in Run
  BY <1>1, ConstantsTyped DEF Run
<1>3. run' = [run EXCEPT ![d] = next]
  BY <1>t DEF _mark_followup_sent, LoyaltyTypes
<1>4. <<r.order, r.kind>> \in Orders \X Kinds
  BY <1>1 DEF Due
<1>5. excused' \subseteq Orders \X Kinds
  <2>1. CASE fails
    BY <1>4, <1>t, <2>1 DEF _mark_followup_sent, LoyaltyTypes
  <2>2. CASE ~fails
    BY <1>t, <2>2 DEF _mark_followup_sent, LoyaltyTypes
  <2> QED
    BY <2>1, <2>2
<1>6. followup' \in [Orders -> [Kinds -> Followup]]
  <2>1. CASE fails
    BY <1>t, <2>1 DEF _mark_followup_sent, LoyaltyTypes
  <2>2. CASE ~fails
    <3>1. \A o \in Orders, k \in Kinds :
            [followup[o][k] EXCEPT !.status = "sent"] \in Followup /\ followup[o][k] \in Followup
      BY <1>t DEF LoyaltyTypes, Followup
    <3> QED
      BY <2>2, <3>1 DEF _mark_followup_sent
  <2> QED
    BY <2>1, <2>2
<1>7. UNCHANGED <<day, parcel, announced, shipments, label, tracker, cut>>
      /\ UNCHANGED <<ran, reached>>
  BY DEF _mark_followup_sent
<1>8. LoyaltyTypes'
  BY <1>2, <1>3, <1>5, <1>6, <1>7, <1>t, RunMoves DEF LoyaltyTypes
<1> QED
  BY <1>7, <1>8, <1>t, ShippingKept, TypesInHalves

\* The end of a run, its own or by the death of its process.
LEMMA EndTyped ==
    ASSUME FulfilmentTypeOK, NEW d \in Dispatchers, RunEnds(d) \/ DispatcherDies(d)
    PROVE  FulfilmentTypeOK'
<1>t. ShippingTypes /\ LoyaltyTypes
  BY TypesInHalves
<1>1. run' = [run EXCEPT ![d] = NoRun] /\ UNCHANGED <<day, shippingVars>>
      /\ UNCHANGED <<ran, reached>> /\ followup' = followup
  BY DEF RunEnds, DispatcherDies, shippingVars
<1>2. excused' \subseteq Orders \X Kinds
  <2>1. run[d].hand \in Due
    BY <1>t DEF LoyaltyTypes, Run
  <2>2. <<run[d].hand.order, run[d].hand.kind>> \in Orders \X Kinds
    BY <2>1 DEF Due
  <2> QED
    BY <1>t, <2>2 DEF RunEnds, DispatcherDies, LoyaltyTypes
<1>3. LoyaltyTypes'
  BY <1>1, <1>2, <1>t, ConstantsTyped, RunMoves DEF LoyaltyTypes
<1> QED
  BY <1>1, <1>3, <1>t, ShippingKept, TypesInHalves

LEMMA TrackerFailsTyped ==
    ASSUME ShippingTypes, NEW h \in Trackers, TrackerFails(h)
    PROVE  ShippingTypes'
<1>1. cut' \subseteq DOMAIN shipments
  BY DEF TrackerFails, ShippingTypes
<1> QED
  BY <1>1, ConstantsTyped, TrackerStepTyped DEF TrackerFails

\* Steps of the labels and the events leave the loyalty messages alone.
LEMMA LoyaltyKept ==
    ASSUME LoyaltyTypes, UNCHANGED <<followup, loyaltyVars>>
    PROVE  LoyaltyTypes'
BY DEF LoyaltyTypes, loyaltyVars

LEMMA FulfilmentTyped ==
    ASSUME FulfilmentTypeOK, FulfilmentNext
    PROVE  FulfilmentTypeOK'
<1>t. ShippingTypes /\ LoyaltyTypes
  BY TypesInHalves
<1>1. CASE Ship
  <2>1. ShippingTypes'
    BY <1>1, <1>t, CarryTyped, AddToCartTyped, FindShipmentTyped, UpsertShipmentTyped,
       CheckoutTyped DEF Ship
  <2>2. UNCHANGED <<followup, loyaltyVars>>
    BY <1>1 DEF Ship, Carry, AddToCart, FindShipment, upsert_shipment, Checkout
  <2> QED
    BY <1>t, <2>1, <2>2, LoyaltyKept, TypesInHalves
<1>2. ASSUME NEW h \in Trackers, NEW e \in announced, receive_superfrete_webhook(h, e)
      PROVE  FulfilmentTypeOK'
  BY <1>2, <1>t, WebhookTyped, LoyaltyKept, TypesInHalves DEF receive_superfrete_webhook
<1>3. ASSUME NEW h \in Trackers, RecordEvent(h) PROVE FulfilmentTypeOK'
  BY <1>3, <1>t, RecordEventTyped, LoyaltyKept, TypesInHalves DEF RecordEvent
<1>4. ASSUME NEW h \in Trackers, ApplyEvent(h) PROVE FulfilmentTypeOK'
  BY <1>4, <1>t, ApplyEventTyped, LoyaltyKept, TypesInHalves DEF ApplyEvent
<1>5. CASE Track
  BY <1>2, <1>3, <1>4, <1>5, ScheduleTyped DEF Track
<1>6. ASSUME NEW b \in Labellers, SaveFails(b) \/ LabelFails(b) PROVE FulfilmentTypeOK'
  BY <1>6, <1>t, SaveFailsTyped, LabelFailsTyped, LoyaltyKept, TypesInHalves
  DEF SaveFails, LabelFails
<1>7. ASSUME NEW h \in Trackers, TrackerFails(h) PROVE FulfilmentTypeOK'
  BY <1>7, <1>t, TrackerFailsTyped, LoyaltyKept, TypesInHalves DEF TrackerFails
<1>8. ASSUME NEW d \in Dispatchers, Loyalty(d) PROVE FulfilmentTypeOK'
  BY <1>8, BeginRunTyped, DispatchTyped, MarkTyped, EndTyped DEF Loyalty
<1>9. CASE DayPasses
  <2>1. day' \in 0 .. LastDay
    BY <1>9, <1>t, FulfilmentAssumption DEF DayPasses, ShippingTypes
  <2>2. ShippingTypes'
    BY <1>9, <1>t, <2>1 DEF DayPasses, shippingVars, ShippingTypes
  <2> QED
    BY <1>9, <1>t, <2>2, LoyaltyKept, TypesInHalves DEF DayPasses, shippingVars
<1> QED
  BY <1>1, <1>5, <1>6, <1>7, <1>8, <1>9 DEF FulfilmentNext

-----------------------------------------------------------------------------
(* A recorded delivery is followed up *)

\* A request at its follow-ups has armed those that are not left to do.
Scheduling ==
    \A h \in Trackers : tracker[h].pc = "schedule" =>
        \A k \in Kinds \ tracker[h].todo :
            followup[shipments[tracker[h].row].order][k].status # "none"

FollowedUp == FulfilmentTypeOK /\ DeliveryIsFollowedUp /\ Scheduling

\* No row of a shipment is delivered anew or changes its order, no follow-up
\* goes away and no request enters or leaves its follow-ups.
LEMMA FollowedUpKept ==
    ASSUME FollowedUp, FulfilmentTypeOK',
           \A i \in DOMAIN shipments' :
              \/ ~shipments'[i].delivered
              \/ /\ i \in DOMAIN shipments
                 /\ shipments'[i].order = shipments[i].order /\ shipments[i].delivered,
           \A i \in DOMAIN shipments : shipments'[i].order = shipments[i].order,
           cut \subseteq cut',
           \A o \in Orders, k \in Kinds :
              followup[o][k].status # "none" => followup'[o][k].status # "none",
           \A h \in Trackers : \/ tracker'[h].pc # "schedule" /\ tracker[h].pc # "schedule"
                               \/ tracker'[h] = tracker[h]
    PROVE  DeliveryIsFollowedUp' /\ Scheduling'
<1>1. ShippingTypes /\ ShippingTypes'
  BY TypesInHalves DEF FollowedUp
<1>2. \A i \in DOMAIN shipments : shipments[i].order \in Orders
  <2>1. \A i \in DOMAIN shipments : shipments[i] \in Shipment
    BY <1>1, ElementOfSeq, LenProperties DEF ShippingTypes
  <2> QED
    BY <2>1 DEF Shipment
<1>3. ASSUME NEW i \in DOMAIN shipments' \ cut', shipments'[i].delivered
      PROVE  \/ \A k \in Kinds : followup'[shipments'[i].order][k].status # "none"
             \/ \E h \in Trackers : tracker'[h].pc = "schedule" /\ tracker'[h].row = i
  <2>1. i \in DOMAIN shipments \ cut /\ shipments'[i].order = shipments[i].order
        /\ shipments[i].delivered
    BY <1>3
  <2>2. CASE \A k \in Kinds : followup[shipments[i].order][k].status # "none"
    BY <1>2, <2>1, <2>2
  <2>3. ASSUME NEW h \in Trackers, tracker[h].pc = "schedule", tracker[h].row = i
        PROVE  tracker'[h].pc = "schedule" /\ tracker'[h].row = i
    BY <2>3
  <2> QED
    BY <2>1, <2>2, <2>3 DEF FollowedUp, DeliveryIsFollowedUp
<1>4. ASSUME NEW h \in Trackers, tracker'[h].pc = "schedule", NEW k \in Kinds \ tracker'[h].todo
      PROVE  followup'[shipments'[tracker'[h].row].order][k].status # "none"
  <2>1. tracker'[h] = tracker[h] /\ tracker[h].pc = "schedule"
    BY <1>4
  <2>2. tracker[h].row \in DOMAIN shipments
    BY <1>1, <2>1 DEF ShippingTypes
  <2>3. followup[shipments[tracker[h].row].order][k].status # "none"
    BY <1>4, <2>1 DEF FollowedUp, Scheduling
  <2>4. shipments'[tracker[h].row].order = shipments[tracker[h].row].order
    BY <2>2
  <2> QED
    BY <1>2, <2>1, <2>2, <2>3, <2>4
<1> QED
  BY <1>3, <1>4 DEF DeliveryIsFollowedUp, Scheduling

LEMMA ApplyFollowedUp ==
    ASSUME FollowedUp, FulfilmentTypeOK', NEW h \in Trackers, ApplyEvent(h)
    PROVE  DeliveryIsFollowedUp' /\ Scheduling'
<1>t. ShippingTypes
  BY TypesInHalves DEF FollowedUp
<1>1. PICK i \in DOMAIN shipments, s \in Shipment, next \in Tracking :
         /\ i = tracker[h].row
         /\ shipments' = [shipments EXCEPT ![i] = s]
         /\ s.order = shipments[i].order
         /\ tracker' = [tracker EXCEPT ![h] = next]
         /\ \/ next.pc = "idle" /\ s.delivered = shipments[i].delivered
            \/ next.pc = "schedule" /\ next.row = i /\ next.todo = Kinds
  BY <1>t, EventApplied
<1>2. DOMAIN shipments' = DOMAIN shipments
      /\ \A j \in DOMAIN shipments : shipments'[j] = IF j = i THEN s ELSE shipments[j]
  BY <1>1, ExceptSeq, LenProperties, <1>t DEF ShippingTypes
<1>3. tracker[h].pc = "apply" /\ followup' = followup /\ cut' = cut
  BY DEF ApplyEvent, loyaltyVars
<1>4. tracker'[h] = next /\ \A g \in Trackers \ {h} : tracker'[g] = tracker[g]
  BY <1>1, <1>t DEF ShippingTypes
<1>5. ASSUME NEW j \in DOMAIN shipments' \ cut', shipments'[j].delivered
      PROVE  \/ \A k \in Kinds : followup'[shipments'[j].order][k].status # "none"
             \/ \E g \in Trackers : tracker'[g].pc = "schedule" /\ tracker'[g].row = j
  <2>1. shipments'[j].order = shipments[j].order /\ j \in DOMAIN shipments \ cut
    BY <1>1, <1>2, <1>3, <1>5
  <2>2. CASE ~shipments[j].delivered
    <3>1. j = i /\ next.pc = "schedule" /\ next.row = i
      BY <1>1, <1>2, <1>5, <2>2
    <3> QED
      BY <1>4, <3>1
  <2>3. CASE shipments[j].delivered
    <3>1. CASE \A k \in Kinds : followup[shipments[j].order][k].status # "none"
      BY <1>3, <2>1, <3>1
    <3>2. ASSUME NEW g \in Trackers, tracker[g].pc = "schedule", tracker[g].row = j
          PROVE  tracker'[g].pc = "schedule" /\ tracker'[g].row = j
      BY <1>3, <1>4, <3>2
    <3> QED
      BY <2>1, <2>3, <3>1, <3>2 DEF FollowedUp, DeliveryIsFollowedUp
  <2> QED
    BY <2>2, <2>3
<1>6. ASSUME NEW g \in Trackers, tracker'[g].pc = "schedule", NEW k \in Kinds \ tracker'[g].todo
      PROVE  followup'[shipments'[tracker'[g].row].order][k].status # "none"
  <2>1. g # h
    BY <1>1, <1>4, <1>6
  <2>2. tracker'[g] = tracker[g] /\ tracker[g].row \in DOMAIN shipments
    BY <1>4, <1>6, <1>t, <2>1 DEF ShippingTypes
  <2>3. shipments'[tracker[g].row].order = shipments[tracker[g].row].order
    BY <1>1, <1>2, <2>2
  <2> QED
    BY <1>3, <1>6, <2>2, <2>3 DEF FollowedUp, Scheduling
<1> QED
  BY <1>5, <1>6 DEF DeliveryIsFollowedUp, Scheduling

LEMMA ScheduleFollowedUp ==
    ASSUME FollowedUp, FulfilmentTypeOK', NEW h \in Trackers, NEW k \in Kinds,
           _schedule_delivery_followups(h, k)
    PROVE  DeliveryIsFollowedUp' /\ Scheduling'
<1> DEFINE i == tracker[h].row
           o == shipments[i].order
           rest == tracker[h].todo \ {k}
           due == tracker[h].event.at + Delay[k]
<1>t. ShippingTypes /\ LoyaltyTypes
  BY TypesInHalves DEF FollowedUp
<1>1. tracker[h] \in Tracking /\ tracker[h].pc = "schedule" /\ i \in DOMAIN shipments
  BY <1>t DEF _schedule_delivery_followups, ShippingTypes
<1>2. \A j \in DOMAIN shipments : shipments[j].order \in Orders
  <2>1. \A j \in DOMAIN shipments : shipments[j] \in Shipment
    BY <1>t, ElementOfSeq, LenProperties DEF ShippingTypes
  <2> QED
    BY <2>1 DEF Shipment
<1>3. followup' = [followup EXCEPT ![o][k] = Scheduled(@, due)]
  BY Zenon DEF _schedule_delivery_followups
<1>4. Scheduled(followup[o][k], due).status # "none"
  BY DEF Scheduled
<1>5. followup'[o][k].status # "none"
      /\ \A p \in Orders, m \in Kinds :
            followup[p][m].status # "none" => followup'[p][m].status # "none"
  <2>1. o \in Orders
    BY <1>1, <1>2
  <2> HIDE DEF o, due
  <2> QED
    BY <1>3, <1>4, <1>t, <2>1 DEF LoyaltyTypes
<1>6. UNCHANGED <<shipments, cut>>
  BY DEF _schedule_delivery_followups
<1>7. \A g \in Trackers \ {h} : tracker'[g] = tracker[g]
  BY <1>t DEF _schedule_delivery_followups, ShippingTypes
<1>8. IF rest = {} THEN tracker'[h].pc = "idle"
      ELSE tracker'[h].pc = "schedule" /\ tracker'[h].row = i /\ tracker'[h].todo = rest
  BY <1>1, <1>t, ConstantsTyped DEF _schedule_delivery_followups, ShippingTypes, Tracking
<1>9. \A m \in Kinds \ rest : followup'[o][m].status # "none"
  <2>1. \A m \in Kinds \ tracker[h].todo : followup[o][m].status # "none"
    BY <1>1 DEF FollowedUp, Scheduling
  <2> QED
    BY <1>1, <1>2, <1>5, <2>1
<1>10. ASSUME NEW j \in DOMAIN shipments' \ cut', shipments'[j].delivered
       PROVE  \/ \A m \in Kinds : followup'[shipments'[j].order][m].status # "none"
              \/ \E g \in Trackers : tracker'[g].pc = "schedule" /\ tracker'[g].row = j
  <2>1. CASE \A m \in Kinds : followup[shipments[j].order][m].status # "none"
    BY <1>2, <1>5, <1>6, <1>10, <2>1
  <2>2. ASSUME NEW g \in Trackers \ {h}, tracker[g].pc = "schedule", tracker[g].row = j
        PROVE  tracker'[g].pc = "schedule" /\ tracker'[g].row = j
    BY <1>7, <2>2
  <2>3. CASE i = j /\ rest = {}
    BY <1>6, <1>9, <2>3
  <2>4. CASE i = j /\ rest # {}
    BY <1>8, <2>4
  <2> QED
    BY <1>6, <1>10, <2>1, <2>2, <2>3, <2>4 DEF FollowedUp, DeliveryIsFollowedUp
<1>11. ASSUME NEW g \in Trackers, tracker'[g].pc = "schedule", NEW m \in Kinds \ tracker'[g].todo
       PROVE  followup'[shipments'[tracker'[g].row].order][m].status # "none"
  <2>1. CASE g = h
    BY <1>6, <1>8, <1>9, <1>11, <2>1
  <2>2. CASE g # h
    <3>1. tracker'[g] = tracker[g] /\ tracker[g].row \in DOMAIN shipments
      BY <1>7, <1>11, <1>t, <2>2 DEF ShippingTypes
    <3>2. followup[shipments[tracker[g].row].order][m].status # "none"
      BY <1>11, <3>1 DEF FollowedUp, Scheduling
    <3> QED
      BY <1>2, <1>5, <1>6, <3>1, <3>2
  <2> QED
    BY <2>1, <2>2
<1> QED
  BY <1>10, <1>11 DEF DeliveryIsFollowedUp, Scheduling

LEMMA TrackerFailsFollowedUp ==
    ASSUME FollowedUp, FulfilmentTypeOK', NEW h \in Trackers, TrackerFails(h)
    PROVE  DeliveryIsFollowedUp' /\ Scheduling'
<1>t. ShippingTypes
  BY TypesInHalves DEF FollowedUp
<1>1. UNCHANGED <<shipments, followup>> /\ cut \subseteq cut'
  BY DEF TrackerFails, loyaltyVars
<1>2. tracker'[h].pc = "idle" /\ \A g \in Trackers \ {h} : tracker'[g] = tracker[g]
  BY <1>t, ConstantsTyped DEF TrackerFails, ShippingTypes
<1>3. tracker[h].pc = "schedule" => tracker[h].row \in cut'
  BY DEF TrackerFails
<1>4. ASSUME NEW j \in DOMAIN shipments' \ cut', shipments'[j].delivered
      PROVE  \/ \A m \in Kinds : followup'[shipments'[j].order][m].status # "none"
             \/ \E g \in Trackers : tracker'[g].pc = "schedule" /\ tracker'[g].row = j
  BY <1>1, <1>2, <1>3, <1>4 DEF FollowedUp, DeliveryIsFollowedUp
<1>5. ASSUME NEW g \in Trackers, tracker'[g].pc = "schedule", NEW m \in Kinds \ tracker'[g].todo
      PROVE  followup'[shipments'[tracker'[g].row].order][m].status # "none"
  BY <1>1, <1>2, <1>5 DEF FollowedUp, Scheduling
<1> QED
  BY <1>4, <1>5 DEF DeliveryIsFollowedUp, Scheduling

LEMMA UpsertShipmentFollowedUp ==
    ASSUME FollowedUp, FulfilmentTypeOK', NEW b \in Labellers, NEW coded \in BOOLEAN,
           upsert_shipment(b, coded)
    PROVE  DeliveryIsFollowedUp' /\ Scheduling'
<1>t. ShippingTypes
  BY TypesInHalves DEF FollowedUp
<1>1. PICK next \in Shipment :
         \/ shipments' = Append(shipments, next) /\ ~next.delivered
         \/ \E i \in DOMAIN shipments :
               /\ shipments' = [shipments EXCEPT ![i] = next]
               /\ next.order = shipments[i].order
               /\ next.delivered = shipments[i].delivered
  BY <1>t, ShipmentWritten
<1>2. UNCHANGED <<tracker, followup, cut>>
  BY DEF upsert_shipment, loyaltyVars
<1>3. shipments \in Seq(Shipment) /\ DOMAIN shipments = 1 .. Len(shipments)
  BY <1>t, LenProperties DEF ShippingTypes
<1>4. /\ \A i \in DOMAIN shipments : shipments'[i].order = shipments[i].order
      /\ \A i \in DOMAIN shipments' :
            ~shipments'[i].delivered \/
              (/\ i \in DOMAIN shipments
               /\ shipments'[i].order = shipments[i].order /\ shipments[i].delivered)
  <2>1. CASE shipments' = Append(shipments, next) /\ ~next.delivered
    <3>1. \A i \in DOMAIN shipments : shipments'[i] = shipments[i]
      BY <1>3, <2>1, AppendProperties
    <3>2. \A i \in DOMAIN shipments' :
             shipments'[i] = next \/ (i \in DOMAIN shipments /\ shipments'[i] = shipments[i])
      BY <1>3, <2>1, RowsTyped
    <3> QED
      BY <2>1, <3>1, <3>2
  <2>2. ASSUME NEW i \in DOMAIN shipments, shipments' = [shipments EXCEPT ![i] = next],
               next.order = shipments[i].order, next.delivered = shipments[i].delivered
        PROVE  /\ \A j \in DOMAIN shipments : shipments'[j].order = shipments[j].order
               /\ DOMAIN shipments' = DOMAIN shipments
               /\ \A j \in DOMAIN shipments :
                     shipments'[j].delivered = shipments[j].delivered
    BY <2>2
  <2> QED
    BY <1>1, <2>1, <2>2
<1> QED
  BY <1>2, <1>4, FollowedUpKept

LEMMA FollowedUpStep ==
    ASSUME FollowedUp, FulfilmentNext
    PROVE  FollowedUp'
<1>1. FulfilmentTypeOK'
  BY FulfilmentTyped DEF FollowedUp
<1>t. ShippingTypes /\ LoyaltyTypes
  BY TypesInHalves DEF FollowedUp
<1>2. ASSUME UNCHANGED <<shipments, tracker, cut>>,
             \A o \in Orders, k \in Kinds :
                followup[o][k].status # "none" => followup'[o][k].status # "none"
      PROVE  FollowedUp'
  BY <1>1, <1>2, FollowedUpKept DEF FollowedUp
<1>3. ASSUME UNCHANGED <<shipments, followup, cut>>, NEW h \in Trackers,
             \A g \in Trackers \ {h} : tracker'[g] = tracker[g],
             tracker[h].pc # "schedule", tracker'[h].pc # "schedule"
      PROVE  FollowedUp'
  BY <1>1, <1>3, FollowedUpKept DEF FollowedUp
<1>4. CASE Ship
  <2>1. ASSUME NEW b \in Labellers, NEW flag \in BOOLEAN, upsert_shipment(b, flag)
        PROVE  FollowedUp'
    BY <1>1, <2>1, UpsertShipmentFollowedUp DEF FollowedUp
  <2>2. ASSUME UNCHANGED <<shipments, tracker, cut, followup>> PROVE FollowedUp'
    BY <1>2, <2>2
  <2> QED
    BY <1>4, <2>1, <2>2 DEF Ship, Carry, AddToCart, FindShipment, Checkout, loyaltyVars
<1>5. CASE Track
  <2>1. ASSUME NEW h \in Trackers, NEW e \in announced, receive_superfrete_webhook(h, e)
        PROVE  FollowedUp'
    <3>1. /\ tracker[h].pc = "idle" /\ tracker'[h].pc = "record"
          /\ \A g \in Trackers \ {h} : tracker'[g] = tracker[g]
      BY <1>t, <2>1 DEF receive_superfrete_webhook, ShippingTypes
    <3> QED
      BY <1>3, <2>1, <3>1 DEF receive_superfrete_webhook
  <2>2. ASSUME NEW h \in Trackers, RecordEvent(h) PROVE FollowedUp'
    <3>1. /\ tracker[h].pc = "record" /\ tracker'[h].pc \in {"idle", "apply"}
          /\ \A g \in Trackers \ {h} : tracker'[g] = tracker[g]
      BY <1>t, <2>2, RecordEventTyped DEF RecordEvent
    <3> QED
      BY <1>3, <2>2, <3>1 DEF RecordEvent, loyaltyVars
  <2> QED
    BY <1>1, <1>5, <2>1, <2>2, ApplyFollowedUp, ScheduleFollowedUp DEF Track, FollowedUp
<1>6. ASSUME NEW b \in Labellers, SaveFails(b) \/ LabelFails(b) PROVE FollowedUp'
  BY <1>2, <1>6 DEF SaveFails, LabelFails
<1>7. ASSUME NEW h \in Trackers, TrackerFails(h) PROVE FollowedUp'
  BY <1>1, <1>7, TrackerFailsFollowedUp DEF FollowedUp
<1>8. ASSUME NEW d \in Dispatchers, Loyalty(d) PROVE FollowedUp'
  <2>1. ASSUME NEW fails \in BOOLEAN, _mark_followup_sent(d, fails) PROVE FollowedUp'
    <3>1. \A o \in Orders, k \in Kinds :
             followup[o][k].status # "none" => followup'[o][k].status # "none"
      BY <1>t, <2>1 DEF _mark_followup_sent, LoyaltyTypes, Followup
    <3> QED
      BY <1>2, <2>1, <3>1 DEF _mark_followup_sent
  <2>2. ASSUME UNCHANGED shippingVars PROVE FollowedUp'
    BY <1>2, <2>2 DEF shippingVars
  <2> QED
    BY <1>8, <2>1, <2>2 DEF Loyalty, _check_and_dispatch, Dispatch, RunEnds, DispatcherDies
<1>9. CASE DayPasses
  BY <1>2, <1>9 DEF DayPasses, shippingVars
<1> QED
  BY <1>4, <1>5, <1>6, <1>7, <1>8, <1>9 DEF FulfilmentNext

-----------------------------------------------------------------------------
(* A follow-up is sent once *)

Pair(r) == <<r.order, r.kind>>

\* What is in hand was due; nothing but an excused pair is in hand twice.
HeldOnce ==
    \A d, e \in Dispatchers : \A r \in InHand(d), q \in InHand(e) :
        Pair(r) = Pair(q) /\ Pair(r) \notin excused => d = e /\ r = q

HeldWasDue ==
    \A d \in Dispatchers : \A r \in InHand(d) : followup[r.order][r.kind].status # "none"

\* What is still to send was not sent.
TodoUnsent ==
    \A d \in Dispatchers : \A r \in run[d].todo :
        Pair(r) \notin excused => reached[r.order][r.kind] = 0

\* What was sent is marked, or its run is about to mark it.
SentIsMarked ==
    \A o \in Orders, k \in Kinds :
        reached[o][k] > 0 /\ <<o, k>> \notin excused =>
            \/ followup[o][k].status = "sent"
            \/ \E d \in Dispatchers : run[d].pc = "mark" /\ Pair(run[d].hand) = <<o, k>>

SentOnce ==
    /\ FulfilmentTypeOK
    /\ HeldOnce /\ HeldWasDue /\ TodoUnsent /\ SentIsMarked /\ FollowupSentOnce

\* The rows of a run are rows of orders and kinds.
LEMMA HeldTyped ==
    ASSUME LoyaltyTypes, NEW d \in Dispatchers
    PROVE  /\ run[d] \in Run
           /\ \A r \in InHand(d) : r \in Due /\ r.order \in Orders /\ r.kind \in Kinds
<1>1. run[d] \in Run
  BY DEF LoyaltyTypes
<1>2. \A r \in InHand(d) : r \in Due
  BY <1>1 DEF InHand, Run
<1> QED
  BY <1>1, <1>2 DEF Due

\* A follow-up that exists goes on existing, and a sent one stays sent.
Onward ==
    \A o \in Orders, k \in Kinds :
        /\ followup[o][k].status # "none" => followup'[o][k].status # "none"
        /\ followup[o][k].status = "sent" => followup'[o][k].status = "sent"

LEMMA SentOnceKept ==
    ASSUME SentOnce, FulfilmentTypeOK', Onward, UNCHANGED <<run, reached, excused>>
    PROVE  SentOnce'
<1>1. LoyaltyTypes
  BY TypesInHalves DEF SentOnce
<1>2. \A d \in Dispatchers : InHand(d)' = InHand(d)
  BY DEF InHand
<1>3. HeldOnce'
  BY <1>2 DEF SentOnce, HeldOnce
<1>4. HeldWasDue'
  BY <1>1, <1>2, HeldTyped DEF SentOnce, HeldWasDue, Onward
<1>5. TodoUnsent' /\ FollowupSentOnce'
  BY DEF SentOnce, TodoUnsent, FollowupSentOnce
<1>6. SentIsMarked'
  BY DEF SentOnce, SentIsMarked, Onward
<1> QED
  BY <1>3, <1>4, <1>5, <1>6 DEF SentOnce

\* Of a row that is due and not excused there is one copy: its order has at
\* most one shipment.
LEMMA OneCopy ==
    ASSUME ShippingTypes, NEW o \in Orders, ~(Cardinality(Copies(o)) > 1)
    PROVE  \A x, y \in Copies(o) : x = y
<1> DEFINE rows == {i \in DOMAIN shipments : shipments[i].order = o}
           n == Cardinality(rows)
           m == IF n = 0 THEN 1 ELSE n
<1>1. Len(shipments) \in Nat /\ DOMAIN shipments = 1 .. Len(shipments)
  BY LenProperties DEF ShippingTypes
<1>2. IsFiniteSet(DOMAIN shipments)
  BY <1>1, FS_Interval
<1>3. IsFiniteSet(rows)
  BY <1>2, FS_Subset
<1>4. n \in Nat
  BY <1>3, FS_CardinalityType
<1>5. m \in Nat
  <2> HIDE DEF n
  <2> QED
    BY <1>4
<1>6. Copies(o) = 1 .. m
  BY DEF Copies
<1> HIDE DEF m
<1>7. Cardinality(1 .. m) = IF 1 > m THEN 0 ELSE m - 1 + 1
  BY <1>5, FS_Interval
<1>8. m <= 1
  BY <1>5, <1>6, <1>7
<1>9. \A x \in 1 .. m : x = 1
  BY <1>5, <1>8
<1> QED
  BY <1>6, <1>9

LEMMA BeginRunOnce ==
    ASSUME SentOnce, FulfilmentTypeOK', NEW d \in Dispatchers, _check_and_dispatch(d)
    PROVE  SentOnce'
<1>t. ShippingTypes /\ LoyaltyTypes
  BY TypesInHalves DEF SentOnce
<1>1. /\ run'[d].pc = "next" /\ run'[d].todo = DueRows
      /\ \A e \in Dispatchers \ {d} : run'[e] = run[e]
      /\ UNCHANGED <<followup, reached>> /\ run[d].pc = "idle"
  BY <1>t DEF _check_and_dispatch, shippingVars, LoyaltyTypes
<1>2. InHand(d)' = DueRows /\ \A e \in Dispatchers \ {d} : InHand(e)' = InHand(e)
  BY <1>1 DEF InHand
<1>3. /\ excused \subseteq excused'
      /\ \A r \in DueRows : Cardinality(Copies(r.order)) > 1 => Pair(r) \in excused'
  BY DEF _check_and_dispatch, Followups, Pair
<1>4. ASSUME NEW e \in Dispatchers \ {d}, NEW r \in DueRows, NEW q \in InHand(e), Pair(r) = Pair(q)
      PROVE  Pair(r) \in excused'
  BY <1>4 DEF _check_and_dispatch, Followups, Pair
<1>5. \A r \in DueRows : /\ r \in Due /\ r.order \in Orders /\ r.kind \in Kinds
                        /\ followup[r.order][r.kind].status = "scheduled"
                        /\ followup[r.order][r.kind].due = r.due
                        /\ r.copy \in Copies(r.order)
  BY <1>t, DueRowsTyped DEF Due
<1>6. ASSUME NEW r \in DueRows, NEW q \in DueRows, Pair(r) = Pair(q), Pair(r) \notin excused'
      PROVE  r = q
  <2>1. r.order = q.order /\ r.kind = q.kind
    BY <1>6 DEF Pair
  <2>2. r.due = q.due
    BY <1>5, <2>1
  <2>3. r.copy = q.copy
    BY <1>3, <1>5, <1>6, <1>t, <2>1, OneCopy
  <2> QED
    BY <1>5, <2>1, <2>2, <2>3 DEF Due
<1>7. HeldOnce'
  <2> SUFFICES ASSUME NEW e \in Dispatchers, NEW f \in Dispatchers,
                      NEW r \in InHand(e)', NEW q \in InHand(f)',
                      Pair(r) = Pair(q), Pair(r) \notin excused'
               PROVE  e = f /\ r = q
    BY DEF HeldOnce
  <2>1. CASE e = d /\ f = d
    BY <1>2, <1>6, <2>1
  <2>2. CASE e = d /\ f # d
    BY <1>2, <1>4, <2>2
  <2>3. CASE e # d /\ f = d
    BY <1>2, <1>4, <2>3
  <2>4. CASE e # d /\ f # d
    BY <1>2, <1>3, <2>4 DEF SentOnce, HeldOnce
  <2> QED
    BY <2>1, <2>2, <2>3, <2>4
<1>8. HeldWasDue'
  BY <1>1, <1>2, <1>5 DEF SentOnce, HeldWasDue
<1>9. ASSUME NEW r \in DueRows, Pair(r) \notin excused' PROVE reached[r.order][r.kind] = 0
  <2>1. reached[r.order][r.kind] \in Nat /\ r.order \in Orders /\ r.kind \in Kinds
    BY <1>5, <1>t DEF LoyaltyTypes
  <2>2. followup[r.order][r.kind].status # "sent" /\ <<r.order, r.kind>> \notin excused
    BY <1>3, <1>5, <1>9 DEF Pair
  <2>3. ASSUME NEW e \in Dispatchers, run[e].pc = "mark", Pair(run[e].hand) = <<r.order, r.kind>>
        PROVE  FALSE
    <3>1. e # d
      BY <1>1, <2>3
    <3>2. run[e].hand \in InHand(e)
      BY <2>3 DEF InHand
    <3> QED
      BY <1>4, <1>9, <2>3, <3>1, <3>2 DEF Pair
  <2>4. ~(reached[r.order][r.kind] > 0)
    BY <2>1, <2>2, <2>3 DEF SentOnce, SentIsMarked
  <2> QED
    BY <2>1, <2>4
<1>10. TodoUnsent'
  BY <1>1, <1>3, <1>9 DEF SentOnce, TodoUnsent
<1>11. SentIsMarked'
  <2> SUFFICES ASSUME NEW o \in Orders, NEW k \in Kinds, reached[o][k] > 0,
                      <<o, k>> \notin excused', followup[o][k].status # "sent"
               PROVE  \E e \in Dispatchers : run'[e].pc = "mark" /\ Pair(run'[e].hand) = <<o, k>>
    BY <1>1 DEF SentIsMarked, Pair
  <2>1. PICK e \in Dispatchers : run[e].pc = "mark" /\ Pair(run[e].hand) = <<o, k>>
    BY <1>3 DEF SentOnce, SentIsMarked
  <2> QED
    BY <1>1, <2>1
<1>12. FollowupSentOnce'
  BY <1>1, <1>3 DEF SentOnce, FollowupSentOnce
<1> QED
  BY <1>7, <1>8, <1>10, <1>11, <1>12 DEF SentOnce

LEMMA DispatchOnce ==
    ASSUME SentOnce, FulfilmentTypeOK', NEW d \in Dispatchers, NEW sends \in BOOLEAN,
           NEW fails \in BOOLEAN, Dispatch(d, sends, fails)
    PROVE  SentOnce'
<1>t. LoyaltyTypes
  BY TypesInHalves DEF SentOnce
<1>0. PICK r \in run[d].todo, next \in Run : Dispatched(d, sends, fails, r, next)
  BY <1>t, RowDispatched
<1>1. /\ r \in Due
      /\ run' = [run EXCEPT ![d] = next]
      /\ next.todo = run[d].todo \ {r}
      /\ next.pc = IF fails THEN "next" ELSE "mark"
      /\ ~fails => next.hand = r
      /\ reached' = [reached EXCEPT ![r.order][r.kind] = IF sends THEN @ + 1 ELSE @]
      /\ excused' = IF fails THEN excused \cup {<<r.order, r.kind>>} ELSE excused
  BY <1>0 DEF Dispatched
<1>2. run'[d] = next /\ \A e \in Dispatchers \ {d} : run'[e] = run[e]
  BY <1>1, <1>t DEF LoyaltyTypes
<1>3. run[d].pc = "next" /\ r \in InHand(d) /\ followup' = followup
  BY DEF Dispatch, InHand, shippingVars
<1>4. r.order \in Orders /\ r.kind \in Kinds
  BY <1>1 DEF Due
<1>5. InHand(d)' \subseteq InHand(d) /\ \A e \in Dispatchers \ {d} : InHand(e)' = InHand(e)
  BY <1>1, <1>2, <1>3 DEF InHand
<1>6. excused \subseteq excused' /\ (fails => Pair(r) \in excused')
  BY <1>1 DEF Pair
<1>7. /\ \A o \in Orders, k \in Kinds : <<o, k>> # Pair(r) => reached'[o][k] = reached[o][k]
      /\ reached'[r.order][r.kind] \in {reached[r.order][r.kind], reached[r.order][r.kind] + 1}
      /\ reached[r.order][r.kind] \in Nat
  BY <1>1, <1>4, <1>t DEF LoyaltyTypes, Pair
<1>8. HeldOnce'
  BY <1>5, <1>6 DEF SentOnce, HeldOnce
<1>9. HeldWasDue'
  BY <1>3, <1>5 DEF SentOnce, HeldWasDue
<1>10. Pair(r) \notin excused' => reached[r.order][r.kind] = 0
  BY <1>6 DEF SentOnce, TodoUnsent
<1>11. TodoUnsent'
  <2> SUFFICES ASSUME NEW e \in Dispatchers, NEW q \in run'[e].todo, Pair(q) \notin excused'
               PROVE  reached'[q.order][q.kind] = 0
    BY DEF TodoUnsent, Pair
  <2>1. q \in run[e].todo /\ (e = d => q # r)
    BY <1>1, <1>2
  <2>2. q \in InHand(e) /\ q.order \in Orders /\ q.kind \in Kinds
    BY <1>t, <2>1, HeldTyped DEF InHand
  <2>3. Pair(q) # Pair(r)
    BY <1>3, <1>6, <2>1, <2>2 DEF SentOnce, HeldOnce
  <2>4. reached[q.order][q.kind] = 0
    BY <1>6, <2>1 DEF SentOnce, TodoUnsent
  <2> QED
    BY <1>7, <2>2, <2>3, <2>4 DEF Pair
<1>12. SentIsMarked'
  <2> SUFFICES ASSUME NEW o \in Orders, NEW k \in Kinds, reached'[o][k] > 0,
                      <<o, k>> \notin excused', followup[o][k].status # "sent"
               PROVE  \E e \in Dispatchers : run'[e].pc = "mark" /\ Pair(run'[e].hand) = <<o, k>>
    BY <1>3 DEF SentIsMarked, Pair
  <2>1. CASE <<o, k>> = Pair(r)
    BY <1>1, <1>2, <1>6, <2>1
  <2>2. CASE <<o, k>> # Pair(r)
    <3>1. reached[o][k] > 0 /\ <<o, k>> \notin excused
      BY <1>6, <1>7, <2>2
    <3>2. PICK e \in Dispatchers : run[e].pc = "mark" /\ Pair(run[e].hand) = <<o, k>>
      BY <3>1 DEF SentOnce, SentIsMarked
    <3> QED
      BY <1>2, <1>3, <3>2
  <2> QED
    BY <2>1, <2>2
<1>13. FollowupSentOnce'
  <2> SUFFICES ASSUME NEW o \in Orders, NEW k \in Kinds, reached'[o][k] > 1,
                      <<o, k>> \notin excused'
               PROVE  FALSE
    BY DEF FollowupSentOnce
  <2>1. CASE <<o, k>> = Pair(r)
    BY <1>7, <1>10, <2>1 DEF Pair
  <2>2. CASE <<o, k>> # Pair(r)
    BY <1>6, <1>7, <2>2 DEF SentOnce, FollowupSentOnce
  <2> QED
    BY <2>1, <2>2
<1> QED
  BY <1>8, <1>9, <1>11, <1>12, <1>13 DEF SentOnce

\* A run gives up what it has in hand; what was sent but not marked is excused.
LEMMA ReleaseOnce ==
    ASSUME SentOnce, FulfilmentTypeOK', NEW d \in Dispatchers,
           \A e \in Dispatchers \ {d} : run'[e] = run[e],
           run'[d].pc # "mark", run'[d].todo \subseteq run[d].todo,
           Onward, reached' = reached, excused \subseteq excused',
           run[d].pc = "mark" =>
              LET p == Pair(run[d].hand) IN
              p \in excused' \/ (\A o \in Orders, k \in Kinds :
                                  p = <<o, k>> => followup'[o][k].status = "sent")
    PROVE  SentOnce'
<1>t. LoyaltyTypes
  BY TypesInHalves DEF SentOnce
<1>1. \A e \in Dispatchers : InHand(e)' \subseteq InHand(e)
  BY DEF InHand
<1>2. HeldOnce'
  BY <1>1 DEF SentOnce, HeldOnce
<1>3. HeldWasDue'
  BY <1>1, <1>t, HeldTyped DEF SentOnce, HeldWasDue, Onward
<1>4. \A e \in Dispatchers : run'[e].todo \subseteq run[e].todo
  OBVIOUS
<1>5. TodoUnsent' /\ FollowupSentOnce'
  BY <1>4 DEF SentOnce, TodoUnsent, FollowupSentOnce
<1>6. SentIsMarked'
  <2> SUFFICES ASSUME NEW o \in Orders, NEW k \in Kinds, reached[o][k] > 0,
                      <<o, k>> \notin excused', followup'[o][k].status # "sent"
               PROVE  \E e \in Dispatchers : run'[e].pc = "mark" /\ Pair(run'[e].hand) = <<o, k>>
    BY DEF SentIsMarked, Pair
  <2>1. followup[o][k].status # "sent" /\ <<o, k>> \notin excused
    BY DEF Onward
  <2>2. PICK e \in Dispatchers : run[e].pc = "mark" /\ Pair(run[e].hand) = <<o, k>>
    BY <2>1 DEF SentOnce, SentIsMarked
  <2>3. e # d
    BY <2>2
  <2> QED
    BY <2>2, <2>3
<1> QED
  BY <1>2, <1>3, <1>5, <1>6 DEF SentOnce

LEMMA MarkOnce ==
    ASSUME SentOnce, FulfilmentTypeOK', NEW d \in Dispatchers, NEW fails \in BOOLEAN,
           _mark_followup_sent(d, fails)
    PROVE  SentOnce'
<1>t. LoyaltyTypes
  BY TypesInHalves DEF SentOnce
<1> DEFINE r == run[d].hand
<1>1. run[d] \in Run /\ run[d].pc = "mark" /\ r \in InHand(d)
      /\ r \in Due /\ r.order \in Orders /\ r.kind \in Kinds
  BY <1>t, HeldTyped DEF _mark_followup_sent, InHand
<1>2. /\ \A e \in Dispatchers \ {d} : run'[e] = run[e]
      /\ run'[d].pc = "next" /\ run'[d].todo = run[d].todo
  BY <1>1, <1>t DEF _mark_followup_sent, LoyaltyTypes, Run
<1>3. reached' = reached
  BY DEF _mark_followup_sent
<1>4. CASE fails
  <2>1. excused \subseteq excused' /\ Pair(r) \in excused' /\ followup' = followup
    BY <1>4 DEF _mark_followup_sent, Pair
  <2>2. Onward
    BY <2>1 DEF Onward
  <2> QED
    BY <1>2, <1>3, <2>1, <2>2, ReleaseOnce
<1>5. CASE ~fails
  <2>1. excused' = excused
        /\ followup' = [o \in Orders |-> [k \in Kinds |->
                           IF <<o, k>> \in Alike(r.order, r.kind)
                                /\ followup[o][k].status = "scheduled"
                           THEN [followup[o][k] EXCEPT !.status = "sent"]
                           ELSE followup[o][k]]]
    BY <1>5 DEF _mark_followup_sent
  <2>2. \A o \in Orders, k \in Kinds : followup[o][k] \in Followup
    BY <1>t DEF LoyaltyTypes
  <2>3. Onward
    BY <2>1, <2>2 DEF Onward, Followup
  <2>4. Pair(r) \in Alike(r.order, r.kind)
    BY <1>1 DEF Alike, Pair
  <2>5. followup[r.order][r.kind].status \in {"scheduled", "sent"}
    BY <1>1, <2>2 DEF SentOnce, HeldWasDue, Followup
  <2>6. followup'[r.order][r.kind].status = "sent"
    BY <1>1, <2>1, <2>2, <2>4, <2>5 DEF Pair, Followup
  <2>7. \A o \in Orders, k \in Kinds : Pair(r) = <<o, k>> => followup'[o][k].status = "sent"
    BY <2>6 DEF Pair
  <2> QED
    BY <1>2, <1>3, <2>1, <2>3, <2>7, ReleaseOnce
<1> QED
  BY <1>4, <1>5

LEMMA EndOnce ==
    ASSUME SentOnce, FulfilmentTypeOK', NEW d \in Dispatchers, RunEnds(d) \/ DispatcherDies(d)
    PROVE  SentOnce'
<1>t. LoyaltyTypes
  BY TypesInHalves DEF SentOnce
<1>1. /\ \A e \in Dispatchers \ {d} : run'[e] = run[e]
      /\ run'[d].pc = "idle" /\ run'[d].todo = {} /\ reached' = reached
      /\ followup' = followup /\ excused \subseteq excused'
  BY <1>t, ConstantsTyped DEF RunEnds, DispatcherDies, shippingVars, LoyaltyTypes, NoRun
<1>2. run[d].pc = "mark" => Pair(run[d].hand) \in excused'
  BY DEF RunEnds, DispatcherDies, Pair
<1>3. Onward
  BY <1>1 DEF Onward
<1> QED
  BY <1>1, <1>2, <1>3, ReleaseOnce

LEMMA ScheduleOnward ==
    ASSUME FulfilmentTypeOK, NEW h \in Trackers, NEW k \in Kinds,
           _schedule_delivery_followups(h, k)
    PROVE  Onward
<1> DEFINE o == shipments[tracker[h].row].order
           due == tracker[h].event.at + Delay[k]
<1>t. LoyaltyTypes
  BY TypesInHalves
<1>1. followup' = [followup EXCEPT ![o][k] = Scheduled(@, due)]
  BY Zenon DEF _schedule_delivery_followups
<1>2. \A x : /\ Scheduled(x, due).status # "none"
             /\ x.status = "sent" => Scheduled(x, due).status = "sent"
  BY DEF Scheduled
<1> HIDE DEF o, due
<1> QED
  BY <1>1, <1>2, <1>t DEF Onward, LoyaltyTypes

LEMMA SentOnceStep ==
    ASSUME SentOnce, FulfilmentNext
    PROVE  SentOnce'
<1>1. FulfilmentTypeOK'
  BY FulfilmentTyped DEF SentOnce
<1>2. ASSUME UNCHANGED <<followup, loyaltyVars>> PROVE SentOnce'
  <2>1. Onward
    BY <1>2 DEF Onward
  <2> QED
    BY <1>1, <1>2, <2>1, SentOnceKept DEF loyaltyVars
<1>3. CASE Ship
  BY <1>2, <1>3 DEF Ship, Carry, AddToCart, FindShipment, upsert_shipment, Checkout
<1>4. CASE Track
  <2>1. ASSUME NEW h \in Trackers, NEW k \in Kinds, _schedule_delivery_followups(h, k)
        PROVE  SentOnce'
    <3>1. UNCHANGED <<run, reached, excused>>
      BY <2>1 DEF _schedule_delivery_followups, loyaltyVars
    <3> QED
      BY <1>1, <2>1, <3>1, ScheduleOnward, SentOnceKept DEF SentOnce
  <2> QED
    BY <1>2, <1>4, <2>1 DEF Track, receive_superfrete_webhook, RecordEvent, ApplyEvent
<1>5. ASSUME NEW d \in Dispatchers, Loyalty(d) PROVE SentOnce'
  BY <1>1, <1>5, BeginRunOnce, DispatchOnce, MarkOnce, EndOnce DEF Loyalty
<1>6. CASE DayPasses
  BY <1>2, <1>6 DEF DayPasses, shippingVars
<1> QED
  BY <1>2, <1>3, <1>4, <1>5, <1>6 DEF FulfilmentNext, SaveFails, LabelFails, TrackerFails

-----------------------------------------------------------------------------
(* The parts together *)

FulfilmentInv == FollowedUp /\ SentOnce

LEMMA FulfilmentInitInv == FulfilmentInit => FulfilmentInv
<1> SUFFICES ASSUME FulfilmentInit PROVE FulfilmentInv
  OBVIOUS
<1>1. FulfilmentTypeOK
  BY FulfilmentInitTyped
<1>2. DeliveryIsFollowedUp /\ Scheduling
  BY ConstantsTyped DEF FulfilmentInit, DeliveryIsFollowedUp, Scheduling
<1>3. \A d \in Dispatchers : InHand(d) = {} /\ run[d].todo = {}
  BY DEF FulfilmentInit, InHand, NoRun
<1>4. \A o \in Orders, k \in Kinds : reached[o][k] = 0
  BY DEF FulfilmentInit
<1>5. HeldOnce /\ HeldWasDue /\ TodoUnsent /\ SentIsMarked /\ FollowupSentOnce
  BY <1>3, <1>4 DEF HeldOnce, HeldWasDue, TodoUnsent, SentIsMarked, FollowupSentOnce
<1> QED
  BY <1>1, <1>2, <1>5 DEF FulfilmentInv, FollowedUp, SentOnce

LEMMA FulfilmentUnchanged == FulfilmentInv /\ UNCHANGED fulfilmentVars => FulfilmentInv'
<1> SUFFICES ASSUME FulfilmentInv, UNCHANGED fulfilmentVars PROVE FulfilmentInv'
  OBVIOUS
<1> USE DEF fulfilmentVars, shippingVars, loyaltyVars
<1>1. FulfilmentTypeOK'
  BY DEF FulfilmentInv, FollowedUp, FulfilmentTypeOK
<1>2. DeliveryIsFollowedUp' /\ Scheduling'
  BY DEF FulfilmentInv, FollowedUp, DeliveryIsFollowedUp, Scheduling
<1>3. Onward
  BY DEF Onward
<1>4. SentOnce'
  BY <1>1, <1>3, SentOnceKept DEF FulfilmentInv
<1> QED
  BY <1>1, <1>2, <1>4 DEF FulfilmentInv, FollowedUp

\* The faults of the parcels and the messages stay within the common bound.
LEMMA FulfilmentFaults ==
    ASSUME faults \in 0 .. MaxFaults, FulfilmentNext
    PROVE  faults' \in 0 .. MaxFaults
<1>1. faults' = faults \/ (faults < MaxFaults /\ faults' = faults + 1)
  BY DEF FulfilmentNext, SaveFails, LabelFails, TrackerFails, Loyalty, Dispatch,
         _mark_followup_sent, DispatcherDies
<1> QED
  BY <1>1, MemoryAssumption

RecordsInv == MemoryInv /\ FulfilmentInv /\ QueueInv

LEMMA RecordsStep == RecordsInv /\ [Next]_vars => RecordsInv'
<1> SUFFICES ASSUME RecordsInv, [Next]_vars PROVE RecordsInv'
  OBVIOUS
<1>1. CASE MemoryNext /\ UNCHANGED <<fulfilmentVars, queueVars>>
  BY <1>1, MemoryNextInv, FulfilmentUnchanged, QueueNextInv DEF RecordsInv
<1>2. CASE /\ FulfilmentNext
           /\ UNCHANGED <<enabled, keyed, optedOut, lead, summaryTurns, chat, task, inbound,
                          resummarised, unpurged, queueVars>>
  <2>1. faults' \in 0 .. MaxFaults
    BY <1>2, FulfilmentFaults DEF RecordsInv, MemoryInv, MemoryTypeOK
  <2>2. MemoryTypeOK'
    BY <1>2, <2>1 DEF RecordsInv, MemoryInv, MemoryTypeOK
  <2>3. OptOutPurgesMemory'
    BY <1>2, PurgeKept DEF RecordsInv
  <2>4. QueueInv'
    BY <1>2, QueueNextInv DEF RecordsInv
  <2>5. FulfilmentInv'
    BY <1>2, FollowedUpStep, SentOnceStep DEF RecordsInv, FulfilmentInv
  <2> QED
    BY <2>2, <2>3, <2>4, <2>5 DEF RecordsInv, MemoryInv
<1>3. CASE QueueNext /\ UNCHANGED <<memoryVars, fulfilmentVars>>
  BY <1>3, MemoryNextInv, FulfilmentUnchanged, QueueNextInv DEF RecordsInv
<1>4. CASE UNCHANGED vars
  BY <1>4, MemoryNextInv, FulfilmentUnchanged, QueueNextInv DEF RecordsInv, vars
<1> QED
  BY <1>1, <1>2, <1>3, <1>4 DEF Next

LEMMA RecordsInvariant == Spec => []RecordsInv
<1>1. Init => RecordsInv
  BY MemoryInitInv, FulfilmentInitInv, QueueInitInv DEF Init, RecordsInv
<1> QED
  BY <1>1, RecordsStep, PTL DEF Spec

-----------------------------------------------------------------------------
(* Theorems *)

\* Every table, counter, call and request keeps its type: the rows that calls
\* and requests hold exist.
THEOREM RecordsTypeCorrect == Spec => []RecordsTypeOK
<1>1. RecordsInv => RecordsTypeOK
  BY DEF RecordsInv, MemoryInv, QueueInv, FulfilmentInv, FollowedUp, RecordsTypeOK
<1> QED
  BY <1>1, RecordsInvariant, PTL

\* A recorded delivery has all its follow-ups, or its request has them under
\* way or was cut short.
THEOREM DeliveriesAreFollowedUp == Spec => []DeliveryIsFollowedUp
<1>1. RecordsInv => DeliveryIsFollowedUp
  BY DEF RecordsInv, FulfilmentInv, FollowedUp
<1> QED
  BY <1>1, RecordsInvariant, PTL

\* A follow-up reaches the lead twice only after an overlap of two runs, for
\* an order with two shipments, or after a fault of its run.
THEOREM FollowupsSentOnce == Spec => []FollowupSentOnce
<1>1. RecordsInv => FollowupSentOnce
  BY DEF RecordsInv, FulfilmentInv, SentOnce
<1> QED
  BY <1>1, RecordsInvariant, PTL

\* The forgetting of an opt-out holds beside everything else.
THEOREM OptOutForgetsBesides == Spec => []OptOutPurgesMemory
<1>1. RecordsInv => OptOutPurgesMemory
  BY DEF RecordsInv, MemoryInv
<1> QED
  BY <1>1, RecordsInvariant, PTL
=============================================================================
