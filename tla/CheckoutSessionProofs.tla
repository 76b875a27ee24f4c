----------------------- MODULE CheckoutSessionProofs -----------------------
(***************************************************************************)
(* What the checkout conversation guarantees, for any number of workers,   *)
(* turns, messages and faults: the types of the session and its copies,    *)
(* how many turns charge at once, which fields a collection keeps, which   *)
(* quantity is charged and how often a collection is charged.              *)
(*                                                                         *)
(* A turn's step is one of a few kinds: it reads the session, moves on     *)
(* without writing it, or saves a copy that keeps, closes, starts or fills *)
(* a collection.  Each action is shown to be of a kind first, and each     *)
(* kind to preserve the invariants then.                                   *)
(***************************************************************************)
EXTENDS CheckoutSession, FiniteSetTheorems, TLAPS

-----------------------------------------------------------------------------
(* The collection of checkout_flow.py *)

\* What a message adds to a collection is never taken away, and what it gives
\* that is valid is in it.
LEMMA MergeKeeps ==
    ASSUME NEW collected, NEW m
    PROVE  /\ collected \subseteq merge_collected(collected, m)
           /\ {f \in parse_message(m) : validate_field(m, f)} \subseteq merge_collected(collected, m)
BY DEF merge_collected

LEMMA MergeTyped ==
    ASSUME NEW collected \in SUBSET Fields, NEW m \in Message
    PROVE  /\ merge_collected(collected, m) \in SUBSET Fields
           /\ {f \in parse_message(m) : validate_field(m, f)} \in SUBSET Fields
BY DEF merge_collected, validate_field

-----------------------------------------------------------------------------
(* Types *)

PCs == {"idle", "greet", "decide", "lock", "charge", "release", "close", "agent", "reply"}

LEMMA ConstantsTyped ==
    /\ NoSession \in Session /\ ~NoSession.active /\ NoSession.id = 0
    /\ NoTurn \in Turn /\ NoTurn.pc = "idle" /\ NoTurn.local = NoSession /\ ~NoTurn.stale
    /\ NoTurn.closes = FALSE
<1>1. NoSession \in Session /\ ~NoSession.active /\ NoSession.id = 0
  BY FlowAssumption, SessionAssumption DEF NoSession, Session, Collections
<1>2. (CHOOSE m \in Messages : TRUE) \in Messages
  BY SessionAssumption
<1>3. NoTurn \in Turn /\ NoTurn.pc = "idle" /\ NoTurn.local = NoSession /\ ~NoTurn.stale
      /\ NoTurn.closes = FALSE
  <2>1. MaxToolCalls \in Nat
    BY SessionAssumption
  <2>2. 0 \in 0 .. MaxToolCalls
    BY <2>1
  <2> QED
    BY <1>1, <1>2, <2>2 DEF NoTurn, Turn
<1> QED
  BY <1>1, <1>3

LEMMA FaultTyped ==
    ASSUME SessionTypeOK, NEW happens \in BOOLEAN, Fault(happens)
    PROVE  faults' \in 0 .. MaxFaults
<1>1. CASE happens
  BY <1>1, SessionAssumption DEF Fault, SessionTypeOK
<1>2. CASE ~happens
  BY <1>2 DEF Fault, SessionTypeOK
<1> QED
  BY <1>1, <1>2

\* A turn and its copy, the others but for their freshness.
LEMMA SaveTyped ==
    ASSUME SessionTypeOK, NEW c \in Turns, NEW s \in Session, NEW next \in PCs,
           NEW fails \in BOOLEAN, Save(c, s, next, fails)
    PROVE  /\ turn' \in [Turns -> Turn]
           /\ turn'[c].pc = next
           /\ next # "idle" => /\ turn'[c].local = s /\ turn'[c].closes = turn[c].closes
                               /\ turn'[c].stale = turn[c].stale
           /\ next = "idle" => turn'[c] = NoTurn
           /\ \A d \in Turns \ {c} :
                 /\ turn'[d].pc = turn[d].pc /\ turn'[d].local = turn[d].local
                 /\ turn'[d].closes = turn[d].closes
                 /\ turn[d].stale => turn'[d].stale
                 /\ Busy(d) /\ ~fails => turn'[d].stale
                 /\ fails => turn'[d].stale = turn[d].stale
           /\ session' \in Session /\ faults' \in 0 .. MaxFaults
<1>1. turn[c] \in Turn /\ \A d \in Turns : turn[d] \in Turn
  BY DEF SessionTypeOK
<1>2. [turn[c] EXCEPT !.pc = next, !.local = s] \in Turn
  BY <1>1 DEF Turn, PCs
<1>3. turn'[c] = IF next = "idle" THEN NoTurn ELSE [turn[c] EXCEPT !.pc = next, !.local = s]
  BY DEF Save
<1>4. ASSUME NEW d \in Turns \ {c}
      PROVE  /\ turn'[d] \in Turn
             /\ turn'[d].pc = turn[d].pc /\ turn'[d].local = turn[d].local
             /\ turn'[d].closes = turn[d].closes
             /\ turn[d].stale => turn'[d].stale
             /\ Busy(d) /\ ~fails => turn'[d].stale
             /\ fails => turn'[d].stale = turn[d].stale
  <2>1. turn'[d] = [turn[d] EXCEPT !.stale = @ \/ (Busy(d) /\ ~fails)]
    BY <1>4 DEF Save
  <2>2. PICK stale \in BOOLEAN : stale = (turn[d].stale \/ (Busy(d) /\ ~fails))
    OBVIOUS
  <2>3. turn'[d] = [turn[d] EXCEPT !.stale = stale]
    BY <2>1, <2>2
  <2>4. turn[d].stale \in BOOLEAN
    BY <1>1 DEF Turn
  <2>5. turn'[d] \in Turn /\ turn'[d].pc = turn[d].pc /\ turn'[d].local = turn[d].local
        /\ turn'[d].closes = turn[d].closes /\ turn'[d].stale = stale
    BY <1>1, <2>3 DEF Turn
  <2> QED
    BY <2>2, <2>4, <2>5
<1>5. turn' = [d \in Turns |-> turn'[d]]
  BY DEF Save
<1>6. turn' \in [Turns -> Turn]
  <2>1. turn'[c] \in Turn
    BY <1>2, <1>3, ConstantsTyped
  <2> QED
    BY <1>4, <1>5, <2>1
<1>7. next # "idle" => /\ turn'[c].local = s /\ turn'[c].closes = turn[c].closes
                       /\ turn'[c].stale = turn[c].stale /\ turn'[c].pc = next
  BY <1>1, <1>3 DEF Turn
<1>8. next = "idle" => turn'[c] = NoTurn /\ turn'[c].pc = next
  BY <1>3, ConstantsTyped
<1>9. session' \in Session /\ faults' \in 0 .. MaxFaults
  BY FaultTyped DEF Save, SessionTypeOK
<1> QED
  BY <1>4, <1>6, <1>7, <1>8, <1>9

-----------------------------------------------------------------------------
(* The kinds of steps *)

\* What the invariants know of a copy of the session.
Sound(s) ==
    /\ s \in Session /\ s.id <= started
    /\ s.active => s.id >= 1 /\ s.tries < MaxCheckoutAttempts

Kept(s, r) ==
    /\ s.id = r.id /\ s.active = r.active /\ s.fields = r.fields /\ s.qty = r.qty
    /\ s.tries = r.tries

Untold == UNCHANGED <<started, told, announced>>

\* A save that leaves the collection alone.
Keeps(c, s, next) ==
    /\ turn[c].pc \in {"greet", "decide", "reply"}
    /\ Kept(s, turn[c].local)
    /\ next \in {"idle", "greet", "decide"} /\ (turn[c].pc = "reply" => next = "idle")
    /\ Untold

\* A save that closes it; the card goes on to the charge.
Closes(c, s, next) ==
    /\ turn[c].pc \in {"decide", "close"} /\ ~s.active
    /\ s.id = turn[c].local.id /\ s.qty = turn[c].local.qty
    /\ next = "idle" \/ (next = "lock" /\ turn[c].pc = "decide" /\ turn[c].local.active)
    /\ Untold

Starts(c, s, next) ==
    /\ turn[c].pc = "decide"
    /\ s.id = started + 1 /\ s.tries = 0
    /\ (next = "idle" /\ s.active) \/ (next = "lock" /\ ~s.active)
    /\ started' = started + 1 /\ announced' = s.qty
    /\ told' = [told EXCEPT ![started + 1] = s.fields]

Collects(c, s, next, learnt) ==
    /\ turn[c].pc = "decide" /\ turn[c].local.active /\ next = "idle"
    /\ s.id = turn[c].local.id
    /\ s.active => s.tries < MaxCheckoutAttempts
    /\ turn[c].local.fields \subseteq s.fields /\ learnt \subseteq s.fields
    /\ told' = [told EXCEPT ![s.id] = @ \cup learnt]
    /\ \/ announced' = s.qty
       \/ announced' = announced /\ s.qty = turn[c].local.qty
    /\ started' = started

Saves(c, s, next, fails, learnt) ==
    /\ s \in Session /\ next \in PCs /\ learnt \in SUBSET Fields
    /\ Save(c, s, next, fails)
    /\ \/ Keeps(c, s, next)
       \/ Closes(c, s, next)
       \/ Starts(c, s, next)
       \/ Collects(c, s, next, learnt)
    /\ UNCHANGED <<profile, lock, messages, paid, lapses>>
    /\ attempts' \in [Workers -> Nat] /\ literal' \in [Workers -> Nat] /\ raised' \in [Workers -> Nat]

\* A step without a save: t is the turn after it.
Moves(c, t) ==
    /\ t \in Turn /\ turn' = [turn EXCEPT ![c] = t]
    /\ \/ turn[c].pc = "decide" /\ t.pc = "agent" /\ t.closes = turn[c].closes
       \/ turn[c].pc = "decide" /\ t.pc = "lock" /\ turn[c].local.active /\ t.closes
       \/ turn[c].pc = "lock" /\ t.pc = "charge" /\ t.closes = turn[c].closes
       \/ turn[c].pc = "charge" /\ t.pc = "release" /\ t.closes = turn[c].closes
       \/ turn[c].pc \in {"lock", "release"} /\ t.pc = "close" /\ turn[c].closes /\ t.closes
       \/ turn[c].pc \in {"lock", "release"} /\ t.pc = "idle" /\ ~turn[c].closes /\ ~t.closes
       \/ turn[c].pc = "agent" /\ t.pc \in {"agent", "reply"} /\ t.closes = turn[c].closes
       \/ turn[c].pc = "reply" /\ t.pc = "idle" /\ t = NoTurn
    /\ t # NoTurn => /\ t.local.id = turn[c].local.id /\ t.local.active = turn[c].local.active
                     /\ t.local.qty = turn[c].local.qty /\ t.local.tries = turn[c].local.tries
                     /\ t.stale = turn[c].stale
    /\ t.pc \in {"agent", "reply"} => Kept(t.local, turn[c].local)
    /\ UNCHANGED <<profile, session, messages, started, told, announced, repeatable, disturbed>>
    /\ attempts' \in [Workers -> Nat] /\ literal' \in [Workers -> Nat] /\ raised' \in [Workers -> Nat]
    /\ faults' \in 0 .. MaxFaults

\* The lock and the charge among them.
Locks(c) ==
    \/ Acquire(c) \/ AcquireOpen(c)
    \/ \E charged \in BOOLEAN : Generate(c, charged)
    \/ \E fails \in BOOLEAN : Release(c, fails)

Unlocked == UNCHANGED <<lock, paid, lapses>>

\* A charge by the agent's own tool.
Sale(c) ==
    \E t \in Turn :
        /\ turn' = [turn EXCEPT ![c] = t]
        /\ turn[c].pc = "agent" /\ t.pc = "agent"
        /\ t.local = turn[c].local /\ t.closes = turn[c].closes /\ t.stale = turn[c].stale
        /\ Mine(c).id # 0
        /\ paid' = [paid EXCEPT ![Mine(c).id] = @ + 1]
        /\ repeatable' = repeatable \cup {Mine(c).id}
        /\ UNCHANGED <<profile, session, lock, messages, faults, started, told, announced,
                       disturbed, lapses>>
        /\ attempts' \in [Workers -> Nat] /\ literal' \in [Workers -> Nat]
        /\ raised' \in [Workers -> Nat]

\* Inductive part of the types: ids are not ahead of the collections started,
\* and those not of the messages read.
Pondering == {c \in Turns : turn[c].pc \in {"greet", "decide"}}

Shaped ==
    /\ SessionTypeOK
    /\ Sound(session)
    /\ started + Cardinality(Pondering) <= messages
    /\ \A c \in Turns : Sound(turn[c].local)
    /\ \A c \in Turns : turn[c].pc \in {"lock", "charge", "release", "close"}
                           => turn[c].local.id >= 1
    /\ \A c \in Turns : turn[c].closes => turn[c].pc \in {"lock", "charge", "release", "close"}

\* What a turn and its message are.
LEMMA TurnTyped ==
    ASSUME Shaped, NEW c \in Turns
    PROVE  /\ turn[c] \in Turn /\ Sound(turn[c].local) /\ turn[c].local \in Session
           /\ turn[c].pc \in PCs
           /\ Says(c) \in Message /\ Says(c).qty \in 0 .. MaxQuantity
           /\ Says(c).bill \in Billings \cup {""}
           /\ \A b \in Billings \cup {""} : BillingOr(Says(c), b) \in Billings \cup {""}
           /\ \A q \in 0 .. MaxQuantity : QuantityOr(Says(c), q) \in 0 .. MaxQuantity
<1>1. turn[c] \in Turn /\ Sound(turn[c].local)
  BY DEF Shaped, SessionTypeOK
<1>2. turn[c].local \in Session /\ turn[c].msg \in Message /\ turn[c].pc \in PCs
  BY <1>1, SessionAssumption DEF Turn, PCs
<1> QED
  BY <1>1, <1>2 DEF Says, Message, BillingOr, QuantityOr

Saved(c, fails) ==
    \E s \in Session, next \in PCs, learnt \in SUBSET Fields : Saves(c, s, next, fails, learnt)
Moved(c) ==
    \E t \in Turn : /\ Moves(c, t)
                    /\ (Unlocked /\ t.pc \notin {"charge", "release"}) \/ Locks(c)

\* Assigning a record's fields within their ranges, for the shapes used below.
LEMMA SessionUpdates ==
    ASSUME NEW s \in Session
    PROVE  /\ \A q \in 0 .. MaxQuantity : [s EXCEPT !.lastQty = q] \in Session
           /\ \A b \in Billings \cup {""} : [s EXCEPT !.lastBill = b] \in Session
           /\ \A v \in BOOLEAN : /\ [s EXCEPT !.named = v] \in Session
                                 /\ [s EXCEPT !.push = v] \in Session
                                 /\ [s EXCEPT !.known = v] \in Session
                                 /\ [s EXCEPT !.active = v] \in Session
           /\ \A b \in Billings \cup {""} : [s EXCEPT !.stage = "", !.pendingBill = b] \in Session
           /\ \A st \in {"", "quantity", "billing", "name_confirm"}, q \in 0 .. MaxQuantity,
                 b \in Billings \cup {""} :
                 [s EXCEPT !.stage = st, !.pendingQty = q, !.pendingBill = b] \in Session
BY DEF Session

LEMMA ZeroTyped == 0 \in 0 .. MaxQuantity /\ 0 \in 0 .. MaxCheckoutAttempts
BY FlowAssumption, SessionAssumption

LEMMA SessionParts ==
    ASSUME NEW s \in Session
    PROVE  /\ s.known \in BOOLEAN /\ s.push \in BOOLEAN /\ s.named \in BOOLEAN
           /\ s.active \in BOOLEAN /\ s.id \in Collections
           /\ s.bill \in Billings \cup {""} /\ s.qty \in 0 .. MaxQuantity
           /\ s.fields \in SUBSET Fields /\ s.tries \in 0 .. MaxCheckoutAttempts
           /\ s.pendingQty \in 0 .. MaxQuantity /\ s.pendingBill \in Billings \cup {""}
           /\ s.lastQty \in 0 .. MaxQuantity /\ s.lastBill \in Billings \cup {""}
BY DEF Session

LEMMA GreetedKeeps ==
    ASSUME NEW s \in Session, profile \in BOOLEAN
    PROVE  /\ Greeted(s) \in Session /\ Kept(Greeted(s), s)
           /\ [s EXCEPT !.known = TRUE] \in Session /\ Kept([s EXCEPT !.known = TRUE], s)
<1>1. PICK v \in BOOLEAN : v = (s.push \/ (profile /\ ~s.named))
  OBVIOUS
<1>2. Greeted(s) = [s EXCEPT !.known = TRUE, !.push = v]
  BY <1>1 DEF Greeted
<1> QED
  BY <1>2 DEF Session, Kept

LEMMA GreetSaves ==
    ASSUME Shaped, NEW c \in Turns, NEW fails \in BOOLEAN, Greet(c, fails)
    PROVE  Saved(c, fails)
<1> DEFINE s == IF Mine(c).known THEN Greeted(Mine(c)) ELSE [Mine(c) EXCEPT !.known = TRUE]
           next == IF Greeted(s) = s THEN "decide" ELSE "greet"
<1>1. /\ At(c, "greet") /\ Save(c, s, next, fails)
      /\ UNCHANGED <<profile, lock, attempts, messages, started, told, announced,
                     paid, lapses, literal, raised>>
  BY DEF Greet
<1>2. s \in Session /\ Kept(s, Mine(c))
  BY TurnTyped, GreetedKeeps DEF Mine, Shaped, SessionTypeOK
<1>3. next \in {"greet", "decide"} /\ next \in PCs
  BY DEF PCs
<1> HIDE DEF s, next
<1>4. Keeps(c, s, next)
  BY <1>1, <1>2, <1>3 DEF Keeps, At, Mine, Untold
<1>5. attempts' \in [Workers -> Nat] /\ literal' \in [Workers -> Nat] /\ raised' \in [Workers -> Nat]
  BY <1>1 DEF Shaped, SessionTypeOK
<1>6. Saves(c, s, next, fails, {})
  BY <1>1, <1>2, <1>3, <1>4, <1>5 DEF Saves
<1> QED
  BY <1>2, <1>3, <1>6 DEF Saved

\* Before the collection: a save that keeps it or starts one.
Opens(c, fails) ==
    \E s \in Session, next \in PCs :
        Save(c, s, next, fails) /\ (Keeps(c, s, next) \/ Starts(c, s, next))
Others == UNCHANGED <<profile, lock, attempts, messages, paid, lapses, literal, raised>>

LEMMA OpeningSaves ==
    ASSUME Shaped, NEW c \in Turns, NEW fails \in BOOLEAN, Opens(c, fails), Others
    PROVE  Saved(c, fails)
<1>1. PICK s \in Session, next \in PCs :
        Save(c, s, next, fails) /\ (Keeps(c, s, next) \/ Starts(c, s, next))
  BY DEF Opens
<1>2. attempts' \in [Workers -> Nat] /\ literal' \in [Workers -> Nat] /\ raised' \in [Workers -> Nat]
  BY DEF Others, Shaped, SessionTypeOK
<1>3. Saves(c, s, next, fails, {})
  BY <1>1, <1>2 DEF Saves, Others
<1> QED
  BY <1>3 DEF Saved

LEMMA AskOpens ==
    ASSUME Shaped, NEW c \in Turns, NEW fails \in BOOLEAN, Deciding(c),
           NEW s \in Session, Kept(s, Mine(c)),
           NEW stage \in {"", "quantity", "billing", "name_confirm"},
           NEW q \in 0 .. MaxQuantity, NEW b \in Billings \cup {""},
           Ask(c, s, stage, q, b, fails)
    PROVE  Opens(c, fails)
<1> DEFINE r == [s EXCEPT !.stage = stage, !.pendingQty = q, !.pendingBill = b]
<1>1. Save(c, r, "idle", fails) /\ Untold
  BY DEF Ask, Untold
<1>2. r \in Session
  BY SessionUpdates
<1>3. Kept(r, Mine(c))
  BY DEF Kept, Session
<1> HIDE DEF r
<1>4. Keeps(c, r, "idle") /\ "idle" \in PCs
  BY <1>1, <1>3 DEF Keeps, Deciding, At, Mine, PCs
<1> QED
  BY <1>1, <1>2, <1>4 DEF Opens

\* A turn that decides has a message the collections started do not account for.
LEMMA RoomToStart ==
    ASSUME Shaped, NEW c \in Turns, Deciding(c)
    PROVE  started + 1 \in Collections /\ started + 1 <= messages
<1>1. IsFiniteSet(Pondering) /\ c \in Pondering
  BY SessionAssumption, FS_Subset DEF Pondering, Deciding, At
<1>2. Cardinality(Pondering) \in Nat /\ Cardinality(Pondering) # 0
  BY <1>1, FS_CardinalityType, FS_EmptySet
<1> QED
  BY <1>2, SessionAssumption DEF Shaped, SessionTypeOK, Collections

LEMMA StartOpens ==
    ASSUME Shaped, NEW c \in Turns, NEW fails \in BOOLEAN, Deciding(c),
           NEW s \in Session, Kept(s, Mine(c)),
           NEW q \in 0 .. MaxQuantity, NEW b \in Billings \cup {""},
           NEW knownName \in BOOLEAN, NEW offer \in BOOLEAN,
           _start_checkout(c, s, q, b, knownName, offer, fails)
    PROVE  Opens(c, fails)
<1> DEFINE decided == [s EXCEPT !.lastQty = q]
           active == b # "CREDIT_CARD"
           fields == IF knownName THEN {"name"} ELSE {}
           fresh == [decided EXCEPT !.id = started + 1, !.bill = b, !.qty = q, !.tries = 0,
                                    !.stage = "", !.pendingQty = 0, !.pendingBill = "",
                                    !.active = b # "CREDIT_CARD",
                                    !.fields = IF knownName THEN {"name"} ELSE {}]
           asks == b # "CREDIT_CARD" /\ offer /\ ~knownName /\ s.push /\ ~s.named
           next == IF b = "CREDIT_CARD" THEN "lock" ELSE "idle"
<1>0. decided \in Session /\ Kept(decided, Mine(c))
  <2>1. decided \in Session
    BY SessionUpdates
  <2>2. Kept(decided, s)
    BY DEF Kept, Session
  <2> QED
    BY <2>1, <2>2 DEF Kept
<1>1. CASE asks
  <2>1. Ask(c, decided, "name_confirm", q, b, fails)
    BY <1>1, Zenon DEF _start_checkout
  <2> QED
    BY <1>0, <2>1, AskOpens
<1>2. CASE ~asks
  <2>1. /\ Save(c, fresh, next, fails)
        /\ started' = started + 1
        /\ told' = [told EXCEPT ![started + 1] = fresh.fields]
        /\ announced' = q
    BY <1>2, Zenon DEF _start_checkout
  <2>2. fresh \in Session
    <3>1. active \in BOOLEAN /\ fields \in SUBSET Fields /\ started + 1 \in Collections
      BY RoomToStart DEF Fields, REQUIRED_FIELDS
    <3>2. 0 \in 0 .. MaxQuantity /\ 0 \in 0 .. MaxCheckoutAttempts
      BY ZeroTyped
    <3> HIDE DEF active, fields, decided
    <3>3. \A v \in BOOLEAN, f \in SUBSET Fields :
            [decided EXCEPT !.id = started + 1, !.bill = b, !.qty = q, !.tries = 0,
                            !.stage = "", !.pendingQty = 0, !.pendingBill = "",
                            !.active = v, !.fields = f] \in Session
      BY <1>0, <3>1, <3>2 DEF Session
    <3> QED
      BY <3>1, <3>3 DEF active, fields
  <2>3. /\ fresh.id = started + 1 /\ fresh.tries = 0 /\ fresh.qty = q
        /\ fresh.active = (b # "CREDIT_CARD")
    BY <1>0 DEF Session
  <2>4. next \in PCs /\ ((next = "idle" /\ fresh.active) \/ (next = "lock" /\ ~fresh.active))
    BY <2>3 DEF PCs
  <2> HIDE DEF fresh, next, decided, active, fields, asks
  <2>5. Starts(c, fresh, next)
    BY <2>1, <2>3, <2>4 DEF Starts, Deciding, At
  <2> QED
    BY <2>1, <2>2, <2>4, <2>5 DEF Opens
<1> QED
  BY <1>1, <1>2

LEMMA BeginOpens ==
    ASSUME Shaped, NEW c \in Turns, NEW fails \in BOOLEAN, Deciding(c),
           NEW s \in Session, Kept(s, Mine(c)),
           NEW q \in 0 .. MaxQuantity, NEW b \in Billings \cup {""},
           _begin_checkout_or_prompt(c, s, q, b, fails)
    PROVE  Opens(c, fails)
<1>0. 0 \in 0 .. MaxQuantity
  BY ZeroTyped
<1>1. CASE q = 0
  <2>1. Ask(c, s, "quantity", 0, b, fails)
    BY <1>1 DEF _begin_checkout_or_prompt
  <2> QED
    BY <1>0, <2>1, AskOpens
<1>2. CASE q # 0 /\ b = ""
  <2>1. Ask(c, s, "billing", q, "", fails)
    BY <1>2 DEF _begin_checkout_or_prompt
  <2> QED
    BY <2>1, AskOpens
<1>3. CASE q # 0 /\ b # ""
  <2>1. _start_checkout(c, s, q, b, FALSE, TRUE, fails)
    BY <1>3 DEF _begin_checkout_or_prompt
  <2> QED
    BY <2>1, StartOpens
<1> QED
  BY <1>1, <1>2, <1>3

LEMMA PrecheckoutSaves ==
    ASSUME Shaped, NEW c \in Turns, NEW fails \in BOOLEAN, _advance_precheckout(c, fails)
    PROVE  Saved(c, fails)
<1> DEFINE s == Mine(c)
<1>1. Deciding(c) /\ Others /\ (AnswerQuantity(c, fails) \/ AnswerBilling(c, fails) \/ AnswerName(c, fails))
  BY DEF _advance_precheckout, Others
<1>2. s \in Session /\ Kept(s, s)
  BY TurnTyped DEF Mine, Kept
<1>3. s.pendingQty \in 0 .. MaxQuantity /\ s.pendingBill \in Billings \cup {""}
  BY <1>2, SessionParts
<1>4. CASE AnswerQuantity(c, fails) /\ Says(c).qty = 0
  <2> DEFINE r == [s EXCEPT !.stage = "", !.pendingBill = ""]
  <2>1. Save(c, r, "decide", fails) /\ Untold
    BY <1>4 DEF AnswerQuantity, Untold
  <2>2. r \in Session /\ Kept(r, s)
    BY <1>2 DEF Session, Kept
  <2> HIDE DEF r
  <2>3. Keeps(c, r, "decide") /\ "decide" \in PCs
    BY <1>1, <2>1, <2>2 DEF Keeps, Deciding, At, Mine, PCs
  <2>4. Opens(c, fails)
    BY <2>1, <2>2, <2>3 DEF Opens
  <2> QED
    BY <1>1, <2>4, OpeningSaves
<1>5. CASE AnswerQuantity(c, fails) /\ Says(c).qty # 0
  <2> DEFINE b == IF s.pendingBill # "" THEN s.pendingBill ELSE Says(c).bill
  <2>1. _begin_checkout_or_prompt(c, s, Says(c).qty, b, fails)
    BY <1>5 DEF AnswerQuantity
  <2>2. b \in Billings \cup {""} /\ Says(c).qty \in 0 .. MaxQuantity
    BY <1>3, TurnTyped
  <2> HIDE DEF b
  <2>3. Opens(c, fails)
    BY <1>1, <1>2, <2>1, <2>2, BeginOpens
  <2> QED
    BY <1>1, <2>3, OpeningSaves
<1>6. CASE AnswerBilling(c, fails)
  <2>1. _start_checkout(c, s, s.pendingQty, BillingOr(Says(c), "PIX"), FALSE, TRUE, fails)
    BY <1>6 DEF AnswerBilling
  <2>2. BillingOr(Says(c), "PIX") \in Billings \cup {""}
    BY TurnTyped DEF Billings
  <2>3. Opens(c, fails)
    BY <1>1, <1>2, <1>3, <2>1, <2>2, StartOpens
  <2> QED
    BY <1>1, <2>3, OpeningSaves
<1>7. CASE AnswerName(c, fails) /\ Says(c).yes
  <2> DEFINE r == [s EXCEPT !.named = TRUE]
  <2>1. _start_checkout(c, r, s.pendingQty, s.pendingBill, TRUE, TRUE, fails)
    BY <1>7 DEF AnswerName
  <2>2. r \in Session /\ Kept(r, s)
    BY <1>2 DEF Session, Kept
  <2> HIDE DEF r
  <2>3. Opens(c, fails)
    BY <1>1, <1>2, <1>3, <2>1, <2>2, StartOpens
  <2> QED
    BY <1>1, <2>3, OpeningSaves
<1>8. CASE AnswerName(c, fails) /\ ~Says(c).yes
  <2> DEFINE r == [s EXCEPT !.push = FALSE]
  <2>1. _start_checkout(c, r, s.pendingQty, s.pendingBill, FALSE, FALSE, fails)
    BY <1>8 DEF AnswerName
  <2>2. r \in Session /\ Kept(r, s)
    BY <1>2 DEF Session, Kept
  <2> HIDE DEF r
  <2>3. Opens(c, fails)
    BY <1>1, <1>2, <1>3, <2>1, <2>2, StartOpens
  <2> QED
    BY <1>1, <2>3, OpeningSaves
<1> QED
  BY <1>1, <1>4, <1>5, <1>6, <1>7, <1>8

\* The free turn: notes, a purchase, the means changed after a checkout.
LEMMA FreeSaves ==
    ASSUME Shaped, NEW c \in Turns, NEW fails \in BOOLEAN,
           Note(c, fails) \/ NoteObjection(c, fails) \/ Reopen(c, fails) \/ Buy(c, fails)
    PROVE  Saved(c, fails)
<1>1. Deciding(c)
  BY DEF Note, NoteObjection, Reopen, Buy, Free
<1>2. Mine(c) \in Session /\ Kept(Mine(c), Mine(c)) /\ "decide" \in PCs
  BY TurnTyped DEF Mine, Kept, PCs
<1>3. /\ Mine(c).qty \in 0 .. MaxQuantity /\ Mine(c).lastQty \in 0 .. MaxQuantity
      /\ Mine(c).lastBill \in Billings \cup {""}
  BY <1>2, SessionParts
<1>4. /\ QuantityOr(Says(c), Mine(c).lastQty) \in 0 .. MaxQuantity
      /\ BillingOr(Says(c), Mine(c).lastBill) \in Billings \cup {""}
      /\ Says(c).bill \in Billings \cup {""}
  BY <1>3, TurnTyped
<1>5. CASE Note(c, fails)
  <2> DEFINE q == QuantityOr(Says(c), Mine(c).lastQty)
             b == BillingOr(Says(c), Mine(c).lastBill)
             quantity == [Mine(c) EXCEPT !.lastQty = q]
             noted == [Mine(c) EXCEPT !.lastQty = q, !.lastBill = b]
             r == IF quantity # Mine(c) THEN quantity ELSE noted
  <2>1. Save(c, r, "decide", fails) /\ Untold /\ Others
    BY <1>5, Zenon DEF Note, Noted, Untold, Others
  <2>2. q \in 0 .. MaxQuantity /\ b \in Billings \cup {""}
    BY <1>4
  <2> HIDE DEF q, b
  <2>3. /\ quantity \in Session /\ Kept(quantity, Mine(c))
        /\ noted \in Session /\ Kept(noted, Mine(c))
    BY <1>2, <2>2 DEF Session, Kept
  <2>4. r \in Session /\ Kept(r, Mine(c))
    BY <2>3
  <2> HIDE DEF r
  <2>5. Keeps(c, r, "decide")
    BY <1>1, <2>1, <2>4 DEF Keeps, Deciding, At, Mine
  <2>6. Opens(c, fails)
    BY <1>2, <2>1, <2>4, <2>5 DEF Opens
  <2> QED
    BY <2>1, <2>6, OpeningSaves
<1>6. CASE NoteObjection(c, fails)
  <2>1. Save(c, Mine(c), "decide", fails) /\ Untold /\ Others
    BY <1>6 DEF NoteObjection, Untold, Others
  <2>2. Keeps(c, Mine(c), "decide")
    BY <1>1, <1>2, <2>1 DEF Keeps, Deciding, At, Mine
  <2>3. Opens(c, fails)
    BY <1>2, <2>1, <2>2 DEF Opens
  <2> QED
    BY <2>1, <2>3, OpeningSaves
<1>7. CASE Reopen(c, fails)
  <2>1. _begin_checkout_or_prompt(c, Mine(c), Mine(c).qty, Says(c).bill, fails) /\ Others
    BY <1>7 DEF Reopen, Others
  <2>2. Opens(c, fails)
    BY <1>1, <1>2, <1>3, <1>4, <2>1, BeginOpens
  <2> QED
    BY <2>1, <2>2, OpeningSaves
<1>8. CASE Buy(c, fails)
  <2>1. /\ _begin_checkout_or_prompt(c, Mine(c), QuantityOr(Says(c), Mine(c).lastQty),
                                     BillingOr(Says(c), Mine(c).lastBill), fails)
        /\ Others
    BY <1>8 DEF Buy, Others
  <2>2. Opens(c, fails)
    BY <1>1, <1>2, <1>4, <2>1, BeginOpens
  <2> QED
    BY <2>1, <2>2, OpeningSaves
<1> QED
  BY <1>5, <1>6, <1>7, <1>8

LEMMA SwitchedKeeps ==
    ASSUME Shaped, NEW c \in Turns
    PROVE  /\ Switched(c) \in Session /\ Kept(Switched(c), Mine(c))
           /\ Mine(c) \in Session /\ Mine(c).fields \in SUBSET Fields
           /\ Mine(c).tries \in 0 .. MaxCheckoutAttempts
           /\ merge_collected(Mine(c).fields, Says(c)) \in SUBSET Fields
           /\ Switched(c).fields = Mine(c).fields
<1>1. Mine(c) \in Session /\ Says(c) \in Message
  BY TurnTyped DEF Mine
<1>2. Mine(c).fields \in SUBSET Fields /\ Mine(c).bill \in Billings \cup {""}
      /\ Mine(c).tries \in 0 .. MaxCheckoutAttempts
  BY <1>1, SessionParts
<1>3. PICK b \in Billings \cup {""} : b = BillingOr(Says(c), Mine(c).bill)
  BY <1>2, TurnTyped
<1>4. Switched(c) = [Mine(c) EXCEPT !.bill = b]
  BY <1>3 DEF Switched
<1>5. Switched(c) \in Session /\ Kept(Switched(c), Mine(c))
  BY <1>1, <1>4 DEF Session, Kept
<1> QED
  BY <1>1, <1>2, <1>5, MergeTyped DEF Kept

LEMMA ClosingSaves ==
    ASSUME Shaped, NEW c \in Turns, NEW fails \in BOOLEAN,
           \/ _escalate_from_checkout(c, fails)
           \/ CardInCollection(c, fails)
           \/ Close(c, fails)
    PROVE  Saved(c, fails)
<1>1. Mine(c) \in Session /\ Switched(c) \in Session /\ Kept(Switched(c), Mine(c))
  BY SwitchedKeeps
<1>2. "idle" \in PCs /\ "lock" \in PCs
  BY DEF PCs
<1>3. ASSUME NEW r \in Session, NEW next \in PCs,
             Save(c, [r EXCEPT !.active = FALSE], next, fails), Kept(r, Mine(c)),
             turn[c].pc \in {"decide", "close"}, Untold, Others,
             next = "idle" \/ (next = "lock" /\ turn[c].pc = "decide" /\ Mine(c).active)
      PROVE  Saved(c, fails)
  <2> DEFINE s == [r EXCEPT !.active = FALSE]
  <2>1. s \in Session /\ ~s.active /\ s.id = Mine(c).id /\ s.qty = Mine(c).qty
    BY <1>3 DEF Session, Kept
  <2>2. attempts' \in [Workers -> Nat] /\ literal' \in [Workers -> Nat] /\ raised' \in [Workers -> Nat]
    BY <1>3 DEF Others, Shaped, SessionTypeOK
  <2> HIDE DEF s
  <2>3. Closes(c, s, next)
    BY <1>3, <2>1 DEF Closes, Mine
  <2>4. Save(c, s, next, fails)
    BY <1>3 DEF s
  <2>5. Saves(c, s, next, fails, {})
    BY <1>3, <2>1, <2>2, <2>3, <2>4 DEF Saves, Others
  <2> QED
    BY <1>3, <2>1, <2>5 DEF Saved
<1>4. Kept(Mine(c), Mine(c))
  BY DEF Kept
<1>5. CASE _escalate_from_checkout(c, fails)
  BY <1>1, <1>2, <1>3, <1>4, <1>5 DEF _escalate_from_checkout, Collecting, Deciding, At, Untold, Others
<1>6. CASE Close(c, fails)
  BY <1>1, <1>2, <1>3, <1>4, <1>6 DEF Close, At, Untold, Others
<1>7. CASE CardInCollection(c, fails)
  BY <1>1, <1>2, <1>3, <1>7
     DEF CardInCollection, Data, Answering, Collecting, Deciding, At, Untold, Others
<1> QED
  BY <1>5, <1>6, <1>7

\* A save of a collection: told'[id] grows by what the message had of valid.
LEMMA CollectingSaves ==
    ASSUME Shaped, NEW c \in Turns, NEW fails \in BOOLEAN,
           NEW s \in Session, Collecting(c), Save(c, s, "idle", fails), Learn(c, s),
           s.id = Mine(c).id, s.fields = merge_collected(Mine(c).fields, Says(c)),
           s.active => s.tries < MaxCheckoutAttempts,
           announced' = s.qty \/ (announced' = announced /\ s.qty = Mine(c).qty),
           UNCHANGED <<profile, lock, attempts, messages, started, paid, lapses, literal, raised>>
    PROVE  Saved(c, fails)
<1> DEFINE learnt == {f \in parse_message(Says(c)) : validate_field(Says(c), f)}
<1>1. learnt \in SUBSET Fields /\ learnt \subseteq s.fields /\ Mine(c).fields \subseteq s.fields
  <2>1. Mine(c).fields \in SUBSET Fields /\ Says(c) \in Message
    BY SwitchedKeeps, TurnTyped
  <2>2. learnt \in SUBSET Fields
    BY <2>1, MergeTyped
  <2>3. /\ Mine(c).fields \subseteq merge_collected(Mine(c).fields, Says(c))
        /\ learnt \subseteq merge_collected(Mine(c).fields, Says(c))
    BY MergeKeeps
  <2> QED
    BY <2>2, <2>3
<1>2. told' = [told EXCEPT ![s.id] = @ \cup learnt]
  BY DEF Learn
<1>3. attempts' \in [Workers -> Nat] /\ literal' \in [Workers -> Nat] /\ raised' \in [Workers -> Nat]
  BY DEF Shaped, SessionTypeOK
<1> HIDE DEF learnt
<1>4. Collects(c, s, "idle", learnt)
  BY <1>1, <1>2 DEF Collects, Collecting, Deciding, At, Mine
<1>5. "idle" \in PCs
  BY DEF PCs
<1>6. Saves(c, s, "idle", fails, learnt)
  BY <1>1, <1>3, <1>4, <1>5 DEF Saves
<1> QED
  BY <1>1, <1>5, <1>6 DEF Saved

LEMMA SwitchQuantitySaves ==
    ASSUME Shaped, NEW c \in Turns, NEW fails \in BOOLEAN, SwitchQuantity(c, fails)
    PROVE  Saved(c, fails)
<1> DEFINE q == Says(c).qty
           merged == merge_collected(Mine(c).fields, Says(c))
           s == [Switched(c) EXCEPT !.qty = q, !.lastQty = q, !.fields = merged]
<1>1. /\ Save(c, s, "idle", fails) /\ Learn(c, s) /\ announced' = q /\ Data(c)
      /\ UNCHANGED <<profile, lock, attempts, messages, started, paid, lapses, literal, raised>>
  BY SwitchedKeeps DEF SwitchQuantity
<1>2. q \in 0 .. MaxQuantity /\ merged \in SUBSET Fields /\ Switched(c) \in Session
      /\ Kept(Switched(c), Mine(c))
  BY TurnTyped, SwitchedKeeps
<1>3. Collecting(c) /\ Mine(c).active /\ Mine(c).tries < MaxCheckoutAttempts
  BY <1>1, TurnTyped DEF Data, Answering, Collecting, Sound, Mine
<1> HIDE DEF q, merged
<1>4. s \in Session /\ s.qty = q /\ s.fields = merged /\ s.id = Mine(c).id /\ s.tries = Mine(c).tries
  BY <1>2 DEF Session, Kept
<1> HIDE DEF s
<1>5. s.fields = merge_collected(Mine(c).fields, Says(c))
  BY <1>4 DEF merged
<1> QED
  BY <1>1, <1>3, <1>4, <1>5, CollectingSaves

LEMMA StillCollectingSaves ==
    ASSUME Shaped, NEW c \in Turns, NEW fails \in BOOLEAN, NEW found \in SUBSET Fallback,
           StillCollecting(c, found, fails)
    PROVE  Saved(c, fails)
<1> DEFINE n == Mine(c).tries + 1
           merged == merge_collected(Mine(c).fields, Says(c))
           s == [Switched(c) EXCEPT !.fields = merged, !.tries = n,
                                    !.active = n < MaxCheckoutAttempts]
<1>1. /\ Save(c, s, "idle", fails) /\ Learn(c, s) /\ Data(c)
      /\ UNCHANGED <<profile, lock, attempts, messages, started, announced, paid, lapses, literal, raised>>
  <2>1. advance_checkout(Mine(c).fields, Says(c), found).collected = merged
    BY DEF advance_checkout
  <2> QED
    BY <2>1 DEF StillCollecting, Fills
<1>2. merged \in SUBSET Fields /\ Switched(c) \in Session /\ Kept(Switched(c), Mine(c))
  BY SwitchedKeeps
<1>3. Collecting(c) /\ Mine(c).active /\ Mine(c).tries < MaxCheckoutAttempts
  BY <1>1, TurnTyped DEF Data, Answering, Collecting, Sound, Mine
<1>4. n \in 0 .. MaxCheckoutAttempts
  BY <1>3, SwitchedKeeps, SessionAssumption
<1> HIDE DEF merged, n
<1>5. \/ s = [Switched(c) EXCEPT !.fields = merged, !.tries = n, !.active = TRUE]
         /\ n < MaxCheckoutAttempts
      \/ s = [Switched(c) EXCEPT !.fields = merged, !.tries = n, !.active = FALSE]
  <2>1. CASE n < MaxCheckoutAttempts
    <3>1. (n < MaxCheckoutAttempts) = TRUE
      BY <2>1
    <3> QED
      BY <2>1, <3>1, Zenon
  <2>2. CASE ~(n < MaxCheckoutAttempts)
    <3>1. (n < MaxCheckoutAttempts) = FALSE
      BY <2>2
    <3> QED
      BY <3>1, Zenon
  <2> QED
    BY <2>1, <2>2
<1>7. s \in Session /\ s.fields = merged /\ s.tries = n /\ s.id = Mine(c).id /\ s.qty = Mine(c).qty
      /\ (s.active => n < MaxCheckoutAttempts)
  <2>1. \A v \in BOOLEAN :
          LET r == [Switched(c) EXCEPT !.fields = merged, !.tries = n, !.active = v]
          IN  r \in Session /\ r.fields = merged /\ r.tries = n /\ r.id = Mine(c).id
              /\ r.qty = Mine(c).qty /\ r.active = v
    BY <1>2, <1>4 DEF Session, Kept
  <2> HIDE DEF s
  <2> QED
    BY <1>5, <2>1
<1> HIDE DEF s
<1>8. s.fields = merge_collected(Mine(c).fields, Says(c)) /\ (s.active => s.tries < MaxCheckoutAttempts)
  BY <1>7 DEF merged
<1> QED
  BY <1>1, <1>3, <1>7, <1>8, CollectingSaves

LEMMA ReplySaves ==
    ASSUME Shaped, NEW c \in Turns, NEW fails \in BOOLEAN, Reply(c, fails), turn[c].resumes
    PROVE  Saved(c, fails)
<1>1. /\ At(c, "reply") /\ Save(c, Mine(c), "idle", fails)
      /\ UNCHANGED <<profile, lock, attempts, messages, started, told, announced, paid,
                     lapses, literal, raised>>
  BY DEF Reply
<1>2. Mine(c) \in Session /\ Kept(Mine(c), Mine(c)) /\ "idle" \in PCs
  BY TurnTyped DEF Mine, Kept, PCs
<1>3. attempts' \in [Workers -> Nat] /\ literal' \in [Workers -> Nat] /\ raised' \in [Workers -> Nat]
  BY <1>1 DEF Shaped, SessionTypeOK
<1>4. Keeps(c, Mine(c), "idle")
  BY <1>1, <1>2 DEF Keeps, At, Mine, Untold
<1>5. Saves(c, Mine(c), "idle", fails, {})
  BY <1>1, <1>2, <1>3, <1>4 DEF Saves
<1> QED
  BY <1>2, <1>5 DEF Saved

\* Steps of a turn that only move it on.
LEMMA MoveTyped ==
    ASSUME Shaped, NEW c \in Turns, NEW pc \in PCs
    PROVE  /\ [turn[c] EXCEPT !.pc = pc] \in Turn
           /\ Kept([turn[c] EXCEPT !.pc = pc].local, turn[c].local)
           /\ [turn[c] EXCEPT !.pc = pc].pc = pc
           /\ [turn[c] EXCEPT !.pc = pc].closes = turn[c].closes
           /\ [turn[c] EXCEPT !.pc = pc].stale = turn[c].stale
           /\ [turn EXCEPT ![c].pc = pc] = [turn EXCEPT ![c] = [turn[c] EXCEPT !.pc = pc]]
<1>1. turn[c] \in Turn /\ turn \in [Turns -> Turn]
  BY DEF Shaped, SessionTypeOK
<1> QED
  BY <1>1 DEF Turn, PCs, Kept

LEMMA MoveMoves ==
    ASSUME Shaped, NEW c \in Turns, NEW pc \in PCs,
           turn' = [turn EXCEPT ![c].pc = pc],
           \/ turn[c].pc = "decide" /\ pc = "agent"
           \/ turn[c].pc = "lock" /\ pc = "charge"
           \/ turn[c].pc = "charge" /\ pc = "release"
           \/ turn[c].pc \in {"lock", "release"} /\ pc = AfterCharge(c),
           UNCHANGED <<profile, session, messages, started, told, announced, repeatable, disturbed>>,
           attempts' \in [Workers -> Nat], literal' \in [Workers -> Nat] /\ raised' \in [Workers -> Nat], faults' \in 0 .. MaxFaults,
           (Unlocked /\ pc \notin {"charge", "release"}) \/ Locks(c)
    PROVE  Moved(c)
<1> DEFINE t == [turn[c] EXCEPT !.pc = pc]
<1>1. /\ t \in Turn /\ Kept(t.local, turn[c].local) /\ t.pc = pc
      /\ t.closes = turn[c].closes /\ t.stale = turn[c].stale
      /\ turn' = [turn EXCEPT ![c] = t]
  BY MoveTyped
<1>2. turn[c].closes \in BOOLEAN
  BY TurnTyped DEF Turn
<1> HIDE DEF t
<1>3. \/ turn[c].pc = "decide" /\ t.pc = "agent" /\ t.closes = turn[c].closes
      \/ turn[c].pc = "lock" /\ t.pc = "charge" /\ t.closes = turn[c].closes
      \/ turn[c].pc = "charge" /\ t.pc = "release" /\ t.closes = turn[c].closes
      \/ turn[c].pc \in {"lock", "release"} /\ t.pc = "close" /\ turn[c].closes /\ t.closes
      \/ turn[c].pc \in {"lock", "release"} /\ t.pc = "idle" /\ ~turn[c].closes /\ ~t.closes
  <2>1. CASE turn[c].pc \in {"lock", "release"} /\ pc = AfterCharge(c)
    <3>1. CASE turn[c].closes
      BY <1>1, <2>1, <3>1, Zenon DEF AfterCharge
    <3>2. CASE ~turn[c].closes
      BY <1>1, <2>1, <3>2, Zenon DEF AfterCharge
    <3> QED
      BY <3>1, <3>2
  <2> QED
    BY <1>1, <2>1, Zenon
<1>4. t # NoTurn => /\ t.local.id = turn[c].local.id /\ t.local.active = turn[c].local.active
                    /\ t.local.qty = turn[c].local.qty /\ t.local.tries = turn[c].local.tries
                    /\ t.stale = turn[c].stale
  BY <1>1, Zenon DEF Kept
<1>5. Moves(c, t)
  BY <1>1, <1>3, <1>4, Zenon DEF Moves
<1> QED
  BY <1>1, <1>5 DEF Moved

LEMMA CountsTyped ==
    ASSUME Shaped
    PROVE  attempts \in [Workers -> Nat] /\ literal \in [Workers -> Nat] /\ raised \in [Workers -> Nat] /\ faults \in 0 .. MaxFaults
BY DEF Shaped, SessionTypeOK

LEMMA ConverseMoves ==
    ASSUME Shaped, NEW c \in Turns, Converse(c)
    PROVE  Moved(c)
<1>1. "agent" \in PCs
  BY DEF PCs
<1> QED
  BY <1>1, CountsTyped, MoveMoves DEF Converse, Free, Deciding, At, historyVars, redisVars, Unlocked

\* What a call of the tool and the end of the run do to the turn.
LEMMA RunTyped ==
    ASSUME Shaped, NEW c \in Turns
    PROVE  /\ turn[c].calls < MaxToolCalls =>
                \A says \in {"", "address", "other"} :
                    /\ Called(c, says) \in Turn
                    /\ Called(c, says).pc = turn[c].pc
                    /\ Called(c, says).local = turn[c].local
                    /\ Called(c, says).closes = turn[c].closes
                    /\ Called(c, says).stale = turn[c].stale
                    /\ Called(c, says).refused = turn[c].refused
                    /\ Called(c, says).says = says
           /\ turn[c].says \in {"", "address", "other"} /\ turn[c].refused \in BOOLEAN
<1>1. turn[c] \in Turn
  BY DEF Shaped, SessionTypeOK
<1>2. turn[c].calls \in 0 .. MaxToolCalls /\ turn[c].says \in {"", "address", "other"}
      /\ turn[c].refused \in BOOLEAN
  BY <1>1 DEF Turn
<1>3. ASSUME turn[c].calls < MaxToolCalls
      PROVE  turn[c].calls + 1 \in 0 .. MaxToolCalls
  <2>1. MaxToolCalls \in Nat
    BY SessionAssumption
  <2>2. \A n \in 0 .. MaxToolCalls : n < MaxToolCalls => n + 1 \in 0 .. MaxToolCalls
    BY <2>1
  <2> QED
    BY <1>2, <1>3, <2>2, Zenon
<1> QED
  BY <1>1, <1>2, <1>3 DEF Turn, Called

\* A step of the agent's run without a charge.
LEMMA RunMoves ==
    ASSUME Shaped, NEW c \in Turns, NEW t \in Turn, turn' = [turn EXCEPT ![c] = t],
           turn[c].pc = "agent", t.pc \in {"agent", "reply"}, t.local = turn[c].local,
           t.closes = turn[c].closes, t.stale = turn[c].stale, Unlocked,
           UNCHANGED <<profile, session, messages, faults, started, told, announced,
                       repeatable, disturbed>>,
           attempts' \in [Workers -> Nat], literal' \in [Workers -> Nat],
           raised' \in [Workers -> Nat]
    PROVE  Moved(c)
<1>1. Moves(c, t)
  BY CountsTyped DEF Moves, Kept
<1> QED
  BY <1>1 DEF Moved

LEMMA EndTyped ==
    ASSUME Shaped, NEW c \in Turns, Answered(c)
    PROVE  \E t \in Turn :
             /\ turn' = [turn EXCEPT ![c] = t] /\ t.pc = "reply" /\ t.local = turn[c].local
             /\ t.closes = turn[c].closes /\ t.stale = turn[c].stale /\ ~t.refused /\ t.says = ""
<1> DEFINE t == [turn[c] EXCEPT !.pc = "reply", !.calls = 0, !.says = "", !.refused = FALSE]
<1>1. turn[c] \in Turn /\ turn \in [Turns -> Turn] /\ 0 \in 0 .. MaxToolCalls
  BY SessionAssumption DEF Shaped, SessionTypeOK
<1>2. t \in Turn /\ t.pc = "reply" /\ t.local = turn[c].local
      /\ t.closes = turn[c].closes /\ t.stale = turn[c].stale /\ ~t.refused /\ t.says = ""
  BY <1>1 DEF Turn
<1>3. turn' = [turn EXCEPT ![c] = t]
  BY <1>1 DEF Answered
<1> QED
  BY <1>2, <1>3

LEMMA EndMoves ==
    ASSUME Shaped, NEW c \in Turns, AgentAnswers(c) \/ AgentRaises(c)
    PROVE  Moved(c)
<1>1. /\ Answered(c) /\ turn[c].pc = "agent"
      /\ UNCHANGED <<profile, session, lock, messages, faults, started, told, announced, paid,
                     repeatable, disturbed, lapses>>
  BY DEF AgentAnswers, AgentRaises, At, redisVars
<1>2. attempts \in [Workers -> Nat] /\ literal \in [Workers -> Nat] /\ raised \in [Workers -> Nat]
      /\ c[1] \in Workers
  BY SessionAssumption DEF Shaped, SessionTypeOK
<1>3. /\ attempts' = attempts \/ attempts' = [attempts EXCEPT ![c[1]] = 0]
      /\ \/ literal' = literal \/ literal' = [w \in Workers |-> 0]
         \/ literal' = [literal EXCEPT ![c[1]] = literal[c[1]] + 1]
      /\ \/ raised' = raised \/ raised' = [w \in Workers |-> 0]
         \/ raised' = [raised EXCEPT ![c[1]] = raised[c[1]] + 1]
  BY DEF AgentAnswers, AgentRaises, Asks, Restart
<1>4. attempts' \in [Workers -> Nat] /\ literal' \in [Workers -> Nat] /\ raised' \in [Workers -> Nat]
  BY <1>2, <1>3
<1>5. PICK t \in Turn :
             /\ turn' = [turn EXCEPT ![c] = t] /\ t.pc = "reply" /\ t.local = turn[c].local
             /\ t.closes = turn[c].closes /\ t.stale = turn[c].stale
  BY <1>1, EndTyped
<1> QED
  BY <1>1, <1>4, <1>5, RunMoves DEF Unlocked

LEMMA ToolMoves ==
    ASSUME Shaped, NEW c \in Turns,
           ToolRefuses(c) \/ \E charged, link \in BOOLEAN : ToolAccepts(c, charged, link)
    PROVE  Moved(c) \/ Sale(c)
<1>1. attempts \in [Workers -> Nat] /\ literal \in [Workers -> Nat] /\ raised \in [Workers -> Nat]
      /\ c[1] \in Workers
  BY SessionAssumption DEF Shaped, SessionTypeOK
<1>2. CASE ToolRefuses(c)
  BY <1>1, <1>2, RunTyped, RunMoves DEF ToolRefuses, Tool, At, historyVars, redisVars, Unlocked
<1>3. ASSUME NEW charged \in BOOLEAN, NEW link \in BOOLEAN, ToolAccepts(c, charged, link)
      PROVE  Moved(c) \/ Sale(c)
  <2> DEFINE said == IF link THEN turn[c].says ELSE "other"
             t == Called(c, said)
  <2>1. said \in {"", "address", "other"}
    BY RunTyped
  <2>2. /\ turn' = [turn EXCEPT ![c] = t] /\ turn[c].pc = "agent" /\ turn[c].calls < MaxToolCalls
        /\ attempts' = [attempts EXCEPT ![c[1]] = 0]
        /\ literal' = [w \in Workers |-> 0] /\ raised' = [w \in Workers |-> 0]
        /\ UNCHANGED <<profile, session, lock, messages, faults, started, told, announced,
                       disturbed, lapses>>
    BY <1>3 DEF ToolAccepts, Tool, At, Restart, redisVars
  <2>3. /\ paid' = IF charged /\ Mine(c).id # 0 THEN [paid EXCEPT ![Mine(c).id] = @ + 1] ELSE paid
        /\ repeatable' = IF charged /\ Mine(c).id # 0 THEN repeatable \cup {Mine(c).id} ELSE repeatable
    BY <1>3 DEF ToolAccepts
  <2> HIDE DEF said
  <2>4. /\ t \in Turn /\ t.pc = "agent" /\ t.local = turn[c].local
        /\ t.closes = turn[c].closes /\ t.stale = turn[c].stale
    BY <2>1, <2>2, RunTyped
  <2> HIDE DEF t
  <2>5. attempts' \in [Workers -> Nat] /\ literal' \in [Workers -> Nat] /\ raised' \in [Workers -> Nat]
    BY <1>1, <2>2
  <2>6. CASE charged /\ Mine(c).id # 0
    BY <2>2, <2>3, <2>4, <2>5, <2>6 DEF Sale
  <2>7. CASE ~(charged /\ Mine(c).id # 0)
    BY <2>2, <2>3, <2>4, <2>5, <2>7, RunMoves DEF Unlocked
  <2> QED
    BY <2>6, <2>7
<1> QED
  BY <1>2, <1>3

LEMMA LockMoves ==
    ASSUME Shaped, NEW c \in Turns,
           \/ Acquire(c) \/ AcquireBusy(c) \/ AcquireOpen(c)
           \/ \E charged \in BOOLEAN : Generate(c, charged)
           \/ \E fails \in BOOLEAN : Release(c, fails)
    PROVE  Moved(c)
<1>1. "charge" \in PCs /\ "release" \in PCs /\ AfterCharge(c) \in PCs
  BY DEF PCs, AfterCharge
<1>2. CASE Acquire(c)
  BY <1>1, <1>2, CountsTyped, MoveMoves DEF Acquire, At, historyVars, Locks
<1>3. CASE AcquireBusy(c)
  BY <1>1, <1>3, CountsTyped, MoveMoves DEF AcquireBusy, At, historyVars, redisVars, Unlocked, AfterCharge
<1>4. CASE AcquireOpen(c)
  <2>1. faults' \in 0 .. MaxFaults
    BY <1>4, CountsTyped, SessionAssumption DEF AcquireOpen
  <2> QED
    BY <1>1, <1>4, <2>1, CountsTyped, MoveMoves DEF AcquireOpen, At, redisVars, Locks
<1>5. ASSUME NEW charged \in BOOLEAN, Generate(c, charged)
      PROVE  Moved(c)
  BY <1>1, <1>5, CountsTyped, MoveMoves DEF Generate, At, redisVars, Locks
<1>6. ASSUME NEW fails \in BOOLEAN, Release(c, fails)
      PROVE  Moved(c)
  <2>1. faults' \in 0 .. MaxFaults
    BY <1>6, FaultTyped DEF Release, Shaped
  <2> QED
    BY <1>1, <1>6, <2>1, CountsTyped, MoveMoves DEF Release, At, historyVars, Locks
<1> QED
  BY <1>2, <1>3, <1>4, <1>5, <1>6

LEMMA QuestionMoves ==
    ASSUME Shaped, NEW c \in Turns, Question(c)
    PROVE  Moved(c)
<1> DEFINE t == [turn[c] EXCEPT !.pc = "agent", !.resumes = TRUE]
<1>1. turn[c] \in Turn /\ turn \in [Turns -> Turn]
  BY DEF Shaped, SessionTypeOK
<1>2. t \in Turn /\ Kept(t.local, turn[c].local) /\ t.pc = "agent"
      /\ t.closes = turn[c].closes /\ t.stale = turn[c].stale
  BY <1>1 DEF Turn, Kept
<1>3. turn' = [turn EXCEPT ![c] = t] /\ turn[c].pc = "decide"
  BY <1>1 DEF Question, Answering, Collecting, Deciding, At
<1>4. Unlocked
      /\ UNCHANGED <<profile, session, messages, attempts, literal, raised, faults, started, told,
                     announced, repeatable, disturbed>>
  BY DEF Question, Unlocked, historyVars, redisVars
<1> HIDE DEF t
<1>5. Moves(c, t)
  BY <1>2, <1>3, <1>4, CountsTyped DEF Moves, Kept
<1> QED
  BY <1>2, <1>4, <1>5 DEF Moved

LEMMA RefuseMoves ==
    ASSUME Shaped, NEW c \in Turns, ToolRefusesAddress(c)
    PROVE  Moved(c)
<1> DEFINE t == [Called(c, "address") EXCEPT !.refused = TRUE]
<1>1. turn[c].calls < MaxToolCalls /\ turn[c].pc = "agent" /\ turn' = [turn EXCEPT ![c] = t]
  BY DEF ToolRefusesAddress, Tool, At
<1>2. t \in Turn /\ t.pc = "agent" /\ t.local = turn[c].local
      /\ t.closes = turn[c].closes /\ t.stale = turn[c].stale
  BY <1>1, RunTyped DEF Turn
<1>3. attempts' \in [Workers -> Nat] /\ literal' \in [Workers -> Nat] /\ raised' \in [Workers -> Nat]
  BY SessionAssumption DEF Shaped, SessionTypeOK, ToolRefusesAddress, historyVars
<1>4. Unlocked
      /\ UNCHANGED <<profile, session, messages, faults, started, told, announced,
                     repeatable, disturbed>>
  BY DEF ToolRefusesAddress, Unlocked, historyVars, redisVars
<1> HIDE DEF t
<1> QED
  BY <1>1, <1>2, <1>3, <1>4, RunMoves

LEMMA ReadyMoves ==
    ASSUME Shaped, NEW c \in Turns, NEW found \in SUBSET Fallback, Ready(c, found)
    PROVE  Moved(c)
<1> DEFINE merged == merge_collected(Mine(c).fields, Says(c))
           s == [Switched(c) EXCEPT !.fields = merged]
           t == [turn[c] EXCEPT !.pc = "lock", !.closes = TRUE, !.local = s]
<1>1. turn[c] \in Turn /\ turn \in [Turns -> Turn]
  BY DEF Shaped, SessionTypeOK
<1>2. merged \in SUBSET Fields /\ Switched(c) \in Session /\ Kept(Switched(c), Mine(c))
  BY SwitchedKeeps
<1>3. s = [Switched(c) EXCEPT !.fields = advance_checkout(Mine(c).fields, Says(c), found).collected]
  BY DEF advance_checkout
<1> HIDE DEF merged
<1>4. s \in Session /\ s.id = Mine(c).id /\ s.active = Mine(c).active /\ s.qty = Mine(c).qty
      /\ s.tries = Mine(c).tries
  BY <1>2 DEF Session, Kept
<1> HIDE DEF s
<1>5. t \in Turn /\ t.local = s /\ t.pc = "lock" /\ t.closes /\ t.stale = turn[c].stale
  BY <1>1, <1>4 DEF Turn
<1>6. turn' = [turn EXCEPT ![c] = t]
  BY <1>1, <1>3 DEF Ready
<1>7. turn[c].pc = "decide" /\ turn[c].local.active
  BY DEF Ready, Fills, Data, Answering, Collecting, Deciding, At, Mine
<1>8. Unlocked
      /\ UNCHANGED <<profile, session, messages, attempts, literal, raised, faults, started, told,
                     announced, repeatable, disturbed>>
  BY DEF Ready, Unlocked, historyVars, redisVars
<1> HIDE DEF t
<1>9. Moves(c, t)
  BY <1>4, <1>5, <1>6, <1>7, <1>8, CountsTyped DEF Moves, Mine
<1> QED
  BY <1>5, <1>8, <1>9 DEF Moved

LEMMA ReplyMoves ==
    ASSUME Shaped, NEW c \in Turns, NEW fails \in BOOLEAN, Reply(c, fails), ~turn[c].resumes
    PROVE  Moved(c)
<1>1. /\ At(c, "reply") /\ turn' = [turn EXCEPT ![c] = NoTurn]
      /\ UNCHANGED <<profile, lock, attempts, messages, started, told, announced, paid,
                     lapses, literal, raised, session, disturbed, repeatable, faults>>
  BY DEF Reply
<1>2. attempts' \in [Workers -> Nat] /\ literal' \in [Workers -> Nat] /\ raised' \in [Workers -> Nat]
  BY <1>1 DEF Shaped, SessionTypeOK
<1>3. Moves(c, NoTurn)
  BY <1>1, <1>2, CountsTyped, ConstantsTyped DEF Moves, At
<1> QED
  BY <1>1, <1>3, ConstantsTyped DEF Moved, Unlocked

Reads == \E c \in Turns, m \in Messages, blind \in BOOLEAN : Read(c, m, blind)
Saving == \E c \in Turns, fails \in BOOLEAN : Saved(c, fails)
Moving == \E c \in Turns : Moved(c)
Selling == \E c \in Turns : Sale(c)
Dies == \E w \in Workers : WorkerDies(w)

LEMMA StepKinds ==
    ASSUME Shaped, [Next]_vars
    PROVE  Reads \/ Saving \/ Moving \/ Selling \/ LockExpires \/ SessionExpires \/ Dies \/ UNCHANGED vars
<1>1. ASSUME NEW c \in Turns, NEW fails \in BOOLEAN, Step(c, fails)
      PROVE  Reads \/ Saving \/ Moving
  <2>1. CASE \E m \in Messages : Read(c, m, fails)
    BY <2>1 DEF Reads
  <2>2. CASE Saved(c, fails)
    BY <2>2 DEF Saving
  <2>3. CASE Release(c, fails)
    BY <2>3, LockMoves DEF Moving
  <2>4. CASE Reply(c, fails)
    BY <2>4, ReplyMoves, ReplySaves DEF Moving, Saving
  <2>5. CASE _continue_checkout(c, fails)
    <3>1. \/ SwitchQuantity(c, fails) \/ CardInCollection(c, fails)
          \/ \E found \in SUBSET Fallback : StillCollecting(c, found, fails)
      BY <2>5 DEF _continue_checkout
    <3> QED
      BY <2>2, <3>1, SwitchQuantitySaves, ClosingSaves, StillCollectingSaves
  <2>6. CASE Greet(c, fails)
    BY <2>2, <2>6, GreetSaves
  <2>7. CASE _advance_precheckout(c, fails)
    BY <2>2, <2>7, PrecheckoutSaves
  <2>8. CASE Note(c, fails) \/ NoteObjection(c, fails) \/ Reopen(c, fails) \/ Buy(c, fails)
    BY <2>2, <2>8, FreeSaves
  <2>9. CASE _escalate_from_checkout(c, fails) \/ Close(c, fails)
    BY <2>2, <2>9, ClosingSaves
  <2> QED
    BY <1>1, <2>1, <2>3, <2>4, <2>5, <2>6, <2>7, <2>8, <2>9, Zenon DEF Step
<1>2. ASSUME NEW c \in Turns, Progress(c)
      PROVE  Moving \/ Selling
  <2>1. CASE \E found \in SUBSET Fallback : Ready(c, found)
    BY <2>1, ReadyMoves DEF Moving
  <2>2. CASE Acquire(c) \/ AcquireBusy(c) \/ AcquireOpen(c) \/ \E charged \in BOOLEAN : Generate(c, charged)
    BY <2>2, LockMoves DEF Moving
  <2>3. CASE Converse(c) \/ AgentAnswers(c) \/ AgentRaises(c)
    BY <2>3, ConverseMoves, EndMoves DEF Moving
  <2>6. CASE ToolRefuses(c) \/ \E charged, link \in BOOLEAN : ToolAccepts(c, charged, link)
    BY <2>6, ToolMoves DEF Moving, Selling
  <2>4. CASE Question(c)
    BY <2>4, QuestionMoves DEF Moving
  <2>5. CASE ToolRefusesAddress(c)
    BY <2>5, RefuseMoves DEF Moving
  <2> QED
    BY <1>2, <2>1, <2>2, <2>3, <2>4, <2>5, <2>6, Zenon DEF Progress
<1> QED
  BY <1>1, <1>2, Zenon DEF Next, Dies

-----------------------------------------------------------------------------
(* Type correctness *)

\* Nobody joins those who ponder: their number and the collections started
\* together do not grow.
LEMMA FewerPonder ==
    ASSUME Shaped, {c \in Turns : turn'[c].pc \in {"greet", "decide"}} \subseteq Pondering
    PROVE  /\ Cardinality(Pondering') <= Cardinality(Pondering)
           /\ Cardinality(Pondering) \in Nat /\ Cardinality(Pondering') \in Nat
<1>1. IsFiniteSet(Pondering)
  BY SessionAssumption, FS_Subset DEF Pondering
<1>2. Pondering' = {c \in Turns : turn'[c].pc \in {"greet", "decide"}}
  BY DEF Pondering
<1> QED
  BY <1>1, <1>2, FS_Subset, FS_CardinalityType

LEMMA SaveShaped ==
    ASSUME Shaped, NEW c \in Turns, NEW fails \in BOOLEAN, Saved(c, fails)
    PROVE  Shaped'
<1>1. PICK s \in Session, next \in PCs, learnt \in SUBSET Fields : Saves(c, s, next, fails, learnt)
  BY DEF Saved
<1>2. /\ Save(c, s, next, fails)
      /\ UNCHANGED <<profile, lock, messages, paid, lapses>>
      /\ attempts' \in [Workers -> Nat] /\ literal' \in [Workers -> Nat] /\ raised' \in [Workers -> Nat]
      /\ Keeps(c, s, next) \/ Closes(c, s, next) \/ Starts(c, s, next) \/ Collects(c, s, next, learnt)
  BY <1>1 DEF Saves
<1>3. /\ turn' \in [Turns -> Turn] /\ turn'[c].pc = next
      /\ next # "idle" => turn'[c].local = s /\ turn'[c].closes = turn[c].closes
      /\ next = "idle" => turn'[c] = NoTurn
      /\ \A d \in Turns \ {c} : turn'[d].pc = turn[d].pc /\ turn'[d].local = turn[d].local
                                /\ turn'[d].closes = turn[d].closes
      /\ session' \in Session /\ faults' \in 0 .. MaxFaults
      /\ session' = (IF fails THEN session ELSE s)
  <2>1. SessionTypeOK
    BY DEF Shaped
  <2>2. session' = (IF fails THEN session ELSE s)
    BY <1>2 DEF Save
  <2> QED
    BY <1>2, <2>1, <2>2, SaveTyped
<1>4. /\ turn[c] \in Turn /\ Sound(turn[c].local) /\ turn[c].pc \in PCs
      /\ \A r \in Session : r.tries \in 0 .. MaxCheckoutAttempts /\ r.id \in Collections
                            /\ r.fields \in SUBSET Fields /\ r.qty \in 0 .. MaxQuantity
                            /\ r.active \in BOOLEAN
  BY TurnTyped, SessionParts
<1>5. /\ started \in 0 .. messages /\ messages \in 0 .. MaxMessages /\ MaxMessages \in Nat
      /\ told \in [Collections -> SUBSET Fields] /\ announced \in 0 .. MaxQuantity
      /\ repeatable \subseteq Collections /\ disturbed \in BOOLEAN
  BY SessionAssumption DEF Shaped, SessionTypeOK
<1>6. \/ started' = started /\ {d \in Turns : turn'[d].pc \in {"greet", "decide"}} \subseteq Pondering
      \/ started' = started + 1 /\ {d \in Turns : turn'[d].pc \in {"greet", "decide"}} \subseteq Pondering \ {c}
         /\ c \in Pondering
  BY <1>2, <1>3 DEF Keeps, Closes, Starts, Collects, Untold, Pondering, PCs
<1>7. started' >= started /\ started' \in 0 .. messages /\ started' + Cardinality(Pondering') <= messages'
  <2>1. IsFiniteSet(Pondering) /\ Cardinality(Pondering) \in Nat
    BY SessionAssumption, FS_Subset, FS_CardinalityType DEF Pondering
  <2>2. Cardinality(Pondering') <= Cardinality(Pondering) /\ Cardinality(Pondering') \in Nat
    BY <1>6, FewerPonder
  <2>3. CASE started' = started
    BY <1>2, <1>5, <2>1, <2>2, <2>3 DEF Shaped
  <2>4. CASE started' = started + 1 /\ c \in Pondering
             /\ {d \in Turns : turn'[d].pc \in {"greet", "decide"}} \subseteq Pondering \ {c}
    <3>1. Pondering' = {d \in Turns : turn'[d].pc \in {"greet", "decide"}}
      BY DEF Pondering
    <3>2. Cardinality(Pondering \ {c}) = Cardinality(Pondering) - 1 /\ IsFiniteSet(Pondering \ {c})
      BY <2>1, <2>4, FS_RemoveElement
    <3>3. Cardinality(Pondering') <= Cardinality(Pondering \ {c})
      BY <2>4, <3>1, <3>2, FS_Subset
    <3> QED
      BY <1>2, <1>5, <2>1, <2>2, <2>4, <3>2, <3>3 DEF Shaped
  <2> QED
    BY <1>6, <2>3, <2>4
<1>8. s.id <= started' /\ (s.active => s.id >= 1 /\ s.tries < MaxCheckoutAttempts)
      /\ (next \in {"lock", "charge", "release", "close"} => s.id >= 1)
      /\ (next # "idle" => (turn[c].closes => next \in {"lock", "charge", "release", "close"}))
  <2>1. turn[c].local.id \in Nat /\ s.id \in Nat
    BY <1>4, <1>5 DEF Sound, Collections
  <2>2. turn[c].closes => turn[c].pc \in {"lock", "charge", "release", "close"}
    BY DEF Shaped
  <2>3. CASE Keeps(c, s, next)
    BY <1>4, <2>1, <2>2, <2>3 DEF Keeps, Kept, Sound, Untold
  <2>4. CASE Closes(c, s, next)
    BY <1>4, <2>1, <2>2, <2>4 DEF Closes, Sound, Untold
  <2>5. CASE Starts(c, s, next)
    BY <1>4, <1>5, <2>1, <2>2, <2>5, SessionAssumption DEF Starts, Sound
  <2>6. CASE Collects(c, s, next, learnt)
    BY <1>4, <1>5, <2>1, <2>2, <2>6 DEF Collects, Sound
  <2> QED
    BY <1>2, <2>3, <2>4, <2>5, <2>6
<1>9. told' \in [Collections -> SUBSET Fields] /\ announced' \in 0 .. MaxQuantity
  BY <1>2, <1>4, <1>5 DEF Keeps, Closes, Starts, Collects, Untold
<1>10. repeatable' \subseteq Collections /\ disturbed' \in BOOLEAN
  <2>1. disturbed' \in {TRUE, disturbed /\ s.id = session.id}
    BY <1>2, Zenon DEF Save
  <2>2. disturbed' \in BOOLEAN
    BY <2>1
  <2>3. repeatable' \subseteq repeatable \cup {s.id}
    BY <1>2 DEF Save
  <2> QED
    BY <1>4, <1>5, <2>2, <2>3
<1>11. SessionTypeOK'
  BY <1>2, <1>3, <1>5, <1>7, <1>9, <1>10 DEF Shaped, SessionTypeOK
<1>12. /\ \A r \in Session : Sound(r) => Sound(r)'
       /\ Sound(s)' /\ Sound(NoSession)'
  <2>1. ASSUME NEW r \in Session, Sound(r) PROVE Sound(r)'
    BY <1>4, <1>5, <1>7, <2>1 DEF Sound, Collections
  <2>2. Sound(s)'
    BY <1>8 DEF Sound
  <2>3. Sound(NoSession)'
    BY <1>7, ConstantsTyped DEF Sound
  <2> QED
    BY <2>1, <2>2, <2>3
<1>13. Sound(session)'
  BY <1>3, <1>12 DEF Shaped, Sound
<1>14. \A d \in Turns : Sound(turn[d].local)'
  BY <1>3, <1>12, ConstantsTyped DEF Shaped, Sound
<1>15. \A d \in Turns : turn'[d].pc \in {"lock", "charge", "release", "close"} => turn'[d].local.id >= 1
  BY <1>3, <1>8, ConstantsTyped DEF Shaped
<1>16. \A d \in Turns : turn'[d].closes => turn'[d].pc \in {"lock", "charge", "release", "close"}
  BY <1>3, <1>8, ConstantsTyped DEF Shaped
<1> QED
  BY <1>7, <1>11, <1>13, <1>14, <1>15, <1>16 DEF Shaped

\* What a read does to its turn.
LEMMA ReadTyped ==
    ASSUME Shaped, NEW c \in Turns, NEW m \in Messages, NEW blind \in BOOLEAN, Read(c, m, blind)
    PROVE  \E s \in Session, pc \in {"decide", "greet"} :
             /\ s = (IF blind THEN NoSession ELSE session)
             /\ turn' \in [Turns -> Turn]
             /\ turn'[c].pc = pc /\ turn'[c].local = s /\ ~turn'[c].closes
             /\ turn'[c].stale = blind
             /\ \A d \in Turns \ {c} : turn'[d] = turn[d]
<1> DEFINE s == IF blind THEN NoSession ELSE session
           pc == IF Greeted(s) = s THEN "decide" ELSE "greet"
           t == [NoTurn EXCEPT !.pc = pc, !.msg = m, !.local = s, !.stale = blind]
<1>1. s \in Session /\ pc \in {"decide", "greet"}
  BY ConstantsTyped DEF Shaped, SessionTypeOK
<1>2. turn' = [turn EXCEPT ![c] = t]
  BY Zenon DEF Read
<1> HIDE DEF s, pc
<1>3. t \in Turn /\ t.pc = pc /\ t.local = s /\ ~t.closes /\ t.stale = blind
  BY <1>1, ConstantsTyped DEF Turn
<1> HIDE DEF t
<1>4. /\ turn' \in [Turns -> Turn] /\ turn'[c] = t
      /\ \A d \in Turns \ {c} : turn'[d] = turn[d]
  BY <1>2, <1>3 DEF Shaped, SessionTypeOK
<1>5. s = (IF blind THEN NoSession ELSE session)
  BY DEF s
<1> QED
  BY <1>1, <1>3, <1>4, <1>5

LEMMA ReadShaped ==
    ASSUME Shaped, NEW c \in Turns, NEW m \in Messages, NEW blind \in BOOLEAN, Read(c, m, blind)
    PROVE  Shaped'
<1>1. /\ messages < MaxMessages /\ messages' = messages + 1
      /\ faults' \in 0 .. MaxFaults
      /\ repeatable' \subseteq repeatable \cup {session.id}
      /\ UNCHANGED <<profile, redisVars, attempts, started, told, announced, paid,
                     disturbed, lapses, literal, raised>>
  BY FaultTyped DEF Read, Shaped
<1>2. PICK s \in Session, pc \in {"decide", "greet"} :
        /\ s = (IF blind THEN NoSession ELSE session)
        /\ turn' \in [Turns -> Turn]
        /\ turn'[c].pc = pc /\ turn'[c].local = s /\ ~turn'[c].closes
        /\ turn'[c].stale = blind
        /\ \A d \in Turns \ {c} : turn'[d] = turn[d]
  BY ReadTyped
<1>3. /\ session.id \in Collections /\ messages \in 0 .. MaxMessages /\ MaxMessages \in Nat
      /\ started \in 0 .. messages /\ repeatable \subseteq Collections
  BY SessionParts, SessionAssumption DEF Shaped, SessionTypeOK
<1>4. SessionTypeOK'
  BY <1>1, <1>2, <1>3 DEF Shaped, SessionTypeOK, redisVars
<1>5. started' + Cardinality(Pondering') <= messages'
  <2>1. IsFiniteSet(Pondering) /\ Cardinality(Pondering) \in Nat
    BY SessionAssumption, FS_Subset, FS_CardinalityType DEF Pondering
  <2>2. Pondering' \subseteq Pondering \cup {c}
    BY <1>2 DEF Pondering
  <2>3. IsFiniteSet(Pondering \cup {c}) /\ Cardinality(Pondering \cup {c}) <= Cardinality(Pondering) + 1
        /\ Cardinality(Pondering \cup {c}) \in Nat
    <3>1. IsFiniteSet(Pondering \cup {c})
      BY <2>1, FS_AddElement
    <3>2. Cardinality(Pondering \cup {c})
            = IF c \in Pondering THEN Cardinality(Pondering) ELSE Cardinality(Pondering) + 1
      BY <2>1, FS_AddElement
    <3>3. Cardinality(Pondering \cup {c}) \in Nat
      BY <3>1, FS_CardinalityType
    <3> QED
      BY <2>1, <3>1, <3>2, <3>3
  <2>4. Cardinality(Pondering') <= Cardinality(Pondering \cup {c}) /\ Cardinality(Pondering') \in Nat
    BY <2>2, <2>3, FS_Subset, FS_CardinalityType
  <2> QED
    BY <1>1, <1>3, <2>1, <2>3, <2>4 DEF Shaped
<1>6. \A r \in Session : Sound(r) => Sound(r)'
  BY <1>1 DEF Sound
<1>7. Sound(NoSession)'
  BY <1>1, <1>3, ConstantsTyped DEF Sound
<1>8. Sound(s)' /\ Sound(session)'
  BY <1>1, <1>2, <1>6, <1>7 DEF Shaped, Sound, redisVars
<1>9. \A d \in Turns : Sound(turn[d].local)'
  BY <1>2, <1>6, <1>8 DEF Shaped, Sound
<1>10. \A d \in Turns : /\ turn'[d].pc \in {"lock", "charge", "release", "close"} => turn'[d].local.id >= 1
                        /\ turn'[d].closes => turn'[d].pc \in {"lock", "charge", "release", "close"}
  BY <1>2 DEF Shaped
<1> QED
  BY <1>4, <1>5, <1>8, <1>9, <1>10 DEF Shaped

LEMMA MoveShaped ==
    ASSUME Shaped, NEW c \in Turns, Moved(c)
    PROVE  Shaped'
<1>1. PICK t \in Turn : Moves(c, t) /\ (Unlocked \/ Locks(c))
  BY DEF Moved
<1>2. /\ turn' = [turn EXCEPT ![c] = t]
      /\ UNCHANGED <<profile, session, messages, started, told, announced, repeatable, disturbed>>
      /\ attempts' \in [Workers -> Nat] /\ literal' \in [Workers -> Nat] /\ raised' \in [Workers -> Nat]
      /\ faults' \in 0 .. MaxFaults
  BY <1>1 DEF Moves
<1>3. turn' \in [Turns -> Turn] /\ turn'[c] = t /\ \A d \in Turns \ {c} : turn'[d] = turn[d]
  BY <1>2 DEF Shaped, SessionTypeOK
<1>4. lock' \in BOOLEAN /\ lapses' \in Nat /\ paid' \in [Collections -> Nat]
  <2>0. lock \in BOOLEAN /\ lapses \in Nat /\ paid \in [Collections -> Nat]
    BY DEF Shaped, SessionTypeOK
  <2>1. CASE Unlocked
    BY <2>0, <2>1 DEF Unlocked
  <2>2. CASE Acquire(c) \/ AcquireOpen(c)
    <3>1. /\ lock' = TRUE \/ lock' = lock
          /\ lapses' = lapses \/ lapses' = lapses + 1
          /\ paid' = paid
      BY <2>2 DEF Acquire, AcquireOpen, redisVars, historyVars
    <3>2. lock' \in BOOLEAN
      BY <2>0, <3>1, Zenon
    <3>3. lapses' \in Nat /\ paid' \in [Collections -> Nat]
      BY <2>0, <3>1
    <3> QED
      BY <3>2, <3>3
  <2>3. ASSUME NEW charged \in BOOLEAN, Generate(c, charged)
        PROVE  lock' \in BOOLEAN /\ lapses' \in Nat /\ paid' \in [Collections -> Nat]
    <3>1. paid' = paid \/ paid' = [paid EXCEPT ![Mine(c).id] = @ + 1]
      BY <2>3, Zenon DEF Generate
    <3>2. lock' = lock /\ lapses' = lapses
      BY <2>3 DEF Generate, redisVars
    <3> QED
      BY <2>0, <3>1, <3>2
  <2>4. ASSUME NEW fails \in BOOLEAN, Release(c, fails)
        PROVE  lock' \in BOOLEAN /\ lapses' \in Nat /\ paid' \in [Collections -> Nat]
    <3>1. lock' = (lock /\ fails)
      BY <2>4 DEF Release
    <3>2. UNCHANGED <<lapses, paid>>
      BY <2>4 DEF Release, historyVars
    <3>3. (lock /\ fails) \in BOOLEAN
      OBVIOUS
    <3> QED
      BY <2>0, <3>1, <3>2, <3>3
  <2> QED
    BY <1>1, <2>1, <2>2, <2>3, <2>4 DEF Locks
<1>5. SessionTypeOK'
  BY <1>2, <1>3, <1>4 DEF Shaped, SessionTypeOK
<1>6. \A r \in Session : Sound(r) => Sound(r)'
  BY <1>2 DEF Sound
<1>7. turn[c] \in Turn /\ Sound(turn[c].local) /\ t.local \in Session /\ NoTurn.local = NoSession
  BY TurnTyped, ConstantsTyped DEF Turn
<1>8. Sound(t.local)'
  <2>1. CASE t = NoTurn
    BY <1>2, <1>7, <2>1, ConstantsTyped DEF Sound, Shaped, SessionTypeOK
  <2>2. CASE t # NoTurn
    BY <1>1, <1>2, <1>7, <2>2 DEF Sound, Moves
  <2> QED
    BY <2>1, <2>2
<1>9. \A d \in Turns : Sound(turn[d].local)'
  BY <1>3, <1>6, <1>8 DEF Shaped, Sound
<1>10. Sound(session)'
  BY <1>2 DEF Shaped, Sound
<1>11. /\ t.pc \in {"lock", "charge", "release", "close"} => t.local.id >= 1
       /\ t.closes => t.pc \in {"lock", "charge", "release", "close"}
       /\ t.pc \in {"greet", "decide"} => FALSE
  <2>1. t.closes => t.pc \in {"lock", "charge", "release", "close"}
    BY <1>1, ConstantsTyped DEF Moves, Shaped
  <2>2. t.pc \in {"greet", "decide"} => FALSE
    BY <1>1 DEF Moves
  <2>3. t.pc \in {"lock", "charge", "release", "close"} => t # NoTurn
    BY ConstantsTyped
  <2>4. t.pc \in {"lock", "charge", "release", "close"} =>
          \/ turn[c].pc \in {"lock", "charge", "release", "close"}
          \/ turn[c].local.active
    BY <1>1, <2>3 DEF Moves
  <2>5. t # NoTurn => t.local.id = turn[c].local.id
    BY <1>1 DEF Moves
  <2> QED
    BY <1>7, <2>1, <2>2, <2>3, <2>4, <2>5 DEF Shaped, Sound
<1>12. started' + Cardinality(Pondering') <= messages'
  <2>1. {d \in Turns : turn'[d].pc \in {"greet", "decide"}} \subseteq Pondering
    BY <1>3, <1>11 DEF Pondering
  <2>2. started \in Nat /\ messages \in Nat
    BY DEF Shaped, SessionTypeOK
  <2> QED
    BY <1>2, <2>1, <2>2, FewerPonder DEF Shaped
<1>13. \A d \in Turns : /\ turn'[d].pc \in {"lock", "charge", "release", "close"} => turn'[d].local.id >= 1
                        /\ turn'[d].closes => turn'[d].pc \in {"lock", "charge", "release", "close"}
  BY <1>3, <1>11 DEF Shaped
<1> QED
  BY <1>5, <1>9, <1>10, <1>12, <1>13 DEF Shaped

LEMMA SaleShaped ==
    ASSUME Shaped, NEW c \in Turns, Sale(c)
    PROVE  Shaped'
<1>1. PICK t \in Turn :
        /\ turn' = [turn EXCEPT ![c] = t]
        /\ turn[c].pc = "agent" /\ t.pc = "agent"
        /\ t.local = turn[c].local /\ t.closes = turn[c].closes
  BY DEF Sale
<1>2. /\ turn' \in [Turns -> Turn] /\ \A d \in Turns : /\ turn'[d].pc = turn[d].pc
                                                      /\ turn'[d].local = turn[d].local
                                                      /\ turn'[d].closes = turn[d].closes
  BY <1>1 DEF Shaped, SessionTypeOK
<1>3. /\ paid' = [paid EXCEPT ![Mine(c).id] = @ + 1]
      /\ repeatable' = repeatable \cup {Mine(c).id}
      /\ UNCHANGED <<profile, session, lock, messages, faults, started, told, announced,
                     disturbed, lapses>>
      /\ attempts' \in [Workers -> Nat] /\ literal' \in [Workers -> Nat]
      /\ raised' \in [Workers -> Nat]
  BY DEF Sale
<1>4. Mine(c).id \in Collections
  BY TurnTyped, SessionParts DEF Mine
<1>5. paid' \in [Collections -> Nat] /\ repeatable' \subseteq Collections
  BY <1>3, <1>4 DEF Shaped, SessionTypeOK
<1>6. SessionTypeOK'
  BY <1>2, <1>3, <1>5 DEF Shaped, SessionTypeOK
<1>7. {d \in Turns : turn'[d].pc \in {"greet", "decide"}} = Pondering
  BY <1>2 DEF Pondering
<1> QED
  BY <1>2, <1>3, <1>6, <1>7 DEF Shaped, Sound, Pondering

\* An expiry leaves every turn what it was but for its freshness.
LEMMA ExpiredTurns ==
    ASSUME SessionTypeOK, SessionExpires
    PROVE  /\ turn' \in [Turns -> Turn]
           /\ \A c \in Turns : /\ turn'[c].pc = turn[c].pc /\ turn'[c].local = turn[c].local
                               /\ turn'[c].closes = turn[c].closes
                               /\ turn'[c].refused = turn[c].refused
                               /\ turn'[c].says = turn[c].says
                               /\ turn[c].pc # "idle" => turn'[c].stale
           /\ session' = NoSession /\ (faults' = faults \/ faults' = faults + 1)
           /\ UNCHANGED <<profile, lock, attempts, messages>> /\ UNCHANGED historyVars
<1>1. turn \in [Turns -> Turn]
  BY DEF SessionTypeOK
<1>2. turn' = [c \in Turns |-> [turn[c] EXCEPT !.stale = @ \/ Busy(c)]]
  BY DEF SessionExpires
<1>3. ASSUME NEW c \in Turns
      PROVE  /\ turn'[c] \in Turn /\ turn'[c].pc = turn[c].pc /\ turn'[c].local = turn[c].local
             /\ turn'[c].closes = turn[c].closes /\ turn'[c].refused = turn[c].refused
             /\ turn'[c].says = turn[c].says
             /\ turn'[c].stale = (turn[c].stale \/ Busy(c))
  <2> DEFINE old == turn[c].stale \/ Busy(c)
  <2>1. turn[c] \in Turn /\ old \in BOOLEAN
    BY <1>1 DEF Turn
  <2>2. turn'[c] = [turn[c] EXCEPT !.stale = old]
    BY <1>2
  <2> HIDE DEF old
  <2>3. turn'[c] \in Turn /\ turn'[c].pc = turn[c].pc /\ turn'[c].local = turn[c].local
        /\ turn'[c].closes = turn[c].closes /\ turn'[c].refused = turn[c].refused
        /\ turn'[c].says = turn[c].says /\ turn'[c].stale = old
    BY <2>1, <2>2 DEF Turn
  <2> QED
    BY <2>3 DEF old
<1>4. turn' \in [Turns -> Turn]
  BY <1>2, <1>3
<1>5. faults' = faults \/ faults' = faults + 1
  BY DEF SessionExpires, Fault
<1> QED
  BY <1>3, <1>4, <1>5 DEF SessionExpires, Busy, At

LEMMA ExpiryShaped ==
    ASSUME Shaped, LockExpires \/ SessionExpires
    PROVE  Shaped'
<1>1. CASE LockExpires
  <2>1. faults' \in 0 .. MaxFaults
    BY <1>1, FaultTyped DEF LockExpires, Shaped
  <2>2. /\ lock' = FALSE /\ (lapses' = lapses \/ lapses' = lapses + 1)
        /\ UNCHANGED <<profile, session, turn, attempts, messages, started, told,
                       announced, paid, repeatable, disturbed, literal, raised>>
    BY <1>1, Zenon DEF LockExpires
  <2>3. lock' \in BOOLEAN
    BY <2>2, Zenon
  <2>4. lapses' \in Nat
    BY <2>2 DEF Shaped, SessionTypeOK
  <2>5. /\ faults' \in 0 .. MaxFaults /\ lock' \in BOOLEAN /\ lapses' \in Nat
        /\ UNCHANGED <<profile, session, turn, attempts, messages, started, told,
                       announced, paid, repeatable, disturbed, literal, raised>>
    BY <2>1, <2>2, <2>3, <2>4, Zenon
  <2>6. SessionTypeOK'
    BY <2>5 DEF Shaped, SessionTypeOK
  <2> QED
    BY <2>5, <2>6 DEF Shaped, Sound, Pondering
<1>2. CASE SessionExpires
  <2>1. faults' \in 0 .. MaxFaults
    BY <1>2, FaultTyped DEF SessionExpires, Shaped
  <2>2. /\ session' = NoSession /\ turn' \in [Turns -> Turn]
        /\ \A c \in Turns : /\ turn'[c].pc = turn[c].pc /\ turn'[c].local = turn[c].local
                            /\ turn'[c].closes = turn[c].closes
        /\ UNCHANGED <<profile, lock, attempts, messages>> /\ UNCHANGED historyVars
    BY <1>2, ExpiredTurns DEF Shaped
  <2>3. SessionTypeOK'
    BY <2>1, <2>2, ConstantsTyped DEF Shaped, SessionTypeOK, historyVars
  <2>4. Sound(session)'
    BY <2>2, ConstantsTyped DEF Shaped, SessionTypeOK, Sound, historyVars
  <2>5. {c \in Turns : turn'[c].pc \in {"greet", "decide"}} = Pondering
    BY <2>2 DEF Pondering
  <2> QED
    BY <2>2, <2>3, <2>4, <2>5 DEF Shaped, Sound, Pondering, historyVars
<1> QED
  BY <1>1, <1>2

\* A dead worker's turns are gone, nobody else's changes.
LEMMA DeadTyped ==
    ASSUME SessionTypeOK, NEW w \in Workers, WorkerDies(w)
    PROVE  /\ turn' \in [Turns -> Turn]
           /\ \A c \in Turns : IF c[1] = w THEN turn'[c] = NoTurn ELSE turn'[c] = turn[c]
           /\ faults' \in 0 .. MaxFaults /\ attempts' \in [Workers -> Nat]
           /\ UNCHANGED <<profile, session, lock, messages, started, told, announced, paid,
                          disturbed, lapses, literal, raised>>
           /\ repeatable' = repeatable \cup
                {turn[c].local.id : c \in {d \in Turns : d[1] = w /\ turn[d].closes
                                                         /\ turn[d].pc \in {"release", "close"}}}
<1>1. turn' = [c \in Turns |-> IF c \in {d \in Turns : d[1] = w} THEN NoTurn ELSE turn[c]]
  BY DEF WorkerDies
<1>2. faults' \in 0 .. MaxFaults
  BY FaultTyped DEF WorkerDies
<1>3. /\ attempts' = [attempts EXCEPT ![w] = 0]
      /\ UNCHANGED <<profile, session, lock, messages, started, told, announced, paid,
                     disturbed, lapses, literal, raised>>
  BY DEF WorkerDies, redisVars
<1>4. repeatable' = repeatable \cup
         {turn[c].local.id : c \in {d \in {e \in Turns : e[1] = w} :
                                       turn[d].closes /\ turn[d].pc \in {"release", "close"}}}
  BY Zenon DEF WorkerDies, Mine
<1>5. {d \in {e \in Turns : e[1] = w} : turn[d].closes /\ turn[d].pc \in {"release", "close"}}
        = {d \in Turns : d[1] = w /\ turn[d].closes /\ turn[d].pc \in {"release", "close"}}
  OBVIOUS
<1>6. turn' \in [Turns -> Turn] /\ \A c \in Turns : IF c[1] = w THEN turn'[c] = NoTurn ELSE turn'[c] = turn[c]
  BY <1>1, ConstantsTyped DEF SessionTypeOK
<1>7. attempts' \in [Workers -> Nat]
  BY <1>3 DEF SessionTypeOK
<1> QED
  BY <1>2, <1>3, <1>4, <1>5, <1>6, <1>7

LEMMA DeathShaped ==
    ASSUME Shaped, NEW w \in Workers, WorkerDies(w)
    PROVE  Shaped'
<1>0. SessionTypeOK
  BY DEF Shaped
<1>1. /\ turn' \in [Turns -> Turn]
      /\ \A c \in Turns : IF c[1] = w THEN turn'[c] = NoTurn ELSE turn'[c] = turn[c]
      /\ faults' \in 0 .. MaxFaults /\ attempts' \in [Workers -> Nat]
      /\ UNCHANGED <<profile, session, lock, messages, started, told, announced, paid,
                     disturbed, lapses, literal, raised>>
  BY <1>0, DeadTyped
<1>2. \A c \in Turns : turn[c].local.id \in Collections
  BY TurnTyped, SessionParts
<1>3. repeatable' \subseteq Collections
  BY <1>0, <1>2, DeadTyped DEF SessionTypeOK
<1>4. SessionTypeOK'
  BY <1>0, <1>1, <1>3 DEF SessionTypeOK
<1>5. Sound(NoSession)' /\ Sound(session)'
  BY <1>0, <1>1, ConstantsTyped DEF Shaped, SessionTypeOK, Sound
<1>6. \A c \in Turns : /\ Sound(turn[c].local)'
                       /\ turn'[c].pc \in {"lock", "charge", "release", "close"} => turn'[c].local.id >= 1
                       /\ turn'[c].closes => turn'[c].pc \in {"lock", "charge", "release", "close"}
  BY <1>1, <1>5, ConstantsTyped DEF Shaped, Sound
<1>7. {d \in Turns : turn'[d].pc \in {"greet", "decide"}} \subseteq Pondering
  BY <1>1, ConstantsTyped DEF Pondering
<1>8. started' + Cardinality(Pondering') <= messages'
  <2>1. started \in Nat /\ messages \in Nat
    BY <1>0 DEF SessionTypeOK
  <2> QED
    BY <1>1, <1>7, <2>1, FewerPonder DEF Shaped
<1> QED
  BY <1>4, <1>5, <1>6, <1>8 DEF Shaped

LEMMA InitShaped == Init => Shaped
<1> SUFFICES ASSUME Init PROVE Shaped
  OBVIOUS
<1>1. /\ session = NoSession /\ turn = [c \in Turns |-> NoTurn] /\ started = 0 /\ messages = 0
      /\ \A c \in Turns : turn[c] = NoTurn
  BY DEF Init
<1>2. SessionTypeOK
  <2>1. profile \in BOOLEAN /\ lock \in BOOLEAN /\ disturbed \in BOOLEAN
    BY Zenon DEF Init
  <2>2. session \in Session /\ turn \in [Turns -> Turn]
    BY <1>1, ConstantsTyped
  <2>3. /\ attempts = [w \in Workers |-> 0] /\ faults = 0 /\ announced = 0 /\ lapses = 0
        /\ literal = [w \in Workers |-> 0] /\ raised = [w \in Workers |-> 0]
        /\ told = [i \in Collections |-> {}] /\ paid = [i \in Collections |-> 0]
        /\ repeatable = {}
    BY Zenon DEF Init
  <2>4. messages \in 0 .. MaxMessages /\ faults \in 0 .. MaxFaults /\ started \in 0 .. messages
        /\ announced \in 0 .. MaxQuantity
    BY <1>1, <2>3, SessionAssumption, FlowAssumption
  <2>5. attempts \in [Workers -> Nat] /\ lapses \in Nat /\ literal \in [Workers -> Nat] /\ raised \in [Workers -> Nat]
        /\ told \in [Collections -> SUBSET Fields] /\ paid \in [Collections -> Nat]
        /\ repeatable \subseteq Collections
    BY <2>3
  <2> QED
    BY <2>1, <2>2, <2>4, <2>5, Zenon DEF SessionTypeOK
<1>3. Sound(NoSession)
  BY <1>1, ConstantsTyped DEF Sound
<1>4. Pondering = {}
  BY <1>1, ConstantsTyped DEF Pondering
<1>5. Cardinality(Pondering) = 0
  BY <1>4, FS_EmptySet
<1> QED
  BY <1>1, <1>2, <1>3, <1>5, ConstantsTyped DEF Shaped

LEMMA NextShaped == Shaped /\ [Next]_vars => Shaped'
<1> SUFFICES ASSUME Shaped, [Next]_vars PROVE Shaped'
  OBVIOUS
<1>1. CASE Reads
  BY <1>1, ReadShaped DEF Reads
<1>2. CASE Saving
  BY <1>2, SaveShaped DEF Saving
<1>3. CASE Moving
  BY <1>3, MoveShaped DEF Moving
<1>4. CASE LockExpires \/ SessionExpires
  BY <1>4, ExpiryShaped
<1>5. CASE Dies
  BY <1>5, DeathShaped DEF Dies
<1>6. CASE UNCHANGED vars
  BY <1>6 DEF vars, redisVars, historyVars, Shaped, SessionTypeOK, Sound, Pondering
<1>7. CASE Selling
  BY <1>7, SaleShaped DEF Selling
<1> QED
  BY <1>1, <1>2, <1>3, <1>4, <1>5, <1>6, <1>7, StepKinds

\* A turn of team.py that charges or closes has a collection that was begun, an
\* open checkout has attempts left, and each collection took a message to begin.
THEOREM SessionShaped == Spec => []Shaped
BY InitShaped, NextShaped, PTL DEF Spec

\* The session and its copies keep the shape of team.py's state, through any
\* interleaving of turns and any faults; an open checkout has attempts left.
THEOREM SessionTypeCorrect == Spec => []SessionTypeOK
<1>1. Shaped => SessionTypeOK
  BY DEF Shaped
<1> QED
  BY <1>1, SessionShaped, PTL

-----------------------------------------------------------------------------
(* The lock of payment_gate.py *)

\* Each holder beyond the one the key stands for came through a lapse.
Bounded ==
    Cardinality(Holders) <= lapses + (IF lock THEN 1 ELSE 0)

LEMMA HoldersCounted ==
    ASSUME Shaped, NEW before \in SUBSET Turns
    PROVE  /\ IsFiniteSet(before) /\ Cardinality(before) \in Nat
           /\ IsFiniteSet(Holders) /\ Cardinality(Holders) \in Nat
           /\ before \subseteq Holders => Cardinality(before) <= Cardinality(Holders)
           /\ \A c \in Turns : before \subseteq Holders \cup {c}
                                => Cardinality(before) <= Cardinality(Holders) + 1
           /\ \A c \in Holders : before \subseteq Holders \ {c}
                                => Cardinality(before) <= Cardinality(Holders) - 1
<1>1. IsFiniteSet(Turns) /\ Holders \subseteq Turns
  BY SessionAssumption DEF Holders
<1>2. IsFiniteSet(before) /\ IsFiniteSet(Holders)
  BY <1>1, FS_Subset
<1>3. Cardinality(before) \in Nat /\ Cardinality(Holders) \in Nat
  BY <1>2, FS_CardinalityType
<1>4. ASSUME NEW c \in Turns, before \subseteq Holders \cup {c}
      PROVE  Cardinality(before) <= Cardinality(Holders) + 1
  <2>0. /\ IsFiniteSet(Holders \cup {c})
        /\ Cardinality(Holders \cup {c})
             = (IF c \in Holders THEN Cardinality(Holders) ELSE Cardinality(Holders) + 1)
    BY <1>2, FS_AddElement
  <2>1. IsFiniteSet(Holders \cup {c}) /\ Cardinality(Holders \cup {c}) <= Cardinality(Holders) + 1
        /\ Cardinality(Holders \cup {c}) \in Nat
    BY <1>3, <2>0
  <2>2. Cardinality(before) <= Cardinality(Holders \cup {c})
    BY <1>4, <2>1, FS_Subset
  <2> QED
    BY <1>3, <2>1, <2>2
<1>5. ASSUME NEW c \in Holders, before \subseteq Holders \ {c}
      PROVE  Cardinality(before) <= Cardinality(Holders) - 1
  <2>1. Cardinality(Holders \ {c}) = Cardinality(Holders) - 1 /\ IsFiniteSet(Holders \ {c})
    BY <1>2, FS_RemoveElement
  <2> QED
    BY <1>5, <2>1, FS_Subset
<1> QED
  BY <1>2, <1>3, <1>4, <1>5, FS_Subset

LEMMA LockBounded ==
    ASSUME Shaped, Bounded, NEW c \in Turns, Locks(c)
    PROVE  Bounded'
<1>1. lapses \in Nat /\ lock \in BOOLEAN /\ turn \in [Turns -> Turn]
      /\ \A d \in Turns : turn[d] \in Turn
  BY DEF Shaped, SessionTypeOK
<1>2. Holders' \in SUBSET Turns /\ Cardinality(Holders) \in Nat
  BY HoldersCounted DEF Holders
<1>3. ASSUME NEW pc, turn' = [turn EXCEPT ![c].pc = pc]
      PROVE  /\ Holders' \subseteq Holders \cup {c}
             /\ turn[c].pc \in {"charge", "release"} => Holders' \subseteq Holders
             /\ pc \notin {"charge", "release"} => Holders' \subseteq Holders \ {c}
  <2>1. \A d \in Turns : turn'[d].pc = IF d = c THEN pc ELSE turn[d].pc
    BY <1>1, <1>3 DEF Turn
  <2> QED
    BY <2>1 DEF Holders, At
<1>4. Cardinality(Holders) <= lapses + 1 /\ (~lock => Cardinality(Holders) <= lapses)
  BY <1>1, <1>2 DEF Bounded
<1>5. CASE Acquire(c)
  <2>1. ~lock /\ lock' /\ lapses' = lapses /\ turn' = [turn EXCEPT ![c].pc = "charge"]
    BY <1>5, Zenon DEF Acquire, historyVars
  <2>2. Cardinality(Holders') <= Cardinality(Holders) + 1 /\ Cardinality(Holders') \in Nat
    BY <1>2, <1>3, <2>1, HoldersCounted
  <2> QED
    BY <1>1, <1>2, <1>4, <2>1, <2>2 DEF Bounded
<1>6. CASE AcquireOpen(c)
  <2>1. lock' = lock /\ lapses' = lapses + 1 /\ turn' = [turn EXCEPT ![c].pc = "charge"]
    BY <1>6 DEF AcquireOpen, redisVars
  <2>2. Cardinality(Holders') <= Cardinality(Holders) + 1 /\ Cardinality(Holders') \in Nat
    BY <1>2, <1>3, <2>1, HoldersCounted
  <2> QED
    BY <1>1, <1>2, <2>1, <2>2 DEF Bounded
<1>7. ASSUME NEW charged \in BOOLEAN, Generate(c, charged)
      PROVE  Bounded'
  <2>1. lock' = lock /\ lapses' = lapses /\ turn' = [turn EXCEPT ![c].pc = "release"]
        /\ turn[c].pc = "charge"
    BY <1>7 DEF Generate, redisVars, At
  <2>2. Cardinality(Holders') <= Cardinality(Holders) /\ Cardinality(Holders') \in Nat
    BY <1>2, <1>3, <2>1, HoldersCounted
  <2> QED
    BY <1>1, <1>2, <2>1, <2>2 DEF Bounded
<1>8. ASSUME NEW fails \in BOOLEAN, Release(c, fails)
      PROVE  Bounded'
  <2>1. lapses' = lapses /\ turn' = [turn EXCEPT ![c].pc = AfterCharge(c)]
        /\ turn[c].pc = "release"
    BY <1>8 DEF Release, historyVars, At
  <2>2. c \in Holders /\ AfterCharge(c) \notin {"charge", "release"}
    BY <2>1 DEF Holders, At, AfterCharge
  <2>3. Cardinality(Holders') <= Cardinality(Holders) - 1 /\ Cardinality(Holders') \in Nat
    BY <1>2, <1>3, <2>1, <2>2, HoldersCounted
  <2> QED
    BY <1>1, <1>2, <1>4, <2>1, <2>3 DEF Bounded
<1> QED
  BY <1>5, <1>6, <1>7, <1>8 DEF Locks

LEMMA FewerHold ==
    ASSUME Shaped, Bounded, Holders' \subseteq Holders, lock' = lock, lapses' = lapses
    PROVE  Bounded'
<1>1. Holders' \in SUBSET Turns
  BY DEF Holders
<1>2. Cardinality(Holders') <= Cardinality(Holders) /\ Cardinality(Holders') \in Nat
      /\ Cardinality(Holders) \in Nat
  BY <1>1, HoldersCounted
<1> QED
  BY <1>2 DEF Bounded, Shaped, SessionTypeOK

LEMMA NextBounded == Shaped /\ Bounded /\ [Next]_vars => Bounded'
<1> SUFFICES ASSUME Shaped, Bounded, [Next]_vars PROVE Bounded'
  OBVIOUS
<1>0. SessionTypeOK
  BY DEF Shaped
<1>1. ASSUME NEW c \in Turns, NEW m \in Messages, NEW blind \in BOOLEAN, Read(c, m, blind)
      PROVE  Bounded'
  <2>1. turn'[c].pc \in {"decide", "greet"} /\ \A d \in Turns \ {c} : turn'[d] = turn[d]
    BY <1>1, ReadTyped
  <2>2. lock' = lock /\ lapses' = lapses
    BY <1>1 DEF Read, redisVars
  <2>3. Holders' \subseteq Holders
    BY <2>1 DEF Holders, At
  <2> QED
    BY <2>2, <2>3, FewerHold
<1>2. ASSUME NEW c \in Turns, NEW fails \in BOOLEAN, Saved(c, fails)
      PROVE  Bounded'
  <2>1. PICK s \in Session, next \in PCs, learnt \in SUBSET Fields : Saves(c, s, next, fails, learnt)
    BY <1>2 DEF Saved
  <2>2. turn'[c].pc = next /\ \A d \in Turns \ {c} : turn'[d].pc = turn[d].pc
    BY <1>0, <2>1, SaveTyped DEF Saves
  <2>3. next \notin {"charge", "release"} /\ lock' = lock /\ lapses' = lapses
    BY <2>1 DEF Saves, Keeps, Closes, Starts, Collects
  <2>4. Holders' \subseteq Holders
    BY <2>2, <2>3 DEF Holders, At
  <2> QED
    BY <2>3, <2>4, FewerHold
<1>3. ASSUME NEW c \in Turns, Moved(c)
      PROVE  Bounded'
  <2>1. PICK t \in Turn : Moves(c, t) /\ ((Unlocked /\ t.pc \notin {"charge", "release"}) \/ Locks(c))
    BY <1>3 DEF Moved
  <2>2. CASE Locks(c)
    BY <2>2, LockBounded
  <2>3. CASE Unlocked /\ t.pc \notin {"charge", "release"}
    <3>1. turn' = [turn EXCEPT ![c] = t] /\ turn \in [Turns -> Turn]
      BY <1>0, <2>1 DEF Moves, SessionTypeOK
    <3>2. Holders' \subseteq Holders
      BY <2>3, <3>1 DEF Holders, At
    <3> QED
      BY <2>3, <3>2, FewerHold DEF Unlocked
  <2> QED
    BY <2>1, <2>2, <2>3
<1>4. CASE LockExpires
  <2>1. Holders' = Holders /\ ~lock' /\ lapses' = (IF Holders # {} THEN lapses + 1 ELSE lapses)
    BY <1>4 DEF LockExpires, Holders, At
  <2>2. Cardinality(Holders) \in Nat /\ (Holders = {} => Cardinality(Holders) = 0) /\ lapses \in Nat
    BY HoldersCounted, FS_EmptySet DEF Shaped, SessionTypeOK
  <2>3. Cardinality(Holders) <= lapses + 1
    BY <2>2 DEF Bounded
  <2>4. Cardinality(Holders') <= lapses'
    BY <2>1, <2>2, <2>3
  <2> QED
    BY <2>1, <2>2, <2>4 DEF Bounded
<1>5. CASE SessionExpires
  <2>1. Holders' = Holders /\ lock' = lock /\ lapses' = lapses
    BY <1>0, <1>5, ExpiredTurns DEF Holders, At, historyVars
  <2> QED
    BY <2>1, FewerHold
<1>6. ASSUME NEW w \in Workers, WorkerDies(w)
      PROVE  Bounded'
  <2>1. /\ \A c \in Turns : IF c[1] = w THEN turn'[c] = NoTurn ELSE turn'[c] = turn[c]
        /\ lock' = lock /\ lapses' = lapses
    BY <1>0, <1>6, DeadTyped
  <2>2. Holders' \subseteq Holders
    BY <2>1, ConstantsTyped DEF Holders, At
  <2> QED
    BY <2>1, <2>2, FewerHold
<1>7. CASE UNCHANGED vars
  BY <1>7 DEF vars, redisVars, historyVars, Bounded, Holders, At
<1>8. ASSUME NEW c \in Turns, Sale(c)
      PROVE  Bounded'
  <2>1. /\ \A d \in Turns : turn'[d].pc = turn[d].pc
        /\ lock' = lock /\ lapses' = lapses
    BY <1>0, <1>8 DEF Sale, SessionTypeOK
  <2>2. Holders' = Holders
    BY <2>1 DEF Holders, At
  <2> QED
    BY <2>1, <2>2, FewerHold
<1> QED
  BY <1>1, <1>2, <1>3, <1>4, <1>5, <1>6, <1>7, <1>8, StepKinds
     DEF Reads, Saving, Moving, Selling, Dies

\* The key has no token and a time to live: whatever turns, expiries, outages
\* and deaths do, no more turns charge at once than the lock let in.
THEOREM ChargesOverlapOnlyByLapses == Spec => []OverlapBounded
<1>1. Init => Bounded
  <2> SUFFICES ASSUME Init PROVE Bounded
    OBVIOUS
  <2>1. Holders = {} /\ lapses = 0
    BY ConstantsTyped DEF Init, Holders, At
  <2>2. Cardinality(Holders) = 0
    BY <2>1, FS_EmptySet
  <2> QED
    BY <2>1, <2>2 DEF Bounded
<1>2. Shaped /\ Bounded => OverlapBounded
  <2> SUFFICES ASSUME Shaped, Bounded PROVE OverlapBounded
    OBVIOUS
  <2> DEFINE charging == {c \in Turns : At(c, "charge")}
  <2>1. charging \in SUBSET Turns /\ charging \subseteq Holders
    BY DEF Holders
  <2>2. Cardinality(charging) <= Cardinality(Holders) /\ Cardinality(charging) \in Nat
        /\ Cardinality(Holders) \in Nat
    BY <2>1, HoldersCounted
  <2>3. Cardinality(Holders) <= lapses + 1 /\ lapses \in Nat
    BY <2>2 DEF Bounded, Shaped, SessionTypeOK
  <2>4. Cardinality(charging) <= 1 + lapses
    BY <2>2, <2>3
  <2> QED
    BY <2>4 DEF OverlapBounded
<1> QED
  BY <1>1, <1>2, NextBounded, SessionShaped, PTL DEF Spec

-----------------------------------------------------------------------------
(* What a collection keeps, and what is charged for it *)

Alike(s, r) == s.id = r.id /\ s.active = r.active /\ s.fields = r.fields /\ s.qty = r.qty

\* A turn whose copy is fresh has what Redis has.
Fresh ==
    \A c \in Turns : turn[c].pc \in {"greet", "decide", "agent", "reply"} /\ ~turn[c].stale
                        => Alike(turn[c].local, session)
Remembered == session.active /\ ~disturbed => told[session.id] \subseteq session.fields
Announced == session.active /\ ~disturbed => session.qty = announced
Quoted ==
    \A c \in Turns : turn[c].pc \in {"lock", "charge"} /\ ~turn[c].stale /\ ~disturbed
                        => turn[c].local.qty = announced

Current == Fresh /\ Remembered /\ Announced /\ Quoted

LEMMA SaveCurrent ==
    ASSUME Shaped, Current, NEW c \in Turns, NEW fails \in BOOLEAN, Saved(c, fails)
    PROVE  Current'
<1>0. SessionTypeOK
  BY DEF Shaped
<1>1. PICK s \in Session, next \in PCs, learnt \in SUBSET Fields : Saves(c, s, next, fails, learnt)
  BY DEF Saved
<1>2. /\ turn'[c].pc = next
      /\ next # "idle" => turn'[c].local = s /\ turn'[c].stale = turn[c].stale
      /\ \A d \in Turns \ {c} :
            /\ turn'[d].pc = turn[d].pc /\ turn'[d].local = turn[d].local
            /\ turn[d].stale => turn'[d].stale
            /\ Busy(d) /\ ~fails => turn'[d].stale
            /\ fails => turn'[d].stale = turn[d].stale
  BY <1>0, <1>1, SaveTyped DEF Saves
<1>3. Keeps(c, s, next) \/ Closes(c, s, next) \/ Starts(c, s, next) \/ Collects(c, s, next, learnt)
  BY <1>1 DEF Saves
<1>4. \A d \in Turns : turn[d].pc # "idle" => Busy(d)
  BY DEF Busy, At
<1>5. CASE fails
  <2>1. session' = session /\ disturbed'
    BY <1>1, <1>5, Zenon DEF Saves, Save
  <2>2. ASSUME NEW d \in Turns, turn'[d].pc \in {"greet", "decide", "agent", "reply"}, ~turn'[d].stale
        PROVE  Alike(turn'[d].local, session)
    <3>1. CASE d # c
      BY <1>2, <1>5, <2>2, <3>1 DEF Current, Fresh
    <3>2. CASE d = c
      <4>1. next \in {"greet", "decide"} /\ Keeps(c, s, next) /\ ~turn[c].stale
        BY <1>2, <1>3, <2>2, <3>2 DEF Keeps, Closes, Starts, Collects
      <4>2. Alike(turn[c].local, session)
        BY <4>1 DEF Current, Fresh, Keeps
      <4> QED
        BY <1>2, <3>2, <4>1, <4>2 DEF Keeps, Kept, Alike
    <3> QED
      BY <3>1, <3>2
  <2> QED
    BY <2>1, <2>2 DEF Current, Fresh, Alike, Remembered, Announced, Quoted
<1>6. CASE ~fails
  <2>1. /\ session' = s
        /\ ~disturbed' => ~turn[c].stale /\ (disturbed => s.id # session.id)
    BY <1>1, <1>6, Zenon DEF Saves, Save
  <2>2. Fresh'
    <3>1. ASSUME NEW d \in Turns, turn'[d].pc \in {"greet", "decide", "agent", "reply"}, ~turn'[d].stale
          PROVE  turn'[d].local = s
      BY <1>2, <1>4, <1>6, <3>1
    <3> QED
      BY <2>1, <3>1 DEF Fresh, Alike
  <2>3. turn[c].pc \in {"decide", "reply", "greet"} /\ ~turn[c].stale => Alike(turn[c].local, session)
    BY DEF Current, Fresh
  <2>4. Remembered'
    <3> SUFFICES ASSUME s.active, ~disturbed' PROVE told'[s.id] \subseteq s.fields
      BY <2>1 DEF Remembered
    <3>1. CASE Keeps(c, s, next)
      BY <2>1, <2>3, <3>1 DEF Keeps, Kept, Alike, Current, Remembered, Untold
    <3>2. CASE Starts(c, s, next)
      <4>1. told' = [told EXCEPT ![started + 1] = s.fields] /\ s.id = started + 1
        BY <3>2 DEF Starts
      <4>2. s.id \in Collections /\ told \in [Collections -> SUBSET Fields]
        BY <1>0, SessionParts DEF SessionTypeOK
      <4> QED
        BY <4>1, <4>2
    <3>3. CASE Collects(c, s, next, learnt)
      <4>1. told' = [told EXCEPT ![s.id] = @ \cup learnt] /\ learnt \subseteq s.fields
            /\ turn[c].local.fields \subseteq s.fields /\ s.id = turn[c].local.id
            /\ turn[c].local.active /\ turn[c].pc = "decide"
        BY <3>3 DEF Collects
      <4>2. s.id \in Collections /\ told \in [Collections -> SUBSET Fields]
        BY <1>0, SessionParts DEF SessionTypeOK
      <4>3. told[s.id] \subseteq turn[c].local.fields
        BY <2>1, <2>3, <4>1 DEF Alike, Current, Remembered
      <4> QED
        BY <4>1, <4>2, <4>3
    <3>4. CASE Closes(c, s, next)
      BY <3>4 DEF Closes
    <3> QED
      BY <1>3, <3>1, <3>2, <3>3, <3>4
  <2>5. Announced'
    <3> SUFFICES ASSUME s.active, ~disturbed' PROVE s.qty = announced'
      BY <2>1 DEF Announced
    <3>1. CASE Keeps(c, s, next)
      BY <2>1, <2>3, <3>1 DEF Keeps, Kept, Alike, Current, Announced, Untold
    <3>2. CASE Starts(c, s, next)
      BY <3>2 DEF Starts
    <3>3. CASE Collects(c, s, next, learnt)
      BY <2>1, <2>3, <3>3 DEF Collects, Alike, Current, Announced
    <3>4. CASE Closes(c, s, next)
      BY <3>4 DEF Closes
    <3> QED
      BY <1>3, <3>1, <3>2, <3>3, <3>4
  <2>6. Quoted'
    <3> SUFFICES ASSUME NEW d \in Turns, turn'[d].pc \in {"lock", "charge"}, ~turn'[d].stale, ~disturbed'
                 PROVE  turn'[d].local.qty = announced'
      BY DEF Quoted
    <3>1. d = c /\ next \in {"lock", "charge"}
      BY <1>2, <1>4, <1>6
    <3>2. CASE Starts(c, s, next)
      BY <1>2, <3>1, <3>2 DEF Starts
    <3>3. CASE Closes(c, s, next)
      BY <1>2, <2>1, <2>3, <3>1, <3>3 DEF Closes, Alike, Current, Announced, Untold
    <3>4. CASE Keeps(c, s, next) \/ Collects(c, s, next, learnt)
      BY <3>1, <3>4 DEF Keeps, Collects
    <3> QED
      BY <1>3, <3>2, <3>3, <3>4
  <2> QED
    BY <2>2, <2>4, <2>5, <2>6 DEF Current
<1> QED
  BY <1>5, <1>6

LEMMA MoveCurrent ==
    ASSUME Shaped, Current, NEW c \in Turns, Moved(c)
    PROVE  Current'
<1>1. PICK t \in Turn : Moves(c, t)
  BY DEF Moved
<1>2. /\ turn' = [turn EXCEPT ![c] = t] /\ turn \in [Turns -> Turn]
      /\ UNCHANGED <<session, told, announced, disturbed>>
  BY <1>1 DEF Moves, Shaped, SessionTypeOK
<1>3. \A d \in Turns \ {c} : turn'[d] = turn[d]
  BY <1>2
<1>4. t.pc \in {"greet", "decide", "agent", "reply"} /\ ~t.stale => Alike(t.local, session)
  <2> SUFFICES ASSUME t.pc \in {"greet", "decide", "agent", "reply"}, ~t.stale
               PROVE  Alike(t.local, session)
    OBVIOUS
  <2>1. t.pc \in {"agent", "reply"} /\ turn[c].pc \in {"decide", "agent"}
    BY <1>1 DEF Moves
  <2>2. t # NoTurn
    BY <2>1, ConstantsTyped
  <2>3. ~turn[c].stale /\ Kept(t.local, turn[c].local)
    BY <1>1, <2>1, <2>2 DEF Moves
  <2>4. Alike(turn[c].local, session)
    BY <2>1, <2>3 DEF Current, Fresh
  <2> QED
    BY <2>3, <2>4 DEF Kept, Alike
<1>5. t.pc \in {"lock", "charge"} /\ ~t.stale /\ ~disturbed => t.local.qty = announced
  <2> SUFFICES ASSUME t.pc \in {"lock", "charge"}, ~t.stale, ~disturbed
               PROVE  t.local.qty = announced
    OBVIOUS
  <2>1. t # NoTurn
    BY ConstantsTyped
  <2>2. ~turn[c].stale /\ t.local.qty = turn[c].local.qty
    BY <1>1, <2>1 DEF Moves
  <2>3. (turn[c].pc = "decide" /\ turn[c].local.active) \/ turn[c].pc = "lock"
    BY <1>1 DEF Moves
  <2> QED
    BY <2>2, <2>3 DEF Current, Fresh, Alike, Announced, Quoted
<1> QED
  BY <1>2, <1>3, <1>4, <1>5 DEF Current, Fresh, Remembered, Announced, Quoted, Alike

LEMMA NextCurrent == Shaped /\ Current /\ [Next]_vars => Current'
<1> SUFFICES ASSUME Shaped, Current, [Next]_vars PROVE Current'
  OBVIOUS
<1>0. SessionTypeOK
  BY DEF Shaped
<1>1. ASSUME NEW c \in Turns, NEW m \in Messages, NEW blind \in BOOLEAN, Read(c, m, blind)
      PROVE  Current'
  <2>1. /\ turn'[c].pc \in {"decide", "greet"} /\ turn'[c].stale = blind
        /\ ~blind => turn'[c].local = session
        /\ \A d \in Turns \ {c} : turn'[d] = turn[d]
    BY <1>1, ReadTyped
  <2>2. UNCHANGED <<session, told, announced, disturbed>>
    BY <1>1 DEF Read, redisVars
  <2> QED
    BY <2>1, <2>2 DEF Current, Fresh, Remembered, Announced, Quoted, Alike
<1>2. ASSUME NEW c \in Turns, NEW fails \in BOOLEAN, Saved(c, fails)
      PROVE  Current'
  BY <1>2, SaveCurrent
<1>3. ASSUME NEW c \in Turns, Moved(c)
      PROVE  Current'
  BY <1>3, MoveCurrent
<1>4. CASE LockExpires
  BY <1>4 DEF LockExpires, Current, Fresh, Remembered, Announced, Quoted, Alike
<1>5. CASE SessionExpires
  <2>1. session' = NoSession /\ UNCHANGED <<told, announced, disturbed>>
        /\ \A c \in Turns : turn'[c].pc = "idle" \/ turn'[c].stale
    BY <1>0, <1>5, ExpiredTurns DEF historyVars
  <2> QED
    BY <2>1, ConstantsTyped DEF Current, Fresh, Remembered, Announced, Quoted
<1>6. ASSUME NEW w \in Workers, WorkerDies(w)
      PROVE  Current'
  <2>1. /\ \A c \in Turns : IF c[1] = w THEN turn'[c] = NoTurn ELSE turn'[c] = turn[c]
        /\ UNCHANGED <<session, told, announced, disturbed>>
    BY <1>0, <1>6, DeadTyped
  <2> QED
    BY <2>1, ConstantsTyped DEF Current, Fresh, Remembered, Announced, Quoted, Alike
<1>7. CASE UNCHANGED vars
  BY <1>7 DEF vars, redisVars, historyVars, Current, Fresh, Remembered, Announced, Quoted, Alike
<1>8. ASSUME NEW c \in Turns, Sale(c)
      PROVE  Current'
  <2>1. /\ \A d \in Turns : /\ turn'[d].pc = turn[d].pc /\ turn'[d].local = turn[d].local
                            /\ turn'[d].stale = turn[d].stale
        /\ UNCHANGED <<session, told, announced, disturbed>>
    BY <1>0, <1>8 DEF Sale, SessionTypeOK
  <2> QED
    BY <2>1 DEF Current, Fresh, Remembered, Announced, Quoted, Alike
<1> QED
  BY <1>1, <1>2, <1>3, <1>4, <1>5, <1>6, <1>7, <1>8, StepKinds
     DEF Reads, Saving, Moving, Selling, Dies

\* What a turn of team.py read before its awaits is still what Redis holds, as
\* long as turns do not overlap and no save is lost.
THEOREM CopiesAreCurrent == Spec => []Current
<1>1. Init => Current
  BY ConstantsTyped DEF Init, Current, Fresh, Remembered, Announced, Quoted
<1> QED
  BY <1>1, NextCurrent, SessionShaped, PTL DEF Spec

\* "Um campo ja valido NUNCA e pedido de novo" (checkout_flow.py), where turns
\* do not overlap and Redis takes every save.
THEOREM CollectionsKeepTheirFields == Spec => []FieldsAreKept
<1>1. Current => FieldsAreKept
  BY DEF Current, Remembered, FieldsAreKept
<1> QED
  BY <1>1, CopiesAreCurrent, PTL

\* What team.py charges is what it last told the lead, through every switch of
\* quantity, of means and every reopening.
THEOREM NothingIsChargedInSilence == Spec => []ChargesWhatWasAnnounced
<1>1. Current => ChargesWhatWasAnnounced
  BY DEF Current, Quoted, ChargesWhatWasAnnounced, At, Mine
<1> QED
  BY <1>1, CopiesAreCurrent, PTL

-----------------------------------------------------------------------------
(* How often a collection is charged *)

Working(c) == turn[c].pc # "idle"

\* Two turns at work on one collection have been noticed.
Noticed ==
    \A c, d \in Turns :
        c # d /\ Working(c) /\ Working(d) /\ turn[c].local.id = turn[d].local.id
              /\ turn[c].local.id >= 1
            => turn[c].local.id \in repeatable

PaidWasStarted == \A i \in Collections : paid[i] > 0 => i <= started

\* Once charged, a collection is on no way to another charge: its turns are
\* past it or hold an inactive copy, and a session still open is about to be
\* closed by the turn that charged.
Closing(c, i) == turn[c].local.id = i /\ turn[c].closes /\ turn[c].pc \in {"release", "close"}
Past(c) ==
    \/ turn[c].pc \in {"release", "close"}
    \/ turn[c].pc \in {"greet", "decide", "agent", "reply"} /\ ~turn[c].local.active
Settled(i) ==
    /\ paid[i] = 1
    /\ \A c \in Turns : Working(c) /\ turn[c].local.id = i => Past(c)
    /\ session.active /\ session.id = i => \E c \in Turns : Closing(c, i)
Settles == \A i \in Collections \ repeatable : i >= 1 /\ paid[i] > 0 => Settled(i)

\* What is closed before the charge stays closed until then.
ClosedBefore ==
    \A c \in Turns : turn[c].pc \in {"lock", "charge"} /\ ~turn[c].closes
                     /\ turn[c].local.id \notin repeatable
                        => ~(session.active /\ session.id = turn[c].local.id)

Once == Noticed /\ PaidWasStarted /\ Settles /\ ClosedBefore /\ paid[0] = 0

LEMMA IdsTyped ==
    ASSUME Shaped
    PROVE  /\ started \in Nat /\ session.id \in Nat /\ session.id <= started
           /\ session.id \in Collections
           /\ \A c \in Turns : /\ turn[c].local.id \in Nat /\ turn[c].local.id <= started
                               /\ turn[c].local.id \in Collections
                               /\ turn[c].pc \in PCs
                               /\ turn[c].local.active => turn[c].local.id >= 1
           /\ paid \in [Collections -> Nat] /\ 0 \in Collections
           /\ \A i \in Collections : i \in Nat /\ paid[i] \in Nat
<1>1. \A i \in Collections : i \in Nat
  BY SessionAssumption DEF Collections
<1>2. 0 \in Collections
  BY SessionAssumption DEF Collections
<1>3. started \in Nat /\ paid \in [Collections -> Nat] /\ session \in Session /\ Sound(session)
  BY SessionAssumption DEF Shaped, SessionTypeOK
<1>4. \A s \in Session : s.id \in Collections /\ s.id \in Nat
  BY <1>1, SessionParts
<1>5. \A c \in Turns : turn[c].local \in Session /\ Sound(turn[c].local) /\ turn[c].pc \in PCs
  BY TurnTyped
<1>6. \A i \in Collections : paid[i] \in Nat
  BY <1>3
<1> QED
  BY <1>1, <1>2, <1>3, <1>4, <1>5, <1>6 DEF Sound

\* Nobody else is at work on a collection that is not repeatable.
LEMMA AloneAtIt ==
    ASSUME Shaped, Once, NEW c \in Turns, NEW d \in Turns, Working(c), Working(d),
           turn[c].local.id = turn[d].local.id, turn[c].local.id >= 1,
           turn[c].local.id \notin repeatable
    PROVE  c = d
BY DEF Once, Noticed

LEMMA SaveOnce ==
    ASSUME Shaped, Once, NEW c \in Turns, NEW fails \in BOOLEAN, Saved(c, fails)
    PROVE  Once'
<1>0. SessionTypeOK
  BY DEF Shaped
<1>1. PICK s \in Session, next \in PCs, learnt \in SUBSET Fields : Saves(c, s, next, fails, learnt)
  BY DEF Saved
<1>2. /\ turn'[c].pc = next
      /\ next # "idle" => turn'[c].local = s /\ turn'[c].closes = turn[c].closes
      /\ \A d \in Turns \ {c} :
            /\ turn'[d].pc = turn[d].pc /\ turn'[d].local = turn[d].local
            /\ turn'[d].closes = turn[d].closes
  BY <1>0, <1>1, SaveTyped DEF Saves
<1>3. Keeps(c, s, next) \/ Closes(c, s, next) \/ Starts(c, s, next) \/ Collects(c, s, next, learnt)
  BY <1>1 DEF Saves
<1>4. paid' = paid /\ (started' = started \/ started' = started + 1)
  BY <1>1 DEF Saves, Keeps, Closes, Starts, Collects, Untold
<1>5. /\ repeatable \subseteq repeatable'
      /\ fails => s.id \in repeatable' /\ session' = session
      /\ ~fails => session' = s
  BY <1>1, Zenon DEF Saves, Save
<1>6. s.id \in Collections /\ s.id \in Nat
  <2>1. s.id \in Collections
    BY SessionParts
  <2> QED
    BY <2>1, IdsTyped
<1>7. turn[c].pc \in {"greet", "decide", "reply", "close"}
  BY <1>3 DEF Keeps, Closes, Starts, Collects
<1>8. \/ s.id = turn[c].local.id
      \/ s.id = started + 1 /\ Starts(c, s, next)
  BY <1>3 DEF Keeps, Kept, Closes, Starts, Collects
<1>9. Noticed'
  <2> SUFFICES ASSUME NEW d \in Turns, NEW e \in Turns, d # e, Working(d)', Working(e)',
                      turn'[d].local.id = turn'[e].local.id, turn'[d].local.id >= 1
               PROVE  turn'[d].local.id \in repeatable'
    BY DEF Noticed
  <2>1. CASE d # c /\ e # c
    BY <1>2, <1>5, <2>1 DEF Once, Noticed, Working
  <2>2. ASSUME NEW o \in Turns \ {c}, Working(o), next # "idle", s.id = turn[o].local.id, s.id >= 1
        PROVE  s.id \in repeatable'
    <3>1. s.id = turn[c].local.id
      BY <1>8, <2>2, IdsTyped
    <3> QED
      BY <1>5, <1>7, <2>2, <3>1 DEF Once, Noticed, Working
  <2>3. CASE d = c
    BY <1>2, <2>2, <2>3 DEF Working
  <2>4. CASE e = c
    BY <1>2, <2>2, <2>4 DEF Working
  <2> QED
    BY <2>1, <2>3, <2>4
<1>10. PaidWasStarted'
  BY <1>4, IdsTyped DEF Once, PaidWasStarted
<1>11. Settles'
  <2> SUFFICES ASSUME NEW i \in Collections \ repeatable', i >= 1, paid[i] > 0
               PROVE  Settled(i)'
    BY <1>4 DEF Settles
  <2>1. i \notin repeatable /\ Settled(i) /\ i <= started /\ i \in Nat
    BY <1>5, IdsTyped DEF Once, Settles, PaidWasStarted
  <2>2. s.id = i => s.id = turn[c].local.id /\ ~fails
    BY <1>5, <1>8, <2>1, IdsTyped
  <2>3. s.id = i => ~s.active /\ (next # "idle" => Keeps(c, s, next))
    <3> SUFFICES ASSUME s.id = i PROVE ~s.active /\ (next # "idle" => Keeps(c, s, next))
      OBVIOUS
    <3>1. Past(c)
      BY <1>7, <2>1, <2>2 DEF Settled, Working
    <3>2. CASE Keeps(c, s, next)
      BY <3>1, <3>2 DEF Past, Keeps, Kept
    <3>3. CASE Closes(c, s, next)
      BY <3>1, <3>3 DEF Past, Closes
    <3>4. CASE Collects(c, s, next, learnt)
      BY <3>1, <3>4 DEF Past, Collects
    <3>5. CASE Starts(c, s, next)
      BY <2>1, <2>2, <3>5, IdsTyped DEF Starts
    <3> QED
      BY <1>3, <3>2, <3>3, <3>4, <3>5
  <2>4. ASSUME NEW d \in Turns, Working(d)', turn'[d].local.id = i
        PROVE  Past(d)'
    <3>1. CASE d # c
      BY <1>2, <2>1, <2>4, <3>1 DEF Settled, Working, Past
    <3>2. CASE d = c
      <4>1. next # "idle" /\ s.id = i
        BY <1>2, <2>4, <3>2 DEF Working
      <4> QED
        BY <1>2, <2>3, <3>2, <4>1 DEF Keeps, Past
    <3> QED
      BY <3>1, <3>2
  <2>5. ASSUME session'.active, session'.id = i
        PROVE  \E d \in Turns : Closing(d, i)'
    <3>1. session' = session /\ fails
      BY <1>5, <2>3, <2>5
    <3>2. PICK d \in Turns : Closing(d, i)
      BY <2>1, <2>5, <3>1 DEF Settled
    <3>3. d # c
      <4>1. turn[c].pc \in {"release", "close"} => s.id = turn[c].local.id
        BY <1>8 DEF Starts
      <4> QED
        BY <1>5, <3>1, <3>2, <4>1 DEF Closing
    <3> QED
      BY <1>2, <3>2, <3>3 DEF Closing
  <2> QED
    BY <1>4, <2>1, <2>4, <2>5 DEF Settled
<1>12. ClosedBefore'
  <2> SUFFICES ASSUME NEW d \in Turns, turn'[d].pc \in {"lock", "charge"}, ~turn'[d].closes,
                      turn'[d].local.id \notin repeatable',
                      session'.active, session'.id = turn'[d].local.id
               PROVE  FALSE
    BY DEF ClosedBefore
  <2>1. CASE d = c
    <3>1. s.id \notin repeatable' /\ next = "lock"
      BY <1>2, <1>3, <2>1 DEF Keeps, Closes, Starts, Collects
    <3>2. session' = s
      BY <1>5, <3>1
    <3>3. ~s.active
      BY <1>3, <3>1 DEF Keeps, Closes, Starts, Collects
    <3> QED
      BY <3>2, <3>3
  <2>2. CASE d # c
    <3>1. turn[d].pc \in {"lock", "charge"} /\ ~turn[d].closes /\ turn[d].local.id \notin repeatable
          /\ turn'[d].local.id = turn[d].local.id
      BY <1>2, <1>5, <2>2
    <3>2. ~(session.active /\ session.id = turn[d].local.id)
      BY <3>1 DEF Once, ClosedBefore
    <3>3. session' = s /\ s.id = turn[d].local.id
      BY <1>5, <3>1, <3>2
    <3>4. s.id = turn[c].local.id
      BY <1>8, <3>3, IdsTyped
    <3>5. turn[d].local.id >= 1
      BY <3>1 DEF Shaped
    <3> QED
      BY <1>7, <2>2, <3>1, <3>3, <3>4, <3>5, AloneAtIt DEF Working
  <2> QED
    BY <2>1, <2>2
<1> QED
  BY <1>4, <1>9, <1>10, <1>11, <1>12 DEF Once

LEMMA ReadOnce ==
    ASSUME Shaped, Once, NEW c \in Turns, NEW m \in Messages, NEW blind \in BOOLEAN,
           Read(c, m, blind)
    PROVE  Once'
<1>1. PICK s \in Session, pc \in {"decide", "greet"} :
        /\ s = (IF blind THEN NoSession ELSE session)
        /\ turn'[c].pc = pc /\ turn'[c].local = s /\ ~turn'[c].closes
        /\ \A d \in Turns \ {c} : turn'[d] = turn[d]
  BY ReadTyped
<1>2. UNCHANGED <<session, started, paid>>
  BY DEF Read, redisVars
<1>3. /\ repeatable \subseteq repeatable'
      /\ \A d \in Turns \ {c} : Working(d) /\ turn[d].local.id = session.id
                                  => session.id \in repeatable'
  <2>1. repeatable' = IF {d \in Turns \ {c} : Busy(d) /\ Mine(d).id = session.id} = {}
                      THEN repeatable ELSE repeatable \cup {session.id}
    BY DEF Read
  <2> QED
    BY <2>1 DEF Working, Busy, At, Mine
<1>4. s.id >= 1 => s = session
  BY <1>1, ConstantsTyped
<1>5. Noticed'
  <2> SUFFICES ASSUME NEW d \in Turns, NEW e \in Turns, d # e, Working(d)', Working(e)',
                      turn'[d].local.id = turn'[e].local.id, turn'[d].local.id >= 1
               PROVE  turn'[d].local.id \in repeatable'
    BY DEF Noticed
  <2>1. CASE d # c /\ e # c
    BY <1>1, <1>3, <2>1 DEF Once, Noticed, Working
  <2>2. CASE d = c
    BY <1>1, <1>3, <1>4, <2>2 DEF Working
  <2>3. CASE e = c
    BY <1>1, <1>3, <1>4, <2>3 DEF Working
  <2> QED
    BY <2>1, <2>2, <2>3
<1>6. Settles'
  <2> SUFFICES ASSUME NEW i \in Collections \ repeatable', i >= 1, paid[i] > 0
               PROVE  Settled(i)'
    BY <1>2 DEF Settles
  <2>1. i \notin repeatable /\ Settled(i)
    BY <1>3 DEF Once, Settles
  <2>2. \A d \in Turns : Closing(d, i) => (d # c /\ session.id # i) \/ d = c
    BY <1>3 DEF Closing, Working
  <2>3. ASSUME s.id = i PROVE ~s.active
    <3>1. s = session
      BY <1>4, <2>3
    <3> SUFFICES ASSUME s.active PROVE FALSE
      OBVIOUS
    <3>2. PICK d \in Turns : Closing(d, i)
      BY <2>1, <2>3, <3>1 DEF Settled
    <3>3. d = c
      BY <2>2, <2>3, <3>1, <3>2
    <3>4. turn[c].pc = "idle"
      BY DEF Read, Busy, At
    <3> QED
      BY <3>2, <3>3, <3>4 DEF Closing
  <2>4. ASSUME NEW d \in Turns, Working(d)', turn'[d].local.id = i
        PROVE  Past(d)'
    BY <1>1, <2>1, <2>3, <2>4 DEF Settled, Working, Past
  <2>5. ASSUME session.active, session.id = i
        PROVE  \E d \in Turns : Closing(d, i)'
    <3>1. PICK d \in Turns : Closing(d, i)
      BY <2>1, <2>5 DEF Settled
    <3>2. turn[c].pc = "idle"
      BY DEF Read, Busy, At
    <3>3. d # c
      BY <3>1, <3>2 DEF Closing
    <3> QED
      BY <1>1, <3>1, <3>3 DEF Closing
  <2> QED
    BY <1>2, <2>1, <2>4, <2>5 DEF Settled
<1>7. ClosedBefore'
  BY <1>1, <1>2, <1>3 DEF Once, ClosedBefore
<1> QED
  BY <1>2, <1>5, <1>6, <1>7 DEF Once, PaidWasStarted

\* A step without a save, but for the charge and the end of the charge.
LEMMA MoveOnce ==
    ASSUME Shaped, Once, NEW c \in Turns, NEW t \in Turn, Moves(c, t), paid' = paid,
           turn[c].pc # "release"
    PROVE  Once'
<1>1. /\ turn' = [turn EXCEPT ![c] = t] /\ turn \in [Turns -> Turn]
      /\ UNCHANGED <<session, started, repeatable>>
  BY DEF Moves, Shaped, SessionTypeOK
<1>2. turn'[c] = t /\ \A d \in Turns \ {c} : turn'[d] = turn[d]
  BY <1>1
<1>3. t.pc # "idle" => /\ t.local.id = turn[c].local.id /\ t.local.active = turn[c].local.active
                       /\ turn[c].pc # "idle"
  BY ConstantsTyped DEF Moves
<1>4. Noticed'
  BY <1>1, <1>2, <1>3 DEF Once, Noticed, Working
<1>5. ASSUME NEW i \in Collections, Settled(i)
      PROVE  Settled(i)'
  <2>1. \A d \in Turns : Closing(d, i) => d # c \/ turn[c].pc = "close"
    BY <1>5 DEF Closing
  <2>2. turn[c].pc # "close"
    BY DEF Moves
  <2>3. ASSUME NEW d \in Turns, Working(d)', turn'[d].local.id = i
        PROVE  Past(d)'
    <3>1. CASE d # c
      BY <1>2, <1>5, <2>3, <3>1 DEF Settled, Working, Past
    <3>2. CASE d = c
      <4>1. t.pc # "idle" /\ turn[c].local.id = i /\ turn[c].pc # "idle"
        BY <1>2, <1>3, <2>3, <3>2 DEF Working
      <4>2. Past(c)
        BY <1>5, <4>1 DEF Settled, Working
      <4>3. turn[c].pc \in {"decide", "agent"} /\ ~turn[c].local.active
        BY <2>2, <4>1, <4>2 DEF Past, Moves
      <4>4. t.pc \in {"agent", "reply"}
        BY <4>1, <4>3 DEF Moves
      <4> QED
        BY <1>2, <1>3, <3>2, <4>1, <4>3, <4>4 DEF Past
    <3> QED
      BY <3>1, <3>2
  <2>4. ASSUME session.active, session.id = i
        PROVE  \E d \in Turns : Closing(d, i)'
    <3>1. PICK d \in Turns : Closing(d, i)
      BY <1>5, <2>4 DEF Settled
    <3> QED
      BY <1>2, <2>1, <2>2, <3>1 DEF Closing
  <2> QED
    BY <1>1, <1>5, <2>3, <2>4 DEF Settled
<1>6. Settles'
  BY <1>1, <1>5 DEF Once, Settles
<1>7. t.pc \in {"lock", "charge"} /\ ~t.closes
        => turn[c].pc \in {"lock", "charge"} /\ ~turn[c].closes /\ t.local.id = turn[c].local.id
  BY <1>3 DEF Moves
<1>8. ClosedBefore'
  BY <1>1, <1>2, <1>7 DEF Once, ClosedBefore
<1> QED
  BY <1>1, <1>4, <1>6, <1>8 DEF Once, PaidWasStarted

\* The charge is the first one, or the collection is repeatable.
LEMMA ChargeOnce ==
    ASSUME Shaped, Once, NEW c \in Turns, NEW t \in Turn, Moves(c, t),
           NEW charged \in BOOLEAN, Generate(c, charged)
    PROVE  Once'
<1> DEFINE n == turn[c].local.id
<1>1. /\ turn' = [turn EXCEPT ![c] = t] /\ turn \in [Turns -> Turn]
      /\ UNCHANGED <<session, started, repeatable>> /\ turn[c].pc = "charge"
  BY DEF Moves, Shaped, SessionTypeOK, Generate, At
<1>2. turn'[c] = t /\ \A d \in Turns \ {c} : turn'[d] = turn[d]
  BY <1>1
<1>3. t.pc = "release" /\ t.closes = turn[c].closes /\ t.local.id = n
  BY <1>1, ConstantsTyped DEF Moves
<1>4. CASE ~charged
  <2>1. paid' = paid
    BY <1>4 DEF Generate
  <2> QED
    BY <1>1, <2>1, MoveOnce
<1>5. CASE charged
  <2>1. paid' = [paid EXCEPT ![n] = @ + 1]
    BY <1>5 DEF Generate, Mine
  <2>2. n \in Collections /\ n \in Nat /\ n >= 1 /\ n <= started /\ 0 \in Collections
        /\ paid \in [Collections -> Nat]
    BY <1>1, IdsTyped DEF Shaped
  <2>3. paid'[0] = 0 /\ paid'[n] = paid[n] + 1 /\ \A i \in Collections \ {n} : paid'[i] = paid[i]
    BY <2>1, <2>2 DEF Once
  <2>4. PaidWasStarted'
    BY <1>1, <2>2, <2>3 DEF Once, PaidWasStarted
  <2>5. Noticed'
    BY <1>1, <1>2, <1>3 DEF Once, Noticed, Working
  <2>6. ClosedBefore'
    BY <1>1, <1>2, <1>3 DEF Once, ClosedBefore
  <2>7. Settles'
    <3> SUFFICES ASSUME NEW i \in Collections \ repeatable, i >= 1, paid'[i] > 0
                 PROVE  Settled(i)'
      BY <1>1 DEF Settles
    <3>1. CASE i # n
      <4>1. Settled(i)
        BY <2>3, <3>1 DEF Once, Settles
      <4>2. \A d \in Turns : turn[d].local.id = i => d # c
        BY <3>1
      <4>3. \A d \in Turns : turn'[d].local.id = i => d # c
        BY <1>2, <1>3, <3>1
      <4>4. \A d \in Turns : Closing(d, i) => Closing(d, i)'
        BY <1>2, <4>2 DEF Closing
      <4>5. \A d \in Turns : Working(d)' /\ turn'[d].local.id = i => Past(d)'
        BY <1>2, <4>1, <4>3 DEF Settled, Working, Past
      <4> QED
        BY <1>1, <2>3, <3>1, <4>1, <4>4, <4>5 DEF Settled
    <3>2. CASE i = n
      <4>1. paid[n] = 0
        <5>1. ~Past(c)
          BY <1>1 DEF Past
        <5>2. ~Settled(n)
          BY <1>1, <5>1 DEF Settled, Working
        <5>3. paid[n] \in Nat /\ ~(paid[n] > 0)
          BY <2>2, <3>2, <5>2 DEF Once, Settles
        <5> QED
          BY <5>3
      <4>2. \A d \in Turns : Working(d)' /\ turn'[d].local.id = n => d = c
        BY <1>1, <1>2, <2>2, <3>2, AloneAtIt DEF Working
      <4>3. Past(c)'
        BY <1>2, <1>3 DEF Past
      <4>4. session.active /\ session.id = n => turn[c].closes
        BY <1>1, <3>2 DEF Once, ClosedBefore
      <4>5. session.active /\ session.id = i => Closing(c, i)'
        BY <1>2, <1>3, <3>2, <4>4 DEF Closing
      <4>6. paid'[i] = 1
        BY <2>3, <3>2, <4>1
      <4>7. \A d \in Turns : Working(d)' /\ turn'[d].local.id = i => Past(d)'
        BY <3>2, <4>2, <4>3
      <4> QED
        BY <1>1, <4>5, <4>6, <4>7 DEF Settled
    <3> QED
      BY <3>1, <3>2
  <2> QED
    BY <2>3, <2>4, <2>5, <2>6, <2>7 DEF Once
<1> QED
  BY <1>4, <1>5

LEMMA ReleaseOnce ==
    ASSUME Shaped, Once, NEW c \in Turns, NEW t \in Turn, Moves(c, t), paid' = paid,
           turn[c].pc = "release"
    PROVE  Once'
<1>1. /\ turn' = [turn EXCEPT ![c] = t] /\ turn \in [Turns -> Turn]
      /\ UNCHANGED <<session, started, repeatable>>
  BY DEF Moves, Shaped, SessionTypeOK
<1>2. turn'[c] = t /\ \A d \in Turns \ {c} : turn'[d] = turn[d]
  BY <1>1
<1>3. \/ t.pc = "close" /\ turn[c].closes /\ t.closes /\ t.local.id = turn[c].local.id
      \/ t.pc = "idle" /\ ~turn[c].closes
  BY ConstantsTyped DEF Moves
<1>4. Noticed'
  BY <1>1, <1>2, <1>3 DEF Once, Noticed, Working
<1>5. ASSUME NEW i \in Collections, Settled(i)
      PROVE  Settled(i)'
  <2>1. \A d \in Turns : Closing(d, i) => Closing(d, i)'
    BY <1>2, <1>3 DEF Closing
  <2>2. \A d \in Turns : Working(d)' /\ turn'[d].local.id = i => Past(d)'
    BY <1>2, <1>3, <1>5 DEF Settled, Working, Past
  <2> QED
    BY <1>1, <1>5, <2>1, <2>2 DEF Settled
<1>6. Settles'
  BY <1>1, <1>5 DEF Once, Settles
<1>7. ClosedBefore'
  BY <1>1, <1>2, <1>3 DEF Once, ClosedBefore
<1> QED
  BY <1>1, <1>4, <1>6, <1>7 DEF Once, PaidWasStarted

LEMMA DeathOnce ==
    ASSUME Shaped, Once, NEW w \in Workers, WorkerDies(w)
    PROVE  Once'
<1>1. /\ \A c \in Turns : IF c[1] = w THEN turn'[c] = NoTurn ELSE turn'[c] = turn[c]
      /\ UNCHANGED <<session, started, paid>>
      /\ repeatable' = repeatable \cup
            {turn[c].local.id : c \in {d \in Turns : d[1] = w /\ turn[d].closes
                                                     /\ turn[d].pc \in {"release", "close"}}}
  BY DeadTyped DEF Shaped
<1>2. \A c \in Turns : turn'[c].pc # "idle" => turn'[c] = turn[c]
  BY <1>1, ConstantsTyped
<1>3. Noticed'
  BY <1>1, <1>2 DEF Once, Noticed, Working
<1>4. ClosedBefore'
  <2> SUFFICES ASSUME NEW c \in Turns, turn'[c].pc \in {"lock", "charge"}, ~turn'[c].closes,
                      turn'[c].local.id \notin repeatable'
               PROVE  ~(session.active /\ session.id = turn'[c].local.id)
    BY <1>1 DEF ClosedBefore
  <2>1. turn'[c] = turn[c] /\ turn[c].local.id \notin repeatable
    BY <1>1, <1>2
  <2> QED
    BY <2>1 DEF Once, ClosedBefore
<1>5. Settles'
  <2> SUFFICES ASSUME NEW i \in Collections \ repeatable', i >= 1, paid[i] > 0
               PROVE  Settled(i)'
    BY <1>1 DEF Settles
  <2>1. Settled(i)
    BY <1>1 DEF Once, Settles
  <2>2. ASSUME NEW d \in Turns, Closing(d, i)
        PROVE  Closing(d, i)'
    <3>1. d[1] # w
      BY <1>1, <2>2 DEF Closing
    <3> QED
      BY <1>1, <2>2, <3>1 DEF Closing
  <2>3. \A d \in Turns : Working(d)' /\ turn'[d].local.id = i => Past(d)'
    BY <1>2, <2>1 DEF Settled, Working, Past
  <2> QED
    BY <1>1, <2>1, <2>2, <2>3 DEF Settled
<1> QED
  BY <1>1, <1>3, <1>4, <1>5 DEF Once, PaidWasStarted

\* The tool's charge makes the collection one that may be charged again.
LEMMA SaleOnce ==
    ASSUME Shaped, Once, NEW c \in Turns, Sale(c)
    PROVE  Once'
<1> DEFINE n == turn[c].local.id
<1>1. /\ \A d \in Turns : /\ turn'[d].pc = turn[d].pc /\ turn'[d].local = turn[d].local
                          /\ turn'[d].closes = turn[d].closes
      /\ paid' = [paid EXCEPT ![n] = @ + 1] /\ n # 0
      /\ repeatable' = repeatable \cup {n} /\ UNCHANGED <<session, started>>
  BY DEF Sale, Mine, Shaped, SessionTypeOK
<1>2. n \in Collections /\ n <= started /\ 0 \in Collections /\ paid \in [Collections -> Nat]
  BY IdsTyped
<1> HIDE DEF n
<1>3. paid'[0] = 0 /\ \A i \in Collections \ {n} : paid'[i] = paid[i]
  BY <1>1, <1>2 DEF Once
<1>4. PaidWasStarted'
  BY <1>1, <1>2, <1>3 DEF Once, PaidWasStarted
<1>5. Noticed' /\ ClosedBefore'
  BY <1>1 DEF Once, Noticed, ClosedBefore, Working
<1>6. ASSUME NEW i \in Collections \ repeatable', i >= 1, paid'[i] > 0
      PROVE  Settled(i)'
  <2>1. i # n /\ paid'[i] = paid[i] /\ Settled(i)
    BY <1>1, <1>3, <1>6 DEF Once, Settles
  <2> QED
    BY <1>1, <2>1 DEF Settled, Closing, Past, Working
<1>7. Settles'
  BY <1>6 DEF Settles
<1> QED
  BY <1>3, <1>4, <1>5, <1>7 DEF Once

LEMMA NextOnce == Shaped /\ Once /\ [Next]_vars => Once'
<1> SUFFICES ASSUME Shaped, Once, [Next]_vars PROVE Once'
  OBVIOUS
<1>1. ASSUME NEW c \in Turns, Moved(c)
      PROVE  Once'
  <2>1. PICK t \in Turn : Moves(c, t) /\ ((Unlocked /\ t.pc \notin {"charge", "release"}) \/ Locks(c))
    BY <1>1 DEF Moved
  <2>2. ASSUME NEW charged \in BOOLEAN, Generate(c, charged)
        PROVE  Once'
    BY <2>1, <2>2, ChargeOnce
  <2>3. CASE paid' = paid
    BY <2>1, <2>3, MoveOnce, ReleaseOnce
  <2>4. CASE Unlocked \/ Acquire(c) \/ AcquireOpen(c) \/ \E fails \in BOOLEAN : Release(c, fails)
    <3>1. paid' = paid
      BY <2>4 DEF Unlocked, Acquire, AcquireOpen, Release, historyVars
    <3> QED
      BY <2>3, <3>1
  <2> QED
    BY <2>1, <2>2, <2>4 DEF Locks
<1>2. CASE Reads
  BY <1>2, ReadOnce DEF Reads
<1>3. CASE Saving
  BY <1>3, SaveOnce DEF Saving
<1>4. CASE LockExpires
  BY <1>4 DEF LockExpires, Once, Noticed, PaidWasStarted, Settles, Settled, ClosedBefore,
              Closing, Past, Working
<1>5. CASE SessionExpires
  <2>1. /\ session' = NoSession /\ UNCHANGED <<started, paid, repeatable>>
        /\ \A c \in Turns : /\ turn'[c].pc = turn[c].pc /\ turn'[c].local = turn[c].local
                            /\ turn'[c].closes = turn[c].closes
    BY <1>5, ExpiredTurns DEF Shaped, historyVars
  <2> QED
    BY <2>1, ConstantsTyped
       DEF Once, Noticed, PaidWasStarted, Settles, Settled, ClosedBefore, Closing, Past, Working
<1>6. CASE Dies
  BY <1>6, DeathOnce DEF Dies
<1>7. CASE UNCHANGED vars
  BY <1>7 DEF vars, redisVars, historyVars, Once, Noticed, PaidWasStarted, Settles, Settled,
              ClosedBefore, Closing, Past, Working
<1>8. CASE Selling
  BY <1>8, SaleOnce DEF Selling
<1> QED
  BY <1>1, <1>2, <1>3, <1>4, <1>5, <1>6, <1>7, <1>8, StepKinds DEF Moving

\* A collection is charged a second time only if two turns were at work on it,
\* a save of it was lost, its worker died between the charge and the closing
\* save of _close_checkout, or the agent's own tool charged for it.
THEOREM CollectionsAreChargedOnce == Spec => []OneChargePerCollection
<1>1. Init => Once
  <2> SUFFICES ASSUME Init PROVE Once
    OBVIOUS
  <2>1. \A c \in Turns : turn[c].pc = "idle"
    BY ConstantsTyped DEF Init
  <2>2. \A i \in Collections : paid[i] = 0
    BY DEF Init
  <2>3. 0 \in Collections
    BY SessionAssumption DEF Collections
  <2> QED
    BY <2>1, <2>2, <2>3 DEF Once, Noticed, PaidWasStarted, Settles, ClosedBefore, Working
<1>2. Shaped /\ Once => OneChargePerCollection
  <2> SUFFICES ASSUME Shaped, Once, NEW i \in Collections, paid[i] > 1, i \notin repeatable
               PROVE  FALSE
    BY DEF OneChargePerCollection
  <2>1. i # 0 /\ i \in Nat
    BY IdsTyped DEF Once
  <2>2. Settled(i)
    BY <2>1, IdsTyped DEF Once, Settles
  <2> QED
    BY <2>2 DEF Settled
<1> QED
  BY <1>1, <1>2, NextOnce, SessionShaped, PTL DEF Spec

-----------------------------------------------------------------------------
(* The address loop of address_attempts.py *)

Slots(w) == {c \in Turns : c[1] = w}
Asked(w) == {c \in Turns : c[1] = w /\ turn[c].refused}
Excess == faults * (EscalationThreshold - 1)

\* The sink of a run that is over is empty, and a recorded request was counted.
Sunk(t) ==
    /\ t.refused => t.pc = "agent"
    /\ t.says = "address" => t.refused

\* A refusal yet to be answered was counted, unless the counter was cleared in the
\* meantime by a turn of the worker or died with it.
Asking ==
    /\ \A c \in Turns : Sunk(turn[c])
    /\ \A c \in Turns : literal[c[1]] + Cardinality(Asked(c[1]))
                          <= attempts[c[1]] + raised[c[1]] + Cardinality(Slots(c[1])) + Excess
    /\ AddressLoopBounded

LEMMA AskedCounted ==
    ASSUME NEW w, NEW refusing \in SUBSET Slots(w)
    PROVE  /\ IsFiniteSet(refusing) /\ Cardinality(refusing) \in Nat
           /\ IsFiniteSet(Slots(w)) /\ Cardinality(Slots(w)) \in Nat
           /\ Cardinality(refusing) <= Cardinality(Slots(w))
           /\ \A c \in Slots(w) : c \notin refusing => Cardinality(refusing) <= Cardinality(Slots(w)) - 1
           /\ \A c \in refusing : /\ Cardinality(refusing) >= 1
                                  /\ Cardinality(refusing \ {c}) = Cardinality(refusing) - 1
           /\ \A small \in SUBSET refusing : Cardinality(small) <= Cardinality(refusing)
                                             /\ Cardinality(small) \in Nat
           /\ \A c : /\ Cardinality(refusing \cup {c}) <= Cardinality(refusing) + 1
                     /\ Cardinality(refusing \cup {c}) \in Nat
<1>1. IsFiniteSet(Slots(w)) /\ Cardinality(Slots(w)) \in Nat
  BY SessionAssumption, FS_Subset, FS_CardinalityType DEF Slots
<1>2. IsFiniteSet(refusing) /\ Cardinality(refusing) \in Nat
      /\ Cardinality(refusing) <= Cardinality(Slots(w))
  BY <1>1, FS_Subset, FS_CardinalityType
<1>3. ASSUME NEW c \in Slots(w), c \notin refusing
      PROVE  Cardinality(refusing) <= Cardinality(Slots(w)) - 1
  <2>1. refusing \subseteq Slots(w) \ {c}
    BY <1>3
  <2>2. IsFiniteSet(Slots(w) \ {c}) /\ Cardinality(Slots(w) \ {c}) = Cardinality(Slots(w)) - 1
    BY <1>1, <1>3, FS_RemoveElement
  <2> QED
    BY <2>1, <2>2, FS_Subset
<1>4. ASSUME NEW c \in refusing
      PROVE  Cardinality(refusing \ {c}) = Cardinality(refusing) - 1 /\ Cardinality(refusing) >= 1
  <2>1. IsFiniteSet(refusing \ {c}) /\ Cardinality(refusing \ {c}) = Cardinality(refusing) - 1
    BY <1>2, <1>4, FS_RemoveElement
  <2>2. Cardinality(refusing \ {c}) \in Nat
    BY <2>1, FS_CardinalityType
  <2> QED
    BY <1>2, <2>1, <2>2
<1>5. ASSUME NEW small \in SUBSET refusing
      PROVE  Cardinality(small) <= Cardinality(refusing) /\ Cardinality(small) \in Nat
  BY <1>2, <1>5, FS_Subset, FS_CardinalityType
<1>6. ASSUME NEW c
      PROVE  Cardinality(refusing \cup {c}) <= Cardinality(refusing) + 1
             /\ Cardinality(refusing \cup {c}) \in Nat
  <2>1. IsFiniteSet(refusing \cup {c})
        /\ Cardinality(refusing \cup {c}) =
             IF c \in refusing THEN Cardinality(refusing) ELSE Cardinality(refusing) + 1
    BY <1>2, FS_AddElement
  <2> QED
    BY <1>2, <2>1
<1> QED
  BY <1>1, <1>2, <1>3, <1>4, <1>5, <1>6

\* A fault makes room for all the requests below one threshold.
LEMMA ExcessGrows ==
    ASSUME Shaped, Shaped', faults' = faults \/ faults' = faults + 1
    PROVE  /\ EscalationThreshold - 1 \in Nat /\ Excess \in Nat /\ Excess' \in Nat /\ Excess' >= Excess
           /\ faults' = faults + 1 => Excess' = Excess + (EscalationThreshold - 1)
           /\ (1 + faults) * (EscalationThreshold - 1) = Excess + (EscalationThreshold - 1)
           /\ (1 + faults') * (EscalationThreshold - 1) = Excess' + (EscalationThreshold - 1)
<1> DEFINE t == EscalationThreshold - 1
<1>1. t \in Nat /\ faults \in Nat /\ faults' \in Nat
  BY SessionAssumption DEF Shaped, SessionTypeOK
<1> HIDE DEF t
<1>2. \A n \in Nat : n * t \in Nat /\ (1 + n) * t = n * t + t /\ (n + 1) * t = n * t + t
  BY <1>1
<1>3. faults * t \in Nat /\ faults' * t \in Nat
      /\ (1 + faults) * t = faults * t + t /\ (1 + faults') * t = faults' * t + t
      /\ (faults + 1) * t = faults * t + t
  BY <1>1, <1>2
<1>4. faults' * t = faults * t \/ (faults' = faults + 1 /\ faults' * t = faults * t + t)
  BY <1>3
<1>5. faults' = faults + 1 => faults' * t = faults * t + t
  BY <1>3
<1>6. faults' * t >= faults * t
  <2>1. \A a, b \in Nat : b = a \/ b = a + t => b >= a
    BY <1>1
  <2> QED
    BY <1>3, <1>4, <2>1
<1> QED
  BY <1>1, <1>3, <1>5, <1>6 DEF Excess, t

\* The bounds as inequalities of naturals.
LEMMA AskingBounds ==
    ASSUME Shaped, NEW c \in Turns
    PROVE  /\ c[1] \in Workers /\ attempts[c[1]] \in Nat /\ literal[c[1]] \in Nat
           /\ raised[c[1]] \in Nat
           /\ c \in Slots(c[1]) /\ Asked(c[1]) \in SUBSET Slots(c[1])
           /\ Cardinality(Slots(c[1])) \in Nat /\ Cardinality(Slots(c[1])) >= 1
<1>1. c[1] \in Workers /\ attempts[c[1]] \in Nat /\ literal[c[1]] \in Nat /\ raised[c[1]] \in Nat
  BY SessionAssumption DEF Shaped, SessionTypeOK
<1>2. c \in Slots(c[1]) /\ Asked(c[1]) \in SUBSET Slots(c[1])
  BY DEF Slots, Asked
<1>3. Slots(c[1]) \in SUBSET Slots(c[1])
  OBVIOUS
<1> QED
  BY <1>1, <1>2, <1>3, AskedCounted

Quiet ==
    /\ attempts' = attempts /\ literal' = literal /\ raised' = raised
    /\ faults' = faults \/ faults' = faults + 1
    /\ \A d \in Turns : (turn'[d].refused => turn[d].refused) /\ Sunk(turn'[d])

LEMMA QuietAsks ==
    ASSUME Shaped, Shaped', Asking, Quiet
    PROVE  Asking'
<1>1. \A d \in Turns : Sunk(turn'[d])
  BY DEF Quiet
<1>2. ASSUME NEW c \in Turns
      PROVE  /\ literal'[c[1]] + Cardinality(Asked(c[1])') <= attempts'[c[1]] + raised'[c[1]] + Cardinality(Slots(c[1])) + Excess'
             /\ literal'[c[1]] <= (1 + faults') * (EscalationThreshold - 1) + raised'[c[1]] + Cardinality(Slots(c[1]))
  <2>1. Asked(c[1])' \in SUBSET Asked(c[1])
    BY DEF Asked, Quiet
  <2>2. Cardinality(Asked(c[1])') <= Cardinality(Asked(c[1])) /\ Cardinality(Asked(c[1])') \in Nat
        /\ Cardinality(Asked(c[1])) \in Nat
    BY <2>1, AskedCounted, AskingBounds
  <2>3. /\ literal[c[1]] + Cardinality(Asked(c[1])) <= attempts[c[1]] + raised[c[1]] + Cardinality(Slots(c[1])) + Excess
        /\ literal[c[1]] <= (1 + faults) * (EscalationThreshold - 1) + raised[c[1]] + Cardinality(Slots(c[1]))
    BY DEF Asking, AddressLoopBounded, Slots
  <2>4. attempts' = attempts /\ literal' = literal /\ raised' = raised
    BY DEF Quiet
  <2>5. faults' = faults \/ faults' = faults + 1
    BY DEF Quiet
  <2> QED
    BY <2>2, <2>3, <2>4, <2>5, ExcessGrows, AskingBounds
<1> QED
  BY <1>1, <1>2 DEF Asking, AddressLoopBounded, Slots

LEMMA SavingIsQuiet ==
    ASSUME Shaped, Asking, NEW c \in Turns, NEW fails \in BOOLEAN, Saved(c, fails),
           UNCHANGED <<attempts, literal, raised>>
    PROVE  Quiet
<1>1. PICK s \in Session, next \in PCs, learnt \in SUBSET Fields : Saves(c, s, next, fails, learnt)
  BY DEF Saved
<1>2. Save(c, s, next, fails) /\ turn[c].pc # "agent"
  BY <1>1 DEF Saves, Keeps, Closes, Starts, Collects
<1>3. faults' = faults \/ faults' = faults + 1
  BY <1>2 DEF Save, Fault
<1>4. turn \in [Turns -> Turn] /\ turn[c] \in Turn
  BY DEF Shaped, SessionTypeOK
<1>5. turn' = [d \in Turns |->
                  CASE d = c /\ next = "idle" -> NoTurn
                    [] d = c /\ next # "idle" -> [turn[c] EXCEPT !.pc = next, !.local = s]
                    [] d # c -> [turn[d] EXCEPT !.stale = @ \/ (Busy(d) /\ ~fails)]]
  BY <1>2 DEF Save
<1>6. ASSUME NEW d \in Turns
      PROVE  (turn'[d].refused => turn[d].refused) /\ Sunk(turn'[d])
  <2>1. CASE d = c /\ next = "idle"
    BY <1>5, <2>1 DEF NoTurn, Sunk
  <2>2. CASE d = c /\ next # "idle"
    <3>1. turn'[c] = [turn[c] EXCEPT !.pc = next, !.local = s]
      BY <1>5, <2>2
    <3>2. turn'[c].refused = turn[c].refused /\ turn'[c].says = turn[c].says
      BY <1>4, <3>1 DEF Turn
    <3> QED
      BY <1>2, <2>2, <3>2 DEF Asking, Sunk
  <2>3. CASE d # c
    <3>1. turn'[d] = [turn[d] EXCEPT !.stale = @ \/ (Busy(d) /\ ~fails)] /\ turn[d] \in Turn
      BY <1>4, <1>5, <2>3
    <3>2. turn'[d].refused = turn[d].refused /\ turn'[d].pc = turn[d].pc
          /\ turn'[d].says = turn[d].says
      BY <3>1 DEF Turn
    <3> QED
      BY <3>2 DEF Asking, Sunk
  <2> QED
    BY <2>1, <2>2, <2>3
<1> QED
  BY <1>3, <1>6 DEF Quiet

\* A step of one turn that leaves its sink as it should be.
LEMMA TurnIsQuiet ==
    ASSUME Shaped, Asking, NEW c \in Turns, NEW t \in Turn,
           turn' = [turn EXCEPT ![c] = t], t.refused => turn[c].refused, Sunk(t),
           UNCHANGED <<attempts, literal, raised>>, faults' = faults \/ faults' = faults + 1
    PROVE  Quiet
<1>1. turn \in [Turns -> Turn]
  BY DEF Shaped, SessionTypeOK
<1> QED
  BY <1>1 DEF Quiet, Asking

\* Every step but the tool's verdicts on the address, the end of a run that was
\* refused and a death.
LEMMA MostStepsAreQuiet ==
    ASSUME Shaped, Shaped', Asking, [Next]_vars
    PROVE  \/ Quiet
           \/ \E c \in Turns : ToolRefusesAddress(c)
           \/ \E c \in Turns, charged, link \in BOOLEAN : ToolAccepts(c, charged, link)
           \/ \E c \in Turns : (AgentAnswers(c) \/ AgentRaises(c)) /\ turn[c].refused
           \/ \E w \in Workers : WorkerDies(w)
<1>1. /\ turn \in [Turns -> Turn] /\ \A c \in Turns : Sunk(turn[c])
      /\ \A c \in Turns : turn[c].pc # "agent" => ~turn[c].refused /\ turn[c].says # "address"
  BY DEF Shaped, SessionTypeOK, Asking, Sunk
<1>2. turn' \in [Turns -> Turn]
  BY DEF Shaped, SessionTypeOK
<1>3. ASSUME NEW c \in Turns, NEW t, turn' = [turn EXCEPT ![c] = t], ~t.refused, t.says # "address",
             UNCHANGED <<attempts, literal, raised>>, faults' = faults \/ faults' = faults + 1
      PROVE  Quiet
  <2>1. t \in Turn
    BY <1>1, <1>2, <1>3
  <2> QED
    BY <1>3, <2>1, TurnIsQuiet DEF Sunk
<1>4. ASSUME NEW c \in Turns, NEW pc, turn' = [turn EXCEPT ![c] = [turn[c] EXCEPT !.pc = pc]],
             turn[c].pc # "agent",
             UNCHANGED <<attempts, literal, raised>>, faults' = faults \/ faults' = faults + 1
      PROVE  Quiet
  <2> DEFINE t == [turn[c] EXCEPT !.pc = pc]
  <2>1. t.refused = turn[c].refused /\ t.says = turn[c].says
    BY <1>1 DEF Turn
  <2>2. ~t.refused /\ t.says # "address" /\ turn' = [turn EXCEPT ![c] = t]
    BY <1>1, <1>4, <2>1
  <2> HIDE DEF t
  <2> QED
    BY <1>4, <1>3, <2>2
<1>5. ASSUME NEW c \in Turns, NEW fails \in BOOLEAN, Step(c, fails)
      PROVE  Quiet
  <2>1. ASSUME NEW m \in Messages, Read(c, m, fails)
        PROVE  Quiet
    <3> DEFINE s == IF fails THEN NoSession ELSE session
               t == [NoTurn EXCEPT !.pc = IF Greeted(s) = s THEN "decide" ELSE "greet",
                                   !.msg = m, !.local = s, !.stale = fails]
    <3>1. turn' = [turn EXCEPT ![c] = t] /\ UNCHANGED <<attempts, literal, raised>> /\ Fault(fails)
      BY <2>1 DEF Read
    <3>2. ~t.refused /\ t.says # "address"
      BY DEF NoTurn
    <3>3. faults' = faults \/ faults' = faults + 1
      BY <3>1 DEF Fault
    <3> HIDE DEF t
    <3> QED
      BY <1>3, <3>1, <3>2, <3>3
  <2>2. CASE /\ \/ Greet(c, fails) \/ _advance_precheckout(c, fails) \/ Note(c, fails)
                \/ NoteObjection(c, fails) \/ Reopen(c, fails) \/ Buy(c, fails)
                \/ _escalate_from_checkout(c, fails) \/ Close(c, fails)
    <3>1. UNCHANGED <<attempts, literal, raised>>
      BY <2>2, Zenon DEF Greet, _advance_precheckout, Note, NoteObjection, Reopen, Buy,
                         _escalate_from_checkout, Close
    <3>2. Saved(c, fails)
      BY <2>2, GreetSaves, PrecheckoutSaves, FreeSaves, ClosingSaves
    <3> QED
      BY <3>1, <3>2, SavingIsQuiet
  <2>3. CASE _continue_checkout(c, fails)
    <3>1. \/ SwitchQuantity(c, fails) \/ CardInCollection(c, fails)
          \/ \E found \in SUBSET Fallback : StillCollecting(c, found, fails)
      BY <2>3 DEF _continue_checkout
    <3>2. UNCHANGED <<attempts, literal, raised>>
      BY <3>1, Zenon DEF SwitchQuantity, CardInCollection, StillCollecting
    <3>3. Saved(c, fails)
      BY <3>1, SwitchQuantitySaves, ClosingSaves, StillCollectingSaves
    <3> QED
      BY <3>2, <3>3, SavingIsQuiet
  <2>4. CASE Release(c, fails)
    <3>1. /\ turn' = [turn EXCEPT ![c] = [turn[c] EXCEPT !.pc = AfterCharge(c)]]
          /\ UNCHANGED <<attempts, literal, raised>> /\ turn[c].pc = "release"
          /\ faults' = faults \/ faults' = faults + 1
      BY <2>4 DEF Release, At, Fault, historyVars
    <3> QED
      BY <1>4, <3>1
  <2>5. CASE Reply(c, fails)
    <3>1. UNCHANGED <<attempts, literal, raised>>
      BY <2>5 DEF Reply
    <3>2. CASE turn[c].resumes
      BY <2>5, <3>1, <3>2, ReplySaves, SavingIsQuiet
    <3>3. CASE ~turn[c].resumes
      <4>1. turn' = [turn EXCEPT ![c] = NoTurn] /\ faults' = faults
        BY <2>5, <3>3 DEF Reply
      <4>2. ~NoTurn.refused /\ NoTurn.says # "address"
        BY DEF NoTurn
      <4> QED
        BY <1>3, <3>1, <4>1, <4>2
    <3> QED
      BY <3>2, <3>3
  <2> QED
    BY <1>5, <2>1, <2>2, <2>3, <2>4, <2>5, Zenon DEF Step
<1>6. ASSUME NEW c \in Turns, Progress(c)
      PROVE  \/ Quiet \/ ToolRefusesAddress(c)
             \/ \E charged, link \in BOOLEAN : ToolAccepts(c, charged, link)
             \/ (AgentAnswers(c) \/ AgentRaises(c)) /\ turn[c].refused
  <2>1. CASE Question(c)
    <3> DEFINE t == [turn[c] EXCEPT !.pc = "agent", !.resumes = TRUE]
    <3>1. /\ turn' = [turn EXCEPT ![c] = t] /\ turn[c].pc = "decide"
          /\ UNCHANGED <<attempts, literal, raised, faults>>
      BY <2>1 DEF Question, Answering, Collecting, Deciding, At, historyVars
    <3>2. t.refused = turn[c].refused /\ t.says = turn[c].says
      BY <1>1 DEF Turn
    <3> HIDE DEF t
    <3> QED
      BY <1>1, <1>3, <3>1, <3>2
  <2>2. CASE \E found \in SUBSET Fallback : Ready(c, found)
    <3>1. PICK found \in SUBSET Fallback : Ready(c, found)
      BY <2>2
    <3> DEFINE s == [Switched(c) EXCEPT !.fields = advance_checkout(Mine(c).fields, Says(c), found).collected]
               t == [turn[c] EXCEPT !.pc = "lock", !.closes = TRUE, !.local = s]
    <3>2. /\ turn' = [turn EXCEPT ![c] = t] /\ turn[c].pc = "decide"
          /\ UNCHANGED <<attempts, literal, raised, faults>>
      BY <3>1 DEF Ready, Fills, Data, Answering, Collecting, Deciding, At, historyVars
    <3> HIDE DEF s
    <3>3. t.refused = turn[c].refused /\ t.says = turn[c].says
      BY <1>1 DEF Turn
    <3> HIDE DEF t
    <3> QED
      BY <1>1, <1>3, <3>2, <3>3
  <2>3. CASE Acquire(c) \/ AcquireOpen(c) \/ \E charged \in BOOLEAN : Generate(c, charged)
    <3>1. /\ \/ turn' = [turn EXCEPT ![c] = [turn[c] EXCEPT !.pc = "charge"]]
             \/ turn' = [turn EXCEPT ![c] = [turn[c] EXCEPT !.pc = "release"]]
          /\ turn[c].pc \in {"lock", "charge"} /\ UNCHANGED <<attempts, literal, raised>>
          /\ faults' = faults \/ faults' = faults + 1
      BY <2>3 DEF Acquire, AcquireOpen, Generate, At, historyVars
    <3> QED
      BY <1>4, <3>1
  <2>4. CASE AcquireBusy(c)
    <3>1. /\ turn' = [turn EXCEPT ![c] = [turn[c] EXCEPT !.pc = AfterCharge(c)]]
          /\ turn[c].pc = "lock" /\ UNCHANGED <<attempts, literal, raised, faults>>
      BY <2>4 DEF AcquireBusy, At, historyVars
    <3> QED
      BY <1>4, <3>1
  <2>5. CASE Converse(c)
    <3>1. /\ turn' = [turn EXCEPT ![c] = [turn[c] EXCEPT !.pc = "agent"]]
          /\ turn[c].pc = "decide" /\ UNCHANGED <<attempts, literal, raised, faults>>
      BY <2>5 DEF Converse, Free, Deciding, At, historyVars
    <3> QED
      BY <1>4, <3>1
  <2>6. CASE ToolRefuses(c)
    <3> DEFINE t == Called(c, "other")
    <3>1. /\ turn' = [turn EXCEPT ![c] = t] /\ turn[c].pc = "agent" /\ turn[c].calls < MaxToolCalls
          /\ UNCHANGED <<attempts, literal, raised, faults>>
      BY <2>6 DEF ToolRefuses, Tool, At, historyVars
    <3>2. t \in Turn /\ t.refused = turn[c].refused /\ t.says = "other" /\ t.pc = turn[c].pc
      BY <3>1, RunTyped
    <3> HIDE DEF t
    <3> QED
      BY <3>1, <3>2, TurnIsQuiet DEF Sunk
  <2>7. ASSUME AgentAnswers(c) \/ AgentRaises(c), ~turn[c].refused
        PROVE  Quiet
    <3>1. turn[c].says # "address"
      BY <1>1, <2>7 DEF Sunk
    <3>2. Answered(c) /\ UNCHANGED <<attempts, literal, raised, faults>>
      BY <2>7, <3>1 DEF AgentAnswers, AgentRaises, Loops
    <3>3. PICK t \in Turn : turn' = [turn EXCEPT ![c] = t] /\ ~t.refused /\ t.says = ""
      BY <3>2, EndTyped
    <3> QED
      BY <1>3, <3>2, <3>3
  <2> QED
    BY <1>6, <2>1, <2>2, <2>3, <2>4, <2>5, <2>6, <2>7, Zenon DEF Progress
<1>7. CASE LockExpires \/ UNCHANGED vars
  <2>1. /\ UNCHANGED <<turn, attempts, literal, raised>>
        /\ faults' = faults \/ faults' = faults + 1
    BY <1>7 DEF LockExpires, vars, historyVars, Fault
  <2> QED
    BY <1>1, <2>1 DEF Quiet
<1>8. CASE SessionExpires
  <2>1. /\ \A c \in Turns : /\ turn'[c].pc = turn[c].pc /\ turn'[c].refused = turn[c].refused
                            /\ turn'[c].says = turn[c].says
        /\ UNCHANGED <<attempts, literal, raised>>
        /\ faults' = faults \/ faults' = faults + 1
    BY <1>8, ExpiredTurns DEF Shaped, historyVars
  <2> QED
    BY <1>1, <2>1 DEF Quiet, Sunk
<1> QED
  BY <1>5, <1>6, <1>7, <1>8, Zenon DEF Next

\* The bounds after a step, from what it did to the refusals of each worker.
LEMMA AskingAfter ==
    ASSUME Shaped, Shaped', Asking, NEW c \in Turns
    PROVE  /\ literal[c[1]] + Cardinality(Asked(c[1])) <= attempts[c[1]] + raised[c[1]] + Cardinality(Slots(c[1])) + Excess
           /\ literal[c[1]] <= (1 + faults) * (EscalationThreshold - 1) + raised[c[1]] + Cardinality(Slots(c[1]))
           /\ Cardinality(Asked(c[1])) \in Nat
           /\ literal'[c[1]] \in Nat /\ attempts'[c[1]] \in Nat /\ raised'[c[1]] \in Nat
           /\ Asked(c[1])' = {d \in Turns : d[1] = c[1] /\ turn'[d].refused}
           /\ Asked(c[1])' \in SUBSET Slots(c[1]) /\ Cardinality(Asked(c[1])') \in Nat
<1>1. Asked(c[1])' = {d \in Turns : d[1] = c[1] /\ turn'[d].refused}
      /\ Asked(c[1])' \in SUBSET Slots(c[1])
  BY DEF Asked, Slots
<1>2. Cardinality(Asked(c[1])') \in Nat /\ Cardinality(Asked(c[1])) \in Nat
  BY <1>1, AskedCounted, AskingBounds
<1>3. literal'[c[1]] \in Nat /\ attempts'[c[1]] \in Nat /\ raised'[c[1]] \in Nat
  BY SessionAssumption DEF Shaped, SessionTypeOK
<1>4. literal[c[1]] + Cardinality(Asked(c[1])) <= attempts[c[1]] + raised[c[1]] + Cardinality(Slots(c[1])) + Excess
  BY SMT DEF Asking
<1>5. literal[c[1]] <= (1 + faults) * (EscalationThreshold - 1) + raised[c[1]] + Cardinality(Slots(c[1]))
  BY Zenon DEF Asking, AddressLoopBounded, Slots
<1> QED
  BY <1>1, <1>2, <1>3, <1>4, <1>5

LEMMA RefusalAsks ==
    ASSUME Shaped, Shaped', Asking, NEW c \in Turns, ToolRefusesAddress(c)
    PROVE  Asking'
<1> DEFINE t == [Called(c, "address") EXCEPT !.refused = TRUE]
<1>1. /\ turn' = [turn EXCEPT ![c] = t] /\ attempts' = [attempts EXCEPT ![c[1]] = attempts[c[1]] + 1]
      /\ literal' = literal /\ raised' = raised /\ faults' = faults
      /\ turn[c].calls < MaxToolCalls /\ turn[c].pc = "agent"
  BY DEF ToolRefusesAddress, Tool, At, historyVars
<1>2. turn \in [Turns -> Turn] /\ t.refused /\ t.pc = "agent" /\ attempts \in [Workers -> Nat]
  <2>1. Called(c, "address") \in Turn /\ Called(c, "address").pc = "agent"
    BY <1>1, RunTyped
  <2>2. t.refused /\ t.pc = "agent"
    BY <2>1 DEF Turn
  <2> QED
    BY <2>2 DEF Shaped, SessionTypeOK
<1> HIDE DEF t
<1>3. \A d \in Turns : Sunk(turn'[d])
  BY <1>1, <1>2 DEF Asking, Sunk
<1>4. ASSUME NEW d \in Turns
      PROVE  /\ literal'[d[1]] + Cardinality(Asked(d[1])') <= attempts'[d[1]] + raised'[d[1]] + Cardinality(Slots(d[1])) + Excess'
             /\ literal'[d[1]] <= (1 + faults') * (EscalationThreshold - 1) + raised'[d[1]] + Cardinality(Slots(d[1]))
  <2>1. Excess' = Excess /\ literal' = literal /\ raised' = raised /\ Excess \in Nat
    BY <1>1, ExcessGrows DEF Excess
  <2>2. CASE d[1] = c[1]
    <3>1. Asked(d[1])' \in SUBSET (Asked(d[1]) \cup {c})
      BY <1>1, <1>2, AskingAfter DEF Asked
    <3>2. Asked(d[1]) \cup {c} \in SUBSET Slots(d[1])
      BY <2>2 DEF Asked, Slots
    <3>3. Cardinality(Asked(d[1])') <= Cardinality(Asked(d[1]) \cup {c})
      BY <3>1, <3>2, AskedCounted
    <3>4. Cardinality(Asked(d[1]) \cup {c}) <= Cardinality(Asked(d[1])) + 1
          /\ Cardinality(Asked(d[1]) \cup {c}) \in Nat
      BY AskedCounted, AskingBounds
    <3>5. attempts'[d[1]] = attempts[d[1]] + 1
      BY <1>1, <1>2, <2>2, AskingBounds
    <3> QED
      BY <1>1, <2>1, <3>3, <3>4, <3>5, AskingAfter, AskingBounds
  <2>3. CASE d[1] # c[1]
    <3>1. Asked(d[1])' = Asked(d[1])
      BY <1>1, <1>2, <2>3 DEF Asked
    <3>2. attempts'[d[1]] = attempts[d[1]]
      BY <1>1, <1>2, <2>3, AskingBounds
    <3> QED
      BY <1>1, <2>1, <3>1, <3>2, AskingAfter, AskingBounds
  <2> QED
    BY <2>2, <2>3
<1> QED
  BY <1>3, <1>4 DEF Asking, AddressLoopBounded, Slots

\* Requests counted anew: no more refusals wait than there are turns.
LEMMA ClearedAsks ==
    ASSUME Shaped, Shaped', Asking, NEW c \in Turns,
           \A d \in Turns : Sunk(turn'[d]), faults' = faults \/ faults' = faults + 1,
           literal' = [w \in Workers |-> 0], raised' = [w \in Workers |-> 0]
    PROVE  Asking'
<1>1. ASSUME NEW d \in Turns
      PROVE  /\ literal'[d[1]] + Cardinality(Asked(d[1])') <= attempts'[d[1]] + raised'[d[1]] + Cardinality(Slots(d[1])) + Excess'
             /\ literal'[d[1]] <= (1 + faults') * (EscalationThreshold - 1) + raised'[d[1]] + Cardinality(Slots(d[1]))
  <2>1. literal'[d[1]] = 0 /\ raised'[d[1]] = 0
    BY AskingBounds
  <2>2. Cardinality(Asked(d[1])') <= Cardinality(Slots(d[1]))
    BY AskedCounted, AskingAfter
  <2> QED
    BY <2>1, <2>2, AskingAfter, AskingBounds, ExcessGrows
<1> QED
  BY <1>1 DEF Asking, AddressLoopBounded, Slots

LEMMA AcceptanceAsks ==
    ASSUME Shaped, Shaped', Asking, NEW c \in Turns, NEW charged \in BOOLEAN,
           NEW link \in BOOLEAN, ToolAccepts(c, charged, link)
    PROVE  Asking'
<1> DEFINE said == IF link THEN turn[c].says ELSE "other"
           t == Called(c, said)
<1>1. /\ turn' = [turn EXCEPT ![c] = t] /\ turn[c].pc = "agent" /\ turn[c].calls < MaxToolCalls
      /\ literal' = [w \in Workers |-> 0] /\ raised' = [w \in Workers |-> 0] /\ faults' = faults
  BY DEF ToolAccepts, Tool, At, Restart
<1>2. said \in {"", "address", "other"} /\ (said = "address" => turn[c].says = "address")
  BY RunTyped
<1> HIDE DEF said
<1>3. turn \in [Turns -> Turn] /\ t.pc = "agent" /\ t.refused = turn[c].refused /\ t.says = said
  BY <1>1, <1>2, RunTyped DEF Shaped, SessionTypeOK
<1> HIDE DEF t
<1>4. \A d \in Turns : Sunk(turn'[d])
  BY <1>1, <1>2, <1>3 DEF Asking, Sunk
<1> QED
  BY <1>1, <1>4, ClearedAsks

LEMMA AnswerAsks ==
    ASSUME Shaped, Shaped', Asking, NEW c \in Turns, AgentAnswers(c) \/ AgentRaises(c),
           turn[c].refused
    PROVE  Asking'
<1>1. PICK t \in Turn : turn' = [turn EXCEPT ![c] = t] /\ ~t.refused /\ t.says = ""
  BY EndTyped DEF AgentAnswers, AgentRaises
<1>2. /\ turn \in [Turns -> Turn] /\ c[1] \in Workers /\ literal \in [Workers -> Nat]
      /\ raised \in [Workers -> Nat] /\ attempts[c[1]] \in Nat
  BY SessionAssumption DEF Shaped, SessionTypeOK
<1>3. /\ ~turn'[c].refused /\ \A d \in Turns : turn'[d].refused => turn[d].refused
      /\ \A d \in Turns : Sunk(turn'[d])
      /\ faults' = faults
  BY <1>1, <1>2 DEF Sunk, Asking, AgentAnswers, AgentRaises
<1>4. \/ literal' = [w \in Workers |-> 0] /\ raised' = [w \in Workers |-> 0]
      \/ /\ attempts' = attempts /\ attempts[c[1]] < EscalationThreshold /\ raised' = raised
         /\ literal' = literal \/ literal' = [literal EXCEPT ![c[1]] = literal[c[1]] + 1]
      \/ /\ attempts' = attempts
         /\ \/ literal' = literal /\ raised' = raised
            \/ /\ literal' = [literal EXCEPT ![c[1]] = literal[c[1]] + 1]
               /\ raised' = [raised EXCEPT ![c[1]] = raised[c[1]] + 1]
  <2>1. CASE AgentRaises(c)
    BY <2>1 DEF AgentRaises, Asks
  <2>2. CASE AgentAnswers(c)
    <3>1. ~Loops(c) => attempts[c[1]] < EscalationThreshold
      BY <1>2, SessionAssumption DEF Loops
    <3> QED
      BY <2>2, <3>1 DEF AgentAnswers, Asks, Restart
  <2> QED
    BY <2>1, <2>2
<1>5. CASE literal' = [w \in Workers |-> 0] /\ raised' = [w \in Workers |-> 0]
  BY <1>3, <1>5, ClearedAsks
<1>6. ASSUME attempts' = attempts,
             \/ /\ attempts[c[1]] < EscalationThreshold /\ raised' = raised
                /\ literal' = literal \/ literal' = [literal EXCEPT ![c[1]] = literal[c[1]] + 1]
             \/ literal' = literal /\ raised' = raised
             \/ /\ literal' = [literal EXCEPT ![c[1]] = literal[c[1]] + 1]
                /\ raised' = [raised EXCEPT ![c[1]] = raised[c[1]] + 1]
      PROVE  Asking'
  <2>1. ASSUME NEW d \in Turns
        PROVE  /\ literal'[d[1]] + Cardinality(Asked(d[1])') <= attempts'[d[1]] + raised'[d[1]] + Cardinality(Slots(d[1])) + Excess'
               /\ literal'[d[1]] <= (1 + faults') * (EscalationThreshold - 1) + raised'[d[1]] + Cardinality(Slots(d[1]))
    <3>1. CASE d[1] = c[1]
      <4>1. \/ attempts[d[1]] <= EscalationThreshold - 1 /\ raised'[d[1]] = raised[d[1]]
               /\ (literal'[d[1]] = literal[d[1]] \/ literal'[d[1]] = literal[d[1]] + 1)
            \/ literal'[d[1]] = literal[d[1]] /\ raised'[d[1]] = raised[d[1]]
            \/ literal'[d[1]] = literal[d[1]] + 1 /\ raised'[d[1]] = raised[d[1]] + 1
        BY <1>2, <1>6, <3>1, SessionAssumption
      <4>2. c \in Asked(d[1]) /\ Asked(d[1])' \in SUBSET (Asked(d[1]) \ {c})
        BY <1>3, <3>1, AskingAfter DEF Asked
      <4>3. /\ Cardinality(Asked(d[1])) >= 1
            /\ Cardinality(Asked(d[1]) \ {c}) = Cardinality(Asked(d[1])) - 1
        BY <4>2, AskedCounted, AskingBounds
      <4>4. Asked(d[1]) \ {c} \in SUBSET Slots(d[1])
        BY DEF Asked, Slots
      <4>5. Cardinality(Asked(d[1])') <= Cardinality(Asked(d[1]) \ {c})
        BY <4>2, <4>4, AskedCounted
      <4>6. literal'[d[1]] + Cardinality(Asked(d[1])') <= attempts'[d[1]] + raised'[d[1]] + Cardinality(Slots(d[1])) + Excess'
        BY <1>3, <1>6, <4>1, <4>3, <4>5, AskingAfter, AskingBounds, ExcessGrows
      <4>7. literal'[d[1]] <= (1 + faults') * (EscalationThreshold - 1) + raised'[d[1]] + Cardinality(Slots(d[1]))
        BY <1>3, <4>1, <4>3, AskingAfter, AskingBounds, ExcessGrows
      <4> QED
        BY <4>6, <4>7
    <3>2. CASE d[1] # c[1]
      <4>1. literal'[d[1]] = literal[d[1]] /\ raised'[d[1]] = raised[d[1]]
        BY <1>2, <1>6, <3>2, AskingBounds
      <4>2. Asked(d[1])' \in SUBSET Asked(d[1])
        BY <1>3, AskingAfter DEF Asked
      <4>3. Cardinality(Asked(d[1])') <= Cardinality(Asked(d[1]))
        BY <4>2, AskedCounted, AskingBounds
      <4> QED
        BY <1>3, <1>6, <4>1, <4>3, AskingAfter, AskingBounds, ExcessGrows
    <3> QED
      BY <3>1, <3>2
  <2> QED
    BY <1>3, <2>1 DEF Asking, AddressLoopBounded, Slots
<1> QED
  BY <1>4, <1>5, <1>6

\* A death clears the counter of its worker, and makes up for it.
LEMMA DeathAsks ==
    ASSUME Shaped, Shaped', Asking, NEW w \in Workers, WorkerDies(w)
    PROVE  Asking'
<1>1. /\ turn' = [c \in Turns |-> IF c[1] = w THEN NoTurn ELSE turn[c]]
      /\ attempts' = [attempts EXCEPT ![w] = 0] /\ literal' = literal /\ raised' = raised
      /\ faults' = faults + 1
  BY DEF WorkerDies, Fault
<1>2. \A d \in Turns : (turn'[d].refused => d[1] # w /\ turn[d].refused) /\ Sunk(turn'[d])
  BY <1>1 DEF NoTurn, Asking, Sunk
<1>3. ASSUME NEW d \in Turns
      PROVE  /\ literal'[d[1]] + Cardinality(Asked(d[1])') <= attempts'[d[1]] + raised'[d[1]] + Cardinality(Slots(d[1])) + Excess'
             /\ literal'[d[1]] <= (1 + faults') * (EscalationThreshold - 1) + raised'[d[1]] + Cardinality(Slots(d[1]))
  <2>1. CASE d[1] = w
    <3>1. Asked(d[1])' = {}
      BY <1>2, <2>1, AskingAfter
    <3>2. Cardinality(Asked(d[1])') = 0
      BY <3>1, FS_EmptySet
    <3> QED
      BY <1>1, <3>2, AskingAfter, AskingBounds, ExcessGrows
  <2>2. CASE d[1] # w
    <3>1. attempts'[d[1]] = attempts[d[1]]
      BY <1>1, <2>2, AskingBounds DEF Shaped, SessionTypeOK
    <3>2. Asked(d[1])' \in SUBSET Asked(d[1])
      BY <1>2, AskingAfter DEF Asked
    <3>3. Cardinality(Asked(d[1])') <= Cardinality(Asked(d[1]))
      BY <3>2, AskedCounted, AskingBounds
    <3> QED
      BY <1>1, <3>1, <3>3, AskingAfter, AskingBounds, ExcessGrows
  <2> QED
    BY <2>1, <2>2
<1> QED
  BY <1>2, <1>3 DEF Asking, AddressLoopBounded, Slots

LEMMA InitAsks == Init => Asking
<1> SUFFICES ASSUME Init PROVE Asking
  OBVIOUS
<1>1. Shaped /\ faults = 0
  BY InitShaped, Zenon DEF Init
<1>2. /\ \A c \in Turns : ~turn[c].refused /\ Sunk(turn[c])
      /\ \A c \in Turns : c[1] \in Workers /\ literal[c[1]] = 0 /\ raised[c[1]] = 0
  BY SessionAssumption DEF Init, NoTurn, Sunk
<1>3. EscalationThreshold - 1 \in Nat /\ Excess = 0
      /\ (1 + faults) * (EscalationThreshold - 1) = EscalationThreshold - 1
  BY <1>1, SessionAssumption DEF Excess
<1>4. ASSUME NEW c \in Turns
      PROVE  /\ literal[c[1]] + Cardinality(Asked(c[1])) <= attempts[c[1]] + raised[c[1]] + Cardinality(Slots(c[1])) + Excess
             /\ literal[c[1]] <= (1 + faults) * (EscalationThreshold - 1) + raised[c[1]] + Cardinality(Slots(c[1]))
  <2>1. Asked(c[1]) = {}
    BY <1>2 DEF Asked
  <2>2. Cardinality(Asked(c[1])) = 0
    BY <2>1, FS_EmptySet
  <2> QED
    BY <1>1, <1>2, <1>3, <2>2, AskingBounds
<1> QED
  BY <1>2, <1>4 DEF Asking, AddressLoopBounded, Slots

LEMMA NextAsks == Shaped /\ Shaped' /\ Asking /\ [Next]_vars => Asking'
BY MostStepsAreQuiet, QuietAsks, RefusalAsks, AcceptanceAsks, AnswerAsks, DeathAsks

\* A worker stops asking a lead for its address and hands it to a person once
\* its counter says so; it asks more only after its death, for the turns refused
\* before the counter was cleared, and for the runs of the agent that raised, whose
\* recorded request team.py returns without a look at the counter.
THEOREM AddressLoopsEnd == Spec => []AddressLoopBounded
<1>1. Asking => AddressLoopBounded
  BY DEF Asking
<1> QED
  BY <1>1, InitAsks, NextAsks, SessionShaped, PTL DEF Spec
=============================================================================
