-------------------------- MODULE CheckoutSession --------------------------
(***************************************************************************)
(* One lead's conversation as the program keeps it: the session in Redis   *)
(* (memory/session.py), the turns that work on it (core/team.py), the      *)
(* payment lock and the agent's own payment tool                           *)
(* (conversion/payment_gate.py).                                           *)
(*                                                                         *)
(* The webhook starts a task per message and nothing orders the tasks of   *)
(* one lead.  A turn reads the whole session once, works on that copy and  *)
(* writes it back whole, so the steps that matter are those on Redis, the  *)
(* charge and the agent's run; what a turn decides from its copy belongs   *)
(* to the step that follows.                                               *)
(***************************************************************************)
EXTENDS CheckoutFlow, FiniteSets

CONSTANTS
    Workers,
    Turns,          \* tasks: <<worker, slot>>
    Messages,       \* the messages the lead sends, a set of Message
    MaxCheckoutAttempts,    \* MAX_CHECKOUT_ATTEMPTS
    EscalationThreshold,    \* ESCALATION_THRESHOLD
    MaxMessages,    \* bound: messages of a behaviour
    MaxToolCalls,   \* bound: calls of the payment tool in one run of the agent
    MaxFaults       \* bound: faults of any kind

ASSUME SessionAssumption ==
    /\ \A c \in Turns : c[1] \in Workers
    /\ IsFiniteSet(Turns)
    /\ Messages \subseteq Message /\ Messages # {}
    /\ MaxCheckoutAttempts \in Nat \ {0} /\ EscalationThreshold \in Nat \ {0}
    /\ MaxMessages \in Nat /\ MaxFaults \in Nat /\ MaxToolCalls \in Nat

VARIABLES
    profile,    \* whether the lead's WhatsApp profile has a usable name
    session,    \* the state stored in Redis
    lock,       \* whether the key of the payment lock exists
    turn,       \* turn[c]: what task c is doing
    attempts,   \* attempts[w]: address failures counted by worker w
    messages, faults,
    \* what the properties speak of
    started,    \* collections begun so far
    told,       \* told[i]: valid fields the lead gave to collection i, saved
    announced,  \* the quantity the lead was last told
    paid,       \* paid[i]: charges made for collection i
    repeatable, \* collections two turns or a fault may charge again
    disturbed,  \* the stored session may lack something a turn wrote
    lapses,     \* times the lock let one more holder in
    literal,    \* literal[w]: requests for an address by w in a row, none escalated
    raised      \* raised[w]: those of literal[w] returned when the agent raised

redisVars == <<session, lock>>
historyVars == <<started, told, announced, paid, repeatable, disturbed, lapses, literal,
                raised>>
vars == <<profile, redisVars, turn, attempts, messages, faults, historyVars>>

Collections == 0 .. MaxMessages

\* checkout is active, id .. attempts (id is the model's); pending_checkout is
\* stage, pendingQty, pendingBill.
Session ==
    [known : BOOLEAN, push : BOOLEAN, named : BOOLEAN,
     active : BOOLEAN, id : Collections, bill : Billings \cup {""},
     qty : 0 .. MaxQuantity, fields : SUBSET Fields, tries : 0 .. MaxCheckoutAttempts,
     stage : {"", "quantity", "billing", "name_confirm"},
     pendingQty : 0 .. MaxQuantity, pendingBill : Billings \cup {""},
     lastQty : 0 .. MaxQuantity, lastBill : Billings \cup {""}]

NoSession ==
    [known |-> FALSE, push |-> FALSE, named |-> FALSE,
     active |-> FALSE, id |-> 0, bill |-> "", qty |-> 0, fields |-> {}, tries |-> 0,
     stage |-> "", pendingQty |-> 0, pendingBill |-> "", lastQty |-> 0, lastBill |-> ""]

Turn ==
    [pc : {"idle", "greet", "decide", "lock", "charge", "release", "close",
           "agent", "reply"},
     msg : Messages, local : Session,
     closes : BOOLEAN,      \* the checkout is closed after the charge
     resumes : BOOLEAN,     \* the agent answers inside a collection
     \* the agent's run: the calls of its tool and the sink they write to
     calls : 0 .. MaxToolCalls,
     says : {"", "address", "other"},   \* deterministic_reply
     refused : BOOLEAN,     \* address_attempts is there
     stale : BOOLEAN]       \* local is not what Redis holds plus this turn's work
NoTurn == [pc |-> "idle", msg |-> CHOOSE m \in Messages : TRUE, local |-> NoSession,
           closes |-> FALSE, resumes |-> FALSE, calls |-> 0, says |-> "",
           refused |-> FALSE, stale |-> FALSE]

Init ==
    /\ profile \in BOOLEAN
    /\ session = NoSession
    /\ lock = FALSE
    /\ turn = [c \in Turns |-> NoTurn]
    /\ attempts = [w \in Workers |-> 0]
    /\ messages = 0 /\ faults = 0
    /\ started = 0 /\ announced = 0 /\ lapses = 0
    /\ literal = [w \in Workers |-> 0] /\ raised = [w \in Workers |-> 0]
    /\ told = [i \in Collections |-> {}]
    /\ paid = [i \in Collections |-> 0]
    /\ repeatable = {}
    /\ disturbed = FALSE

-----------------------------------------------------------------------------
(* Steps of a turn *)

At(c, pc) == turn[c].pc = pc
Busy(c) == ~At(c, "idle")
Mine(c) == turn[c].local
Says(c) == turn[c].msg

Fault(happens) ==
    /\ happens => faults < MaxFaults
    /\ faults' = IF happens THEN faults + 1 ELSE faults

\* set_session_state: the whole state, or nothing and no word about it.
Save(c, s, next, fails) ==
    /\ Fault(fails)
    /\ session' = IF fails THEN session ELSE s
    /\ turn' = [d \in Turns |->
                  CASE d = c /\ next = "idle" -> NoTurn
                    [] d = c /\ next # "idle" -> [turn[c] EXCEPT !.pc = next, !.local = s]
                    [] d # c -> [turn[d] EXCEPT !.stale = @ \/ (Busy(d) /\ ~fails)]]
    /\ disturbed' = IF fails \/ turn[c].stale THEN TRUE
                    ELSE disturbed /\ s.id = session.id
    /\ repeatable' = IF fails THEN repeatable \cup {s.id} ELSE repeatable

\* What the first saves of a turn note: that the lead is known, and the name of
\* the profile until the lead has confirmed it.
Greeted(s) == [s EXCEPT !.known = TRUE, !.push = @ \/ (profile /\ ~s.named)]

\* get_session_state; an error reads as an empty session.
Read(c, m, blind) ==
    LET s == IF blind THEN NoSession ELSE session
        others == {d \in Turns \ {c} : Busy(d) /\ Mine(d).id = session.id}
    IN
    /\ ~Busy(c) /\ messages < MaxMessages
    /\ Fault(blind)
    /\ messages' = messages + 1
    /\ turn' = [turn EXCEPT ![c] =
                  [NoTurn EXCEPT !.pc = IF Greeted(s) = s THEN "decide" ELSE "greet",
                                 !.msg = m, !.local = s, !.stale = blind]]
    /\ repeatable' = IF others = {} THEN repeatable ELSE repeatable \cup {session.id}
    /\ UNCHANGED <<profile, redisVars, attempts, started, told, announced, paid,
                   disturbed, lapses, literal, raised>>

\* Two saves, each with its own outcome.
Greet(c, fails) ==
    LET s == IF Mine(c).known THEN Greeted(Mine(c)) ELSE [Mine(c) EXCEPT !.known = TRUE] IN
    /\ At(c, "greet")
    /\ Save(c, s, IF Greeted(s) = s THEN "decide" ELSE "greet", fails)
    /\ UNCHANGED <<profile, lock, attempts, messages, started, told, announced,
                   paid, lapses, literal, raised>>

-----------------------------------------------------------------------------
(* Before the collection: quantity, means of payment, name *)

Deciding(c) == At(c, "decide")

Ask(c, s, stage, q, b, fails) ==
    /\ Save(c, [s EXCEPT !.stage = stage, !.pendingQty = q, !.pendingBill = b], "idle", fails)
    /\ UNCHANGED <<started, told, announced>>

\* A card is paid on the hosted page: nothing to collect, the checkout is
\* stored inactive before the charge.  Otherwise the collection starts, after
\* the one-touch confirmation of a name not yet confirmed.
_start_checkout(c, s, q, b, knownName, offer, fails) ==
    LET decided == [s EXCEPT !.lastQty = q]
        fresh == [decided EXCEPT !.id = started + 1, !.bill = b, !.qty = q, !.tries = 0,
                                 !.stage = "", !.pendingQty = 0, !.pendingBill = "",
                                 !.active = b # "CREDIT_CARD",
                                 !.fields = IF knownName THEN {"name"} ELSE {}]
    IN
    IF b # "CREDIT_CARD" /\ offer /\ ~knownName /\ s.push /\ ~s.named
    THEN Ask(c, decided, "name_confirm", q, b, fails)
    ELSE /\ Save(c, fresh, IF b = "CREDIT_CARD" THEN "lock" ELSE "idle", fails)
         /\ started' = started + 1
         /\ told' = [told EXCEPT ![started + 1] = fresh.fields]
         /\ announced' = q

_begin_checkout_or_prompt(c, s, q, b, fails) ==
    CASE q = 0 -> Ask(c, s, "quantity", 0, b, fails)
      [] q # 0 /\ b = "" -> Ask(c, s, "billing", q, "", fails)
      [] q # 0 /\ b # "" -> _start_checkout(c, s, q, b, FALSE, TRUE, fails)

\* An answer that is no quantity drops the question and the turn goes on.
AnswerQuantity(c, fails) ==
    LET s == Mine(c) IN
    /\ s.stage = "quantity"
    /\ IF Says(c).qty = 0
       THEN /\ Save(c, [s EXCEPT !.stage = "", !.pendingBill = ""], "decide", fails)
            /\ UNCHANGED <<started, told, announced>>
       ELSE _begin_checkout_or_prompt(c, s, Says(c).qty,
                IF s.pendingBill # "" THEN s.pendingBill ELSE Says(c).bill, fails)

AnswerBilling(c, fails) ==
    LET s == Mine(c) IN
    /\ s.stage = "billing"
    /\ _start_checkout(c, s, s.pendingQty, BillingOr(Says(c), "PIX"), FALSE, TRUE, fails)

AnswerName(c, fails) ==
    LET s == Mine(c) IN
    /\ s.stage = "name_confirm"
    /\ IF Says(c).yes
       THEN _start_checkout(c, [s EXCEPT !.named = TRUE], s.pendingQty, s.pendingBill,
                            TRUE, TRUE, fails)
       ELSE _start_checkout(c, [s EXCEPT !.push = FALSE], s.pendingQty, s.pendingBill,
                            FALSE, FALSE, fails)

_advance_precheckout(c, fails) ==
    /\ Deciding(c) /\ ~Mine(c).active
    /\ \/ AnswerQuantity(c, fails)
       \/ AnswerBilling(c, fails)
       \/ AnswerName(c, fails)
    /\ UNCHANGED <<profile, lock, attempts, messages, paid, lapses, literal, raised>>

\* No checkout and no question open.
Free(c) == Deciding(c) /\ ~Mine(c).active /\ Mine(c).stage = ""
Buys(c) == Says(c).signal = "buy"

\* What the lead mentions without buying is remembered, in a save each.
Noted(c) == [Mine(c) EXCEPT !.lastQty = QuantityOr(Says(c), @),
                            !.lastBill = BillingOr(Says(c), @)]

Note(c, fails) ==
    LET quantity == [Mine(c) EXCEPT !.lastQty = QuantityOr(Says(c), @)] IN
    /\ Free(c) /\ ~Buys(c) /\ Noted(c) # Mine(c)
    /\ Save(c, IF quantity # Mine(c) THEN quantity ELSE Noted(c), "decide", fails)
    /\ UNCHANGED <<profile, lock, attempts, messages, started, told, announced,
                   paid, lapses, literal, raised>>

\* The first objection is stored, in a field the model leaves out: the save
\* writes the whole copy back all the same.
NoteObjection(c, fails) ==
    /\ Free(c) /\ Says(c).signal = "other" /\ Noted(c) = Mine(c)
    /\ Save(c, Mine(c), "decide", fails)
    /\ UNCHANGED <<profile, lock, attempts, messages, started, told, announced,
                   paid, lapses, literal, raised>>

\* Story-075: another means of payment after a checkout reopens it with its
\* quantity.
Reopens(c) == Mine(c).qty # 0 /\ Says(c).bill \notin {"", Mine(c).bill}

Reopen(c, fails) ==
    /\ Free(c) /\ ~Buys(c) /\ Noted(c) = Mine(c) /\ Reopens(c)
    /\ _begin_checkout_or_prompt(c, Mine(c), Mine(c).qty, Says(c).bill, fails)
    /\ UNCHANGED <<profile, lock, attempts, messages, paid, lapses, literal, raised>>

Buy(c, fails) ==
    /\ Free(c) /\ Buys(c)
    /\ _begin_checkout_or_prompt(c, Mine(c), QuantityOr(Says(c), Mine(c).lastQty),
                                 BillingOr(Says(c), Mine(c).lastBill), fails)
    /\ UNCHANGED <<profile, lock, attempts, messages, paid, lapses, literal, raised>>

-----------------------------------------------------------------------------
(* The collection *)

Collecting(c) == Deciding(c) /\ Mine(c).active

_escalate_from_checkout(c, fails) ==
    /\ Collecting(c) /\ Says(c).signal = "critical"
    /\ Save(c, [Mine(c) EXCEPT !.active = FALSE], "idle", fails)
    /\ UNCHANGED <<profile, lock, attempts, messages, started, told, announced,
                   paid, lapses, literal, raised>>

Answering(c) == Collecting(c) /\ Says(c).signal # "critical"
Data(c) == Answering(c) /\ ~is_checkout_question(Says(c))

\* The agent answers, the copy is written back when it has.
Question(c) ==
    /\ Answering(c) /\ is_checkout_question(Says(c))
    /\ turn' = [turn EXCEPT ![c].pc = "agent", ![c].resumes = TRUE]
    /\ UNCHANGED <<profile, redisVars, attempts, messages, faults, historyVars>>

Switched(c) == [Mine(c) EXCEPT !.bill = BillingOr(Says(c), @)]
NewQuantity(c) == Says(c).qty \notin {0, Mine(c).qty}

Learn(c, s) == told' = [told EXCEPT ![s.id] = @ \cup
                          {f \in parse_message(Says(c)) : validate_field(Says(c), f)}]

\* Wrong: a complete collection is charged with the new quantity at once.
SwitchAndCharge(c, fails) ==
    LET q == Says(c).qty
        s == [Switched(c) EXCEPT !.qty = q, !.lastQty = q,
                                 !.fields = merge_collected(@, Says(c))]
    IN
    /\ Data(c) /\ NewQuantity(c)
    /\ Save(c, s, IF pending_required(s.fields) = {} THEN "lock" ELSE "idle", fails)
    /\ Learn(c, s)
    /\ announced' = IF pending_required(s.fields) = {} THEN announced ELSE q
    /\ UNCHANGED <<profile, lock, attempts, messages, started, paid, lapses, literal, raised>>

\* Another quantity: told back with its total, never charged in this turn.
SwitchQuantity(c, fails) ==
    LET q == Says(c).qty
        s == [Switched(c) EXCEPT !.qty = q, !.lastQty = q,
                                 !.fields = merge_collected(@, Says(c))]
    IN
    /\ Data(c) /\ NewQuantity(c)
    /\ Save(c, s, "idle", fails)
    /\ Learn(c, s)
    /\ announced' = q
    /\ UNCHANGED <<profile, lock, attempts, messages, started, paid, lapses, literal, raised>>

\* The checkout is closed first and charged then.
CardInCollection(c, fails) ==
    /\ Data(c) /\ ~NewQuantity(c) /\ Switched(c).bill = "CREDIT_CARD"
    /\ Save(c, [Switched(c) EXCEPT !.active = FALSE], "lock", fails)
    /\ UNCHANGED <<profile, lock, attempts, messages, started, told, announced,
                   paid, lapses, literal, raised>>

Fills(c) == Data(c) /\ ~NewQuantity(c) /\ Switched(c).bill # "CREDIT_CARD"

\* Charged first and closed then; found is the answer of ViaCEP.
Ready(c, found) ==
    LET result == advance_checkout(Mine(c).fields, Says(c), found) IN
    /\ Fills(c) /\ result.ready
    /\ turn' = [turn EXCEPT ![c].pc = "lock", ![c].closes = TRUE,
                            ![c].local = [Switched(c) EXCEPT !.fields = result.collected]]
    /\ UNCHANGED <<profile, redisVars, attempts, messages, faults, historyVars>>

\* Wrong: the collection never gives up.
CollectingForever(c, found, fails) ==
    LET result == advance_checkout(Mine(c).fields, Says(c), found)
        s == [Switched(c) EXCEPT !.fields = result.collected, !.tries = @ + 1]
    IN
    /\ Fills(c) /\ ~result.ready
    /\ Save(c, s, "idle", fails)
    /\ Learn(c, s)
    /\ UNCHANGED <<profile, lock, attempts, messages, started, announced, paid,
                   lapses, literal, raised>>

StillCollecting(c, found, fails) ==
    LET result == advance_checkout(Mine(c).fields, Says(c), found)
        n == Mine(c).tries + 1
        s == [Switched(c) EXCEPT !.fields = result.collected, !.tries = n,
                                 !.active = n < MaxCheckoutAttempts]
    IN
    /\ Fills(c) /\ ~result.ready
    /\ Save(c, s, "idle", fails)
    /\ Learn(c, s)
    /\ UNCHANGED <<profile, lock, attempts, messages, started, announced, paid,
                   lapses, literal, raised>>

_continue_checkout(c, fails) ==
    \/ SwitchQuantity(c, fails)
    \/ CardInCollection(c, fails)
    \/ \E found \in SUBSET Fallback : StillCollecting(c, found, fails)

-----------------------------------------------------------------------------
(* The charge, under the session's lock *)

AfterCharge(c) == IF turn[c].closes THEN "close" ELSE "idle"

\* Wrong: SET without NX.
AcquireAnyway(c) ==
    /\ At(c, "lock")
    /\ lock' = TRUE
    /\ turn' = [turn EXCEPT ![c].pc = "charge"]
    /\ UNCHANGED <<profile, session, attempts, messages, faults, historyVars>>

\* SET NX EX: true, false, or true because Redis is away.
Acquire(c) ==
    /\ At(c, "lock") /\ ~lock
    /\ lock' = TRUE
    /\ turn' = [turn EXCEPT ![c].pc = "charge"]
    /\ UNCHANGED <<profile, session, attempts, messages, faults, historyVars>>

AcquireBusy(c) ==
    /\ At(c, "lock") /\ lock
    /\ turn' = [turn EXCEPT ![c].pc = AfterCharge(c)]
    /\ UNCHANGED <<profile, redisVars, attempts, messages, faults, historyVars>>

AcquireOpen(c) ==
    /\ At(c, "lock") /\ faults < MaxFaults
    /\ faults' = faults + 1
    /\ turn' = [turn EXCEPT ![c].pc = "charge"]
    /\ lapses' = lapses + 1
    /\ UNCHANGED <<profile, redisVars, attempts, messages, started, told, announced,
                   paid, repeatable, disturbed, literal, raised>>

\* The generator charges or says why not.
Generate(c, charged) ==
    LET i == Mine(c).id IN
    /\ At(c, "charge")
    /\ paid' = IF charged THEN [paid EXCEPT ![i] = @ + 1] ELSE paid
    /\ turn' = [turn EXCEPT ![c].pc = "release"]
    /\ UNCHANGED <<profile, redisVars, attempts, messages, faults, started, told,
                   announced, repeatable, disturbed, lapses, literal, raised>>

\* DEL of the key, whoever put it there.
Release(c, fails) ==
    /\ At(c, "release")
    /\ Fault(fails)
    /\ lock' = (lock /\ fails)
    /\ turn' = [turn EXCEPT ![c].pc = AfterCharge(c)]
    /\ UNCHANGED <<profile, session, attempts, messages, historyVars>>

\* Wrong: the checkout stays open after its charge.
CloseNothing(c, fails) ==
    /\ At(c, "close")
    /\ Save(c, Mine(c), "idle", fails)
    /\ UNCHANGED <<profile, lock, attempts, messages, started, told, announced,
                   paid, lapses, literal, raised>>

Close(c, fails) ==
    /\ At(c, "close")
    /\ Save(c, [Mine(c) EXCEPT !.active = FALSE], "idle", fails)
    /\ UNCHANGED <<profile, lock, attempts, messages, started, told, announced,
                   paid, lapses, literal, raised>>

-----------------------------------------------------------------------------
(* The agent and its payment tool *)

Converse(c) ==
    /\ Free(c) /\ ~Buys(c) /\ Noted(c) = Mine(c) /\ ~Reopens(c)
    /\ turn' = [turn EXCEPT ![c].pc = "agent"]
    /\ UNCHANGED <<profile, redisVars, attempts, messages, faults, historyVars>>

Tool(c) == At(c, "agent") /\ turn[c].calls < MaxToolCalls
Called(c, says) == [turn[c] EXCEPT !.calls = @ + 1, !.says = says]

\* validate_checkout_ready misses nothing but the address: counted in the
\* memory of this worker.
ToolRefusesAddress(c) ==
    /\ Tool(c)
    /\ turn' = [turn EXCEPT ![c] = [Called(c, "address") EXCEPT !.refused = TRUE]]
    /\ attempts' = [attempts EXCEPT ![c[1]] = @ + 1]
    /\ UNCHANGED <<profile, redisVars, messages, faults, historyVars>>

\* It misses something else, or the product is blocked.
ToolRefuses(c) ==
    /\ Tool(c)
    /\ turn' = [turn EXCEPT ![c] = Called(c, "other")]
    /\ UNCHANGED <<profile, redisVars, attempts, messages, faults, historyVars>>

Restart == literal' = [w \in Workers |-> 0] /\ raised' = [w \in Workers |-> 0]

\* The data is complete: the counter goes.  A charge takes no payment lock and
\* leaves no trace in the session; it counts for the collection of the turn's
\* copy, the open one or the last.  Its link is left to the model to pass on and
\* the reply recorded before stays; a Pix code or an error is recorded itself.
ToolAccepts(c, charged, link) ==
    LET i == Mine(c).id
        sale == charged /\ i # 0
    IN
    /\ Tool(c) /\ (link => charged)
    /\ turn' = [turn EXCEPT ![c] = Called(c, IF link THEN turn[c].says ELSE "other")]
    /\ attempts' = [attempts EXCEPT ![c[1]] = 0]
    /\ Restart
    /\ paid' = IF sale THEN [paid EXCEPT ![i] = @ + 1] ELSE paid
    /\ repeatable' = IF sale THEN repeatable \cup {i} ELSE repeatable
    /\ UNCHANGED <<profile, redisVars, messages, faults, started, told, announced,
                   disturbed, lapses>>

\* The run is over and its sink gone.
Answered(c) ==
    turn' = [turn EXCEPT ![c].pc = "reply", ![c].calls = 0, ![c].says = "", ![c].refused = FALSE]

\* Wrong: one more request than the threshold.
LoopsLate(c) == turn[c].refused /\ attempts[c[1]] > EscalationThreshold

\* _should_escalate_address, when the counter of this worker says so by now.
Loops(c) == turn[c].refused /\ attempts[c[1]] >= EscalationThreshold

\* The lead reads the request for an address once more.
Asks(c) == literal' = [literal EXCEPT ![c[1]] = @ + 1]

\* The run ends: _escalate_address_loop, the recorded reply to the letter, or the
\* model's own.
AgentAnswers(c) ==
    /\ At(c, "agent")
    /\ Answered(c)
    /\ \/ Loops(c) /\ attempts' = [attempts EXCEPT ![c[1]] = 0] /\ Restart
       \/ /\ ~Loops(c)
          /\ IF turn[c].says = "address" THEN Asks(c) ELSE UNCHANGED literal
          /\ UNCHANGED <<attempts, raised>>
    /\ UNCHANGED <<profile, redisVars, messages, faults, started, told, announced,
                   paid, repeatable, disturbed, lapses>>

\* The run raises: a recorded reply is returned, whatever the counter says.
AgentRaises(c) ==
    /\ At(c, "agent")
    /\ Answered(c)
    /\ IF turn[c].says = "address"
       THEN Asks(c) /\ raised' = [raised EXCEPT ![c[1]] = @ + 1]
       ELSE UNCHANGED <<literal, raised>>
    /\ UNCHANGED <<profile, redisVars, attempts, messages, faults, started, told,
                   announced, paid, repeatable, disturbed, lapses>>

\* A turn inside a collection writes its copy back.
Reply(c, fails) ==
    /\ At(c, "reply")
    /\ IF turn[c].resumes
       THEN Save(c, Mine(c), "idle", fails)
       ELSE /\ ~fails
            /\ turn' = [turn EXCEPT ![c] = NoTurn]
            /\ UNCHANGED <<session, disturbed, repeatable, faults>>
    /\ UNCHANGED <<profile, lock, attempts, messages, started, told, announced, paid,
                   lapses, literal, raised>>

-----------------------------------------------------------------------------
(* Expiry, death, and the whole *)

Holders == {c \in Turns : At(c, "charge") \/ At(c, "release")}

\* Twenty seconds after SET.  Only while somebody charges is that a fault.
LockExpires ==
    /\ lock
    /\ lock' = FALSE
    /\ Fault(Holders # {})
    /\ lapses' = IF Holders # {} THEN lapses + 1 ELSE lapses
    /\ UNCHANGED <<profile, session, turn, attempts, messages, started, told,
                   announced, paid, repeatable, disturbed, literal, raised>>

\* An hour after the last save.
SessionExpires ==
    /\ session # NoSession
    /\ Fault(TRUE)
    /\ session' = NoSession
    /\ turn' = [c \in Turns |-> [turn[c] EXCEPT !.stale = @ \/ Busy(c)]]
    /\ UNCHANGED <<profile, lock, attempts, messages, historyVars>>

WorkerDies(w) ==
    LET gone == {c \in Turns : c[1] = w} IN
    /\ Fault(TRUE)
    /\ turn' = [c \in Turns |-> IF c \in gone THEN NoTurn ELSE turn[c]]
    /\ attempts' = [attempts EXCEPT ![w] = 0]
    /\ repeatable' = repeatable \cup
         {Mine(c).id : c \in {d \in gone : turn[d].closes /\ turn[d].pc \in {"release", "close"}}}
    /\ UNCHANGED <<profile, redisVars, messages, started, told, announced, paid,
                   disturbed, lapses, literal, raised>>

Step(c, fails) ==
    \/ \E m \in Messages : Read(c, m, fails)
    \/ Greet(c, fails)
    \/ _advance_precheckout(c, fails)
    \/ Note(c, fails)
    \/ NoteObjection(c, fails)
    \/ Reopen(c, fails)
    \/ Buy(c, fails)
    \/ _escalate_from_checkout(c, fails)
    \/ _continue_checkout(c, fails)
    \/ Release(c, fails)
    \/ Close(c, fails)
    \/ Reply(c, fails)

Progress(c) ==
    \/ Question(c)
    \/ \E found \in SUBSET Fallback : Ready(c, found)
    \/ Acquire(c)
    \/ AcquireBusy(c)
    \/ AcquireOpen(c)
    \/ \E charged \in BOOLEAN : Generate(c, charged)
    \/ Converse(c)
    \/ ToolRefusesAddress(c)
    \/ ToolRefuses(c)
    \/ \E charged, link \in BOOLEAN : ToolAccepts(c, charged, link)
    \/ AgentAnswers(c)
    \/ AgentRaises(c)

Next ==
    \/ \E c \in Turns, fails \in BOOLEAN : Step(c, fails)
    \/ \E c \in Turns : Progress(c)
    \/ LockExpires
    \/ SessionExpires
    \/ \E w \in Workers : WorkerDies(w)

Spec == Init /\ [][Next]_vars

-----------------------------------------------------------------------------
(* Properties *)

\* The session and every turn's copy of it have the shape of the state
\* dictionary of team.py; the counters stay within their limits, a checkout
\* that has used up its attempts is closed.
SessionTypeOK ==
    /\ profile \in BOOLEAN /\ lock \in BOOLEAN /\ disturbed \in BOOLEAN
    /\ session \in Session
    /\ turn \in [Turns -> Turn]
    /\ attempts \in [Workers -> Nat]
    /\ messages \in 0 .. MaxMessages /\ faults \in 0 .. MaxFaults
    /\ started \in 0 .. messages /\ announced \in 0 .. MaxQuantity
    /\ lapses \in Nat /\ literal \in [Workers -> Nat] /\ raised \in [Workers -> Nat]
    /\ told \in [Collections -> SUBSET Fields]
    /\ paid \in [Collections -> Nat]
    /\ repeatable \subseteq Collections

\* The payment lock, without a token and with a time to live: as many turns
\* may charge at once as the lock lapsed, plus one.  A slow holder that deletes
\* its successor's lock hands its excess on and adds none of its own.
OverlapBounded ==
    Cardinality({c \in Turns : At(c, "charge")}) <= 1 + lapses

\* "Um campo ja valido NUNCA e pedido de novo": through questions, switches of
\* quantity and of means, and fruitless messages, a collection keeps each valid
\* field it has stored, unless turns overlapped on it or Redis failed it.
FieldsAreKept ==
    session.active /\ ~disturbed => told[session.id] \subseteq session.fields

\* "Encerra o modo checkout - gerado ou nao, a coleta acabou": a collection is
\* charged twice only if two turns worked on it at once, a save of it failed,
\* its worker died between the charge and the closing save, or the agent's own
\* tool charged for it, without the payment lock and with no trace in the
\* session.  The card, which closes before it charges, has no such window.
OneChargePerCollection ==
    \A i \in Collections : paid[i] > 1 => i \in repeatable

\* Story-046 ("cobrado em silencio"): what is charged is the quantity the lead
\* was last told, if the turn's copy of the session is the current one.
ChargesWhatWasAnnounced ==
    \A c \in Turns :
        At(c, "charge") /\ ~turn[c].stale /\ ~disturbed => Mine(c).qty = announced

\* Story-040 ("em vez de reenviar a mensagem literal"): how often in a row a
\* worker can ask the lead for the address without handing it to a person: once
\* less than the threshold, again after each death, which forgets the counter,
\* once per turn of the worker that was refused before the counter was cleared,
\* and once per run that raised, whose recorded request nobody checks.
AddressLoopBounded ==
    \A c \in Turns :
        literal[c[1]] <= (1 + faults) * (EscalationThreshold - 1)
                         + raised[c[1]] + Cardinality({d \in Turns : d[1] = c[1]})
=============================================================================
