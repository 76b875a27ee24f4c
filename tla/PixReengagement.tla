-------------------------- MODULE PixReengagement --------------------------
(***************************************************************************)
(* The hourly Pix reminder (conversion/pix_reengagement.py).               *)
(*                                                                         *)
(* A cycle reads the orders whose Pix falls due, then takes them one by    *)
(* one: opt-out check, send, stamp.  Nothing claims an order, the stamp    *)
(* comes after the send, and every worker runs the job at minute 0.        *)
(***************************************************************************)
EXTENDS WhatsAppTool

CONSTANTS
    Orders,     \* Pix orders of the tenant, each also the key of its reminder
    Leads,
    LeadOf,     \* the lead_phone of an order
    Due,        \* pix_due_date
    Pollers,    \* the callers that run this job
    Lookahead   \* lookahead_days

ASSUME PixAssumption ==
    /\ Orders \subseteq Messages /\ Orders # {} /\ Leads \subseteq Numbers
    /\ LeadOf \in [Orders -> Leads] /\ Due \in [Orders -> Nat]
    /\ Pollers \subseteq Callers /\ Lookahead \in Nat

VARIABLES
    order,      \* order[o]: the columns of orders the job reads or writes
    optedOut,   \* leads with opt_out_at
    pix,        \* pix[c]: the cycle poller c runs
    reminders,  \* reminders[o]: send_message calls made for o
    late,       \* late[l]: reminders begun after l opted out
    excused     \* orders a fault or an overlapping cycle may remind again

pixVars == <<order, optedOut, pix, reminders, late, excused>>

Order == [status : {"payment_link_created", "settled"}, stamped : BOOLEAN]
Cycle == [pc : {"idle", "check", "send", "sending", "mark"},
          todo : SUBSET Orders, hand : Orders]
NoCycle == [pc |-> "idle", todo |-> {}, hand |-> CHOOSE o \in Orders : TRUE]

PixInit ==
    /\ order = [o \in Orders |-> [status |-> "payment_link_created", stamped |-> FALSE]]
    /\ optedOut = {}
    /\ pix = [c \in Pollers |-> NoCycle]
    /\ reminders = [o \in Orders |-> 0]
    /\ late = [l \in Leads |-> 0]
    /\ excused = {}

-----------------------------------------------------------------------------
\* Wrong: pix_reengagement_sent_at is not asked for.
PendingOrReminded ==
    {o \in Orders : /\ order[o].status = "payment_link_created"
                    /\ Due[o] <= day + Lookahead}

Pending ==
    {o \in Orders : /\ order[o].status = "payment_link_created"
                    /\ Due[o] <= day + Lookahead
                    /\ ~order[o].stamped}

InHand(c) ==
    pix[c].todo \cup (IF pix[c].pc \in {"idle", "check"} THEN {} ELSE {pix[c].hand})

\* get_pending_pix_orders.  A read error gives an empty list: nothing happens.
\* The overlap of two cycles is what the stamp cannot see.
Select(c) ==
    /\ pix[c].pc = "idle" /\ dbUrl /\ Pending # {}
    /\ pix' = [pix EXCEPT ![c].pc = "check", ![c].todo = Pending]
    /\ excused' = excused \cup
                    (Pending \cap UNION {InHand(d) : d \in Pollers \ {c}})
    /\ UNCHANGED <<order, optedOut, reminders, late, toolVars>>

Earliest(c) == {o \in pix[c].todo : \A p \in pix[c].todo : Due[o] <= Due[p]}

\* Wrong: the opt-out is not asked for.
CheckNothing(c, blind) ==
    /\ pix[c].pc = "check" /\ ~blind
    /\ \E o \in Earliest(c) :
         pix' = [pix EXCEPT ![c] = [pc |-> "send", todo |-> @.todo \ {o}, hand |-> o]]
    /\ UNCHANGED <<order, optedOut, reminders, late, excused, toolVars>>

\* ORDER BY pix_due_date; blind is is_opted_out answering False after an error.
CheckOptOut(c, blind) ==
    /\ pix[c].pc = "check"
    /\ blind => faults < MaxFaults
    /\ faults' = IF blind THEN faults + 1 ELSE faults
    /\ \E o \in Earliest(c) :
         LET rest == pix[c].todo \ {o} IN
         pix' = [pix EXCEPT ![c] =
                   IF LeadOf[o] \in optedOut /\ ~blind
                   THEN [@ EXCEPT !.todo = rest]
                   ELSE [pc |-> "send", todo |-> rest, hand |-> o]]
    /\ UNCHANGED <<config, order, optedOut, reminders, late, excused,
                   day, tool, callVars, sentVars>>

Finish(c) ==
    /\ pix[c].pc = "check" /\ pix[c].todo = {}
    /\ pix' = [pix EXCEPT ![c] = NoCycle]
    /\ UNCHANGED <<order, optedOut, reminders, late, excused, toolVars>>

\* get_lead_reengagement_memory lies between the check and the send; it shapes
\* the text only.  The order itself is not read again.
Remind(c) ==
    LET o == pix[c].hand IN
    /\ pix[c].pc = "send"
    /\ send_message(c, LeadOf[o], o)
    /\ pix' = [pix EXCEPT ![c].pc = "sending"]
    /\ reminders' = [reminders EXCEPT ![o] = @ + 1]
    /\ late' = [late EXCEPT ![LeadOf[o]] = IF LeadOf[o] \in optedOut THEN @ + 1 ELSE @]
    /\ UNCHANGED <<order, optedOut, excused>>

\* The ToolResult is not looked at; only an exception skips the stamp.
Answered(c) ==
    LET raised == call[c].result = "raised" IN
    /\ pix[c].pc = "sending"
    /\ Collect(c)
    /\ pix' = [pix EXCEPT ![c].pc = IF raised THEN "check" ELSE "mark"]
    /\ excused' = IF raised THEN excused \cup {pix[c].hand} ELSE excused
    /\ UNCHANGED <<order, optedOut, reminders, late>>

\* mark_reengagement_sent logs and swallows its errors.
Mark(c, fails) ==
    LET o == pix[c].hand IN
    /\ pix[c].pc = "mark"
    /\ fails => faults < MaxFaults
    /\ pix' = [pix EXCEPT ![c].pc = "check"]
    /\ order' = IF fails THEN order ELSE [order EXCEPT ![o].stamped = TRUE]
    /\ excused' = IF fails THEN excused \cup {o} ELSE excused
    /\ faults' = IF fails THEN faults + 1 ELSE faults
    /\ UNCHANGED <<config, optedOut, reminders, late,
                   day, tool, callVars, sentVars>>

PixStep(c) ==
    \/ Select(c)
    \/ \E blind \in BOOLEAN : CheckOptOut(c, blind)
    \/ Finish(c)
    \/ Remind(c)
    \/ Answered(c)
    \/ \E fails \in BOOLEAN : Mark(c, fails)

\* What the rest of the system does to these rows: the payment webhook, the
\* sweep or an operator settles an order, a lead asks to be left alone.
Settle(o) ==
    /\ order[o].status = "payment_link_created"
    /\ order' = [order EXCEPT ![o].status = "settled"]
    /\ UNCHANGED <<optedOut, pix, reminders, late, excused, toolVars>>

OptOut(l) ==
    /\ l \notin optedOut
    /\ optedOut' = optedOut \cup {l}
    /\ UNCHANGED <<order, pix, reminders, late, excused, toolVars>>

PixRestart(w) ==
    /\ pix' = [c \in Pollers |-> IF c[1] = w THEN NoCycle ELSE pix[c]]
    /\ excused' = excused \cup
         {pix[c].hand : c \in {d \in Pollers : d[1] = w /\ pix[d].pc \in {"sending", "mark"}}}
    /\ UNCHANGED <<order, optedOut, reminders, late>>

PixNext ==
    \/ \E c \in Pollers : PixStep(c)
    \/ \E o \in Orders : Settle(o)
    \/ \E l \in Leads : OptOut(l)

-----------------------------------------------------------------------------
(* Properties *)

\* "One reminder per order": a second call for an order is only ever made when
\* its cycles overlapped, its stamp or its send failed, or a worker died with
\* it.  A stamped order is not taken up again by a cycle that starts later.
ReminderOnce == \A o \in Orders : reminders[o] > 1 => o \in excused

\* "Respects opt-out": the check comes before the send and not with it, so a
\* lead that opts out can still get the reminder each poller had already
\* checked, one per poller, but no more than that unless a check was blind.
LateRemindersBounded ==
    \A l \in Leads : late[l] <= Cardinality(Pollers) + faults
=============================================================================
