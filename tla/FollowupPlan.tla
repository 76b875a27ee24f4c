---------------------------- MODULE FollowupPlan ----------------------------
(***************************************************************************)
(* The contact policy of conversion/followup.py: how often a lead may be   *)
(* contacted, and when.  Text matching is abstracted to its result, the    *)
(* names of the signals that the lead's messages contain.                  *)
(***************************************************************************)
EXTENDS Integers, FiniteSets

StrongSignals == {"diagnosis_real_pain", "asked_price", "asked_payment",
                  "selected_quantity", "asked_shipping", "sent_checkout_data",
                  "buying_words"}

FinalSignals == {"requested_link", "selected_payment_method", "sent_checkout_data"}

\* refuses: an opt-out phrase; risk: a medical risk or a critical complaint.
Signals == [strong : SUBSET StrongSignals, final : SUBSET FinalSignals,
            risk : BOOLEAN, refuses : BOOLEAN]

Temperature(m) ==
    CASE m.risk -> "risk"
      [] ~ m.risk /\ (m.final # {} \/ Cardinality(m.strong) >= 2) -> "hot"
      [] ~ m.risk /\ m.final = {} /\ Cardinality(m.strong) = 1 -> "warm"
      [] OTHER -> "cold"

PriceOnly(m) == m.strong = {"asked_price"} /\ m.final = {}

ContactLimit == [hot |-> 5, warm |-> 3, cold |-> 1, risk |-> 0]

\* _max_contacts; dry is a lead whose objections say "later" or "let me think".
MaxContacts(m, dry) ==
    CASE dry -> 2
      [] ~ dry /\ Temperature(m) = "hot" /\ PriceOnly(m) -> 3
      [] OTHER -> ContactLimit[Temperature(m)]

\* Wrong: the limit is not looked at.
PlanWithoutLimit(m, sent, dry) ==
    IF m.refuses \/ m.risk THEN {} ELSE {sent + 1}

\* build_followup_plan: the sequence numbers of the contacts still allowed after
\* sent of them went out.  No contact is allowed after an opt-out or at risk.
Plan(m, sent, dry) ==
    IF m.refuses \/ m.risk THEN {}
    ELSE sent + 1 .. MaxContacts(m, dry)

\* contacts[0] of a plan that allows one.
FirstContact(sent) == sent + 1

=============================================================================
