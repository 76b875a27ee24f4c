---------------------------- MODULE CheckoutFlow ----------------------------
(***************************************************************************)
(* The deterministic collection of checkout data                           *)
(* (conversion/checkout_flow.py), as pure operators on one message and the *)
(* set of fields already collected.  What a field's value is does not      *)
(* matter here, only whether it is there and whether it validates.         *)
(***************************************************************************)
EXTENDS Naturals

CONSTANTS
    Fallback,       \* ADDRESS_FALLBACK_FIELDS: what ViaCEP should know
    MaxQuantity     \* bound: the largest quantity a message names

ASSUME FlowAssumption == MaxQuantity \in Nat \ {0}

REQUIRED_FIELDS == {"name", "document", "postal_code", "number"}
Fields == REQUIRED_FIELDS \cup Fallback
Quantities == 1 .. MaxQuantity
Billings == {"PIX", "CREDIT_CARD"}      \* a boleto is collected like a Pix

\* A message as the parsers and the classifiers see it: the fields it labels,
\* the fields its unlabelled lines carry, those of them that do not validate,
\* a quantity (0: none) and a means of payment ("": none), and how
\* analyze_message reads it.
Message == [labelled : SUBSET (Fields \cup {"quantity"}), free : SUBSET Fields,
            bad : SUBSET Fields, qty : 0 .. MaxQuantity, bill : Billings \cup {""},
            asks : BOOLEAN, yes : BOOLEAN,
            signal : {"buy", "critical", "other"}]

-----------------------------------------------------------------------------
(* Parsing *)

\* The digits of "quero 2" are the first ones of the text, and the free-text
\* parser takes those for the number of the house.
Unlabelled(m) == m.free \cup (IF m.qty = 0 THEN {} ELSE {"number"})

\* One label is enough to trust labels only: free text then completes what it
\* can, which is everything but the CEP.
parse_message(m) ==
    IF m.labelled = {} THEN Unlabelled(m)
    ELSE m.labelled \cup (Unlabelled(m) \ {"postal_code"})

\* "Quantidade:" is a label without a validation: never valid.
validate_field(m, f) == f \in Fields \ m.bad

\* Wrong: only the last message counts.
LastMessageOnly(collected, m) == {f \in parse_message(m) : validate_field(m, f)}

merge_collected(collected, m) ==
    collected \cup {f \in parse_message(m) : validate_field(m, f)}

invalid_attempts(collected, m) ==
    {f \in parse_message(m) \ collected : ~validate_field(m, f)}

pending_required(collected) == REQUIRED_FIELDS \ collected

-----------------------------------------------------------------------------
(* One turn of the collection *)

\* Only then is the address looked up.
Complete(collected, m) ==
    /\ pending_required(merge_collected(collected, m)) = {}
    /\ invalid_attempts(collected, m) = {}

\* found is what ViaCEP answers: nothing when it fails or knows no such CEP.
resolve_delivery_address(collected, found) == found \cup (collected \cap Fallback)

\* The fields the reply asks for.
Wanted(collected, m, found) ==
    LET state == merge_collected(collected, m) IN
    IF Complete(collected, m)
    THEN Fallback \ resolve_delivery_address(state, found)
    ELSE pending_required(state) \cup invalid_attempts(collected, m)

advance_checkout(collected, m, found) ==
    [collected |-> merge_collected(collected, m),
     ready |-> Wanted(collected, m, found) = {}]

\* A message with data is never a question, however it is punctuated.
message_has_checkout_data(m) ==
    parse_message(m) \cap {"document", "postal_code", "number"} # {}

is_checkout_question(m) == m.asks /\ ~message_has_checkout_data(m)

-----------------------------------------------------------------------------
(* What a message says about the order (team.py) *)

\* The question "how many?" is only put before the collection; its answer may
\* be a bare number, which the model does not tell from "quero 2".
QuantityOr(m, otherwise) == IF m.qty = 0 THEN otherwise ELSE m.qty
BillingOr(m, otherwise) == IF m.bill = "" THEN otherwise ELSE m.bill
=============================================================================
