----------------------------- MODULE MCCheckout -----------------------------
(***************************************************************************)
(* A small instance of CheckoutSession: two workers with one task each.  A *)
(* behaviour plays one script, chosen at the start: the messages its lead  *)
(* sends, and how often a run of the agent may call the payment tool.      *)
(***************************************************************************)
EXTENDS CheckoutSession

Nothing ==
    [labelled |-> {}, free |-> {}, bad |-> {}, qty |-> 0, bill |-> "",
     asks |-> FALSE, yes |-> FALSE, signal |-> "other"]
Order == [Nothing EXCEPT !.qty = 2, !.bill = "PIX", !.signal = "buy"]
BuyNow == [Nothing EXCEPT !.signal = "buy"]
Two == [Nothing EXCEPT !.qty = 2]
One == [Nothing EXCEPT !.qty = 1]
Card == [Nothing EXCEPT !.bill = "CREDIT_CARD"]
Pix == [Nothing EXCEPT !.bill = "PIX"]
Yes == [Nothing EXCEPT !.yes = TRUE]
Doubt == [Nothing EXCEPT !.asks = TRUE]
Anger == [Nothing EXCEPT !.signal = "critical"]
Form == [Nothing EXCEPT !.labelled = REQUIRED_FIELDS]
Half == [Nothing EXCEPT !.labelled = {"name", "document"}, !.bad = {"document"},
                        !.free = {"postal_code", "city"}]
Rest == [Nothing EXCEPT !.free = {"document", "postal_code", "number", "city"}]

Script(lines, calls) == [lines |-> lines, calls |-> calls]

Scripts == {
    Script({Order, Form, Doubt, One}, 0),
    Script({Order, Form, Card, Pix}, 0),
    Script({BuyNow, Two, Pix, Yes}, 0),
    Script({Order, Half, Rest, Anger}, 0),
    Script({Order, Form, Doubt}, 1),
    Script({Doubt}, MaxToolCalls) }

MCMessages == UNION {each.lines : each \in Scripts}
MCTurns == {<<"w1", 1>>, <<"w2", 1>>}

VARIABLE script

MCInit == Init /\ script \in Scripts
MCNext ==
    /\ Next
    /\ \A c \in Turns : turn'[c].pc # "idle" =>
          turn'[c].msg \in script.lines /\ turn'[c].calls <= script.calls
    /\ script' = script
MCSpec == MCInit /\ [][MCNext]_<<vars, script>>
=============================================================================
