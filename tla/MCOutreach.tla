----------------------------- MODULE MCOutreach -----------------------------
(***************************************************************************)
(* A small instance of Outreach.  The callers meet only in the tools they  *)
(* share and in the rows of their own job, so a behaviour plays a few of   *)
(* them: cast is chosen at the start and never changes.                    *)
(***************************************************************************)
EXTENDS Outreach

CONSTANTS w1, w2, t1, t2, o1, o2, l1, g, r3, r4

MCCallers == {<<w1, t1, "pix">>, <<w2, t1, "pix">>, <<w1, t1, "desk">>,
              <<w1, t1, "report">>, <<w1, t2, "report">>, <<w2, t1, "report">>}
Role(r) == {c \in Callers : c[3] = r}
MCPollers == Role("pix")
MCReporters == Role("report")
MCDesks == Role("desk")
MCNumbers == {l1, g}
MCMessages == Orders \cup {r3, r4} \cup {Reply}
MCLeadOf == [o \in Orders |-> l1]
MCDue == [o \in Orders |-> IF o = o1 THEN 4 ELSE 5]
MCReportOf == [d \in Days |-> IF d = FirstDay THEN r3 ELSE r4]

VARIABLE cast

Alone == {<<w1, t1, "pix">>}
OneTenant == {<<w1, t1, "report">>, <<w2, t1, "report">>}
Casts == {Pollers, Alone, Alone \cup Desks, Reporters, OneTenant,
          {<<w1, t1, "report">>} \cup Desks, Desks}

\* Bound: a text raises after two faults; what follows it may fail too.
FaultsOf == CASE cast \in {Alone, OneTenant} -> 3
              [] cast = Reporters \/ mode = "normal" -> 2
              [] OTHER -> 1

\* Bound: a desk alone gets past what the warm-up bound allows.
RepliesOf == IF cast = Desks THEN MaxReplies ELSE 1

\* Orders are settled in the cycles of one poller only, in the warm-up.
\* Outside the warm-up the tool refuses nothing: played with few callers.
MCInit ==
    /\ Init
    /\ cast \in Casts
    /\ mode = "normal" => cast = Alone \cup Desks
    /\ mode = "unconfigured" => cast \in {Alone \cup Desks, OneTenant}

MCNext ==
    /\ Next
    /\ cast \cap Pollers = {} => UNCHANGED pixVars
    /\ \A c \in Callers \ cast :
          /\ c \in Pollers => pix'[c] = pix[c]
          /\ c \in Reporters => report'[c] = report[c]
          /\ c \in Desks => replies'[c] = replies[c]
    /\ cast = Pollers \/ mode = "normal" =>
          \A o \in Orders : order'[o].status = order[o].status
    /\ mode = "normal" => dbUrl /\ UNCHANGED <<day, optedOut>>
    /\ faults' <= FaultsOf
    /\ \A c \in Desks : replies'[c] <= RepliesOf
    /\ cast' = cast

MCSpec == MCInit /\ [][MCNext]_<<vars, cast>>
=============================================================================
