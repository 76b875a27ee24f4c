------------------------------ MODULE Outreach ------------------------------
(***************************************************************************)
(* The messages the system starts by itself, together: Pix reminders and   *)
(* daily reports of all workers, and the replies of the conversation, on   *)
(* the WhatsApp tools they share.                                          *)
(***************************************************************************)
EXTENDS PixReengagement, DailyReport

CONSTANTS
    Desks,      \* callers that answer leads, with texts and with pictures
    Reply,      \* their message
    MaxReplies  \* bound: replies per desk

\* A coroutine has one job.
ASSUME OutreachAssumption ==
    /\ Desks \subseteq Callers \ (Pollers \cup Reporters)
    /\ Pollers \cap Reporters = {}
    /\ Reply \in Messages /\ MaxReplies \in Nat

VARIABLE replies    \* replies[c]: replies desk c has begun

vars == <<toolVars, pixVars, reportVars, replies>>

Init ==
    /\ ToolInit /\ PixInit /\ ReportInit
    /\ replies = [c \in Desks |-> 0]

-----------------------------------------------------------------------------
\* One message of a turn: a part of its reply, or a picture of the social proof
\* (team.py, tools/social_proof.py).  How many parts or pictures follow one
\* another, who consented, and whether a failure ends the series is left open.
Answer_(c, l, picture) ==
    /\ replies[c] < MaxReplies
    /\ replies' = [replies EXCEPT ![c] = @ + 1]
    /\ IF picture THEN send_image(c, l, Reply) ELSE send_message(c, l, Reply)

Turn(c) ==
    /\ \/ \E l \in Leads, picture \in BOOLEAN : Answer_(c, l, picture)
       \/ Collect(c) /\ replies' = replies
    /\ UNCHANGED <<pixVars, reportVars>>

Tool_(c) == Post(c) /\ UNCHANGED <<pixVars, reportVars, replies>>

\* Runs of the report start at 20:30 and last minutes: none lives at midnight.
DayEnds ==
    /\ \A c \in Reporters : report[c].pc = "idle"
    /\ Midnight
    /\ UNCHANGED <<pixVars, reportVars, replies>>

WorkerRestarts(w) ==
    /\ Restart(w) /\ PixRestart(w) /\ ReportRestart(w)
    /\ UNCHANGED replies

Next ==
    \/ PixNext /\ UNCHANGED <<reportVars, replies>>
    \/ ReportNext /\ UNCHANGED <<pixVars, replies>>
    \/ \E c \in Desks : Turn(c)
    \/ \E c \in Callers : Tool_(c)
    \/ DayEnds
    \/ \E w \in Workers : WorkerRestarts(w)

Spec == Init /\ [][Next]_vars
=============================================================================
