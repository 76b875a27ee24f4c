---------------------------- MODULE DailyReport ----------------------------
(***************************************************************************)
(* The daily report (reporting/daily_report.py).                           *)
(*                                                                         *)
(* The cron of 23:30 UTC exists once per tenant and worker, all for one    *)
(* group.  With a database a row (group, date) of daily_report_sent decides*)
(* which run sends; without one a dictionary of the process does.  The row *)
(* is taken before the send and given back if the send raises.             *)
(***************************************************************************)
EXTENDS WhatsAppTool

CONSTANTS
    Reporters,      \* the callers that run this job
    Group,          \* REPORT_WA_GROUP_ID
    ReportOf        \* the report of a day, a message

Days == FirstDay .. LastDay

ASSUME ReportAssumption ==
    /\ Reporters \subseteq Callers /\ Group \in Numbers
    /\ ReportOf \in [Days -> Messages]
    /\ \A d, e \in Days : ReportOf[d] = ReportOf[e] => d = e     \* it names its date

VARIABLES
    slot,       \* the days with a row in daily_report_sent
    guard,      \* guard[w]: _sent_reports_by_group of worker w, 0 when empty
    report,     \* report[c]: the run of reporter c
    fired,      \* fired[c]: the last day the cron of c ran
    senders,    \* senders[d]: reporters that sent for d and saw no exception
    unguarded,  \* unguarded[d]: claims of d taken for granted, guards lost
    abandoned,  \* days whose release was refused or whose reporter died
    unheeded    \* days of which a ToolResult that says fail was taken for a send

reportVars == <<slot, guard, report, fired, senders, unguarded, abandoned, unheeded>>

Run == [pc : {"idle", "claim", "send", "sending", "release"}, today : Days]
NoRun == [pc |-> "idle", today |-> FirstDay]

ReportInit ==
    /\ slot = {}
    /\ guard = [w \in Workers |-> 0]
    /\ report = [c \in Reporters |-> NoRun]
    /\ fired = [c \in Reporters |-> 0]
    /\ senders = [d \in Days |-> {}]
    /\ unguarded = [d \in Days |-> 0]
    /\ abandoned = {} /\ unheeded = {}

-----------------------------------------------------------------------------
\* The cron fires once a day in a running process; metrics are best effort.
Fire(c) ==
    /\ report[c].pc = "idle" /\ fired[c] < day
    /\ fired' = [fired EXCEPT ![c] = day]
    /\ report' = [report EXCEPT ![c].pc = "claim"]
    /\ UNCHANGED <<slot, guard, senders, unguarded, abandoned, unheeded, toolVars>>

Proceed(c) == report' = [report EXCEPT ![c] = [pc |-> "send", today |-> day]]

Skip(c) == report' = [report EXCEPT ![c] = NoRun]

\* The run is past its claim.
AtWork(c) == report[c].pc \notin {"idle", "claim"}

\* Wrong: the row is written, but nobody looks whether it was there.
ClaimRegardless(c) ==
    /\ report[c].pc = "claim" /\ dbUrl
    /\ Proceed(c)
    /\ slot' = slot \cup {day}
    /\ UNCHANGED <<guard, fired, senders, unguarded, abandoned, unheeded, toolVars>>

\* INSERT ... ON CONFLICT DO NOTHING RETURNING 1.
Claim(c) ==
    /\ report[c].pc = "claim" /\ dbUrl
    /\ IF day \in slot THEN Skip(c) ELSE Proceed(c)
    /\ slot' = slot \cup {day}
    /\ UNCHANGED <<guard, fired, senders, unguarded, abandoned, unheeded, toolVars>>

\* The database does not answer, whether or not the statement arrived: rather a
\* second report than none.
ClaimBlind(c, arrived) ==
    /\ report[c].pc = "claim" /\ dbUrl /\ faults < MaxFaults
    /\ faults' = faults + 1
    /\ Proceed(c)
    /\ slot' = IF arrived THEN slot \cup {day} ELSE slot
    /\ unguarded' = IF slot' = slot THEN [unguarded EXCEPT ![day] = @ + 1] ELSE unguarded
    /\ UNCHANGED <<config, guard, fired, senders, abandoned, unheeded,
                   day, tool, callVars, sentVars>>

ClaimInProcess(c) ==
    /\ report[c].pc = "claim" /\ ~dbUrl
    /\ IF guard[c[1]] = day THEN Skip(c) ELSE Proceed(c)
    /\ guard' = [guard EXCEPT ![c[1]] = day]
    /\ UNCHANGED <<slot, fired, senders, unguarded, abandoned, unheeded, toolVars>>

Send(c) ==
    LET d == report[c].today IN
    /\ report[c].pc = "send"
    /\ send_message(c, Group, ReportOf[d])
    /\ report' = [report EXCEPT ![c].pc = "sending"]
    /\ senders' = [senders EXCEPT ![d] = @ \cup {c}]
    /\ UNCHANGED <<slot, guard, fired, unguarded, abandoned, unheeded>>

\* Only an exception gives the day back; a ToolResult that says fail does not.
Sent(c) ==
    /\ report[c].pc = "sending" /\ call[c].result # "raised"
    /\ Collect(c)
    /\ Skip(c)
    /\ unheeded' = IF call[c].result = "fail" THEN unheeded \cup {report[c].today} ELSE unheeded
    /\ UNCHANGED <<slot, guard, fired, senders, unguarded, abandoned>>

\* Wrong: the slot in the database is not given back.
SendRaisedKeepingSlot(c) ==
    LET d == report[c].today IN
    /\ report[c].pc = "sending" /\ call[c].result = "raised"
    /\ Collect(c)
    /\ senders' = [senders EXCEPT ![d] = @ \ {c}]
    /\ Skip(c) /\ guard' = [guard EXCEPT ![c[1]] = 0]
    /\ UNCHANGED <<slot, fired, unguarded, abandoned, unheeded>>

SendRaised(c) ==
    LET d == report[c].today IN
    /\ report[c].pc = "sending" /\ call[c].result = "raised"
    /\ Collect(c)
    /\ senders' = [senders EXCEPT ![d] = @ \ {c}]
    /\ IF dbUrl
       THEN report' = [report EXCEPT ![c].pc = "release"] /\ guard' = guard
       ELSE Skip(c) /\ guard' = [guard EXCEPT ![c[1]] = 0]
    /\ UNCHANGED <<slot, fired, unguarded, abandoned, unheeded>>

\* _release_daily_report_slot logs and swallows its errors.
Release(c, fails) ==
    /\ report[c].pc = "release"
    /\ fails => faults < MaxFaults
    /\ faults' = IF fails THEN faults + 1 ELSE faults
    /\ slot' = IF fails THEN slot ELSE slot \ {report[c].today}
    /\ abandoned' = IF fails THEN abandoned \cup {report[c].today} ELSE abandoned
    /\ Skip(c)
    /\ UNCHANGED <<config, guard, fired, senders, unguarded, unheeded,
                   day, tool, callVars, sentVars>>

ReportStep(c) ==
    \/ Fire(c)
    \/ Claim(c)
    \/ \E arrived \in BOOLEAN : ClaimBlind(c, arrived)
    \/ ClaimInProcess(c)
    \/ Send(c)
    \/ Sent(c)
    \/ SendRaised(c)
    \/ \E fails \in BOOLEAN : Release(c, fails)

\* The guard of a process dies with it, the row does not.
ReportRestart(w) ==
    /\ report' = [c \in Reporters |-> IF c[1] = w THEN NoRun ELSE report[c]]
    /\ guard' = [guard EXCEPT ![w] = 0]
    /\ unguarded' = [d \in Days |->
                       IF ~dbUrl /\ guard[w] = d THEN unguarded[d] + 1 ELSE unguarded[d]]
    /\ abandoned' = abandoned \cup
         {report[c].today : c \in {r \in Reporters : r[1] = w /\ AtWork(r)}}
    /\ UNCHANGED <<slot, fired, senders, unheeded>>

ReportNext == \E c \in Reporters : ReportStep(c)

-----------------------------------------------------------------------------
(* Properties *)

\* Story-076: one report per group and day.  With a database all workers and
\* tenants together send once, and once more per claim the database could not
\* answer; without one each process sends once.
ReportOncePerDay ==
    \A d \in Days :
        Cardinality(senders[d]) <= unguarded[d] + (IF dbUrl THEN 1 ELSE Cardinality(Workers))

\* "Falhou: libera o slot para permitir nova tentativa": whoever finds the day
\* taken may leave it.  A day with a row, or in the guard of a process, has a run
\* still at work on it or its report reached the group.  The exceptions: the tool
\* is not configured, the database refused a release, a reporter died, or the
\* tool said fail without an exception and nobody looked.
TakenDayIsReported ==
    LET heard(d) == copies[ReportOf[d]] > 0 \/ d \in unheeded \/ mode = "unconfigured"
        works(c, d) == AtWork(c) /\ report[c].today = d
    IN
    /\ \A d \in slot \ abandoned : heard(d) \/ \E c \in Reporters : works(c, d)
    /\ ~dbUrl => \A w \in Workers :
          guard[w] # 0 => \/ heard(guard[w])
                          \/ \E c \in Reporters : c[1] = w /\ works(c, guard[w])
=============================================================================
