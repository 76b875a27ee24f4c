------------------------- MODULE CommercialFollowup -------------------------
(***************************************************************************)
(* The commercial follow-up job (conversion/commercial_followup.py).       *)
(*                                                                         *)
(* Each uvicorn worker runs run_commercial_followup_job every hour.  A run *)
(* first arms or bars one row of commercial_followups per candidate, then  *)
(* claims all rows that are due and works through what it claimed: check,  *)
(* send, mark.  Every statement is a commit of its own, and both workers   *)
(* run at the same time; the claim, an UPDATE over rows taken with FOR     *)
(* UPDATE SKIP LOCKED, is what keeps them apart.  A run works on snapshots:*)
(* the candidates it read at its start and the rows as they were claimed.  *)
(***************************************************************************)
EXTENDS FollowupPlan

CONSTANTS
    Leads,          \* phone numbers with recent commercial events
    Stages,         \* FollowupStage
    Workers,        \* uvicorn workers, each with its own scheduler
    SignalChoices,  \* what a lead's persisted events may say
    MaxChanges,     \* bound: changes of a lead's signals or stage
    MaxFaults       \* bound: database errors, lost answers and crashes

ASSUME FollowupAssumption ==
    /\ IsFiniteSet(Workers)
    /\ SignalChoices \subseteq Signals /\ SignalChoices # {}
    /\ MaxChanges \in Nat /\ MaxFaults \in Nat

VARIABLES
    signals,    \* signals[l]: what the persisted events of l say now
    stage,      \* stage[l]: the stage the open order of l puts it in
    optedOut,   \* leads with opt_out_at
    row,        \* row[r]: a row of commercial_followups
    step,       \* step[w]: where worker w's run stands
    candidates, \* candidates[w]: candidates it has still to schedule
    claims,     \* claims[w]: rows it has claimed and not finished
    hand,       \* hand[w]: the candidate or claim it is working on
    refused,    \* refused[w]: leads this run barred for medical risk
    copies,     \* copies[r][n]: times contact n of r reached the lead
    late,       \* late[l]: messages that reached l after its opt-out
    changes, faults,
    disturbed,  \* rows barred while a run held them or had left them claimed
    tainted     \* rows that a fault may have cost a check, a mark or an answer

leadVars == <<signals, stage, optedOut, changes>>
runVars == <<step, candidates, claims, hand, refused>>
sentVars == <<copies, late>>
faultVars == <<faults, tainted>>
vars == <<leadVars, row, runVars, sentVars, disturbed, faultVars>>

Rows == Leads \X Stages
Contacts == 1 .. 5
RowStatus == {"none", "scheduled", "sending", "completed", "blocked"}

\* next is next_send_at: NULL, in the future, or past; context the signals that
\* context_messages was written from.
Row == [status : RowStatus, contacts : 0 .. 5, next : {"null", "later", "due"},
        context : SignalChoices]
Candidate == [lead : Leads, stage : Stages, signals : SignalChoices]
Claimed == [row : Rows, contacts : 0 .. 5, context : SignalChoices]

NoContext == CHOOSE s \in SignalChoices : TRUE
NoRow == [status |-> "none", contacts |-> 0, next |-> "null", context |-> NoContext]
Nothing == [nothing |-> TRUE]

Init ==
    /\ signals \in [Leads -> SignalChoices]
    /\ stage \in [Leads -> Stages]
    /\ optedOut = {}
    /\ row = [r \in Rows |-> NoRow]
    /\ step = [w \in Workers |-> "idle"]
    /\ candidates = [w \in Workers |-> {}]
    /\ claims = [w \in Workers |-> {}]
    /\ hand = [w \in Workers |-> Nothing]
    /\ refused = [w \in Workers |-> {}]
    /\ copies = [r \in Rows |-> [n \in Contacts |-> 0]]
    /\ late = [l \in Leads |-> 0]
    /\ changes = 0 /\ faults = 0
    /\ disturbed = {} /\ tainted = {}

NoFault == UNCHANGED faultVars

FaultOn(rs) ==
    /\ faults < MaxFaults
    /\ faults' = faults + 1
    /\ tainted' = tainted \cup rs

Goto(w, s) == step' = [step EXCEPT ![w] = s]

RowsOf(l) == {l} \X Stages

-----------------------------------------------------------------------------
(* The scheduling half of a run: schedule_commercial_followups *)

\* get_followup_candidates: one candidate per lead, with its stage and signals.
Start(w) ==
    /\ step[w] = "idle"
    /\ candidates' = [candidates EXCEPT ![w] =
          {[lead |-> l, stage |-> stage[l], signals |-> signals[l]] : l \in Leads}]
    /\ refused' = [refused EXCEPT ![w] = {}]
    /\ Goto(w, "scheduling")
    /\ NoFault
    /\ UNCHANGED <<leadVars, row, claims, hand, sentVars, disturbed>>

\* A database error gives an empty list, and the run goes on to its claims.
StartBlind(w) ==
    /\ step[w] = "idle"
    /\ refused' = [refused EXCEPT ![w] = {}]
    /\ Goto(w, "scheduling")
    /\ FaultOn({})
    /\ UNCHANGED <<leadVars, row, candidates, claims, hand, sentVars, disturbed>>

TakeCandidate(w, c) ==
    /\ step[w] = "scheduling"
    /\ c \in candidates[w]
    /\ candidates' = [candidates EXCEPT ![w] = @ \ {c}]
    /\ hand' = [hand EXCEPT ![w] = c]
    /\ UNCHANGED <<leadVars, row, claims, refused, sentVars, disturbed>>

\* No contact was sent as far as this check is concerned: contacts_already_sent=0.
\* Before the first contact it makes no difference whether the lead is dry.
Schedulable(m) == Plan(m, 0, FALSE) # {}

CheckCandidate(w, c) ==
    /\ TakeCandidate(w, c)
    /\ IF c.lead \in optedOut \/ ~ Schedulable(c.signals) THEN Goto(w, "barring")
                                                         ELSE Goto(w, "arming")
    /\ NoFault

\* is_followup_opted_out answers False when the database cannot be asked.
CheckCandidateBlind(w, c) ==
    /\ TakeCandidate(w, c)
    /\ c.lead \in optedOut
    /\ Goto(w, IF Schedulable(c.signals) THEN "arming" ELSE "barring")
    /\ FaultOn(RowsOf(c.lead))

\* Wrong: arms a row whatever its status.
ArmAnyRow(w) ==
    LET c == hand[w]
        r == <<c.lead, c.stage>>
    IN  /\ step[w] = "arming"
        /\ row' = [row EXCEPT ![r].status = "scheduled", ![r].next = "later",
                              ![r].context = c.signals]
        /\ hand' = [hand EXCEPT ![w] = Nothing]
        /\ Goto(w, "scheduling")
        /\ NoFault
        /\ UNCHANGED <<leadVars, candidates, claims, refused, sentVars, disturbed>>

\* A new or blocked row becomes scheduled, and so gets a time, as does a row that
\* is scheduled without one before its first contact; any row gets the context.
Armed(q, context) ==
    LET idle == q.status \in {"none", "blocked"}
        timeless == q.status = "scheduled" /\ q.contacts = 0 /\ q.next = "null"
    IN  [q EXCEPT !.status = IF idle THEN "scheduled" ELSE @,
                  !.next = IF idle \/ timeless THEN "later" ELSE @,
                  !.context = context]

\* upsert_scheduled_followup: a claimed row is left alone.
Arm(w) ==
    LET c == hand[w]
        r == <<c.lead, c.stage>>
    IN  /\ step[w] = "arming"
        /\ row' = IF row[r].status = "sending" THEN row
                  ELSE [row EXCEPT ![r] = Armed(@, c.signals)]
        /\ hand' = [hand EXCEPT ![w] = Nothing]
        /\ Goto(w, "scheduling")
        /\ NoFault
        /\ UNCHANGED <<leadVars, candidates, claims, refused, sentVars, disturbed>>

\* upsert_blocked_followup: blocks the row of the candidate's stage, claimed or
\* not.
Bar(w) ==
    LET c == hand[w]
        r == <<c.lead, c.stage>>
    IN  /\ step[w] = "barring"
        /\ row' = [row EXCEPT ![r].status = "blocked", ![r].next = "null",
                              ![r].context = c.signals]
        /\ disturbed' = IF row[r].status = "sending" THEN disturbed \cup {r}
                                                     ELSE disturbed
        /\ refused' = IF c.signals.risk THEN [refused EXCEPT ![w] = @ \cup {c.lead}]
                                        ELSE refused
        /\ hand' = [hand EXCEPT ![w] = Nothing]
        /\ Goto(w, "scheduling")
        /\ NoFault
        /\ UNCHANGED <<leadVars, candidates, claims, sentVars>>

-----------------------------------------------------------------------------
(* The sending half of a run *)

DueRows == {r \in Rows : row[r].status = "scheduled" /\ row[r].next = "due"}

Snapshot(r) == [row |-> r, contacts |-> row[r].contacts, context |-> row[r].context]

\* Wrong: the claim does not change the status.
ClaimWithoutStatus(w) ==
    /\ step[w] = "scheduling" /\ candidates[w] = {}
    /\ claims' = [claims EXCEPT ![w] = {Snapshot(r) : r \in DueRows}]
    /\ Goto(w, IF DueRows = {} THEN "idle" ELSE "sending")
    /\ NoFault
    /\ UNCHANGED <<leadVars, row, candidates, hand, refused, sentVars, disturbed>>

\* claim_due_followups, one statement.  Its LIMIT of 50 rows is not modelled.
Claim(w) ==
    /\ step[w] = "scheduling" /\ candidates[w] = {}
    /\ row' = [r \in Rows |-> IF r \in DueRows THEN [row[r] EXCEPT !.status = "sending"]
                                               ELSE row[r]]
    /\ claims' = [claims EXCEPT ![w] = {Snapshot(r) : r \in DueRows}]
    /\ Goto(w, IF DueRows = {} THEN "idle" ELSE "sending")
    /\ NoFault
    /\ UNCHANGED <<leadVars, candidates, hand, refused, sentVars, disturbed>>

\* The rows are claimed and the answer is lost: the run ends with nothing.
ClaimLost(w) ==
    /\ step[w] = "scheduling" /\ candidates[w] = {}
    /\ row' = [r \in Rows |-> IF r \in DueRows THEN [row[r] EXCEPT !.status = "sending"]
                                               ELSE row[r]]
    /\ Goto(w, "idle")
    /\ FaultOn({})
    /\ UNCHANGED <<leadVars, candidates, claims, hand, refused, sentVars, disturbed>>

TakeClaim(w, c) ==
    /\ step[w] = "sending"
    /\ c \in claims[w]
    /\ hand' = [hand EXCEPT ![w] = c]
    /\ UNCHANGED <<leadVars, row, candidates, claims, refused, sentVars, disturbed>>

Sendable(c) == Plan(c.context, c.contacts, FALSE) # {}

\* Wrong: the opt-out is not asked about again.
CheckPlanOnly(w, c) ==
    /\ TakeClaim(w, c)
    /\ Goto(w, IF Sendable(c) THEN "approved" ELSE "refused")
    /\ NoFault

\* The opt-out is read now; the plan is built from the claimed row.
CheckClaim(w, c) ==
    /\ TakeClaim(w, c)
    /\ Goto(w, IF c.row[1] \notin optedOut /\ Sendable(c) THEN "approved" ELSE "refused")
    /\ NoFault

CheckClaimBlind(w, c) ==
    /\ TakeClaim(w, c)
    /\ c.row[1] \in optedOut
    /\ Goto(w, IF Sendable(c) THEN "approved" ELSE "refused")
    /\ FaultOn(RowsOf(c.row[1]))

\* The run is done with the claim in its hand.
Finish(w) ==
    /\ claims' = [claims EXCEPT ![w] = @ \ {hand[w]}]
    /\ hand' = [hand EXCEPT ![w] = Nothing]
    /\ Goto(w, IF claims[w] = {hand[w]} THEN "idle" ELSE "sending")
    /\ UNCHANGED <<candidates, refused>>

\* mark_followup_blocked, whatever the status of the row is by now.
Refuse(w) ==
    LET r == hand[w].row
    IN  /\ step[w] = "refused"
        /\ row' = [row EXCEPT ![r].status = "blocked", ![r].next = "null"]
        /\ Finish(w)
        /\ NoFault
        /\ UNCHANGED <<leadVars, sentVars, disturbed>>

\* The message reaches the lead.
Deliver(w) ==
    LET r == hand[w].row
        n == FirstContact(hand[w].contacts)
    IN  /\ step[w] = "approved"
        /\ copies' = [copies EXCEPT ![r][n] = @ + 1]
        /\ late' = IF r[1] \in optedOut THEN [late EXCEPT ![r[1]] = @ + 1] ELSE late
        /\ UNCHANGED <<leadVars, row, candidates, claims, hand, refused, disturbed>>

Send(w) == Deliver(w) /\ Goto(w, "delivered") /\ NoFault

\* The tool reports failure: number unknown, warm-up limit, Evolution API down.
SendFails(w) ==
    /\ step[w] = "approved"
    /\ Goto(w, "undelivered")
    /\ NoFault
    /\ UNCHANGED <<leadVars, row, candidates, claims, hand, refused, sentVars, disturbed>>

\* The message goes out and its answer is lost.
SendAnswerLost(w) ==
    /\ Deliver(w)
    /\ Goto(w, "undelivered")
    /\ FaultOn({hand[w].row})

\* mark_followup_sent: UPDATE ... WHERE status = 'sending', with the count and
\* the context of the claimed row.
Mark(w) ==
    LET c == hand[w]
        n == FirstContact(c.contacts)
        more == Plan(c.context, n, FALSE) # {}
    IN  /\ step[w] = "delivered"
        /\ row' = IF row[c.row].status # "sending" THEN row
                  ELSE [row EXCEPT
                          ![c.row].contacts = n,
                          ![c.row].status = IF more THEN "scheduled" ELSE "completed",
                          ![c.row].next = IF more THEN "later" ELSE "null"]
        /\ Finish(w)
        /\ NoFault
        /\ UNCHANGED <<leadVars, sentVars, disturbed>>

\* It raises; the handler around it takes the contact for not sent.
MarkFails(w) ==
    /\ step[w] = "delivered"
    /\ Goto(w, "undelivered")
    /\ FaultOn({hand[w].row})
    /\ UNCHANGED <<leadVars, row, candidates, claims, hand, refused, sentVars, disturbed>>

\* Wrong: a contact that was not delivered is counted.
ReleaseCounting(w) ==
    LET c == hand[w]
    IN  /\ step[w] = "undelivered"
        /\ row' = [row EXCEPT ![c.row].status = "scheduled", ![c.row].next = "later",
                              ![c.row].contacts = FirstContact(c.contacts)]
        /\ Finish(w)
        /\ NoFault
        /\ UNCHANGED <<leadVars, sentVars, disturbed>>

\* Wrong: no time is set for the next try.
ReleaseWithoutRetry(w) ==
    LET r == hand[w].row
    IN  /\ step[w] = "undelivered"
        /\ row' = IF row[r].status # "sending" THEN row
                  ELSE [row EXCEPT ![r].status = "scheduled", ![r].next = "null"]
        /\ Finish(w)
        /\ NoFault
        /\ UNCHANGED <<leadVars, sentVars, disturbed>>

\* release_followup_claim: back to scheduled, half an hour from now.
Release(w) ==
    LET r == hand[w].row
    IN  /\ step[w] = "undelivered"
        /\ row' = IF row[r].status # "sending" THEN row
                  ELSE [row EXCEPT ![r].status = "scheduled", ![r].next = "later"]
        /\ Finish(w)
        /\ NoFault
        /\ UNCHANGED <<leadVars, sentVars, disturbed>>

\* The process dies, or a statement outside the inner handler raises.  What was
\* claimed stays "sending": "Claimed rows stay non-sendable across restart".
Die(w) ==
    /\ step[w] # "idle"
    /\ candidates' = [candidates EXCEPT ![w] = {}]
    /\ claims' = [claims EXCEPT ![w] = {}]
    /\ hand' = [hand EXCEPT ![w] = Nothing]
    /\ Goto(w, "idle")
    /\ FaultOn(IF step[w] = "delivered" THEN {hand[w].row} ELSE {})
    /\ UNCHANGED <<leadVars, row, refused, sentVars, disturbed>>

-----------------------------------------------------------------------------
(* Leads and time *)

\* New events, orders that open or close, events older than the lookback.
SignalsChange(l, m, s) ==
    /\ changes < MaxChanges
    /\ <<m, s>> # <<signals[l], stage[l]>>
    /\ signals' = [signals EXCEPT ![l] = m]
    /\ stage' = [stage EXCEPT ![l] = s]
    /\ changes' = changes + 1
    /\ UNCHANGED <<optedOut, row, runVars, sentVars, disturbed, faultVars>>

\* mark_opt_out.
OptOut(l) ==
    /\ l \notin optedOut
    /\ optedOut' = optedOut \cup {l}
    /\ UNCHANGED <<signals, stage, changes, row, runVars, sentVars, disturbed, faultVars>>

\* next_send_at passes.
TimePasses(r) ==
    /\ row[r].next = "later"
    /\ row' = [row EXCEPT ![r].next = "due"]
    /\ UNCHANGED <<leadVars, runVars, sentVars, disturbed, faultVars>>

-----------------------------------------------------------------------------

\* What a run does by itself, from its start to its end.
RunProceeds(w) ==
    \/ Start(w)
    \/ \E c \in candidates[w] : CheckCandidate(w, c)
    \/ Arm(w) \/ Bar(w)
    \/ Claim(w)
    \/ \E c \in claims[w] : CheckClaim(w, c)
    \/ Refuse(w) \/ Send(w) \/ SendFails(w) \/ Mark(w) \/ Release(w)

RunFaults(w) ==
    \/ StartBlind(w)
    \/ \E c \in candidates[w] : CheckCandidateBlind(w, c)
    \/ ClaimLost(w)
    \/ \E c \in claims[w] : CheckClaimBlind(w, c)
    \/ SendAnswerLost(w) \/ MarkFails(w) \/ Die(w)

Next ==
    \/ \E w \in Workers : RunProceeds(w) \/ RunFaults(w)
    \/ \E l \in Leads :
          \/ OptOut(l)
          \/ \E m \in SignalChoices, s \in Stages : SignalsChange(l, m, s)
    \/ \E r \in Rows : TimePasses(r)

Spec == Init /\ [][Next]_vars

\* The scheduler of each worker starts a run every hour, a started run goes on,
\* and time passes.  No send has to succeed and no lead has to do anything.
Fairness ==
    /\ \A w \in Workers : WF_vars(RunProceeds(w))
    /\ \A r \in Rows : WF_vars(TimePasses(r))

FairSpec == Spec /\ Fairness

-----------------------------------------------------------------------------
(* Properties *)

Holds(w, r) == \E c \in claims[w] : c.row = r

FollowupTypeOK ==
    /\ signals \in [Leads -> SignalChoices] /\ stage \in [Leads -> Stages]
    /\ optedOut \subseteq Leads
    /\ row \in [Rows -> Row]
    /\ step \in [Workers -> {"idle", "scheduling", "arming", "barring", "sending",
                             "refused", "approved", "delivered", "undelivered"}]
    /\ candidates \in [Workers -> SUBSET Candidate]
    /\ claims \in [Workers -> SUBSET Claimed]
    /\ hand \in [Workers -> Candidate \cup Claimed \cup {Nothing}]
    /\ \A w \in Workers :
          /\ step[w] \in {"arming", "barring"} => hand[w] \in Candidate
          /\ step[w] \in {"refused", "approved", "delivered", "undelivered"}
                => hand[w] \in claims[w]
    /\ refused \in [Workers -> SUBSET Leads]
    /\ copies \in [Rows -> [Contacts -> Nat]] /\ late \in [Leads -> Nat]
    /\ changes \in 0 .. MaxChanges /\ faults \in 0 .. MaxFaults
    /\ disturbed \subseteq Rows /\ tainted \subseteq Rows

\* "Atomically claim due rows": as long as no scheduling pass bars a row that is
\* claimed, a claimed row belongs to one run, and what the run read when it
\* claimed is still what the row says, however long the run takes.
ClaimIsExclusive ==
    \A w \in Workers : \A c \in claims[w] :
        c.row \notin disturbed =>
            /\ row[c.row].status = "sending" /\ row[c.row].contacts = c.contacts
            /\ \A v \in Workers \ {w} : ~ Holds(v, c.row)

\* Contact n of row r has reached the lead and its run is about to mark it.
AboutToMark(r, n) ==
    \E w \in Workers : /\ step[w] = "delivered"
                       /\ hand[w].row = r /\ n = FirstContact(hand[w].contacts)

\* "Process restarts do not duplicate sends": on a row that was not barred while
\* claimed and that no fault cost an answer or a mark, each contact reaches the
\* lead once, and the count in the row is the number that did, apart from the one
\* its run is about to mark.
ContactSentOnce ==
    \A r \in Rows \ (disturbed \cup tainted) : \A n \in Contacts :
        copies[r][n] = IF n <= row[r].contacts \/ AboutToMark(r, n) THEN 1 ELSE 0

\* Even with faults and rows barred at the wrong moment, no contact is skipped:
\* a contact counted in the row, or before one that went out, has gone out.
NoContactSkipped ==
    \A r \in Rows : \A n \in Contacts :
        n <= row[r].contacts \/ (\E m \in Contacts : m > n /\ copies[r][m] > 0)
            => copies[r][n] > 0

\* Row r as ContactSeries sees it.
TicketOf(r) ==
    IF r \in disturbed \cup tainted
    THEN [state |-> "spoiled", holders |-> {}, copies |-> [n \in Contacts |-> 0]]
    ELSE [state |-> IF row[r].status # "sending" THEN "idle"
                    ELSE IF \A w \in Workers : ~ Holds(w, r) THEN "stranded"
                    ELSE IF \E n \in Contacts : AboutToMark(r, n) THEN "used"
                    ELSE "taken",
          holders |-> {w \in Workers : Holds(w, r)},
          copies |-> copies[r]]

seriesOf == [r \in Rows |-> TicketOf(r)]

Series == INSTANCE ContactSeries WITH series <- seriesOf

\* Whatever two runs do to each other, on a row that was not barred while claimed
\* and that no fault cost an answer or a mark they keep the promise of
\* ContactSeries: contacts 1, 2, 3, ... each once and in turn, every one out of a
\* claim of its own, and none any more once a claim was lost.
ImplementsSeries == Series!SeriesSpec

\* "Opt-out blocks 100% of sends" holds up to the messages on their way: after a
\* lead opts out each worker delivers at most the one it had checked before,
\* unless a check found the database down.
OptOutStopsSends ==
    \A l \in Leads :
        RowsOf(l) \cap tainted = {} => late[l] <= Cardinality(Workers)

\* A scheduled row is taken up in the end, by a run of some worker, whatever
\* becomes of the others.
ScheduledIsTakenUp ==
    \A r \in Rows : row[r].status = "scheduled" ~> row[r].status # "scheduled"

\* "Medical risk detected by the persisted signals ... blocks 100%" (spec of the
\* follow-up engine): a run that has just barred a lead for medical risk sends it
\* nothing.
RiskIsNotContacted ==
    [][\A w \in Workers :
          step[w] = "approved" /\ step'[w] = "delivered"
              => hand[w].row[1] \notin refused[w]]_vars

=============================================================================
