----------------------------- MODULE LeadMemory -----------------------------
(***************************************************************************)
(* A message of a lead from the webhook to the answer                      *)
(* (api/routes/webhook.py, ZWAFTeam.process), and what the system keeps    *)
(* about the lead afterwards: the opt-out, and the summary of the          *)
(* conversation, which holds health data (memory/lead_store.py,            *)
(* memory/lead_memory.py).                                                 *)
(*                                                                         *)
(* Each message is a task of its own, nothing orders the tasks of a lead,  *)
(* and the summary is written by a further task after the answer.  A step  *)
(* is a committed statement, a Redis call or the wait for a model.         *)
(***************************************************************************)
EXTENDS Naturals

CONSTANTS
    Workers,
    Leads,
    Tasks,          \* tasks of the webhook: <<worker, slot>>
    Throttle,       \* throttle_turns: answers per summary
    MaxInbound,     \* bound: messages of a behaviour
    MaxFaults       \* bound: faults of any kind

ASSUME MemoryAssumption ==
    /\ Leads # {}
    /\ \A c \in Tasks : c[1] \in Workers
    /\ Throttle \in Nat \ {0}
    /\ MaxInbound \in Nat /\ MaxFaults \in Nat

VARIABLES
    enabled,    \* lead_memory.enabled of the tenant
    keyed,      \* can_encrypt_pii: health data can be stored at all
    optedOut,   \* leads with lead_profiles.opt_out_at
    lead,       \* lead[l]: the row of leads
    summaryTurns,   \* summaryTurns[l]: the counter in Redis
    chat,       \* leads with a transcript at the agent's store
    task,       \* task[c]: what task c is doing
    inbound,
    faults,
    \* what the properties speak of
    resummarised,   \* leads summarised since their last purge
    unpurged        \* opted-out leads whose purge failed

memoryVars == <<enabled, keyed, optedOut, lead, summaryTurns, chat, task,
                inbound, faults, resummarised, unpurged>>

\* What a summary is made of: encrypted fields and fields in clear.
Facts == {"health", "commercial"}

\* dated: memory_updated_at, against the retention of 24 months.
Lead == [facts : SUBSET Facts, dated : {"never", "recent", "old"},
         stored : BOOLEAN, optOut : BOOLEAN]
NoLead == [facts |-> {}, dated |-> "never", stored |-> FALSE, optOut |-> FALSE]

\* A message the guard blocks, one that asks to be left alone, one the
\* checkout answers and one an agent answers.
MessageKinds == {"blocked", "stop", "checkout", "agent"}
Task == [pc : {"idle", "process", "purge", "respond", "bump", "reset",
               "summarise", "write"},
         who : Leads, what : MessageKinds, spoken : BOOLEAN, found : SUBSET Facts]
NoTask == [pc |-> "idle", who |-> CHOOSE l \in Leads : TRUE, what |-> "agent",
           spoken |-> FALSE, found |-> {}]

MemoryInit ==
    /\ enabled \in BOOLEAN /\ keyed \in BOOLEAN
    /\ optedOut = {}
    /\ lead = [l \in Leads |-> NoLead]
    /\ summaryTurns = [l \in Leads |-> 0]
    /\ chat = {}
    /\ task = [c \in Tasks |-> NoTask]
    /\ inbound = 0 /\ faults = 0
    /\ resummarised = {} /\ unpurged = {}

-----------------------------------------------------------------------------
(* The webhook *)

Doing(c, pc) == task[c].pc = pc
Who(c) == task[c].who
Goto(c, pc) == task' = [task EXCEPT ![c].pc = pc]
Drop(c) == task' = [task EXCEPT ![c] = NoTask]

Slip(happens) ==
    /\ happens => faults < MaxFaults
    /\ faults' = IF happens THEN faults + 1 ELSE faults

\* receive_webhook: a text starts a task, an audio is awaited; what is neither,
\* is of another instance or from the number itself starts nothing.
receive_webhook(c, l, what, spoken) ==
    /\ Doing(c, "idle") /\ inbound < MaxInbound
    /\ inbound' = inbound + 1
    /\ task' = [task EXCEPT ![c] = [NoTask EXCEPT !.pc = "process", !.who = l,
                                                  !.what = what, !.spoken = spoken]]
    /\ UNCHANGED <<enabled, keyed, optedOut, lead, summaryTurns, chat, faults,
                   resummarised, unpurged>>

\* The audio cannot be loaded or transcribed: a fallback text, and no turn.
TranscriptionFails(c) ==
    /\ Doing(c, "process") /\ task[c].spoken
    /\ Drop(c)
    /\ UNCHANGED <<enabled, keyed, optedOut, lead, summaryTurns, chat, inbound,
                   faults, resummarised, unpurged>>

\* process: guard, opt-out, checkout, agent, in this order.  Only the agent
\* keeps a transcript.
process(c) ==
    /\ Doing(c, "process") /\ task[c].what # "stop"
    /\ Goto(c, "respond")
    /\ chat' = IF task[c].what = "agent" THEN chat \cup {Who(c)} ELSE chat
    /\ UNCHANGED <<enabled, keyed, optedOut, lead, summaryTurns, inbound, faults,
                   resummarised, unpurged>>

\* mark_opt_out: two statements, committed one by one, errors swallowed.
mark_opt_out(c, fails) ==
    /\ Doing(c, "process") /\ task[c].what = "stop"
    /\ Slip(fails)
    /\ IF fails THEN optedOut' = optedOut /\ Goto(c, "respond")
                ELSE optedOut' = optedOut \cup {Who(c)} /\ Goto(c, "purge")
    /\ UNCHANGED <<enabled, keyed, lead, summaryTurns, chat, inbound,
                   resummarised, unpurged>>

\* Wrong: the purge forgets the encrypted columns only.
PurgedHealth(row) == [row EXCEPT !.facts = @ \ {"health"}, !.optOut = row.stored \/ @]

Purged(row) == [row EXCEPT !.facts = {}, !.optOut = row.stored \/ @]

PurgeMemory(c, fails) ==
    LET l == Who(c) IN
    /\ Doing(c, "purge")
    /\ Slip(fails)
    /\ Goto(c, "respond")
    /\ IF fails
       THEN /\ unpurged' = unpurged \cup {l}
            /\ UNCHANGED <<lead, resummarised>>
       ELSE /\ lead' = [lead EXCEPT ![l] = Purged(@)]
            /\ unpurged' = unpurged \ {l}
            /\ resummarised' = resummarised \ {l}
    /\ UNCHANGED <<enabled, keyed, optedOut, summaryTurns, chat, inbound>>

\* send_response.  The summary is for texts that neither the guard nor the
\* opt-out answered, and whose answer was sent.
respond(c, fails) ==
    LET summarised == /\ ~task[c].spoken /\ ~fails
                      /\ task[c].what \notin {"blocked", "stop"}
    IN
    /\ Doing(c, "respond")
    /\ Slip(fails)
    /\ IF summarised THEN Goto(c, "bump") ELSE Drop(c)
    /\ UNCHANGED <<enabled, keyed, optedOut, lead, summaryTurns, chat, inbound,
                   resummarised, unpurged>>

-----------------------------------------------------------------------------
(* maybe_update_lead_memory *)

\* Redis away: the counter reads 0 and there is no summary.
bump_summary_counter(c, fails) ==
    LET l == Who(c)
        count == IF fails THEN 0 ELSE summaryTurns[l] + 1
    IN
    /\ Doing(c, "bump")
    /\ fails => enabled
    /\ Slip(fails)
    /\ summaryTurns' = [summaryTurns EXCEPT ![l] =
                          IF enabled /\ ~fails THEN count ELSE @]
    /\ IF enabled /\ count >= Throttle THEN Goto(c, "reset") ELSE Drop(c)
    /\ UNCHANGED <<enabled, keyed, optedOut, lead, chat, inbound,
                   resummarised, unpurged>>

reset_summary_counter(c, fails) ==
    /\ Doing(c, "reset")
    /\ Slip(fails)
    /\ summaryTurns' = IF fails THEN summaryTurns
                       ELSE [summaryTurns EXCEPT ![Who(c)] = 0]
    /\ Goto(c, "summarise")
    /\ UNCHANGED <<enabled, keyed, optedOut, lead, chat, inbound,
                   resummarised, unpurged>>

\* The transcript is read and the model asked; it may find nothing, or fail.
Summarise(c, found) ==
    /\ Doing(c, "summarise")
    /\ found # {} => Who(c) \in chat
    /\ IF found = {} THEN Drop(c)
       ELSE task' = [task EXCEPT ![c].pc = "write", ![c].found = found]
    /\ UNCHANGED <<enabled, keyed, optedOut, lead, summaryTurns, chat, inbound,
                   faults, resummarised, unpurged>>

\* What was not found stays as it is (COALESCE).
Remembering(row, found) ==
    [row EXCEPT !.facts = @ \cup found, !.dated = "recent", !.stored = TRUE]

\* Wrong: without a key the health data is stored all the same.
upsert_without_key(c, fails) ==
    LET l == Who(c) IN
    /\ Doing(c, "write")
    /\ Slip(fails)
    /\ Drop(c)
    /\ IF fails
       THEN UNCHANGED <<lead, resummarised>>
       ELSE /\ lead' = [lead EXCEPT ![l] = Remembering(@, task[c].found)]
            /\ resummarised' = resummarised \cup {l}
    /\ UNCHANGED <<enabled, keyed, optedOut, summaryTurns, chat, inbound, unpurged>>

\* Health data only with a key.  Whether the lead wants to be remembered is not
\* asked.
upsert_lead_memory(c, fails) ==
    LET l == Who(c)
        written == task[c].found \ (IF keyed THEN {} ELSE {"health"})
    IN
    /\ Doing(c, "write")
    /\ Slip(fails)
    /\ Drop(c)
    /\ IF fails
       THEN UNCHANGED <<lead, resummarised>>
       ELSE /\ lead' = [lead EXCEPT ![l] = Remembering(@, written)]
            /\ resummarised' = resummarised \cup {l}
    /\ UNCHANGED <<enabled, keyed, optedOut, summaryTurns, chat, inbound, unpurged>>

-----------------------------------------------------------------------------
(* Retention, the clock and death *)

\* LeadMemoryRetentionScheduler._purge, once a day.
purge_expired_memory ==
    LET expired == {l \in Leads : lead[l].dated = "old" /\ lead[l].facts # {}} IN
    /\ expired # {}
    /\ lead' = [l \in Leads |-> IF l \in expired THEN [lead[l] EXCEPT !.facts = {}]
                                ELSE lead[l]]
    /\ UNCHANGED <<enabled, keyed, optedOut, summaryTurns, chat, task, inbound,
                   faults, resummarised, unpurged>>

\* Two years without a summary; the counter in Redis lives a day.
MonthsPass(l) ==
    /\ \A c \in Tasks : Doing(c, "idle")
    /\ lead[l].dated = "recent"
    /\ lead' = [lead EXCEPT ![l].dated = "old"]
    /\ summaryTurns' = [summaryTurns EXCEPT ![l] = 0]
    /\ UNCHANGED <<enabled, keyed, optedOut, chat, task, inbound, faults,
                   resummarised, unpurged>>

WorkerDies(w) ==
    LET gone == {c \in Tasks : c[1] = w} IN
    /\ \E c \in gone : ~Doing(c, "idle")
    /\ Slip(TRUE)
    /\ task' = [c \in Tasks |-> IF c \in gone THEN NoTask ELSE task[c]]
    /\ unpurged' = unpurged \cup {Who(c) : c \in {d \in gone : Doing(d, "purge")}}
    /\ UNCHANGED <<enabled, keyed, optedOut, lead, summaryTurns, chat, inbound,
                   resummarised>>

TaskStep(c, fails) ==
    \/ mark_opt_out(c, fails)
    \/ PurgeMemory(c, fails)
    \/ respond(c, fails)
    \/ bump_summary_counter(c, fails)
    \/ reset_summary_counter(c, fails)
    \/ upsert_lead_memory(c, fails)

MemoryNext ==
    \/ \E c \in Tasks, l \in Leads, what \in MessageKinds, spoken \in BOOLEAN :
          receive_webhook(c, l, what, spoken)
    \/ \E c \in Tasks : TranscriptionFails(c) \/ process(c)
    \/ \E c \in Tasks, fails \in BOOLEAN : TaskStep(c, fails)
    \/ \E c \in Tasks, found \in SUBSET Facts : Summarise(c, found)
    \/ purge_expired_memory
    \/ \E l \in Leads : MonthsPass(l)
    \/ \E w \in Workers : WorkerDies(w)

MemorySpec == MemoryInit /\ [][MemoryNext]_memoryVars

-----------------------------------------------------------------------------
(* Properties *)

\* Rows, counters and tasks are in states the code knows; a row with facts is
\* dated, and health data is stored only where it can be encrypted.
MemoryTypeOK ==
    /\ enabled \in BOOLEAN /\ keyed \in BOOLEAN
    /\ optedOut \subseteq Leads /\ chat \subseteq Leads
    /\ resummarised \subseteq Leads /\ unpurged \subseteq Leads
    /\ lead \in [Leads -> Lead]
    /\ \A l \in Leads :
          /\ lead[l].facts # {} => lead[l].dated # "never"
          /\ "health" \in lead[l].facts => keyed
    /\ summaryTurns \in [Leads -> Nat]
    /\ task \in [Tasks -> Task]
    /\ inbound \in 0 .. MaxInbound /\ faults \in 0 .. MaxFaults

\* mark_opt_out forgets: nothing is remembered of a lead that opted out, but
\* while the purge is under way, when it failed, or after a summary written
\* later, by a task that began before or by a new message of the lead.
OptOutPurgesMemory ==
    \A l \in optedOut \ (resummarised \cup unpurged) :
        \/ lead[l].facts = {}
        \/ \E c \in Tasks : Doing(c, "purge") /\ Who(c) = l

\* "nao resumir quem foi bloqueado ou pediu para sair" (webhook.py): nothing is
\* added to what is remembered of a lead that has opted out.
OptedOutIsNotSummarised ==
    [][\A l \in optedOut : lead'[l].facts \subseteq lead[l].facts]_memoryVars
=============================================================================
