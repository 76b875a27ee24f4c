-------------------------- MODULE LeadMemoryProofs --------------------------
(***************************************************************************)
(* What the opt-out guarantees about the memory of a lead, for any number  *)
(* of workers, leads, tasks, messages and faults.                          *)
(***************************************************************************)
EXTENDS LeadMemory, TLAPS

-----------------------------------------------------------------------------
(* Types *)

LEMMA NoTaskTyped == NoTask \in Task /\ NoTask.pc = "idle"
BY MemoryAssumption DEF NoTask, Task, MessageKinds

LEMMA NoLeadTyped == NoLead \in Lead /\ NoLead.facts = {}
BY DEF NoLead, Lead

LEMMA SlipTyped ==
    ASSUME MemoryTypeOK, NEW happens \in BOOLEAN, Slip(happens)
    PROVE  faults' \in 0 .. MaxFaults
<1>1. CASE happens
  BY <1>1, MemoryAssumption DEF Slip, MemoryTypeOK
<1>2. CASE ~happens
  BY <1>2 DEF Slip, MemoryTypeOK
<1> QED
  BY <1>1, <1>2

\* A task that moves on keeps its message; the other tasks keep all.
LEMMA GotoTyped ==
    ASSUME MemoryTypeOK, NEW c \in Tasks,
           NEW pc \in {"idle", "process", "purge", "respond", "bump", "reset",
                       "summarise", "write"},
           Goto(c, pc)
    PROVE  /\ task' \in [Tasks -> Task]
           /\ task'[c].pc = pc /\ task'[c].who = task[c].who
           /\ \A d \in Tasks \ {c} : task'[d] = task[d]
<1>1. task[c] \in Task
  BY DEF MemoryTypeOK
<1>2. [task[c] EXCEPT !.pc = pc] \in Task
  BY <1>1 DEF Task
<1>3. task' = [task EXCEPT ![c] = [task[c] EXCEPT !.pc = pc]]
  BY DEF Goto, MemoryTypeOK
<1> QED
  BY <1>1, <1>2, <1>3 DEF MemoryTypeOK, Task

LEMMA DropTyped ==
    ASSUME MemoryTypeOK, NEW c \in Tasks, Drop(c)
    PROVE  /\ task' \in [Tasks -> Task] /\ task'[c].pc = "idle"
           /\ \A d \in Tasks \ {c} : task'[d] = task[d]
BY NoTaskTyped DEF Drop, MemoryTypeOK

\* A lead whose row loses facts, or gains facts with a date and a key for
\* health data, leaves the rows well typed.
LEMMA RowWritten ==
    ASSUME MemoryTypeOK, NEW l \in Leads, NEW r \in Lead,
           r.facts # {} => r.dated # "never", "health" \in r.facts => keyed,
           lead' = [lead EXCEPT ![l] = r], keyed' = keyed
    PROVE  /\ lead' \in [Leads -> Lead]
           /\ \A m \in Leads :
                 /\ lead'[m].facts # {} => lead'[m].dated # "never"
                 /\ "health" \in lead'[m].facts => keyed'
BY DEF MemoryTypeOK

-----------------------------------------------------------------------------
(* One lemma per action: types, and what is left of an opted-out lead *)

MemoryInv == MemoryTypeOK /\ OptOutPurgesMemory

LEMMA MemoryInitInv == MemoryInit => MemoryInv
<1> SUFFICES ASSUME MemoryInit PROVE MemoryInv
  OBVIOUS
<1>1. MemoryTypeOK
  BY NoTaskTyped, NoLeadTyped, MemoryAssumption DEF MemoryInit, MemoryTypeOK
<1> QED
  BY <1>1 DEF MemoryInit, MemoryInv, OptOutPurgesMemory

\* Nothing is forgotten or remembered, nobody opts out, no purge ends.
LEMMA PurgeKept ==
    ASSUME MemoryInv,
           \A c \in Tasks : Doing(c, "purge") => task'[c] = task[c],
           \A l \in Leads : lead'[l].facts \subseteq lead[l].facts,
           optedOut' = optedOut, resummarised \subseteq resummarised',
           unpurged \subseteq unpurged'
    PROVE  OptOutPurgesMemory'
<1> SUFFICES ASSUME NEW l \in optedOut \ (resummarised' \cup unpurged')
             PROVE  \/ lead'[l].facts = {}
                    \/ \E c \in Tasks : task'[c].pc = "purge" /\ task'[c].who = l
  BY DEF OptOutPurgesMemory, Doing, Who
<1>1. l \in Leads /\ l \in optedOut \ (resummarised \cup unpurged)
  BY DEF MemoryInv, MemoryTypeOK
<1>2. CASE lead[l].facts = {}
  BY <1>1, <1>2
<1>3. ASSUME NEW c \in Tasks, Doing(c, "purge"), Who(c) = l
      PROVE  task'[c].pc = "purge" /\ task'[c].who = l
  BY <1>3 DEF Doing, Who
<1> QED
  BY <1>1, <1>2, <1>3 DEF MemoryInv, OptOutPurgesMemory

\* The steps of a task that touch none of this: only its own place changes, and
\* it is not in a purge.
LEMMA TaskMoves ==
    ASSUME MemoryInv, NEW c \in Tasks, ~Doing(c, "purge"),
           task' \in [Tasks -> Task], \A d \in Tasks \ {c} : task'[d] = task[d],
           UNCHANGED <<enabled, keyed, optedOut, lead, resummarised, unpurged>>,
           chat' \subseteq Leads, summaryTurns' \in [Leads -> Nat],
           inbound' \in 0 .. MaxInbound, faults' \in 0 .. MaxFaults
    PROVE  MemoryInv'
<1>1. MemoryTypeOK'
  BY DEF MemoryInv, MemoryTypeOK
<1>2. \A d \in Tasks : Doing(d, "purge") => task'[d] = task[d]
  OBVIOUS
<1>3. OptOutPurgesMemory'
  BY <1>2, PurgeKept
<1> QED
  BY <1>1, <1>3 DEF MemoryInv

LEMMA WebhookInv ==
    ASSUME MemoryInv, NEW c \in Tasks, NEW l \in Leads, NEW what \in MessageKinds,
           NEW spoken \in BOOLEAN, receive_webhook(c, l, what, spoken)
    PROVE  MemoryInv'
<1> DEFINE t == [NoTask EXCEPT !.pc = "process", !.who = l, !.what = what, !.spoken = spoken]
<1>1. t \in Task
  BY NoTaskTyped DEF Task
<1>2. task' = [task EXCEPT ![c] = t] /\ ~Doing(c, "purge")
  BY DEF receive_webhook, Doing
<1>3. task' \in [Tasks -> Task] /\ \A d \in Tasks \ {c} : task'[d] = task[d]
  BY <1>1, <1>2 DEF MemoryInv, MemoryTypeOK
<1>4. inbound' \in 0 .. MaxInbound
  BY MemoryAssumption DEF receive_webhook, MemoryInv, MemoryTypeOK
<1> QED
  BY <1>2, <1>3, <1>4, TaskMoves DEF receive_webhook, MemoryInv, MemoryTypeOK

LEMMA TranscriptionInv ==
    ASSUME MemoryInv, NEW c \in Tasks, TranscriptionFails(c)
    PROVE  MemoryInv'
BY DropTyped, TaskMoves DEF TranscriptionFails, Doing, MemoryInv, MemoryTypeOK

LEMMA ProcessInv ==
    ASSUME MemoryInv, NEW c \in Tasks, process(c)
    PROVE  MemoryInv'
<1>1. task[c].who \in Leads
  BY DEF MemoryInv, MemoryTypeOK, Task
<1>2. chat' \subseteq Leads
  BY <1>1 DEF process, Who, MemoryInv, MemoryTypeOK
<1> QED
  BY <1>2, GotoTyped, TaskMoves DEF process, Doing, MemoryInv, MemoryTypeOK

\* The opt-out is recorded together with the intention to purge.
LEMMA OptOutInv ==
    ASSUME MemoryInv, NEW c \in Tasks, NEW fails \in BOOLEAN, mark_opt_out(c, fails)
    PROVE  MemoryInv'
<1>t. MemoryTypeOK /\ OptOutPurgesMemory
  BY DEF MemoryInv
<1>f. faults' \in 0 .. MaxFaults
  BY <1>t, SlipTyped DEF mark_opt_out
<1>1. CASE fails
  BY <1>1, <1>t, <1>f, GotoTyped, TaskMoves DEF mark_opt_out, Doing, MemoryTypeOK
<1>2. CASE ~fails
  <2>1. optedOut' = optedOut \cup {task[c].who} /\ Goto(c, "purge")
    BY <1>2 DEF mark_opt_out, Who
  <2>2. /\ task' \in [Tasks -> Task]
        /\ task'[c].pc = "purge" /\ task'[c].who = task[c].who
        /\ \A d \in Tasks \ {c} : task'[d] = task[d]
    BY <1>t, <2>1, GotoTyped
  <2>3. task[c].who \in Leads
    BY <1>t DEF MemoryTypeOK, Task
  <2>4. MemoryTypeOK'
    BY <1>t, <1>f, <2>1, <2>2, <2>3 DEF mark_opt_out, MemoryTypeOK
  <2>5. ASSUME NEW l \in optedOut' \ (resummarised' \cup unpurged')
        PROVE  \/ lead'[l].facts = {}
               \/ \E d \in Tasks : task'[d].pc = "purge" /\ task'[d].who = l
    <3>1. CASE l = task[c].who
      BY <2>2, <3>1
    <3>2. CASE l # task[c].who
      <4>1. l \in optedOut \ (resummarised \cup unpurged)
        BY <2>1, <3>2 DEF mark_opt_out
      <4>2. ~Doing(c, "purge") /\ lead' = lead
        BY DEF mark_opt_out, Doing
      <4> QED
        BY <1>t, <2>2, <4>1, <4>2 DEF OptOutPurgesMemory, Doing, Who
    <3> QED
      BY <3>1, <3>2
  <2> QED
    BY <2>4, <2>5 DEF MemoryInv, OptOutPurgesMemory, Doing, Who
<1> QED
  BY <1>1, <1>2

\* The purge empties the row, or its failure is remembered.
LEMMA PurgeInv ==
    ASSUME MemoryInv, NEW c \in Tasks, NEW fails \in BOOLEAN, PurgeMemory(c, fails)
    PROVE  MemoryInv'
<1>t. MemoryTypeOK /\ OptOutPurgesMemory
  BY DEF MemoryInv
<1>f. faults' \in 0 .. MaxFaults
  BY <1>t, SlipTyped DEF PurgeMemory
<1> DEFINE l0 == task[c].who
<1>1. l0 \in Leads /\ lead[l0] \in Lead
  BY <1>t DEF MemoryTypeOK, Task
<1>2. /\ task' \in [Tasks -> Task]
      /\ \A d \in Tasks \ {c} : task'[d] = task[d]
  BY <1>t, GotoTyped DEF PurgeMemory
<1>3. /\ lead' \in [Leads -> Lead]
      /\ \A m \in Leads : /\ lead'[m].facts # {} => lead'[m].dated # "never"
                          /\ "health" \in lead'[m].facts => keyed'
      /\ \A m \in Leads \ {l0} : lead'[m] = lead[m]
      /\ fails \/ lead'[l0].facts = {}
  <2>1. CASE fails
    BY <2>1, <1>t DEF PurgeMemory, MemoryTypeOK
  <2>2. CASE ~fails
    <3>1. lead' = [lead EXCEPT ![l0] = Purged(lead[l0])] /\ keyed' = keyed
      BY <2>2, <1>t, <1>1 DEF PurgeMemory, Who, MemoryTypeOK
    <3>2. Purged(lead[l0]) \in Lead /\ Purged(lead[l0]).facts = {}
      BY <1>1 DEF Purged, Lead
    <3> QED
      BY <1>t, <1>1, <3>1, <3>2, RowWritten DEF MemoryTypeOK
  <2> QED
    BY <2>1, <2>2
<1>4. MemoryTypeOK'
  BY <1>t, <1>f, <1>1, <1>2, <1>3 DEF PurgeMemory, Who, MemoryTypeOK
<1>5. ASSUME NEW l \in optedOut' \ (resummarised' \cup unpurged')
      PROVE  \/ lead'[l].facts = {}
             \/ \E d \in Tasks : task'[d].pc = "purge" /\ task'[d].who = l
  <2>1. CASE l = l0
    BY <1>3, <1>5, <2>1 DEF PurgeMemory, Who
  <2>2. CASE l # l0
    <3>1. l \in optedOut \ (resummarised \cup unpurged) /\ l \in Leads
      BY <1>t, <1>5, <2>2 DEF PurgeMemory, Who, MemoryTypeOK
    <3> QED
      BY <1>t, <1>2, <1>3, <2>2, <3>1 DEF OptOutPurgesMemory, Doing, Who
  <2> QED
    BY <2>1, <2>2
<1> QED
  BY <1>4, <1>5 DEF MemoryInv, OptOutPurgesMemory, Doing, Who

LEMMA RespondInv ==
    ASSUME MemoryInv, NEW c \in Tasks, NEW fails \in BOOLEAN, respond(c, fails)
    PROVE  MemoryInv'
<1>1. faults' \in 0 .. MaxFaults
  BY SlipTyped DEF respond, MemoryInv
<1>2. Goto(c, "bump") \/ Drop(c)
  BY DEF respond
<1>3. task' \in [Tasks -> Task] /\ \A d \in Tasks \ {c} : task'[d] = task[d]
  BY <1>2, GotoTyped, DropTyped DEF MemoryInv
<1> QED
  BY <1>1, <1>3, TaskMoves DEF respond, Doing, MemoryInv, MemoryTypeOK

LEMMA BumpInv ==
    ASSUME MemoryInv, NEW c \in Tasks, NEW fails \in BOOLEAN, bump_summary_counter(c, fails)
    PROVE  MemoryInv'
<1>1. faults' \in 0 .. MaxFaults
  BY SlipTyped DEF bump_summary_counter, MemoryInv
<1>2. Goto(c, "reset") \/ Drop(c)
  BY DEF bump_summary_counter
<1>3. task' \in [Tasks -> Task] /\ \A d \in Tasks \ {c} : task'[d] = task[d]
  BY <1>2, GotoTyped, DropTyped DEF MemoryInv
<1>4. task[c].who \in Leads
  BY DEF MemoryInv, MemoryTypeOK, Task
<1>5. summaryTurns' \in [Leads -> Nat]
  BY <1>4 DEF bump_summary_counter, Who, MemoryInv, MemoryTypeOK
<1> QED
  BY <1>1, <1>3, <1>5, TaskMoves DEF bump_summary_counter, Doing, MemoryInv, MemoryTypeOK

LEMMA ResetInv ==
    ASSUME MemoryInv, NEW c \in Tasks, NEW fails \in BOOLEAN, reset_summary_counter(c, fails)
    PROVE  MemoryInv'
<1>1. faults' \in 0 .. MaxFaults
  BY SlipTyped DEF reset_summary_counter, MemoryInv
<1>2. task' \in [Tasks -> Task] /\ \A d \in Tasks \ {c} : task'[d] = task[d]
  BY GotoTyped DEF reset_summary_counter, MemoryInv
<1>3. summaryTurns' \in [Leads -> Nat]
  BY DEF reset_summary_counter, MemoryInv, MemoryTypeOK
<1> QED
  BY <1>1, <1>2, <1>3, TaskMoves DEF reset_summary_counter, Doing, MemoryInv, MemoryTypeOK

LEMMA SummariseInv ==
    ASSUME MemoryInv, NEW c \in Tasks, NEW found \in SUBSET Facts, Summarise(c, found)
    PROVE  MemoryInv'
<1>1. task[c] \in Task
  BY DEF MemoryInv, MemoryTypeOK
<1>2. task' \in [Tasks -> Task] /\ \A d \in Tasks \ {c} : task'[d] = task[d]
  <2>1. CASE found = {}
    BY <2>1, DropTyped DEF Summarise, MemoryInv
  <2>2. CASE found # {}
    <3>1. PICK t \in Task : t = [task[c] EXCEPT !.pc = "write", !.found = found]
      BY <1>1 DEF Task
    <3>2. task' = [task EXCEPT ![c] = t]
      BY <2>2, <3>1 DEF Summarise, MemoryInv, MemoryTypeOK
    <3> QED
      BY <3>2 DEF MemoryInv, MemoryTypeOK
  <2> QED
    BY <2>1, <2>2
<1> QED
  BY <1>2, TaskMoves DEF Summarise, Doing, MemoryInv, MemoryTypeOK

\* A summary is remembered as such, and dates what it adds.
LEMMA UpsertInv ==
    ASSUME MemoryInv, NEW c \in Tasks, NEW fails \in BOOLEAN, upsert_lead_memory(c, fails)
    PROVE  MemoryInv'
<1>t. MemoryTypeOK /\ OptOutPurgesMemory
  BY DEF MemoryInv
<1>1. faults' \in 0 .. MaxFaults
  BY <1>t, SlipTyped DEF upsert_lead_memory
<1>2. task' \in [Tasks -> Task] /\ \A d \in Tasks \ {c} : task'[d] = task[d]
  BY <1>t, DropTyped DEF upsert_lead_memory
<1>3. CASE fails
  BY <1>1, <1>2, <1>3, <1>t, TaskMoves DEF upsert_lead_memory, Doing, MemoryTypeOK
<1>4. CASE ~fails
  <2> DEFINE l0 == task[c].who
             written == task[c].found \ (IF keyed THEN {} ELSE {"health"})
             r == Remembering(lead[l0], written)
  <2>1. l0 \in Leads /\ lead[l0] \in Lead /\ written \subseteq Facts
    BY <1>t DEF MemoryTypeOK, Task
  <2>2. r \in Lead /\ r.dated = "recent" /\ r.facts = lead[l0].facts \cup written
    BY <2>1 DEF Lead, Remembering
  <2>3. "health" \in r.facts => keyed
    BY <1>t, <2>1, <2>2 DEF MemoryTypeOK
  <2>4. lead' = [lead EXCEPT ![l0] = r] /\ keyed' = keyed
    BY <1>4, <1>t, <2>1 DEF upsert_lead_memory, Who, MemoryTypeOK
  <2>5. /\ lead' \in [Leads -> Lead]
        /\ \A m \in Leads : /\ lead'[m].facts # {} => lead'[m].dated # "never"
                            /\ "health" \in lead'[m].facts => keyed'
    <3> HIDE DEF r
    <3>1. r.facts # {} => r.dated # "never"
      BY <2>2
    <3> QED
      BY <1>t, <2>1, <2>2, <2>3, <2>4, <3>1, RowWritten
  <2>6. MemoryTypeOK'
    BY <1>4, <1>t, <1>1, <1>2, <2>1, <2>5 DEF upsert_lead_memory, Who, MemoryTypeOK
  <2>7. ASSUME NEW l \in optedOut' \ (resummarised' \cup unpurged')
        PROVE  \/ lead'[l].facts = {}
               \/ \E d \in Tasks : task'[d].pc = "purge" /\ task'[d].who = l
    <3>1. l \in optedOut \ (resummarised \cup unpurged) /\ l \in Leads /\ l # l0
      BY <1>4, <1>t, <2>7 DEF upsert_lead_memory, Who, MemoryTypeOK
    <3>2. lead'[l] = lead[l] /\ ~Doing(c, "purge")
      BY <1>t, <2>4, <3>1 DEF upsert_lead_memory, Doing, MemoryTypeOK
    <3> QED
      BY <1>t, <1>2, <3>1, <3>2 DEF OptOutPurgesMemory, Doing, Who
  <2> QED
    BY <2>6, <2>7 DEF MemoryInv, OptOutPurgesMemory, Doing, Who
<1> QED
  BY <1>3, <1>4

LEMMA RetentionInv ==
    ASSUME MemoryInv, purge_expired_memory
    PROVE  MemoryInv'
<1>t. MemoryTypeOK
  BY DEF MemoryInv
<1>1. ASSUME NEW l \in Leads
      PROVE  /\ lead'[l] \in Lead /\ lead'[l].facts \subseteq lead[l].facts
             /\ lead'[l].dated = lead[l].dated
  <2>1. lead[l] \in Lead
    BY <1>t DEF MemoryTypeOK
  <2>2. lead'[l] = [lead[l] EXCEPT !.facts = {}] \/ lead'[l] = lead[l]
    BY DEF purge_expired_memory
  <2> QED
    BY <2>1, <2>2 DEF Lead
<1>2. lead' = [l \in Leads |-> lead'[l]]
  BY DEF purge_expired_memory
<1>3. lead' \in [Leads -> Lead]
  BY <1>1, <1>2
<1>4. \A l \in Leads : /\ lead'[l].facts # {} => lead'[l].dated # "never"
                       /\ "health" \in lead'[l].facts => keyed'
  BY <1>t, <1>1 DEF purge_expired_memory, MemoryTypeOK
<1>5. MemoryTypeOK'
  BY <1>t, <1>3, <1>4 DEF purge_expired_memory, MemoryTypeOK
<1>6. OptOutPurgesMemory'
  BY <1>1, PurgeKept DEF purge_expired_memory
<1> QED
  BY <1>5, <1>6 DEF MemoryInv

LEMMA MonthsInv ==
    ASSUME MemoryInv, NEW l \in Leads, MonthsPass(l)
    PROVE  MemoryInv'
<1>t. MemoryTypeOK
  BY DEF MemoryInv
<1>1. lead[l] \in Lead
  BY <1>t DEF MemoryTypeOK
<1>2. PICK r \in Lead : r = [lead[l] EXCEPT !.dated = "old"]
  BY <1>1 DEF Lead
<1>3. r.facts = lead[l].facts /\ r.dated = "old"
  BY <1>1, <1>2 DEF Lead
<1>4. lead' = [lead EXCEPT ![l] = r] /\ keyed' = keyed
  BY <1>t, <1>2 DEF MonthsPass, MemoryTypeOK
<1>5. /\ lead' \in [Leads -> Lead]
      /\ \A m \in Leads : /\ lead'[m].facts # {} => lead'[m].dated # "never"
                          /\ "health" \in lead'[m].facts => keyed'
  BY <1>t, <1>3, <1>4, RowWritten DEF MemoryTypeOK
<1>6. MemoryTypeOK'
  BY <1>t, <1>5 DEF MonthsPass, MemoryTypeOK
<1>7. \A m \in Leads : lead'[m].facts \subseteq lead[m].facts
  BY <1>t, <1>3, <1>4 DEF MemoryTypeOK
<1>8. OptOutPurgesMemory'
  BY <1>7, PurgeKept DEF MonthsPass
<1> QED
  BY <1>6, <1>8 DEF MemoryInv

\* A purge that dies with its worker is remembered.
LEMMA DeathInv ==
    ASSUME MemoryInv, NEW w \in Workers, WorkerDies(w)
    PROVE  MemoryInv'
<1>t. MemoryTypeOK /\ OptOutPurgesMemory
  BY DEF MemoryInv
<1>1. faults' \in 0 .. MaxFaults
  BY <1>t, SlipTyped DEF WorkerDies
<1>2. \A c \in Tasks : task'[c] = task[c] \/ (task'[c] = NoTask /\ c[1] = w)
  BY DEF WorkerDies
<1>3. task' \in [Tasks -> Task]
  BY <1>t, NoTaskTyped DEF WorkerDies, MemoryTypeOK
<1>4. unpurged' \subseteq Leads
  BY <1>t DEF WorkerDies, Who, MemoryTypeOK, Task
<1>5. MemoryTypeOK'
  BY <1>t, <1>1, <1>3, <1>4 DEF WorkerDies, MemoryTypeOK
<1>6. ASSUME NEW l \in optedOut' \ (resummarised' \cup unpurged')
      PROVE  \/ lead'[l].facts = {}
             \/ \E d \in Tasks : task'[d].pc = "purge" /\ task'[d].who = l
  <2>1. l \in optedOut \ (resummarised \cup unpurged) /\ lead' = lead
    BY <1>6 DEF WorkerDies
  <2>2. ASSUME NEW c \in Tasks, Doing(c, "purge"), Who(c) = l
        PROVE  task'[c] = task[c]
    <3>1. c[1] = w => l \in unpurged'
      BY <2>2 DEF WorkerDies
    <3> QED
      BY <1>2, <1>6, <3>1
  <2> QED
    BY <1>t, <2>1, <2>2 DEF OptOutPurgesMemory, Doing, Who
<1> QED
  BY <1>5, <1>6 DEF MemoryInv, OptOutPurgesMemory, Doing, Who

LEMMA MemoryNextInv == MemoryInv /\ [MemoryNext]_memoryVars => MemoryInv'
<1> SUFFICES ASSUME MemoryInv, [MemoryNext]_memoryVars PROVE MemoryInv'
  OBVIOUS
<1>1. CASE UNCHANGED memoryVars
  <2>1. MemoryTypeOK'
    BY <1>1 DEF memoryVars, MemoryInv, MemoryTypeOK
  <2>2. OptOutPurgesMemory'
    BY <1>1, PurgeKept DEF memoryVars
  <2> QED
    BY <2>1, <2>2 DEF MemoryInv
<1>2. ASSUME NEW c \in Tasks, NEW fails \in BOOLEAN, TaskStep(c, fails) PROVE MemoryInv'
  BY <1>2, OptOutInv, PurgeInv, RespondInv, BumpInv, ResetInv, UpsertInv DEF TaskStep
<1> QED
  BY <1>1, <1>2, WebhookInv, TranscriptionInv, ProcessInv, SummariseInv, RetentionInv,
     MonthsInv, DeathInv DEF MemoryNext

-----------------------------------------------------------------------------
(* Theorems *)

\* Rows, counters and tasks keep their types; health data is never stored where
\* it cannot be encrypted.
THEOREM MemoryTypeCorrect == MemorySpec => []MemoryTypeOK
<1>1. MemoryInv => MemoryTypeOK
  BY DEF MemoryInv
<1> QED
  BY <1>1, MemoryInitInv, MemoryNextInv, PTL DEF MemorySpec

\* What is remembered of a lead that opted out was written after its purge, or
\* its purge failed or is under way.
THEOREM OptOutForgets == MemorySpec => []OptOutPurgesMemory
<1>1. MemoryInv => OptOutPurgesMemory
  BY DEF MemoryInv
<1> QED
  BY <1>1, MemoryInitInv, MemoryNextInv, PTL DEF MemorySpec
=============================================================================
