--------------------------- MODULE OutreachProofs ---------------------------
(***************************************************************************)
(* What the outreach jobs and the WhatsApp tools they share guarantee, for *)
(* any number of workers, tenants, callers, orders and days.               *)
(*                                                                         *)
(* The tools see of the jobs only their calls.  So every step is a step of *)
(* a tool or leaves the tools alone but for the faults counted, and it is  *)
(* a step of a job or leaves that job alone.                               *)
(***************************************************************************)
EXTENDS Outreach, FiniteSetTheorems, SequenceTheorems, TLAPS

-----------------------------------------------------------------------------
(* Types *)

PixTypeOK ==
    /\ order \in [Orders -> Order] /\ optedOut \subseteq Leads
    /\ pix \in [Pollers -> Cycle]
    /\ reminders \in [Orders -> Nat] /\ late \in [Leads -> Nat]
    /\ excused \subseteq Orders

ReportTypeOK ==
    /\ slot \subseteq Days /\ guard \in [Workers -> Days \cup {0}]
    /\ report \in [Reporters -> Run] /\ fired \in [Reporters -> Days \cup {0}]
    /\ senders \in [Days -> SUBSET Reporters]
    /\ unguarded \in [Days -> Nat] /\ abandoned \subseteq Days /\ unheeded \subseteq Days

TypesOK == ToolTypeOK /\ PixTypeOK /\ ReportTypeOK

LEMMA NoCallTyped ==
    /\ NoCall \in Call /\ NoCall.pc = "idle"
    /\ NoCall.round = 0 /\ NoCall.limited = 0 /\ NoCall.errors = 0
<1>1. (CHOOSE n \in Numbers : TRUE) \in Numbers /\ (CHOOSE m \in Messages : TRUE) \in Messages
  BY ToolAssumption
<1>2. 0 \in 0 .. MaxAttempts /\ 0 \in 0 .. EnqueueAttempts /\ "none" \in Results
  BY ToolAssumption DEF Results
<1> QED
  BY <1>1, <1>2 DEF NoCall, Call

LEMMA NoCallIsIdle == NoCall.pc = "idle"
BY NoCallTyped

LEMMA AnswerEffect ==
    ASSUME ToolTypeOK, NEW c \in Callers, NEW n \in Numbers, NEW m \in Messages,
           NEW r \in Results, Answer(c, n, m, r)
    PROVE  /\ call' \in [Callers -> Call]
           /\ call'[c].pc = "returned" /\ call'[c].result = r /\ call'[c].msg = m
           /\ \A d \in Callers \ {c} : call'[d] = call[d]
<1> DEFINE k == [NoCall EXCEPT !.pc = "returned", !.to = n, !.msg = m, !.result = r]
<1>1. call' = [call EXCEPT ![c] = k]
  BY DEF Answer
<1>2. k.pc = "returned" /\ k.result = r /\ k.msg = m /\ k \in Call
  BY NoCallTyped DEF Call
<1> HIDE DEF k
<1> QED
  BY <1>1, <1>2 DEF ToolTypeOK

LEMMA EnterEffect ==
    ASSUME ToolTypeOK, NEW c \in Callers, NEW n \in Numbers, NEW m \in Messages,
           NEW v \in BOOLEAN, Enter(c, n, m, v)
    PROVE  /\ call' \in [Callers -> Call]
           /\ call'[c].pc = "sending" /\ call'[c].to = n /\ call'[c].msg = m
           /\ call'[c].media = v
           /\ call'[c].round = 0 /\ call'[c].limited = 0 /\ call'[c].errors = 0
           /\ \A d \in Callers \ {c} : call'[d] = call[d]
<1> DEFINE k == [NoCall EXCEPT !.pc = "sending", !.to = n, !.msg = m, !.media = v]
<1>1. call' = [call EXCEPT ![c] = k]
  BY DEF Enter
<1>2. /\ k.pc = "sending" /\ k.to = n /\ k.msg = m /\ k.media = v
      /\ k.round = 0 /\ k.limited = 0 /\ k.errors = 0 /\ k \in Call
  BY NoCallTyped DEF Call
<1> HIDE DEF k
<1>3. call'[c] = k /\ \A d \in Callers \ {c} : call'[d] = call[d]
  BY <1>1 DEF ToolTypeOK
<1>4. call' \in [Callers -> Call]
  BY <1>1, <1>2 DEF ToolTypeOK
<1> QED
  BY <1>2, <1>3, <1>4

\* What a step can do to the tools.
Rests == UNCHANGED <<config, day, tool, callVars, sentVars>>
Sends(c, n, m) == send_message(c, n, m) \/ send_image(c, n, m)
Serves ==
    \/ \E c \in Callers, n \in Numbers, m \in Messages : Sends(c, n, m)
    \/ \E c \in Callers : Post(c) \/ Collect(c)
    \/ Midnight
    \/ \E w \in Workers : Restart(w)
    \/ Rests /\ (faults' = faults \/ (faults < MaxFaults /\ faults' = faults + 1))

LEMMA RostersTyped ==
    /\ Pollers \subseteq Callers /\ Reporters \subseteq Callers /\ Desks \subseteq Callers
    /\ Leads \subseteq Numbers /\ Orders \subseteq Messages /\ Reply \in Messages
    /\ \A o \in Orders : LeadOf[o] \in Leads
    /\ Group \in Numbers /\ \A d \in Days : ReportOf[d] \in Messages
    /\ \A c \in Callers : c[1] \in Workers /\ Host(c) \in Tools
BY ToolAssumption, PixAssumption, ReportAssumption, OutreachAssumption DEF Host, Tools

LEMMA PixServes ==
    ASSUME PixTypeOK, PixNext
    PROVE  Serves
<1>1. ASSUME NEW c \in Pollers, PixStep(c)
      PROVE  Serves
  <2>1. CASE Select(c) \/ Finish(c)
    BY <2>1 DEF Select, Finish, toolVars, Serves, Rests
  <2>2. ASSUME NEW blind \in BOOLEAN, CheckOptOut(c, blind)
        PROVE  Serves
    BY <2>2 DEF CheckOptOut, Serves, Rests
  <2>3. CASE Remind(c)
    <3>1. pix[c].hand \in Orders
      BY DEF PixTypeOK, Cycle
    <3> QED
      BY <2>3, <3>1, RostersTyped DEF Remind, Serves, Sends
  <2>4. CASE Answered(c)
    BY <2>4, RostersTyped DEF Answered, Serves
  <2>5. ASSUME NEW fails \in BOOLEAN, Mark(c, fails)
        PROVE  Serves
    BY <2>5 DEF Mark, Serves, Rests
  <2> QED
    BY <1>1, <2>1, <2>2, <2>3, <2>4, <2>5 DEF PixStep
<1>2. ASSUME NEW o \in Orders, Settle(o)
      PROVE  Serves
  BY <1>2 DEF Settle, toolVars, Serves, Rests
<1>3. ASSUME NEW l \in Leads, OptOut(l)
      PROVE  Serves
  BY <1>3 DEF OptOut, toolVars, Serves, Rests
<1> QED
  BY <1>1, <1>2, <1>3 DEF PixNext

LEMMA ReportServes ==
    ASSUME ReportTypeOK, ReportNext
    PROVE  Serves
<1> SUFFICES ASSUME NEW c \in Reporters, ReportStep(c)
             PROVE  Serves
  BY DEF ReportNext
<1>1. CASE Fire(c) \/ Claim(c) \/ ClaimInProcess(c)
  BY <1>1 DEF Fire, Claim, ClaimInProcess, toolVars, Serves, Rests
<1>2. ASSUME NEW arrived \in BOOLEAN, ClaimBlind(c, arrived)
      PROVE  Serves
  BY <1>2 DEF ClaimBlind, Serves, Rests
<1>3. CASE Send(c)
  <2>1. report[c].today \in Days
    BY DEF ReportTypeOK, Run
  <2> QED
    BY <1>3, <2>1, RostersTyped DEF Send, Serves, Sends
<1>4. CASE Sent(c) \/ SendRaised(c)
  BY <1>4, RostersTyped DEF Sent, SendRaised, Serves
<1>5. ASSUME NEW fails \in BOOLEAN, Release(c, fails)
      PROVE  Serves
  BY <1>5 DEF Release, Serves, Rests
<1> QED
  BY <1>1, <1>2, <1>3, <1>4, <1>5 DEF ReportStep

LEMMA NextServes ==
    ASSUME TypesOK, [Next]_vars
    PROVE  Serves
<1>1. CASE PixNext
  BY <1>1, PixServes DEF TypesOK
<1>2. CASE ReportNext
  BY <1>2, ReportServes DEF TypesOK
<1>3. ASSUME NEW c \in Desks, Turn(c)
      PROVE  Serves
  <2>1. CASE Collect(c)
    BY <2>1, RostersTyped DEF Serves
  <2>2. ASSUME NEW l \in Leads, NEW picture \in BOOLEAN, Answer_(c, l, picture)
        PROVE  Serves
    BY <2>2, RostersTyped DEF Answer_, Serves, Sends
  <2> QED
    BY <1>3, <2>1, <2>2 DEF Turn
<1>4. ASSUME NEW c \in Callers, Tool_(c)
      PROVE  Serves
  BY <1>4 DEF Tool_, Serves
<1>5. CASE DayEnds
  BY <1>5 DEF DayEnds, Serves
<1>6. ASSUME NEW w \in Workers, WorkerRestarts(w)
      PROVE  Serves
  BY <1>6 DEF WorkerRestarts, Serves
<1>7. CASE UNCHANGED vars
  BY <1>7 DEF vars, toolVars, Serves, Rests
<1> QED
  BY <1>1, <1>2, <1>3, <1>4, <1>5, <1>6, <1>7 DEF Next

\* A POST is answered for good or tried again, and what it delivers beyond the
\* call's own copy is counted as lost.
SameText(c, k) ==
    /\ k.pc = "sending" /\ k.to = call[c].to
    /\ k.msg = call[c].msg /\ k.media = call[c].media
Undelivered == UNCHANGED <<copies, lost>>
PostKind(c) ==
    \/ \E k \in Call :
          /\ SameText(c, k) /\ Retry(c, k)
          /\ Undelivered \/ Deliver(call[c].msg, 1)
    \/ \E r \in Results \ {"none"} :
          /\ Return(c, r)
          /\ Undelivered \/ Deliver(call[c].msg, 0) \/ Deliver(call[c].msg, 1)

LEMMA PostKinds ==
    ASSUME ToolTypeOK, NEW c \in Callers, Post(c)
    PROVE  /\ Posting(c) /\ PostKind(c)
           /\ UNCHANGED <<config, day, begun>>
           /\ faults' \in faults .. MaxFaults
<1>1. call[c] \in Call /\ call[c].pc = "sending"
  <2>1. Posting(c)
    BY DEF Post, Accepted, RateLimited, PostFails, Garbled
  <2> QED
    BY <2>1 DEF Posting, ToolTypeOK
<1>2. faults \in Nat /\ MaxFaults \in Nat /\ faults <= MaxFaults
  BY ToolAssumption DEF ToolTypeOK
<1>3. CASE Accepted(c)
  BY <1>2, <1>3 DEF Accepted, PostKind, Results
<1>4. CASE RateLimited(c)
  <2>1. CASE call[c].limited + 1 < MaxAttempts
    <3> DEFINE k == [call[c] EXCEPT !.limited = @ + 1, !.errors = 0]
    <3>0. call[c].limited + 1 \in 0 .. MaxAttempts /\ 0 \in 0 .. MaxAttempts
      BY <1>1, <2>1, ToolAssumption DEF Call
    <3>1. k \in Call /\ SameText(c, k)
      BY <1>1, <3>0 DEF Call, SameText
    <3>2. Retry(c, k) /\ Undelivered
      BY <1>4, <2>1 DEF RateLimited, Undelivered
    <3>3. PostKind(c)
      BY <3>1, <3>2 DEF PostKind
    <3> QED
      BY <1>2, <1>4, <3>3 DEF RateLimited
  <2>2. CASE ~(call[c].limited + 1 < MaxAttempts)
    BY <1>2, <1>4, <2>2 DEF RateLimited, PostKind, Undelivered, Results
  <2> QED
    BY <2>1, <2>2
<1>5. ASSUME NEW arrived \in BOOLEAN, PostFails(c, arrived)
      PROVE  /\ Posting(c) /\ PostKind(c)
             /\ UNCHANGED <<config, day, begun>>
             /\ faults' \in faults .. MaxFaults
  <2>1. Undelivered \/ Deliver(call[c].msg, 1)
    BY <1>5 DEF PostFails, Undelivered
  <2>2. CASE call[c].errors + 1 < MaxAttempts
    <3> DEFINE k == [call[c] EXCEPT !.errors = @ + 1]
    <3>1. k \in Call /\ SameText(c, k)
      BY <1>1, <2>2, ToolAssumption DEF Call, SameText
    <3>2. Retry(c, k)
      BY <1>5, <2>2 DEF PostFails
    <3>3. PostKind(c)
      BY <2>1, <3>1, <3>2 DEF PostKind
    <3> QED
      BY <1>2, <1>5, <3>3 DEF PostFails
  <2>3. CASE ~(call[c].errors + 1 < MaxAttempts)
    <3>1. Return(c, "fail")
      BY <1>5, <2>3 DEF PostFails
    <3>2. PostKind(c)
      BY <2>1, <3>1 DEF PostKind, Results
    <3> QED
      BY <1>2, <1>5, <3>2 DEF PostFails
  <2> QED
    BY <2>2, <2>3
<1>6. ASSUME NEW arrived \in BOOLEAN, Garbled(c, arrived)
      PROVE  /\ Posting(c) /\ PostKind(c)
             /\ UNCHANGED <<config, day, begun>>
             /\ faults' \in faults .. MaxFaults
  <2>0. Undelivered \/ Deliver(call[c].msg, 1)
    BY <1>6 DEF Garbled, Undelivered
  <2>1. CASE ~call[c].media /\ call[c].round + 1 < EnqueueAttempts
    <3> DEFINE k == [call[c] EXCEPT !.round = @ + 1, !.limited = 0, !.errors = 0]
    <3>0. call[c].round + 1 \in 0 .. EnqueueAttempts /\ 0 \in 0 .. MaxAttempts
      BY <1>1, <2>1, ToolAssumption DEF Call
    <3>1. k \in Call /\ SameText(c, k)
      BY <1>1, <3>0 DEF Call, SameText
    <3>2. Retry(c, k)
      BY <1>6, <2>1 DEF Garbled
    <3>3. PostKind(c)
      BY <2>0, <3>1, <3>2 DEF PostKind
    <3> QED
      BY <1>2, <1>6, <3>3 DEF Garbled
  <2>2. CASE ~(~call[c].media /\ call[c].round + 1 < EnqueueAttempts)
    <3>1. Return(c, "raised")
      BY <1>6, <2>2 DEF Garbled
    <3>2. PostKind(c)
      BY <2>0, <3>1 DEF PostKind, Results
    <3> QED
      BY <1>2, <1>6, <3>2 DEF Garbled
  <2> QED
    BY <2>1, <2>2
<1> QED
  BY <1>3, <1>4, <1>5, <1>6 DEF Post

LEMMA RolledTyped ==
    ASSUME ToolTypeOK, NEW t \in Tools
    PROVE  /\ Rolled(t) \in Tool /\ Rolled(t).counted = day
           /\ Rolled(t).warmUpDay = tool[t].warmUpDay
           /\ Rolled(t).sent = IF tool[t].counted \in {0, day} THEN tool[t].sent ELSE 0
<1>1. day \in 0 .. LastDay /\ tool[t] \in Tool
  BY ToolAssumption DEF ToolTypeOK
<1> QED
  BY <1>1 DEF Rolled, Tool

\* What a call to send does to the tool of its caller and to its number.
SendKind(c, n, m) ==
    \/ Answer(c, n, m, "noop") /\ UNCHANGED <<tool, queue, begun>>
    \/ Refuse(c, n, m)
    \/ Admit(c, n, m)
    \/ Enter(c, n, m, TRUE) /\ UNCHANGED <<tool, queue>>

LEMMA SendKinds ==
    ASSUME NEW c \in Callers, NEW n \in Numbers, NEW m \in Messages, Sends(c, n, m)
    PROVE  /\ call[c].pc = "idle" /\ SendKind(c, n, m)
           /\ UNCHANGED <<config, day, copies, lost, volume, faults>>
<1>1. CASE send_message(c, n, m)
  BY <1>1 DEF send_message, SendKind, Unconfigured
<1>2. CASE send_image(c, n, m)
  BY <1>2 DEF send_image, SendKind
<1> QED
  BY <1>1, <1>2 DEF Sends

LEMMA SendTyped ==
    ASSUME ToolTypeOK, NEW c \in Callers, NEW n \in Numbers, NEW m \in Messages,
           Sends(c, n, m)
    PROVE  ToolTypeOK'
<1>1. /\ call[c].pc = "idle" /\ SendKind(c, n, m)
      /\ UNCHANGED <<config, day, copies, lost, volume, faults>>
  BY SendKinds
<1>2. Host(c) \in Tools
  BY RostersTyped
<1>3. ASSUME NEW r \in Results, Answer(c, n, m, r)
      PROVE  call' \in [Callers -> Call]
  BY <1>3, AnswerEffect
<1>4. ASSUME NEW v \in BOOLEAN, Enter(c, n, m, v)
      PROVE  call' \in [Callers -> Call] /\ begun' \in [Messages -> Nat]
  <2>1. call' \in [Callers -> Call]
    BY <1>4, EnterEffect
  <2>2. begun' \in [Messages -> Nat]
    BY <1>4 DEF Enter, ToolTypeOK
  <2> QED
    BY <2>1, <2>2
<1>5. [tool EXCEPT ![Host(c)] = Rolled(Host(c))] \in [Tools -> Tool]
  BY <1>2, RolledTyped DEF ToolTypeOK
<1>6. CASE Answer(c, n, m, "noop") /\ UNCHANGED <<tool, queue, begun>>
  BY <1>1, <1>3, <1>6 DEF ToolTypeOK, config, Results
<1>7. CASE Refuse(c, n, m)
  <2>1. call' \in [Callers -> Call]
    BY <1>3, <1>7 DEF Refuse, Results
  <2> QED
    BY <1>1, <1>5, <1>7, <2>1 DEF Refuse, ToolTypeOK, config
<1>8. CASE Admit(c, n, m)
  <2>1. call' \in [Callers -> Call] /\ begun' \in [Messages -> Nat]
    BY <1>4, <1>8 DEF Admit
  <2>2. queue' \in [Tools -> [Numbers -> Seq(Callers)]]
    <3>1. Append(queue[Host(c)][n], c) \in Seq(Callers)
      BY <1>2, AppendProperties DEF ToolTypeOK
    <3> QED
      BY <1>2, <1>8, <3>1 DEF Admit, ToolTypeOK
  <2> QED
    BY <1>1, <1>5, <1>8, <2>1, <2>2 DEF Admit, ToolTypeOK, config
<1>9. CASE Enter(c, n, m, TRUE) /\ UNCHANGED <<tool, queue>>
  BY <1>1, <1>4, <1>9 DEF ToolTypeOK, config
<1> QED
  BY <1>1, <1>6, <1>7, <1>8, <1>9 DEF SendKind

LEMMA DeliverTyped ==
    ASSUME ToolTypeOK, NEW m \in Messages, NEW u \in {0, 1}, Deliver(m, u)
    PROVE  copies' \in [Messages -> Nat] /\ lost' \in [Messages -> Nat]
BY DEF ToolTypeOK, Deliver

LEMMA ReturnTyped ==
    ASSUME ToolTypeOK, NEW c \in Callers, NEW r \in Results, Posting(c), Return(c, r)
    PROVE  /\ call' \in [Callers -> Call] /\ tool' \in [Tools -> Tool]
           /\ queue' \in [Tools -> [Numbers -> Seq(Callers)]]
           /\ volume' \in [Tools -> Nat]
<1>1. Host(c) \in Tools /\ call[c] \in Call /\ call[c].to \in Numbers
  BY RostersTyped DEF ToolTypeOK, Call
<1>2. call' \in [Callers -> Call]
  <2>1. call' = [call EXCEPT ![c] = [call[c] EXCEPT !.pc = "returned", !.result = r]]
    BY <1>1 DEF Return, ToolTypeOK, Call
  <2>2. [call[c] EXCEPT !.pc = "returned", !.result = r] \in Call
    BY <1>1 DEF Call
  <2> QED
    BY <2>1, <2>2 DEF ToolTypeOK
<1>3. CASE call[c].media
  BY <1>2, <1>3 DEF Return, ToolTypeOK
<1>4. CASE ~call[c].media
  <2> DEFINE t == Host(c)
             n == call[c].to
  <2>1. queue[t][n] \in Seq(Callers) /\ queue[t][n] # <<>>
    BY <1>1, <1>4 DEF Posting, HoldsLock, ToolTypeOK
  <2>2. Tail(queue[t][n]) \in Seq(Callers)
    BY <2>1, HeadTailProperties
  <2>3. queue' \in [Tools -> [Numbers -> Seq(Callers)]]
    <3>1. queue' = [queue EXCEPT ![t] = [queue[t] EXCEPT ![n] = Tail(queue[t][n])]]
      BY <1>1, <1>4 DEF Return, ToolTypeOK
    <3>2. [queue[t] EXCEPT ![n] = Tail(queue[t][n])] \in [Numbers -> Seq(Callers)]
      BY <1>1, <2>2 DEF ToolTypeOK
    <3> QED
      BY <3>1, <3>2 DEF ToolTypeOK
  <2>4. PICK k \in {0, 1} :
          /\ tool' = [tool EXCEPT ![t].sent = @ + k]
          /\ volume' = [volume EXCEPT ![t] = @ + k]
    <3>1. CASE r = "ok"
      BY <1>4, <3>1 DEF Return
    <3>2. CASE r # "ok"
      BY <1>4, <3>2 DEF Return
    <3> QED
      BY <3>1, <3>2
  <2>5. tool' \in [Tools -> Tool]
    <3>1. tool' = [tool EXCEPT ![t] = [tool[t] EXCEPT !.sent = tool[t].sent + k]]
      BY <1>1, <2>4 DEF ToolTypeOK
    <3>2. [tool[t] EXCEPT !.sent = tool[t].sent + k] \in Tool
      <4>1. tool[t] \in Tool /\ k \in Nat
        BY <1>1 DEF ToolTypeOK
      <4>2. tool[t].sent + k \in Nat
        BY <4>1 DEF Tool
      <4> HIDE DEF t
      <4> QED
        BY <4>1, <4>2 DEF Tool
    <3> QED
      BY <3>1, <3>2 DEF ToolTypeOK
  <2>6. volume' \in [Tools -> Nat]
    BY <1>1, <2>4 DEF ToolTypeOK
  <2> QED
    BY <1>2, <2>3, <2>5, <2>6
<1> QED
  BY <1>3, <1>4

LEMMA PostTyped ==
    ASSUME ToolTypeOK, NEW c \in Callers, Post(c)
    PROVE  ToolTypeOK'
<1>1. Posting(c) /\ PostKind(c)
      /\ UNCHANGED <<config, day, begun>> /\ faults' \in faults .. MaxFaults
  BY PostKinds
<1>2. call[c].msg \in Messages /\ faults \in Nat
  BY DEF ToolTypeOK, Call
<1>3. copies' \in [Messages -> Nat] /\ lost' \in [Messages -> Nat]
  BY <1>1, <1>2, DeliverTyped DEF PostKind, Undelivered, ToolTypeOK
<1> DEFINE Typed ==
           /\ call' \in [Callers -> Call] /\ tool' \in [Tools -> Tool]
           /\ queue' \in [Tools -> [Numbers -> Seq(Callers)]]
           /\ volume' \in [Tools -> Nat]
<1>4. Typed
  <2>1. ASSUME NEW k \in Call, Retry(c, k) PROVE Typed
    BY <2>1 DEF Retry, ToolTypeOK
  <2>2. ASSUME NEW r \in Results, Return(c, r) PROVE Typed
    BY <1>1, <2>2, ReturnTyped
  <2> QED
    BY <1>1, <2>1, <2>2 DEF PostKind
<1>5. faults' \in 0 .. MaxFaults
  BY <1>1, <1>2, ToolAssumption
<1> QED
  BY <1>1, <1>3, <1>4, <1>5 DEF ToolTypeOK, config

\* The posts of a dying worker that still reach m.
Arriving(posts, m) == Cardinality({c \in posts : call[c].msg = m})

LEMMA ArrivingCounted ==
    ASSUME NEW posts \in SUBSET Callers, NEW m
    PROVE  Arriving(posts, m) \in Nat
<1>1. IsFiniteSet({c \in posts : call[c].msg = m})
  BY FS_Subset, ToolAssumption
<1> QED
  BY <1>1, FS_CardinalityType DEF Arriving

LEMMA RestartTyped ==
    ASSUME ToolTypeOK, NEW w \in Workers, Restart(w)
    PROVE  ToolTypeOK'
<1>1. FreshTool \in Tool
  BY ToolAssumption DEF ToolTypeOK, FreshTool, Tool
<1>2. tool' \in [Tools -> Tool]
  BY <1>1 DEF Restart, ToolTypeOK
<1>3. queue' \in [Tools -> [Numbers -> Seq(Callers)]]
  <2>1. <<>> \in Seq(Callers)
    BY EmptySeq
  <2> QED
    BY <2>1 DEF Restart, ToolTypeOK
<1>4. call' \in [Callers -> Call]
  BY NoCallTyped DEF Restart, ToolTypeOK
<1>5. volume' \in [Tools -> Nat]
  BY DEF Restart, ToolTypeOK
<1>6. copies' \in [Messages -> Nat] /\ lost' \in [Messages -> Nat]
  <2>1. PICK arrived \in SUBSET {c \in Callers : c[1] = w /\ Posting(c)} :
          /\ copies' = [m \in Messages |-> copies[m] + Arriving(arrived, m)]
          /\ lost' = [m \in Messages |-> lost[m] + Arriving(arrived, m)]
    BY DEF Restart, Arriving
  <2>2. \A m \in Messages : Arriving(arrived, m) \in Nat
    BY ArrivingCounted
  <2> QED
    BY <2>1, <2>2 DEF ToolTypeOK
<1>7. faults' \in 0 .. MaxFaults
  BY ToolAssumption DEF Restart, ToolTypeOK
<1> QED
  BY <1>2, <1>3, <1>4, <1>5, <1>6, <1>7 DEF Restart, ToolTypeOK, config

LEMMA ServesTyped ==
    ASSUME ToolTypeOK, Serves
    PROVE  ToolTypeOK'
<1>1. ASSUME NEW c \in Callers, Collect(c) PROVE ToolTypeOK'
  BY <1>1, NoCallTyped DEF Collect, ToolTypeOK, config, sentVars
<1>2. CASE Midnight
  BY <1>2, ToolAssumption DEF Midnight, ToolTypeOK, config, callVars
<1>3. CASE /\ Rests
           /\ faults' = faults \/ (faults < MaxFaults /\ faults' = faults + 1)
  BY <1>3, ToolAssumption DEF Rests, ToolTypeOK, config, callVars, sentVars
<1> QED
  BY <1>1, <1>2, <1>3, SendTyped, PostTyped, RestartTyped DEF Serves

LEMMA PixTyped ==
    ASSUME TypesOK, PixNext
    PROVE  PixTypeOK'
<1>1. ASSUME NEW c \in Pollers, PixStep(c)
      PROVE  PixTypeOK'
  <2>1. pix[c] \in Cycle /\ Pending \subseteq Orders
    BY DEF TypesOK, PixTypeOK, Pending
  <2>2. CASE Select(c)
    <3>1. excused' \subseteq Orders
      BY <2>1, <2>2 DEF Select, TypesOK, PixTypeOK
    <3>2. [pix[c] EXCEPT !.pc = "check", !.todo = Pending] \in Cycle
      BY <2>1 DEF Cycle
    <3>3. pix' = [pix EXCEPT ![c] = [pix[c] EXCEPT !.pc = "check", !.todo = Pending]]
      BY <2>2 DEF Select, TypesOK, PixTypeOK
    <3> QED
      BY <2>2, <3>1, <3>2, <3>3 DEF Select, TypesOK, PixTypeOK
  <2>3. ASSUME NEW blind \in BOOLEAN, CheckOptOut(c, blind)
        PROVE  PixTypeOK'
    <3>1. PICK o \in Earliest(c) :
            \/ pix' = [pix EXCEPT ![c] = [pix[c] EXCEPT !.todo = pix[c].todo \ {o}]]
            \/ pix' = [pix EXCEPT ![c] = [pc |-> "send", todo |-> pix[c].todo \ {o},
                                          hand |-> o]]
      BY <2>3 DEF CheckOptOut
    <3>2. o \in Orders /\ pix[c].todo \ {o} \in SUBSET Orders
      BY <2>1, <3>1 DEF Earliest, Cycle
    <3>3. [pix[c] EXCEPT !.todo = pix[c].todo \ {o}] \in Cycle
      BY <2>1, <3>2 DEF Cycle
    <3>4. [pc |-> "send", todo |-> pix[c].todo \ {o}, hand |-> o] \in Cycle
      BY <3>2 DEF Cycle
    <3>5. pix' \in [Pollers -> Cycle]
      BY <3>1, <3>3, <3>4 DEF TypesOK, PixTypeOK
    <3> QED
      BY <2>3, <3>5 DEF CheckOptOut, TypesOK, PixTypeOK
  <2>4. CASE Finish(c)
    <3>1. NoCycle \in Cycle
      BY PixAssumption DEF NoCycle, Cycle
    <3> QED
      BY <2>4, <3>1 DEF Finish, TypesOK, PixTypeOK
  <2>5. ASSUME NEW p \in {"check", "sending", "mark"}, pix' = [pix EXCEPT ![c].pc = p]
        PROVE  pix' \in [Pollers -> Cycle]
    <3>1. [pix[c] EXCEPT !.pc = p] \in Cycle
      BY <2>1, <2>5 DEF Cycle
    <3> QED
      BY <2>5, <3>1 DEF TypesOK, PixTypeOK
  <2>6. CASE Remind(c)
    <3>1. pix[c].hand \in Orders /\ LeadOf[pix[c].hand] \in Leads
      BY <2>1, RostersTyped DEF Cycle
    <3>2. pix' \in [Pollers -> Cycle]
      BY <2>5, <2>6 DEF Remind
    <3>3. reminders' \in [Orders -> Nat]
      BY <2>6, <3>1 DEF Remind, TypesOK, PixTypeOK
    <3>4. late' \in [Leads -> Nat]
      BY <2>6, <3>1 DEF Remind, TypesOK, PixTypeOK
    <3> QED
      BY <2>6, <3>2, <3>3, <3>4 DEF Remind, TypesOK, PixTypeOK
  <2>7. CASE Answered(c)
    <3>1. pix[c].hand \in Orders
      BY <2>1 DEF Cycle
    <3> QED
      BY <2>5, <2>7, <3>1 DEF Answered, TypesOK, PixTypeOK
  <2>8. ASSUME NEW fails \in BOOLEAN, Mark(c, fails)
        PROVE  PixTypeOK'
    <3>1. pix[c].hand \in Orders
      BY <2>1 DEF Cycle
    <3>2. pix' \in [Pollers -> Cycle]
      BY <2>5, <2>8 DEF Mark
    <3>3. order' \in [Orders -> Order] /\ excused' \subseteq Orders
      <4>1. CASE fails = TRUE
        BY <2>8, <3>1, <4>1 DEF Mark, TypesOK, PixTypeOK
      <4>2. CASE fails = FALSE
        BY <2>8, <3>1, <4>2 DEF Mark, TypesOK, PixTypeOK, Order
      <4> QED
        BY <4>1, <4>2
    <3> QED
      BY <2>8, <3>2, <3>3 DEF Mark, TypesOK, PixTypeOK
  <2> QED
    BY <1>1, <2>2, <2>3, <2>4, <2>6, <2>7, <2>8 DEF PixStep
<1>2. ASSUME NEW o \in Orders, Settle(o)
      PROVE  PixTypeOK'
  BY <1>2 DEF Settle, TypesOK, PixTypeOK, Order
<1>3. ASSUME NEW l \in Leads, OptOut(l)
      PROVE  PixTypeOK'
  BY <1>3 DEF OptOut, TypesOK, PixTypeOK
<1> QED
  BY <1>1, <1>2, <1>3 DEF PixNext

LEMMA ReportTyped ==
    ASSUME TypesOK, ReportNext
    PROVE  ReportTypeOK'
<1> SUFFICES ASSUME NEW c \in Reporters, ReportStep(c)
             PROVE  ReportTypeOK'
  BY DEF ReportNext
<1>1. /\ day \in Days /\ report[c] \in Run /\ report[c].today \in Days
      /\ c[1] \in Workers /\ NoRun \in Run
  <2>1. day \in Days /\ NoRun \in Run
    BY ToolAssumption DEF TypesOK, ToolTypeOK, Run, NoRun, Days
  <2>2. report[c] \in Run
    BY DEF TypesOK, ReportTypeOK
  <2> QED
    BY <2>1, <2>2, RostersTyped DEF Run
<1>2. ASSUME NEW p \in {"claim", "sending", "release"},
             report' = [report EXCEPT ![c].pc = p]
      PROVE  report' \in [Reporters -> Run]
  BY <1>1, <1>2 DEF TypesOK, ReportTypeOK, Run
<1>3. Proceed(c) \/ Skip(c) => report' \in [Reporters -> Run]
  BY <1>1 DEF Proceed, Skip, TypesOK, ReportTypeOK, Run
<1>4. CASE Fire(c)
  BY <1>1, <1>2, <1>4 DEF Fire, TypesOK, ReportTypeOK
<1>5. CASE Claim(c)
  BY <1>1, <1>3, <1>5 DEF Claim, TypesOK, ReportTypeOK
<1>6. ASSUME NEW arrived \in BOOLEAN, ClaimBlind(c, arrived)
      PROVE  ReportTypeOK'
  BY <1>1, <1>3, <1>6 DEF ClaimBlind, TypesOK, ReportTypeOK
<1>7. CASE ClaimInProcess(c)
  BY <1>1, <1>3, <1>7 DEF ClaimInProcess, TypesOK, ReportTypeOK
<1>8. CASE Send(c)
  BY <1>1, <1>2, <1>8 DEF Send, TypesOK, ReportTypeOK
<1>9. CASE Sent(c)
  BY <1>1, <1>3, <1>9 DEF Sent, TypesOK, ReportTypeOK
<1>10. CASE SendRaised(c)
  BY <1>1, <1>2, <1>3, <1>10 DEF SendRaised, TypesOK, ReportTypeOK
<1>11. ASSUME NEW fails \in BOOLEAN, Release(c, fails)
       PROVE  ReportTypeOK'
  BY <1>1, <1>3, <1>11 DEF Release, TypesOK, ReportTypeOK
<1> QED
  BY <1>4, <1>5, <1>6, <1>7, <1>8, <1>9, <1>10, <1>11 DEF ReportStep

LEMMA InitTypes == Init => TypesOK
<1> SUFFICES ASSUME Init PROVE TypesOK
  OBVIOUS
<1>1. ToolTypeOK
  <2>1. FreshTool \in Tool /\ day \in FirstDay .. LastDay
    BY ToolAssumption DEF Init, ToolInit, FreshTool, Tool
  <2>2. <<>> \in Seq(Callers) /\ 0 \in 0 .. MaxFaults
    BY EmptySeq, ToolAssumption
  <2> QED
    BY <2>1, <2>2, NoCallTyped DEF Init, ToolInit, ToolTypeOK
<1>2. PixTypeOK
  BY PixAssumption DEF Init, PixInit, PixTypeOK, Order, NoCycle, Cycle
<1>3. ReportTypeOK
  BY ToolAssumption DEF Init, ReportInit, ReportTypeOK, NoRun, Run, Days
<1> QED
  BY <1>1, <1>2, <1>3 DEF TypesOK

LEMMA NextTypes == TypesOK /\ [Next]_vars => TypesOK'
<1> SUFFICES ASSUME TypesOK, [Next]_vars PROVE TypesOK'
  OBVIOUS
<1>1. ToolTypeOK'
  BY NextServes, ServesTyped DEF TypesOK
<1>2. UNCHANGED pixVars => PixTypeOK'
  BY DEF pixVars, TypesOK, PixTypeOK
<1>3. UNCHANGED reportVars => ReportTypeOK'
  BY DEF reportVars, TypesOK, ReportTypeOK
<1>4. CASE PixNext /\ UNCHANGED <<reportVars, replies>>
  BY <1>1, <1>3, <1>4, PixTyped DEF TypesOK
<1>5. CASE ReportNext /\ UNCHANGED <<pixVars, replies>>
  BY <1>1, <1>2, <1>5, ReportTyped DEF TypesOK
<1>6. ASSUME NEW w \in Workers, WorkerRestarts(w)
      PROVE  TypesOK'
  <2>1. PixTypeOK'
    <3>1. NoCycle \in Cycle
      BY PixAssumption DEF NoCycle, Cycle
    <3>2. pix' \in [Pollers -> Cycle]
      BY <1>6, <3>1 DEF WorkerRestarts, PixRestart, TypesOK, PixTypeOK
    <3>3. excused' \subseteq Orders
      BY <1>6 DEF WorkerRestarts, PixRestart, TypesOK, PixTypeOK, Cycle
    <3> QED
      BY <1>6, <3>2, <3>3 DEF WorkerRestarts, PixRestart, TypesOK, PixTypeOK
  <2>2. ReportTypeOK'
    <3>1. NoRun \in Run
      BY ToolAssumption DEF NoRun, Run, Days
    <3>2. report' \in [Reporters -> Run] /\ abandoned' \subseteq Days
      BY <1>6, <3>1 DEF WorkerRestarts, ReportRestart, TypesOK, ReportTypeOK, Run
    <3>3. unguarded' \in [Days -> Nat]
      BY <1>6 DEF WorkerRestarts, ReportRestart, TypesOK, ReportTypeOK
    <3> QED
      BY <1>6, <3>2, <3>3 DEF WorkerRestarts, ReportRestart, TypesOK, ReportTypeOK
  <2> QED
    BY <1>1, <2>1, <2>2 DEF TypesOK
<1>7. CASE UNCHANGED pixVars /\ UNCHANGED reportVars
  BY <1>1, <1>2, <1>3, <1>7 DEF TypesOK
<1> QED
  BY <1>4, <1>5, <1>6, <1>7 DEF Next, Turn, Tool_, DayEnds, vars

LEMMA OutreachTyped == Spec => []TypesOK
BY InitTypes, NextTypes, PTL DEF Spec

\* The tool of tools/whatsapp.py keeps its types under every mix of its callers:
\* counters never fall below zero, retries never exceed their loops.
THEOREM ToolTypeCorrect == Spec => []ToolTypeOK
<1>1. TypesOK => ToolTypeOK
  BY DEF TypesOK
<1> QED
  BY <1>1, OutreachTyped, PTL

-----------------------------------------------------------------------------
(* The tools: locks and copies *)

LEMMA Counting ==
    ASSUME NEW S \in SUBSET Callers, NEW T \in SUBSET Callers
    PROVE  /\ IsFiniteSet(S) /\ Cardinality(S) \in Nat /\ Cardinality(T) \in Nat
           /\ S \subseteq T => Cardinality(S) <= Cardinality(T)
           /\ \A c \in Callers : S \subseteq T \cup {c} => Cardinality(S) <= Cardinality(T) + 1
           /\ \A c \in T : S \subseteq T \ {c} => Cardinality(S) + 1 <= Cardinality(T)
<1>1. IsFiniteSet(S) /\ IsFiniteSet(T)
  BY FS_Subset, ToolAssumption
<1>2. Cardinality(S) \in Nat /\ Cardinality(T) \in Nat
  BY <1>1, FS_CardinalityType
<1>3. S \subseteq T => Cardinality(S) <= Cardinality(T)
  BY <1>1, FS_Subset
<1>4. ASSUME NEW c \in Callers, S \subseteq T \cup {c}
      PROVE  Cardinality(S) <= Cardinality(T) + 1
  <2>1. IsFiniteSet(T \cup {c})
    BY <1>1, FS_AddElement
  <2>2. Cardinality(T \cup {c}) = IF c \in T THEN Cardinality(T) ELSE Cardinality(T) + 1
    BY <1>1, FS_AddElement
  <2>3. Cardinality(S) <= Cardinality(T \cup {c})
    BY <1>4, <2>1, FS_Subset
  <2> QED
    BY <1>2, <2>2, <2>3
<1>5. ASSUME NEW c \in T, S \subseteq T \ {c}
      PROVE  Cardinality(S) + 1 <= Cardinality(T)
  <2>1. IsFiniteSet(T \ {c})
    BY <1>1, FS_RemoveElement
  <2>2. Cardinality(T \ {c}) = IF c \in T THEN Cardinality(T) - 1 ELSE Cardinality(T)
    BY <1>1, FS_RemoveElement
  <2>3. Cardinality(S) <= Cardinality(T \ {c})
    BY <1>5, <2>1, FS_Subset
  <2> QED
    BY <1>2, <2>2, <2>3
<1> QED
  BY <1>1, <1>2, <1>3, <1>4, <1>5

\* A text that was tried holds its lock; nobody but its holder leaves a lock.
Headed == \A c \in Callers : Tried(c) => HoldsLock(c)

LEMMA ServesHeaded ==
    ASSUME ToolTypeOK, Headed, Serves
    PROVE  Headed'
<1> USE DEF Headed
<1>1. ASSUME NEW c \in Callers, NEW n \in Numbers, NEW m \in Messages, Sends(c, n, m)
      PROVE  Headed'
  <2> SUFFICES ASSUME NEW d \in Callers, Tried(d)' PROVE HoldsLock(d)'
    OBVIOUS
  <2>1. SendKind(c, n, m)
    BY <1>1, SendKinds
  <2>2. d # c
    <3>1. ASSUME NEW r \in Results, Answer(c, n, m, r), d = c PROVE FALSE
      BY <3>1, AnswerEffect DEF Tried, Texting
    <3>2. ASSUME NEW v \in BOOLEAN, Enter(c, n, m, v), d = c PROVE FALSE
      BY <3>2, EnterEffect DEF Tried
    <3> QED
      BY <2>1, <3>1, <3>2 DEF SendKind, Refuse, Admit, Results
  <2>3. call'[d] = call[d]
    BY <2>1, <2>2 DEF SendKind, Refuse, Admit, Answer, Enter, ToolTypeOK
  <2>4. Tried(d) /\ HoldsLock(d)
    BY <2>3 DEF Tried, Texting
  <2>5. CASE queue' = queue
    BY <2>3, <2>4, <2>5 DEF HoldsLock
  <2>6. CASE queue' = [queue EXCEPT ![Host(c)][n] = Append(queue[Host(c)][n], c)]
    <3> DEFINE q == queue[Host(d)][call[d].to]
    <3>1. Host(c) \in Tools /\ Host(d) \in Tools /\ call[d].to \in Numbers
      BY RostersTyped DEF ToolTypeOK, Call
    <3>2. q \in Seq(Callers) /\ q # <<>> /\ Head(q) = d
      BY <2>4, <3>1 DEF HoldsLock, ToolTypeOK
    <3>3. Append(q, c) # <<>> /\ Head(Append(q, c)) = Head(q)
      BY <3>2, AppendProperties
    <3>4. queue'[Host(d)][call[d].to] \in {q, Append(q, c)}
      BY <2>6, <3>1 DEF ToolTypeOK
    <3> QED
      BY <2>3, <3>2, <3>3, <3>4 DEF HoldsLock
  <2> QED
    BY <2>1, <2>5, <2>6 DEF SendKind, Refuse, Admit
<1>2. ASSUME NEW c \in Callers, Post(c)
      PROVE  Headed'
  <2> SUFFICES ASSUME NEW d \in Callers, Tried(d)' PROVE HoldsLock(d)'
    OBVIOUS
  <2>1. Posting(c) /\ PostKind(c)
    BY <1>2, PostKinds
  <2>2. CASE \E k \in Call : SameText(c, k) /\ Retry(c, k)
    BY <2>1, <2>2 DEF SameText, Retry, Posting, Tried, Texting, HoldsLock, ToolTypeOK
  <2>3. ASSUME NEW r \in Results, Return(c, r)
        PROVE  HoldsLock(d)'
    <3>1. d # c /\ call'[d] = call[d]
      BY <2>3 DEF Return, Tried, Texting, ToolTypeOK
    <3>2. Tried(d) /\ HoldsLock(d)
      BY <3>1 DEF Tried, Texting
    <3>3. queue'[Host(d)][call[d].to] = queue[Host(d)][call[d].to]
      <4>1. Host(c) \in Tools /\ call[c].to \in Numbers
        BY RostersTyped DEF ToolTypeOK, Call
      <4>2. CASE call[c].media
        BY <2>3, <4>2 DEF Return
      <4>3. CASE ~call[c].media
        <5>1. queue' = [queue EXCEPT ![Host(c)][call[c].to] = Tail(queue[Host(c)][call[c].to])]
          BY <2>3, <4>3 DEF Return
        <5>2. HoldsLock(c)
          BY <2>1, <4>3 DEF Posting
        <5>3. ~(Host(c) = Host(d) /\ call[c].to = call[d].to)
          BY <3>1, <3>2, <5>2 DEF HoldsLock
        <5> QED
          BY <4>1, <5>1, <5>3 DEF ToolTypeOK
      <4> QED
        BY <4>2, <4>3
    <3> QED
      BY <3>1, <3>2, <3>3 DEF HoldsLock
  <2> QED
    BY <2>1, <2>2, <2>3 DEF PostKind
<1>3. ASSUME NEW c \in Callers, Collect(c)
      PROVE  Headed'
  BY <1>3, NoCallIsIdle DEF Collect, Tried, Texting, HoldsLock, ToolTypeOK
<1>4. CASE UNCHANGED callVars
  BY <1>4 DEF callVars, Tried, Texting, HoldsLock
<1>5. ASSUME NEW w \in Workers, Restart(w)
      PROVE  Headed'
  <2> SUFFICES ASSUME NEW d \in Callers, Tried(d)' PROVE HoldsLock(d)'
    OBVIOUS
  <2>1. d[1] # w
    BY <1>5, NoCallIsIdle DEF Restart, Tried, Texting
  <2>2. call'[d] = call[d] /\ queue'[Host(d)] = queue[Host(d)]
    BY <1>5, <2>1, RostersTyped DEF Restart, Host
  <2> QED
    BY <2>2 DEF Tried, Texting, HoldsLock
<1> QED
  BY <1>1, <1>2, <1>3, <1>4, <1>5 DEF Serves, Midnight, Rests

\* The retry loops of tools/whatsapp.py run inside the lock of MessageQueue: no
\* two texts of a worker to one number are ever in their retries at once.
THEOREM RetriesKeepTheirTurn == Spec => []OneInFlightPerNumber
<1>1. Init => Headed
  BY NoCallIsIdle DEF Init, ToolInit, Headed, Tried, Texting
<1>2. TypesOK /\ Headed /\ [Next]_vars => Headed'
  BY NextServes, ServesHeaded DEF TypesOK
<1>3. Headed => OneInFlightPerNumber
  BY DEF Headed, OneInFlightPerNumber, HoldsLock
<1> QED
  BY <1>1, <1>2, <1>3, OutreachTyped, PTL DEF Spec

\* Every copy has a call behind it that is not in flight any more, or a lost
\* answer.
InFlight(m) == {c \in Callers : call[c].pc = "sending" /\ call[c].msg = m}
Accounted(m) == copies[m] + Cardinality(InFlight(m)) <= begun[m] + lost[m]
Explained == \A m \in Messages : Accounted(m)

LEMMA ServesExplained ==
    ASSUME ToolTypeOK, Explained, Serves
    PROVE  Explained'
<1> SUFFICES ASSUME NEW p \in Messages PROVE Accounted(p)'
  BY DEF Explained
<1>1. /\ copies[p] \in Nat /\ begun[p] \in Nat /\ lost[p] \in Nat
      /\ InFlight(p) \in SUBSET Callers /\ InFlight(p)' \in SUBSET Callers
      /\ Accounted(p)
  BY DEF ToolTypeOK, InFlight, Explained
<1>2. /\ Cardinality(InFlight(p)) \in Nat /\ Cardinality(InFlight(p)') \in Nat
      /\ InFlight(p)' \subseteq InFlight(p)
           => Cardinality(InFlight(p)') <= Cardinality(InFlight(p))
      /\ \A c \in Callers : InFlight(p)' \subseteq InFlight(p) \cup {c}
           => Cardinality(InFlight(p)') <= Cardinality(InFlight(p)) + 1
      /\ \A c \in InFlight(p) : InFlight(p)' \subseteq InFlight(p) \ {c}
           => Cardinality(InFlight(p)') + 1 <= Cardinality(InFlight(p))
  BY <1>1, Counting
<1>3. CASE /\ InFlight(p)' \subseteq InFlight(p)
           /\ UNCHANGED <<copies, begun, lost>>
  BY <1>1, <1>2, <1>3 DEF Accounted
<1>4. ASSUME NEW c \in Callers, NEW n \in Numbers, NEW m \in Messages, Sends(c, n, m)
      PROVE  Accounted(p)'
  <2>1. SendKind(c, n, m) /\ call[c].pc = "idle" /\ UNCHANGED <<copies, lost>>
    BY <1>4, SendKinds
  <2>2. ASSUME NEW r \in Results, Answer(c, n, m, r)
        PROVE  InFlight(p)' \subseteq InFlight(p)
    BY <2>2, AnswerEffect DEF InFlight
  <2>3. ASSUME NEW v \in BOOLEAN, Enter(c, n, m, v)
        PROVE  Accounted(p)'
    <3>2. call'[c].msg = m /\ \A d \in Callers \ {c} : call'[d] = call[d]
      BY <2>3, EnterEffect
    <3>3. CASE p = m
      <4>1. InFlight(p)' \subseteq InFlight(p) \cup {c}
        BY <3>2 DEF InFlight
      <4>2. begun'[p] = begun[p] + 1
        BY <2>3, <3>3 DEF Enter, ToolTypeOK
      <4> QED
        BY <1>1, <1>2, <2>1, <4>1, <4>2 DEF Accounted
    <3>4. CASE p # m
      <4>1. InFlight(p)' \subseteq InFlight(p)
        BY <3>2, <3>4 DEF InFlight
      <4>2. begun'[p] = begun[p]
        BY <2>3, <3>4 DEF Enter, ToolTypeOK
      <4> QED
        BY <1>1, <1>2, <2>1, <4>1, <4>2 DEF Accounted
    <3> QED
      BY <3>3, <3>4
  <2>4. CASE Answer(c, n, m, "noop") /\ UNCHANGED <<tool, queue, begun>>
    BY <1>3, <2>1, <2>2, <2>4 DEF Results
  <2>5. CASE Refuse(c, n, m)
    BY <1>3, <2>1, <2>2, <2>5 DEF Refuse, Results
  <2> QED
    BY <2>1, <2>3, <2>4, <2>5 DEF SendKind, Admit
<1>5. ASSUME NEW c \in Callers, Post(c)
      PROVE  Accounted(p)'
  <2>1. Posting(c) /\ PostKind(c) /\ UNCHANGED begun
    BY <1>5, PostKinds
  <2> DEFINE m == call[c].msg
  <2>2. m \in Messages /\ c \in InFlight(m)
    BY <2>1 DEF ToolTypeOK, Call, Posting, InFlight
  <2>3. ASSUME NEW k \in Call, SameText(c, k), Retry(c, k)
        PROVE  InFlight(p)' \subseteq InFlight(p)
    BY <2>1, <2>3 DEF SameText, Retry, InFlight, Posting, ToolTypeOK
  <2>4. ASSUME NEW r \in Results, Return(c, r)
        PROVE  InFlight(p)' \subseteq InFlight(p) \ {c}
    BY <2>4 DEF Return, InFlight, ToolTypeOK
  <2>5. ASSUME Deliver(m, 1), InFlight(p)' \subseteq InFlight(p)
        PROVE  Accounted(p)'
    <3>1. copies'[p] - copies[p] = lost'[p] - lost[p] /\ copies'[p] \in Nat /\ lost'[p] \in Nat
      BY <1>1, <2>2, <2>5 DEF Deliver, ToolTypeOK
    <3> QED
      BY <1>1, <1>2, <2>1, <2>5, <3>1 DEF Accounted
  <2>6. ASSUME Deliver(m, 0), InFlight(p)' \subseteq InFlight(p) \ {c}
        PROVE  Accounted(p)'
    <3>1. lost'[p] = lost[p]
      BY <1>1, <2>6 DEF Deliver, ToolTypeOK
    <3>2. CASE p = m
      <4>1. copies'[p] = copies[p] + 1
        BY <2>6, <3>2 DEF Deliver, ToolTypeOK
      <4> QED
        BY <1>1, <1>2, <2>1, <2>2, <2>6, <3>1, <3>2, <4>1 DEF Accounted
    <3>3. CASE p # m
      <4>1. copies'[p] = copies[p]
        BY <2>6, <3>3 DEF Deliver, ToolTypeOK
      <4>2. InFlight(p)' \subseteq InFlight(p)
        BY <2>6
      <4> QED
        BY <1>1, <1>2, <2>1, <3>1, <4>1, <4>2 DEF Accounted
    <3> QED
      BY <3>2, <3>3
  <2>7. CASE \E k \in Call : /\ SameText(c, k) /\ Retry(c, k)
                             /\ Undelivered \/ Deliver(call[c].msg, 1)
    BY <1>3, <2>1, <2>3, <2>5, <2>7 DEF Undelivered
  <2>8. CASE \E r \in Results \ {"none"} :
               /\ Return(c, r)
               /\ Undelivered \/ Deliver(call[c].msg, 0) \/ Deliver(call[c].msg, 1)
    <3>1. InFlight(p)' \subseteq InFlight(p) \ {c}
      BY <2>4, <2>8
    <3>2. InFlight(p)' \subseteq InFlight(p)
      BY <3>1
    <3> QED
      BY <1>3, <2>1, <2>5, <2>6, <2>8, <3>1, <3>2 DEF Undelivered
  <2> QED
    BY <2>1, <2>7, <2>8 DEF PostKind
<1>6. ASSUME NEW c \in Callers, Collect(c)
      PROVE  Accounted(p)'
  BY <1>3, <1>6, NoCallIsIdle DEF Collect, InFlight, ToolTypeOK, sentVars
<1>7. CASE UNCHANGED <<callVars, copies, begun, lost>>
  BY <1>3, <1>7 DEF callVars, InFlight
<1>8. ASSUME NEW w \in Workers, Restart(w)
      PROVE  Accounted(p)'
  <2>1. PICK posts \in SUBSET {c \in Callers : c[1] = w /\ Posting(c)} :
          /\ copies' = [m \in Messages |-> copies[m] + Arriving(posts, m)]
          /\ lost' = [m \in Messages |-> lost[m] + Arriving(posts, m)]
    BY <1>8 DEF Restart, Arriving
  <2>2. Arriving(posts, p) \in Nat
    BY ArrivingCounted
  <2>3. InFlight(p)' \subseteq InFlight(p)
    BY <1>8, NoCallIsIdle DEF Restart, InFlight
  <2>4. begun' = begun
    BY <1>8 DEF Restart
  <2>5. copies'[p] = copies[p] + Arriving(posts, p) /\ lost'[p] = lost[p] + Arriving(posts, p)
    BY <2>1
  <2> QED
    BY <1>1, <1>2, <2>2, <2>3, <2>4, <2>5 DEF Accounted
<1> QED
  BY <1>4, <1>5, <1>6, <1>7, <1>8 DEF Serves, Midnight, Rests, sentVars

\* Whatever 429s, errors, timeouts, garbled answers and restarts the loops of
\* tools/whatsapp.py meet, a second copy of a message has a lost answer behind it.
THEOREM RetriesExplainTheirCopies == Spec => []CopiesExplained
<1>1. Init => Explained
  <2> SUFFICES ASSUME Init, NEW m \in Messages PROVE Accounted(m)
    BY DEF Explained
  <2>1. InFlight(m) = {}
    BY NoCallIsIdle DEF Init, ToolInit, InFlight
  <2> QED
    BY <2>1, FS_EmptySet DEF Init, ToolInit, Accounted
<1>2. TypesOK /\ Explained /\ [Next]_vars => Explained'
  BY NextServes, ServesExplained DEF TypesOK
<1>3. TypesOK /\ Explained => CopiesExplained
  <2> SUFFICES ASSUME TypesOK, Explained, NEW m \in Messages
               PROVE  copies[m] <= begun[m] + lost[m]
    BY DEF CopiesExplained
  <2>1. Accounted(m) /\ InFlight(m) \in SUBSET Callers
    BY DEF Explained, InFlight
  <2>2. Cardinality(InFlight(m)) \in Nat
    BY <2>1, Counting
  <2> QED
    BY <2>1, <2>2 DEF Accounted, TypesOK, ToolTypeOK
<1> QED
  BY <1>1, <1>2, <1>3, OutreachTyped, PTL DEF Spec

-----------------------------------------------------------------------------
(* The tools: warm-up *)

\* The texts admitted and not yet answered are at most one for each caller.  Once
\* a day is counted, the count lags behind them and the volume behind both.
Flight(t) == {c \in CallersOf(t) : Texting(c)}
Crew(t) == Cardinality(CallersOf(t))
Flying(t) == Cardinality(Flight(t))
Counts(t) ==
    /\ tool[t].warmUpDay <= day /\ tool[t].counted \in {0} \cup FirstDay .. day
    /\ tool[t].counted = 0 => tool[t].sent = 0 /\ Flying(t) = 0
    /\ day = FirstDay => volume[t] <= tool[t].sent
    /\ tool[t].counted # day => volume[t] + Flying(t) <= Crew(t)
    /\ tool[t].counted = day =>
         /\ volume[t] <= Crew(t) + tool[t].sent
         /\ tool[t].sent + Flying(t) <= get_warm_up_limit(tool[t].warmUpDay) - 1 + Crew(t)
Counted == mode = "warming" => \A t \in Tools : Counts(t)

LEMMA LimitsGrow ==
    ASSUME NEW d \in Nat, NEW e \in Nat, d <= e
    PROVE  /\ get_warm_up_limit(d) \in Nat /\ get_warm_up_limit(d) >= 1
           /\ get_warm_up_limit(d) <= get_warm_up_limit(e)
BY ToolAssumption DEF get_warm_up_limit

LEMMA Aboard ==
    ASSUME NEW t
    PROVE  /\ Flying(t) \in Nat /\ Crew(t) \in Nat /\ Flying(t) <= Crew(t)
           /\ Flying(t)' \in Nat /\ Crew(t)' = Crew(t) /\ Flying(t)' <= Crew(t)
           /\ Flight(t)' \subseteq Flight(t) => Flying(t)' <= Flying(t)
           /\ \A c \in Flight(t) :
                Flight(t)' \subseteq Flight(t) \ {c} => Flying(t)' + 1 <= Flying(t)
<1>1. /\ Flight(t) \in SUBSET Callers /\ Flight(t)' \in SUBSET Callers
      /\ CallersOf(t) \in SUBSET Callers /\ CallersOf(t)' = CallersOf(t)
      /\ Flight(t) \subseteq CallersOf(t) /\ Flight(t)' \subseteq CallersOf(t)
  BY DEF Flight, CallersOf, Host
<1>2. /\ Cardinality(Flight(t)) \in Nat /\ Cardinality(CallersOf(t)) \in Nat
      /\ Cardinality(Flight(t)) <= Cardinality(CallersOf(t))
  BY <1>1, Counting
<1>3. /\ Cardinality(Flight(t)') \in Nat
      /\ Cardinality(Flight(t)') <= Cardinality(CallersOf(t))
  BY <1>1, Counting
<1>4. /\ Flight(t)' \subseteq Flight(t)
           => Cardinality(Flight(t)') <= Cardinality(Flight(t))
      /\ \A c \in Flight(t) : Flight(t)' \subseteq Flight(t) \ {c}
           => Cardinality(Flight(t)') + 1 <= Cardinality(Flight(t))
  BY <1>1, Counting
<1>5. Crew(t)' = Cardinality(CallersOf(t))
  BY <1>1 DEF Crew
<1> QED
  BY <1>2, <1>3, <1>4, <1>5 DEF Flying, Crew

\* What Counts needs of the state, as plain numbers.
LEMMA CountsTyped ==
    ASSUME ToolTypeOK, NEW t \in Tools
    PROVE  /\ tool[t].sent \in Nat /\ volume[t] \in Nat /\ day \in Nat /\ day >= 1
           /\ day >= FirstDay /\ FirstDay \in Nat /\ FirstDay >= 1
           /\ tool[t].counted \in Nat /\ tool[t].warmUpDay \in Nat
           /\ get_warm_up_limit(tool[t].warmUpDay) \in Nat
           /\ get_warm_up_limit(tool[t].warmUpDay) >= 1
<1>1. /\ tool[t].sent \in Nat /\ volume[t] \in Nat /\ day \in Nat /\ day >= FirstDay
      /\ FirstDay \in Nat /\ FirstDay >= 1
      /\ tool[t].counted \in Nat /\ tool[t].warmUpDay \in Nat
  BY ToolAssumption DEF ToolTypeOK, Tool
<1> QED
  BY <1>1, LimitsGrow

\* Landing: texts are answered, and counted at most as often as the volume grows.
LEMMA Landing ==
    ASSUME ToolTypeOK, ToolTypeOK', NEW t \in Tools, Counts(t), day' = day,
           tool'[t].warmUpDay = tool[t].warmUpDay,
           tool'[t].counted = tool[t].counted,
           NEW k \in Nat, tool'[t].sent = tool[t].sent + k,
           volume'[t] = volume[t] + k, Flying(t)' + k <= Flying(t)
    PROVE  Counts(t)'
<1>1. /\ tool[t].sent \in Nat /\ volume[t] \in Nat /\ day \in Nat
      /\ tool[t].counted \in Nat /\ tool[t].warmUpDay \in Nat
      /\ get_warm_up_limit(tool[t].warmUpDay) \in Nat
  BY CountsTyped
<1>2. /\ Flying(t) \in Nat /\ Crew(t) \in Nat /\ Flying(t)' \in Nat /\ Crew(t)' = Crew(t)
  BY Aboard
<1>3. get_warm_up_limit(tool[t].warmUpDay)' = get_warm_up_limit(tool[t].warmUpDay)
  BY DEF get_warm_up_limit
<1>4. CASE tool[t].counted = 0
  BY <1>1, <1>2, <1>3, <1>4 DEF Counts
<1>5. CASE tool[t].counted # 0
  BY <1>1, <1>2, <1>3, <1>5 DEF Counts
<1> QED
  BY <1>4, <1>5

\* Rolling: the first check of a day sets the count to zero.
LEMMA Rolling ==
    ASSUME ToolTypeOK, ToolTypeOK', NEW t \in Tools, Counts(t), day' = day,
           tool'[t] = Rolled(t), volume'[t] = volume[t],
           \/ Flying(t)' <= Flying(t)
           \/ Rolled(t).sent < get_warm_up_limit(tool[t].warmUpDay)
    PROVE  Counts(t)'
<1>1. /\ tool[t].sent \in Nat /\ volume[t] \in Nat /\ day \in Nat /\ day >= 1
      /\ tool[t].counted \in Nat /\ tool[t].warmUpDay \in Nat
      /\ get_warm_up_limit(tool[t].warmUpDay) \in Nat
      /\ get_warm_up_limit(tool[t].warmUpDay) >= 1 /\ day >= FirstDay
      /\ FirstDay \in Nat /\ FirstDay >= 1
  BY CountsTyped
<1>2. /\ Flying(t) \in Nat /\ Crew(t) \in Nat /\ Flying(t)' \in Nat /\ Crew(t)' = Crew(t)
      /\ Flying(t) <= Crew(t) /\ Flying(t)' <= Crew(t)
  BY Aboard
<1>3. get_warm_up_limit(tool'[t].warmUpDay) = get_warm_up_limit(tool[t].warmUpDay)
      /\ tool'[t].warmUpDay = tool[t].warmUpDay /\ tool'[t].counted = day
      /\ tool'[t].sent = IF tool[t].counted \in {0, day} THEN tool[t].sent ELSE 0
  BY RolledTyped
<1>4. get_warm_up_limit(tool[t].warmUpDay)' = get_warm_up_limit(tool[t].warmUpDay)
  BY <1>3 DEF get_warm_up_limit
<1>5. CASE tool[t].counted = day
  <2>1. tool'[t].sent = tool[t].sent
    BY <1>3, <1>5
  <2>2. tool'[t].sent + Flying(t)' <= get_warm_up_limit(tool[t].warmUpDay) - 1 + Crew(t)
    BY <1>1, <1>2, <1>5, <2>1 DEF Counts
  <2> QED
    BY <1>1, <1>2, <1>3, <1>4, <1>5, <2>1, <2>2 DEF Counts
<1>6. CASE tool[t].counted # day
  <2>1. tool'[t].sent = 0
    BY <1>1, <1>3, <1>6 DEF Counts
  <2>2. volume[t] <= Crew(t)
    BY <1>1, <1>2, <1>6 DEF Counts
  <2>3. day = FirstDay => volume[t] = 0
    <3> SUFFICES ASSUME day = FirstDay PROVE volume[t] = 0
      OBVIOUS
    <3>1. tool[t].counted = 0
      BY <1>1, <1>6 DEF Counts
    <3> QED
      BY <1>1, <3>1 DEF Counts
  <2> QED
    BY <1>1, <1>2, <1>3, <1>4, <2>1, <2>2, <2>3 DEF Counts
<1> QED
  BY <1>5, <1>6

LEMMA ServesCounted ==
    ASSUME ToolTypeOK, ToolTypeOK', Counted, Serves
    PROVE  Counted'
<1> SUFFICES ASSUME mode = "warming", NEW t \in Tools PROVE Counts(t)'
  <2>1. mode' = mode
    BY SendKinds, PostKinds
    DEF Serves, Collect, Midnight, Restart, Rests, config
  <2> QED
    BY <2>1 DEF Counted
<1>1. Counts(t)
  BY DEF Counted
<1>2. Flying(t) \in Nat /\ Flying(t)' \in Nat
      /\ (Flight(t)' \subseteq Flight(t) => Flying(t)' <= Flying(t))
  BY Aboard
<1>3. CASE Flight(t)' \subseteq Flight(t) /\ UNCHANGED <<day, tool, volume>>
  <2>1. tool[t].sent \in Nat /\ volume[t] \in Nat
    BY CountsTyped
  <2>2. tool'[t].sent = tool[t].sent + 0 /\ volume'[t] = volume[t] + 0
        /\ Flying(t)' + 0 <= Flying(t) /\ 0 \in Nat
    BY <1>2, <1>3, <2>1
  <2>3. tool'[t].warmUpDay = tool[t].warmUpDay /\ tool'[t].counted = tool[t].counted
        /\ day' = day
    BY <1>3
  <2> QED
    BY <1>1, <2>2, <2>3, Landing
<1>4. ASSUME NEW c \in Callers, NEW n \in Numbers, NEW m \in Messages, Sends(c, n, m)
      PROVE  Counts(t)'
  <2>1. SendKind(c, n, m) /\ call[c].pc = "idle" /\ UNCHANGED <<day, volume, mode>>
    BY <1>4, SendKinds DEF config
  <2>2. ASSUME NEW r \in Results, Answer(c, n, m, r)
        PROVE  Flight(t)' \subseteq Flight(t)
    BY <2>2, AnswerEffect DEF Flight, Texting, CallersOf
  <2>3. ASSUME Enter(c, n, m, TRUE)
        PROVE  Flight(t)' \subseteq Flight(t)
    <3>1. call'[c].media = TRUE /\ \A d \in Callers \ {c} : call'[d] = call[d]
      BY <2>3, EnterEffect
    <3> QED
      BY <3>1 DEF Flight, Texting, CallersOf
  <2>4. CASE Answer(c, n, m, "noop") /\ UNCHANGED <<tool, queue, begun>>
    BY <1>3, <2>1, <2>2, <2>4 DEF Results
  <2>5. CASE Enter(c, n, m, TRUE) /\ UNCHANGED <<tool, queue>>
    BY <1>3, <2>1, <2>3, <2>5
  <2>6. CASE Refuse(c, n, m) \/ Admit(c, n, m)
    <3>1. tool' = [tool EXCEPT ![Host(c)] = Rolled(Host(c))]
      BY <2>6 DEF Refuse, Admit
    <3>2. CASE Host(c) = t
      <4>1. tool'[t] = Rolled(t)
        BY <3>1, <3>2 DEF ToolTypeOK
      <4>2. CASE Refuse(c, n, m)
        <5>1. Flying(t)' <= Flying(t)
          BY <1>2, <2>2, <4>2 DEF Refuse, Results
        <5> QED
          BY <1>1, <2>1, <4>1, <5>1, Rolling
      <4>3. CASE Admit(c, n, m)
        <5>1. ~LimitReached(t)
          BY <3>2, <4>3 DEF Admit
        <5>2. ~(Rolled(t).sent >= get_warm_up_limit(tool[t].warmUpDay))
          BY <5>1 DEF LimitReached
        <5>3. Rolled(t).sent \in Nat /\ get_warm_up_limit(tool[t].warmUpDay) \in Nat
          BY RolledTyped, CountsTyped DEF Tool
        <5>4. Rolled(t).sent < get_warm_up_limit(tool[t].warmUpDay)
          BY <5>2, <5>3
        <5> QED
          BY <1>1, <2>1, <4>1, <5>4, Rolling
      <4> QED
        BY <2>6, <4>2, <4>3
    <3>3. CASE Host(c) # t
      <4>1. tool'[t] = tool[t]
        BY <3>1, <3>3 DEF ToolTypeOK
      <4>2. Flight(t)' \subseteq Flight(t)
        <5>1. \A d \in Callers \ {c} : call'[d] = call[d]
          BY <2>6, AnswerEffect, EnterEffect DEF Refuse, Admit, Results
        <5> QED
          BY <3>3, <5>1 DEF Flight, Texting, CallersOf
      <4>3. tool[t].sent \in Nat /\ volume[t] \in Nat
        BY CountsTyped
      <4>4. tool'[t].sent = tool[t].sent + 0 /\ volume'[t] = volume[t] + 0
            /\ Flying(t)' + 0 <= Flying(t) /\ 0 \in Nat
        BY <1>2, <2>1, <4>1, <4>2, <4>3
      <4>5. tool'[t].warmUpDay = tool[t].warmUpDay /\ tool'[t].counted = tool[t].counted
            /\ day' = day
        BY <2>1, <4>1
      <4> QED
        BY <1>1, <4>4, <4>5, Landing
    <3> QED
      BY <3>2, <3>3
  <2> QED
    BY <2>1, <2>4, <2>5, <2>6 DEF SendKind
<1>5. ASSUME NEW c \in Callers, Post(c)
      PROVE  Counts(t)'
  <2>1. Posting(c) /\ PostKind(c) /\ day' = day
    BY <1>5, PostKinds
  <2>2. ASSUME NEW k \in Call, SameText(c, k), Retry(c, k)
        PROVE  Counts(t)'
    <3>1. Flight(t)' \subseteq Flight(t)
      BY <2>1, <2>2 DEF SameText, Retry, Flight, Texting, CallersOf, Posting, ToolTypeOK
    <3> QED
      BY <1>3, <2>1, <2>2, <3>1 DEF Retry
  <2>3. ASSUME NEW r \in Results, Return(c, r)
        PROVE  Counts(t)'
    <3>1. Flight(t)' \subseteq Flight(t) \ {c}
      BY <2>3 DEF Return, Flight, Texting, CallersOf, ToolTypeOK
    <3>2. CASE call[c].media
      <4>1. Flight(t)' \subseteq Flight(t)
        BY <3>1
      <4> QED
        BY <1>3, <2>1, <2>3, <3>2, <4>1 DEF Return
    <3>3. CASE ~call[c].media
      <4>1. PICK k \in {0, 1} :
              /\ tool' = [tool EXCEPT ![Host(c)].sent = @ + k]
              /\ volume' = [volume EXCEPT ![Host(c)] = @ + k]
        <5>1. CASE r = "ok"
          BY <2>3, <3>3, <5>1 DEF Return
        <5>2. CASE r # "ok"
          BY <2>3, <3>3, <5>2 DEF Return
        <5> QED
          BY <5>1, <5>2
      <4>2. tool[t] \in Tool /\ tool[t].sent \in Nat /\ volume[t] \in Nat /\ Host(c) \in Tools
        BY RostersTyped DEF ToolTypeOK, Tool
      <4>3. CASE Host(c) = t
        <5>1. c \in Flight(t)
          BY <2>1, <3>3, <4>3 DEF Posting, Flight, Texting, CallersOf
        <5>2. Flying(t)' + 1 <= Flying(t)
          BY <3>1, <5>1, Aboard
        <5>3. Flying(t)' + k <= Flying(t) /\ k \in Nat
          BY <1>2, <5>2
        <5>4. tool'[t] = [tool[t] EXCEPT !.sent = @ + k] /\ volume'[t] = volume[t] + k
          BY <4>1, <4>2, <4>3 DEF ToolTypeOK
        <5>5. /\ tool'[t].sent = tool[t].sent + k
              /\ tool'[t].warmUpDay = tool[t].warmUpDay
              /\ tool'[t].counted = tool[t].counted
          BY <4>2, <5>4 DEF Tool
        <5> QED
          BY <1>1, <2>1, <5>3, <5>4, <5>5, Landing
      <4>4. CASE Host(c) # t
        <5>1. tool'[t] = tool[t] /\ volume'[t] = volume[t]
          BY <4>1, <4>2, <4>4 DEF ToolTypeOK
        <5>2. Flight(t)' \subseteq Flight(t)
          BY <3>1
        <5>3. tool'[t].sent = tool[t].sent + 0 /\ volume'[t] = volume[t] + 0
              /\ Flying(t)' + 0 <= Flying(t) /\ 0 \in Nat
          BY <1>2, <4>2, <5>1, <5>2
        <5>4. tool'[t].warmUpDay = tool[t].warmUpDay /\ tool'[t].counted = tool[t].counted
          BY <5>1
        <5> QED
          BY <1>1, <2>1, <5>3, <5>4, Landing
      <4> QED
        BY <4>3, <4>4
    <3> QED
      BY <3>2, <3>3
  <2> QED
    BY <2>1, <2>2, <2>3 DEF PostKind
<1>6. ASSUME NEW c \in Callers, Collect(c)
      PROVE  Counts(t)'
  <2>1. Flight(t)' \subseteq Flight(t)
    BY <1>6, NoCallIsIdle DEF Collect, Flight, Texting, CallersOf, ToolTypeOK
  <2> QED
    BY <1>3, <1>6, <2>1 DEF Collect, sentVars
<1>7. CASE Rests
  BY <1>3, <1>7 DEF Rests, callVars, sentVars, Flight, Texting
<1>8. CASE Midnight
  <2>1. /\ tool'[t] = tool[t] /\ volume'[t] = 0 /\ day' = day + 1
        /\ Flight(t)' = Flight(t)
    BY <1>8 DEF Midnight, callVars, Flight, Texting
  <2>2. /\ tool[t].counted \in Nat /\ tool[t].warmUpDay \in Nat /\ day \in Nat
        /\ FirstDay \in Nat /\ day >= FirstDay /\ day >= 1
    BY CountsTyped
  <2>3. Flying(t)' <= Crew(t) /\ Crew(t)' = Crew(t) /\ Crew(t) \in Nat
        /\ Flying(t)' = Flying(t)
    BY <2>1, Aboard DEF Flying
  <2>4. /\ tool'[t].counted = tool[t].counted /\ tool'[t].warmUpDay = tool[t].warmUpDay
        /\ tool'[t].sent = tool[t].sent
    BY <2>1
  <2>5. tool'[t].counted # day' /\ day' # FirstDay
    BY <1>1, <2>1, <2>2, <2>4 DEF Counts
  <2> QED
    BY <1>1, <1>2, <2>1, <2>2, <2>3, <2>4, <2>5 DEF Counts
<1>9. ASSUME NEW w \in Workers, Restart(w)
      PROVE  Counts(t)'
  <2>1. Flight(t)' \subseteq Flight(t)
    BY <1>9, NoCallIsIdle DEF Restart, Flight, Texting, CallersOf
  <2>2. CASE t[1] # w
    <3>1. tool'[t] = tool[t] /\ volume'[t] = volume[t] /\ day' = day
      BY <1>9, <2>2 DEF Restart
    <3>2. tool[t].sent \in Nat /\ volume[t] \in Nat
      BY CountsTyped
    <3>3. tool'[t].sent = tool[t].sent + 0 /\ volume'[t] = volume[t] + 0
          /\ Flying(t)' + 0 <= Flying(t) /\ 0 \in Nat
      BY <1>2, <2>1, <3>1, <3>2
    <3>4. tool'[t].warmUpDay = tool[t].warmUpDay /\ tool'[t].counted = tool[t].counted
      BY <3>1
    <3> QED
      BY <1>1, <3>1, <3>3, <3>4, Landing
  <2>3. CASE t[1] = w
    <3>1. Flight(t)' = {}
      BY <1>9, <2>3, NoCallIsIdle DEF Restart, Flight, Texting, CallersOf, Host
    <3>2. Flying(t)' = 0
      BY <3>1, FS_EmptySet DEF Flying
    <3>3. /\ tool'[t].sent = 0 /\ tool'[t].counted = 0 /\ tool'[t].warmUpDay = day
          /\ volume'[t] = 0 /\ day' = day
      BY <1>9, <2>3 DEF Restart, FreshTool
    <3>4. day \in Nat /\ day >= 1 /\ Crew(t) \in Nat /\ Crew(t)' = Crew(t)
      BY CountsTyped, Aboard
    <3> QED
      BY <3>2, <3>3, <3>4 DEF Counts
  <2> QED
    BY <2>2, <2>3
<1> QED
  BY <1>4, <1>5, <1>6, <1>7, <1>8, <1>9 DEF Serves

\* The check of get_warm_up_limit comes before the lock and the count after the
\* answer: the daily limit is overrun by the calls in flight together, once for
\* those of the day and once for those left from the day before, never by more.
THEOREM WarmUpOverrunIsBounded == Spec => []WarmUpOverrunBounded
<1>1. Init => Counted
  <2> SUFFICES ASSUME Init, NEW t \in Tools PROVE Counts(t)
    BY DEF Counted
  <2>1. Flight(t) = {}
    BY NoCallIsIdle DEF Init, ToolInit, Flight, Texting, CallersOf
  <2>2. Flying(t) = 0
    BY <2>1, FS_EmptySet DEF Flying
  <2>3. /\ tool[t].sent = 0 /\ tool[t].counted = 0 /\ tool[t].warmUpDay = day
        /\ volume[t] = 0 /\ day = FirstDay
    BY DEF Init, ToolInit, FreshTool
  <2>4. FirstDay \in Nat /\ FirstDay >= 1 /\ Crew(t) \in Nat
    BY ToolAssumption, Aboard
  <2> QED
    BY <2>2, <2>3, <2>4 DEF Counts
<1>2. TypesOK /\ Counted /\ [Next]_vars => Counted'
  BY NextServes, NextTypes, ServesCounted DEF TypesOK
<1>3. TypesOK /\ Counted => WarmUpOverrunBounded
  <2> SUFFICES ASSUME TypesOK, Counted, mode = "warming", NEW t \in Tools
               PROVE  volume[t] <= get_warm_up_limit(day) - 1
                                   + (IF day = FirstDay THEN Crew(t) ELSE 2 * Crew(t))
    BY DEF WarmUpOverrunBounded, Crew
  <2>1. Counts(t) /\ Flying(t) \in Nat /\ Crew(t) \in Nat
    BY Aboard DEF Counted
  <2>2. /\ tool[t].sent \in Nat /\ volume[t] \in Nat /\ day \in Nat
        /\ tool[t].counted \in Nat /\ tool[t].warmUpDay \in Nat
        /\ get_warm_up_limit(tool[t].warmUpDay) \in Nat
        /\ get_warm_up_limit(tool[t].warmUpDay) >= 1
    BY CountsTyped DEF TypesOK
  <2>3. /\ get_warm_up_limit(day) \in Nat
        /\ get_warm_up_limit(tool[t].warmUpDay) <= get_warm_up_limit(day)
    BY <2>1, <2>2, LimitsGrow DEF Counts
  <2>4. CASE tool[t].counted = day
    BY <2>1, <2>2, <2>3, <2>4 DEF Counts
  <2>5. CASE tool[t].counted # day
    BY <2>1, <2>2, <2>3, <2>5 DEF Counts
  <2> QED
    BY <2>4, <2>5
<1> QED
  BY <1>1, <1>2, <1>3, OutreachTyped, PTL DEF Spec

-----------------------------------------------------------------------------
(* The daily report *)

\* A run that got past its claim is of the current day.  It stands for the day
\* until it is over, and after that if it sent.
Passed == {"send", "sending", "release"}
Holding(d) == senders[d] \cup {c \in Reporters : report[c].today = d /\ report[c].pc \in Passed}
Guards(d) == {w \in Workers : guard[w] = d}
Spare(d) == IF dbUrl THEN (IF d \in slot THEN 1 ELSE 0)
            ELSE IF d = day THEN Cardinality(Guards(d)) ELSE Cardinality(Workers)

Dated == \A c \in Reporters : report[c].pc \in Passed => report[c].today = day
Ahead == \A d \in Days : d > day => senders[d] = {}
Given == \A c \in Reporters :
            /\ report[c].pc = "release" => c \notin senders[report[c].today]
            /\ report[c].pc = "sending" => c \in senders[report[c].today]
            /\ report[c].pc = "release" => dbUrl
Rowless == ~dbUrl => slot = {}
Covered(d) == Cardinality(Holding(d)) <= unguarded[d] + Spare(d)
Claimed == Dated /\ Ahead /\ Given /\ Rowless /\ \A d \in Days : Covered(d)

\* What the claims of a step leave alone, and what they change.
LEMMA GuardsCounted ==
    ASSUME NEW d
    PROVE  /\ Cardinality(Guards(d)) \in Nat /\ Cardinality(Guards(d)') \in Nat
           /\ Cardinality(Workers) \in Nat
           /\ Cardinality(Guards(d)) <= Cardinality(Workers)
           /\ Cardinality(Guards(d)') <= Cardinality(Workers)
           /\ Guards(d) \subseteq Guards(d)' => Cardinality(Guards(d)) <= Cardinality(Guards(d)')
           /\ \A w \in Workers : /\ Guards(d) \subseteq Guards(d)' \cup {w}
                                   => Cardinality(Guards(d)) <= Cardinality(Guards(d)') + 1
                                 /\ w \in Guards(d)' /\ Guards(d) \subseteq Guards(d)' \ {w}
                                   => Cardinality(Guards(d)) + 1 <= Cardinality(Guards(d)')
<1>1. /\ IsFiniteSet(Guards(d)) /\ IsFiniteSet(Guards(d)') /\ IsFiniteSet(Workers)
      /\ Guards(d) \subseteq Workers /\ Guards(d)' \subseteq Workers
  BY ToolAssumption, FS_Subset DEF Guards
<1>2. /\ Cardinality(Guards(d)) \in Nat /\ Cardinality(Guards(d)') \in Nat
      /\ Cardinality(Workers) \in Nat
  BY <1>1, FS_CardinalityType
<1>3. /\ Cardinality(Guards(d)) <= Cardinality(Workers)
      /\ Cardinality(Guards(d)') <= Cardinality(Workers)
      /\ Guards(d) \subseteq Guards(d)' => Cardinality(Guards(d)) <= Cardinality(Guards(d)')
  BY <1>1, FS_Subset
<1>4. ASSUME NEW w \in Workers, Guards(d) \subseteq Guards(d)' \cup {w}
      PROVE  Cardinality(Guards(d)) <= Cardinality(Guards(d)') + 1
  <2>1. IsFiniteSet(Guards(d)' \cup {w})
    BY <1>1, FS_AddElement
  <2>2. Cardinality(Guards(d)' \cup {w})
          = IF w \in Guards(d)' THEN Cardinality(Guards(d)') ELSE Cardinality(Guards(d)') + 1
    BY <1>1, FS_AddElement
  <2>3. Cardinality(Guards(d)) <= Cardinality(Guards(d)' \cup {w})
    BY <1>4, <2>1, FS_Subset
  <2> QED
    BY <1>2, <2>2, <2>3
<1>5. ASSUME NEW w \in Guards(d)', Guards(d) \subseteq Guards(d)' \ {w}
      PROVE  Cardinality(Guards(d)) + 1 <= Cardinality(Guards(d)')
  <2>1. IsFiniteSet(Guards(d)' \ {w})
    BY <1>1, FS_RemoveElement
  <2>2. Cardinality(Guards(d)' \ {w})
          = IF w \in Guards(d)' THEN Cardinality(Guards(d)') - 1 ELSE Cardinality(Guards(d)')
    BY <1>1, FS_RemoveElement
  <2>3. Cardinality(Guards(d)) <= Cardinality(Guards(d)' \ {w})
    BY <1>5, <2>1, FS_Subset
  <2> QED
    BY <1>2, <2>2, <2>3
<1> QED
  BY <1>1, <1>2, <1>3, <1>4, <1>5

LEMMA HoldingCounted ==
    ASSUME ReportTypeOK, ReportTypeOK', NEW d \in Days
    PROVE  /\ Cardinality(Holding(d)) \in Nat /\ Cardinality(Holding(d)') \in Nat
           /\ Holding(d)' \subseteq Holding(d)
                => Cardinality(Holding(d)') <= Cardinality(Holding(d))
           /\ \A c \in Callers : Holding(d)' \subseteq Holding(d) \cup {c}
                => Cardinality(Holding(d)') <= Cardinality(Holding(d)) + 1
           /\ \A c \in Holding(d) : Holding(d)' \subseteq Holding(d) \ {c}
                => Cardinality(Holding(d)') + 1 <= Cardinality(Holding(d))
<1>1. Holding(d) \in SUBSET Callers /\ Holding(d)' \in SUBSET Callers
  BY ReportAssumption DEF Holding, ReportTypeOK
<1> QED
  BY <1>1, Counting

\* A step that lets nobody new stand for a day and takes no claim back.
LEMMA Idles ==
    ASSUME TypesOK, TypesOK', NEW d \in Days, Covered(d), UNCHANGED <<dbUrl, day, slot, guard>>,
           unguarded'[d] >= unguarded[d], Holding(d)' \subseteq Holding(d)
    PROVE  Covered(d)'
<1>1. /\ Cardinality(Holding(d)) \in Nat /\ Cardinality(Holding(d)') \in Nat
      /\ Cardinality(Holding(d)') <= Cardinality(Holding(d))
  BY HoldingCounted DEF TypesOK
<1>2. Spare(d)' = Spare(d) /\ Spare(d) \in Nat
  BY GuardsCounted DEF Spare, Guards
<1>3. unguarded[d] \in Nat /\ unguarded'[d] \in Nat
  BY DEF TypesOK, ReportTypeOK
<1> QED
  BY <1>1, <1>2, <1>3 DEF Covered

\* The moves of one run, as far as the day's claim is concerned.
LEMMA RunMoves ==
    ASSUME TypesOK, TypesOK', Claimed, NEW c \in Reporters, ReportStep(c)
    PROVE  Claimed'
<1> USE DEF Passed
<1>1. /\ c \in Callers /\ c[1] \in Workers /\ report[c] \in Run /\ day \in Days
      /\ \A d \in Days : unguarded[d] \in Nat /\ senders[d] \subseteq Reporters
  BY RostersTyped DEF TypesOK, ToolTypeOK, ReportTypeOK, Days
<1>2. CASE Fire(c)
  <2>1. UNCHANGED <<dbUrl, day, slot, guard, senders, unguarded>>
    BY <1>2 DEF Fire, toolVars, config
  <2>2. report' = [report EXCEPT ![c].pc = "claim"]
    BY <1>2 DEF Fire
  <2>3. Dated' /\ Ahead' /\ Given' /\ Rowless'
    BY <1>1, <2>1, <2>2 DEF Claimed, Dated, Ahead, Given, Rowless, TypesOK, ReportTypeOK, Run
  <2>4. ASSUME NEW d \in Days PROVE Covered(d)'
    <3>1. Holding(d)' \subseteq Holding(d)
      BY <1>1, <2>1, <2>2 DEF Holding, TypesOK, ReportTypeOK, Run
    <3>2. unguarded'[d] >= unguarded[d]
      BY <1>1, <2>1
    <3> QED
      BY <2>1, <3>1, <3>2, Idles DEF Claimed
  <2> QED
    BY <2>3, <2>4 DEF Claimed
<1>3. ASSUME Skip(c), UNCHANGED <<dbUrl, day, slot, guard, senders, unguarded>>
      PROVE  Claimed'
  <2>1. report'[c].pc = "idle" /\ \A e \in Reporters \ {c} : report'[e] = report[e]
    BY <1>3 DEF Skip, NoRun, TypesOK, ReportTypeOK
  <2>2. Dated' /\ Ahead' /\ Given' /\ Rowless'
    BY <1>3, <2>1 DEF Claimed, Dated, Ahead, Given, Rowless
  <2>3. ASSUME NEW d \in Days PROVE Covered(d)'
    <3>1. Holding(d)' \subseteq Holding(d)
      BY <1>3, <2>1 DEF Holding
    <3>2. unguarded'[d] >= unguarded[d]
      BY <1>1, <1>3
    <3> QED
      BY <1>3, <3>1, <3>2, Idles DEF Claimed
  <2> QED
    BY <2>2, <2>3 DEF Claimed
<1>4. ASSUME Proceed(c), UNCHANGED <<dbUrl, day, senders>>, Rowless',
             \A d \in Days \ {day} : /\ unguarded'[d] = unguarded[d]
                                     /\ ~dbUrl \/ slot' \cap {d} = slot \cap {d},
             unguarded'[day] + Spare(day)' >= unguarded[day] + Spare(day) + 1
      PROVE  Claimed'
  <2>1. report'[c].pc = "send" /\ report'[c].today = day
        /\ \A e \in Reporters \ {c} : report'[e] = report[e]
    BY <1>4 DEF Proceed, TypesOK, ReportTypeOK
  <2>2. Dated' /\ Ahead' /\ Given'
    BY <1>4, <2>1 DEF Claimed, Dated, Ahead, Given
  <2>3. ASSUME NEW d \in Days PROVE Covered(d)'
    <3>1. Holding(d)' \subseteq Holding(d) \cup {c} /\ (d # day => Holding(d)' \subseteq Holding(d))
      BY <1>4, <2>1 DEF Holding
    <3>2. /\ Cardinality(Holding(d)) \in Nat /\ Cardinality(Holding(d)') \in Nat
          /\ Cardinality(Holding(d)') <= Cardinality(Holding(d)) + 1
          /\ d # day => Cardinality(Holding(d)') <= Cardinality(Holding(d))
      BY <1>1, <3>1, HoldingCounted DEF TypesOK
    <3>3. Cardinality(Holding(d)) <= unguarded[d] + Spare(d)
      BY DEF Claimed, Covered
    <3>4. Spare(d) \in Nat /\ Spare(d)' \in Nat /\ unguarded[d] \in Nat /\ unguarded'[d] \in Nat
      BY GuardsCounted DEF Spare, TypesOK, ReportTypeOK
    <3>5. CASE d = day
      BY <1>4, <3>2, <3>3, <3>4, <3>5 DEF Covered
    <3>6. CASE d # day
      <4>1. Spare(d)' = Spare(d)
        BY <1>4, <3>6 DEF Spare
      <4>2. unguarded'[d] = unguarded[d]
        BY <1>4, <3>6
      <4> QED
        BY <3>2, <3>3, <3>4, <3>6, <4>1, <4>2 DEF Covered
    <3> QED
      BY <3>5, <3>6
  <2> QED
    BY <1>4, <2>2, <2>3 DEF Claimed
<1>5. CASE Claim(c)
  <2>1. UNCHANGED <<dbUrl, day, guard, senders, unguarded>> /\ slot' = slot \cup {day} /\ dbUrl
    BY <1>5 DEF Claim, toolVars, config
  <2>2. CASE day \in slot
    BY <1>3, <1>5, <2>1, <2>2 DEF Claim
  <2>3. CASE day \notin slot
    <3>1. Spare(day) = 0 /\ Spare(day)' = 1
      BY <2>1, <2>3 DEF Spare
    <3>2. unguarded'[day] + Spare(day)' >= unguarded[day] + Spare(day) + 1
      BY <1>1, <2>1, <3>1
    <3>3. Proceed(c) /\ Rowless'
      BY <1>5, <2>1, <2>3 DEF Claim, Rowless
    <3> QED
      BY <1>4, <2>1, <3>2, <3>3
  <2> QED
    BY <2>2, <2>3
<1>6. ASSUME NEW arrived \in BOOLEAN, ClaimBlind(c, arrived)
      PROVE  Claimed'
  <2>1. /\ UNCHANGED <<dbUrl, day, guard, senders>> /\ Proceed(c) /\ dbUrl
        /\ slot' = slot \/ (day \notin slot /\ slot' = slot \cup {day})
        /\ unguarded' = IF slot' = slot THEN [unguarded EXCEPT ![day] = @ + 1] ELSE unguarded
    BY <1>6 DEF ClaimBlind, config
  <2>2. Rowless' /\ \A d \in Days \ {day} : slot' \cap {d} = slot \cap {d}
    BY <2>1 DEF Rowless
  <2>3. CASE slot' = slot
    <3>1. Spare(day)' = Spare(day) /\ Spare(day) \in Nat
      BY <2>1, <2>3, GuardsCounted DEF Spare, Guards
    <3>2. /\ unguarded'[day] = unguarded[day] + 1
          /\ \A d \in Days \ {day} : unguarded'[d] = unguarded[d]
      BY <1>1, <2>1, <2>3 DEF TypesOK, ReportTypeOK
    <3>3. unguarded'[day] + Spare(day)' >= unguarded[day] + Spare(day) + 1
      BY <1>1, <3>1, <3>2
    <3> QED
      BY <1>4, <2>1, <2>2, <3>2, <3>3
  <2>4. CASE slot' # slot
    <3>1. Spare(day) = 0 /\ Spare(day)' = 1 /\ unguarded' = unguarded
      BY <2>1, <2>4 DEF Spare
    <3>2. unguarded'[day] + Spare(day)' >= unguarded[day] + Spare(day) + 1
      BY <1>1, <3>1
    <3> QED
      BY <1>4, <2>1, <2>2, <3>1, <3>2
  <2> QED
    BY <2>3, <2>4
<1>7. CASE ClaimInProcess(c)
  <2>1. /\ UNCHANGED <<dbUrl, day, senders, slot, unguarded>> /\ ~dbUrl
        /\ guard' = [guard EXCEPT ![c[1]] = day]
    BY <1>7 DEF ClaimInProcess, toolVars, config
  <2>2. CASE guard[c[1]] = day
    <3>1. guard' = guard
      BY <1>1, <2>1, <2>2 DEF TypesOK, ReportTypeOK
    <3> QED
      BY <1>3, <1>7, <2>1, <2>2, <3>1 DEF ClaimInProcess
  <2>3. CASE guard[c[1]] # day
    <3>0. PICK d \in Days : d = day
      BY <1>1
    <3>1. c[1] \in Guards(d)' /\ Guards(d) \subseteq Guards(d)' \ {c[1]}
      BY <1>1, <2>1, <2>3, <3>0 DEF Guards, TypesOK, ReportTypeOK
    <3>2. Cardinality(Guards(d)) + 1 <= Cardinality(Guards(d)')
          /\ Cardinality(Guards(d)) \in Nat /\ Cardinality(Guards(d)') \in Nat
      BY <1>1, <3>1, GuardsCounted
    <3>3. Spare(day) = Cardinality(Guards(d)) /\ Spare(day)' = Cardinality(Guards(d)')
      BY <2>1, <3>0 DEF Spare, Guards
    <3>4. unguarded'[day] + Spare(day)' >= unguarded[day] + Spare(day) + 1
      BY <1>1, <2>1, <3>2, <3>3
    <3>5. Proceed(c) /\ Rowless'
      BY <1>7, <2>1, <2>3 DEF ClaimInProcess, Claimed, Rowless
    <3> QED
      BY <1>4, <2>1, <3>4, <3>5
  <2> QED
    BY <2>2, <2>3
<1>8. CASE Send(c)
  <2>1. /\ UNCHANGED <<dbUrl, day, slot, guard, unguarded>> /\ report[c].pc = "send"
        /\ report[c].today \in Days
        /\ report' = [report EXCEPT ![c].pc = "sending"]
        /\ senders' = [senders EXCEPT ![report[c].today] = @ \cup {c}]
    BY <1>1, <1>8 DEF Send, send_message, config, Run
  <2>2. report'[c].pc = "sending" /\ report'[c].today = report[c].today
        /\ \A e \in Reporters \ {c} : report'[e] = report[e]
    BY <1>1, <2>1 DEF TypesOK, ReportTypeOK, Run
  <2>3. report[c].today = day
    BY <2>1 DEF Claimed, Dated
  <2>4. senders'[day] = senders[day] \cup {c} /\ \A d \in Days \ {day} : senders'[d] = senders[d]
    BY <2>1, <2>3 DEF TypesOK, ReportTypeOK
  <2>5. Dated' /\ Rowless'
    BY <2>1, <2>2, <2>3 DEF Claimed, Dated, Rowless
  <2>6. Ahead'
    <3> SUFFICES ASSUME NEW d \in Days, d > day PROVE senders'[d] = {}
      BY <2>1 DEF Ahead
    <3>1. d # day
      BY <1>1, ToolAssumption DEF Days
    <3> QED
      BY <2>4, <3>1 DEF Claimed, Ahead
  <2>7. Given'
    <3> SUFFICES ASSUME NEW e \in Reporters
                 PROVE  /\ report'[e].pc = "release" => e \notin senders'[report'[e].today]
                        /\ report'[e].pc = "sending" => e \in senders'[report'[e].today]
                        /\ report'[e].pc = "release" => dbUrl
      BY <2>1 DEF Given
    <3>1. CASE e = c
      BY <2>2, <2>3, <2>4, <3>1
    <3>2. CASE e # c
      <4>1. report'[e] = report[e] /\ report[e].today \in Days
        BY <2>2, <3>2 DEF TypesOK, ReportTypeOK, Run
      <4> QED
        BY <2>4, <3>2, <4>1 DEF Claimed, Given
    <3> QED
      BY <3>1, <3>2
  <2>8. ASSUME NEW d \in Days PROVE Covered(d)'
    <3>1. Holding(d)' \subseteq Holding(d)
      BY <2>1, <2>2, <2>3, <2>4 DEF Holding
    <3>2. unguarded'[d] >= unguarded[d]
      BY <1>1, <2>1
    <3> QED
      BY <2>1, <3>1, <3>2, Idles DEF Claimed
  <2> QED
    BY <2>5, <2>6, <2>7, <2>8 DEF Claimed
<1>9. CASE Sent(c)
  BY <1>3, <1>9 DEF Sent, Collect, config
<1>10. CASE SendRaised(c)
  <2>1. /\ UNCHANGED <<dbUrl, day, slot, unguarded>> /\ report[c].pc = "sending"
        /\ report[c].today \in Days
        /\ senders' = [senders EXCEPT ![report[c].today] = @ \ {c}]
    BY <1>1, <1>10 DEF SendRaised, Collect, config, Run
  <2>2. report[c].today = day /\ c \in senders[day]
    BY <2>1 DEF Claimed, Dated, Given
  <2>3. senders'[day] = senders[day] \ {c} /\ \A d \in Days \ {day} : senders'[d] = senders[d]
    BY <2>1, <2>2 DEF TypesOK, ReportTypeOK
  <2>4. Ahead' /\ Rowless'
    BY <2>1, <2>3 DEF Claimed, Ahead, Rowless
  <2>5. CASE dbUrl
    <3>1. report' = [report EXCEPT ![c].pc = "release"] /\ guard' = guard
      BY <1>10, <2>5 DEF SendRaised
    <3>2. report'[c].pc = "release" /\ report'[c].today = day
          /\ \A e \in Reporters \ {c} : report'[e] = report[e]
      BY <1>1, <2>2, <3>1 DEF TypesOK, ReportTypeOK, Run
    <3>3. Dated'
      BY <2>1, <3>2 DEF Claimed, Dated
    <3>4. Given'
      <4> SUFFICES ASSUME NEW e \in Reporters
                   PROVE  /\ report'[e].pc = "release" => e \notin senders'[report'[e].today]
                          /\ report'[e].pc = "sending" => e \in senders'[report'[e].today]
                          /\ report'[e].pc = "release" => dbUrl
        BY <2>1 DEF Given
      <4>1. CASE e = c
        BY <2>3, <2>5, <3>2, <4>1
      <4>2. CASE e # c
        <5>1. report'[e] = report[e] /\ report[e].today \in Days
          BY <3>2, <4>2 DEF TypesOK, ReportTypeOK, Run
        <5> QED
          BY <2>3, <4>2, <5>1 DEF Claimed, Given
      <4> QED
        BY <4>1, <4>2
    <3>5. ASSUME NEW d \in Days PROVE Covered(d)'
      <4>1. Holding(d)' \subseteq Holding(d)
        BY <2>2, <2>3, <3>2 DEF Holding
      <4>2. unguarded'[d] >= unguarded[d]
        BY <1>1, <2>1
      <4> QED
        BY <2>1, <3>1, <4>1, <4>2, Idles DEF Claimed
    <3> QED
      BY <2>4, <3>3, <3>4, <3>5 DEF Claimed
  <2>6. CASE ~dbUrl
    <3>1. Skip(c) /\ guard' = [guard EXCEPT ![c[1]] = 0]
      BY <1>10, <2>6 DEF SendRaised
    <3>2. report'[c].pc = "idle" /\ \A e \in Reporters \ {c} : report'[e] = report[e]
      BY <3>1 DEF Skip, NoRun, TypesOK, ReportTypeOK
    <3>3. Dated'
      BY <2>1, <3>2 DEF Claimed, Dated
    <3>4. Given'
      <4> SUFFICES ASSUME NEW e \in Reporters, report'[e].pc \in {"release", "sending"}
                   PROVE  /\ report'[e].pc = "release" => e \notin senders'[report'[e].today]
                          /\ report'[e].pc = "sending" => e \in senders'[report'[e].today]
                          /\ report'[e].pc = "release" => dbUrl
        BY <2>1 DEF Given
      <4>1. e # c /\ report'[e] = report[e] /\ report[e].today \in Days
        BY <3>2 DEF TypesOK, ReportTypeOK, Run
      <4> QED
        BY <2>3, <4>1 DEF Claimed, Given
    <3>5. ASSUME NEW d \in Days PROVE Covered(d)'
      <4>1. Holding(d)' \subseteq Holding(d) /\ (d = day => Holding(d)' \subseteq Holding(d) \ {c})
        BY <2>2, <2>3, <3>2 DEF Holding
      <4>2. c \in Holding(day)
        BY <2>2 DEF Holding
      <4>3. /\ Cardinality(Holding(d)) \in Nat /\ Cardinality(Holding(d)') \in Nat
            /\ Cardinality(Holding(d)') <= Cardinality(Holding(d))
            /\ d = day => Cardinality(Holding(d)') + 1 <= Cardinality(Holding(d))
        BY <1>1, <4>1, <4>2, HoldingCounted DEF TypesOK
      <4>4. Guards(d) \subseteq Guards(d)' \cup {c[1]}
        BY <1>1, <3>1 DEF Guards, TypesOK, ReportTypeOK
      <4>5. /\ Cardinality(Guards(d)) \in Nat /\ Cardinality(Guards(d)') \in Nat
            /\ Cardinality(Guards(d)) <= Cardinality(Guards(d)') + 1
            /\ Cardinality(Workers) \in Nat
        BY <1>1, <4>4, GuardsCounted
      <4>6. Cardinality(Holding(d)) <= unguarded[d] + Spare(d) /\ unguarded'[d] = unguarded[d]
            /\ unguarded[d] \in Nat
        BY <1>1, <2>1 DEF Claimed, Covered
      <4>7. CASE d = day
        <5>1. Spare(d) = Cardinality(Guards(d)) /\ Spare(d)' = Cardinality(Guards(d)')
          BY <2>1, <2>6, <4>7 DEF Spare
        <5> QED
          BY <4>3, <4>5, <4>6, <4>7, <5>1 DEF Covered
      <4>8. CASE d # day
        <5>1. Spare(d) = Cardinality(Workers) /\ Spare(d)' = Cardinality(Workers)
          BY <2>1, <2>6, <4>8 DEF Spare
        <5> QED
          BY <4>3, <4>5, <4>6, <5>1 DEF Covered
      <4> QED
        BY <4>7, <4>8
    <3> QED
      BY <2>4, <3>3, <3>4, <3>5 DEF Claimed
  <2> QED
    BY <2>5, <2>6
<1>11. ASSUME NEW fails \in BOOLEAN, Release(c, fails)
       PROVE  Claimed'
  <2>1. /\ UNCHANGED <<dbUrl, day, guard, unguarded, senders>> /\ report[c].pc = "release"
        /\ report[c].today = day /\ dbUrl /\ c \notin senders[day]
    BY <1>11 DEF Release, config, Claimed, Dated, Given
  <2>2. Skip(c) /\ (slot' = slot \/ slot' = slot \ {day})
    BY <1>11, <2>1 DEF Release
  <2>3. CASE slot' = slot
    BY <1>3, <2>1, <2>2, <2>3
  <2>4. CASE slot' = slot \ {day}
    <3>1. report'[c].pc = "idle" /\ \A e \in Reporters \ {c} : report'[e] = report[e]
      BY <2>2 DEF Skip, NoRun, TypesOK, ReportTypeOK
    <3>2. Dated' /\ Ahead' /\ Given' /\ Rowless'
      BY <2>1, <2>4, <3>1 DEF Claimed, Dated, Ahead, Given, Rowless
    <3>3. ASSUME NEW d \in Days PROVE Covered(d)'
      <4>1. Holding(d)' \subseteq Holding(d) /\ (d = day => Holding(d)' \subseteq Holding(d) \ {c})
        BY <2>1, <3>1 DEF Holding
      <4>2. c \in Holding(day)
        BY <2>1 DEF Holding
      <4>3. /\ Cardinality(Holding(d)) \in Nat /\ Cardinality(Holding(d)') \in Nat
            /\ Cardinality(Holding(d)') <= Cardinality(Holding(d))
            /\ d = day => Cardinality(Holding(d)') + 1 <= Cardinality(Holding(d))
        BY <1>1, <4>1, <4>2, HoldingCounted DEF TypesOK
      <4>4. Cardinality(Holding(d)) <= unguarded[d] + Spare(d) /\ unguarded'[d] = unguarded[d]
            /\ unguarded[d] \in Nat
        BY <1>1, <2>1 DEF Claimed, Covered
      <4>5. CASE d = day
        <5>1. Spare(d) \in {0, 1} /\ Spare(d)' = 0
          BY <2>1, <2>4, <4>5 DEF Spare
        <5> QED
          BY <4>3, <4>4, <4>5, <5>1 DEF Covered
      <4>6. CASE d # day
        <5>1. Spare(d)' = Spare(d) /\ Spare(d) \in {0, 1}
          BY <2>1, <2>4, <4>6 DEF Spare
        <5> QED
          BY <4>3, <4>4, <5>1 DEF Covered
      <4> QED
        BY <4>5, <4>6
    <3> QED
      BY <3>2, <3>3 DEF Claimed
  <2> QED
    BY <2>2, <2>3, <2>4
<1> QED
  BY <1>2, <1>5, <1>6, <1>7, <1>8, <1>9, <1>10, <1>11 DEF ReportStep

LEMMA DayTurns ==
    ASSUME TypesOK, TypesOK', Claimed, DayEnds
    PROVE  Claimed'
<1>1. /\ UNCHANGED <<dbUrl, reportVars>> /\ day' = day + 1
      /\ \A c \in Reporters : report[c].pc = "idle"
  BY DEF DayEnds, Midnight, config
<1>2. UNCHANGED <<dbUrl, slot, guard, report, senders, unguarded>>
  BY <1>1 DEF reportVars
<1>3. day \in Nat /\ \A d \in Days : d \in Nat
  BY ToolAssumption DEF TypesOK, ToolTypeOK, Days
<1>4. Dated' /\ Given' /\ Rowless'
  BY <1>1, <1>2 DEF Claimed, Dated, Given, Rowless, Passed
<1>5. Ahead'
  <2> SUFFICES ASSUME NEW d \in Days, d > day' PROVE senders[d] = {}
    BY <1>2 DEF Ahead
  <2>1. d > day
    BY <1>1, <1>3
  <2> QED
    BY <2>1 DEF Claimed, Ahead
<1>6. ASSUME NEW d \in Days PROVE Covered(d)'
  <2>1. Holding(d)' = Holding(d)
    BY <1>2 DEF Holding
  <2>2. Cardinality(Holding(d)) <= unguarded[d] + Spare(d) /\ Cardinality(Holding(d)) \in Nat
        /\ Cardinality(Holding(d)') \in Nat
    BY HoldingCounted DEF Claimed, Covered, TypesOK
  <2>3. /\ Cardinality(Guards(d)) \in Nat /\ Cardinality(Guards(d)') \in Nat
        /\ Cardinality(Workers) \in Nat /\ Cardinality(Guards(d)) <= Cardinality(Workers)
    BY GuardsCounted
  <2>4. unguarded'[d] = unguarded[d] /\ unguarded[d] \in Nat
    BY <1>2 DEF TypesOK, ReportTypeOK
  <2>5. CASE dbUrl
    <3>1. Spare(d)' = Spare(d) /\ Spare(d) \in {0, 1}
      BY <1>2, <2>5 DEF Spare
    <3> QED
      BY <2>1, <2>2, <2>4, <3>1 DEF Covered
  <2>6. CASE ~dbUrl /\ d = day'
    <3>1. d > day
      BY <1>1, <1>3, <2>6
    <3>2. Holding(d) = {}
      BY <1>1, <3>1 DEF Claimed, Ahead, Holding, Passed
    <3>3. Cardinality(Holding(d)') = 0
      BY <2>1, <3>2, FS_EmptySet
    <3>4. Spare(d)' = Cardinality(Guards(d)')
      BY <1>2, <2>6 DEF Spare
    <3> QED
      BY <2>3, <2>4, <3>3, <3>4 DEF Covered
  <2>7. CASE ~dbUrl /\ d # day'
    <3>1. Spare(d)' = Cardinality(Workers)
      BY <1>2, <2>7 DEF Spare
    <3>2. Spare(d) <= Cardinality(Workers) /\ Spare(d) \in Nat
      BY <2>3, <2>7 DEF Spare
    <3> QED
      BY <2>1, <2>2, <2>3, <2>4, <3>1, <3>2 DEF Covered
  <2> QED
    BY <2>5, <2>6, <2>7
<1> QED
  BY <1>4, <1>5, <1>6 DEF Claimed

LEMMA WorkersDie ==
    ASSUME TypesOK, TypesOK', Claimed, NEW w \in Workers, WorkerRestarts(w)
    PROVE  Claimed'
<1>1. /\ UNCHANGED <<dbUrl, day, slot, senders>>
      /\ report' = [c \in Reporters |-> IF c[1] = w THEN NoRun ELSE report[c]]
      /\ guard' = [guard EXCEPT ![w] = 0]
      /\ unguarded' = [d \in Days |->
                         IF ~dbUrl /\ guard[w] = d THEN unguarded[d] + 1 ELSE unguarded[d]]
  BY DEF WorkerRestarts, Restart, ReportRestart, config
<1>2. \A c \in Reporters : report'[c] = report[c] \/ report'[c].pc = "idle"
  BY <1>1 DEF NoRun
<1>3. Dated' /\ Ahead' /\ Rowless'
  BY <1>1, <1>2 DEF Claimed, Dated, Ahead, Rowless, Passed
<1>4. Given'
  BY <1>1, <1>2 DEF Claimed, Given
<1>5. ASSUME NEW d \in Days PROVE Covered(d)'
  <2>1. Holding(d)' \subseteq Holding(d)
    BY <1>1, <1>2 DEF Holding, Passed
  <2>2. /\ Cardinality(Holding(d)) \in Nat /\ Cardinality(Holding(d)') \in Nat
        /\ Cardinality(Holding(d)') <= Cardinality(Holding(d))
        /\ Cardinality(Holding(d)) <= unguarded[d] + Spare(d)
    BY <2>1, HoldingCounted DEF Claimed, Covered, TypesOK
  <2>3. /\ Guards(d) \subseteq Guards(d)' \cup {w}
        /\ guard[w] # d => Guards(d) \subseteq Guards(d)'
    BY <1>1 DEF Guards, TypesOK, ReportTypeOK
  <2>4. /\ Cardinality(Guards(d)) \in Nat /\ Cardinality(Guards(d)') \in Nat
        /\ Cardinality(Guards(d)) <= Cardinality(Guards(d)') + 1
        /\ guard[w] # d => Cardinality(Guards(d)) <= Cardinality(Guards(d)')
        /\ Cardinality(Workers) \in Nat
    BY <2>3, GuardsCounted
  <2>5. unguarded[d] \in Nat
    BY DEF TypesOK, ReportTypeOK
  <2>6. CASE dbUrl
    <3>1. Spare(d)' = Spare(d) /\ Spare(d) \in {0, 1}
      BY <1>1, <2>6 DEF Spare
    <3>2. unguarded'[d] = unguarded[d]
      BY <1>1, <2>6
    <3> QED
      BY <2>2, <2>5, <3>1, <3>2 DEF Covered
  <2>7. CASE ~dbUrl /\ d # day
    <3>1. Spare(d)' = Cardinality(Workers) /\ Spare(d) = Cardinality(Workers)
      BY <1>1, <2>7 DEF Spare
    <3>2. unguarded'[d] = unguarded[d] \/ unguarded'[d] = unguarded[d] + 1
      BY <1>1
    <3> QED
      BY <2>2, <2>4, <2>5, <3>1, <3>2 DEF Covered
  <2>8. CASE ~dbUrl /\ d = day
    <3>1. Spare(d)' = Cardinality(Guards(d)') /\ Spare(d) = Cardinality(Guards(d))
      BY <1>1, <2>8 DEF Spare
    <3>2. unguarded'[d] = IF guard[w] = d THEN unguarded[d] + 1 ELSE unguarded[d]
      BY <1>1, <2>8
    <3> QED
      BY <2>2, <2>4, <2>5, <3>1, <3>2 DEF Covered
  <2> QED
    BY <2>6, <2>7, <2>8
<1> QED
  BY <1>3, <1>4, <1>5 DEF Claimed

\* The jobs that are not the report leave its day and its rows alone.
LEMMA OthersStay ==
    ASSUME Next \/ UNCHANGED vars
    PROVE  \/ ReportNext \/ DayEnds \/ \E w \in Workers : WorkerRestarts(w)
           \/ UNCHANGED <<dbUrl, day, reportVars>>
<1>1. ASSUME NEW c \in Callers, NEW n, NEW m, send_message(c, n, m)
      PROVE  UNCHANGED <<dbUrl, day>>
  BY <1>1 DEF send_message, config
<1>2. ASSUME NEW c, NEW n, NEW m, send_image(c, n, m)
      PROVE  UNCHANGED <<dbUrl, day>>
  BY <1>2 DEF send_image, config
<1>3. ASSUME NEW c, Collect(c)
      PROVE  UNCHANGED <<dbUrl, day>>
  BY <1>3 DEF Collect, config
<1>4. ASSUME NEW c, Post(c)
      PROVE  UNCHANGED <<dbUrl, day>>
  BY <1>4 DEF Post, Accepted, RateLimited, PostFails, Garbled, config
<1>5. PixNext => UNCHANGED <<dbUrl, day>>
  BY <1>1, <1>3, RostersTyped
  DEF PixNext, PixStep, Select, CheckOptOut, Finish, Remind, Answered, Mark, Settle, OptOut,
      toolVars, config
<1>6. ASSUME NEW c \in Desks, Turn(c)
      PROVE  UNCHANGED <<dbUrl, day, reportVars>>
  BY <1>1, <1>2, <1>3, <1>6, RostersTyped DEF Turn, Answer_
<1>7. UNCHANGED vars => UNCHANGED <<dbUrl, day, reportVars>>
  BY DEF vars, toolVars, config
<1> QED
  BY <1>4, <1>5, <1>6, <1>7 DEF Next, Tool_

LEMMA NextClaimed == TypesOK /\ TypesOK' /\ Claimed /\ [Next]_vars => Claimed'
<1> SUFFICES ASSUME TypesOK, TypesOK', Claimed, [Next]_vars PROVE Claimed'
  OBVIOUS
<1>1. CASE ReportNext
  BY <1>1, RunMoves DEF ReportNext
<1>2. CASE UNCHANGED <<dbUrl, day, reportVars>>
  <2>1. UNCHANGED <<dbUrl, day, slot, guard, report, senders, unguarded>>
    BY <1>2 DEF reportVars
  <2>2. Dated' /\ Ahead' /\ Given' /\ Rowless'
    BY <2>1 DEF Claimed, Dated, Ahead, Given, Rowless
  <2>3. ASSUME NEW d \in Days PROVE Covered(d)'
    <3>1. Holding(d)' \subseteq Holding(d)
      BY <2>1 DEF Holding
    <3>2. unguarded'[d] >= unguarded[d]
      BY <2>1 DEF TypesOK, ReportTypeOK
    <3> QED
      BY <2>1, <3>1, <3>2, Idles DEF Claimed
  <2> QED
    BY <2>2, <2>3 DEF Claimed
<1> QED
  BY <1>1, <1>2, DayTurns, WorkersDie, OthersStay

LEMMA InitClaimed == Init => Claimed
<1> SUFFICES ASSUME Init PROVE Claimed
  OBVIOUS
<1>1. Dated /\ Ahead /\ Given /\ Rowless
  BY DEF Init, ReportInit, NoRun, Dated, Ahead, Given, Rowless, Passed
<1>2. ASSUME NEW d \in Days PROVE Covered(d)
  <2>1. Holding(d) = {}
    BY DEF Init, ReportInit, NoRun, Holding, Passed
  <2>2. Cardinality(Holding(d)) = 0 /\ unguarded[d] = 0 /\ Spare(d) \in Nat
    BY <2>1, FS_EmptySet, GuardsCounted DEF Init, ReportInit, Spare
  <2> QED
    BY <2>2 DEF Covered
<1> QED
  BY <1>1, <1>2 DEF Claimed

\* Story-076, one report per group and day: what _claim_daily_report_slot and
\* the guard of the process let through, for any number of tenants and workers,
\* with raised sends, refused releases, restarts and an absent database.
THEOREM ReportsAreClaimed == Spec => []ReportOncePerDay
<1>1. TypesOK /\ Claimed => ReportOncePerDay
  <2> SUFFICES ASSUME TypesOK, Claimed, NEW d \in Days
               PROVE  Cardinality(senders[d])
                        <= unguarded[d] + (IF dbUrl THEN 1 ELSE Cardinality(Workers))
    BY DEF ReportOncePerDay
  <2>1. senders[d] \in SUBSET Callers /\ Holding(d) \in SUBSET Callers
        /\ senders[d] \subseteq Holding(d)
    BY ReportAssumption DEF Holding, TypesOK, ReportTypeOK
  <2>2. Cardinality(senders[d]) \in Nat /\ Cardinality(Holding(d)) \in Nat
        /\ Cardinality(senders[d]) <= Cardinality(Holding(d))
    BY <2>1, Counting
  <2>3. /\ Cardinality(Holding(d)) <= unguarded[d] + Spare(d) /\ unguarded[d] \in Nat
        /\ Cardinality(Workers) \in Nat /\ Cardinality(Guards(d)) \in Nat
        /\ Cardinality(Guards(d)) <= Cardinality(Workers)
    BY GuardsCounted DEF Claimed, Covered, TypesOK, ReportTypeOK
  <2>4. CASE dbUrl
    <3>1. Spare(d) \in {0, 1}
      BY <2>4 DEF Spare
    <3> QED
      BY <2>2, <2>3, <2>4, <3>1
  <2>5. CASE ~dbUrl
    <3>1. Spare(d) \in Nat /\ Spare(d) <= Cardinality(Workers)
      BY <2>3, <2>5 DEF Spare
    <3> QED
      BY <2>2, <2>3, <2>5, <3>1
  <2> QED
    BY <2>4, <2>5
<1> QED
  BY <1>1, InitTypes, NextTypes, InitClaimed, NextClaimed, PTL DEF Spec

\* The answer of a call is true of its message; a run that is sending waits for
\* the answer about its own report.
Truthful(c) ==
    call[c].pc = "returned" =>
        /\ call[c].result \in {"ok", "noop", "fail", "raised"}
        /\ call[c].result = "ok" => copies[call[c].msg] > 0
        /\ call[c].result = "noop" => mode = "unconfigured"
Answers == \A c \in Callers : Truthful(c)
Posted == \A c \in Reporters : report[c].pc = "sending" => call[c].msg = ReportOf[report[c].today]

LEMMA CopiesGrow ==
    ASSUME ToolTypeOK, Serves, NEW m \in Messages
    PROVE  copies'[m] >= copies[m] /\ mode' = mode
<1>1. copies[m] \in Nat
  BY DEF ToolTypeOK
<1>2. ASSUME NEW c \in Callers, Post(c) PROVE copies'[m] >= copies[m] /\ mode' = mode
  <2>1. PostKind(c) /\ UNCHANGED <<config, day, begun>>
    BY <1>2, PostKinds
  <2>2. ASSUME NEW u, Deliver(call[c].msg, u) PROVE copies'[m] >= copies[m]
    BY <1>1, <2>2 DEF Deliver, ToolTypeOK
  <2>3. Undelivered => copies'[m] >= copies[m]
    BY <1>1 DEF Undelivered
  <2> QED
    BY <2>1, <2>2, <2>3 DEF PostKind, config
<1>3. ASSUME NEW c \in Callers, NEW n \in Numbers, NEW k \in Messages, Sends(c, n, k)
      PROVE  copies'[m] >= copies[m] /\ mode' = mode
  <2>1. UNCHANGED <<config, copies>>
    BY <1>3, SendKinds
  <2> QED
    BY <1>1, <2>1 DEF config
<1>4. ASSUME NEW w \in Workers, Restart(w) PROVE copies'[m] >= copies[m] /\ mode' = mode
  <2>1. PICK posts \in SUBSET {c \in Callers : c[1] = w /\ Posting(c)} :
          copies' = [k \in Messages |-> copies[k] + Arriving(posts, k)]
    BY <1>4 DEF Restart, Arriving
  <2>2. Arriving(posts, m) \in Nat
    BY ArrivingCounted
  <2>3. copies'[m] = copies[m] + Arriving(posts, m)
    BY <2>1
  <2> QED
    BY <1>1, <1>4, <2>2, <2>3 DEF Restart, config
<1>5. ASSUME NEW c, Collect(c) PROVE copies' = copies /\ mode' = mode
  BY <1>5 DEF Collect, config, sentVars
<1>6. Midnight => copies' = copies /\ mode' = mode
  BY DEF Midnight, config
<1>7. Rests => copies' = copies /\ mode' = mode
  BY DEF Rests, config, sentVars
<1> QED
  BY <1>1, <1>2, <1>3, <1>4, <1>5, <1>6, <1>7 DEF Serves

\* A POST keeps the text of its call and the calls of the others.
LEMMA PostKeepsText ==
    ASSUME ToolTypeOK, NEW c \in Callers, Post(c)
    PROVE  call'[c].msg = call[c].msg /\ \A d \in Callers \ {c} : call'[d] = call[d]
<1>1. PostKind(c) /\ call[c] \in Call
  BY PostKinds DEF ToolTypeOK
<1>2. ASSUME NEW k \in Call, SameText(c, k), Retry(c, k)
      PROVE  call'[c].msg = call[c].msg /\ \A d \in Callers \ {c} : call'[d] = call[d]
  BY <1>2 DEF SameText, Retry, ToolTypeOK
<1>3. ASSUME NEW r, Return(c, r)
      PROVE  call'[c].msg = call[c].msg /\ \A d \in Callers \ {c} : call'[d] = call[d]
  BY <1>1, <1>3 DEF Return, ToolTypeOK, Call
<1> QED
  BY <1>1, <1>2, <1>3 DEF PostKind

LEMMA PostAnswers ==
    ASSUME ToolTypeOK, NEW c \in Callers, Post(c)
    PROVE  Truthful(c)'
<1>1. Posting(c) /\ call[c] \in Call /\ call[c].pc = "sending" /\ call[c].msg \in Messages
  <2>1. Posting(c)
    BY PostKinds
  <2> QED
    BY <2>1 DEF Posting, ToolTypeOK, Call
<1>2. ASSUME NEW k, k.pc = "sending", Retry(c, k) PROVE Truthful(c)'
  BY <1>2 DEF Retry, Truthful, ToolTypeOK
<1>3. ASSUME NEW r \in {"fail", "raised"}, Return(c, r) PROVE Truthful(c)'
  <2>1. call'[c].result = r
    BY <1>1, <1>3 DEF Return, ToolTypeOK, Call
  <2> QED
    BY <2>1 DEF Truthful
<1>4. CASE Accepted(c)
  <2>1. call'[c].result = "ok" /\ call'[c].msg = call[c].msg
    BY <1>1, <1>4 DEF Accepted, Return, ToolTypeOK, Call
  <2>2. copies'[call[c].msg] = copies[call[c].msg] + 1 /\ copies[call[c].msg] \in Nat
    BY <1>1, <1>4 DEF Accepted, Deliver, ToolTypeOK
  <2> QED
    BY <2>1, <2>2 DEF Truthful
<1>5. CASE RateLimited(c)
  <2>1. [call[c] EXCEPT !.limited = @ + 1, !.errors = 0].pc = "sending"
    BY <1>1 DEF Call
  <2> QED
    BY <1>2, <1>3, <1>5, <2>1 DEF RateLimited
<1>6. ASSUME NEW arrived \in BOOLEAN, PostFails(c, arrived) PROVE Truthful(c)'
  <2>1. [call[c] EXCEPT !.errors = @ + 1].pc = "sending"
    BY <1>1 DEF Call
  <2> QED
    BY <1>2, <1>3, <1>6, <2>1 DEF PostFails
<1>7. ASSUME NEW arrived \in BOOLEAN, Garbled(c, arrived) PROVE Truthful(c)'
  <2>1. [call[c] EXCEPT !.round = @ + 1, !.limited = 0, !.errors = 0].pc = "sending"
    BY <1>1 DEF Call
  <2> QED
    BY <1>2, <1>3, <1>7, <2>1 DEF Garbled
<1> QED
  BY <1>4, <1>5, <1>6, <1>7 DEF Post

LEMMA ServesAnswers ==
    ASSUME ToolTypeOK, Answers, Serves
    PROVE  Answers'
<1> SUFFICES ASSUME NEW d \in Callers PROVE Truthful(d)'
  BY DEF Answers
<1>1. CASE call'[d] = call[d]
  <2>1. call[d].msg \in Messages
    BY DEF ToolTypeOK, Call
  <2>2. copies'[call[d].msg] >= copies[call[d].msg] /\ mode' = mode
    BY <2>1, CopiesGrow
  <2>3. copies[call[d].msg] \in Nat /\ copies'[call[d].msg] \in Nat
    BY <2>1, ServesTyped DEF ToolTypeOK
  <2> QED
    BY <1>1, <2>2, <2>3 DEF Answers, Truthful
<1>2. CASE call'[d].pc # "returned"
  BY <1>2 DEF Truthful
<1>3. ASSUME NEW c \in Callers, NEW n \in Numbers, NEW m \in Messages, Sends(c, n, m)
      PROVE  Truthful(d)'
  <2>1. CASE Unconfigured(c, n, m)
    <3>1. call'[c].result = "noop" /\ \A e \in Callers \ {c} : call'[e] = call[e]
      BY <2>1, AnswerEffect DEF Unconfigured, Results
    <3>2. mode' = "unconfigured"
      BY <1>3, <2>1, SendKinds DEF Unconfigured, config
    <3> QED
      BY <1>1, <3>1, <3>2 DEF Truthful
  <2>2. CASE Refuse(c, n, m)
    <3>1. call'[c].result = "fail" /\ \A e \in Callers \ {c} : call'[e] = call[e]
      BY <2>2, AnswerEffect DEF Refuse, Results
    <3> QED
      BY <1>1, <3>1 DEF Truthful
  <2>3. CASE Enter(c, n, m, TRUE) \/ Enter(c, n, m, FALSE)
    <3>1. call'[c].pc = "sending" /\ \A e \in Callers \ {c} : call'[e] = call[e]
      BY <2>3, EnterEffect
    <3> QED
      BY <1>1, <1>2, <3>1
  <2> QED
    BY <1>3, <2>1, <2>2, <2>3 DEF Sends, send_message, send_image, Admit
<1>4. ASSUME NEW c \in Callers, Post(c) PROVE Truthful(d)'
  BY <1>1, <1>4, PostAnswers, PostKeepsText
<1>5. ASSUME NEW c \in Callers, Collect(c) PROVE Truthful(d)'
  <2>1. call' = [call EXCEPT ![c] = NoCall]
    BY <1>5 DEF Collect
  <2> QED
    BY <1>1, <1>2, <2>1, NoCallIsIdle DEF ToolTypeOK
<1>6. ASSUME NEW w \in Workers, Restart(w) PROVE Truthful(d)'
  BY <1>1, <1>2, <1>6, NoCallIsIdle DEF Restart
<1>7. CASE Midnight \/ Rests
  BY <1>1, <1>7 DEF Midnight, Rests, callVars
<1> QED
  BY <1>3, <1>4, <1>5, <1>6, <1>7 DEF Serves

\* What a step that is not the report's can do to the reporters' calls.
LEMMA OthersKeepTexts ==
    ASSUME TypesOK, NEW r \in Reporters,
           \/ PixNext \/ (\E c \in Desks : Turn(c)) \/ (\E c \in Callers : Tool_(c))
           \/ DayEnds \/ UNCHANGED vars
    PROVE  call'[r].msg = call[r].msg
<1>1. r \in Callers /\ r \notin Pollers /\ r \notin Desks
  BY RostersTyped, OutreachAssumption
<1>2. ASSUME NEW c \in Callers \ {r}, NEW n \in Numbers, NEW m \in Messages, Sends(c, n, m)
      PROVE  call'[r] = call[r]
  BY <1>1, <1>2, AnswerEffect, EnterEffect
  DEF Sends, send_message, send_image, Unconfigured, Refuse, Admit, Results, TypesOK
<1>3. ASSUME NEW c \in Callers \ {r}, Collect(c) PROVE call'[r] = call[r]
  BY <1>1, <1>3 DEF Collect, TypesOK, ToolTypeOK
<1>4. ASSUME UNCHANGED callVars PROVE call'[r] = call[r]
  BY <1>4 DEF callVars
<1>5. ASSUME NEW c \in Pollers, PixStep(c) PROVE call'[r] = call[r]
  <2>1. c \in Callers \ {r}
    BY <1>1, RostersTyped
  <2>2. pix[c].hand \in Orders
    BY DEF TypesOK, PixTypeOK, Cycle
  <2>3. Remind(c) => call'[r] = call[r]
    BY <1>2, <2>1, <2>2, RostersTyped DEF Remind, Sends
  <2>4. Answered(c) => call'[r] = call[r]
    BY <1>3, <2>1 DEF Answered
  <2>5. \A fails : Mark(c, fails) \/ CheckOptOut(c, fails) => call'[r] = call[r]
    BY <1>4 DEF Mark, CheckOptOut
  <2>6. Select(c) \/ Finish(c) => call'[r] = call[r]
    BY <1>4 DEF Select, Finish, toolVars
  <2> QED
    BY <1>5, <2>3, <2>4, <2>5, <2>6 DEF PixStep
<1>6. PixNext => call'[r] = call[r]
  BY <1>4, <1>5 DEF PixNext, Settle, OptOut, toolVars
<1>7. ASSUME NEW c \in Desks, Turn(c) PROVE call'[r] = call[r]
  <2>1. c \in Callers \ {r}
    BY <1>1, RostersTyped
  <2> QED
    BY <1>2, <1>3, <1>7, <2>1, RostersTyped DEF Turn, Answer_, Sends
<1>8. ASSUME NEW c \in Callers, Tool_(c) PROVE call'[r].msg = call[r].msg
  BY <1>1, <1>8, PostKeepsText DEF Tool_, TypesOK
<1>9. DayEnds \/ UNCHANGED vars => call'[r] = call[r]
  BY <1>4 DEF DayEnds, Midnight, vars, toolVars
<1> QED
  BY <1>6, <1>7, <1>8, <1>9

LEMMA ReportPosts ==
    ASSUME TypesOK, Posted, NEW c \in Reporters, ReportStep(c)
    PROVE  Posted'
<1> SUFFICES ASSUME NEW r \in Reporters, report'[r].pc = "sending"
             PROVE  call'[r].msg = ReportOf[report'[r].today]
  BY DEF Posted
<1>1. r \in Callers /\ c \in Callers /\ report[c] \in Run /\ report[c].today \in Days
  BY RostersTyped DEF TypesOK, ReportTypeOK, Run
<1>2. CASE r # c
  <2>1. ASSUME NEW n \in Numbers, NEW m \in Messages, send_message(c, n, m)
        PROVE  call'[r] = call[r]
    BY <1>1, <1>2, <2>1, AnswerEffect, EnterEffect
    DEF send_message, Unconfigured, Refuse, Admit, Results, TypesOK
  <2>2. Collect(c) => call'[r] = call[r]
    BY <1>1, <1>2 DEF Collect, TypesOK, ToolTypeOK
  <2>3. Send(c) => call'[r] = call[r]
    BY <1>1, <2>1, RostersTyped DEF Send
  <2>4. call'[r] = call[r]
    BY <2>2, <2>3
    DEF ReportStep, Fire, Claim, ClaimBlind, ClaimInProcess, Sent, SendRaised, Release,
        toolVars, callVars
  <2>5. report'[r] = report[r]
    BY <1>2 DEF ReportStep, Fire, Claim, ClaimBlind, ClaimInProcess, Send, Sent, SendRaised,
                Release, Proceed, Skip, TypesOK, ReportTypeOK
  <2> QED
    BY <2>4, <2>5 DEF Posted
<1>3. CASE r = c
  <2>1. Proceed(c) \/ Skip(c) => report'[c].pc # "sending"
    BY DEF Proceed, Skip, NoRun, TypesOK, ReportTypeOK
  <2>2. ASSUME NEW p \in {"claim", "release"}, report' = [report EXCEPT ![c].pc = p]
        PROVE  report'[c].pc # "sending"
    BY <1>1, <2>2 DEF TypesOK, ReportTypeOK, Run
  <2>3. Send(c)
    BY <1>3, <2>1, <2>2
    DEF ReportStep, Fire, Claim, ClaimBlind, ClaimInProcess, Sent, SendRaised, Release
  <2>4. report'[c].today = report[c].today
    BY <1>1, <2>3 DEF Send, TypesOK, ReportTypeOK, Run
  <2>5. send_message(c, Group, ReportOf[report[c].today])
        /\ Group \in Numbers /\ ReportOf[report[c].today] \in Messages
    BY <1>1, <2>3, RostersTyped DEF Send
  <2>6. call'[c].msg = ReportOf[report[c].today]
    BY <1>1, <2>5, AnswerEffect, EnterEffect
    DEF send_message, Unconfigured, Refuse, Admit, Results, TypesOK
  <2> QED
    BY <1>3, <2>4, <2>6
<1> QED
  BY <1>2, <1>3

LEMMA NextPosted == TypesOK /\ Posted /\ [Next]_vars => Posted'
<1> SUFFICES ASSUME TypesOK, Posted, [Next]_vars PROVE Posted'
  OBVIOUS
<1>1. CASE ReportNext
  BY <1>1, ReportPosts DEF ReportNext
<1>2. ASSUME NEW w \in Workers, WorkerRestarts(w) PROVE Posted'
  <2> SUFFICES ASSUME NEW r \in Reporters, report'[r].pc = "sending"
               PROVE  call'[r].msg = ReportOf[report'[r].today]
    BY DEF Posted
  <2>1. r \in Callers /\ r[1] # w /\ report'[r] = report[r]
    BY <1>2, RostersTyped DEF WorkerRestarts, ReportRestart, NoRun
  <2>2. call'[r] = call[r]
    BY <1>2, <2>1 DEF WorkerRestarts, Restart
  <2> QED
    BY <2>1, <2>2 DEF Posted
<1>3. CASE /\ UNCHANGED reportVars
           /\ \/ PixNext \/ (\E c \in Desks : Turn(c)) \/ (\E c \in Callers : Tool_(c))
              \/ DayEnds \/ UNCHANGED vars
  <2>1. \A r \in Reporters : call'[r].msg = call[r].msg
    BY <1>3, OthersKeepTexts
  <2> QED
    BY <1>3, <2>1 DEF Posted, reportVars
<1> QED
  BY <1>1, <1>2, <1>3 DEF Next, Turn, Tool_, DayEnds, vars

\* A day was heard of, or somebody is at work on it.
Heard(d) == copies[ReportOf[d]] > 0 \/ d \in unheeded \/ mode = "unconfigured"
Works(c, d) == AtWork(c) /\ report[c].today = d
RowKept(d) ==
    d \in slot /\ d \notin abandoned => Heard(d) \/ \E c \in Reporters : Works(c, d)
GuardKept(w) == \A d \in Days :
    ~dbUrl /\ guard[w] = d => Heard(d) \/ \E c \in Reporters : c[1] = w /\ Works(c, d)
Kept == (\A d \in Days : RowKept(d)) /\ (\A w \in Workers : GuardKept(w))

LEMMA KeptIsReported == ReportTypeOK => (Kept <=> TakenDayIsReported)
<1> SUFFICES ASSUME ReportTypeOK PROVE Kept <=> TakenDayIsReported
  OBVIOUS
<1>1. (\A d \in Days : RowKept(d))
        <=> \A d \in slot \ abandoned : Heard(d) \/ \E c \in Reporters : Works(c, d)
  BY DEF ReportTypeOK, RowKept
<1>2. (\A w \in Workers : GuardKept(w))
        <=> (~dbUrl => \A w \in Workers : guard[w] # 0 =>
               Heard(guard[w]) \/ \E c \in Reporters : c[1] = w /\ Works(c, guard[w]))
  <2>1. \A w \in Workers : guard[w] \in {0} \cup Days
    BY DEF ReportTypeOK
  <2>2. 0 \notin Days
    BY ToolAssumption DEF Days
  <2> QED
    BY <2>1, <2>2, Zenon DEF GuardKept
<1> QED
  BY <1>1, <1>2, Zenon DEF Kept, TakenDayIsReported, Heard, Works

LEMMA StaysHeard ==
    ASSUME TypesOK, TypesOK', Serves, unheeded \subseteq unheeded', NEW d \in Days, Heard(d)
    PROVE  Heard(d)'
<1>1. ReportOf[d] \in Messages
  BY RostersTyped
<1>2. copies'[ReportOf[d]] >= copies[ReportOf[d]] /\ mode' = mode
  BY <1>1, CopiesGrow DEF TypesOK
<1>3. copies[ReportOf[d]] \in Nat /\ copies'[ReportOf[d]] \in Nat
  BY <1>1 DEF TypesOK, ToolTypeOK
<1> QED
  BY <1>2, <1>3 DEF Heard

\* A step of one run, if all it gives up is heard of.
LEMMA RunKeeps ==
    ASSUME TypesOK, TypesOK', Serves, unheeded \subseteq unheeded', dbUrl' = dbUrl,
           Kept, NEW c \in Reporters,
           \A e \in Reporters \ {c} : report'[e] = report[e]
    PROVE  /\ \A d \in Days : /\ d \in slot' => d \in slot
                              /\ d \notin abandoned' => d \notin abandoned
                              /\ Works(c, d) => Works(c, d)' \/ Heard(d)'
                => RowKept(d)'
           /\ \A w \in Workers :
                /\ guard'[w] = guard[w]
                /\ \A d \in Days : c[1] = w /\ Works(c, d) => Works(c, d)' \/ Heard(d)'
                => GuardKept(w)'
<1>1. \A d : \A e \in Reporters \ {c} : Works(e, d) => Works(e, d)'
  BY DEF Works, AtWork
<1>2. \A d \in Days : Heard(d) => Heard(d)'
  BY StaysHeard
<1>3. ASSUME NEW d \in Days, d \in slot' => d \in slot, d \notin abandoned' => d \notin abandoned,
             Works(c, d) => Works(c, d)' \/ Heard(d)', d \in slot', d \notin abandoned'
      PROVE  Heard(d)' \/ \E e \in Reporters : Works(e, d)'
  <2>1. Heard(d) \/ \E e \in Reporters : Works(e, d)
    BY <1>3 DEF Kept, RowKept
  <2> QED
    BY <1>1, <1>2, <1>3, <2>1
<1>4. ASSUME NEW w \in Workers, guard'[w] = guard[w],
             \A d \in Days : c[1] = w /\ Works(c, d) => Works(c, d)' \/ Heard(d)',
             NEW d \in Days, ~dbUrl, guard[w] = d
      PROVE  Heard(d)' \/ \E e \in Reporters : e[1] = w /\ Works(e, d)'
  <2>1. Heard(d) \/ \E e \in Reporters : e[1] = w /\ Works(e, d)
    BY <1>4 DEF Kept, GuardKept
  <2> QED
    BY <1>1, <1>2, <1>4, <2>1
<1>5. ASSUME NEW d \in Days, d \in slot' => d \in slot, d \notin abandoned' => d \notin abandoned,
             Works(c, d) => Works(c, d)' \/ Heard(d)'
      PROVE  RowKept(d)'
  BY <1>3, <1>5 DEF RowKept
<1>6. ASSUME NEW w \in Workers, guard'[w] = guard[w],
             \A d \in Days : c[1] = w /\ Works(c, d) => Works(c, d)' \/ Heard(d)'
      PROVE  GuardKept(w)'
  BY <1>4, <1>6 DEF GuardKept
<1> QED
  BY <1>5, <1>6

LEMMA StepKeeps ==
    ASSUME TypesOK, TypesOK', Claimed, Answers, Posted, Kept, NEW c \in Reporters, ReportStep(c)
    PROVE  Kept'
<1>1. /\ report[c] \in Run /\ report[c].today \in Days /\ day \in Days /\ c[1] \in Workers
      /\ c \in Callers
  BY RostersTyped DEF TypesOK, ToolTypeOK, ReportTypeOK, Run, Days
<1>2. Serves /\ unheeded \subseteq unheeded' /\ dbUrl' = dbUrl
  <2>1. Serves
    BY ReportServes DEF TypesOK, ReportNext
  <2>2. unheeded \subseteq unheeded'
    BY DEF ReportStep, Fire, Claim, ClaimBlind, ClaimInProcess, Send, Sent, SendRaised, Release
  <2>3. dbUrl' = dbUrl
    BY <2>1 DEF Serves, Rests, Sends, send_message, send_image, Post, Accepted, RateLimited,
                PostFails, Garbled, Collect, Midnight, Restart, config
  <2> QED
    BY <2>1, <2>2, <2>3
<1>3. ASSUME \A e \in Reporters \ {c} : report'[e] = report[e], guard' = guard,
             slot' \subseteq slot, abandoned \subseteq abandoned',
             \A d \in Days : Works(c, d) => Works(c, d)' \/ Heard(d)' \/ d \notin slot' \ abandoned',
             dbUrl \/ \A d \in Days : Works(c, d) => Works(c, d)' \/ Heard(d)'
      PROVE  Kept'
  <2>1. ASSUME NEW d \in Days PROVE RowKept(d)'
    <3>1. CASE d \notin slot' \ abandoned'
      BY <3>1 DEF RowKept
    <3>2. CASE d \in slot' \ abandoned'
      BY <1>2, <1>3, <3>2, RunKeeps
    <3> QED
      BY <3>1, <3>2
  <2>2. ASSUME NEW w \in Workers PROVE GuardKept(w)'
    <3>1. CASE dbUrl
      BY <1>2, <3>1 DEF GuardKept
    <3>2. CASE ~dbUrl
      BY <1>2, <1>3, <3>2, RunKeeps
    <3> QED
      BY <3>1, <3>2
  <2> QED
    BY <2>1, <2>2 DEF Kept
<1>4. Proceed(c) => /\ \A d \in Days : d = day => Works(c, d)'
                    /\ \A e \in Reporters \ {c} : report'[e] = report[e]
  <2>1. Proceed(c) => /\ report'[c] = [pc |-> "send", today |-> day]
                      /\ \A e \in Reporters \ {c} : report'[e] = report[e]
    BY DEF Proceed, TypesOK, ReportTypeOK
  <2> QED
    BY <2>1 DEF Works, AtWork
<1>5. Skip(c) => \A e \in Reporters \ {c} : report'[e] = report[e]
  BY DEF Skip, TypesOK, ReportTypeOK
<1>6. report[c].pc \in {"idle", "claim"} => \A d : ~Works(c, d)
  BY DEF Works, AtWork
\* A claim of the row.
<1>7. ASSUME Proceed(c), report[c].pc = "claim", dbUrl, UNCHANGED <<guard, abandoned>>,
             slot' \subseteq slot \cup {day}
      PROVE  Kept'
  <2>1. ASSUME NEW d \in Days PROVE RowKept(d)'
    <3>1. CASE d = day
      BY <1>4, <1>7, <3>1 DEF RowKept
    <3>2. CASE d # day
      BY <1>2, <1>4, <1>6, <1>7, <3>2, RunKeeps
    <3> QED
      BY <3>1, <3>2
  <2>2. \A w \in Workers : GuardKept(w)'
    BY <1>2, <1>7 DEF GuardKept
  <2> QED
    BY <2>1, <2>2 DEF Kept
<1>8. CASE Fire(c)
  <2>1. /\ \A e \in Reporters \ {c} : report'[e] = report[e]
        /\ UNCHANGED <<guard, slot, abandoned>> /\ report[c].pc = "idle"
    BY <1>8 DEF Fire, TypesOK, ReportTypeOK
  <2> QED
    BY <1>3, <1>6, <2>1
<1>9. CASE Claim(c)
  <2>1. report[c].pc = "claim" /\ dbUrl /\ UNCHANGED <<guard, abandoned>> /\ slot' = slot \cup {day}
        /\ (IF day \in slot THEN Skip(c) ELSE Proceed(c))
    BY <1>9 DEF Claim
  <2>2. CASE day \in slot
    BY <1>3, <1>5, <1>6, <2>1, <2>2
  <2>3. CASE day \notin slot
    BY <1>7, <2>1, <2>3
  <2> QED
    BY <2>2, <2>3
<1>10. ASSUME NEW arrived \in BOOLEAN, ClaimBlind(c, arrived) PROVE Kept'
  BY <1>7, <1>10 DEF ClaimBlind
<1>11. CASE ClaimInProcess(c)
  <2>1. /\ report[c].pc = "claim" /\ ~dbUrl /\ UNCHANGED <<slot, abandoned>>
        /\ guard' = [guard EXCEPT ![c[1]] = day]
        /\ IF guard[c[1]] = day THEN Skip(c) ELSE Proceed(c)
    BY <1>11 DEF ClaimInProcess
  <2>2. guard'[c[1]] = day /\ \A w \in Workers \ {c[1]} : guard'[w] = guard[w]
    BY <1>1, <2>1 DEF TypesOK, ReportTypeOK
  <2>3. CASE guard[c[1]] = day
    <3>1. guard' = guard
      BY <1>1, <2>1, <2>3 DEF TypesOK, ReportTypeOK
    <3> QED
      BY <1>3, <1>5, <1>6, <2>1, <2>3, <3>1
  <2>4. CASE guard[c[1]] # day
    <3>1. \A d \in Days : RowKept(d)'
      BY <1>2, <1>4, <1>6, <2>1, <2>4, RunKeeps
    <3>2. ASSUME NEW w \in Workers PROVE GuardKept(w)'
      <4>1. CASE w = c[1]
        <5>1. (\A d \in Days : d = day => Works(c, d)') /\ guard'[w] = day
          BY <1>4, <2>1, <2>2, <2>4, <4>1
        <5> QED
          BY <4>1, <5>1 DEF GuardKept
      <4>2. CASE w # c[1]
        BY <1>2, <1>4, <1>6, <2>1, <2>2, <2>4, <4>2, RunKeeps
      <4> QED
        BY <4>1, <4>2
    <3> QED
      BY <3>1, <3>2 DEF Kept
  <2> QED
    BY <2>3, <2>4
<1>12. CASE Send(c)
  <2>1. /\ report'[c].today = report[c].today /\ report'[c].pc = "sending"
        /\ \A e \in Reporters \ {c} : report'[e] = report[e]
        /\ UNCHANGED <<slot, guard, abandoned>>
    BY <1>1, <1>12 DEF Send, TypesOK, ReportTypeOK, Run
  <2>2. \A d \in Days : Works(c, d) => Works(c, d)'
    BY <2>1 DEF Works, AtWork
  <2> QED
    BY <1>3, <2>1, <2>2
<1>13. CASE Sent(c)
  <2>1. /\ report[c].pc = "sending" /\ call[c].pc = "returned" /\ call[c].result # "raised"
        /\ Skip(c) /\ UNCHANGED <<slot, guard, abandoned>>
        /\ unheeded' = IF call[c].result = "fail" THEN unheeded \cup {report[c].today} ELSE unheeded
        /\ copies' = copies /\ mode' = mode
    BY <1>13 DEF Sent, Collect, config, sentVars
  <2>2. Truthful(c) /\ call[c].msg = ReportOf[report[c].today]
    BY <1>1, <2>1 DEF Answers, Posted
  <2>3. ASSUME NEW d \in Days, Works(c, d) PROVE Heard(d)'
    <3>1. d = report[c].today
      BY <2>3 DEF Works
    <3> QED
      BY <2>1, <2>2, <3>1 DEF Heard, Truthful
  <2> QED
    BY <1>3, <1>5, <2>1, <2>3
<1>14. CASE SendRaised(c)
  <2>1. CASE dbUrl
    <3>1. /\ report' = [report EXCEPT ![c].pc = "release"] /\ UNCHANGED <<slot, guard, abandoned>>
      BY <1>14, <2>1 DEF SendRaised
    <3>2. report'[c].today = report[c].today /\ report'[c].pc = "release"
          /\ \A e \in Reporters \ {c} : report'[e] = report[e]
      BY <1>1, <3>1 DEF TypesOK, ReportTypeOK, Run
    <3>3. \A d \in Days : Works(c, d) => Works(c, d)'
      BY <3>2 DEF Works, AtWork
    <3> QED
      BY <1>3, <3>1, <3>2, <3>3
  <2>2. CASE ~dbUrl
    <3>1. slot' = {} /\ Skip(c) /\ guard' = [guard EXCEPT ![c[1]] = 0]
      BY <1>14, <2>2 DEF SendRaised, Claimed, Rowless
    <3>2. guard'[c[1]] = 0 /\ \A w \in Workers \ {c[1]} : guard'[w] = guard[w]
      BY <1>1, <3>1 DEF TypesOK, ReportTypeOK
    <3>3. ASSUME NEW w \in Workers PROVE GuardKept(w)'
      <4>1. CASE w = c[1]
        <5>1. 0 \notin Days
          BY ToolAssumption DEF Days
        <5> QED
          BY <3>2, <4>1, <5>1 DEF GuardKept
      <4>2. CASE w # c[1]
        BY <1>2, <1>5, <3>1, <3>2, <4>2, RunKeeps
      <4> QED
        BY <4>1, <4>2
    <3>4. \A d \in Days : RowKept(d)'
      BY <3>1 DEF RowKept
    <3> QED
      BY <3>3, <3>4 DEF Kept
  <2> QED
    BY <2>1, <2>2
<1>15. ASSUME NEW fails \in BOOLEAN, Release(c, fails) PROVE Kept'
  <2>1. /\ report[c].pc = "release" /\ Skip(c) /\ guard' = guard
        /\ slot' \subseteq slot /\ abandoned \subseteq abandoned'
        /\ report[c].today \notin slot' \ abandoned'
    BY <1>15 DEF Release
  <2>2. dbUrl
    BY <2>1 DEF Claimed, Given
  <2> QED
    BY <1>3, <1>5, <2>1, <2>2 DEF Works
<1> QED
  BY <1>8, <1>9, <1>10, <1>11, <1>12, <1>13, <1>14, <1>15 DEF ReportStep

LEMMA NextKept ==
    TypesOK /\ TypesOK' /\ Claimed /\ Answers /\ Posted /\ Kept /\ [Next]_vars => Kept'
<1> SUFFICES ASSUME TypesOK, TypesOK', Claimed, Answers, Posted, Kept, [Next]_vars PROVE Kept'
  OBVIOUS
<1>1. Serves
  BY NextServes
<1>2. CASE ReportNext
  BY <1>2, StepKeeps DEF ReportNext
<1>3. ASSUME UNCHANGED <<dbUrl, reportVars>> PROVE Kept'
  <2>1. UNCHANGED <<slot, guard, report, abandoned, unheeded>>
    BY <1>3 DEF reportVars
  <2>2. \A d \in Days : Heard(d) => Heard(d)'
    BY <1>1, <2>1, StaysHeard
  <2>3. \A d : \A c \in Reporters : Works(c, d)' = Works(c, d)
    BY <2>1 DEF Works, AtWork
  <2>4. \A d \in Days : RowKept(d)'
    BY <2>1, <2>2, <2>3 DEF Kept, RowKept
  <2>5. ASSUME NEW w \in Workers PROVE GuardKept(w)'
    <3>1. GuardKept(w)
      BY DEF Kept
    <3> QED
      BY <1>3, <2>1, <2>2, <2>3, <3>1 DEF GuardKept
  <2> QED
    BY <2>4, <2>5 DEF Kept
<1>4. ASSUME NEW w \in Workers, WorkerRestarts(w) PROVE Kept'
  <2>1. /\ UNCHANGED <<dbUrl, slot, unheeded>> /\ abandoned \subseteq abandoned'
        /\ \A c \in Reporters : c[1] = w /\ AtWork(c) => report[c].today \in abandoned'
        /\ \A c \in Reporters : c[1] # w => report'[c] = report[c]
        /\ guard' = [guard EXCEPT ![w] = 0]
    BY <1>4 DEF WorkerRestarts, ReportRestart, Restart, config
  <2>2. \A d \in Days : Heard(d) => Heard(d)'
    BY <1>1, <2>1, StaysHeard
  <2>3. \A d : \A c \in Reporters : Works(c, d) => IF c[1] = w THEN d \in abandoned' ELSE Works(c, d)'
    BY <2>1 DEF Works, AtWork
  <2>4. ASSUME NEW d \in Days PROVE RowKept(d)'
    BY <2>1, <2>2, <2>3 DEF Kept, RowKept
  <2>5. ASSUME NEW v \in Workers PROVE GuardKept(v)'
    <3>1. CASE v = w
      <4>1. guard'[v] = 0 /\ 0 \notin Days
        BY <2>1, <3>1, ToolAssumption DEF TypesOK, ReportTypeOK, Days
      <4> QED
        BY <4>1 DEF GuardKept
    <3>2. CASE v # w
      <4>1. guard'[v] = guard[v] /\ dbUrl' = dbUrl /\ GuardKept(v)
        BY <2>1, <3>2 DEF TypesOK, ReportTypeOK, Kept
      <4>2. \A d : \A c \in Reporters : c[1] = v /\ Works(c, d) => Works(c, d)'
        BY <2>3, <3>2
      <4> QED
        BY <2>2, <4>1, <4>2 DEF GuardKept
    <3> QED
      BY <3>1, <3>2
  <2> QED
    BY <2>4, <2>5 DEF Kept
<1>5. CASE DayEnds
  BY <1>3, <1>5 DEF DayEnds, Midnight, config
<1> QED
  BY <1>2, <1>3, <1>4, <1>5, OthersStay

\* "Falhou: libera o slot para permitir nova tentativa": whoever finds the day
\* taken, by its row or by the guard of its process, may leave it, for any number
\* of tenants and workers: its report has reached the group or a run is at work
\* on it.  The exceptions are the four the property names.
THEOREM TakenDaysAreReported == Spec => []TakenDayIsReported
<1>1. Init => Answers /\ Posted /\ Kept
  <2> SUFFICES ASSUME Init PROVE Answers /\ Posted /\ Kept
    OBVIOUS
  <2>1. 0 \notin Days /\ slot = {} /\ \A w \in Workers : guard[w] = 0
    BY ToolAssumption DEF Init, ReportInit, Days
  <2>2. Kept
    BY <2>1 DEF Kept, RowKept, GuardKept
  <2>3. \A c \in Callers : call[c].pc # "returned"
    BY NoCallIsIdle DEF Init, ToolInit
  <2>4. \A c \in Reporters : report[c].pc = "idle"
    BY DEF Init, ReportInit, NoRun
  <2> QED
    BY <2>2, <2>3, <2>4 DEF Answers, Truthful, Posted
<1>2. TypesOK /\ Answers /\ [Next]_vars => Answers'
  BY NextServes, ServesAnswers DEF TypesOK
<1>3. TypesOK /\ Kept => TakenDayIsReported
  BY KeptIsReported DEF TypesOK
<1> QED
  BY <1>1, <1>2, <1>3, NextPosted, NextKept, InitTypes, NextTypes, InitClaimed, NextClaimed,
     PTL DEF Spec

-----------------------------------------------------------------------------
(* The Pix reminders *)

LEMMA FaultsGrow ==
    ASSUME ToolTypeOK, Serves
    PROVE  faults' >= faults
<1>1. faults \in Nat
  BY ToolAssumption DEF ToolTypeOK
<1>2. ASSUME NEW c \in Callers, Post(c) PROVE faults' >= faults
  BY <1>1, <1>2, PostKinds, ToolAssumption
<1>3. ASSUME NEW c \in Callers, NEW n \in Numbers, NEW m \in Messages, Sends(c, n, m)
      PROVE  faults' >= faults
  BY <1>1, <1>3, SendKinds
<1> QED
  BY <1>1, <1>2, <1>3 DEF Serves, Collect, Midnight, Restart, Rests

\* A reminder under way is no longer on its cycle's list; two cycles share only
\* what is excused; a reminder begun without excuse is the only one, is stamped
\* or about to be, and is in nobody else's hand.
UnderWay(c) == pix[c].pc \in {"send", "sending", "mark"}
Begun(c, o) == pix[c].pc \in {"sending", "mark"} /\ pix[c].hand = o
Listed == \A c \in Pollers : /\ UnderWay(c) => pix[c].hand \notin pix[c].todo
                             /\ pix[c].pc = "idle" => pix[c].todo = {}
Apart == \A c, d \in Pollers : c # d => InHand(c) \cap InHand(d) \subseteq excused
Single(o) ==
    reminders[o] > 0 /\ o \notin excused =>
        /\ reminders[o] = 1
        /\ \A c \in Pollers : o \in InHand(c) => Begun(c, o)
        /\ order[o].stamped \/ \E c \in Pollers : Begun(c, o)
Reminded == Listed /\ Apart /\ \A o \in Orders : Single(o)

\* A cycle that goes on with less in hand, none of it reminded before.
LEMMA HandsEmpty ==
    ASSUME PixTypeOK, Reminded, NEW c \in Pollers, NEW k \in Cycle,
           pix' = [pix EXCEPT ![c] = k],
           UNCHANGED <<order, reminders>>, excused \subseteq excused',
           k.pc = "idle" => k.todo = {},
           k.pc \in {"send", "sending", "mark"} => k.hand \notin k.todo,
           InHand(c)' \subseteq InHand(c),
           \A o \in Orders \ excused' : Begun(c, o) => Begun(c, o)'
    PROVE  Reminded'
<1>1. pix'[c] = k /\ \A d \in Pollers \ {c} : pix'[d] = pix[d]
  BY DEF PixTypeOK
<1>2. \A d \in Pollers \ {c} : InHand(d)' = InHand(d)
  BY <1>1 DEF InHand
<1>3. Listed'
  BY <1>1 DEF Reminded, Listed, UnderWay
<1>4. Apart'
  BY <1>2 DEF Reminded, Apart
<1>5. ASSUME NEW o \in Orders, reminders[o] > 0, o \notin excused'
      PROVE  Single(o)'
  <2>1. /\ reminders[o] = 1
        /\ \A d \in Pollers : o \in InHand(d) => Begun(d, o)
        /\ order[o].stamped \/ \E d \in Pollers : Begun(d, o)
    BY <1>5 DEF Reminded, Single
  <2>2. \A d \in Pollers : Begun(d, o) => Begun(d, o)'
    BY <1>1, <1>5 DEF Begun
  <2>3. \A d \in Pollers : o \in InHand(d)' => o \in InHand(d)
    BY <1>2
  <2>4. \A d \in Pollers : o \in InHand(d)' => Begun(d, o)'
    BY <2>1, <2>2, <2>3
  <2>5. order'[o].stamped \/ \E d \in Pollers : Begun(d, o)'
    BY <2>1, <2>2
  <2> QED
    BY <2>1, <2>4, <2>5 DEF Single
<1>6. \A o \in Orders : Single(o)'
  BY <1>5 DEF Single
<1> QED
  BY <1>3, <1>4, <1>6 DEF Reminded

LEMMA PixReminded ==
    ASSUME TypesOK, TypesOK', Reminded, NEW c \in Pollers, PixStep(c)
    PROVE  Reminded'
<1>1. pix[c] \in Cycle /\ pix[c].hand \in Orders /\ pix[c].todo \subseteq Orders
      /\ PixTypeOK /\ Pending \subseteq Orders
  BY DEF TypesOK, PixTypeOK, Cycle, Pending
<1>2. CASE Select(c)
  <2>1. /\ pix[c].pc = "idle" /\ UNCHANGED <<order, reminders>>
        /\ pix' = [pix EXCEPT ![c].pc = "check", ![c].todo = Pending]
        /\ excused' = excused \cup (Pending \cap UNION {InHand(d) : d \in Pollers \ {c}})
    BY <1>2 DEF Select
  <2>2. pix'[c].pc = "check" /\ pix'[c].todo = Pending
        /\ \A d \in Pollers \ {c} : pix'[d] = pix[d]
    BY <1>1, <2>1 DEF PixTypeOK, Cycle
  <2>3. InHand(c)' = Pending /\ \A d \in Pollers \ {c} : InHand(d)' = InHand(d)
    BY <2>2 DEF InHand
  <2>4. Listed'
    BY <2>2 DEF Reminded, Listed, UnderWay
  <2>5. Apart'
    <3>1. ASSUME NEW d \in Pollers, d # c PROVE InHand(d)' \cap Pending \subseteq excused'
      BY <2>1, <2>3, <3>1
    <3> QED
      BY <2>1, <2>3, <3>1 DEF Reminded, Apart
  <2>6. ASSUME NEW o \in Orders, reminders[o] > 0, o \notin excused'
        PROVE  Single(o)'
    <3>1. /\ reminders[o] = 1 /\ o \notin excused
          /\ \A d \in Pollers : o \in InHand(d) => Begun(d, o)
          /\ order[o].stamped \/ \E d \in Pollers : Begun(d, o)
      BY <2>1, <2>6 DEF Reminded, Single
    <3>2. \A d \in Pollers : Begun(d, o) => d # c /\ Begun(d, o)' /\ o \in InHand(d)
      BY <2>1, <2>2 DEF Begun, InHand
    <3>3. o \notin Pending
      <4> SUFFICES ASSUME o \in Pending PROVE FALSE
        OBVIOUS
      <4>1. ~order[o].stamped
        BY DEF Pending
      <4>2. PICK d \in Pollers : Begun(d, o)
        BY <3>1, <4>1
      <4> QED
        BY <2>1, <2>6, <3>2, <4>2
    <3>4. \A d \in Pollers : o \in InHand(d)' => Begun(d, o)'
      BY <2>3, <3>1, <3>2, <3>3
    <3>5. order'[o].stamped \/ \E d \in Pollers : Begun(d, o)'
      BY <2>1, <3>1, <3>2
    <3> QED
      BY <2>1, <3>1, <3>4, <3>5 DEF Single
  <2>7. \A o \in Orders : Single(o)'
    BY <2>1, <2>6 DEF Single
  <2> QED
    BY <2>4, <2>5, <2>7 DEF Reminded
<1>3. ASSUME NEW blind \in BOOLEAN, CheckOptOut(c, blind)
      PROVE  Reminded'
  <2>1. PICK o \in Earliest(c) :
          \/ pix' = [pix EXCEPT ![c] = [pix[c] EXCEPT !.todo = pix[c].todo \ {o}]]
          \/ pix' = [pix EXCEPT ![c] = [pc |-> "send", todo |-> pix[c].todo \ {o},
                                        hand |-> o]]
    BY <1>3 DEF CheckOptOut
  <2>2. /\ pix[c].pc = "check" /\ UNCHANGED <<order, reminders, excused>>
        /\ o \in pix[c].todo /\ o \in Orders /\ pix[c].todo \ {o} \in SUBSET Orders
    BY <1>1, <1>3 DEF CheckOptOut, Earliest
  <2>3. PICK k \in Cycle : /\ pix' = [pix EXCEPT ![c] = k] /\ k.todo = pix[c].todo \ {o}
                           /\ k.pc = "check" \/ (k.pc = "send" /\ k.hand = o)
    <3>1. CASE pix' = [pix EXCEPT ![c] = [pix[c] EXCEPT !.todo = pix[c].todo \ {o}]]
      <4>1. [pix[c] EXCEPT !.todo = pix[c].todo \ {o}] \in Cycle
        BY <1>1, <2>2 DEF Cycle
      <4> QED
        BY <1>1, <2>2, <3>1, <4>1 DEF Cycle
    <3>2. CASE pix' = [pix EXCEPT ![c] = [pc |-> "send", todo |-> pix[c].todo \ {o},
                                          hand |-> o]]
      <4>1. [pc |-> "send", todo |-> pix[c].todo \ {o}, hand |-> o] \in Cycle
        BY <2>2 DEF Cycle
      <4> QED
        BY <3>2, <4>1
    <3> QED
      BY <2>1, <3>1, <3>2
  <2>4. pix'[c] = k
    BY <2>3 DEF TypesOK, PixTypeOK
  <2>5. InHand(c)' \subseteq InHand(c)
    BY <2>2, <2>3, <2>4 DEF InHand
  <2>6. \A p \in Orders : ~Begun(c, p)
    BY <2>2 DEF Begun
  <2>7. /\ k.pc = "idle" => k.todo = {}
        /\ k.pc \in {"send", "sending", "mark"} => k.hand \notin k.todo
    BY <2>3
  <2> QED
    BY <1>1, <2>2, <2>3, <2>5, <2>6, <2>7, HandsEmpty
<1>4. CASE Finish(c)
  <2>1. NoCycle \in Cycle /\ NoCycle.pc = "idle" /\ NoCycle.todo = {}
    BY PixAssumption DEF NoCycle, Cycle
  <2>2. pix[c].pc = "check" /\ pix' = [pix EXCEPT ![c] = NoCycle]
        /\ UNCHANGED <<order, reminders, excused>>
    BY <1>4 DEF Finish
  <2>3. pix'[c] = NoCycle
    BY <2>2 DEF TypesOK, PixTypeOK
  <2>4. InHand(c)' \subseteq InHand(c)
    BY <2>1, <2>3 DEF InHand
  <2>5. \A p \in Orders : ~Begun(c, p)
    BY <2>2 DEF Begun
  <2> QED
    BY <1>1, <2>1, <2>2, <2>4, <2>5, HandsEmpty
<1>5. CASE Remind(c)
  <2> DEFINE h == pix[c].hand
  <2>1. /\ pix[c].pc = "send" /\ UNCHANGED <<order, excused>>
        /\ pix' = [pix EXCEPT ![c].pc = "sending"]
        /\ reminders' = [reminders EXCEPT ![h] = @ + 1]
    BY <1>5 DEF Remind
  <2>2. pix'[c].pc = "sending" /\ pix'[c].hand = h /\ pix'[c].todo = pix[c].todo
        /\ \A d \in Pollers \ {c} : pix'[d] = pix[d]
    BY <1>1, <2>1 DEF PixTypeOK, Cycle
  <2>3. \A d \in Pollers : InHand(d)' = InHand(d)
    BY <2>1, <2>2 DEF InHand
  <2>4. Listed' /\ Apart'
    BY <2>1, <2>2, <2>3 DEF Reminded, Listed, Apart, UnderWay
  <2>5. h \in InHand(c) /\ ~Begun(c, h)
    BY <2>1 DEF InHand, Begun
  <2>6. ASSUME NEW o \in Orders, o = h, o \notin excused
        PROVE  Single(o)'
    <3>1. reminders[o] = 0
      BY <1>1, <2>5, <2>6 DEF Reminded, Single, PixTypeOK
    <3>2. reminders'[o] = 1
      BY <1>1, <2>1, <2>6, <3>1 DEF PixTypeOK
    <3>3. Begun(c, o)'
      BY <2>2, <2>6 DEF Begun
    <3>4. \A d \in Pollers : o \in InHand(d)' => d = c
      BY <2>3, <2>5, <2>6 DEF Reminded, Apart
    <3> QED
      BY <3>2, <3>3, <3>4 DEF Single
  <2>7. ASSUME NEW o \in Orders, o # h, reminders'[o] > 0, o \notin excused
        PROVE  Single(o)'
    <3>1. reminders'[o] = reminders[o]
      BY <1>1, <2>1, <2>7 DEF PixTypeOK
    <3>2. /\ reminders[o] = 1
          /\ \A d \in Pollers : o \in InHand(d) => Begun(d, o)
          /\ order[o].stamped \/ \E d \in Pollers : Begun(d, o)
      BY <2>7, <3>1 DEF Reminded, Single
    <3>3. \A d \in Pollers : Begun(d, o) => Begun(d, o)'
      BY <2>2, <2>7 DEF Begun
    <3>4. \A d \in Pollers : o \in InHand(d)' => Begun(d, o)'
      BY <2>3, <3>2, <3>3
    <3>5. order'[o].stamped \/ \E d \in Pollers : Begun(d, o)'
      BY <2>1, <3>2, <3>3
    <3> QED
      BY <3>1, <3>2, <3>4, <3>5 DEF Single
  <2>8. \A o \in Orders : Single(o)'
    BY <2>1, <2>6, <2>7 DEF Single
  <2> QED
    BY <2>4, <2>8 DEF Reminded
<1>6. CASE Answered(c)
  <2> DEFINE p == IF call[c].result = "raised" THEN "check" ELSE "mark"
             k == [pix[c] EXCEPT !.pc = p]
  <2>1. /\ pix[c].pc = "sending" /\ UNCHANGED <<order, reminders>>
        /\ pix' = [pix EXCEPT ![c] = k]
        /\ excused' = IF call[c].result = "raised" THEN excused \cup {pix[c].hand} ELSE excused
    BY <1>1, <1>6 DEF Answered, PixTypeOK
  <2>2. k \in Cycle /\ k.pc = p /\ k.hand = pix[c].hand /\ k.todo = pix[c].todo
        /\ p \in {"check", "mark"}
    BY <1>1 DEF Cycle
  <2> HIDE DEF k
  <2>3. pix'[c] = k
    BY <2>1 DEF TypesOK, PixTypeOK
  <2>4. InHand(c)' \subseteq InHand(c)
    BY <2>1, <2>2, <2>3 DEF InHand
  <2>5. \A o \in Orders \ excused' : Begun(c, o) => Begun(c, o)'
    BY <2>1, <2>2, <2>3 DEF Begun
  <2>6. pix[c].hand \notin pix[c].todo
    BY <2>1 DEF Reminded, Listed, UnderWay
  <2>7. /\ k.pc = "idle" => k.todo = {}
        /\ k.pc \in {"send", "sending", "mark"} => k.hand \notin k.todo
    BY <2>2, <2>6
  <2>8. excused \subseteq excused'
    BY <2>1
  <2> QED
    BY <1>1, <2>1, <2>2, <2>4, <2>5, <2>7, <2>8, HandsEmpty
<1>7. ASSUME NEW fails \in BOOLEAN, Mark(c, fails)
      PROVE  Reminded'
  <2> DEFINE h == pix[c].hand
             k == [pix[c] EXCEPT !.pc = "check"]
  <2>1. /\ pix[c].pc = "mark" /\ reminders' = reminders
        /\ pix' = [pix EXCEPT ![c] = k]
        /\ \/ order' = order /\ excused' = excused \cup {h}
           \/ order' = [order EXCEPT ![h].stamped = TRUE] /\ excused' = excused
    BY <1>1, <1>7 DEF Mark, PixTypeOK
  <2>2. k \in Cycle /\ k.pc = "check" /\ k.todo = pix[c].todo
    BY <1>1 DEF Cycle
  <2> HIDE DEF k
  <2>3. pix'[c] = k /\ \A d \in Pollers \ {c} : pix'[d] = pix[d]
    BY <2>1 DEF TypesOK, PixTypeOK
  <2>4. InHand(c)' \subseteq InHand(c) \ {h} /\ \A d \in Pollers \ {c} : InHand(d)' = InHand(d)
    <3>1. h \notin pix[c].todo
      BY <2>1 DEF Reminded, Listed, UnderWay
    <3> QED
      BY <2>1, <2>2, <2>3, <3>1 DEF InHand
  <2>5. Listed' /\ Apart'
    BY <2>1, <2>2, <2>3, <2>4 DEF Reminded, Listed, Apart, UnderWay
  <2>6. ASSUME NEW o \in Orders, reminders[o] > 0, o \notin excused'
        PROVE  Single(o)'
    <3>1. /\ reminders[o] = 1
          /\ \A d \in Pollers : o \in InHand(d) => Begun(d, o)
          /\ order[o].stamped \/ \E d \in Pollers : Begun(d, o)
      BY <2>1, <2>6 DEF Reminded, Single
    <3>2. \A d \in Pollers \ {c} : Begun(d, o) => Begun(d, o)'
      BY <2>3 DEF Begun
    <3>3. Begun(c, o) => o = h
      BY DEF Begun
    <3>4. \A d \in Pollers : o \in InHand(d)' => Begun(d, o)'
      BY <2>4, <3>1, <3>2, <3>3
    <3>5. order[o].stamped => order'[o].stamped
      BY <1>1, <2>1 DEF PixTypeOK, Order
    <3>6. o = h => order'[o].stamped
      BY <1>1, <2>1, <2>6 DEF PixTypeOK, Order
    <3>7. order'[o].stamped \/ \E d \in Pollers : Begun(d, o)'
      BY <3>1, <3>2, <3>3, <3>5, <3>6
    <3> QED
      BY <2>1, <3>1, <3>4, <3>7 DEF Single
  <2>7. \A o \in Orders : Single(o)'
    BY <2>1, <2>6 DEF Single
  <2> QED
    BY <2>5, <2>7 DEF Reminded
<1> QED
  BY <1>2, <1>3, <1>4, <1>5, <1>6, <1>7 DEF PixStep

LEMMA NextReminded == TypesOK /\ TypesOK' /\ Reminded /\ [Next]_vars => Reminded'
<1> SUFFICES ASSUME TypesOK, TypesOK', Reminded, [Next]_vars PROVE Reminded'
  OBVIOUS
<1>1. ASSUME NEW c \in Pollers, PixStep(c) PROVE Reminded'
  BY <1>1, PixReminded
<1>2. ASSUME UNCHANGED <<pix, reminders, excused>>,
             \A o \in Orders : order[o].stamped => order'[o].stamped
      PROVE  Reminded'
  <2>1. \A c \in Pollers : InHand(c)' = InHand(c)
    BY <1>2 DEF InHand
  <2>2. \A c \in Pollers, o \in Orders : Begun(c, o)' = Begun(c, o)
    BY <1>2 DEF Begun
  <2>3. Listed' /\ Apart'
    BY <1>2, <2>1 DEF Reminded, Listed, Apart, UnderWay
  <2>4. \A o \in Orders : Single(o)'
    BY <1>2, <2>1, <2>2 DEF Reminded, Single
  <2> QED
    BY <2>3, <2>4 DEF Reminded
<1>3. ASSUME NEW o \in Orders, Settle(o) PROVE Reminded'
  <2>1. \A p \in Orders : order[p].stamped => order'[p].stamped
    BY <1>3 DEF Settle, TypesOK, PixTypeOK, Order
  <2> QED
    BY <1>2, <1>3, <2>1 DEF Settle
<1>4. ASSUME NEW l \in Leads, OptOut(l) PROVE Reminded'
  BY <1>2, <1>4 DEF OptOut
<1>5. CASE UNCHANGED pixVars
  BY <1>2, <1>5 DEF pixVars
<1>6. ASSUME NEW w \in Workers, WorkerRestarts(w) PROVE Reminded'
  <2>1. /\ pix' = [c \in Pollers |-> IF c[1] = w THEN NoCycle ELSE pix[c]]
        /\ UNCHANGED <<order, reminders>> /\ excused \subseteq excused'
        /\ \A c \in Pollers : c[1] = w /\ pix[c].pc \in {"sending", "mark"}
                                => pix[c].hand \in excused'
    BY <1>6 DEF WorkerRestarts, PixRestart
  <2>2. NoCycle.pc = "idle" /\ NoCycle.todo = {}
    BY DEF NoCycle
  <2>3. \A c \in Pollers : InHand(c)' \subseteq InHand(c)
    BY <2>1, <2>2 DEF InHand
  <2>4. Listed'
    BY <2>1, <2>2 DEF Reminded, Listed, UnderWay
  <2>5. Apart'
    BY <2>1, <2>3 DEF Reminded, Apart
  <2>6. ASSUME NEW o \in Orders, reminders[o] > 0, o \notin excused'
        PROVE  Single(o)'
    <3>1. /\ reminders[o] = 1
          /\ \A d \in Pollers : o \in InHand(d) => Begun(d, o)
          /\ order[o].stamped \/ \E d \in Pollers : Begun(d, o)
      BY <2>1, <2>6 DEF Reminded, Single
    <3>2. \A d \in Pollers : Begun(d, o) => Begun(d, o)'
      BY <2>1, <2>6 DEF Begun
    <3>3. \A d \in Pollers : o \in InHand(d)' => Begun(d, o)'
      BY <2>3, <3>1, <3>2
    <3>4. order'[o].stamped \/ \E d \in Pollers : Begun(d, o)'
      BY <2>1, <3>1, <3>2
    <3> QED
      BY <2>1, <3>1, <3>3, <3>4 DEF Single
  <2>7. \A o \in Orders : Single(o)'
    BY <2>1, <2>6 DEF Single
  <2> QED
    BY <2>4, <2>5, <2>7 DEF Reminded
<1> QED
  BY <1>1, <1>3, <1>4, <1>5, <1>6 DEF Next, PixNext, Turn, Tool_, DayEnds, vars

\* "One reminder per order" (pix_reengagement.py): any number of workers and
\* cycles remind an order twice only if their cycles overlapped on it, its send
\* raised, its stamp failed, or a worker died with it.
THEOREM RemindersAreSingle == Spec => []ReminderOnce
<1>1. Init => Reminded
  <2> SUFFICES ASSUME Init PROVE Reminded
    OBVIOUS
  <2>1. \A c \in Pollers : pix[c].pc = "idle" /\ pix[c].todo = {} /\ InHand(c) = {}
    BY DEF Init, PixInit, NoCycle, InHand
  <2>2. \A o \in Orders : reminders[o] = 0
    BY DEF Init, PixInit
  <2> QED
    BY <2>1, <2>2 DEF Reminded, Listed, Apart, Single, UnderWay
<1>2. TypesOK /\ Reminded => ReminderOnce
  BY DEF Reminded, Single, ReminderOnce, TypesOK, PixTypeOK
<1> QED
  BY <1>1, <1>2, InitTypes, NextTypes, NextReminded, PTL DEF Spec

\* A reminder about to be begun was checked: each poller has at most one, and
\* it is counted against the lead as soon as the lead opts out.
Going(l) == {c \in Pollers : pix[c].pc = "send" /\ LeadOf[pix[c].hand] = l}
Spared(l) ==
    IF l \in optedOut THEN late[l] + Cardinality(Going(l)) <= Cardinality(Pollers) + faults
                      ELSE late[l] = 0
Respected == \A l \in Leads : Spared(l)

LEMMA GoingCounted ==
    ASSUME NEW l
    PROVE  /\ Cardinality(Going(l)) \in Nat /\ Cardinality(Going(l)') \in Nat
           /\ Cardinality(Pollers) \in Nat
           /\ Cardinality(Going(l)') <= Cardinality(Pollers)
           /\ Going(l)' \subseteq Going(l) => Cardinality(Going(l)') <= Cardinality(Going(l))
           /\ \A c \in Pollers : Going(l)' \subseteq Going(l) \cup {c}
                => Cardinality(Going(l)') <= Cardinality(Going(l)) + 1
           /\ \A c \in Going(l) : Going(l)' \subseteq Going(l) \ {c}
                => Cardinality(Going(l)') + 1 <= Cardinality(Going(l))
<1>1. /\ Going(l) \in SUBSET Callers /\ Going(l)' \in SUBSET Callers
      /\ Pollers \in SUBSET Callers /\ Going(l)' \subseteq Pollers
  BY PixAssumption DEF Going
<1> QED
  BY <1>1, Counting

\* Nobody new is about to remind l, nothing more was begun for l.
LEMMA SparedStill ==
    ASSUME TypesOK, TypesOK', NEW l \in Leads, Spared(l), faults' >= faults,
           optedOut' = optedOut, late'[l] = late[l],
           l \in optedOut => Going(l)' \subseteq Going(l)
    PROVE  Spared(l)'
<1>1. /\ faults \in Nat /\ faults' \in Nat /\ late[l] \in Nat
  BY ToolAssumption DEF TypesOK, ToolTypeOK, PixTypeOK
<1>2. CASE l \in optedOut
  <2>1. /\ Cardinality(Going(l)) \in Nat /\ Cardinality(Going(l)') \in Nat
        /\ Cardinality(Going(l)') <= Cardinality(Going(l)) /\ Cardinality(Pollers) \in Nat
    BY <1>2, GoingCounted
  <2> QED
    BY <1>1, <1>2, <2>1 DEF Spared
<1>3. CASE l \notin optedOut
  BY <1>3 DEF Spared
<1> QED
  BY <1>2, <1>3

LEMMA PixRespected ==
    ASSUME TypesOK, TypesOK', Respected, faults' >= faults, NEW c \in Pollers, PixStep(c)
    PROVE  Respected'
<1> SUFFICES ASSUME NEW l \in Leads PROVE Spared(l)'
  BY DEF Respected
<1>0. /\ pix[c] \in Cycle /\ pix[c].hand \in Orders /\ pix[c].todo \subseteq Orders
      /\ late[l] \in Nat
  BY DEF TypesOK, PixTypeOK, Cycle
<1>1. /\ pix[c] \in Cycle /\ pix[c].hand \in Orders /\ pix[c].todo \subseteq Orders
      /\ Spared(l) /\ late[l] \in Nat /\ faults \in Nat /\ faults' \in Nat
      /\ LeadOf[pix[c].hand] \in Leads
  <2>1. faults \in Nat /\ faults' \in Nat
    BY ToolAssumption DEF TypesOK, ToolTypeOK
  <2>2. Spared(l) /\ LeadOf[pix[c].hand] \in Leads
    BY <1>0, RostersTyped DEF Respected
  <2> QED
    BY <1>0, <2>1, <2>2
<1>2. ASSUME NEW k \in Cycle, pix' = [pix EXCEPT ![c] = k], k.pc # "send",
             UNCHANGED <<optedOut, late>>
      PROVE  Spared(l)'
  <2>1. Going(l)' \subseteq Going(l)
    BY <1>2 DEF Going, TypesOK, PixTypeOK
  <2> QED
    BY <1>1, <1>2, <2>1, SparedStill
<1>3. ASSUME NEW p \in {"check", "mark"}, pix' = [pix EXCEPT ![c].pc = p],
             UNCHANGED <<optedOut, late>>
      PROVE  Spared(l)'
  <2> DEFINE k == [pix[c] EXCEPT !.pc = p]
  <2>1. k \in Cycle /\ k.pc # "send"
    BY <1>1 DEF Cycle
  <2>2. pix' = [pix EXCEPT ![c] = k]
    BY <1>3 DEF TypesOK, PixTypeOK
  <2> QED
    BY <1>2, <1>3, <2>1, <2>2
<1>4. CASE Select(c)
  <2> DEFINE k == [pix[c] EXCEPT !.pc = "check", !.todo = Pending]
  <2>1. k \in Cycle /\ k.pc # "send"
    BY <1>1 DEF Cycle, Pending
  <2>2. pix' = [pix EXCEPT ![c] = k] /\ UNCHANGED <<optedOut, late>>
    BY <1>4 DEF Select, TypesOK, PixTypeOK
  <2> QED
    BY <1>2, <2>1, <2>2
<1>5. ASSUME NEW blind \in BOOLEAN, CheckOptOut(c, blind)
      PROVE  Spared(l)'
  <2>1. PICK o \in Earliest(c) :
          pix' = [pix EXCEPT ![c] =
                    IF LeadOf[o] \in optedOut /\ ~blind
                    THEN [pix[c] EXCEPT !.todo = pix[c].todo \ {o}]
                    ELSE [pc |-> "send", todo |-> pix[c].todo \ {o}, hand |-> o]]
    BY <1>5 DEF CheckOptOut
  <2>2. o \in Orders /\ pix[c].todo \ {o} \in SUBSET Orders /\ pix[c].pc = "check"
        /\ UNCHANGED <<optedOut, late>>
    BY <1>1, <1>5 DEF CheckOptOut, Earliest
  <2>3. CASE LeadOf[o] \in optedOut /\ ~blind
    <3> DEFINE k == [pix[c] EXCEPT !.todo = pix[c].todo \ {o}]
    <3>1. k \in Cycle /\ k.pc # "send"
      BY <1>1, <2>2 DEF Cycle
    <3>2. pix' = [pix EXCEPT ![c] = k]
      BY <2>1, <2>3
    <3> QED
      BY <1>2, <2>2, <3>1, <3>2
  <2>4. CASE ~(LeadOf[o] \in optedOut /\ ~blind)
    <3>1. pix' = [pix EXCEPT ![c] = [pc |-> "send", todo |-> pix[c].todo \ {o}, hand |-> o]]
      BY <2>1, <2>4
    <3>2. pix'[c].pc = "send" /\ pix'[c].hand = o
          /\ \A d \in Pollers \ {c} : pix'[d] = pix[d]
      BY <3>1 DEF TypesOK, PixTypeOK
    <3>3. Going(l)' \subseteq Going(l) \cup {c}
      BY <3>2 DEF Going
    <3>4. l # LeadOf[o] => Going(l)' \subseteq Going(l)
      BY <3>2 DEF Going
    <3>5. CASE l = LeadOf[o] /\ l \in optedOut
      <4>1. blind = TRUE
        BY <2>4, <3>5
      <4>2. faults' = faults + 1
        BY <1>5, <4>1 DEF CheckOptOut
      <4>3. /\ Cardinality(Going(l)) \in Nat /\ Cardinality(Going(l)') \in Nat
            /\ Cardinality(Going(l)') <= Cardinality(Going(l)) + 1
            /\ Cardinality(Pollers) \in Nat
        BY <3>3, GoingCounted
      <4>4. late[l] + Cardinality(Going(l)) <= Cardinality(Pollers) + faults
        BY <1>1, <3>5 DEF Spared
      <4>5. late'[l] = late[l] /\ l \in optedOut'
        BY <2>2, <3>5
      <4> QED
        BY <1>1, <4>2, <4>3, <4>4, <4>5 DEF Spared
    <3>6. CASE ~(l = LeadOf[o] /\ l \in optedOut)
      BY <1>1, <2>2, <3>4, <3>6, SparedStill
    <3> QED
      BY <3>5, <3>6
  <2> QED
    BY <2>3, <2>4
<1>6. CASE Finish(c)
  <2>1. NoCycle \in Cycle /\ NoCycle.pc # "send"
    BY PixAssumption DEF NoCycle, Cycle
  <2> QED
    BY <1>2, <1>6, <2>1 DEF Finish
<1>7. CASE Remind(c)
  <2> DEFINE h == pix[c].hand
  <2>1. /\ pix[c].pc = "send" /\ pix' = [pix EXCEPT ![c].pc = "sending"]
        /\ optedOut' = optedOut
        /\ late' = [late EXCEPT ![LeadOf[h]] = IF LeadOf[h] \in optedOut THEN @ + 1 ELSE @]
    BY <1>7 DEF Remind
  <2>2. pix'[c].pc = "sending" /\ \A d \in Pollers \ {c} : pix'[d] = pix[d]
    BY <1>1, <2>1 DEF TypesOK, PixTypeOK, Cycle
  <2>3. Going(l)' \subseteq Going(l) \ {c}
    BY <2>2 DEF Going
  <2>4. CASE l = LeadOf[h] /\ l \in optedOut
    <3>1. c \in Going(l)
      BY <2>1, <2>4 DEF Going
    <3>2. late'[l] = late[l] + 1
      BY <2>1, <2>4 DEF TypesOK, PixTypeOK
    <3>3. /\ Cardinality(Going(l)) \in Nat /\ Cardinality(Going(l)') \in Nat
          /\ Cardinality(Going(l)') + 1 <= Cardinality(Going(l)) /\ Cardinality(Pollers) \in Nat
      BY <2>3, <3>1, GoingCounted
    <3>4. late[l] + Cardinality(Going(l)) <= Cardinality(Pollers) + faults
      BY <1>1, <2>4 DEF Spared
    <3> QED
      BY <1>1, <2>1, <2>4, <3>2, <3>3, <3>4 DEF Spared
  <2>5. CASE ~(l = LeadOf[h] /\ l \in optedOut)
    <3>1. late'[l] = late[l]
      BY <2>1, <2>5 DEF TypesOK, PixTypeOK
    <3> QED
      BY <1>1, <2>1, <2>3, <3>1, SparedStill
  <2> QED
    BY <2>4, <2>5
<1>8. CASE Answered(c)
  BY <1>3, <1>8 DEF Answered
<1>9. ASSUME NEW fails \in BOOLEAN, Mark(c, fails)
      PROVE  Spared(l)'
  BY <1>3, <1>9 DEF Mark
<1> QED
  BY <1>4, <1>5, <1>6, <1>7, <1>8, <1>9 DEF PixStep

LEMMA NextRespected == TypesOK /\ TypesOK' /\ Respected /\ [Next]_vars => Respected'
<1> SUFFICES ASSUME TypesOK, TypesOK', Respected, [Next]_vars PROVE Respected'
  OBVIOUS
<1>1. faults' >= faults
  BY NextServes, FaultsGrow DEF TypesOK
<1>2. ASSUME NEW c \in Pollers, PixStep(c) PROVE Respected'
  BY <1>1, <1>2, PixRespected
<1>3. ASSUME UNCHANGED <<pix, late, optedOut>> PROVE Respected'
  <2> SUFFICES ASSUME NEW l \in Leads PROVE Spared(l)'
    BY DEF Respected
  <2>1. Going(l)' \subseteq Going(l)
    BY <1>3 DEF Going
  <2>2. Spared(l)
    BY DEF Respected
  <2> QED
    BY <1>1, <1>3, <2>1, <2>2, SparedStill
<1>4. ASSUME NEW o \in Orders, Settle(o) PROVE Respected'
  BY <1>3, <1>4 DEF Settle
<1>5. ASSUME NEW k \in Leads, OptOut(k) PROVE Respected'
  <2> SUFFICES ASSUME NEW l \in Leads PROVE Spared(l)'
    BY DEF Respected
  <2>1. pix' = pix /\ late' = late /\ k \notin optedOut /\ optedOut' = optedOut \cup {k} /\ Spared(l)
        /\ Going(l)' = Going(l)
    BY <1>5 DEF OptOut, Respected, Going
  <2>2. /\ faults \in Nat /\ faults' \in Nat /\ late[l] \in Nat
    BY ToolAssumption DEF TypesOK, ToolTypeOK, PixTypeOK
  <2>3. /\ Cardinality(Going(l)) \in Nat /\ Cardinality(Going(l)') \in Nat
        /\ Cardinality(Going(l)') <= Cardinality(Pollers) /\ Cardinality(Pollers) \in Nat
        /\ Cardinality(Going(l)') <= Cardinality(Going(l))
    BY <2>1, GoingCounted
  <2>4. CASE l = k
    BY <2>1, <2>2, <2>3, <2>4 DEF Spared
  <2>5. CASE l # k /\ l \in optedOut
    BY <1>1, <2>1, <2>2, <2>3, <2>5 DEF Spared
  <2>6. CASE l # k /\ l \notin optedOut
    BY <2>1, <2>6 DEF Spared
  <2> QED
    BY <2>4, <2>5, <2>6
<1>6. CASE UNCHANGED pixVars
  BY <1>3, <1>6 DEF pixVars
<1>7. ASSUME NEW w \in Workers, WorkerRestarts(w) PROVE Respected'
  <2> SUFFICES ASSUME NEW l \in Leads PROVE Spared(l)'
    BY DEF Respected
  <2>1. /\ pix' = [c \in Pollers |-> IF c[1] = w THEN NoCycle ELSE pix[c]]
        /\ UNCHANGED <<late, optedOut>> /\ Spared(l)
    BY <1>7 DEF WorkerRestarts, PixRestart, Respected
  <2>2. Going(l)' \subseteq Going(l)
    BY <2>1 DEF Going, NoCycle
  <2> QED
    BY <1>1, <2>1, <2>2, SparedStill
<1> QED
  BY <1>2, <1>4, <1>5, <1>6, <1>7 DEF Next, PixNext, Turn, Tool_, DayEnds, vars

\* "Respects opt-out" (pix_reengagement.py): after a lead opted out each poller
\* begins at most the one reminder it had already checked, whatever the number
\* of orders and cycles; only a blind check can add to that.
THEOREM OptOutsAreRespected == Spec => []LateRemindersBounded
<1>1. Init => Respected
  BY DEF Init, PixInit, Respected, Spared
<1>2. TypesOK /\ Respected => LateRemindersBounded
  <2> SUFFICES ASSUME TypesOK, Respected, NEW l \in Leads
               PROVE  late[l] <= Cardinality(Pollers) + faults
    BY DEF LateRemindersBounded
  <2>1. Spared(l) /\ late[l] \in Nat /\ faults \in Nat
    BY ToolAssumption DEF Respected, TypesOK, ToolTypeOK, PixTypeOK
  <2>2. Cardinality(Going(l)) \in Nat /\ Cardinality(Pollers) \in Nat
    BY GoingCounted
  <2> QED
    BY <2>1, <2>2 DEF Spared
<1> QED
  BY <1>1, <1>2, InitTypes, NextTypes, NextRespected, PTL DEF Spec
=============================================================================
