---------------------------- MODULE WhatsAppTool ----------------------------
(***************************************************************************)
(* The WhatsApp tool (tools/whatsapp.py): one instance per tenant in every *)
(* worker, used by all coroutines of that worker.                          *)
(*                                                                         *)
(* A text passes the warm-up check, waits for the asyncio.Lock of its      *)
(* number, and is posted under three nested retry loops (queue, HTTP 429,  *)
(* HTTP 5xx and connection errors).  An image skips check, lock and count. *)
(* One POST with its outcome is one step; the coroutine runs from a POST's *)
(* answer to its next await without interruption, so the release of the    *)
(* lock and the daily count belong to that step.                           *)
(*                                                                         *)
(* The module has no Next of its own: the jobs that send extend it.        *)
(***************************************************************************)
EXTENDS Integers, Sequences, FiniteSets, Functions

CONSTANTS
    Workers,          \* uvicorn worker processes
    Tenants,
    Callers,          \* coroutines that send: <<worker, tenant, role>>
    Numbers,          \* phone numbers and groups, normalised
    Messages,         \* what is sent
    MaxAttempts,      \* max_attempts of both HTTP loops
    EnqueueAttempts,  \* attempts of MessageQueue.enqueue
    EarlyLimit, MidLimit, FullLimit,  \* daily limits of the warm-up phases
    FirstDay, LastDay,                \* bound: the days of the warm-up played
    MaxFaults                         \* bound: faults of any kind

ASSUME ToolAssumption ==
    /\ IsFiniteSet(Workers) /\ IsFiniteSet(Callers)
    /\ Numbers # {} /\ Messages # {}
    /\ \A c \in Callers : c[1] \in Workers /\ c[2] \in Tenants
    /\ MaxAttempts \in Nat \ {0} /\ EnqueueAttempts \in Nat \ {0}
    /\ EarlyLimit \in Nat \ {0} /\ MidLimit \in Nat /\ FullLimit \in Nat
    /\ EarlyLimit <= MidLimit /\ MidLimit <= FullLimit
    /\ FirstDay \in Nat \ {0} /\ LastDay \in Nat /\ FirstDay <= LastDay
    /\ MaxFaults \in Nat

VARIABLES
    mode,       \* how the tenant configured the tool
    dbUrl,      \* whether DATABASE_URL is set, for the jobs that need it
    day,        \* date.today(), counted from the start of the warm-up
    tool,       \* tool[t]: counters of tool instance t
    queue,      \* queue[t][n]: the lock of n in t: its holder, then its waiters
    call,       \* call[c]: the call coroutine c is in
    copies,     \* copies[m]: times m reached its number
    begun,      \* begun[m]: calls that were let through to post m
    lost,       \* lost[m]: deliveries of m whose answer did not arrive
    volume,     \* volume[t]: texts accepted since midnight and the last start
    faults

callVars == <<queue, call>>
sentVars == <<copies, begun, lost, volume>>
config == <<mode, dbUrl>>
toolVars == <<config, day, tool, callVars, sentVars, faults>>

Tools == Workers \X Tenants
Host(c) == <<c[1], c[2]>>
CallersOf(t) == {c \in Callers : Host(c) = t}

\* An answer that is not an exception is a ToolResult: ok, its no-op, or fail.
Results == {"none", "noop", "ok", "fail", "raised"}
Succeeded == {"noop", "ok"}
Call == [pc : {"idle", "sending", "returned"}, to : Numbers, msg : Messages,
         media : BOOLEAN, round : 0 .. EnqueueAttempts,
         limited : 0 .. MaxAttempts, errors : 0 .. MaxAttempts, result : Results]
NoCall == [pc |-> "idle", to |-> CHOOSE n \in Numbers : TRUE,
           msg |-> CHOOSE m \in Messages : TRUE, media |-> FALSE,
           round |-> 0, limited |-> 0, errors |-> 0, result |-> "none"]

\* counted is _daily_count_date: 0 before the first check.  warmUpDay is read
\* once, when the process builds the tool.
Tool == [sent : Nat, counted : 0 .. LastDay, warmUpDay : FirstDay .. LastDay]
FreshTool == [sent |-> 0, counted |-> 0, warmUpDay |-> day]

ToolInit ==
    /\ mode \in {"unconfigured", "warming", "normal"}
    /\ dbUrl \in BOOLEAN
    /\ day = FirstDay
    /\ tool = [t \in Tools |-> FreshTool]
    /\ queue = [t \in Tools |-> [n \in Numbers |-> <<>>]]
    /\ call = [c \in Callers |-> NoCall]
    /\ copies = [m \in Messages |-> 0]
    /\ begun = [m \in Messages |-> 0]
    /\ lost = [m \in Messages |-> 0]
    /\ volume = [t \in Tools |-> 0]
    /\ faults = 0

-----------------------------------------------------------------------------
(* The warm-up check *)

get_warm_up_limit(d) ==
    CASE d <= 3 -> EarlyLimit
      [] d > 3 /\ d <= 7 -> MidLimit
      [] OTHER -> FullLimit

\* Wrong: the date of the count is not kept, each check starts a new day.
RolledAnew(t) == [tool[t] EXCEPT !.sent = 0, !.counted = day]

\* _reset_daily_count_if_needed: the count of another day is dropped only here.
Rolled(t) ==
    [tool[t] EXCEPT !.sent = IF tool[t].counted \in {0, day} THEN @ ELSE 0,
                    !.counted = day]

LimitReached(t) ==
    mode = "warming" /\ Rolled(t).sent >= get_warm_up_limit(tool[t].warmUpDay)

Texting(c) == call[c].pc = "sending" /\ ~call[c].media

Answer(c, n, m, result) ==
    call' = [call EXCEPT ![c] = [NoCall EXCEPT !.pc = "returned", !.to = n, !.msg = m,
                                              !.result = result]]

Enter(c, n, m, media) ==
    /\ call' = [call EXCEPT ![c] = [NoCall EXCEPT !.pc = "sending", !.to = n, !.msg = m,
                                                 !.media = media]]
    /\ begun' = [begun EXCEPT ![m] = @ + 1]

\* send_message up to its first await that blocks.  asyncio.Lock wakes its
\* waiters in the order they came.
Unconfigured(c, n, m) ==
    /\ mode = "unconfigured"
    /\ Answer(c, n, m, "noop")
    /\ UNCHANGED <<tool, queue, begun>>

Refuse(c, n, m) ==
    /\ mode # "unconfigured"
    /\ LimitReached(Host(c))
    /\ tool' = [tool EXCEPT ![Host(c)] = Rolled(Host(c))]
    /\ Answer(c, n, m, "fail")
    /\ UNCHANGED <<queue, begun>>

Admit(c, n, m) ==
    /\ mode # "unconfigured"
    /\ ~LimitReached(Host(c))
    /\ tool' = [tool EXCEPT ![Host(c)] = Rolled(Host(c))]
    /\ queue' = [queue EXCEPT ![Host(c)][n] = Append(@, c)]
    /\ Enter(c, n, m, FALSE)

send_message(c, n, m) ==
    /\ call[c].pc = "idle"
    /\ \/ Unconfigured(c, n, m)
       \/ Refuse(c, n, m)
       \/ Admit(c, n, m)
    /\ UNCHANGED <<config, day, copies, lost, volume, faults>>

\* send_image asks neither the api_key nor the warm-up limit nor the lock.
send_image(c, n, m) ==
    /\ call[c].pc = "idle"
    /\ Enter(c, n, m, TRUE)
    /\ UNCHANGED <<config, day, tool, queue, copies, lost, volume, faults>>

-----------------------------------------------------------------------------
(* Posting *)

\* Wrong: the lock is not per number but per message.
HoldsOwnLock(c) == queue[Host(c)][call[c].to] # <<>>

HoldsLock(c) ==
    LET q == queue[Host(c)][call[c].to] IN q # <<>> /\ Head(q) = c

Posting(c) == call[c].pc = "sending" /\ (call[c].media \/ HoldsLock(c))

\* Leaving enqueue releases the lock; the count follows a success at once.
Return(c, result) ==
    /\ call' = [call EXCEPT ![c].pc = "returned", ![c].result = result]
    /\ IF call[c].media
       THEN UNCHANGED <<queue, tool, volume>>
       ELSE LET t == Host(c)
                counts == IF result = "ok" THEN 1 ELSE 0
            IN /\ queue' = [queue EXCEPT ![t][call[c].to] = Tail(@)]
               /\ tool' = [tool EXCEPT ![t].sent = @ + counts]
               /\ volume' = [volume EXCEPT ![t] = @ + counts]

Retry(c, changed) ==
    /\ call' = [call EXCEPT ![c] = changed]
    /\ UNCHANGED <<queue, tool, volume>>

Deliver(m, unanswered) ==
    /\ copies' = [copies EXCEPT ![m] = @ + 1]
    /\ lost' = [lost EXCEPT ![m] = @ + unanswered]

\* Wrong: the loop of the HTTP errors goes on after a success.
AcceptedInLoop(c) ==
    /\ Posting(c)
    /\ Deliver(call[c].msg, 0)
    /\ IF call[c].errors + 1 < MaxAttempts
       THEN Retry(c, [call[c] EXCEPT !.errors = @ + 1])
       ELSE Return(c, "ok")
    /\ UNCHANGED <<config, day, begun, faults>>

Accepted(c) ==
    /\ Posting(c)
    /\ Deliver(call[c].msg, 0)
    /\ Return(c, "ok")
    /\ UNCHANGED <<config, day, begun, faults>>

\* Wrong: there is no end to the pauses.
RateLimitedForever(c) ==
    /\ Posting(c) /\ faults < MaxFaults
    /\ faults' = faults + 1
    /\ Retry(c, [call[c] EXCEPT !.limited = @ + 1, !.errors = 0])
    /\ UNCHANGED <<config, day, begun, copies, lost>>

\* HTTP 429: outside the 5xx loop, so that loop starts again after the pause.
RateLimited(c) ==
    /\ Posting(c) /\ faults < MaxFaults
    /\ faults' = faults + 1
    /\ IF call[c].limited + 1 < MaxAttempts
       THEN Retry(c, [call[c] EXCEPT !.limited = @ + 1, !.errors = 0])
       ELSE Return(c, "fail")
    /\ UNCHANGED <<config, day, begun, copies, lost>>

\* An HTTP error or a connection error; a timeout may follow a delivery.
PostFails(c, arrived) ==
    /\ Posting(c) /\ faults < MaxFaults
    /\ faults' = faults + 1
    /\ IF arrived THEN Deliver(call[c].msg, 1) ELSE UNCHANGED <<copies, lost>>
    /\ IF call[c].errors + 1 < MaxAttempts
       THEN Retry(c, [call[c] EXCEPT !.errors = @ + 1])
       ELSE Return(c, "fail")
    /\ UNCHANGED <<config, day, begun>>

\* An answer of success whose body is not the expected JSON, from the Evolution
\* API or from something before it: neither HTTP loop catches that,
\* MessageQueue.enqueue does and calls its send_fn once more.
Garbled(c, arrived) ==
    /\ Posting(c) /\ faults < MaxFaults
    /\ faults' = faults + 1
    /\ IF arrived THEN Deliver(call[c].msg, 1) ELSE UNCHANGED <<copies, lost>>
    /\ IF ~call[c].media /\ call[c].round + 1 < EnqueueAttempts
       THEN Retry(c, [call[c] EXCEPT !.round = @ + 1, !.limited = 0, !.errors = 0])
       ELSE Return(c, "raised")
    /\ UNCHANGED <<config, day, begun>>

Post(c) ==
    \/ Accepted(c)
    \/ RateLimited(c)
    \/ \E arrived \in BOOLEAN : PostFails(c, arrived) \/ Garbled(c, arrived)

\* The caller goes on with the result.
Collect(c) ==
    /\ call[c].pc = "returned"
    /\ call' = [call EXCEPT ![c] = NoCall]
    /\ UNCHANGED <<config, day, tool, queue, sentVars, faults>>

-----------------------------------------------------------------------------
(* Days and restarts *)

Midnight ==
    /\ day < LastDay
    /\ day' = day + 1
    /\ volume' = [t \in Tools |-> 0]
    /\ UNCHANGED <<config, tool, callVars, copies, begun, lost, faults>>

\* A worker dies and is started again: counters, locks and calls were in its
\* memory.  Posts it had in flight may still arrive.
Restart(w) ==
    /\ faults < MaxFaults
    /\ faults' = faults + 1
    /\ tool' = [t \in Tools |-> IF t[1] = w THEN FreshTool ELSE tool[t]]
    /\ queue' = [t \in Tools |-> IF t[1] = w THEN [n \in Numbers |-> <<>>] ELSE queue[t]]
    /\ call' = [c \in Callers |-> IF c[1] = w THEN NoCall ELSE call[c]]
    /\ volume' = [t \in Tools |-> IF t[1] = w THEN 0 ELSE volume[t]]
    /\ \E arrived \in SUBSET {c \in Callers : c[1] = w /\ Posting(c)} :
         LET count(m) == Cardinality({c \in arrived : call[c].msg = m}) IN
         /\ copies' = [m \in Messages |-> copies[m] + count(m)]
         /\ lost' = [m \in Messages |-> lost[m] + count(m)]
    /\ UNCHANGED <<config, day, begun>>

ToolStep == (\E c \in Callers : Post(c)) \/ Midnight

-----------------------------------------------------------------------------
(* Properties *)

\* Calls, counters and locks have the types of tools/whatsapp.py; a lock is
\* held and awaited by calls that are sending a text to its number.
ToolTypeOK ==
    /\ mode \in {"unconfigured", "warming", "normal"}
    /\ dbUrl \in BOOLEAN
    /\ day \in FirstDay .. LastDay
    /\ tool \in [Tools -> Tool]
    /\ queue \in [Tools -> [Numbers -> Seq(Callers)]]
    /\ call \in [Callers -> Call]
    /\ copies \in [Messages -> Nat] /\ begun \in [Messages -> Nat]
    /\ lost \in [Messages -> Nat] /\ volume \in [Tools -> Nat]
    /\ faults \in 0 .. MaxFaults

\* A text that is being retried is never overtaken or interleaved by another
\* text of the same worker to the same number (MessageQueue: one message in
\* flight per number), whatever mix of 429, errors and garbled answers its
\* retries meet.
Tried(c) == Texting(c) /\ call[c].round + call[c].limited + call[c].errors > 0

OneInFlightPerNumber ==
    \A c, d \in Callers :
        /\ Tried(c) /\ Tried(d)
        /\ Host(c) = Host(d) /\ call[c].to = call[d].to
        => c = d

\* How far the warm-up limit can be overrun by one process: calls admitted
\* together all pass the check before any is counted, and calls in flight at
\* midnight (none before the first) are counted for the day before.  The limit
\* itself is the frozen one, never above today's.
WarmUpOverrunBounded ==
    LET excess(t) == IF day = FirstDay THEN Cardinality(CallersOf(t))
                     ELSE 2 * Cardinality(CallersOf(t))
    IN mode = "warming" =>
          \A t \in Tools : volume[t] <= get_warm_up_limit(day) - 1 + excess(t)

\* The three nested retry loops send a message again only when the answer to
\* a delivery was lost: copies never exceed the calls let through plus the
\* answers that never came.
CopiesExplained == \A m \in Messages : copies[m] <= begun[m] + lost[m]
=============================================================================
