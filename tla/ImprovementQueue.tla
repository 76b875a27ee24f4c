-------------------------- MODULE ImprovementQueue --------------------------
(***************************************************************************)
(* The queue of suggested improvements (conversion/self_improvement.py)    *)
(* and its review by an operator (api/routes/improvements.py).             *)
(*                                                                         *)
(* A queue object keeps candidates in the memory of its process and, if it *)
(* can, in the database.  It cannot from inside a running event loop,      *)
(* which is where the team uses it: _run_db then raises and the memory is  *)
(* all there is.  The route works on the database alone, and its review is *)
(* a read followed by a transaction; the queue's is three statements.      *)
(***************************************************************************)
EXTENDS Naturals, Sequences

CONSTANTS
    Candidates,
    Queues,         \* ImprovementQueue objects
    Looping,        \* those used inside an event loop
    Reviewers,      \* reviews in progress
    MaxReviews,     \* bound: reviews of a behaviour
    MaxOutages      \* bound: faults of any kind

ASSUME QueueAssumption ==
    /\ Candidates # {} /\ "route" \notin Queues
    /\ Looping \subseteq Queues
    /\ MaxReviews \in Nat /\ MaxOutages \in Nat

VARIABLES
    row,        \* row[i]: improvement_candidates.status, "none" without a row
    reviewLog,  \* improvement_review_log, in order
    held,       \* held[q][i]: status of the candidate in the memory of q
    memoryLog,  \* memoryLog[q]: _review_log of q
    review,     \* review[r]: the review r is in
    reviews, outages

queueVars == <<row, reviewLog, held, memoryLog, review, reviews, outages>>

Status == {"suggested", "approved", "rejected", "promoted"}
Entry == [id : Candidates, from : Status, to : Status]

\* via is the queue, or "route".  stale: the row was written since it was read.
Review == [pc : {"idle", "update", "log"}, id : Candidates, to : Status,
           from : Status, via : Queues \cup {"route"}, stale : BOOLEAN]
NoReview == [pc |-> "idle", id |-> CHOOSE i \in Candidates : TRUE,
             to |-> "suggested", from |-> "suggested", via |-> "route", stale |-> FALSE]

QueueInit ==
    /\ row = [i \in Candidates |-> "none"]
    /\ reviewLog = <<>>
    /\ held = [q \in Queues |-> [i \in Candidates |-> "none"]]
    /\ memoryLog = [q \in Queues |-> <<>>]
    /\ review = [r \in Reviewers |-> NoReview]
    /\ reviews = 0 /\ outages = 0

-----------------------------------------------------------------------------
Outage(happens) ==
    /\ happens => outages < MaxOutages
    /\ outages' = IF happens THEN outages + 1 ELSE outages

\* A new id each time; the database is best effort.
suggest(q, i, stored) ==
    /\ row[i] = "none" /\ \A p \in Queues : held[p][i] = "none"
    /\ stored => q \notin Looping
    /\ Outage(~stored /\ q \notin Looping)
    /\ held' = [held EXCEPT ![q][i] = "suggested"]
    /\ row' = IF stored THEN [row EXCEPT ![i] = "suggested"] ELSE row
    /\ UNCHANGED <<reviewLog, memoryLog, review, reviews>>

\* Wrong: a suggestion can be promoted at once.
AllowedAtOnce(from) ==
    CASE from = "suggested" -> {"approved", "rejected", "promoted"}
      [] from = "approved" -> {"promoted"}
      [] OTHER -> {}

\* _VALID_TRANSITIONS
Allowed(from) ==
    CASE from = "suggested" -> {"approved", "rejected"}
      [] from = "approved" -> {"promoted"}
      [] OTHER -> {}

\* The queue refuses nothing but a promotion without approval.
Promotable(from, to) == to = "promoted" => from = "approved"

Begin(r, via, i, to, from) ==
    /\ review[r].pc = "idle" /\ reviews < MaxReviews
    /\ reviews' = reviews + 1
    /\ review' = [review EXCEPT ![r] = [pc |-> "update", id |-> i, to |-> to,
                                        from |-> from, via |-> via, stale |-> FALSE]]

RouteReads(r, i, to) ==
    /\ row[i] # "none" /\ to \in Allowed(row[i])
    /\ Begin(r, "route", i, to, row[i])
    /\ UNCHANGED <<row, reviewLog, held, memoryLog, outages>>

QueueReads(r, q, i, to) ==
    /\ q \notin Looping /\ row[i] # "none" /\ Promotable(row[i], to)
    /\ Begin(r, q, i, to, row[i])
    /\ UNCHANGED <<row, reviewLog, held, memoryLog, outages>>

Logged(v) == Append(reviewLog, [id |-> v.id, from |-> v.from, to |-> v.to])

Writes(r, next) ==
    LET v == review[r] IN
    /\ row' = [row EXCEPT ![v.id] = v.to]
    /\ review' = [s \in Reviewers |->
                    IF s = r THEN next
                    ELSE IF review[s].pc = "update" /\ review[s].id = v.id
                    THEN [review[s] EXCEPT !.stale = TRUE]
                    ELSE review[s]]

\* Status and log in one transaction; the status is not compared again.
RouteWrites(r) ==
    /\ review[r].pc = "update" /\ review[r].via = "route"
    /\ Writes(r, NoReview)
    /\ reviewLog' = Logged(review[r])
    /\ UNCHANGED <<held, memoryLog, reviews, outages>>

QueueWrites(r) ==
    /\ review[r].pc = "update" /\ review[r].via \in Queues
    /\ Writes(r, [review[r] EXCEPT !.pc = "log"])
    /\ UNCHANGED <<reviewLog, held, memoryLog, reviews, outages>>

QueueLogs(r) ==
    LET v == review[r] IN
    /\ v.pc = "log"
    /\ reviewLog' = Logged(v)
    /\ held' = [held EXCEPT ![v.via][v.id] = v.to]
    /\ review' = [review EXCEPT ![r] = NoReview]
    /\ UNCHANGED <<row, memoryLog, reviews, outages>>

\* The fallback: the candidate in memory, under the same rule, or a KeyError.
InMemory(q, i, to) ==
    IF held[q][i] # "none" /\ Promotable(held[q][i], to)
    THEN /\ held' = [held EXCEPT ![q][i] = to]
         /\ memoryLog' = [memoryLog EXCEPT ![q] =
                            Append(@, [id |-> i, from |-> held[q][i], to |-> to])]
    ELSE UNCHANGED <<held, memoryLog>>

ReviewInMemory(q, i, to) ==
    /\ reviews < MaxReviews
    /\ Outage(q \notin Looping)
    /\ reviews' = reviews + 1
    /\ InMemory(q, i, to)
    /\ UNCHANGED <<row, reviewLog, review>>

\* The database fails between two statements; the queue goes on in memory.
ReviewFails(r) ==
    LET v == review[r] IN
    /\ v.pc # "idle"
    /\ Outage(TRUE)
    /\ review' = [review EXCEPT ![r] = NoReview]
    /\ IF v.via = "route" THEN UNCHANGED <<held, memoryLog>>
       ELSE InMemory(v.via, v.id, v.to)
    /\ UNCHANGED <<row, reviewLog, reviews>>

\* What a process keeps in memory dies with it.
QueueDies(q) ==
    /\ Outage(TRUE)
    /\ held' = [held EXCEPT ![q] = [i \in Candidates |-> "none"]]
    /\ memoryLog' = [memoryLog EXCEPT ![q] = <<>>]
    /\ review' = [r \in Reviewers |-> IF review[r].via = q THEN NoReview ELSE review[r]]
    /\ UNCHANGED <<row, reviewLog, reviews>>

QueueNext ==
    \/ \E q \in Queues, i \in Candidates, stored \in BOOLEAN : suggest(q, i, stored)
    \/ \E r \in Reviewers, i \in Candidates, to \in Status :
          \/ RouteReads(r, i, to)
          \/ \E q \in Queues : QueueReads(r, q, i, to)
    \/ \E q \in Queues, i \in Candidates, to \in Status :
          ReviewInMemory(q, i, to)
    \/ \E r \in Reviewers :
          RouteWrites(r) \/ QueueWrites(r) \/ QueueLogs(r) \/ ReviewFails(r)
    \/ \E q \in Queues : QueueDies(q)

QueueSpec == QueueInit /\ [][QueueNext]_queueVars

-----------------------------------------------------------------------------
(* Properties *)

\* Rows, memories and logs hold statuses of ImprovementStatus, and only reviews
\* through a queue have a log entry of their own to write.
QueueTypeOK ==
    /\ row \in [Candidates -> Status \cup {"none"}]
    /\ reviewLog \in Seq(Entry)
    /\ held \in [Queues -> [Candidates -> Status \cup {"none"}]]
    /\ memoryLog \in [Queues -> Seq(Entry)]
    /\ review \in [Reviewers -> Review]
    /\ \A r \in Reviewers : review[r].pc = "log" => review[r].via \in Queues
    /\ reviews \in 0 .. MaxReviews /\ outages \in 0 .. MaxOutages

\* "Cannot promote without approval", over two ways to review and no lock: the
\* status a promotion overwrites is an approval, unless another review wrote
\* between the promotion's read and its write.
PromotionOverwritesApproval ==
    [][\A i \in Candidates :
         row'[i] = "promoted" /\ row[i] # "promoted" =>
            \/ row[i] = "approved"
            \/ \E r \in Reviewers :
                  review[r].pc = "update" /\ review[r].id = i /\ review[r].stale]_queueVars
=============================================================================
