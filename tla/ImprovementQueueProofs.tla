----------------------- MODULE ImprovementQueueProofs -----------------------
(***************************************************************************)
(* What the review of improvements guarantees, for any number of queues,   *)
(* candidates, reviewers and reviews.                                      *)
(***************************************************************************)
EXTENDS ImprovementQueue, TLAPS

-----------------------------------------------------------------------------
(* Types *)

\* Begin with a status read from a row is a review that awaits its update.
LEMMA BeginTyped ==
    ASSUME QueueTypeOK,
           NEW r \in Reviewers, NEW via \in Queues \cup {"route"}, NEW i \in Candidates,
           NEW to \in Status, NEW from \in Status, Begin(r, via, i, to, from)
    PROVE  /\ review' \in [Reviewers -> Review]
           /\ \A s \in Reviewers : review'[s].pc = "log" => review[s].pc = "log" /\ s # r
           /\ \A s \in Reviewers \ {r} : review'[s] = review[s]
           /\ reviews' \in 0 .. MaxReviews
<1> DEFINE v == [pc |-> "update", id |-> i, to |-> to, from |-> from, via |-> via,
                 stale |-> FALSE]
<1>1. v \in Review
  BY DEF Review
<1>2. review' = [review EXCEPT ![r] = v] /\ reviews < MaxReviews /\ reviews' = reviews + 1
  BY DEF Begin
<1>3. reviews' \in 0 .. MaxReviews
  BY <1>2, QueueAssumption DEF QueueTypeOK
<1>4. v.pc # "log"
  OBVIOUS
<1> QED
  BY <1>1, <1>2, <1>3, <1>4 DEF QueueTypeOK

\* The reviews after one of them wrote: it goes on with next, the others keep
\* everything but their freshness.
LEMMA WritesTyped ==
    ASSUME QueueTypeOK, NEW r \in Reviewers, NEW next \in Review, Writes(r, next)
    PROVE  /\ row' \in [Candidates -> Status \cup {"none"}]
           /\ review' \in [Reviewers -> Review]
           /\ review'[r] = next
           /\ \A s \in Reviewers \ {r} :
                 /\ review'[s].pc = review[s].pc /\ review'[s].via = review[s].via
                 /\ review'[s].id = review[s].id /\ review'[s].to = review[s].to
                 /\ review'[s].from = review[s].from
                 /\ ~review'[s].stale =>
                       /\ ~review[s].stale
                       /\ review[s].pc = "update" => review[s].id # review[r].id
<1>1. review[r] \in Review
  BY DEF QueueTypeOK
<1>2. review[r].id \in Candidates /\ review[r].to \in Status
  BY <1>1 DEF Review
<1>3. row' \in [Candidates -> Status \cup {"none"}]
  BY <1>2 DEF QueueTypeOK, Writes
<1>4. ASSUME NEW s \in Reviewers \ {r}
      PROVE  /\ review'[s] \in Review
             /\ review'[s].pc = review[s].pc /\ review'[s].via = review[s].via
             /\ review'[s].id = review[s].id /\ review'[s].to = review[s].to
             /\ review'[s].from = review[s].from
             /\ ~review'[s].stale =>
                   /\ ~review[s].stale
                   /\ review[s].pc = "update" => review[s].id # review[r].id
  <2>1. review[s] \in Review
    BY DEF QueueTypeOK
  <2>2. CASE review[s].pc = "update" /\ review[s].id = review[r].id
    <3>1. review'[s] = [review[s] EXCEPT !.stale = TRUE]
      BY <2>2, <1>4 DEF Writes
    <3> QED
      BY <2>1, <3>1 DEF Review
  <2>3. CASE ~(review[s].pc = "update" /\ review[s].id = review[r].id)
    <3>1. review'[s] = review[s]
      BY <2>3, <1>4 DEF Writes
    <3> QED
      BY <2>1, <2>3, <3>1
  <2> QED
    BY <2>2, <2>3
<1>5. review'[r] = next
  BY DEF Writes
<1>6. review' = [s \in Reviewers |-> review'[s]]
  BY DEF Writes
<1>7. review' \in [Reviewers -> Review]
  BY <1>4, <1>5, <1>6
<1> QED
  BY <1>3, <1>4, <1>5, <1>7

\* The fallback to memory keeps to the statuses.
LEMMA InMemoryTyped ==
    ASSUME QueueTypeOK, NEW q \in Queues, NEW i \in Candidates, NEW to \in Status,
           InMemory(q, i, to)
    PROVE  /\ held' \in [Queues -> [Candidates -> Status \cup {"none"}]]
           /\ memoryLog' \in [Queues -> Seq(Entry)]
<1>1. CASE held[q][i] # "none" /\ Promotable(held[q][i], to)
  <2>1. held[q][i] \in Status
    BY <1>1 DEF QueueTypeOK
  <2>2. [id |-> i, from |-> held[q][i], to |-> to] \in Entry
    BY <2>1 DEF Entry
  <2>3. Append(memoryLog[q], [id |-> i, from |-> held[q][i], to |-> to]) \in Seq(Entry)
    BY <2>2 DEF QueueTypeOK
  <2>4. held' = [held EXCEPT ![q][i] = to]
    BY <1>1 DEF InMemory
  <2>5. memoryLog' = [memoryLog EXCEPT ![q] =
                        Append(@, [id |-> i, from |-> held[q][i], to |-> to])]
    BY <1>1 DEF InMemory
  <2> QED
    BY <2>3, <2>4, <2>5 DEF QueueTypeOK
<1>2. CASE ~(held[q][i] # "none" /\ Promotable(held[q][i], to))
  BY <1>2 DEF InMemory, QueueTypeOK
<1> QED
  BY <1>1, <1>2

LEMMA OutageTyped ==
    ASSUME QueueTypeOK, NEW happens \in BOOLEAN, Outage(happens)
    PROVE  outages' \in 0 .. MaxOutages
<1>1. CASE happens
  BY <1>1, QueueAssumption DEF Outage, QueueTypeOK
<1>2. CASE ~happens
  BY <1>2 DEF Outage, QueueTypeOK
<1> QED
  BY <1>1, <1>2

-----------------------------------------------------------------------------
(* The inductive invariant *)

\* A promotion that nobody has overtaken read an approval, which still stands.
FreshPromotion(r) ==
    review[r].pc = "update" /\ review[r].to = "promoted" /\ ~review[r].stale =>
        row[review[r].id] = "approved"

QueueInv == QueueTypeOK /\ \A r \in Reviewers : FreshPromotion(r)

LEMMA NoReviewTyped == NoReview \in Review /\ NoReview.pc = "idle"
BY QueueAssumption DEF NoReview, Review, Status

LEMMA QueueInitInv == QueueInit => QueueInv
<1> SUFFICES ASSUME QueueInit PROVE QueueInv
  OBVIOUS
<1>1. \A r \in Reviewers : review[r] = NoReview
  BY DEF QueueInit
<1>2. QueueTypeOK
  BY <1>1, NoReviewTyped, QueueAssumption DEF QueueInit, QueueTypeOK
<1> QED
  BY <1>1, <1>2, NoReviewTyped DEF QueueInv, FreshPromotion

\* A step that leaves the rows alone, and each review too or puts it where it
\* awaits no update.
LEMMA FreshnessKept ==
    ASSUME QueueInv, row' = row,
           \A r \in Reviewers : review'[r] = review[r] \/ review'[r].pc # "update"
    PROVE  \A r \in Reviewers : FreshPromotion(r)'
BY DEF QueueInv, FreshPromotion

LEMMA SuggestInv ==
    ASSUME QueueInv, NEW q \in Queues, NEW i \in Candidates, NEW stored \in BOOLEAN,
           suggest(q, i, stored)
    PROVE  QueueInv'
<1>1. row[i] = "none" /\ review' = review /\ reviews' = reviews
  BY DEF suggest
<1>2. /\ row' \in [Candidates -> Status \cup {"none"}]
      /\ \A j \in Candidates : row[j] = "approved" => row'[j] = "approved"
  BY <1>1 DEF suggest, QueueInv, QueueTypeOK, Status
<1>3. outages' \in 0 .. MaxOutages
  <2>1. PICK happens \in BOOLEAN : happens = (~stored /\ q \notin Looping)
    OBVIOUS
  <2> QED
    BY <2>1, OutageTyped DEF suggest, QueueInv
<1>4. held' \in [Queues -> [Candidates -> Status \cup {"none"}]]
  BY DEF suggest, QueueInv, QueueTypeOK, Status
<1>5. QueueTypeOK'
  BY <1>1, <1>2, <1>3, <1>4 DEF suggest, QueueInv, QueueTypeOK
<1>6. \A r \in Reviewers : review[r].id \in Candidates
  BY DEF QueueInv, QueueTypeOK, Review
<1> QED
  BY <1>1, <1>2, <1>5, <1>6 DEF QueueInv, FreshPromotion

\* Both reads begin a promotion only of what is approved.
LEMMA BeginInv ==
    ASSUME QueueInv, NEW r \in Reviewers, NEW via \in Queues \cup {"route"},
           NEW i \in Candidates, NEW to \in Status,
           row[i] # "none", to = "promoted" => row[i] = "approved",
           Begin(r, via, i, to, row[i]),
           UNCHANGED <<row, reviewLog, held, memoryLog, outages>>
    PROVE  QueueInv'
<1>1. row[i] \in Status
  BY DEF QueueInv, QueueTypeOK
<1>2. /\ review' \in [Reviewers -> Review]
      /\ \A s \in Reviewers : review'[s].pc = "log" => review[s].pc = "log" /\ s # r
      /\ \A s \in Reviewers \ {r} : review'[s] = review[s]
      /\ reviews' \in 0 .. MaxReviews
  BY <1>1, BeginTyped DEF QueueInv
<1>3. QueueTypeOK'
  BY <1>2 DEF QueueInv, QueueTypeOK
<1>4. FreshPromotion(r)'
  <2>1. review'[r].id = i /\ review'[r].to = to
    BY DEF Begin, QueueInv, QueueTypeOK
  <2> QED
    BY <2>1 DEF FreshPromotion
<1>5. \A s \in Reviewers \ {r} : FreshPromotion(s)'
  BY <1>2 DEF QueueInv, FreshPromotion
<1> QED
  BY <1>3, <1>4, <1>5 DEF QueueInv

\* A write ends the freshness of all other updates of its row.
LEMMA WriteInv ==
    ASSUME QueueInv, NEW r \in Reviewers, NEW next \in Review, Writes(r, next),
           next.pc # "update", next.pc = "log" => next.via \in Queues,
           reviewLog' \in Seq(Entry),
           UNCHANGED <<held, memoryLog, reviews, outages>>
    PROVE  QueueInv'
<1>1. /\ row' \in [Candidates -> Status \cup {"none"}]
      /\ review' \in [Reviewers -> Review]
      /\ review'[r] = next
      /\ \A s \in Reviewers \ {r} :
            /\ review'[s].pc = review[s].pc /\ review'[s].via = review[s].via
            /\ review'[s].id = review[s].id /\ review'[s].to = review[s].to
            /\ review'[s].from = review[s].from
            /\ ~review'[s].stale =>
                  /\ ~review[s].stale
                  /\ review[s].pc = "update" => review[s].id # review[r].id
  BY WritesTyped DEF QueueInv
<1>2. QueueTypeOK'
  BY <1>1 DEF QueueInv, QueueTypeOK
<1>3. \A j \in Candidates : j # review[r].id => row'[j] = row[j]
  BY DEF Writes, QueueInv, QueueTypeOK
<1>4. \A s \in Reviewers : review[s].id \in Candidates
  BY DEF QueueInv, QueueTypeOK, Review
<1>5. ASSUME NEW s \in Reviewers \ {r} PROVE FreshPromotion(s)'
  BY <1>1, <1>3, <1>4 DEF QueueInv, FreshPromotion
<1>6. FreshPromotion(r)'
  BY <1>1 DEF FreshPromotion
<1> QED
  BY <1>2, <1>5, <1>6 DEF QueueInv

LEMMA LoggedTyped ==
    ASSUME QueueTypeOK, NEW r \in Reviewers
    PROVE  Logged(review[r]) \in Seq(Entry)
<1>1. review[r] \in Review
  BY DEF QueueTypeOK
<1>2. [id |-> review[r].id, from |-> review[r].from, to |-> review[r].to] \in Entry
  BY <1>1 DEF Review, Entry
<1> QED
  BY <1>2 DEF Logged, QueueTypeOK

LEMMA QueueNextInv == QueueInv /\ [QueueNext]_queueVars => QueueInv'
<1> SUFFICES ASSUME QueueInv, [QueueNext]_queueVars PROVE QueueInv'
  OBVIOUS
<1>t. QueueTypeOK
  BY DEF QueueInv
<1>1. CASE UNCHANGED queueVars
  BY <1>1 DEF QueueInv, QueueTypeOK, FreshPromotion, queueVars
<1>2. ASSUME NEW q \in Queues, NEW i \in Candidates, NEW stored \in BOOLEAN,
             suggest(q, i, stored)
      PROVE  QueueInv'
  BY <1>2, SuggestInv
<1>3. ASSUME NEW r \in Reviewers, NEW i \in Candidates, NEW to \in Status,
             RouteReads(r, i, to)
      PROVE  QueueInv'
  <2>1. to = "promoted" => row[i] = "approved"
    BY <1>3 DEF RouteReads, Allowed
  <2> QED
    BY <1>3, <2>1, BeginInv DEF RouteReads
<1>4. ASSUME NEW r \in Reviewers, NEW i \in Candidates, NEW to \in Status,
             NEW q \in Queues, QueueReads(r, q, i, to)
      PROVE  QueueInv'
  BY <1>4, BeginInv DEF QueueReads, Promotable
<1>5. ASSUME NEW q \in Queues, NEW i \in Candidates, NEW to \in Status,
             ReviewInMemory(q, i, to)
      PROVE  QueueInv'
  <2>1. /\ held' \in [Queues -> [Candidates -> Status \cup {"none"}]]
        /\ memoryLog' \in [Queues -> Seq(Entry)]
    BY <1>5, <1>t, InMemoryTyped DEF ReviewInMemory
  <2>2. outages' \in 0 .. MaxOutages
    <3>1. PICK happens \in BOOLEAN : happens = (q \notin Looping)
      OBVIOUS
    <3> QED
      BY <3>1, <1>5, <1>t, OutageTyped DEF ReviewInMemory
  <2>3. reviews' \in 0 .. MaxReviews
    BY <1>5, <1>t, QueueAssumption DEF ReviewInMemory, QueueTypeOK
  <2>4. QueueTypeOK'
    BY <1>5, <1>t, <2>1, <2>2, <2>3 DEF ReviewInMemory, QueueTypeOK
  <2> QED
    BY <1>5, <2>4, FreshnessKept DEF ReviewInMemory, QueueInv
<1>6. ASSUME NEW r \in Reviewers, RouteWrites(r) PROVE QueueInv'
  <2>1. Logged(review[r]) \in Seq(Entry)
    BY <1>t, LoggedTyped
  <2> QED
    BY <1>6, <2>1, WriteInv, NoReviewTyped DEF RouteWrites
<1>7. ASSUME NEW r \in Reviewers, QueueWrites(r) PROVE QueueInv'
  <2>1. review[r] \in Review
    BY <1>t DEF QueueTypeOK
  <2>2. PICK next \in Review : next = [review[r] EXCEPT !.pc = "log"]
    BY <2>1 DEF Review
  <2>3. next.pc = "log" /\ next.via \in Queues
    BY <2>1, <2>2, <1>7 DEF Review, QueueWrites
  <2>4. /\ Writes(r, next) /\ reviewLog' \in Seq(Entry)
        /\ UNCHANGED <<held, memoryLog, reviews, outages>>
    BY <1>7, <1>t, <2>2 DEF QueueWrites, QueueTypeOK
  <2> QED
    BY <2>3, <2>4, WriteInv
<1>8. ASSUME NEW r \in Reviewers, QueueLogs(r) PROVE QueueInv'
  <2>1. review[r] \in Review /\ review[r].via \in Queues
    BY <1>8, <1>t DEF QueueTypeOK, QueueLogs
  <2>2. review' = [review EXCEPT ![r] = NoReview]
    BY <1>8 DEF QueueLogs
  <2>3. reviewLog' \in Seq(Entry)
    BY <1>8, <1>t, LoggedTyped DEF QueueLogs
  <2>4. held' \in [Queues -> [Candidates -> Status \cup {"none"}]]
    BY <1>8, <1>t, <2>1 DEF QueueLogs, QueueTypeOK, Review
  <2>5. QueueTypeOK'
    BY <1>8, <1>t, <2>2, <2>3, <2>4, NoReviewTyped DEF QueueLogs, QueueTypeOK
  <2>6. \A s \in Reviewers : review'[s] = review[s] \/ review'[s].pc # "update"
    BY <2>2, <1>t, NoReviewTyped DEF QueueTypeOK
  <2> QED
    BY <1>8, <2>5, <2>6, FreshnessKept DEF QueueLogs, QueueInv
<1>9. ASSUME NEW r \in Reviewers, ReviewFails(r) PROVE QueueInv'
  <2>1. review[r] \in Review
    BY <1>t DEF QueueTypeOK
  <2>2. /\ held' \in [Queues -> [Candidates -> Status \cup {"none"}]]
        /\ memoryLog' \in [Queues -> Seq(Entry)]
    <3>1. CASE review[r].via = "route"
      BY <1>9, <1>t, <3>1 DEF ReviewFails, QueueTypeOK
    <3>2. CASE review[r].via # "route"
      <4>1. /\ review[r].via \in Queues /\ review[r].id \in Candidates
            /\ review[r].to \in Status
        BY <2>1, <3>2 DEF Review
      <4>2. InMemory(review[r].via, review[r].id, review[r].to)
        BY <1>9, <3>2 DEF ReviewFails
      <4> QED
        BY <4>1, <4>2, <1>t, InMemoryTyped
    <3> QED
      BY <3>1, <3>2
  <2>3. review' = [review EXCEPT ![r] = NoReview]
    BY <1>9 DEF ReviewFails
  <2>4. outages' \in 0 .. MaxOutages
    BY <1>9, <1>t, OutageTyped DEF ReviewFails
  <2>5. QueueTypeOK'
    BY <1>9, <1>t, <2>2, <2>3, <2>4, NoReviewTyped DEF ReviewFails, QueueTypeOK
  <2>6. \A s \in Reviewers : review'[s] = review[s] \/ review'[s].pc # "update"
    BY <2>3, <1>t, NoReviewTyped DEF QueueTypeOK
  <2> QED
    BY <1>9, <2>5, <2>6, FreshnessKept DEF ReviewFails, QueueInv
<1>10. ASSUME NEW q \in Queues, QueueDies(q) PROVE QueueInv'
  <2>1. \A s \in Reviewers : review'[s] = review[s] \/ review'[s] = NoReview
    BY <1>10 DEF QueueDies
  <2>2. review' \in [Reviewers -> Review]
    BY <1>10, <1>t, NoReviewTyped DEF QueueDies, QueueTypeOK
  <2>3. outages' \in 0 .. MaxOutages
    BY <1>10, <1>t, OutageTyped DEF QueueDies
  <2>4. held' \in [Queues -> [Candidates -> Status \cup {"none"}]]
    BY <1>10, <1>t DEF QueueDies, QueueTypeOK
  <2>5. memoryLog' \in [Queues -> Seq(Entry)]
    BY <1>10, <1>t DEF QueueDies, QueueTypeOK
  <2>6. QueueTypeOK'
    BY <1>10, <1>t, <2>1, <2>2, <2>3, <2>4, <2>5, NoReviewTyped DEF QueueDies, QueueTypeOK
  <2> QED
    BY <1>10, <2>1, <2>6, NoReviewTyped, FreshnessKept DEF QueueDies, QueueInv
<1> QED
  BY <1>1, <1>2, <1>3, <1>4, <1>5, <1>6, <1>7, <1>8, <1>9, <1>10 DEF QueueNext

-----------------------------------------------------------------------------
(* Theorems *)

\* The queue's rows, memories, logs and reviews keep their types.
THEOREM QueueTypeCorrect == QueueSpec => []QueueTypeOK
<1>1. QueueInv => QueueTypeOK
  BY DEF QueueInv
<1> QED
  BY <1>1, QueueInitInv, QueueNextInv, PTL DEF QueueSpec

\* A promotion overwrites an approval, or another review wrote in between.
LEMMA PromotionStep ==
    ASSUME QueueInv, [QueueNext]_queueVars, NEW i \in Candidates,
           row'[i] = "promoted", row[i] # "promoted", row[i] # "approved"
    PROVE  \E r \in Reviewers :
              review[r].pc = "update" /\ review[r].id = i /\ review[r].stale
<1>1. row' # row
  OBVIOUS
<1>2. PICK r \in Reviewers : \E next : review[r].pc = "update" /\ Writes(r, next)
  <2>1. ASSUME NEW q \in Queues, NEW j \in Candidates, NEW stored \in BOOLEAN,
               suggest(q, j, stored)
        PROVE  FALSE
    BY <2>1 DEF suggest, QueueInv, QueueTypeOK
  <2> QED
    BY <1>1, <2>1 DEF QueueNext, queueVars, RouteReads, QueueReads, ReviewInMemory,
                      RouteWrites, QueueWrites, QueueLogs, ReviewFails, QueueDies
<1>3. row' = [row EXCEPT ![review[r].id] = review[r].to]
  BY <1>2 DEF Writes
<1>4. review[r].id = i /\ review[r].to = "promoted"
  BY <1>3 DEF QueueInv, QueueTypeOK
<1> QED
  BY <1>2, <1>4 DEF QueueInv, FreshPromotion

\* "Cannot promote without approval", whatever mix of queues and routes reviews.
THEOREM PromotionsOverwriteApprovals == QueueSpec => PromotionOverwritesApproval
<1>1. QueueInv /\ [QueueNext]_queueVars =>
        [\A i \in Candidates :
           row'[i] = "promoted" /\ row[i] # "promoted" =>
              \/ row[i] = "approved"
              \/ \E r \in Reviewers :
                    review[r].pc = "update" /\ review[r].id = i /\ review[r].stale]_queueVars
  BY PromotionStep
<1> QED
  BY <1>1, QueueInitInv, QueueNextInv, PTL DEF QueueSpec, PromotionOverwritesApproval
=============================================================================
