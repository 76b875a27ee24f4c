---------------------- MODULE CommercialFollowupProofs ----------------------
(***************************************************************************)
(* What the claim of the follow-up job guarantees, for any number of       *)
(* workers, leads, stages, signals and faults.                             *)
(***************************************************************************)
EXTENDS CommercialFollowup, FiniteSetTheorems, TLAPS

-----------------------------------------------------------------------------
(* The contact policy *)

\* A temperature is one of the four the table of limits knows.
LEMMA TemperatureIsKnown ==
    ASSUME NEW m
    PROVE  Temperature(m) \in {"hot", "warm", "cold", "risk"}
BY DEF Temperature

\* Every plan stays within five contacts, the first of which is the next one.
LEMMA PlansAreShort ==
    ASSUME NEW m, NEW sent \in Nat, Plan(m, sent, FALSE) # {}
    PROVE  FirstContact(sent) \in Contacts
<1>1. ContactLimit[Temperature(m)] \in {0, 1, 3, 5}
  <2>1. /\ ContactLimit["hot"] = 5 /\ ContactLimit["warm"] = 3
        /\ ContactLimit["cold"] = 1 /\ ContactLimit["risk"] = 0
    BY DEF ContactLimit
  <2> QED
    BY <2>1, TemperatureIsKnown
<1>2. MaxContacts(m, FALSE) \in {0, 1, 3, 5}
  BY <1>1 DEF MaxContacts
<1>3. PICK max \in {0, 1, 3, 5} : max = MaxContacts(m, FALSE)
  BY <1>2
<1>4. Plan(m, sent, FALSE) = sent + 1 .. max
  <2>1. ~ (m.refuses \/ m.risk)
    BY DEF Plan
  <2> QED
    BY <2>1, <1>3 DEF Plan
<1>5. PICK n : n \in sent + 1 .. max
  BY <1>4
<1>6. max \in {0, 1, 3, 5}
  BY <1>3
<1>7. sent + 1 \in 1 .. 5
  BY <1>5, <1>6
<1> QED
  BY <1>7 DEF FirstContact, Contacts

\* The price-only cap of _max_contacts guards a case that does not exist: a lead
\* that only asked the price is warm, never hot, and has that cap anyway.
THEOREM PriceOnlyIsNeverHot ==
    ASSUME NEW m \in Signals, PriceOnly(m)
    PROVE  Temperature(m) # "hot"
<1>1. Cardinality(m.strong) = 1
  BY FS_Singleton DEF PriceOnly
<1> QED
  BY <1>1 DEF Temperature, PriceOnly

-----------------------------------------------------------------------------
(* Types *)

\* What the run does with a claim it holds: it delivers only what a plan allows.
HandIsSendable ==
    \A w \in Workers :
        step[w] \in {"approved", "delivered", "undelivered"} => Sendable(hand[w])

TypeInv == FollowupTypeOK /\ HandIsSendable

LEMMA TypeInit == Init => TypeInv
<1> SUFFICES ASSUME Init PROVE TypeInv
  OBVIOUS
<1>1. NoContext \in SignalChoices
  BY FollowupAssumption DEF NoContext
<1>2. NoRow \in Row
  BY <1>1 DEF NoRow, Row, RowStatus
<1>3. FollowupTypeOK
  BY <1>2, FollowupAssumption DEF Init, FollowupTypeOK, Contacts
<1> QED
  BY <1>3 DEF Init, TypeInv, HandIsSendable

\* Faults are counted up to the bound, on rows.
LEMMA FaultsTyped ==
    ASSUME TypeInv, NEW rs \in SUBSET Rows, NoFault \/ FaultOn(rs)
    PROVE  faults' \in 0 .. MaxFaults /\ tainted' \subseteq Rows
BY FollowupAssumption DEF TypeInv, FollowupTypeOK, NoFault, FaultOn, faultVars

\* Arming changes neither what a row counts nor its type.
LEMMA ArmedRow ==
    ASSUME NEW q \in Row, NEW m \in SignalChoices
    PROVE  Armed(q, m) \in Row /\ Armed(q, m).contacts = q.contacts
BY DEF Armed, Row, RowStatus

\* The scheduling half of a run.
LEMMA TypeScheduling ==
    ASSUME TypeInv, NEW w \in Workers,
           \/ Start(w) \/ StartBlind(w) \/ Arm(w) \/ Bar(w)
           \/ \E c \in candidates[w] : CheckCandidate(w, c) \/ CheckCandidateBlind(w, c)
    PROVE  TypeInv'
<1> USE DEF TypeInv, FollowupTypeOK, HandIsSendable, Goto, leadVars, sentVars
<1>1. CASE Start(w)
  <2>1. {[lead |-> l, stage |-> stage[l], signals |-> signals[l]] : l \in Leads}
           \in SUBSET Candidate
    BY DEF Candidate
  <2> QED
    BY <1>1, <2>1, FaultsTyped DEF Start, NoFault, faultVars
<1>2. CASE StartBlind(w)
  BY <1>2, FaultsTyped DEF StartBlind
<1>3. ASSUME NEW c \in candidates[w], CheckCandidate(w, c) PROVE TypeInv'
  BY <1>3 DEF CheckCandidate, TakeCandidate, NoFault, faultVars
<1>4. ASSUME NEW c \in candidates[w], CheckCandidateBlind(w, c) PROVE TypeInv'
  <2>1. RowsOf(c.lead) \in SUBSET Rows
    BY DEF RowsOf, Rows, Candidate
  <2> QED
    BY <1>4, <2>1, FaultsTyped DEF CheckCandidateBlind, TakeCandidate
<1>5. CASE Arm(w)
  <2> DEFINE r == <<hand[w].lead, hand[w].stage>>
  <2>1. r \in Rows /\ hand[w].signals \in SignalChoices
    BY <1>5 DEF Arm, Candidate, Rows
  <2>2. Armed(row[r], hand[w].signals) \in Row
    BY <2>1, ArmedRow
  <2>3. row' = row \/ row' = [row EXCEPT ![r] = Armed(row[r], hand[w].signals)]
    BY <1>5, <2>1 DEF Arm
  <2>4. row' \in [Rows -> Row]
    BY <2>1, <2>2, <2>3
  <2> QED
    BY <1>5, <2>4 DEF Arm, NoFault, faultVars
<1>6. CASE Bar(w)
  <2> DEFINE r == <<hand[w].lead, hand[w].stage>>
  <2>1. /\ r \in Rows /\ hand[w].signals \in SignalChoices
        /\ hand[w].lead \in Leads
    BY <1>6 DEF Bar, Candidate, Rows
  <2>2. row' \in [Rows -> Row]
    <3> DEFINE fresh == [row[r] EXCEPT !.status = "blocked", !.next = "null",
                                       !.context = hand[w].signals]
    <3>1. row[r] \in Row
      BY <2>1
    <3>2. fresh \in Row
      BY <2>1, <3>1 DEF Row, RowStatus
    <3>3. row' = [row EXCEPT ![r] = fresh]
      BY <1>6, <2>1 DEF Bar
    <3> QED
      BY <2>1, <3>2, <3>3
  <2>3. refused' \in [Workers -> SUBSET Leads] /\ disturbed' \subseteq Rows
    BY <1>6, <2>1 DEF Bar
  <2> QED
    BY <1>6, <2>2, <2>3 DEF Bar, NoFault, faultVars
<1> QED
  BY <1>1, <1>2, <1>3, <1>4, <1>5, <1>6

\* Claiming, and the checks of what was claimed.
LEMMA TypeClaiming ==
    ASSUME TypeInv, NEW w \in Workers,
           \/ Claim(w) \/ ClaimLost(w)
           \/ \E c \in claims[w] : CheckClaim(w, c) \/ CheckClaimBlind(w, c)
    PROVE  TypeInv'
<1> USE DEF TypeInv, FollowupTypeOK, HandIsSendable, Goto, leadVars, sentVars
<1>1. ASSUME NEW c \in claims[w], CheckClaim(w, c) PROVE TypeInv'
  BY <1>1 DEF CheckClaim, TakeClaim, NoFault, faultVars
<1>2. ASSUME NEW c \in claims[w], CheckClaimBlind(w, c) PROVE TypeInv'
  <2>1. RowsOf(c.row[1]) \in SUBSET Rows
    BY DEF RowsOf, Rows, Claimed
  <2> QED
    BY <1>2, <2>1, FaultsTyped DEF CheckClaimBlind, TakeClaim
<1>3. {Snapshot(r) : r \in DueRows} \in SUBSET Claimed
  BY DEF Snapshot, DueRows, Claimed, Row
<1>4. [r \in Rows |-> IF r \in DueRows THEN [row[r] EXCEPT !.status = "sending"]
                                        ELSE row[r]] \in [Rows -> Row]
  BY DEF Row, RowStatus
<1>5. CASE Claim(w)
  BY <1>3, <1>4, <1>5 DEF Claim, NoFault, faultVars
<1>6. CASE ClaimLost(w)
  BY <1>4, <1>6, FaultsTyped DEF ClaimLost
<1> QED
  BY <1>1, <1>2, <1>5, <1>6

\* What a run is about to send is one of the contacts.
LEMMA NextContact ==
    ASSUME TypeInv, NEW w \in Workers,
           step[w] \in {"approved", "delivered", "undelivered"}
    PROVE  hand[w].contacts \in 0 .. 5 /\ FirstContact(hand[w].contacts) \in Contacts
<1>1. hand[w].contacts \in 0 .. 5
  BY DEF TypeInv, FollowupTypeOK, Claimed
<1>2. Plan(hand[w].context, hand[w].contacts, FALSE) # {}
  BY DEF TypeInv, HandIsSendable, Sendable
<1>3. hand[w].contacts \in Nat
  BY <1>1
<1> QED
  BY <1>1, <1>2, <1>3, PlansAreShort

\* Sending, and the end of a claim.
LEMMA TypeSending ==
    ASSUME TypeInv, NEW w \in Workers,
           \/ Refuse(w) \/ Send(w) \/ SendFails(w) \/ SendAnswerLost(w)
           \/ Mark(w) \/ MarkFails(w) \/ Release(w) \/ Die(w)
    PROVE  TypeInv'
<1> USE DEF TypeInv, FollowupTypeOK, HandIsSendable, Goto, leadVars, sentVars
<1> DEFINE r == hand[w].row
           n == FirstContact(hand[w].contacts)
<1>1. ASSUME step[w] \in {"refused", "approved", "delivered", "undelivered"}
      PROVE  /\ hand[w] \in claims[w] /\ r \in Rows /\ row[r] \in Row
             /\ r[1] \in Leads
  BY <1>1 DEF Claimed, Rows
<1>2. ASSUME step[w] \in {"approved", "delivered"} PROVE n \in Contacts
  BY <1>2, NextContact
<1>3. ASSUME NEW st \in RowStatus, NEW nx \in {"null", "later"},
             NEW q \in 0 .. 5, r \in Rows, row[r] \in Row
      PROVE  /\ [row EXCEPT ![r].status = st, ![r].next = nx] \in [Rows -> Row]
             /\ [row EXCEPT ![r].contacts = q, ![r].status = st, ![r].next = nx]
                   \in [Rows -> Row]
  <2> DEFINE fresh == [row[r] EXCEPT !.status = st, !.next = nx]
             counted == [row[r] EXCEPT !.contacts = q, !.status = st, !.next = nx]
  <2>1. fresh \in Row /\ counted \in Row
    BY <1>3 DEF Row
  <2>2. /\ [row EXCEPT ![r].status = st, ![r].next = nx] = [row EXCEPT ![r] = fresh]
        /\ [row EXCEPT ![r].contacts = q, ![r].status = st, ![r].next = nx]
              = [row EXCEPT ![r] = counted]
    BY <1>3
  <2> QED
    BY <1>3, <2>1, <2>2
<1>4. ASSUME Finish(w), hand[w] \in claims[w]
      PROVE  /\ claims' \in [Workers -> SUBSET Claimed]
             /\ hand' \in [Workers -> Candidate \cup Claimed \cup {Nothing}]
             /\ step' \in [Workers -> {"idle", "scheduling", "arming", "barring",
                     "sending", "refused", "approved", "delivered", "undelivered"}]
             /\ step'[w] \in {"idle", "sending"}
             /\ \A v \in Workers \ {w} : /\ claims'[v] = claims[v]
                                         /\ hand'[v] = hand[v] /\ step'[v] = step[v]
             /\ UNCHANGED <<candidates, refused>>
  BY <1>4 DEF Finish
<1>5. CASE Refuse(w)
  <2>1. row' = [row EXCEPT ![r].status = "blocked", ![r].next = "null"]
    BY <1>5 DEF Refuse
  <2>2. r \in Rows /\ row[r] \in Row
    BY <1>1, <1>5 DEF Refuse
  <2>3. "blocked" \in RowStatus /\ 0 \in 0 .. 5
    BY DEF RowStatus
  <2>4. row' \in [Rows -> Row]
    BY <1>3, <2>1, <2>2, <2>3
  <2> QED
    BY <1>1, <1>4, <1>5, <2>4 DEF Refuse, NoFault, faultVars
<1>6. ASSUME Deliver(w)
      PROVE  copies' \in [Rows -> [Contacts -> Nat]] /\ late' \in [Leads -> Nat]
  BY <1>1, <1>2, <1>6 DEF Deliver
<1>7. CASE Send(w)
  BY <1>6, <1>7 DEF Send, Deliver, NoFault, faultVars
<1>8. CASE SendFails(w)
  BY <1>8 DEF SendFails, NoFault, faultVars
<1>9. CASE SendAnswerLost(w)
  BY <1>1, <1>6, <1>9, FaultsTyped DEF SendAnswerLost, Deliver
<1>10. CASE MarkFails(w)
  BY <1>1, <1>10, FaultsTyped DEF MarkFails
<1>11. CASE Release(w)
  <2>1. row' \in {row, [row EXCEPT ![r].status = "scheduled", ![r].next = "later"]}
    BY <1>11 DEF Release
  <2>2. r \in Rows /\ row[r] \in Row
    BY <1>1, <1>11 DEF Release
  <2>3. "scheduled" \in RowStatus /\ 0 \in 0 .. 5
    BY DEF RowStatus
  <2>4. [row EXCEPT ![r].status = "scheduled", ![r].next = "later"] \in [Rows -> Row]
    BY <1>3, <2>2, <2>3
  <2>5. row' \in [Rows -> Row]
    BY <2>1, <2>4
  <2> QED
    BY <1>1, <1>4, <1>11, <2>5 DEF Release, NoFault, faultVars
<1>12. CASE Mark(w)
  <2>1. step[w] = "delivered"
    BY <1>12 DEF Mark
  <2>2. n \in 0 .. 5
    BY <1>2, <2>1 DEF Contacts
  <2>3. r \in Rows /\ row[r] \in Row
    BY <1>1, <2>1
  <2>4. PICK st \in RowStatus, nx \in {"null", "later"} :
           row' \in {row, [row EXCEPT ![r].contacts = n, ![r].status = st, ![r].next = nx]}
    BY <1>12 DEF Mark, RowStatus
  <2>5. [row EXCEPT ![r].contacts = n, ![r].status = st, ![r].next = nx]
           \in [Rows -> Row]
    BY <1>3, <2>2, <2>3
  <2>6. row' \in [Rows -> Row]
    BY <2>4, <2>5
  <2> QED
    BY <1>1, <1>4, <1>12, <2>6 DEF Mark, NoFault, faultVars
<1>13. CASE Die(w)
  BY <1>1, <1>13, FaultsTyped DEF Die
<1> QED
  BY <1>5, <1>7, <1>8, <1>9, <1>10, <1>11, <1>12, <1>13

LEMMA TypeNext == TypeInv /\ [Next]_vars => TypeInv'
<1> SUFFICES ASSUME TypeInv, [Next]_vars PROVE TypeInv'
  OBVIOUS
<1>1. ASSUME NEW w \in Workers, RunProceeds(w) \/ RunFaults(w) PROVE TypeInv'
  BY <1>1, TypeScheduling, TypeClaiming, TypeSending DEF RunProceeds, RunFaults
<1> USE DEF TypeInv, FollowupTypeOK, HandIsSendable
<1>2. ASSUME NEW l \in Leads, OptOut(l) PROVE TypeInv'
  BY <1>2 DEF OptOut, runVars, sentVars, faultVars
<1>3. ASSUME NEW l \in Leads, NEW m \in SignalChoices, NEW s \in Stages,
             SignalsChange(l, m, s)
      PROVE  TypeInv'
  BY <1>3, FollowupAssumption DEF SignalsChange, runVars, sentVars, faultVars
<1>4. ASSUME NEW r \in Rows, TimePasses(r) PROVE TypeInv'
  BY <1>4 DEF TimePasses, leadVars, runVars, sentVars, faultVars, Row
<1>5. CASE UNCHANGED vars
  BY <1>5 DEF vars, leadVars, runVars, sentVars, faultVars
<1> QED
  BY <1>1, <1>2, <1>3, <1>4, <1>5 DEF Next

\* Rows, claims and runs are always in a state the code knows.
THEOREM FollowupTypeCorrect == Spec => []FollowupTypeOK
<1>1. Spec => []TypeInv
  BY TypeInit, TypeNext, PTL DEF Spec
<1> QED
  BY <1>1, PTL DEF TypeInv

-----------------------------------------------------------------------------
(* Claims *)

Unclaimed == {"idle", "scheduling", "arming", "barring"}

\* A run holds no claim before it has claimed, and never two on one row.
ClaimsAreOfOneRun ==
    \A w \in Workers :
        /\ step[w] \in Unclaimed => claims[w] = {}
        /\ \A c, d \in claims[w] : c.row = d.row => c = d

ClaimInv == TypeInv /\ ClaimsAreOfOneRun /\ ClaimIsExclusive

LEMMA ClaimInit == Init => ClaimInv
BY TypeInit DEF Init, ClaimInv, ClaimsAreOfOneRun, ClaimIsExclusive, Holds

\* What a step leaves alone of a claimed row.
KeepsClaimed(r) ==
    row'[r].status = row[r].status /\ row'[r].contacts = row[r].contacts

\* A step that takes no claim keeps the invariant if it leaves the rows of the
\* remaining claims as they were, unless it disturbs them.
LEMMA ClaimsOnlyShrink ==
    ASSUME ClaimInv, TypeInv', disturbed \subseteq disturbed',
           \A w \in Workers : /\ claims'[w] \subseteq claims[w]
                              /\ step'[w] \in Unclaimed => claims'[w] = {},
           \A w \in Workers : \A c \in claims'[w] :
               c.row \in disturbed' \/ KeepsClaimed(c.row)
    PROVE  ClaimInv'
<1>1. ClaimsAreOfOneRun'
  BY DEF ClaimInv, ClaimsAreOfOneRun
<1>2. ASSUME NEW w \in Workers, NEW c \in claims'[w], c.row \notin disturbed'
      PROVE  /\ row'[c.row].status = "sending" /\ row'[c.row].contacts = c.contacts
             /\ \A v \in Workers \ {w} : ~ Holds(v, c.row)'
  BY <1>2 DEF ClaimInv, ClaimIsExclusive, Holds, KeepsClaimed
<1> QED
  BY <1>1, <1>2 DEF ClaimInv, ClaimIsExclusive

\* Giving a claim back may change the row it was on, and no other.
LEMMA FinishKeepsClaims ==
    ASSUME ClaimInv, TypeInv', NEW w \in Workers, Finish(w), UNCHANGED disturbed,
           hand[w] \in claims[w],
           \A r \in Rows \ {hand[w].row} : row'[r] = row[r]
    PROVE  ClaimInv'
<1>1. \A v \in Workers : /\ claims'[v] \subseteq claims[v]
                         /\ step'[v] \in Unclaimed => claims'[v] = {}
  BY DEF Finish, Goto, ClaimInv, TypeInv, FollowupTypeOK, ClaimsAreOfOneRun, Unclaimed
<1>2. ASSUME NEW v \in Workers, NEW c \in claims'[v], c.row \notin disturbed'
      PROVE  c.row \in Rows \ {hand[w].row}
  <2>1. c \in claims[v] /\ c.row \in Rows
    BY <1>1 DEF ClaimInv, TypeInv, FollowupTypeOK, Claimed
  <2>2. CASE v = w
    <3>1. c # hand[w]
      BY <2>2 DEF Finish, ClaimInv, TypeInv, FollowupTypeOK
    <3> QED
      BY <2>1, <2>2, <3>1 DEF ClaimInv, ClaimsAreOfOneRun
  <2>3. CASE v # w
    BY <1>2, <2>1, <2>3 DEF ClaimInv, ClaimIsExclusive, Holds
  <2> QED
    BY <2>2, <2>3
<1>3. \A v \in Workers : \A c \in claims'[v] :
         c.row \in disturbed' \/ row'[c.row] = row[c.row]
  BY <1>2
<1>4. disturbed \subseteq disturbed'
  OBVIOUS
<1> QED
  BY <1>1, <1>3, <1>4, ClaimsOnlyShrink DEF KeepsClaimed

LEMMA ClaimScheduling ==
    ASSUME ClaimInv, TypeInv', NEW w \in Workers,
           \/ Start(w) \/ StartBlind(w) \/ Arm(w) \/ Bar(w)
           \/ \E c \in candidates[w] : CheckCandidate(w, c) \/ CheckCandidateBlind(w, c)
    PROVE  ClaimInv'
<1> USE DEF ClaimInv, TypeInv, FollowupTypeOK, ClaimsAreOfOneRun, Goto, Unclaimed
<1>1. UNCHANGED claims /\ disturbed \subseteq disturbed'
  BY DEF Start, StartBlind, Arm, Bar, CheckCandidate, CheckCandidateBlind, TakeCandidate
<1>2. \A v \in Workers : step'[v] \in Unclaimed => claims'[v] = {}
  BY <1>1 DEF Start, StartBlind, Arm, Bar, CheckCandidate, CheckCandidateBlind,
              TakeCandidate
<1>3. ASSUME NEW v \in Workers, NEW c \in claims'[v]
      PROVE  c.row \in disturbed' \/ KeepsClaimed(c.row)
  <2> DEFINE r == <<hand[w].lead, hand[w].stage>>
  <2>1. /\ c.row \in Rows /\ row[c.row] \in Row
        /\ c.row \notin disturbed => row[c.row].status = "sending"
    BY <1>1 DEF ClaimIsExclusive, Claimed
  <2>2. CASE Arm(w)
    <3>1. r = c.row /\ c.row \notin disturbed' => row' = row
      BY <1>1, <2>1, <2>2 DEF Arm
    <3>2. r # c.row => row'[c.row] = row[c.row]
      BY <2>1, <2>2 DEF Arm
    <3> HIDE DEF r
    <3> QED
      BY <3>1, <3>2 DEF KeepsClaimed
  <2>3. CASE Bar(w)
    <3>1. r = c.row => c.row \in disturbed'
      BY <2>1, <2>3 DEF Bar
    <3>2. r # c.row => row'[c.row] = row[c.row]
      BY <2>1, <2>3 DEF Bar
    <3> HIDE DEF r
    <3> QED
      BY <3>1, <3>2 DEF KeepsClaimed
  <2>4. ASSUME ~ Arm(w), ~ Bar(w) PROVE UNCHANGED row
    BY <2>4 DEF Start, StartBlind, CheckCandidate, CheckCandidateBlind, TakeCandidate
  <2> QED
    BY <2>2, <2>3, <2>4 DEF KeepsClaimed
<1> QED
  BY <1>1, <1>2, <1>3, ClaimsOnlyShrink

\* Only due rows are claimed, and the row of a claim is not due.
LEMMA ClaimClaiming ==
    ASSUME ClaimInv, TypeInv', NEW w \in Workers,
           \/ Claim(w) \/ ClaimLost(w)
           \/ \E c \in claims[w] : CheckClaim(w, c) \/ CheckClaimBlind(w, c)
    PROVE  ClaimInv'
<1> USE DEF ClaimInv, TypeInv, FollowupTypeOK, ClaimsAreOfOneRun, Goto, Unclaimed
<1>1. ASSUME NEW c \in claims[w], CheckClaim(w, c) \/ CheckClaimBlind(w, c)
      PROVE  ClaimInv'
  <2>1. UNCHANGED <<claims, row, disturbed>>
    BY <1>1 DEF CheckClaim, CheckClaimBlind, TakeClaim
  <2>2. \A v \in Workers : step'[v] \in Unclaimed => claims'[v] = {}
    BY <1>1, <2>1 DEF CheckClaim, CheckClaimBlind, TakeClaim
  <2> QED
    BY <2>1, <2>2, ClaimsOnlyShrink DEF KeepsClaimed
<1>2. \A v \in Workers : \A c \in claims[v] :
         c.row \in Rows /\ (c.row \notin disturbed => c.row \notin DueRows)
  BY DEF ClaimIsExclusive, DueRows, Claimed
<1>3. CASE ClaimLost(w)
  <2>1. UNCHANGED <<claims, disturbed>>
    BY <1>3 DEF ClaimLost
  <2>2. \A v \in Workers : step'[v] \in Unclaimed => claims'[v] = {}
    BY <1>3, <2>1 DEF ClaimLost
  <2>3. \A r \in Rows \ DueRows : row'[r] = row[r]
    BY <1>3 DEF ClaimLost
  <2>4. \A v \in Workers : \A c \in claims'[v] :
           c.row \in disturbed' \/ row'[c.row] = row[c.row]
    BY <1>2, <2>1, <2>3
  <2> QED
    BY <2>1, <2>2, <2>4, ClaimsOnlyShrink DEF KeepsClaimed
<1>4. CASE Claim(w)
  <2>1. /\ UNCHANGED disturbed /\ claims'[w] = {Snapshot(r) : r \in DueRows}
        /\ \A v \in Workers \ {w} : claims'[v] = claims[v] /\ step'[v] = step[v]
        /\ step'[w] \in Unclaimed => claims'[w] = {}
    BY <1>4 DEF Claim
  <2>2. \A r \in Rows \ DueRows : row'[r] = row[r]
    BY <1>4 DEF Claim
  <2>3. \A r \in DueRows : /\ row'[r].status = "sending"
                           /\ row'[r].contacts = row[r].contacts
    BY <1>4 DEF Claim, DueRows, Row
  <2>4. \A c \in claims'[w] : /\ c.row \in DueRows /\ c = Snapshot(c.row)
                              /\ c.contacts = row[c.row].contacts
    BY <2>1 DEF Snapshot
  <2>5. ClaimsAreOfOneRun'
    <3>1. \A c, d \in claims'[w] : c.row = d.row => c = d
      BY <2>4
    <3>2. ASSUME NEW v \in Workers, v # w
          PROVE  /\ step'[v] \in Unclaimed => claims'[v] = {}
                 /\ \A c, d \in claims'[v] : c.row = d.row => c = d
      BY <2>1, <3>2
    <3> QED
      BY <2>1, <3>1, <3>2
  <2>6. \A v \in Workers \ {w} : \A r \in DueRows \ disturbed : ~ Holds(v, r)'
    BY <1>2, <2>1 DEF Holds
  <2>7. ASSUME NEW c \in claims'[w], c.row \notin disturbed'
        PROVE  /\ row'[c.row].status = "sending" /\ row'[c.row].contacts = c.contacts
               /\ \A v \in Workers \ {w} : ~ Holds(v, c.row)'
    BY <2>1, <2>3, <2>4, <2>6, <2>7
  <2>8. ASSUME NEW v \in Workers \ {w}, NEW c \in claims'[v], c.row \notin disturbed'
        PROVE  /\ row'[c.row].status = "sending" /\ row'[c.row].contacts = c.contacts
               /\ \A u \in Workers \ {v} : ~ Holds(u, c.row)'
    <3>1. /\ c \in claims[v] /\ c.row \in Rows \ DueRows
          /\ c.row \notin disturbed
      BY <1>2, <2>1, <2>8
    <3>2. /\ row'[c.row].status = "sending" /\ row'[c.row].contacts = c.contacts
      BY <2>2, <3>1 DEF ClaimIsExclusive
    <3>3. ~ Holds(w, c.row)'
      BY <2>4, <3>1 DEF Holds
    <3>4. \A u \in Workers \ {v, w} : ~ Holds(u, c.row)'
      BY <2>1, <3>1 DEF ClaimIsExclusive, Holds
    <3> QED
      BY <3>2, <3>3, <3>4
  <2> QED
    BY <2>5, <2>7, <2>8 DEF ClaimIsExclusive
<1> QED
  BY <1>1, <1>3, <1>4

LEMMA ClaimSending ==
    ASSUME ClaimInv, TypeInv', NEW w \in Workers,
           \/ Refuse(w) \/ Send(w) \/ SendFails(w) \/ SendAnswerLost(w)
           \/ Mark(w) \/ MarkFails(w) \/ Release(w) \/ Die(w)
    PROVE  ClaimInv'
<1> USE DEF ClaimInv, TypeInv, FollowupTypeOK
<1>1. CASE Refuse(w) \/ Mark(w) \/ Release(w)
  <2>1. Finish(w) /\ UNCHANGED disturbed /\ hand[w] \in claims[w]
    BY <1>1 DEF Refuse, Mark, Release
  <2>2. \A r \in Rows \ {hand[w].row} : row'[r] = row[r]
    BY <1>1 DEF Refuse, Mark, Release
  <2> QED
    BY <2>1, <2>2, FinishKeepsClaims
<1>2. CASE Send(w) \/ SendFails(w) \/ SendAnswerLost(w) \/ MarkFails(w)
  <2>1. UNCHANGED <<claims, row, disturbed>>
    BY <1>2 DEF Send, SendFails, SendAnswerLost, MarkFails, Deliver
  <2>2. \A v \in Workers : step'[v] \in Unclaimed => claims'[v] = {}
    BY <1>2, <2>1 DEF Send, SendFails, SendAnswerLost, MarkFails, Deliver, Goto,
                      Unclaimed, ClaimsAreOfOneRun
  <2> QED
    BY <2>1, <2>2, ClaimsOnlyShrink DEF KeepsClaimed
<1>3. CASE Die(w)
  <2>1. UNCHANGED <<row, disturbed>> /\ \A v \in Workers : claims'[v] \subseteq claims[v]
    BY <1>3 DEF Die
  <2>2. \A v \in Workers : step'[v] \in Unclaimed => claims'[v] = {}
    BY <1>3 DEF Die, Goto, Unclaimed, ClaimsAreOfOneRun
  <2> QED
    BY <2>1, <2>2, ClaimsOnlyShrink DEF KeepsClaimed
<1> QED
  BY <1>1, <1>2, <1>3

LEMMA ClaimNext == ClaimInv /\ [Next]_vars => ClaimInv'
<1> SUFFICES ASSUME ClaimInv, [Next]_vars PROVE ClaimInv'
  OBVIOUS
<1>1. TypeInv'
  BY TypeNext DEF ClaimInv
<1>2. ASSUME NEW w \in Workers, RunProceeds(w) \/ RunFaults(w) PROVE ClaimInv'
  BY <1>1, <1>2, ClaimScheduling, ClaimClaiming, ClaimSending DEF RunProceeds, RunFaults
<1>3. ASSUME NEW r \in Rows, TimePasses(r) PROVE ClaimInv'
  <2>1. UNCHANGED <<step, claims, disturbed>>
    BY <1>3 DEF TimePasses, runVars
  <2>2. \A q \in Rows : /\ row'[q].status = row[q].status
                        /\ row'[q].contacts = row[q].contacts
    BY <1>3 DEF TimePasses, ClaimInv, TypeInv, FollowupTypeOK, Row
  <2>3. \A v \in Workers : \A c \in claims'[v] : c.row \in Rows
    BY <2>1 DEF ClaimInv, TypeInv, FollowupTypeOK, Claimed
  <2> QED
    BY <1>1, <2>1, <2>2, <2>3, ClaimsOnlyShrink DEF KeepsClaimed, ClaimInv, ClaimsAreOfOneRun
<1>4. ASSUME UNCHANGED <<step, claims, row, disturbed>> PROVE ClaimInv'
  BY <1>1, <1>4, ClaimsOnlyShrink DEF KeepsClaimed, ClaimInv, ClaimsAreOfOneRun
<1>5. ASSUME \/ \E l \in Leads : OptOut(l)
             \/ \E l \in Leads, m \in SignalChoices, s \in Stages : SignalsChange(l, m, s)
             \/ UNCHANGED vars
      PROVE  UNCHANGED <<step, claims, row, disturbed>>
  BY <1>5 DEF OptOut, SignalsChange, vars, runVars
<1> QED
  BY <1>2, <1>3, <1>4, <1>5 DEF Next

\* "Atomically claim due rows", for any number of workers and any faults: a
\* claimed row that no scheduling pass has barred belongs to one run, and the row
\* still says what the run read.
THEOREM ClaimsAreExclusive == Spec => []ClaimIsExclusive
<1>1. Spec => []ClaimInv
  BY ClaimInit, ClaimNext, PTL DEF Spec
<1> QED
  BY <1>1, PTL DEF ClaimInv

-----------------------------------------------------------------------------
(* Contacts: each is sent once where nothing went wrong *)

\* Only a mark changes the count of a row.
LEMMA ContactsKept ==
    ASSUME TypeInv, NEW w \in Workers,
           \/ Start(w) \/ StartBlind(w) \/ Arm(w) \/ Bar(w)
           \/ \E c \in candidates[w] : CheckCandidate(w, c) \/ CheckCandidateBlind(w, c)
           \/ Claim(w) \/ ClaimLost(w)
           \/ \E c \in claims[w] : CheckClaim(w, c) \/ CheckClaimBlind(w, c)
           \/ Refuse(w) \/ SendFails(w) \/ MarkFails(w) \/ Release(w) \/ Die(w)
    PROVE  \A r \in Rows : row'[r].contacts = row[r].contacts
<1> SUFFICES ASSUME NEW r \in Rows PROVE row'[r].contacts = row[r].contacts
  OBVIOUS
<1> USE DEF TypeInv, FollowupTypeOK
<1> DEFINE h == <<hand[w].lead, hand[w].stage>>
<1>1. CASE Arm(w)
  <2>1. h \in Rows /\ hand[w].signals \in SignalChoices
    BY <1>1 DEF Arm, Candidate, Rows
  <2>2. row[h] \in Row
    BY <2>1
  <2>3. r # h => row'[r] = row[r]
    BY <1>1, <2>1 DEF Arm
  <2>4. row'[h] = row[h] \/ row'[h] = Armed(row[h], hand[w].signals)
    BY <1>1, <2>1 DEF Arm
  <2>5. Armed(row[h], hand[w].signals).contacts = row[h].contacts
    BY <2>1, <2>2, ArmedRow
  <2> HIDE DEF h
  <2> QED
    BY <2>3, <2>4, <2>5
<1>2. CASE Bar(w)
  <2>1. h \in Rows
    BY <1>2 DEF Bar, Candidate, Rows
  <2>2. row[h] \in Row
    BY <2>1
  <2>3. r # h => row'[r] = row[r]
    BY <1>2, <2>1 DEF Bar
  <2>4. row'[h].contacts = row[h].contacts
    BY <1>2, <2>1, <2>2 DEF Bar, Row
  <2> HIDE DEF h
  <2> QED
    BY <2>3, <2>4
<1>3. CASE Claim(w) \/ ClaimLost(w)
  BY <1>3 DEF Claim, ClaimLost, Row
<1>4. CASE Refuse(w) \/ Release(w)
  BY <1>4 DEF Refuse, Release, Row
<1>5. ASSUME ~ (Arm(w) \/ Bar(w) \/ Claim(w) \/ ClaimLost(w) \/ Refuse(w) \/ Release(w))
      PROVE  row' = row
  BY <1>5 DEF Start, StartBlind, CheckCandidate, CheckCandidateBlind, TakeCandidate,
              CheckClaim, CheckClaimBlind, TakeClaim, SendFails, MarkFails, Die
<1> QED
  BY <1>1, <1>2, <1>3, <1>4, <1>5

OnceInv == ClaimInv /\ ContactSentOnce

LEMMA OnceInit == Init => OnceInv
<1> SUFFICES ASSUME Init PROVE OnceInv
  OBVIOUS
<1>1. ASSUME NEW r \in Rows, NEW n \in Contacts
      PROVE  /\ copies[r][n] = 0 /\ ~ (n <= row[r].contacts)
             /\ ~ AboutToMark(r, n)
  BY DEF Init, NoRow, Contacts, AboutToMark
<1> QED
  BY <1>1, ClaimInit DEF OnceInv, ContactSentOnce

\* A step keeps the count of a row if it sends nothing on it, leaves its contacts
\* alone, and neither starts nor ends a delivery of it, unless it spoils the row.
LEMMA OnceQuiet ==
    ASSUME OnceInv, disturbed \subseteq disturbed', tainted \subseteq tainted',
           \A r \in Rows \ (disturbed' \cup tainted') :
               /\ copies'[r] = copies[r] /\ row'[r].contacts = row[r].contacts
               /\ \A n \in Contacts : AboutToMark(r, n)' <=> AboutToMark(r, n)
    PROVE  ContactSentOnce'
BY DEF OnceInv, ContactSentOnce

\* The same, said of the one worker that takes the step.
LEMMA OnceQuietStep ==
    ASSUME OnceInv, NEW w \in Workers,
           disturbed \subseteq disturbed', tainted \subseteq tainted',
           copies' = copies, \A r \in Rows : row'[r].contacts = row[r].contacts,
           step[w] # "delivered", step'[w] # "delivered",
           \A v \in Workers \ {w} : step'[v] = step[v] /\ hand'[v] = hand[v]
    PROVE  ContactSentOnce'
<1>1. \A r \in Rows, n \in Contacts : AboutToMark(r, n)' <=> AboutToMark(r, n)
  BY DEF AboutToMark
<1> QED
  BY <1>1, OnceQuiet

LEMMA FaultsGrow ==
    ASSUME NEW rs, NoFault \/ FaultOn(rs)
    PROVE  tainted \subseteq tainted'
BY DEF NoFault, FaultOn, faultVars

LEMMA OnceScheduling ==
    ASSUME OnceInv, NEW w \in Workers,
           \/ Start(w) \/ StartBlind(w) \/ Arm(w) \/ Bar(w)
           \/ \E c \in candidates[w] : CheckCandidate(w, c) \/ CheckCandidateBlind(w, c)
    PROVE  ContactSentOnce'
<1> USE DEF OnceInv, ClaimInv, TypeInv, FollowupTypeOK, Goto
<1>1. disturbed \subseteq disturbed' /\ copies' = copies
  BY DEF Start, StartBlind, Arm, Bar, CheckCandidate, CheckCandidateBlind, TakeCandidate,
         sentVars
<1>2. tainted \subseteq tainted'
  BY FaultsGrow DEF Start, StartBlind, Arm, Bar, CheckCandidate, CheckCandidateBlind
<1>3. /\ step[w] # "delivered" /\ step'[w] # "delivered"
      /\ \A v \in Workers \ {w} : step'[v] = step[v] /\ hand'[v] = hand[v]
  BY DEF Start, StartBlind, Arm, Bar, CheckCandidate, CheckCandidateBlind, TakeCandidate
<1>4. \A r \in Rows : row'[r].contacts = row[r].contacts
  BY ContactsKept
<1> QED
  BY <1>1, <1>2, <1>3, <1>4, OnceQuietStep

LEMMA OnceClaiming ==
    ASSUME OnceInv, NEW w \in Workers,
           \/ Claim(w) \/ ClaimLost(w)
           \/ \E c \in claims[w] : CheckClaim(w, c) \/ CheckClaimBlind(w, c)
    PROVE  ContactSentOnce'
<1> USE DEF OnceInv, ClaimInv, TypeInv, FollowupTypeOK, Goto
<1>1. disturbed' = disturbed /\ copies' = copies
  BY DEF Claim, ClaimLost, CheckClaim, CheckClaimBlind, TakeClaim, sentVars
<1>2. tainted \subseteq tainted'
  BY FaultsGrow DEF Claim, ClaimLost, CheckClaim, CheckClaimBlind
<1>3. /\ step[w] # "delivered" /\ step'[w] # "delivered"
      /\ \A v \in Workers \ {w} : step'[v] = step[v] /\ hand'[v] = hand[v]
  BY DEF Claim, ClaimLost, CheckClaim, CheckClaimBlind, TakeClaim
<1>4. \A r \in Rows : row'[r].contacts = row[r].contacts
  BY ContactsKept
<1> QED
  BY <1>1, <1>2, <1>3, <1>4, OnceQuietStep

\* While a run holds a row that is not disturbed, it alone delivers on it.
LEMMA OnlyTheHolderDelivers ==
    ASSUME OnceInv, NEW w \in Workers, hand[w] \in claims[w],
           hand[w].row \notin disturbed
    PROVE  \A v \in Workers \ {w} : ~ (step[v] = "delivered" /\ hand[v].row = hand[w].row)
BY DEF OnceInv, ClaimInv, TypeInv, FollowupTypeOK, ClaimIsExclusive, Holds

LEMMA OnceSend ==
    ASSUME OnceInv, NEW w \in Workers, Send(w)
    PROVE  ContactSentOnce'
<1> DEFINE h == hand[w].row
           k == FirstContact(hand[w].contacts)
<1> USE DEF OnceInv, ClaimInv, TypeInv, FollowupTypeOK
<1>1. /\ step[w] = "approved" /\ hand[w] \in claims[w] /\ h \in Rows
      /\ hand[w].contacts \in 0 .. 5
  BY DEF Send, Deliver, Claimed
<1>2. /\ UNCHANGED <<row, hand, disturbed, tainted>> /\ step' = [step EXCEPT ![w] = "delivered"]
      /\ copies' = [copies EXCEPT ![h][k] = @ + 1]
  BY DEF Send, Deliver, NoFault, faultVars, Goto
<1>3. ASSUME NEW r \in Rows \ (disturbed \cup tainted), NEW n \in Contacts
      PROVE  copies'[r][n] = IF n <= row'[r].contacts \/ AboutToMark(r, n)' THEN 1 ELSE 0
  <2>1. CASE r # h \/ n # k
    <3>1. copies'[r][n] = copies[r][n]
      BY <1>1, <1>2, <2>1
    <3>2. AboutToMark(r, n)' <=> AboutToMark(r, n)
      BY <1>1, <1>2, <2>1 DEF AboutToMark
    <3> QED
      BY <1>2, <3>1, <3>2 DEF ContactSentOnce
  <2>2. CASE r = h /\ n = k
    <3>1. row[r].contacts = hand[w].contacts
      BY <1>1, <2>2 DEF ClaimIsExclusive
    <3>2. ~ (n <= row[r].contacts)
      BY <1>1, <2>2, <3>1 DEF FirstContact
    <3>3. ~ AboutToMark(r, n)
      BY <1>1, <2>2, OnlyTheHolderDelivers DEF AboutToMark
    <3>4. copies[r][n] = 0
      BY <3>2, <3>3 DEF ContactSentOnce
    <3>5. copies'[r][n] = 1
      BY <1>1, <1>2, <2>2, <3>4
    <3>6. AboutToMark(r, n)'
      BY <1>2, <2>2 DEF AboutToMark
    <3> QED
      BY <3>5, <3>6
  <2> QED
    BY <2>1, <2>2
<1> QED
  BY <1>2, <1>3 DEF ContactSentOnce

LEMMA OnceMark ==
    ASSUME OnceInv, NEW w \in Workers, Mark(w)
    PROVE  ContactSentOnce'
<1> DEFINE h == hand[w].row
           k == FirstContact(hand[w].contacts)
<1> USE DEF OnceInv, ClaimInv, TypeInv, FollowupTypeOK
<1>1. /\ step[w] = "delivered" /\ hand[w] \in claims[w] /\ h \in Rows
      /\ hand[w].contacts \in 0 .. 5
  <2>1. step[w] = "delivered"
    BY DEF Mark
  <2> QED
    BY <2>1 DEF Claimed
<1>2. UNCHANGED <<copies, disturbed, tainted>> /\ Finish(w)
  BY DEF Mark, NoFault, faultVars, sentVars
<1>3. /\ step'[w] # "delivered"
      /\ \A v \in Workers \ {w} : step'[v] = step[v] /\ hand'[v] = hand[v]
  BY <1>2 DEF Finish, Goto
<1>4. ASSUME NEW r \in Rows \ (disturbed \cup tainted), r # h, NEW n \in Contacts
      PROVE  row'[r] = row[r] /\ (AboutToMark(r, n)' <=> AboutToMark(r, n))
  <2>1. row'[r] = row[r]
    BY <1>4 DEF Mark
  <2>2. AboutToMark(r, n)' <=> AboutToMark(r, n)
    BY <1>1, <1>3, <1>4 DEF AboutToMark
  <2> QED
    BY <2>1, <2>2
<1>5. ASSUME NEW r \in Rows \ disturbed, r = h, NEW n \in Contacts
      PROVE  n <= row'[r].contacts \/ AboutToMark(r, n)'
                <=> n <= row[r].contacts \/ AboutToMark(r, n)
  <2>1. row[h].status = "sending" /\ row[h].contacts = hand[w].contacts
    BY <1>1, <1>5 DEF ClaimIsExclusive
  <2>2. row'[h].contacts = k
    <3>1. PICK st, nx : row' = [row EXCEPT ![h].contacts = k, ![h].status = st,
                                           ![h].next = nx]
      BY <2>1 DEF Mark
    <3>2. row[h] \in Row
      BY <1>1
    <3> QED
      BY <1>1, <3>1, <3>2 DEF Row
  <2>3. \A v \in Workers \ {w} : ~ (step[v] = "delivered" /\ hand[v].row = h)
    BY <1>1, <1>5, OnlyTheHolderDelivers
  <2>4. ~ AboutToMark(r, n)'
    BY <1>3, <1>5, <2>3 DEF AboutToMark
  <2>5. AboutToMark(r, n) <=> n = k
    BY <1>1, <1>5, <2>3 DEF AboutToMark
  <2>6. n <= k <=> n <= hand[w].contacts \/ n = k
    BY <1>1 DEF FirstContact, Contacts
  <2> QED
    BY <1>5, <2>1, <2>2, <2>4, <2>5, <2>6
<1>6. ASSUME NEW r \in Rows \ (disturbed \cup tainted), NEW n \in Contacts
      PROVE  copies'[r][n] = IF n <= row'[r].contacts \/ AboutToMark(r, n)' THEN 1 ELSE 0
  <2>1. copies'[r][n] = copies[r][n]
    BY <1>2
  <2>2. n <= row'[r].contacts \/ AboutToMark(r, n)'
           <=> n <= row[r].contacts \/ AboutToMark(r, n)
    BY <1>4, <1>5
  <2> QED
    BY <2>1, <2>2 DEF ContactSentOnce
<1> QED
  BY <1>2, <1>6 DEF ContactSentOnce

LEMMA OnceSending ==
    ASSUME OnceInv, NEW w \in Workers,
           \/ Refuse(w) \/ Send(w) \/ SendFails(w) \/ SendAnswerLost(w)
           \/ Mark(w) \/ MarkFails(w) \/ Release(w) \/ Die(w)
    PROVE  ContactSentOnce'
<1> USE DEF OnceInv, ClaimInv, TypeInv, FollowupTypeOK
<1>1. CASE SendFails(w)
  BY <1>1, OnceQuietStep DEF SendFails, Goto, NoFault, faultVars, sentVars
<1>2. CASE Refuse(w) \/ Release(w)
  <2>1. UNCHANGED <<copies, disturbed, tainted>> /\ Finish(w) /\ step[w] # "delivered"
    BY <1>2 DEF Refuse, Release, NoFault, faultVars, sentVars
  <2>2. /\ step'[w] # "delivered"
        /\ \A v \in Workers \ {w} : step'[v] = step[v] /\ hand'[v] = hand[v]
    BY <2>1 DEF Finish, Goto
  <2>3. \A r \in Rows : row'[r].contacts = row[r].contacts
    BY <1>2, ContactsKept
  <2> QED
    BY <2>1, <2>2, <2>3, OnceQuietStep
<1>3. CASE SendAnswerLost(w)
  <2>1. /\ UNCHANGED <<row, hand, disturbed>> /\ step' = [step EXCEPT ![w] = "undelivered"]
        /\ tainted' = tainted \cup {hand[w].row} /\ step[w] = "approved"
        /\ \A r \in Rows \ {hand[w].row} : copies'[r] = copies[r]
    BY <1>3 DEF SendAnswerLost, Deliver, FaultOn, Goto
  <2>2. \A r \in Rows, n \in Contacts : AboutToMark(r, n)' <=> AboutToMark(r, n)
    BY <2>1 DEF AboutToMark
  <2> QED
    BY <2>1, <2>2, OnceQuiet
<1>4. CASE MarkFails(w) \/ Die(w)
  <2>1. /\ UNCHANGED <<row, copies, disturbed>> /\ tainted \subseteq tainted'
        /\ step[w] = "delivered" => hand[w].row \in tainted'
        /\ step'[w] # "delivered"
        /\ \A v \in Workers \ {w} : step'[v] = step[v] /\ hand'[v] = hand[v]
    BY <1>4 DEF MarkFails, Die, FaultOn, Goto, sentVars
  <2>2. \A r \in Rows \ tainted', n \in Contacts :
           AboutToMark(r, n)' <=> AboutToMark(r, n)
    BY <2>1 DEF AboutToMark
  <2> QED
    BY <2>1, <2>2, OnceQuiet
<1> QED
  BY <1>1, <1>2, <1>3, <1>4, OnceSend, OnceMark

LEMMA OnceNext == OnceInv /\ [Next]_vars => OnceInv'
<1> SUFFICES ASSUME OnceInv, [Next]_vars PROVE OnceInv'
  OBVIOUS
<1>1. ClaimInv'
  BY ClaimNext DEF OnceInv
<1>2. ASSUME NEW w \in Workers, RunProceeds(w) \/ RunFaults(w) PROVE ContactSentOnce'
  BY <1>2, OnceScheduling, OnceClaiming, OnceSending DEF RunProceeds, RunFaults
<1>3. ASSUME NEW r \in Rows, TimePasses(r) PROVE ContactSentOnce'
  <2>1. UNCHANGED <<step, hand, copies, disturbed, tainted>>
    BY <1>3 DEF TimePasses, runVars, sentVars, faultVars
  <2>2. \A q \in Rows : row'[q].contacts = row[q].contacts
    BY <1>3 DEF TimePasses, OnceInv, ClaimInv, TypeInv, FollowupTypeOK, Row
  <2> QED
    BY <2>1, <2>2, OnceQuiet DEF AboutToMark
<1>4. ASSUME \/ \E l \in Leads : OptOut(l)
             \/ \E l \in Leads, m \in SignalChoices, s \in Stages : SignalsChange(l, m, s)
             \/ UNCHANGED vars
      PROVE  ContactSentOnce'
  <2>1. UNCHANGED <<step, hand, row, copies, disturbed, tainted>>
    BY <1>4 DEF OptOut, SignalsChange, vars, runVars, sentVars, faultVars
  <2> QED
    BY <2>1, OnceQuiet DEF AboutToMark
<1> QED
  BY <1>1, <1>2, <1>3, <1>4 DEF Next, OnceInv

\* "Process restarts do not duplicate sends": whatever the workers do, on a row
\* that was neither barred while claimed nor hit by a fault, the contacts that
\* reached the lead are those the row counts, once each.
THEOREM ContactsAreSentOnce == Spec => []ContactSentOnce
<1>1. Spec => []OnceInv
  BY OnceInit, OnceNext, PTL DEF Spec
<1> QED
  BY <1>1, PTL DEF OnceInv

-----------------------------------------------------------------------------
(* Contacts: none is skipped, whatever goes wrong *)

Sent(r, n) == copies[r][n] > 0

\* What a row or a claim counts has gone out, and so has what is being marked.
SkipInv ==
    /\ TypeInv
    /\ NoContactSkipped
    /\ \A w \in Workers :
          /\ \A c \in claims[w], n \in Contacts : n <= c.contacts => Sent(c.row, n)
          /\ step[w] = "delivered"
                => Sent(hand[w].row, FirstContact(hand[w].contacts))

LEMMA SkipInit == Init => SkipInv
<1> SUFFICES ASSUME Init PROVE SkipInv
  OBVIOUS
<1>1. \A r \in Rows, n \in Contacts : copies[r][n] = 0 /\ ~ (n <= row[r].contacts)
  BY DEF Init, NoRow, Contacts
<1> QED
  BY <1>1, TypeInit DEF Init, SkipInv, NoContactSkipped

\* A step that delivers and counts nothing, and takes no claim.
LEMMA SkipQuiet ==
    ASSUME SkipInv, TypeInv', copies' = copies,
           \A r \in Rows : row'[r].contacts = row[r].contacts,
           \A w \in Workers :
               /\ claims'[w] \subseteq claims[w]
               /\ step'[w] = "delivered" => step[w] = "delivered" /\ hand'[w] = hand[w]
    PROVE  SkipInv'
BY DEF SkipInv, NoContactSkipped, Sent

LEMMA SkipRun ==
    ASSUME SkipInv, TypeInv', NEW w \in Workers, RunProceeds(w) \/ RunFaults(w)
    PROVE  SkipInv'
<1> USE DEF TypeInv, FollowupTypeOK, Goto
<1>1. TypeInv
  BY DEF SkipInv
<1>2. CASE \/ Start(w) \/ StartBlind(w) \/ Arm(w) \/ Bar(w)
           \/ \E c \in candidates[w] : CheckCandidate(w, c) \/ CheckCandidateBlind(w, c)
           \/ ClaimLost(w)
           \/ \E c \in claims[w] : CheckClaim(w, c) \/ CheckClaimBlind(w, c)
  <2>1. UNCHANGED <<copies, claims>>
    BY <1>2 DEF Start, StartBlind, Arm, Bar, CheckCandidate, CheckCandidateBlind,
       TakeCandidate, ClaimLost, CheckClaim, CheckClaimBlind, TakeClaim, sentVars
  <2>2. \A v \in Workers :
           step'[v] = "delivered" => step[v] = "delivered" /\ hand'[v] = hand[v]
    BY <1>1, <1>2 DEF Start, StartBlind, Arm, Bar, CheckCandidate, CheckCandidateBlind,
       TakeCandidate, ClaimLost, CheckClaim, CheckClaimBlind, TakeClaim
  <2>3. \A r \in Rows : row'[r].contacts = row[r].contacts
    BY <1>1, <1>2, ContactsKept
  <2> QED
    BY <2>1, <2>2, <2>3, SkipQuiet
<1>3. CASE Refuse(w) \/ SendFails(w) \/ MarkFails(w) \/ Release(w) \/ Die(w)
  <2>1. copies' = copies
    BY <1>3 DEF Refuse, SendFails, MarkFails, Release, Die, sentVars
  <2>2. \A v \in Workers :
           /\ claims'[v] \subseteq claims[v]
           /\ step'[v] = "delivered" => step[v] = "delivered" /\ hand'[v] = hand[v]
    BY <1>1, <1>3 DEF Refuse, SendFails, MarkFails, Release, Die, Finish
  <2>3. \A r \in Rows : row'[r].contacts = row[r].contacts
    BY <1>1, <1>3, ContactsKept
  <2> QED
    BY <2>1, <2>2, <2>3, SkipQuiet
<1>4. CASE Claim(w)
  <2>1. /\ copies' = copies /\ claims'[w] = {Snapshot(r) : r \in DueRows}
        /\ \A v \in Workers \ {w} : claims'[v] = claims[v] /\ step'[v] = step[v]
        /\ step'[w] # "delivered" /\ hand' = hand
    BY <1>1, <1>4 DEF Claim, sentVars
  <2>2. \A r \in Rows : row'[r].contacts = row[r].contacts
    BY <1>1, <1>4, ContactsKept
  <2>3. \A c \in claims'[w], n \in Contacts : n <= c.contacts => Sent(c.row, n)
    BY <2>1 DEF Snapshot, DueRows, SkipInv, NoContactSkipped, Sent
  <2>4. NoContactSkipped'
    BY <2>1, <2>2 DEF SkipInv, NoContactSkipped
  <2> QED
    BY <2>1, <2>3, <2>4 DEF SkipInv, Sent
<1>5. CASE Send(w) \/ SendAnswerLost(w)
  <2>1. PICK h, k : h = hand[w].row /\ k = FirstContact(hand[w].contacts)
    OBVIOUS
  <2>2. step[w] = "approved" /\ hand[w] \in claims[w]
    BY <1>1, <1>5 DEF Send, SendAnswerLost, Deliver
  <2>3. h \in Rows /\ hand[w].contacts \in 0 .. 5
    BY <1>1, <2>1, <2>2 DEF Claimed
  <2>4. /\ UNCHANGED <<row, claims, hand>> /\ copies' = [copies EXCEPT ![h][k] = @ + 1]
        /\ \A v \in Workers \ {w} : step'[v] = step[v]
    BY <1>1, <1>5, <2>1 DEF Send, SendAnswerLost, Deliver
  <2>5. k \in Contacts
    BY <1>1, <2>1, <2>2, NextContact
  <2>6. \A r \in Rows, n \in Contacts :
           Sent(r, n)' <=> Sent(r, n) \/ (r = h /\ n = k)
    BY <1>1, <2>3, <2>4, <2>5 DEF Sent
  <2>7. \A n \in Contacts : n < k => Sent(h, n)
    BY <2>1, <2>2, <2>3 DEF SkipInv, FirstContact, Contacts
  <2>8. NoContactSkipped'
    BY <2>4, <2>6, <2>7 DEF SkipInv, NoContactSkipped, Sent, Contacts
  <2>9. ASSUME NEW v \in Workers, NEW c \in claims'[v], NEW n \in Contacts, n <= c.contacts
        PROVE  Sent(c.row, n)'
    <3>1. c \in claims[v] /\ c.row \in Rows
      BY <1>1, <2>4, <2>9 DEF Claimed
    <3> QED
      BY <2>6, <2>9, <3>1 DEF SkipInv
  <2>10. ASSUME NEW v \in Workers, step'[v] = "delivered"
         PROVE  Sent(hand[v].row, FirstContact(hand[v].contacts))'
    <3>1. CASE v = w
      BY <2>1, <2>3, <2>4, <2>5, <2>6, <3>1
    <3>2. CASE v # w
      <4>1. step[v] = "delivered" /\ hand[v] \in claims[v] /\ hand[v].row \in Rows
        BY <1>1, <2>4, <2>10, <3>2 DEF Claimed
      <4>2. PICK g, j : g = hand[v].row /\ j = FirstContact(hand[v].contacts)
        OBVIOUS
      <4>3. j \in Contacts
        BY <1>1, <4>1, <4>2, NextContact
      <4>4. Sent(g, j)
        BY <4>1, <4>2 DEF SkipInv
      <4>5. Sent(g, j)'
        BY <2>6, <4>1, <4>2, <4>3, <4>4
      <4> QED
        BY <2>4, <4>2, <4>5
    <3> QED
      BY <3>1, <3>2
  <2> QED
    BY <2>8, <2>9, <2>10 DEF SkipInv
<1>6. CASE Mark(w)
  <2>1. PICK h, k : h = hand[w].row /\ k = FirstContact(hand[w].contacts)
    OBVIOUS
  <2>2. step[w] = "delivered"
    BY <1>6 DEF Mark
  <2>3. hand[w] \in claims[w] /\ h \in Rows /\ hand[w].contacts \in 0 .. 5
    BY <1>1, <2>1, <2>2 DEF Claimed
  <2>4. Finish(w) /\ copies' = copies
    BY <1>6 DEF Mark, sentVars
  <2>5. PICK st, nx : row' \in {row, [row EXCEPT ![h].contacts = k, ![h].status = st,
                                                ![h].next = nx]}
    BY <1>6, <2>1 DEF Mark
  <2>6. \A r \in Rows :
           row'[r].contacts = row[r].contacts \/ (r = h /\ row'[r].contacts = k)
    BY <1>1, <2>3, <2>5 DEF Row
  <2>7. \A n \in Contacts : n <= k => Sent(h, n)
    BY <2>1, <2>2, <2>3 DEF SkipInv, FirstContact, Contacts
  <2>8. NoContactSkipped'
    BY <2>4, <2>6, <2>7 DEF SkipInv, NoContactSkipped, Sent
  <2>9. \A v \in Workers :
           /\ claims'[v] \subseteq claims[v]
           /\ step'[v] = "delivered" => step[v] = "delivered" /\ hand'[v] = hand[v]
    BY <1>1, <2>4 DEF Finish
  <2> QED
    BY <2>4, <2>8, <2>9 DEF SkipInv, Sent
<1> QED
  BY <1>2, <1>3, <1>4, <1>5, <1>6 DEF RunProceeds, RunFaults

LEMMA SkipNext == SkipInv /\ [Next]_vars => SkipInv'
<1> SUFFICES ASSUME SkipInv, [Next]_vars PROVE SkipInv'
  OBVIOUS
<1>1. TypeInv'
  BY TypeNext DEF SkipInv
<1>2. ASSUME NEW w \in Workers, RunProceeds(w) \/ RunFaults(w) PROVE SkipInv'
  BY <1>1, <1>2, SkipRun
<1>3. ASSUME NEW r \in Rows, TimePasses(r) PROVE SkipInv'
  <2>1. UNCHANGED <<step, hand, claims, copies>>
    BY <1>3 DEF TimePasses, runVars, sentVars
  <2>2. \A q \in Rows : row'[q].contacts = row[q].contacts
    BY <1>3 DEF TimePasses, SkipInv, TypeInv, FollowupTypeOK, Row
  <2> QED
    BY <1>1, <2>1, <2>2, SkipQuiet
<1>4. ASSUME \/ \E l \in Leads : OptOut(l)
             \/ \E l \in Leads, m \in SignalChoices, s \in Stages : SignalsChange(l, m, s)
             \/ UNCHANGED vars
      PROVE  SkipInv'
  <2>1. UNCHANGED <<step, hand, claims, row, copies>>
    BY <1>4 DEF OptOut, SignalsChange, vars, runVars, sentVars
  <2> QED
    BY <1>1, <2>1, SkipQuiet
<1> QED
  BY <1>2, <1>3, <1>4 DEF Next

\* Whatever fails, dies or is barred at the wrong moment, a contact that the row
\* counts, or that precedes one that went out, has reached the lead.
THEOREM NoContactIsSkipped == Spec => []NoContactSkipped
<1>1. Spec => []SkipInv
  BY SkipInit, SkipNext, PTL DEF Spec
<1> QED
  BY <1>1, PTL DEF SkipInv

-----------------------------------------------------------------------------
(* Opt-out *)

\* The workers about to send to l.  As long as no fault touched the rows of l, an
\* opted-out lead gets no new one, and each of them sends once.
Approving(l) == {w \in Workers : step[w] = "approved" /\ hand[w].row[1] = l}
Stopped(l) ==
    RowsOf(l) \cap tainted = {} =>
        IF l \in optedOut THEN late[l] + Cardinality(Approving(l)) <= Cardinality(Workers)
                          ELSE late[l] = 0
StopInv == TypeInv /\ \A l \in Leads : Stopped(l)

LEMMA ApprovingCounted ==
    ASSUME NEW l
    PROVE  /\ Cardinality(Approving(l)) \in Nat /\ Cardinality(Approving(l)') \in Nat
           /\ Cardinality(Workers) \in Nat
           /\ Cardinality(Approving(l)) <= Cardinality(Workers)
           /\ Approving(l)' \subseteq Approving(l)
                => Cardinality(Approving(l)') <= Cardinality(Approving(l))
           /\ \A w \in Approving(l) : Approving(l)' \subseteq Approving(l) \ {w}
                => Cardinality(Approving(l)') + 1 <= Cardinality(Approving(l))
<1>1. /\ IsFiniteSet(Workers) /\ IsFiniteSet(Approving(l)) /\ IsFiniteSet(Approving(l)')
      /\ Approving(l) \subseteq Workers /\ Approving(l)' \subseteq Workers
  BY FollowupAssumption, FS_Subset DEF Approving
<1>2. /\ Cardinality(Approving(l)) \in Nat /\ Cardinality(Approving(l)') \in Nat
      /\ Cardinality(Workers) \in Nat
  BY <1>1, FS_CardinalityType
<1>3. /\ Cardinality(Approving(l)) <= Cardinality(Workers)
      /\ Approving(l)' \subseteq Approving(l)
           => Cardinality(Approving(l)') <= Cardinality(Approving(l))
  BY <1>1, FS_Subset
<1>4. ASSUME NEW w \in Approving(l), Approving(l)' \subseteq Approving(l) \ {w}
      PROVE  Cardinality(Approving(l)') + 1 <= Cardinality(Approving(l))
  <2>1. IsFiniteSet(Approving(l) \ {w})
    BY <1>1, FS_RemoveElement
  <2>2. Cardinality(Approving(l) \ {w})
          = IF w \in Approving(l) THEN Cardinality(Approving(l)) - 1
                                  ELSE Cardinality(Approving(l))
    BY <1>1, FS_RemoveElement
  <2>3. Cardinality(Approving(l)') <= Cardinality(Approving(l) \ {w})
    BY <1>4, <2>1, FS_Subset
  <2> QED
    BY <1>2, <2>2, <2>3
<1> QED
  BY <1>2, <1>3, <1>4

\* Nobody new is about to send to an opted-out lead, and nothing reached it.
LEMMA StopQuiet ==
    ASSUME StopInv, TypeInv', NEW l \in Leads, optedOut' = optedOut, late'[l] = late[l],
           tainted \subseteq tainted',
           l \in optedOut /\ RowsOf(l) \cap tainted' = {} => Approving(l)' \subseteq Approving(l)
    PROVE  Stopped(l)'
<1> SUFFICES ASSUME RowsOf(l) \cap tainted' = {} PROVE Stopped(l)'
  BY DEF Stopped, RowsOf
<1>1. Stopped(l) /\ RowsOf(l) \cap tainted = {} /\ late[l] \in Nat
  BY DEF StopInv, TypeInv, FollowupTypeOK
<1>2. CASE l \in optedOut
  <2>1. /\ Cardinality(Approving(l)) \in Nat /\ Cardinality(Approving(l)') \in Nat
        /\ Cardinality(Approving(l)') <= Cardinality(Approving(l))
        /\ Cardinality(Workers) \in Nat
    BY <1>2, ApprovingCounted
  <2> QED
    BY <1>1, <1>2, <2>1 DEF Stopped
<1>3. CASE l \notin optedOut
  BY <1>1, <1>3 DEF Stopped
<1> QED
  BY <1>2, <1>3

LEMMA StopRun ==
    ASSUME StopInv, TypeInv', NEW w \in Workers, RunProceeds(w) \/ RunFaults(w)
    PROVE  StopInv'
<1> SUFFICES ASSUME NEW l \in Leads PROVE Stopped(l)'
  BY DEF StopInv
<1>1. /\ step[w] \in {"refused", "approved", "delivered", "undelivered"} => hand[w] \in claims[w]
      /\ \A c \in claims[w] : c.row \in Rows /\ c.row[1] \in Leads /\ c.row \in RowsOf(c.row[1])
      /\ late[l] \in Nat /\ Stopped(l)
  BY DEF StopInv, TypeInv, FollowupTypeOK, Claimed, Rows, RowsOf
<1>2. ASSUME NEW s, s # "approved", Goto(w, s), NEW d \in Workers, step'[d] = "approved"
      PROVE  d # w /\ step'[d] = step[d]
  BY <1>2 DEF Goto, StopInv, TypeInv, FollowupTypeOK
<1>3. ASSUME NEW s, s # "approved", Goto(w, s),
             \A v \in Workers \ {w} : hand'[v] = hand[v],
             UNCHANGED <<optedOut, late>>, tainted \subseteq tainted'
      PROVE  Stopped(l)'
  <2>1. Approving(l)' \subseteq Approving(l)
    BY <1>2, <1>3 DEF Approving
  <2> QED
    BY <1>3, <2>1, StopQuiet
<1>4. NoFault => tainted \subseteq tainted'
  BY DEF NoFault, faultVars
<1>5. \A rs : FaultOn(rs) => tainted \subseteq tainted' /\ rs \subseteq tainted'
  BY DEF FaultOn
<1>6. ASSUME NEW x, hand' = [hand EXCEPT ![w] = x], NEW v \in Workers \ {w}
      PROVE  hand'[v] = hand[v]
  BY <1>6 DEF StopInv, TypeInv, FollowupTypeOK
<1>7. CASE Start(w) \/ StartBlind(w) \/ Claim(w) \/ ClaimLost(w)
  <2>1. /\ UNCHANGED <<hand, optedOut, late>>
        /\ Goto(w, "scheduling") \/ Goto(w, "idle") \/ Goto(w, "sending")
    BY <1>7 DEF Start, StartBlind, Claim, ClaimLost, leadVars, sentVars
  <2>2. tainted \subseteq tainted'
    BY <1>4, <1>5, <1>7 DEF Start, StartBlind, Claim, ClaimLost
  <2> QED
    BY <1>3, <2>1, <2>2
<1>8. ASSUME NEW c \in candidates[w], CheckCandidate(w, c) \/ CheckCandidateBlind(w, c)
      PROVE  Stopped(l)'
  <2>1. /\ UNCHANGED <<optedOut, late>> /\ hand' = [hand EXCEPT ![w] = c]
        /\ Goto(w, "arming") \/ Goto(w, "barring")
    BY <1>8 DEF CheckCandidate, CheckCandidateBlind, TakeCandidate, leadVars, sentVars
  <2>2. tainted \subseteq tainted'
    BY <1>4, <1>5, <1>8 DEF CheckCandidate, CheckCandidateBlind
  <2> QED
    BY <1>3, <1>6, <2>1, <2>2
<1>9. CASE Arm(w) \/ Bar(w)
  <2>1. /\ UNCHANGED <<optedOut, late>> /\ hand' = [hand EXCEPT ![w] = Nothing]
        /\ Goto(w, "scheduling")
    BY <1>9 DEF Arm, Bar, leadVars, sentVars
  <2>2. tainted \subseteq tainted'
    BY <1>4, <1>9 DEF Arm, Bar
  <2> QED
    BY <1>3, <1>6, <2>1, <2>2
<1>10. ASSUME NEW c \in claims[w], CheckClaim(w, c) \/ CheckClaimBlind(w, c)
       PROVE  Stopped(l)'
  <2>1. /\ UNCHANGED <<optedOut, late>> /\ hand' = [hand EXCEPT ![w] = c]
        /\ Goto(w, "approved") \/ Goto(w, "refused")
    BY <1>10 DEF CheckClaim, CheckClaimBlind, TakeClaim, leadVars, sentVars
  <2>2. tainted \subseteq tainted'
    BY <1>4, <1>5, <1>10 DEF CheckClaim, CheckClaimBlind
  <2>3. CASE Goto(w, "refused")
    BY <1>3, <1>6, <2>1, <2>2, <2>3
  <2>4. CASE Goto(w, "approved")
    <3>1. \A v \in Workers \ {w} : step'[v] = step[v] /\ hand'[v] = hand[v]
      BY <1>6, <2>1, <2>4 DEF Goto, StopInv, TypeInv, FollowupTypeOK
    <3>2. hand'[w] = c /\ step'[w] = "approved"
      BY <2>1, <2>4 DEF Goto, StopInv, TypeInv, FollowupTypeOK
    <3>3. CASE c.row[1] # l
      <4>1. Approving(l)' \subseteq Approving(l)
        BY <3>1, <3>2, <3>3 DEF Approving
      <4> QED
        BY <2>1, <2>2, <4>1, StopQuiet
    <3>4. CASE c.row[1] = l /\ CheckClaim(w, c)
      <4>1. l \notin optedOut
        BY <2>4, <3>2, <3>4 DEF CheckClaim, Goto, StopInv, TypeInv, FollowupTypeOK
      <4> QED
        BY <2>1, <2>2, <4>1, StopQuiet
    <3>5. CASE c.row[1] = l /\ CheckClaimBlind(w, c)
      <4>1. RowsOf(l) \subseteq tainted' /\ c.row \in RowsOf(l)
        BY <1>1, <1>5, <3>5 DEF CheckClaimBlind
      <4> QED
        BY <4>1 DEF Stopped, RowsOf
    <3> QED
      BY <1>10, <3>3, <3>4, <3>5
  <2> QED
    BY <2>1, <2>3, <2>4
<1>11. CASE Refuse(w) \/ Mark(w) \/ Release(w)
  <2>1. /\ UNCHANGED <<optedOut, late>> /\ hand' = [hand EXCEPT ![w] = Nothing]
        /\ Goto(w, "idle") \/ Goto(w, "sending")
    BY <1>11 DEF Refuse, Mark, Release, Finish, leadVars, sentVars
  <2>2. tainted \subseteq tainted'
    BY <1>4, <1>11 DEF Refuse, Mark, Release
  <2> QED
    BY <1>3, <1>6, <2>1, <2>2
<1>12. CASE SendFails(w) \/ MarkFails(w)
  <2>1. UNCHANGED <<hand, optedOut, late>> /\ Goto(w, "undelivered")
    BY <1>12 DEF SendFails, MarkFails, leadVars, runVars, sentVars
  <2>2. tainted \subseteq tainted'
    BY <1>4, <1>5, <1>12 DEF SendFails, MarkFails
  <2> QED
    BY <1>3, <2>1, <2>2
<1>13. CASE Send(w) \/ SendAnswerLost(w)
  <2> DEFINE r == hand[w].row
  <2>1. /\ step[w] = "approved" /\ UNCHANGED <<hand, optedOut>>
        /\ late' = IF r[1] \in optedOut THEN [late EXCEPT ![r[1]] = @ + 1] ELSE late
        /\ Goto(w, "delivered") \/ Goto(w, "undelivered")
    BY <1>13 DEF Send, SendAnswerLost, Deliver, leadVars
  <2>2. tainted \subseteq tainted' /\ r[1] \in Leads
    BY <1>1, <1>4, <1>5, <1>13, <2>1 DEF Send, SendAnswerLost
  <2>3. Approving(l)' \subseteq Approving(l) \ {w}
    BY <1>2, <2>1 DEF Approving
  <2>4. CASE l = r[1] /\ l \in optedOut /\ RowsOf(l) \cap tainted' = {}
    <3>1. w \in Approving(l)
      BY <2>1, <2>4 DEF Approving
    <3>2. late'[l] = late[l] + 1
      BY <2>1, <2>4 DEF StopInv, TypeInv, FollowupTypeOK
    <3>3. /\ Cardinality(Approving(l)) \in Nat /\ Cardinality(Approving(l)') \in Nat
          /\ Cardinality(Approving(l)') + 1 <= Cardinality(Approving(l))
          /\ Cardinality(Workers) \in Nat
      BY <2>3, <3>1, ApprovingCounted
    <3>4. late[l] + Cardinality(Approving(l)) <= Cardinality(Workers)
      BY <1>1, <2>2, <2>4 DEF Stopped
    <3> QED
      BY <1>1, <2>1, <2>4, <3>2, <3>3, <3>4 DEF Stopped
  <2>5. CASE RowsOf(l) \cap tainted' # {}
    BY <2>5 DEF Stopped, RowsOf
  <2>6. CASE ~(l = r[1] /\ l \in optedOut)
    <3>1. late'[l] = late[l]
      BY <2>1, <2>2, <2>6 DEF StopInv, TypeInv, FollowupTypeOK
    <3> QED
      BY <2>1, <2>2, <2>3, <3>1, StopQuiet
  <2> QED
    BY <2>4, <2>5, <2>6
<1>14. CASE Die(w)
  <2>1. /\ UNCHANGED <<optedOut, late>> /\ hand' = [hand EXCEPT ![w] = Nothing]
        /\ Goto(w, "idle")
    BY <1>14 DEF Die, leadVars, sentVars
  <2>2. tainted \subseteq tainted'
    BY <1>5, <1>14 DEF Die
  <2> QED
    BY <1>3, <1>6, <2>1, <2>2
<1> QED
  BY <1>7, <1>8, <1>9, <1>10, <1>11, <1>12, <1>13, <1>14 DEF RunProceeds, RunFaults

LEMMA StopNext == StopInv /\ [Next]_vars => StopInv'
<1> SUFFICES ASSUME StopInv, [Next]_vars PROVE StopInv'
  OBVIOUS
<1>1. TypeInv'
  BY TypeNext DEF StopInv
<1>2. ASSUME NEW w \in Workers, RunProceeds(w) \/ RunFaults(w) PROVE StopInv'
  BY <1>1, <1>2, StopRun
<1>3. ASSUME NEW k \in Leads, OptOut(k) PROVE StopInv'
  <2> SUFFICES ASSUME NEW l \in Leads PROVE Stopped(l)'
    BY <1>1 DEF StopInv
  <2>1. /\ optedOut' = optedOut \cup {k} /\ k \notin optedOut /\ Stopped(l) /\ late[l] \in Nat
        /\ UNCHANGED <<step, hand, late, tainted>>
    BY <1>3 DEF OptOut, StopInv, TypeInv, FollowupTypeOK, runVars, sentVars, faultVars
  <2>2. Approving(l)' = Approving(l)
    BY <2>1 DEF Approving
  <2>3. Cardinality(Approving(l)) \in Nat /\ Cardinality(Approving(l)) <= Cardinality(Workers)
        /\ Cardinality(Workers) \in Nat
    BY ApprovingCounted
  <2>4. CASE l = k
    BY <2>1, <2>2, <2>3, <2>4 DEF Stopped, RowsOf
  <2>5. CASE l # k
    BY <2>1, <2>2, <2>5 DEF Stopped, RowsOf
  <2> QED
    BY <2>4, <2>5
<1>4. ASSUME \/ \E r \in Rows : TimePasses(r)
             \/ \E l \in Leads, m \in SignalChoices, s \in Stages : SignalsChange(l, m, s)
             \/ UNCHANGED vars
      PROVE  StopInv'
  <2>1. UNCHANGED <<step, hand, optedOut, late, tainted>>
    BY <1>4 DEF TimePasses, SignalsChange, vars, leadVars, runVars, sentVars, faultVars
  <2>2. \A l \in Leads : Stopped(l)'
    BY <2>1 DEF StopInv, Stopped, Approving, RowsOf
  <2> QED
    BY <1>1, <2>2 DEF StopInv
<1> QED
  BY <1>2, <1>3, <1>4 DEF Next

\* "Opt-out blocks 100% of sends", up to the one message each worker had checked
\* before the lead opted out, unless a fault cost a check or an answer.
THEOREM OptOutsStopSends == Spec => []OptOutStopsSends
<1>1. Init => StopInv
  BY TypeInit DEF Init, StopInv, Stopped
<1>2. StopInv => OptOutStopsSends
  <2> SUFFICES ASSUME StopInv, NEW l \in Leads, RowsOf(l) \cap tainted = {}
               PROVE  late[l] <= Cardinality(Workers)
    BY DEF OptOutStopsSends
  <2>1. Stopped(l) /\ late[l] \in Nat
    BY DEF StopInv, TypeInv, FollowupTypeOK
  <2>2. Cardinality(Approving(l)) \in Nat /\ Cardinality(Workers) \in Nat
    BY ApprovingCounted
  <2> QED
    BY <2>1, <2>2 DEF Stopped
<1> QED
  BY <1>1, <1>2, StopNext, PTL DEF Spec

-----------------------------------------------------------------------------
(* The promise of ContactSeries *)

\* What a step leaves alone of the ticket of row r.
KeepsTicket(r) ==
    /\ row'[r].status = "sending" <=> row[r].status = "sending"
    /\ \A w \in Workers : Holds(w, r)' <=> Holds(w, r)
    /\ \A n \in Contacts : AboutToMark(r, n)' <=> AboutToMark(r, n)
    /\ copies'[r] = copies[r]

LEMMA TicketKept ==
    ASSUME NEW r \in Rows, KeepsTicket(r),
           r \notin disturbed \cup tainted, r \notin disturbed' \cup tainted'
    PROVE  TicketOf(r)' = TicketOf(r)
<1>1. {w \in Workers : Holds(w, r)}' = {w \in Workers : Holds(w, r)}
  BY DEF KeepsTicket
<1>2. (\A w \in Workers : ~ Holds(w, r))' <=> (\A w \in Workers : ~ Holds(w, r))
  BY DEF KeepsTicket
<1>3. (\E n \in Contacts : AboutToMark(r, n))' <=> (\E n \in Contacts : AboutToMark(r, n))
  BY DEF KeepsTicket
<1> QED
  BY <1>1, <1>2, <1>3 DEF KeepsTicket, TicketOf

\* A step that leaves every ticket alone, or spoils it, spoils some tickets.
LEMMA SeriesQuiet ==
    ASSUME disturbed \subseteq disturbed', tainted \subseteq tainted',
           \A r \in Rows \ (disturbed' \cup tainted') : KeepsTicket(r)
    PROVE  Series!SeriesNext
<1> DEFINE S == {r \in Rows : r \in disturbed' \cup tainted'}
<1>1. \A r \in S : TicketOf(r)' = Series!Spoiled
  <2> SUFFICES ASSUME NEW r \in S PROVE TicketOf(r)' = Series!Spoiled
    OBVIOUS
  <2>1. \A n \in Contacts : ~ n <= 0
    BY DEF Contacts
  <2> QED
    BY <2>1 DEF TicketOf, Series!Spoiled, Series!UpTo
<1>2. \A r \in Rows \ S : TicketOf(r)' = TicketOf(r)
  BY TicketKept
<1>3. Series!Spoil(S)
  <2>1. seriesOf' = [r \in Rows |-> IF r \in S THEN Series!Spoiled ELSE seriesOf[r]]
    <3> HIDE DEF S
    <3> QED
      BY <1>1, <1>2 DEF seriesOf
  <2> QED
    BY <2>1 DEF Series!Spoil
<1> QED
  BY <1>3 DEF Series!SeriesNext

\* A run holds the rows of its claims alone.
LEMMA SoleHolder ==
    ASSUME OnceInv, NEW w \in Workers, NEW r \in Rows \ (disturbed \cup tainted),
           Holds(w, r)
    PROVE  /\ row[r].status = "sending" /\ {v \in Workers : Holds(v, r)} = {w}
           /\ \A n \in Contacts : AboutToMark(r, n)
                 <=> /\ step[w] = "delivered" /\ hand[w].row = r
                     /\ n = FirstContact(hand[w].contacts)
<1>1. row[r].status = "sending" /\ \A v \in Workers \ {w} : ~ Holds(v, r)
  BY DEF OnceInv, ClaimInv, ClaimIsExclusive, Holds
<1>2. \A v \in Workers : step[v] = "delivered" /\ hand[v].row = r => Holds(v, r)
  BY DEF OnceInv, ClaimInv, TypeInv, FollowupTypeOK, Holds
<1>3. {v \in Workers : Holds(v, r)} = {w}
  BY <1>1
<1> QED
  BY <1>1, <1>2, <1>3 DEF AboutToMark

\* The ticket of a held row.
LEMMA HeldTicket ==
    ASSUME OnceInv, NEW w \in Workers, NEW r \in Rows \ (disturbed \cup tainted),
           Holds(w, r)
    PROVE  TicketOf(r) =
             [state |-> IF \E n \in Contacts : AboutToMark(r, n) THEN "used" ELSE "taken",
              holders |-> {w}, copies |-> copies[r]]
BY SoleHolder DEF TicketOf

\* The ticket of a row nobody holds.
LEMMA FreeTicket ==
    ASSUME NEW r \in Rows \ (disturbed \cup tainted), \A w \in Workers : ~ Holds(w, r)
    PROVE  TicketOf(r) =
             [state |-> IF row[r].status # "sending" THEN "idle" ELSE "stranded",
              holders |-> {}, copies |-> copies[r]]
BY DEF TicketOf

\* A ticket moves and keeps what went out.
LEMMA PutTicket ==
    ASSUME NEW s, NEW t, NEW x, NEW y, NEW c
    PROVE  Series!Put([state |-> s, holders |-> x, copies |-> c], t, y)
             = [state |-> t, holders |-> y, copies |-> c]
BY DEF Series!Put

\* Nobody holds a due row.
LEMMA DueIsFree ==
    ASSUME OnceInv, NEW r \in DueRows \ (disturbed \cup tainted)
    PROVE  (\A w \in Workers : ~ Holds(w, r)) /\ row[r].status # "sending"
BY DEF OnceInv, ClaimInv, ClaimIsExclusive, Holds, DueRows

\* SeriesQuiet, said of the one worker that takes the step.
LEMMA SeriesQuietStep ==
    ASSUME NEW w \in Workers,
           disturbed \subseteq disturbed', tainted \subseteq tainted', claims' = claims,
           \A r \in Rows \ (disturbed' \cup tainted') :
               /\ row'[r].status = "sending" <=> row[r].status = "sending"
               /\ copies'[r] = copies[r],
           step[w] = "delivered" => hand[w].row \in tainted',
           step'[w] # "delivered",
           \A v \in Workers \ {w} : step'[v] = step[v] /\ hand'[v] = hand[v]
    PROVE  Series!SeriesNext
<1>1. ASSUME NEW r \in Rows \ (disturbed' \cup tainted'), NEW n \in Contacts
      PROVE  AboutToMark(r, n)' <=> AboutToMark(r, n)
  BY <1>1 DEF AboutToMark
<1>2. \A r \in Rows, v \in Workers : Holds(v, r)' <=> Holds(v, r)
  BY DEF Holds
<1> QED
  BY <1>1, <1>2, SeriesQuiet DEF KeepsTicket

LEMMA SeriesScheduling ==
    ASSUME OnceInv, NEW w \in Workers,
           \/ Start(w) \/ StartBlind(w) \/ Arm(w) \/ Bar(w)
           \/ \E c \in candidates[w] : CheckCandidate(w, c) \/ CheckCandidateBlind(w, c)
    PROVE  Series!SeriesNext
<1> USE DEF OnceInv, ClaimInv, TypeInv, FollowupTypeOK, Goto
<1> DEFINE h == <<hand[w].lead, hand[w].stage>>
<1>1. disturbed \subseteq disturbed' /\ copies' = copies /\ claims' = claims
  BY DEF Start, StartBlind, Arm, Bar, CheckCandidate, CheckCandidateBlind, TakeCandidate,
         sentVars
<1>2. tainted \subseteq tainted'
  BY FaultsGrow DEF Start, StartBlind, Arm, Bar, CheckCandidate, CheckCandidateBlind
<1>3. /\ step[w] # "delivered" /\ step'[w] # "delivered"
      /\ \A v \in Workers \ {w} : step'[v] = step[v] /\ hand'[v] = hand[v]
  BY DEF Start, StartBlind, Arm, Bar, CheckCandidate, CheckCandidateBlind, TakeCandidate
<1>4. ASSUME NEW r \in Rows \ (disturbed' \cup tainted')
      PROVE  row'[r].status = "sending" <=> row[r].status = "sending"
  <2>1. CASE Arm(w)
    <3>1. h \in Rows /\ row[h] \in Row /\ hand[w].signals \in SignalChoices
      BY <2>1 DEF Arm, Candidate, Rows
    <3>2. r # h => row'[r] = row[r]
      BY <2>1, <3>1 DEF Arm
    <3>3. \/ row'[h] = row[h]
          \/ row[h].status # "sending" /\ row'[h] = Armed(row[h], hand[w].signals)
      BY <2>1, <3>1 DEF Arm
    <3>4. row[h].status # "sending" => Armed(row[h], hand[w].signals).status # "sending"
      BY <3>1 DEF Armed, Row
    <3> HIDE DEF h
    <3> QED
      BY <3>2, <3>3, <3>4
  <2>2. CASE Bar(w)
    <3>1. h \in Rows /\ row[h] \in Row
      BY <2>2 DEF Bar, Candidate, Rows
    <3>2. r # h => row'[r] = row[r]
      BY <2>2, <3>1 DEF Bar
    <3>3. row[h].status = "sending" => h \in disturbed'
      BY <2>2 DEF Bar
    <3>4. row'[h].status = "blocked"
      BY <2>2, <3>1 DEF Bar, Row
    <3> HIDE DEF h
    <3> QED
      BY <3>2, <3>3, <3>4
  <2>3. ASSUME ~ Arm(w), ~ Bar(w) PROVE row' = row
    BY <2>3 DEF Start, StartBlind, CheckCandidate, CheckCandidateBlind, TakeCandidate
  <2> QED
    BY <2>1, <2>2, <2>3
<1> QED
  BY <1>1, <1>2, <1>3, <1>4, SeriesQuietStep

LEMMA SeriesClaiming ==
    ASSUME OnceInv, OnceInv', NEW w \in Workers,
           \/ Claim(w) \/ ClaimLost(w)
           \/ \E c \in claims[w] : CheckClaim(w, c) \/ CheckClaimBlind(w, c)
    PROVE  Series!SeriesNext
<1> USE DEF OnceInv, ClaimInv, TypeInv, FollowupTypeOK, Goto
<1>1. /\ UNCHANGED <<disturbed, copies>> /\ step[w] # "delivered" /\ step'[w] # "delivered"
      /\ \A v \in Workers \ {w} : step'[v] = step[v] /\ hand'[v] = hand[v]
  BY DEF Claim, ClaimLost, CheckClaim, CheckClaimBlind, TakeClaim, sentVars
<1>2. tainted \subseteq tainted'
  BY FaultsGrow DEF Claim, ClaimLost, CheckClaim, CheckClaimBlind
<1>3. ASSUME NEW c \in claims[w], CheckClaim(w, c) \/ CheckClaimBlind(w, c)
      PROVE  Series!SeriesNext
  <2>1. UNCHANGED <<claims, row>>
    BY <1>3 DEF CheckClaim, CheckClaimBlind, TakeClaim
  <2> QED
    BY <1>1, <1>2, <2>1, SeriesQuietStep
<1> DEFINE R == DueRows \ (disturbed \cup tainted)
<1>4. R \in SUBSET Rows
  BY DEF DueRows
<1>5. ASSUME NEW r \in R
      PROVE  seriesOf[r] = [state |-> "idle", holders |-> {}, copies |-> copies[r]]
  <2>1. r \in Rows \ (disturbed \cup tainted) /\ r \in DueRows
    BY <1>4
  <2>2. (\A v \in Workers : ~ Holds(v, r)) /\ row[r].status # "sending"
    BY <2>1, DueIsFree
  <2>3. TicketOf(r) = [state |-> "idle", holders |-> {}, copies |-> copies[r]]
    BY <2>1, <2>2, FreeTicket
  <2> QED
    BY <2>1, <2>3 DEF seriesOf
<1>6. Series!In(R, "idle")
  <2>1. \A r \in R : seriesOf[r].state = "idle"
    <3> SUFFICES ASSUME NEW r \in R PROVE seriesOf[r].state = "idle"
      OBVIOUS
    <3>1. seriesOf[r] = [state |-> "idle", holders |-> {}, copies |-> copies[r]]
      BY <1>5
    <3> QED
      BY ONLY <3>1
  <2> QED
    BY <2>1 DEF Series!In
<1>7. \A n \in Contacts, r \in Rows : AboutToMark(r, n)' <=> AboutToMark(r, n)
  BY <1>1 DEF AboutToMark
<1>8. CASE Claim(w)
  <2>1. /\ UNCHANGED tainted /\ claims'[w] = {Snapshot(r) : r \in DueRows}
        /\ \A v \in Workers \ {w} : claims'[v] = claims[v]
        /\ claims[w] = {}
    BY <1>8 DEF Claim, NoFault, faultVars, ClaimsAreOfOneRun, Unclaimed
  <2>2. \A r \in DueRows : Holds(w, r)'
    <3> SUFFICES ASSUME NEW r \in DueRows PROVE Holds(w, r)'
      OBVIOUS
    <3>1. Snapshot(r) \in claims'[w] /\ Snapshot(r).row = r
      BY <2>1 DEF Snapshot
    <3> QED
      BY <3>1 DEF Holds
  <2>3. ASSUME NEW r \in R
        PROVE  TicketOf(r)' = [state |-> "taken", holders |-> {w}, copies |-> copies[r]]
    <3>1. /\ row'[r].status = "sending" /\ {v \in Workers : Holds(v, r)'} = {w}
          /\ Holds(w, r)'
      BY <1>1, <1>4, <2>1, <2>2 DEF ClaimIsExclusive, Holds
    <3>2. \A n \in Contacts : ~ AboutToMark(r, n)
      BY DueIsFree DEF AboutToMark, Holds
    <3> QED
      BY <1>1, <1>4, <1>7, <2>1, <3>1, <3>2 DEF TicketOf
  <2>4. ASSUME NEW r \in Rows \ R
        PROVE  TicketOf(r)' = TicketOf(r)
    <3>1. CASE r \in disturbed \cup tainted
      BY <1>1, <2>1, <3>1 DEF TicketOf
    <3>2. CASE r \notin disturbed \cup tainted
      <4>1. r \notin DueRows /\ row'[r] = row[r]
        BY <1>8, <3>2 DEF Claim
      <4>2. \A v \in Workers : Holds(v, r)' <=> Holds(v, r)
        <5>1. \A c \in claims'[w] : c.row \in DueRows
          BY <2>1 DEF Snapshot
        <5> QED
          BY <2>1, <4>1, <5>1 DEF Holds
      <4> QED
        BY <1>1, <1>7, <2>1, <3>2, <4>1, <4>2, TicketKept DEF KeepsTicket
    <3> QED
      BY <3>1, <3>2
  <2>5. Series!Take(w, R)
    <3>1. \A r \in R : TicketOf(r)' = Series!Put(seriesOf[r], "taken", {w})
      <4> SUFFICES ASSUME NEW r \in R
                   PROVE  TicketOf(r)' = Series!Put(seriesOf[r], "taken", {w})
        OBVIOUS
      <4>1. seriesOf[r] = [state |-> "idle", holders |-> {}, copies |-> copies[r]]
        BY <1>5
      <4>2. Series!Put(seriesOf[r], "taken", {w})
              = [state |-> "taken", holders |-> {w}, copies |-> copies[r]]
        BY ONLY <4>1, PutTicket
      <4> QED
        BY <2>3, <4>2
    <3>2. seriesOf' = [r \in Rows |-> IF r \in R
                          THEN Series!Put(seriesOf[r], "taken", {w}) ELSE seriesOf[r]]
      <4> HIDE DEF R
      <4> QED
        BY <1>4, <2>4, <3>1 DEF seriesOf
    <3> QED
      BY <1>6, <3>2 DEF Series!Take
  <2> QED
    BY <1>4, <2>5 DEF Series!SeriesNext
<1>9. CASE ClaimLost(w)
  <2>1. UNCHANGED <<claims, tainted>>
    BY <1>9 DEF ClaimLost, FaultOn
  <2>2. \A r \in Rows, v \in Workers : Holds(v, r)' <=> Holds(v, r)
    BY <2>1 DEF Holds
  <2>3. ASSUME NEW r \in R
        PROVE  TicketOf(r)' = [state |-> "stranded", holders |-> {}, copies |-> copies[r]]
    <3>1. row'[r].status = "sending" /\ \A v \in Workers : ~ Holds(v, r)'
      BY <1>4, <1>9, <2>2, DueIsFree DEF ClaimLost, Row
    <3> QED
      BY <1>1, <2>1, <3>1 DEF TicketOf
  <2>4. ASSUME NEW r \in Rows \ R
        PROVE  TicketOf(r)' = TicketOf(r)
    <3>1. CASE r \in disturbed \cup tainted
      BY <1>1, <2>1, <3>1 DEF TicketOf
    <3>2. CASE r \notin disturbed \cup tainted
      <4>1. r \notin DueRows /\ row'[r] = row[r]
        BY <1>9, <3>2 DEF ClaimLost
      <4> QED
        BY <1>1, <1>7, <2>1, <2>2, <3>2, <4>1, TicketKept DEF KeepsTicket
    <3> QED
      BY <3>1, <3>2
  <2>5. Series!Strand(R)
    <3>1. \A r \in R : TicketOf(r)' = Series!Stranded(seriesOf[r])
      <4> SUFFICES ASSUME NEW r \in R
                   PROVE  TicketOf(r)' = Series!Stranded(seriesOf[r])
        OBVIOUS
      <4>1. seriesOf[r] = [state |-> "idle", holders |-> {}, copies |-> copies[r]]
        BY <1>5
      <4>2. Series!Put(seriesOf[r], "stranded", {})
              = [state |-> "stranded", holders |-> {}, copies |-> copies[r]]
        BY ONLY <4>1, PutTicket
      <4> QED
        BY <2>3, <4>2 DEF Series!Stranded
    <3>2. seriesOf' = [r \in Rows |-> IF r \in R THEN Series!Stranded(seriesOf[r])
                                                  ELSE seriesOf[r]]
      <4> HIDE DEF R
      <4> QED
        BY <1>4, <2>4, <3>1 DEF seriesOf
    <3> QED
      BY <1>6, <3>2 DEF Series!Strand
  <2> QED
    BY <1>4, <2>5 DEF Series!SeriesNext
<1> QED
  BY <1>3, <1>8, <1>9

\* A contact that goes out is the next one of its row.
LEMMA SeriesSend ==
    ASSUME OnceInv, OnceInv', NEW w \in Workers, Send(w)
    PROVE  Series!SeriesNext
<1>h. PICK h : h = hand[w].row
  OBVIOUS
<1>k. PICK k : k = FirstContact(hand[w].contacts)
  OBVIOUS
<1>1. /\ step[w] = "approved" /\ hand[w] \in claims[w] /\ h \in Rows
      /\ hand[w].contacts \in 0 .. 5 /\ k \in Contacts
  <2>1. step[w] = "approved" /\ hand[w] \in claims[w]
    BY DEF Send, Deliver, OnceInv, ClaimInv, TypeInv, FollowupTypeOK
  <2>2. hand[w] \in Claimed
    BY <2>1 DEF OnceInv, ClaimInv, TypeInv, FollowupTypeOK
  <2>3. hand[w].contacts \in 0 .. 5 /\ FirstContact(hand[w].contacts) \in Contacts
    BY <2>1, NextContact DEF OnceInv, ClaimInv
  <2> QED
    BY <2>1, <2>2, <2>3, <1>h, <1>k DEF Claimed
<1>2. /\ UNCHANGED <<row, hand, claims, disturbed, tainted>>
      /\ step' = [step EXCEPT ![w] = "delivered"]
      /\ \A r \in Rows \ {h} : copies'[r] = copies[r]
  BY <1>h DEF Send, Deliver, NoFault, faultVars, Goto
<1>3. step'[w] = "delivered" /\ \A v \in Workers \ {w} : step'[v] = step[v]
  BY <1>2 DEF OnceInv, ClaimInv, TypeInv, FollowupTypeOK
<1>4. \A r \in Rows, v \in Workers : Holds(v, r)' <=> Holds(v, r)
  BY <1>2 DEF Holds
<1>5. ASSUME NEW r \in Rows \ (disturbed \cup tainted), r # h
      PROVE  KeepsTicket(r)
  <2>1. \A n \in Contacts : AboutToMark(r, n)' <=> AboutToMark(r, n)
    BY <1>h, <1>1, <1>2, <1>3, <1>5 DEF AboutToMark
  <2> QED
    BY <1>2, <1>4, <1>5, <2>1 DEF KeepsTicket
<1>6. CASE h \in disturbed \cup tainted
  BY <1>2, <1>5, <1>6, SeriesQuiet
<1>7. CASE h \notin disturbed \cup tainted
  <2>1. Holds(w, h) /\ Holds(w, h)'
    BY <1>h, <1>1, <1>4 DEF Holds
  <2>2. row[h].contacts = hand[w].contacts
    BY <1>h, <1>1, <1>7 DEF OnceInv, ClaimInv, ClaimIsExclusive
  <2>3. \A n \in Contacts : ~ AboutToMark(h, n)
    BY <1>h, <1>1, <1>7, <2>1, SoleHolder
  <2>4. \A n \in Contacts : AboutToMark(h, n)' <=> n = k
    <3>1. \A v \in Workers \ {w} : ~ (step[v] = "delivered" /\ hand[v].row = h)
      BY <1>h, <1>1, <1>7, OnlyTheHolderDelivers
    <3> QED
      BY <1>h, <1>k, <1>2, <1>3, <3>1 DEF AboutToMark
  <2>5. copies[h] = Series!UpTo(k - 1)
    <3>1. \A n \in Contacts : copies[h][n] = IF n <= k - 1 THEN 1 ELSE 0
      BY <1>h, <1>k, <1>1, <1>7, <2>2, <2>3 DEF OnceInv, ContactSentOnce, FirstContact
    <3>2. copies[h] \in [Contacts -> Nat]
      BY <1>1 DEF OnceInv, ClaimInv, TypeInv, FollowupTypeOK
    <3> QED
      BY <3>1, <3>2 DEF Series!UpTo
  <2>6. copies'[h] = Series!UpTo(k)
    <3>1. \A n \in Contacts : copies'[h][n] = IF n <= hand[w].contacts \/ n = k THEN 1 ELSE 0
      BY <1>h, <1>k, <1>1, <1>2, <1>7, <2>2, <2>4 DEF OnceInv, ContactSentOnce
    <3>2. \A n \in Contacts : copies'[h][n] = IF n <= k THEN 1 ELSE 0
      BY <1>h, <1>k, <1>1, <3>1 DEF FirstContact, Contacts
    <3>3. copies'[h] \in [Contacts -> Nat]
      BY <1>1 DEF OnceInv, ClaimInv, TypeInv, FollowupTypeOK
    <3> QED
      BY <3>2, <3>3 DEF Series!UpTo
  <2>7. TicketOf(h) = [state |-> "taken", holders |-> {w}, copies |-> Series!UpTo(k - 1)]
    BY <1>1, <1>7, <2>1, <2>3, <2>5, HeldTicket
  <2>8. TicketOf(h)' = [state |-> "used", holders |-> {w}, copies |-> Series!UpTo(k)]
    <3>1. /\ row'[h].status = "sending" /\ {v \in Workers : Holds(v, h)}' = {w}
      BY <1>1, <1>2, <1>4, <1>7, <2>1, SoleHolder
    <3>2. \E n \in Contacts : AboutToMark(h, n)'
      BY <1>1, <2>4
    <3> QED
      BY <1>2, <1>7, <2>1, <2>6, <3>1, <3>2 DEF TicketOf
  <2>9. \A r \in Rows \ {h} : TicketOf(r)' = TicketOf(r)
    <3> SUFFICES ASSUME NEW r \in Rows \ {h} PROVE TicketOf(r)' = TicketOf(r)
      OBVIOUS
    <3>1. CASE r \in disturbed \cup tainted
      BY <1>2, <3>1 DEF TicketOf
    <3> QED
      BY <1>2, <1>5, <3>1, TicketKept
  <2>10. Series!SendNext(w, h)
    <3>1. seriesOf' = [seriesOf EXCEPT ![h] =
                         [state |-> "used", holders |-> {w}, copies |-> Series!UpTo(k)]]
      <4> QED
        BY <1>1, <2>8, <2>9 DEF seriesOf
    <3>2. /\ seriesOf[h].state = "taken" /\ seriesOf[h].holders = {w}
          /\ seriesOf[h].copies = Series!UpTo(k - 1)
      BY <1>1, <2>7 DEF seriesOf
    <3> QED
      BY <1>1, <3>1, <3>2 DEF Series!SendNext
  <2> QED
    BY <1>1, <2>10 DEF Series!SeriesNext
<1> QED
  BY <1>6, <1>7

\* Whatever became of its contact, a claim that is done with is given back.
LEMMA SeriesPutBack ==
    ASSUME OnceInv, OnceInv', NEW w \in Workers, Refuse(w) \/ Mark(w) \/ Release(w)
    PROVE  Series!SeriesNext
<1>h. PICK h : h = hand[w].row
  OBVIOUS
<1>1. hand[w] \in claims[w] /\ h \in Rows /\ row[h] \in Row
  <2>1. hand[w] \in claims[w]
    BY DEF Refuse, Mark, Release, OnceInv, ClaimInv, TypeInv, FollowupTypeOK
  <2> QED
    BY <1>h, <2>1 DEF OnceInv, ClaimInv, TypeInv, FollowupTypeOK, Claimed
<1>2. UNCHANGED <<copies, disturbed, tainted>> /\ Finish(w)
  BY DEF Refuse, Mark, Release, NoFault, faultVars, sentVars
<1>3. \A r \in Rows \ {h} : row'[r] = row[r]
  <2> SUFFICES ASSUME NEW r \in Rows \ {h} PROVE row'[r] = row[r]
    OBVIOUS
  <2>1. row \in [Rows -> Row]
    BY DEF OnceInv, ClaimInv, TypeInv, FollowupTypeOK
  <2> QED
    BY <1>h, <2>1 DEF Refuse, Mark, Release
<1>4. /\ step'[w] # "delivered" /\ claims'[w] = claims[w] \ {hand[w]}
      /\ \A v \in Workers \ {w} : /\ step'[v] = step[v] /\ hand'[v] = hand[v]
                                  /\ claims'[v] = claims[v]
  BY <1>2 DEF Finish, Goto, OnceInv, ClaimInv, TypeInv, FollowupTypeOK
<1>5. ASSUME NEW r \in Rows \ (disturbed \cup tainted), r # h
      PROVE  KeepsTicket(r)
  <2>1. \A n \in Contacts : AboutToMark(r, n)' <=> AboutToMark(r, n)
    BY <1>h, <1>4, <1>5 DEF AboutToMark
  <2>2. \A v \in Workers : Holds(v, r)' <=> Holds(v, r)
    BY <1>h, <1>4, <1>5 DEF Holds
  <2> QED
    BY <1>2, <1>3, <1>5, <2>1, <2>2 DEF KeepsTicket
<1>6. CASE h \in disturbed \cup tainted
  BY <1>2, <1>5, <1>6, SeriesQuiet
<1>7. CASE h \notin disturbed \cup tainted
  <2>1. Holds(w, h)
    BY <1>h, <1>1 DEF Holds
  <2>2. row[h].status = "sending" /\ \A v \in Workers \ {w} : ~ Holds(v, h)
    BY <1>h, <1>1, <1>7 DEF OnceInv, ClaimInv, ClaimIsExclusive
  <2>3. \A v \in Workers : ~ Holds(v, h)'
    <3>1. \A c \in claims[w] : c.row = h => c = hand[w]
      BY <1>h, <1>1 DEF OnceInv, ClaimInv, ClaimsAreOfOneRun
    <3> QED
      BY <1>h, <1>4, <2>2, <3>1 DEF Holds
  <2>4. row'[h].status # "sending"
    <3>0. row \in [Rows -> Row]
      BY DEF OnceInv, ClaimInv, TypeInv, FollowupTypeOK
    <3>1. CASE Refuse(w)
      BY <1>h, <1>1, <3>0, <3>1 DEF Refuse, Row
    <3>2. CASE Release(w)
      BY <1>h, <1>1, <2>2, <3>0, <3>2 DEF Release, Row
    <3>3. CASE Mark(w)
      <4>1. PICK n : n = FirstContact(hand[w].contacts)
        OBVIOUS
      <4>2. PICK more : more = (Plan(hand[w].context, n, FALSE) # {})
        OBVIOUS
      <4>3. row' = [row EXCEPT ![h].contacts = n,
                               ![h].status = IF more THEN "scheduled" ELSE "completed",
                               ![h].next = IF more THEN "later" ELSE "null"]
        BY <1>h, <2>2, <3>3, <4>1, <4>2 DEF Mark
      <4> QED
        BY <1>1, <3>0, <4>3 DEF Row
    <3> QED
      BY <3>1, <3>2, <3>3
  <2>5. TicketOf(h)' = [state |-> "idle", holders |-> {}, copies |-> copies[h]]
    <3>1. {v \in Workers : Holds(v, h)}' = {}
      BY <2>3
    <3> QED
      BY <1>2, <1>7, <2>4, <3>1 DEF TicketOf
  <2>6. \E s \in {"taken", "used"} :
           TicketOf(h) = [state |-> s, holders |-> {w}, copies |-> copies[h]]
    BY <1>1, <1>7, <2>1, HeldTicket
  <2>7. \A r \in Rows \ {h} : TicketOf(r)' = TicketOf(r)
    <3> SUFFICES ASSUME NEW r \in Rows \ {h} PROVE TicketOf(r)' = TicketOf(r)
      OBVIOUS
    <3>1. CASE r \in disturbed \cup tainted
      BY <1>2, <3>1 DEF TicketOf
    <3> QED
      BY <1>2, <1>5, <3>1, TicketKept
  <2>8. Series!PutBack(w, h)
    <3>1. PICK s \in {"taken", "used"} :
             TicketOf(h) = [state |-> s, holders |-> {w}, copies |-> copies[h]]
      BY <2>6
    <3>2. seriesOf[h] = [state |-> s, holders |-> {w}, copies |-> copies[h]]
      BY <1>1, <3>1 DEF seriesOf
    <3>3. Series!Put(seriesOf[h], "idle", {}) = TicketOf(h)'
      BY <2>5, <3>2, PutTicket
    <3>4. seriesOf' = [seriesOf EXCEPT ![h] = Series!Put(@, "idle", {})]
      <4> QED
        BY <1>1, <2>7, <3>3 DEF seriesOf
    <3> QED
      BY <3>2, <3>4 DEF Series!PutBack
  <2> QED
    BY <1>1, <2>8 DEF Series!SeriesNext
<1> QED
  BY <1>6, <1>7

\* A run that dies strands what it held.
LEMMA SeriesDie ==
    ASSUME OnceInv, OnceInv', NEW w \in Workers, Die(w)
    PROVE  Series!SeriesNext
<1>1. /\ UNCHANGED <<row, copies, disturbed>> /\ tainted \subseteq tainted'
      /\ step[w] = "delivered" => hand[w].row \in tainted'
  BY DEF Die, FaultOn, sentVars
<1>2. /\ claims'[w] = {} /\ step'[w] = "idle"
      /\ \A v \in Workers \ {w} : /\ step'[v] = step[v] /\ hand'[v] = hand[v]
                                  /\ claims'[v] = claims[v]
  BY DEF Die, Goto, OnceInv, ClaimInv, TypeInv, FollowupTypeOK
<1>3. PICK S : S = {r \in Rows : r \in disturbed' \cup tainted'}
  OBVIOUS
<1>4. ASSUME NEW r \in S
      PROVE  TicketOf(r)' = Series!Spoiled
  <2>1. \A n \in Contacts : ~ n <= 0
    BY DEF Contacts
  <2> QED
    BY <1>3, <1>4, <2>1 DEF TicketOf, Series!Spoiled, Series!UpTo
<1>5. ASSUME NEW r \in Rows \ S, Holds(w, r)
      PROVE  /\ TicketOf(r).holders = {w}
             /\ TicketOf(r)' = Series!Stranded(TicketOf(r))
  <2>1. r \in Rows \ (disturbed \cup tainted) /\ r \notin disturbed' \cup tainted'
    BY <1>1, <1>3, <1>5
  <2>2. PICK s : TicketOf(r) = [state |-> s, holders |-> {w}, copies |-> copies[r]]
    BY <1>5, <2>1, HeldTicket
  <2>3. row[r].status = "sending" /\ \A v \in Workers \ {w} : ~ Holds(v, r)
    BY <1>5, <2>1 DEF OnceInv, ClaimInv, ClaimIsExclusive, Holds
  <2>4. \A v \in Workers : ~ Holds(v, r)'
    BY <1>2, <2>3 DEF Holds
  <2>5. TicketOf(r)' = [state |-> "stranded", holders |-> {}, copies |-> copies[r]]
    <3>1. {v \in Workers : Holds(v, r)}' = {}
      BY <2>4
    <3> QED
      BY <1>1, <2>1, <2>3, <2>4, <3>1 DEF TicketOf
  <2>6. Series!Stranded(TicketOf(r)) = TicketOf(r)'
    BY <2>2, <2>5, PutTicket DEF Series!Stranded
  <2> QED
    BY <2>2, <2>6
<1>6. ASSUME NEW r \in Rows \ S, ~ Holds(w, r)
      PROVE  /\ TicketOf(r).holders # {w}
             /\ TicketOf(r)' = TicketOf(r)
  <2>1. r \notin disturbed \cup tainted /\ r \notin disturbed' \cup tainted'
    BY <1>1, <1>3, <1>6
  <2>2. TicketOf(r).holders # {w}
    <3>1. TicketOf(r).holders = {v \in Workers : Holds(v, r)}
      BY <2>1 DEF TicketOf
    <3> QED
      BY <1>6, <3>1
  <2>3. \A v \in Workers : Holds(v, r)' <=> Holds(v, r)
    BY <1>2, <1>6 DEF Holds
  <2>4. \A n \in Contacts : AboutToMark(r, n)' <=> AboutToMark(r, n)
    BY <1>1, <1>2, <2>1 DEF AboutToMark
  <2> QED
    BY <1>1, <2>1, <2>2, <2>3, <2>4, TicketKept DEF KeepsTicket
<1>7. S \in SUBSET Rows
  BY <1>3
<1>8. Series!Abandon(w, S)
  <2>1. seriesOf' = [r \in Rows |->
                       IF r \in S THEN Series!Spoiled
                       ELSE IF seriesOf[r].holders = {w} THEN Series!Stranded(seriesOf[r])
                       ELSE seriesOf[r]]
    <3>1. ASSUME NEW r \in Rows
          PROVE  TicketOf(r)' = IF r \in S THEN Series!Spoiled
                                ELSE IF TicketOf(r).holders = {w}
                                     THEN Series!Stranded(TicketOf(r))
                                ELSE TicketOf(r)
      BY <1>4, <1>5, <1>6
    <3> QED
      BY <3>1 DEF seriesOf
  <2> QED
    BY <2>1 DEF Series!Abandon
<1> QED
  BY <1>7, <1>8 DEF Series!SeriesNext

LEMMA SeriesSending ==
    ASSUME OnceInv, OnceInv', NEW w \in Workers,
           \/ Refuse(w) \/ Send(w) \/ SendFails(w) \/ SendAnswerLost(w)
           \/ Mark(w) \/ MarkFails(w) \/ Release(w) \/ Die(w)
    PROVE  Series!SeriesNext
<1>1. CASE SendFails(w) \/ SendAnswerLost(w) \/ MarkFails(w)
  <2> USE DEF OnceInv, ClaimInv, TypeInv, FollowupTypeOK
  <2>1. /\ UNCHANGED <<row, claims, hand, disturbed>> /\ tainted \subseteq tainted'
        /\ step' = [step EXCEPT ![w] = "undelivered"]
        /\ step[w] = "delivered" => hand[w].row \in tainted'
    BY <1>1 DEF SendFails, SendAnswerLost, MarkFails, Deliver, Goto, FaultOn, NoFault,
                faultVars
  <2>2. \A r \in Rows \ (disturbed' \cup tainted') : copies'[r] = copies[r]
    BY <1>1 DEF SendFails, SendAnswerLost, MarkFails, Deliver, FaultOn, sentVars
  <2>3. /\ step'[w] # "delivered"
        /\ \A v \in Workers \ {w} : step'[v] = step[v] /\ hand'[v] = hand[v]
    BY <2>1
  <2> QED
    BY <2>1, <2>2, <2>3, SeriesQuietStep
<1>2. CASE Send(w)
  BY <1>2, SeriesSend
<1>3. CASE Refuse(w) \/ Mark(w) \/ Release(w)
  BY <1>3, SeriesPutBack
<1>4. CASE Die(w)
  BY <1>4, SeriesDie
<1> QED
  BY <1>1, <1>2, <1>3, <1>4

LEMMA SeriesStep ==
    OnceInv /\ OnceInv' /\ [Next]_vars => [Series!SeriesNext]_seriesOf
<1> SUFFICES ASSUME OnceInv, OnceInv', [Next]_vars
             PROVE  Series!SeriesNext
  OBVIOUS
<1>1. ASSUME NEW w \in Workers, RunProceeds(w) \/ RunFaults(w) PROVE Series!SeriesNext
  BY <1>1, SeriesScheduling, SeriesClaiming, SeriesSending DEF RunProceeds, RunFaults
<1>2. ASSUME NEW r \in Rows, TimePasses(r) PROVE Series!SeriesNext
  <2>1. UNCHANGED <<step, hand, claims, copies, disturbed, tainted>>
    BY <1>2 DEF TimePasses, runVars, sentVars, faultVars
  <2>2. \A q \in Rows : row'[q].status = row[q].status
    BY <1>2 DEF TimePasses, OnceInv, ClaimInv, TypeInv, FollowupTypeOK, Row
  <2> QED
    BY <2>1, <2>2, SeriesQuiet DEF KeepsTicket, Holds, AboutToMark
<1>3. ASSUME \/ \E l \in Leads : OptOut(l)
             \/ \E l \in Leads, m \in SignalChoices, s \in Stages : SignalsChange(l, m, s)
             \/ UNCHANGED vars
      PROVE  Series!SeriesNext
  <2>1. UNCHANGED <<step, hand, claims, row, copies, disturbed, tainted>>
    BY <1>3 DEF OptOut, SignalsChange, vars, runVars, sentVars, faultVars
  <2> QED
    BY <2>1, SeriesQuiet DEF KeepsTicket, Holds, AboutToMark
<1> QED
  BY <1>1, <1>2, <1>3 DEF Next

\* For any number of workers, leads, stages and faults the job implements
\* ContactSeries: on a row that was not barred while claimed and that no fault cost
\* an answer or a mark, contacts go out in turn, each once, each out of a claim
\* nobody else has, and none after a claim was lost.
THEOREM FollowupsKeepTheirSeries == Spec => ImplementsSeries
<1>1. Init => Series!SeriesInit
  <2> SUFFICES ASSUME Init PROVE Series!SeriesInit
    OBVIOUS
  <2>1. ASSUME NEW r \in Rows
        PROVE  TicketOf(r) = Series!Fresh
    <3>1. /\ r \notin disturbed \cup tainted /\ row[r].status # "sending"
          /\ \A w \in Workers : ~ Holds(w, r)
      BY DEF Init, NoRow, Holds
    <3>2. TicketOf(r) = [state |-> "idle", holders |-> {}, copies |-> copies[r]]
      BY <3>1, FreeTicket
    <3>3. copies[r] = [n \in Contacts |-> 0]
      BY DEF Init
    <3>4. Series!UpTo(0) = [n \in Contacts |-> 0]
      BY DEF Series!UpTo, Contacts
    <3> QED
      BY <3>2, <3>3, <3>4 DEF Series!Fresh
  <2> QED
    BY <2>1 DEF Series!SeriesInit, seriesOf
<1>2. Spec => []OnceInv
  BY OnceInit, OnceNext, PTL DEF Spec
<1> QED
  BY <1>1, <1>2, SeriesStep, PTL DEF Spec, ImplementsSeries, Series!SeriesSpec

==============================================================================
