---------------------------- MODULE ContactSeries ----------------------------
(***************************************************************************)
(* What the follow-ups of a lead promise, without plans, schedules,        *)
(* snapshots or runs.  Contacts of a row go out one after the other, each  *)
(* once.  A row is in one hand at a time, and a hand sends at most one     *)
(* contact before it puts the row back.  What a dead hand held is never    *)
(* taken up again.  A row that was disturbed, or that lost an answer, is   *)
(* spoiled: nothing is promised of it from then on.                        *)
(***************************************************************************)
EXTENDS Integers

CONSTANTS Rows, Workers, Contacts

VARIABLE series     \* series[r]: who holds row r, and what has gone out on it

\* Contacts 1 to n went out, once each.
UpTo(n) == [m \in Contacts |-> IF m <= n THEN 1 ELSE 0]

Fresh == [state |-> "idle", holders |-> {}, copies |-> UpTo(0)]
Spoiled == [state |-> "spoiled", holders |-> {}, copies |-> UpTo(0)]

\* Ticket q, in state s and in these hands.
Put(q, s, hands) == [state |-> s, holders |-> hands, copies |-> q.copies]

SeriesInit == series = [r \in Rows |-> Fresh]

In(R, s) == \A r \in R : series[r].state = s

\* A hand takes rows nobody holds.
Take(w, R) ==
    /\ In(R, "idle")
    /\ series' = [r \in Rows |-> IF r \in R
                    THEN Put(series[r], "taken", {w}) ELSE series[r]]

\* The next contact goes out, from the one hand that holds the row.
SendNext(w, r) ==
    /\ series[r].state = "taken" /\ series[r].holders = {w}
    /\ \E n \in Contacts :
          /\ series[r].copies = UpTo(n - 1)
          /\ series' = [series EXCEPT ![r] =
                          [state |-> "used", holders |-> {w}, copies |-> UpTo(n)]]

PutBack(w, r) ==
    /\ series[r].state \in {"taken", "used"} /\ series[r].holders = {w}
    /\ series' = [series EXCEPT ![r] = Put(@, "idle", {})]

Stranded(q) == Put(q, "stranded", {})

\* The hand dies; what it was about to record is spoiled, the rest is stranded.
Abandon(w, S) ==
    series' = [r \in Rows |-> IF r \in S THEN Spoiled
                              ELSE IF series[r].holders = {w} THEN Stranded(series[r])
                              ELSE series[r]]

\* The rows are taken, and the hand that took them never hears of it.
Strand(R) ==
    /\ In(R, "idle")
    /\ series' = [r \in Rows |-> IF r \in R THEN Stranded(series[r]) ELSE series[r]]

Spoil(S) == series' = [r \in Rows |-> IF r \in S THEN Spoiled ELSE series[r]]

SeriesNext ==
    \/ \E w \in Workers :
          \/ \E R \in SUBSET Rows : Take(w, R) \/ Abandon(w, R)
          \/ \E r \in Rows : SendNext(w, r) \/ PutBack(w, r)
    \/ \E R \in SUBSET Rows : Strand(R) \/ Spoil(R)

SeriesSpec == SeriesInit /\ [][SeriesNext]_series

==============================================================================
