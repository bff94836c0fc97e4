-------------------------------- MODULE Stats --------------------------------
(***************************************************************************)
(* The cards of the dashboard: GET /stats (get_stats of backend/routers/   *)
(* stats.py).  Each of its counts is a select of its own, so transactions  *)
(* come in and are decided in between.  What is kept of the counts that    *)
(* must not overlap is their sum; the count of all rows and the average    *)
(* are left out.  Dashboard extends it by the tab that asks.               *)
(***************************************************************************)
EXTENDS Naturals, Sequences, FiniteSets

CONSTANT MaxRow     \* bound on the rows of transactions

ASSUME StatsAssumption == MaxRow \in Nat

VARIABLES
    rows,       \* status of each transaction, in the order of created_at
    stats       \* GET /stats: how many selects are done, and the sum of their counts

statsVars == <<rows, stats>>

-----------------------------------------------------------------------------
New     == {"PENDING", "AUTO_APPROVED"}
Decided == {"approved", "rejected"}
Idle    == [pc |-> "idle"]

StatsInit == rows = <<>> /\ stats = Idle

\* The insert of a submission.
Arrive(status) ==
    /\ Len(rows) < MaxRow
    /\ rows' = Append(rows, status)
    /\ UNCHANGED stats

\* Users decide, and a decision that read the row as pending may still replace
\* another.
Decide(i, verdict) ==
    /\ rows[i] = "PENDING" \/ rows[i] \in Decided \ {verdict}
    /\ rows' = [rows EXCEPT ![i] = verdict]
    /\ UNCHANGED stats

-----------------------------------------------------------------------------
Count(status) == Cardinality({i \in DOMAIN rows : rows[i] = status})

\* Faulty: pending transactions are counted before the rejected ones.
SelectsPendingFirst == <<"AUTO_APPROVED", "PENDING", "rejected">>

\* The selects of get_stats; nothing writes the status blocked.
Selects == <<"AUTO_APPROVED", "rejected", "PENDING">>

StatsSend ==
    /\ stats = Idle
    /\ stats' = [pc |-> "counting", done |-> 0, sum |-> 0]
    /\ UNCHANGED rows

\* Each select is an await.
StatsSelect ==
    /\ stats.pc = "counting" /\ stats.done < Len(Selects)
    /\ stats' = [stats EXCEPT !.done = @ + 1, !.sum = @ + Count(Selects[stats.done + 1])]
    /\ UNCHANGED rows

\* The answer is shown, or the request fails.
StatsEnd ==
    /\ stats # Idle
    /\ stats' = Idle
    /\ UNCHANGED rows

StatsNext ==
    \/ \E status \in New : Arrive(status)
    \/ \E i \in DOMAIN rows, verdict \in Decided : Decide(i, verdict)
    \/ StatsSend \/ StatsSelect \/ StatsEnd

StatsSpec == StatsInit /\ [][StatsNext]_statsVars

-----------------------------------------------------------------------------
\* The cards never show one transaction twice, although each count is of its own
\* moment: what is rejected in between had left the pending ones before they are
\* counted.  The rate of fraud has no such luck: it may exceed one hundred percent.
EachCountedOnce == stats.pc = "counting" => stats.sum <= Len(rows)
=============================================================================
