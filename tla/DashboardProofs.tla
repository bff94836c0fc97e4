--------------------------- MODULE DashboardProofs ---------------------------
(***************************************************************************)
(* The cards of the dashboard count no transaction twice, for any number   *)
(* of transactions, although every count is a select of its own.           *)
(*                                                                         *)
(* The argument: an automatic approval is final, and a rejected row may    *)
(* yet be approved by a racing decision, but is never pending again; so    *)
(* the counts so far never exceed the rows that are now approved           *)
(* automatically or decided (Counted), and none of these is pending.  It   *)
(* is made for StatsSpec, which the tab of Dashboard implements.           *)
(***************************************************************************)
EXTENDS Dashboard, FiniteSetTheorems, SequenceTheorems, TLAPS

Status == New \cup Decided

\* The rows of some statuses, as Count counts them.
Having(rs, statuses) == {i \in DOMAIN rs : rs[i] \in statuses}

Autos(rs)    == Cardinality(Having(rs, {"AUTO_APPROVED"}))
Verdicts(rs) == Cardinality(Having(rs, Decided))
Pending(rs)  == Cardinality(Having(rs, {"PENDING"}))

\* The sum of the counts so far is bounded by what the rows are now.
Counted(done, sum, rs) ==
    CASE done = 0 -> sum = 0
      [] done = 1 -> sum <= Autos(rs)
      [] done = 2 -> sum <= Autos(rs) + Verdicts(rs)
      [] done = 3 -> sum <= Len(rs)

IInv ==
    /\ rows \in Seq(Status)
    /\ \/ stats = Idle
       \/ /\ stats \in [pc : {"counting"}, done : 0 .. 3, sum : Nat]
          /\ Counted(stats.done, stats.sum, rows)

-----------------------------------------------------------------------------
\* They are finitely many, no more than the rows.
LEMMA HavingIsSmall ==
  ASSUME NEW rs \in Seq(Status), NEW statuses
  PROVE  /\ IsFiniteSet(Having(rs, statuses))
         /\ Cardinality(Having(rs, statuses)) \in Nat
         /\ Cardinality(Having(rs, statuses)) <= Len(rs)
  <1>1. Len(rs) \in Nat /\ DOMAIN rs = 1 .. Len(rs)
    OBVIOUS
  <1>2. IsFiniteSet(1 .. Len(rs)) /\ Cardinality(1 .. Len(rs)) = Len(rs)
    BY <1>1, FS_Interval
  <1>3. Having(rs, statuses) \in SUBSET (1 .. Len(rs))
    BY <1>1 DEF Having
  <1> QED BY <1>2, <1>3, FS_Subset, FS_CardinalityType

\* A row has one status: the rows of disjoint statuses add up.
LEMMA HavingAddsUp ==
  ASSUME NEW rs \in Seq(Status), NEW these, NEW those, these \cap those = {}
  PROVE  Cardinality(Having(rs, these \cup those)) =
             Cardinality(Having(rs, these)) + Cardinality(Having(rs, those))
  <1>1. IsFiniteSet(Having(rs, these)) /\ IsFiniteSet(Having(rs, those))
    BY HavingIsSmall
  <1>2. /\ Having(rs, these \cup those) = Having(rs, these) \cup Having(rs, those)
        /\ Having(rs, these) \cap Having(rs, those) = {}
    BY DEF Having
  <1>3. /\ Cardinality(Having(rs, these)) \in Nat
        /\ Cardinality(Having(rs, those)) \in Nat
    BY HavingIsSmall
  <1>4. Cardinality(Having(rs, these) \cap Having(rs, those)) = 0
    BY <1>2, FS_EmptySet
  <1>5. Cardinality(Having(rs, these) \cup Having(rs, those)) =
            Cardinality(Having(rs, these)) + Cardinality(Having(rs, those))
              - Cardinality(Having(rs, these) \cap Having(rs, those))
    BY <1>1, FS_Union
  <1>6. Cardinality(Having(rs, these \cup those)) =
            Cardinality(Having(rs, these)) + Cardinality(Having(rs, those)) - 0
    BY <1>2, <1>4, <1>5
  <1> QED BY <1>3, <1>6

\* Rows are only added, and only pending and decided ones change, to decided.
Follows(after, before) ==
    /\ Len(before) <= Len(after)
    /\ \A i \in DOMAIN before :
          /\ i \in DOMAIN after
          /\ \/ after[i] = before[i]
             \/ before[i] # "AUTO_APPROVED" /\ after[i] \in Decided

\* Of the final statuses there are never fewer rows than before.
LEMMA HavingGrows ==
  ASSUME NEW before \in Seq(Status), NEW after \in Seq(Status), Follows(after, before),
         NEW statuses \in {{"AUTO_APPROVED"}, Decided}
  PROVE  Cardinality(Having(before, statuses)) <= Cardinality(Having(after, statuses))
  <1>1. Having(before, statuses) \in SUBSET Having(after, statuses)
    BY DEF Having, Follows, Decided
  <1> QED BY <1>1, HavingIsSmall, FS_Subset

\* Every step keeps the rows, but for decisions.
LEMMA RowsStep ==
  ASSUME rows \in Seq(Status), [StatsNext]_statsVars
  PROVE  rows' \in Seq(Status) /\ Follows(rows', rows)
  <1>1. CASE UNCHANGED rows
    BY <1>1 DEF Follows
  <1>2. ASSUME NEW status \in New, rows' = Append(rows, status)
        PROVE  rows' \in Seq(Status) /\ Follows(rows', rows)
    BY <1>2 DEF Follows, Status
  <1>3. ASSUME NEW i \in DOMAIN rows, NEW verdict \in Decided, Decide(i, verdict)
        PROVE  rows' \in Seq(Status) /\ Follows(rows', rows)
    <2>1. /\ rows' = [rows EXCEPT ![i] = verdict] /\ verdict \in Status
          /\ rows[i] # "AUTO_APPROVED"
      BY <1>3 DEF Decide, Status, Decided
    <2>2. rows' \in Seq(Status) /\ Len(rows') = Len(rows)
      BY <2>1
    <2>3. ASSUME NEW k \in DOMAIN rows
          PROVE  /\ k \in DOMAIN rows'
                 /\ rows'[k] = rows[k] \/ (rows[k] # "AUTO_APPROVED" /\ rows'[k] \in Decided)
      BY <2>1, <2>3
    <2> QED BY <2>2, <2>3 DEF Follows
  <1>4. ASSUME NEW status \in New, Arrive(status)
        PROVE  rows' \in Seq(Status) /\ Follows(rows', rows)
    BY <1>2, <1>4 DEF Arrive
  <1> QED
    BY <1>1, <1>3, <1>4
    DEF StatsNext, statsVars, StatsSend, StatsSelect, StatsEnd

\* The numbers of rows, which never add up to more than all of them.
LEMMA Numbers ==
  ASSUME NEW rs \in Seq(Status)
  PROVE  /\ Len(rs) \in Nat /\ Autos(rs) \in Nat /\ Verdicts(rs) \in Nat /\ Pending(rs) \in Nat
         /\ Autos(rs) + Verdicts(rs) + Pending(rs) <= Len(rs)
  <1>1. Autos(rs) \in Nat /\ Verdicts(rs) \in Nat /\ Pending(rs) \in Nat
    BY HavingIsSmall DEF Autos, Verdicts, Pending
  <1>2. Cardinality(Having(rs, {"AUTO_APPROVED"} \cup Decided)) = Autos(rs) + Verdicts(rs)
    <2>1. {"AUTO_APPROVED"} \cap Decided = {}
      BY DEF Decided
    <2> QED BY <2>1, HavingAddsUp DEF Autos, Verdicts
  <1>3. Cardinality(Having(rs, ({"AUTO_APPROVED"} \cup Decided) \cup {"PENDING"})) =
            Cardinality(Having(rs, {"AUTO_APPROVED"} \cup Decided)) + Pending(rs)
    <2>1. ({"AUTO_APPROVED"} \cup Decided) \cap {"PENDING"} = {}
      BY DEF Decided
    <2> QED BY <2>1, HavingAddsUp DEF Pending
  <1>4. Cardinality(Having(rs, ({"AUTO_APPROVED"} \cup Decided) \cup {"PENDING"})) <= Len(rs)
    BY HavingIsSmall
  <1> QED BY <1>1, <1>2, <1>3, <1>4

\* Nothing is stored or counted at first.
LEMMA InitInv == StatsInit => IInv
  BY DEF StatsInit, IInv, Idle

\* What was counted stays counted.
LEMMA CountedStays ==
  ASSUME NEW before \in Seq(Status), NEW after \in Seq(Status), Follows(after, before),
         NEW done \in 0 .. 3, NEW sum \in Nat, Counted(done, sum, before)
  PROVE  Counted(done, sum, after)
  <1>1. /\ Autos(before) <= Autos(after) /\ Verdicts(before) <= Verdicts(after)
        /\ Len(before) <= Len(after)
    BY HavingGrows DEF Autos, Verdicts, Follows
  <1>2. /\ Autos(before) \in Nat /\ Verdicts(before) \in Nat /\ Len(before) \in Nat
        /\ Autos(after) \in Nat /\ Verdicts(after) \in Nat /\ Len(after) \in Nat
    BY Numbers
  <1> HIDE DEF Autos, Verdicts
  <1>3. CASE done = 0
    BY <1>3 DEF Counted
  <1>4. CASE done = 1
    BY <1>1, <1>2, <1>4 DEF Counted
  <1>5. CASE done = 2
    BY <1>1, <1>2, <1>5 DEF Counted
  <1>6. CASE done = 3
    BY <1>1, <1>2, <1>6 DEF Counted
  <1> QED BY <1>3, <1>4, <1>5, <1>6

\* A select counts the rows of one status: no more than there are of its kind.
LEMMA OneCount ==
  ASSUME rows \in Seq(Status)
  PROVE  /\ Count("AUTO_APPROVED") = Autos(rows) /\ Count("PENDING") = Pending(rows)
         /\ Count("rejected") \in Nat /\ Count("rejected") <= Verdicts(rows)
  <1>1. \A status : Count(status) = Cardinality(Having(rows, {status}))
    BY DEF Count, Having
  <1>2. Having(rows, {"rejected"}) \in SUBSET Having(rows, Decided)
    BY DEF Having, Decided
  <1>3. Count("rejected") = Cardinality(Having(rows, {"rejected"}))
    BY <1>1
  <1>4. Count("rejected") \in Nat /\ Count("rejected") <= Verdicts(rows)
    BY <1>2, <1>3, HavingIsSmall, FS_Subset DEF Verdicts
  <1> QED BY <1>1, <1>4 DEF Autos, Pending

\* The next count is of rows that the counts so far are not about.
LEMMA SelectStep ==
  ASSUME IInv, StatsSelect
  PROVE  IInv'
  <1>1. /\ rows \in Seq(Status) /\ rows' = rows
        /\ stats \in [pc : {"counting"}, done : 0 .. 2, sum : Nat]
        /\ Counted(stats.done, stats.sum, rows)
    BY DEF IInv, StatsSelect, Idle, Selects
  <1>2. /\ Autos(rows) \in Nat /\ Verdicts(rows) \in Nat /\ Pending(rows) \in Nat
        /\ Len(rows) \in Nat /\ Autos(rows) + Verdicts(rows) + Pending(rows) <= Len(rows)
    BY <1>1, Numbers
  <1>3. PICK n : n = Count(Selects[stats.done + 1])
    OBVIOUS
  <1>4. stats' = [stats EXCEPT !.done = @ + 1, !.sum = @ + n]
    BY <1>3 DEF StatsSelect
  <1>5. /\ stats.done = 0 => n = Autos(rows)
        /\ stats.done = 1 => n \in Nat /\ n <= Verdicts(rows)
        /\ stats.done = 2 => n = Pending(rows)
    BY <1>1, <1>3, OneCount DEF Selects
  <1>6. n \in Nat
    BY <1>1, <1>2, <1>5
  <1>7. PICK done \in 0 .. 2, sum \in Nat :
          stats = [pc |-> "counting", done |-> done, sum |-> sum]
    BY <1>1
  <1>8. /\ stats' \in [pc : {"counting"}, done : 0 .. 3, sum : Nat]
        /\ stats'.done = stats.done + 1 /\ stats'.sum = sum + n
    <2>1. stats' = [pc |-> "counting", done |-> done + 1, sum |-> sum + n]
      BY <1>4, <1>7
    <2>2. done + 1 \in 0 .. 3 /\ sum + n \in Nat
      BY <1>6, <1>7
    <2> QED BY <1>7, <2>1, <2>2
  <1>9. CASE stats.done = 0
    <2>1. sum = 0 /\ n = Autos(rows)
      BY <1>1, <1>5, <1>7, <1>9 DEF Counted
    <2>2. Counted(1, sum + n, rows)
      BY <1>2, <2>1 DEF Counted
    <2> QED BY <1>1, <1>8, <1>9, <2>2 DEF IInv
  <1>10. CASE stats.done = 1
    <2>1. sum <= Autos(rows) /\ n <= Verdicts(rows)
      BY <1>1, <1>5, <1>7, <1>10 DEF Counted
    <2>2. sum + n <= Autos(rows) + Verdicts(rows)
      BY <1>2, <1>6, <2>1
    <2>3. Counted(2, sum + n, rows)
      BY <2>2 DEF Counted
    <2> QED BY <1>1, <1>8, <1>10, <2>3 DEF IInv
  <1>11. CASE stats.done = 2
    <2>1. sum <= Autos(rows) + Verdicts(rows) /\ n = Pending(rows)
      BY <1>1, <1>5, <1>7, <1>11 DEF Counted
    <2>2. sum + n <= Len(rows)
      BY <1>2, <1>6, <2>1
    <2>3. Counted(3, sum + n, rows)
      BY <2>2 DEF Counted
    <2> QED BY <1>1, <1>8, <1>11, <2>3 DEF IInv
  <1> QED BY <1>1, <1>9, <1>10, <1>11

\* Every select adds such a count, and nothing else does.
LEMMA StepInv == IInv /\ [StatsNext]_statsVars => IInv'
  <1> SUFFICES ASSUME IInv, [StatsNext]_statsVars PROVE IInv'
    OBVIOUS
  <1>1. rows \in Seq(Status) /\ rows' \in Seq(Status) /\ Follows(rows', rows)
    BY RowsStep DEF IInv
  <1>2. CASE UNCHANGED stats
    BY <1>1, <1>2, CountedStays DEF IInv
  <1>3. CASE stats' = Idle
    BY <1>1, <1>3 DEF IInv
  <1>4. CASE StatsSend
    <2>1. stats' = [pc |-> "counting", done |-> 0, sum |-> 0] /\ Counted(0, 0, rows')
      BY <1>4 DEF StatsSend, Counted
    <2> QED BY <1>1, <2>1 DEF IInv
  <1>5. CASE StatsSelect
    BY <1>5, SelectStep
  <1> QED
    BY <1>2, <1>3, <1>4, <1>5
    DEF StatsNext, statsVars, Arrive, Decide, StatsEnd

\* The invariant holds throughout.
THEOREM Invariance == StatsSpec => []IInv
  BY InitInv, StepInv, PTL DEF StatsSpec

-----------------------------------------------------------------------------
\* The tab adds nothing to what its cards see: it asks, submits like anyone else, and
\* forgets what it asked when its page is loaded anew.
THEOREM TabImplementsStats == Spec => StatsSpec
  <1>1. Init => StatsInit
    BY DEF Init
  <1>2. [Next]_vars => [StatsNext]_statsVars
    <2> SUFFICES ASSUME [Next]_vars PROVE [StatsNext]_statsVars
      OBVIOUS
    <2>1. CASE Others
      BY <2>1 DEF Others, StatsNext
    <2>2. CASE Cards
      BY <2>2 DEF Cards, StatsNext
    <2>3. CASE PostServe
      BY <2>3 DEF PostServe, StatsNext
    <2>4. CASE Reload
      BY <2>4 DEF Reload, StatsNext, StatsEnd, statsVars
    <2> QED
      BY <2>1, <2>2, <2>3, <2>4
      DEF Next, vars, Show, Hide, Age, Collect, Reconnect, PostSend, PostFail,
          PostSucceeds, Poll, FetchServe, FetchEnds, FetchFails
  <1> QED BY <1>1, <1>2, PTL DEF Spec, StatsSpec

\* For any number of transactions: the three counts of the cards never exceed the
\* transactions there are.
THEOREM CardsAddUp == Spec => []EachCountedOnce
  <1>1. ASSUME IInv, stats.pc = "counting" PROVE stats.sum <= Len(rows)
    <2>1. /\ rows \in Seq(Status) /\ stats \in [pc : {"counting"}, done : 0 .. 3, sum : Nat]
          /\ Counted(stats.done, stats.sum, rows)
      BY <1>1 DEF IInv, Idle
    <2>2. /\ Autos(rows) \in Nat /\ Verdicts(rows) \in Nat /\ Pending(rows) \in Nat
          /\ Len(rows) \in Nat /\ Autos(rows) + Verdicts(rows) + Pending(rows) <= Len(rows)
      BY <2>1, Numbers
    <2>3. Autos(rows) <= Len(rows) /\ Autos(rows) + Verdicts(rows) <= Len(rows)
      BY <2>2
    <2>4. stats.sum \in Nat /\ stats.done \in {0, 1, 2, 3}
      BY <2>1
    <2>5. CASE stats.done = 0
      BY <2>1, <2>2, <2>5 DEF Counted
    <2>6. CASE stats.done = 1
      BY <2>1, <2>2, <2>3, <2>4, <2>6 DEF Counted
    <2>7. CASE stats.done = 2
      BY <2>1, <2>2, <2>3, <2>4, <2>7 DEF Counted
    <2>8. CASE stats.done = 3
      BY <2>1, <2>8 DEF Counted
    <2> QED BY <2>4, <2>5, <2>6, <2>7, <2>8
  <1>2. IInv => EachCountedOnce
    BY <1>1 DEF EachCountedOnce
  <1> QED BY <1>2, TabImplementsStats, Invariance, PTL
=============================================================================
