--------------------------- MODULE VelocityProofs ---------------------------
(***************************************************************************)
(* What the counts and the running average of a velocity profile are worth *)
(* when any number of submissions overlap, for windows of any width.       *)
(*                                                                         *)
(* The argument: a submission enters the sorted set once, after its own    *)
(* counts (Entries); an entry that EXPIRE has covered leaves the set only  *)
(* when it is an hour old, by the clock of the backend, which no handler   *)
(* in flight is further behind than Slow (Kept, Clock); an amount is in an *)
(* average only when its handler has ended (Averages); and an average is   *)
(* not below each of its amounts, which is shown along its recursion, for  *)
(* which a shortest average that had no value, or fell below, is ruled out *)
(* (MeansExist, MeanAbove).                                                *)
(***************************************************************************)
EXTENDS Velocity, FiniteSetTheorems, SequenceTheorems, TLAPS

\* No entry is of the future, and no handler older than Slow.
Clock ==
    \A s \in Sub :
        /\ at[s] # Never => at[s] <= now
        /\ InFlight(s) => began[s] \in 0 .. now /\ now <= began[s] + Slow

\* A submission is entered when it has been scored, and has a profile only before.
Entries ==
    \A s \in Sub :
        /\ at[s] # Never => pc[s] \in {"added", "kept", "read", "done"}
        /\ pc[s] \in {"added", "kept", "read"} => at[s] # Never
        /\ s \in hist \cup covered => at[s] # Never
        /\ pc[s] \notin {"counted5", "counted1h"} => prof[s] = NoProfile

\* A covered entry is in the set, whose time to live is beyond its hour, or its hour
\* is over.
Kept ==
    \A s \in covered :
        /\ s \in hist => dies # Never /\ at[s] + Hour <= dies
        /\ s \notin hist => at[s] + Hour <= now

\* The submissions of an average have been entered, each once, and their handlers
\* have ended.
Ended == {s \in Sub : pc[s] = "done" /\ at[s] # Never}

OnceEach(seq, among) ==
    \A i \in DOMAIN seq :
        seq[i] \in among /\ \A j \in DOMAIN seq : seq[i] = seq[j] => i = j

Averages == OnceEach(avg, Ended) /\ \A s \in Sub : OnceEach(old[s], Ended)

\* A submission keeps its amount, no rule fires before it is read, and the average is
\* read last, with nothing awaited before the rules.
Amounts ==
    \A s \in Sub :
        /\ pc[s] # "idle" => amt[s] \in Amount
        /\ pc[s] = "idle" => fired[s] = {}
        /\ prof[s].avg_amount = <<>>

IInv ==
    /\ TypeOK /\ Clock /\ Entries /\ Kept /\ Averages /\ Amounts
    /\ CountedIsReal /\ UnusualIsUnusual

-----------------------------------------------------------------------------
\* There are finitely many submissions, and more of them make a larger count.
LEMMA Counting ==
  ASSUME NEW T \in SUBSET Sub, NEW S \in SUBSET T
  PROVE  Cardinality(S) \in Nat /\ Cardinality(T) \in Nat /\ Cardinality(S) <= Cardinality(T)
  <1>1. IsFiniteSet(T)
    BY FS_Subset, VelocityAssumption DEF VelocityAssumption
  <1> QED BY <1>1, FS_Subset, FS_CardinalityType

\* Nothing was submitted at first: Init establishes the invariant.
LEMMA InitInv == Init => IInv
  <1> SUFFICES ASSUME Init PROVE IInv
    OBVIOUS
  <1> USE VelocityAssumption DEF Init
  <1>1. TypeOK
    BY DEF TypeOK, Never, NoProfile, Profile, Rule
  <1>2. Clock /\ Entries /\ Kept /\ Averages
    BY DEF Clock, Entries, Kept, Averages, OnceEach, InFlight, Never
  <1>3. CountedIsReal /\ UnusualIsUnusual
    BY DEF CountedIsReal, UnusualIsUnusual, InFlight
  <1>4. Amounts
    BY DEF Amounts, NoProfile
  <1> QED BY <1>1, <1>2, <1>3, <1>4 DEF IInv

\* The types are kept by every step.
LEMMA TypeStep == TypeOK /\ [Next]_vars => TypeOK'
  <1> SUFFICES ASSUME TypeOK, [Next]_vars PROVE TypeOK'
    OBVIOUS
  <1> USE VelocityAssumption DEF TypeOK, Never
  <1>1. ASSUME NEW s \in Sub, NEW n \in Nat
        PROVE  /\ [prof EXCEPT ![s]["tx_5m"] = n] \in [Sub -> Profile]
               /\ [prof EXCEPT ![s]["tx_1h"] = n] \in [Sub -> Profile]
    BY <1>1 DEF Profile
  <1>2. NoProfile \in Profile
    BY DEF NoProfile, Profile
  <1>3. \A S \in SUBSET Sub : Cardinality(S) \in Nat
    BY Counting
  <1>4. ASSUME NEW s \in Sub, NEW a \in Amount, Start(s, a) PROVE TypeOK'
    BY <1>4 DEF Start, Goto, redis
  <1>5. ASSUME NEW s \in Sub, Trim(s) PROVE TypeOK'
    BY <1>5 DEF Trim, Goto
  <1>6. ASSUME NEW s \in Sub, Count5(s) PROVE TypeOK'
    BY <1>6, <1>1, <1>3 DEF Count5, Put, Goto, redis
  <1>7. ASSUME NEW s \in Sub, Count1h(s) PROVE TypeOK'
    BY <1>7, <1>1, <1>3 DEF Count1h, Put, Goto, redis
  <1>8. ASSUME NEW s \in Sub, GetAverage(s) PROVE TypeOK'
    BY <1>8, <1>2 DEF GetAverage, Score, Goto, redis, Triggered
  <1>9. ASSUME NEW s \in Sub, LoseProfile(s) PROVE TypeOK'
    BY <1>9, <1>2 DEF LoseProfile, Score, Goto, redis, Triggered
  <1>10. ASSUME NEW s \in Sub, Add(s) PROVE TypeOK'
    BY <1>10 DEF Add, Goto
  <1>11. ASSUME NEW s \in Sub, Keep(s) PROVE TypeOK'
    <2>1. now + Hour \in 1 .. MaxTime + Hour
      OBVIOUS
    <2>2. dies' \in {Never} \cup 1 .. MaxTime + Hour
      BY <1>11, <2>1 DEF Keep
    <2>3. covered' \subseteq Sub
      BY <1>11 DEF Keep
    <2> QED BY <1>11, <2>2, <2>3 DEF Keep, Goto
  <1>12. ASSUME NEW s \in Sub, ReadAverage(s) PROVE TypeOK'
    BY <1>12 DEF ReadAverage, Goto, redis
  <1>13. ASSUME NEW s \in Sub, WriteAverage(s) PROVE TypeOK'
    BY <1>13, SMTT(60) DEF WriteAverage, Finish, Goto
  <1>14. ASSUME NEW s \in Sub, LoseStore(s) PROVE TypeOK'
    BY <1>14 DEF LoseStore, Finish, Goto, redis
  <1>15. CASE Tick
    <2>1. now' \in 0 .. MaxTime
      BY <1>15 DEF Tick
    <2>2. hist' \subseteq Sub /\ dies' \in {Never} \cup 1 .. MaxTime + Hour
      BY <1>15 DEF Tick
    <2>3. UNCHANGED <<at, avg, pc, amt, began, prof, fired, old, covered>>
      BY <1>15 DEF Tick
    <2> QED BY <2>1, <2>2, <2>3
  <1>16. CASE ForgetAverage
    BY <1>16 DEF ForgetAverage
  <1>17. CASE UNCHANGED vars
    BY <1>17 DEF vars
  <1> QED
    BY <1>4, <1>5, <1>6, <1>7, <1>8, <1>9, <1>10, <1>11, <1>12, <1>13, <1>14, <1>15, <1>16, <1>17 DEF Next, Handle

-----------------------------------------------------------------------------
\* A handler in flight sees no covered entry missing that is not an hour old.
LEMMA Seen ==
  ASSUME TypeOK, Clock, Kept, NEW s \in Sub, InFlight(s)
  PROVE  /\ covered \cap InWindow(s, Five) \subseteq hist
         /\ covered \cap InWindow(s, Hour - Slow - 1) \subseteq hist
  <1>1. Five \in Nat /\ Hour \in Nat /\ Slow \in Nat /\ Five + Slow < Hour
    BY VelocityAssumption
  <1>2. now \in Nat /\ began[s] \in Nat /\ now <= began[s] + Slow
    BY DEF Clock, TypeOK
  <1>3. ASSUME NEW q \in covered, q \notin hist, NEW width \in {Five, Hour - Slow - 1}
        PROVE  q \notin InWindow(s, width)
    <2>1. q \in Sub /\ at[q] + Hour <= now
      BY <1>3 DEF Kept, TypeOK
    <2>2. CASE at[q] = Never
      BY <2>2 DEF InWindow
    <2>3. CASE at[q] # Never
      <3>1. at[q] \in Int
        BY <2>1, <2>3 DEF TypeOK
      <3>2. at[q] < began[s] - width
        BY <1>1, <1>2, <1>3, <2>1, <3>1
      <3> QED BY <1>1, <1>2, <1>3, <3>1, <3>2 DEF InWindow
    <2> QED BY <2>2, <2>3
  <1> QED BY <1>3

\* Time waits for handlers that are Slow, and an entry carries the time of its step.
LEMMA ClockStep == TypeOK /\ Clock /\ [Next]_vars => Clock'
  <1> SUFFICES ASSUME TypeOK /\ Clock, [Next]_vars PROVE Clock'
    OBVIOUS
  <1> USE VelocityAssumption DEF TypeOK, Clock, InFlight, Never
  <1>1. ASSUME NEW s \in Sub, NEW a \in Amount, Start(s, a) PROVE Clock'
    <2>1. /\ at' = at /\ now' = now /\ now \in Nat /\ Slow \in Nat
          /\ began' = [began EXCEPT ![s] = now] /\ pc' = [pc EXCEPT ![s] = "begun"]
      BY <1>1 DEF Start, Goto, redis
    <2>2. ASSUME NEW q \in Sub, q # s
          PROVE  began'[q] = began[q] /\ pc'[q] = pc[q]
      BY <2>1, <2>2
    <2>3. began'[s] \in 0 .. now' /\ now' <= began'[s] + Slow
      BY <2>1
    <2>4. ASSUME NEW q \in Sub PROVE at'[q] # Never => at'[q] <= now'
      BY <2>1
    <2>5. ASSUME NEW q \in Sub, InFlight(q)' PROVE began'[q] \in 0 .. now' /\ now' <= began'[q] + Slow
      BY <2>1, <2>2, <2>3, <2>5
    <2> QED BY <2>4, <2>5
  <1>2. ASSUME NEW s \in Sub, Trim(s) PROVE Clock'
    BY <1>2 DEF Trim, Goto
  <1>3. ASSUME NEW s \in Sub, Count5(s) PROVE Clock'
    BY <1>3 DEF Count5, Put, Goto, redis
  <1>4. ASSUME NEW s \in Sub, Count1h(s) PROVE Clock'
    BY <1>4 DEF Count1h, Put, Goto, redis
  <1>5. ASSUME NEW s \in Sub, GetAverage(s) PROVE Clock'
    BY <1>5 DEF GetAverage, Score, Goto, redis
  <1>6. ASSUME NEW s \in Sub, LoseProfile(s) PROVE Clock'
    BY <1>6 DEF LoseProfile, Score, Goto, redis
  <1>7. ASSUME NEW s \in Sub, Add(s) PROVE Clock'
    BY <1>7 DEF Add, Goto
  <1>8. ASSUME NEW s \in Sub, Keep(s) PROVE Clock'
    BY <1>8 DEF Keep, Goto
  <1>9. ASSUME NEW s \in Sub, ReadAverage(s) PROVE Clock'
    BY <1>9 DEF ReadAverage, Goto, redis
  <1>10. ASSUME NEW s \in Sub, WriteAverage(s) PROVE Clock'
    BY <1>10 DEF WriteAverage, Finish, Goto
  <1>11. ASSUME NEW s \in Sub, LoseStore(s) PROVE Clock'
    BY <1>11 DEF LoseStore, Finish, Goto, redis
  <1>12. CASE Tick
    <2>1. now' = now + 1 /\ at' = at /\ began' = began /\ pc' = pc
      BY <1>12 DEF Tick
    <2>2. \A q \in Sub : InFlight(q) => now - began[q] < Slow
      BY <1>12 DEF Tick
    <2>3. ASSUME NEW q \in Sub, InFlight(q)'
          PROVE  began'[q] \in 0 .. now' /\ now' <= began'[q] + Slow
      BY <2>1, <2>2, <2>3
    <2>4. ASSUME NEW q \in Sub, at'[q] # Never PROVE at'[q] <= now'
      BY <2>1, <2>4
    <2> QED BY <2>3, <2>4
  <1>13. CASE ForgetAverage
    BY <1>13 DEF ForgetAverage
  <1>14. CASE UNCHANGED vars
    BY <1>14 DEF vars, InWindow
  <1> QED
    BY <1>1, <1>2, <1>3, <1>4, <1>5, <1>6, <1>7, <1>8, <1>9, <1>10, <1>11, <1>12, <1>13, <1>14 DEF Next, Handle

\* Each submission is entered once, between its counts and its end.
LEMMA EntriesStep == TypeOK /\ Entries /\ [Next]_vars => Entries'
  <1> SUFFICES ASSUME TypeOK /\ Entries, [Next]_vars PROVE Entries'
    OBVIOUS
  <1> USE VelocityAssumption DEF TypeOK, Entries, InFlight, Never
  <1>1. ASSUME NEW s \in Sub, NEW a \in Amount, Start(s, a) PROVE Entries'
    BY <1>1 DEF Start, Goto, redis
  <1>2. ASSUME NEW s \in Sub, Trim(s) PROVE Entries'
    BY <1>2 DEF Trim, Goto
  <1>3. ASSUME NEW s \in Sub, Count5(s) PROVE Entries'
    BY <1>3 DEF Count5, Put, Goto, redis
  <1>4. ASSUME NEW s \in Sub, Count1h(s) PROVE Entries'
    BY <1>4 DEF Count1h, Put, Goto, redis
  <1>5. ASSUME NEW s \in Sub, GetAverage(s) PROVE Entries'
    BY <1>5 DEF GetAverage, Score, Goto, redis
  <1>6. ASSUME NEW s \in Sub, LoseProfile(s) PROVE Entries'
    BY <1>6 DEF LoseProfile, Score, Goto, redis
  <1>7. ASSUME NEW s \in Sub, Add(s) PROVE Entries'
    BY <1>7, SMTT(60) DEF Add, Goto
  <1>8. ASSUME NEW s \in Sub, Keep(s) PROVE Entries'
    BY <1>8 DEF Keep, Goto
  <1>9. ASSUME NEW s \in Sub, ReadAverage(s) PROVE Entries'
    BY <1>9 DEF ReadAverage, Goto, redis
  <1>10. ASSUME NEW s \in Sub, WriteAverage(s) PROVE Entries'
    BY <1>10 DEF WriteAverage, Finish, Goto
  <1>11. ASSUME NEW s \in Sub, LoseStore(s) PROVE Entries'
    BY <1>11 DEF LoseStore, Finish, Goto, redis
  <1>12. CASE Tick
    BY <1>12 DEF Tick
  <1>13. CASE ForgetAverage
    BY <1>13 DEF ForgetAverage
  <1>14. CASE UNCHANGED vars
    BY <1>14 DEF vars, InWindow
  <1> QED
    BY <1>1, <1>2, <1>3, <1>4, <1>5, <1>6, <1>7, <1>8, <1>9, <1>10, <1>11, <1>12, <1>13, <1>14 DEF Next, Handle

\* Trimming and expiry take only entries whose hour is over.
LEMMA KeptStep == TypeOK /\ Clock /\ Entries /\ Kept /\ [Next]_vars => Kept'
  <1> SUFFICES ASSUME TypeOK /\ Clock /\ Entries /\ Kept, [Next]_vars PROVE Kept'
    OBVIOUS
  <1> USE VelocityAssumption DEF TypeOK, Clock, Entries, Kept, InFlight, Never
  <1>1. ASSUME NEW s \in Sub, NEW a \in Amount, Start(s, a) PROVE Kept'
    BY <1>1 DEF Start, Goto, redis
  <1>2. ASSUME NEW s \in Sub, Trim(s) PROVE Kept'
    <2>1. covered' = covered /\ at' = at /\ now' = now
      BY <1>2 DEF Trim
    <2>2. ASSUME NEW q \in covered, q \in hist' PROVE dies' # Never /\ at'[q] + Hour <= dies'
      BY <1>2, <2>1, <2>2 DEF Trim
    <2>3. ASSUME NEW q \in covered, q \in hist, q \notin hist' PROVE at'[q] + Hour <= now'
      <3>1. began[s] \in Nat /\ began[s] <= now
        BY <1>2 DEF Trim
      <3>2. q \in Sub /\ at[q] \in Int
        BY <2>3
      <3>3. ~(at[q] > began[s] - Hour)
        BY <1>2, <2>3 DEF Trim
      <3>4. Hour \in Nat /\ now \in Nat
        OBVIOUS
      <3>5. PICK x \in Int, b \in Int, n \in Int, h \in Int :
              x = at[q] /\ b = began[s] /\ n = now /\ h = Hour
        BY <3>1, <3>2, <3>4
      <3> HIDE VelocityAssumption DEF TypeOK, Clock, Entries, Kept, InFlight, Never
      <3>6. ~(x > b - h) /\ b <= n
        BY <3>1, <3>3, <3>5
      <3>7. x + h <= n
        BY <3>6
      <3> QED BY <2>1, <3>5, <3>7
    <2>4. ASSUME NEW q \in covered, q \notin hist PROVE at'[q] + Hour <= now'
      BY <2>1, <2>4
    <2> QED BY <2>1, <2>2, <2>3, <2>4
  <1>3. ASSUME NEW s \in Sub, Count5(s) PROVE Kept'
    BY <1>3 DEF Count5, Put, Goto, redis
  <1>4. ASSUME NEW s \in Sub, Count1h(s) PROVE Kept'
    BY <1>4 DEF Count1h, Put, Goto, redis
  <1>5. ASSUME NEW s \in Sub, GetAverage(s) PROVE Kept'
    BY <1>5 DEF GetAverage, Score, Goto, redis
  <1>6. ASSUME NEW s \in Sub, LoseProfile(s) PROVE Kept'
    BY <1>6 DEF LoseProfile, Score, Goto, redis
  <1>7. ASSUME NEW s \in Sub, Add(s) PROVE Kept'
    BY <1>7 DEF Add, Goto
  <1>8. ASSUME NEW s \in Sub, Keep(s) PROVE Kept'
    <2>1. /\ covered' = covered \cup hist /\ hist' = hist /\ at' = at /\ now' = now
          /\ dies' = IF hist = {} THEN dies ELSE now + Hour
      BY <1>8 DEF Keep
    <2>2. ASSUME NEW q \in hist PROVE dies' # Never /\ at'[q] + Hour <= dies'
      <3>1. dies' = now + Hour /\ now \in Nat
        BY <2>1, <2>2
      <3>2. at[q] \in Int /\ at[q] <= now
        BY <2>2
      <3>3. Hour \in Nat
        OBVIOUS
      <3>4. at'[q] = at[q]
        BY <2>1
      <3> QED BY <3>1, <3>2, <3>3, <3>4
    <2>3. ASSUME NEW q \in covered, q \notin hist PROVE at'[q] + Hour <= now'
      BY <2>1, <2>3
    <2> QED BY <2>1, <2>2, <2>3
  <1>9. ASSUME NEW s \in Sub, ReadAverage(s) PROVE Kept'
    BY <1>9 DEF ReadAverage, Goto, redis
  <1>10. ASSUME NEW s \in Sub, WriteAverage(s) PROVE Kept'
    BY <1>10 DEF WriteAverage, Finish, Goto
  <1>11. ASSUME NEW s \in Sub, LoseStore(s) PROVE Kept'
    BY <1>11 DEF LoseStore, Finish, Goto, redis
  <1>12. CASE Tick
    BY <1>12, SMTT(60) DEF Tick
  <1>13. CASE ForgetAverage
    BY <1>13 DEF ForgetAverage
  <1>14. CASE UNCHANGED vars
    BY <1>14 DEF vars, InWindow
  <1> QED
    BY <1>1, <1>2, <1>3, <1>4, <1>5, <1>6, <1>7, <1>8, <1>9, <1>10, <1>11, <1>12, <1>13, <1>14 DEF Next, Handle

\* A handler blends its amount into an average that cannot have it, and ends.
LEMMA AveragesStep == TypeOK /\ Entries /\ Averages /\ [Next]_vars => Averages'
  <1> SUFFICES ASSUME TypeOK, Entries, Averages, [Next]_vars PROVE Averages'
    OBVIOUS
  <1> USE DEF Goto, Finish
  <1>1. \A s \in Ended : s \in Ended'
    <2> SUFFICES ASSUME NEW q \in Sub, pc[q] = "done" PROVE pc'[q] = "done" /\ at'[q] = at[q]
      BY DEF Ended
    <2>0. pc \in [Sub -> {"idle", "begun", "trimmed", "counted5", "counted1h", "scored", "added", "kept",
                          "read", "done"}] /\ at \in [Sub -> {Never} \cup 0 .. MaxTime]
      BY DEF TypeOK
    <2>1. ASSUME NEW s \in Sub, NEW a \in Amount, Start(s, a) PROVE pc'[q] = "done" /\ at'[q] = at[q]
      BY <2>0, <2>1 DEF Start, redis
    <2>2. ASSUME NEW s \in Sub, Trim(s) PROVE pc'[q] = "done" /\ at'[q] = at[q]
      BY <2>0, <2>2 DEF Trim
    <2>3. ASSUME NEW s \in Sub, Count5(s) PROVE pc'[q] = "done" /\ at'[q] = at[q]
      BY <2>0, <2>3 DEF Count5, redis
    <2>4. ASSUME NEW s \in Sub, Count1h(s) PROVE pc'[q] = "done" /\ at'[q] = at[q]
      BY <2>0, <2>4 DEF Count1h, redis
    <2>5. ASSUME NEW s \in Sub, GetAverage(s) PROVE pc'[q] = "done" /\ at'[q] = at[q]
      BY <2>0, <2>5 DEF GetAverage, Score, redis
    <2>6. ASSUME NEW s \in Sub, LoseProfile(s) PROVE pc'[q] = "done" /\ at'[q] = at[q]
      BY <2>0, <2>6 DEF LoseProfile, Score, redis
    <2>7. ASSUME NEW s \in Sub, Add(s) PROVE pc'[q] = "done" /\ at'[q] = at[q]
      BY <2>0, <2>7 DEF Add
    <2>8. ASSUME NEW s \in Sub, Keep(s) PROVE pc'[q] = "done" /\ at'[q] = at[q]
      BY <2>0, <2>8 DEF Keep
    <2>9. ASSUME NEW s \in Sub, ReadAverage(s) PROVE pc'[q] = "done" /\ at'[q] = at[q]
      BY <2>0, <2>9 DEF ReadAverage, redis
    <2>10. ASSUME NEW s \in Sub, WriteAverage(s) PROVE pc'[q] = "done" /\ at'[q] = at[q]
      BY <2>0, <2>10 DEF WriteAverage
    <2>11. ASSUME NEW s \in Sub, LoseStore(s) PROVE pc'[q] = "done" /\ at'[q] = at[q]
      BY <2>0, <2>11 DEF LoseStore, redis
    <2>12. CASE Tick \/ ForgetAverage \/ UNCHANGED vars
      BY <2>12 DEF Tick, ForgetAverage, vars
    <2> QED BY <2>1, <2>2, <2>3, <2>4, <2>5, <2>6, <2>7, <2>8, <2>9, <2>10, <2>11, <2>12 DEF Next, Handle
  <1>2. \A seq : OnceEach(seq, Ended) => OnceEach(seq, Ended')
    BY <1>1 DEF OnceEach
  <1>3. OnceEach(<<>>, Ended')
    BY DEF OnceEach
  <1>4. CASE UNCHANGED <<avg, old>>
    BY <1>2, <1>4 DEF Averages
  <1>5. CASE ForgetAverage
    BY <1>2, <1>3, <1>5 DEF Averages, ForgetAverage
  <1>6. ASSUME NEW s \in Sub, ReadAverage(s) PROVE Averages'
    <2>1. avg' = avg /\ \A q \in Sub : old'[q] \in {old[q], avg}
      BY <1>6 DEF ReadAverage, TypeOK, redis
    <2> QED BY <1>2, <2>1 DEF Averages
  <1>7. ASSUME NEW s \in Sub, LoseStore(s) PROVE Averages'
    <2>1. avg' = avg /\ \A q \in Sub : old'[q] \in {old[q], <<>>}
      BY <1>7 DEF LoseStore, TypeOK, redis
    <2> QED BY <1>2, <1>3, <2>1 DEF Averages
  <1>8. ASSUME NEW s \in Sub, WriteAverage(s) PROVE Averages'
    <2>1. \A q \in Sub : old'[q] \in {old[q], <<>>}
      BY <1>8 DEF WriteAverage, TypeOK
    <2>2. avg' = Append(old[s], s) /\ old[s] \in Seq(Sub)
      BY <1>8 DEF WriteAverage, TypeOK
    <2>3. s \notin Ended /\ s \in Ended'
      BY <1>8 DEF WriteAverage, TypeOK, Entries, Ended
    <2>4. OnceEach(old[s], Ended) /\ OnceEach(old[s], Ended')
      BY <1>2 DEF Averages
    <2>5. OnceEach(Append(old[s], s), Ended')
      BY <2>2, <2>3, <2>4 DEF OnceEach
    <2> QED BY <1>2, <1>3, <2>1, <2>2, <2>5 DEF Averages
  <1> QED
    BY <1>4, <1>5, <1>6, <1>7, <1>8
    DEF Next, Handle, vars, redis, Tick, Start, Trim, Count5, Count1h, GetAverage, LoseProfile, Score, Add, Keep

\* The counts of one handler are of other submissions.
Real(s) ==
    /\ prof[s].tx_5m <= Cardinality(InWindow(s, Five) \ {s})
    /\ prof[s].tx_1h <= Cardinality(InWindow(s, Hour) \ {s})

\* A window only gains submissions while a handler is in flight.
LEMMA CountedStep == TypeOK /\ Entries /\ CountedIsReal /\ [Next]_vars => CountedIsReal'
  <1> SUFFICES ASSUME TypeOK, Entries, CountedIsReal, [Next]_vars, NEW s \in Sub, InFlight(s)'
               PROVE  Real(s)'
    BY DEF CountedIsReal, Real
  <1> USE DEF Goto, Finish
  <1>0. TypeOK'
    BY TypeStep
  <1>1. \A q \in Sub : at[q] # Never => at'[q] = at[q]
    BY DEF Next, Handle, vars, redis, Tick, ForgetAverage, Start, Trim, Count5, Count1h, GetAverage,
           LoseProfile, Score, Add, Keep, ReadAverage, WriteAverage, LoseStore, TypeOK, Entries
  <1>2. ASSUME began'[s] = began[s]
        PROVE  /\ Cardinality(InWindow(s, Five)' \ {s}) \in Nat
               /\ Cardinality(InWindow(s, Five) \ {s}) \in Nat
               /\ Cardinality(InWindow(s, Five) \ {s}) <= Cardinality(InWindow(s, Five)' \ {s})
               /\ Cardinality(InWindow(s, Hour)' \ {s}) \in Nat
               /\ Cardinality(InWindow(s, Hour) \ {s}) \in Nat
               /\ Cardinality(InWindow(s, Hour) \ {s}) <= Cardinality(InWindow(s, Hour)' \ {s})
    <2>1. /\ InWindow(s, Five) \subseteq InWindow(s, Five)'
          /\ InWindow(s, Hour) \subseteq InWindow(s, Hour)'
      BY <1>1, <1>2 DEF InWindow
    <2>2. /\ InWindow(s, Five)' \ {s} \in SUBSET Sub
          /\ InWindow(s, Hour)' \ {s} \in SUBSET Sub
      BY DEF InWindow
    <2>3. /\ InWindow(s, Five) \ {s} \in SUBSET (InWindow(s, Five)' \ {s})
          /\ InWindow(s, Hour) \ {s} \in SUBSET (InWindow(s, Hour)' \ {s})
      BY <2>1
    <2> QED BY <2>2, <2>3, Counting
  <1>3. CASE prof'[s] = NoProfile
    <2>1. InWindow(s, Five)' \ {s} \in SUBSET Sub /\ InWindow(s, Hour)' \ {s} \in SUBSET Sub
      BY DEF InWindow
    <2>2. Cardinality(InWindow(s, Five)' \ {s}) \in Nat /\ Cardinality(InWindow(s, Hour)' \ {s}) \in Nat
      BY <2>1, Counting
    <2> QED BY <1>3, <2>2 DEF Real, NoProfile
  <1>4. ASSUME InFlight(s), prof'[s] = prof[s], began'[s] = began[s] PROVE Real(s)'
    <2>1. Real(s)
      BY <1>4 DEF CountedIsReal, Real
    <2>2. prof[s].tx_5m \in Nat /\ prof[s].tx_1h \in Nat
      BY DEF TypeOK, Profile
    <2>3. prof[s].tx_5m <= Cardinality(InWindow(s, Five)' \ {s})
      BY <1>2, <1>4, <2>1, <2>2 DEF Real
    <2>4. prof[s].tx_1h <= Cardinality(InWindow(s, Hour)' \ {s})
      BY <1>2, <1>4, <2>1, <2>2 DEF Real
    <2> QED BY <1>4, <2>3, <2>4 DEF Real
  <1>5. ASSUME NEW width \in {Five, Hour}, pc[s] \in {"trimmed", "counted5"}
        PROVE  /\ Cardinality(hist \cap InWindow(s, width)) <= Cardinality(InWindow(s, width) \ {s})
               /\ Cardinality(hist \cap InWindow(s, width)) \in Nat
    <2>1. s \notin hist
      BY <1>5 DEF Entries
    <2>2. hist \cap InWindow(s, width) \in SUBSET (InWindow(s, width) \ {s})
      BY <2>1
    <2>3. InWindow(s, width) \ {s} \in SUBSET Sub
      BY DEF InWindow
    <2> QED BY <2>2, <2>3, Counting
  <1>6. CASE Count5(s)
    <2>1. /\ began' = began /\ at' = at /\ pc[s] = "trimmed"
          /\ prof'[s].tx_5m = Cardinality(hist \cap InWindow(s, Five))
          /\ prof'[s].tx_1h = prof[s].tx_1h
      BY <1>6 DEF Count5, Put, TypeOK, Profile, redis
    <2>2. Real(s)
      BY <2>1 DEF CountedIsReal, Real, InFlight
    <2>3. InWindow(s, Five)' = InWindow(s, Five) /\ InWindow(s, Hour)' = InWindow(s, Hour)
      BY <2>1 DEF InWindow
    <2> QED BY <1>5, <2>1, <2>2, <2>3 DEF Real
  <1>7. CASE Count1h(s)
    <2>1. /\ began' = began /\ at' = at /\ pc[s] = "counted5"
          /\ prof'[s].tx_1h = Cardinality(hist \cap InWindow(s, Hour))
          /\ prof'[s].tx_5m = prof[s].tx_5m
      BY <1>7 DEF Count1h, Put, TypeOK, Profile, redis
    <2>2. Real(s)
      BY <2>1 DEF CountedIsReal, Real, InFlight
    <2>3. InWindow(s, Five)' = InWindow(s, Five) /\ InWindow(s, Hour)' = InWindow(s, Hour)
      BY <2>1 DEF InWindow
    <2> QED BY <1>5, <2>1, <2>2, <2>3 DEF Real
  <1>8. \/ prof'[s] = NoProfile
        \/ InFlight(s) /\ prof'[s] = prof[s] /\ began'[s] = began[s]
        \/ Count5(s) \/ Count1h(s)
    <2>1. ASSUME NEW q \in Sub, Count5(q) \/ Count1h(q), q # s
          PROVE  InFlight(s) /\ prof'[s] = prof[s] /\ began'[s] = began[s]
      BY <2>1 DEF Count5, Count1h, Put, TypeOK, InFlight
    <2>2. ASSUME NEW q \in Sub, NEW a \in Amount, Start(q, a)
          PROVE  prof'[s] = NoProfile \/ (InFlight(s) /\ prof'[s] = prof[s] /\ began'[s] = began[s])
      BY <2>2 DEF Start, TypeOK, Entries, InFlight
    <2>3. ASSUME NEW q \in Sub, GetAverage(q) \/ LoseProfile(q)
          PROVE  prof'[s] = NoProfile \/ (InFlight(s) /\ prof'[s] = prof[s] /\ began'[s] = began[s])
      BY <2>3 DEF GetAverage, LoseProfile, Score, TypeOK, InFlight
    <2>4. ASSUME NEW q \in Sub, Trim(q) \/ Add(q) \/ Keep(q) \/ ReadAverage(q)
          PROVE  InFlight(s) /\ prof'[s] = prof[s] /\ began'[s] = began[s]
      BY <2>4 DEF Trim, Add, Keep, ReadAverage, TypeOK, InFlight
    <2>5. ASSUME NEW q \in Sub, WriteAverage(q) \/ LoseStore(q)
          PROVE  InFlight(s) /\ prof'[s] = prof[s] /\ began'[s] = began[s]
      BY <2>5 DEF WriteAverage, LoseStore, TypeOK, InFlight
    <2>6. CASE Tick \/ ForgetAverage \/ UNCHANGED vars
      BY <2>6 DEF Tick, ForgetAverage, vars, InFlight
    <2> QED BY <2>1, <2>2, <2>3, <2>4, <2>5, <2>6 DEF Next, Handle
  <1> QED BY <1>3, <1>4, <1>6, <1>7, <1>8

-----------------------------------------------------------------------------
\* A set of numbers with a member has a smallest one.
LEMMA SmallestNat ==
  ASSUME NEW T \in SUBSET Nat, T # {}
  PROVE  \E n \in T : \A m \in T : n <= m
  <1>1. PICK n \in T : \A m \in T : <<m, n>> \notin OpToRel(<, Nat)
    BY WFMin, NatLessThanWellFounded
  <1>2. \A m \in T : ~(m < n)
    BY <1>1 DEF OpToRel
  <1> QED BY <1>2

\* How the average of some submissions builds up.
IsMeans(mean, blended, n) ==
    mean = [i \in 0 .. n |->
               IF i = 0 THEN [num |-> 0, den |-> 1] ELSE Blend(mean[i - 1], amt[blended[i]])]

\* The recursion has a solution at each length: there is no shortest one without.
LEMMA MeansExist ==
  ASSUME NEW blended, NEW n \in Nat
  PROVE  \E mean : IsMeans(mean, blended, n)
  <1> DEFINE T == {k \in Nat : ~ \E mean : IsMeans(mean, blended, k)}
  <1> SUFFICES ASSUME T # {} PROVE FALSE
    OBVIOUS
  <1>1. PICK k \in T : \A m \in T : k <= m
    BY SmallestNat
  <1>2. CASE k = 0
    <2>1. IsMeans([i \in 0 .. 0 |-> [num |-> 0, den |-> 1]], blended, 0)
      BY DEF IsMeans
    <2> QED BY <1>2, <2>1
  <1>3. CASE k # 0
    <2>1. k - 1 \in Nat /\ k - 1 \notin T
      BY <1>1, <1>3
    <2>2. PICK mean : IsMeans(mean, blended, k - 1)
      BY <2>1
    <2> DEFINE more == [i \in 0 .. k |-> IF i = k THEN Blend(mean[k - 1], amt[blended[k]]) ELSE mean[i]]
    <2>3. IsMeans(more, blended, k)
      <3>1. \A i \in 0 .. k - 1 : more[i] = mean[i]
        OBVIOUS
      <3>2. ASSUME NEW i \in 0 .. k
            PROVE  more[i] = IF i = 0 THEN [num |-> 0, den |-> 1] ELSE Blend(more[i - 1], amt[blended[i]])
        <4>1. CASE i = k
          <5>1. i # 0 /\ more[i] = Blend(mean[k - 1], amt[blended[k]]) /\ more[k - 1] = mean[k - 1]
            BY <1>3, <2>1, <4>1, <3>1
          <5> QED BY <4>1, <5>1
        <4>2. CASE i # k /\ i # 0
          <5>1. i \in 0 .. k - 1 /\ i - 1 \in 0 .. k - 1
            BY <4>2
          <5>2. mean[i] = Blend(mean[i - 1], amt[blended[i]])
            BY <2>2, <4>2, <5>1 DEF IsMeans
          <5> HIDE DEF more
          <5> QED BY <3>1, <4>2, <5>1, <5>2
        <4>3. CASE i = 0
          <5>1. 0 \in 0 .. k - 1
            BY <2>1
          <5>2. mean[0] = [num |-> 0, den |-> 1]
            BY <2>2, <5>1 DEF IsMeans
          <5> HIDE DEF more
          <5> QED BY <3>1, <4>3, <5>1, <5>2
        <4> QED BY <4>1, <4>2, <4>3
      <3> QED BY <3>2 DEF IsMeans
    <2> QED BY <2>3
  <1> QED BY <1>2, <1>3

\* The average is the last of these.
LEMMA MeanIsLast ==
  ASSUME NEW blended, Len(blended) \in Nat
  PROVE  \E mean : IsMeans(mean, blended, Len(blended)) /\ Mean(blended) = mean[Len(blended)]
  <1> DEFINE chosen == CHOOSE mean : IsMeans(mean, blended, Len(blended))
  <1>1. IsMeans(chosen, blended, Len(blended))
    BY MeansExist
  <1>2. Mean(blended) = chosen[Len(blended)]
    BY DEF Mean, IsMeans
  <1> QED BY <1>1, <1>2

\* One blending does not fall below both what it blends.
LEMMA BlendAbove ==
  ASSUME NEW mean, mean.num \in Nat, mean.den \in Nat \ {0}, NEW a \in Nat \ {0}
  PROVE  LET b == Blend(mean, a) IN
         /\ b.num \in Nat \ {0} /\ b.den \in Nat \ {0}
         /\ \/ a * b.den <= b.num
            \/ mean.num # 0 /\ \A low \in Nat : low * mean.den <= mean.num => low * b.den <= b.num
  <1> DEFINE b == Blend(mean, a)
  <1>1. CASE mean.num = 0
    <2>1. b = [num |-> a, den |-> 1]
      BY <1>1 DEF Blend
    <2>2. b.num = a /\ b.den = 1
      BY <2>1
    <2> HIDE DEF b
    <2>3. a * b.den <= b.num
      BY <2>2
    <2>4. b.num \in Nat \ {0} /\ b.den \in Nat \ {0}
      BY <2>2
    <2> QED BY <2>3, <2>4 DEF b
  <1>2. CASE mean.num # 0
    <2>1. PICK n \in Nat, d \in Nat : n = mean.num /\ d = mean.den /\ n > 0 /\ d > 0
      BY <1>2
    <2>2. PICK x \in Nat : x = a * d
      BY <2>1
    <2>3. b = [num |-> 9 * n + x, den |-> 10 * d]
      BY <1>2, <2>1, <2>2 DEF Blend
    <2>4. b.num = 9 * n + x /\ b.den = 10 * d
      BY <2>3
    <2> HIDE DEF b
    <2>5. b.num \in Nat \ {0} /\ b.den \in Nat \ {0}
      BY <2>1, <2>2, <2>4
    <2>6. ASSUME NEW low \in Nat PROVE low * b.den = 10 * (low * d)
      BY <2>1, <2>4
    <2>7. CASE x <= n
      <3>1. a * b.den = 10 * x
        BY <2>2, <2>6
      <3> QED BY <2>1, <2>2, <2>4, <2>5, <2>7, <3>1 DEF b
    <2>8. CASE n < x
      <3>1. ASSUME NEW low \in Nat, low * mean.den <= mean.num PROVE low * b.den <= b.num
        <4>1. PICK y \in Nat : y = low * d
          BY <2>1
        <4>2. low * b.den = 10 * y /\ y <= n
          BY <2>1, <2>6, <3>1, <4>1
        <4> QED BY <2>1, <2>2, <2>4, <2>8, <4>1, <4>2
      <3> QED BY <1>2, <2>5, <3>1 DEF b
    <2> QED BY <2>1, <2>2, <2>7, <2>8
  <1> QED BY <1>1, <1>2

\* An average is of no amount, or not below each of its amounts.
LEMMA MeanAbove ==
  ASSUME NEW blended \in Seq(Sub), \A i \in DOMAIN blended : amt[blended[i]] \in Nat \ {0}
  PROVE  /\ Mean(blended).num \in Nat /\ Mean(blended).den \in Nat \ {0}
         /\ \/ Mean(blended).num = 0
            \/ \E i \in DOMAIN blended : amt[blended[i]] * Mean(blended).den <= Mean(blended).num
  <1>1. Len(blended) \in Nat /\ DOMAIN blended = 1 .. Len(blended)
    OBVIOUS
  <1>2. PICK mean : IsMeans(mean, blended, Len(blended)) /\ Mean(blended) = mean[Len(blended)]
    BY <1>1, MeanIsLast
  <1> DEFINE Good(k) ==
               /\ mean[k].num \in Nat /\ mean[k].den \in Nat \ {0}
               /\ \/ mean[k].num = 0
                  \/ \E i \in 1 .. k : amt[blended[i]] * mean[k].den <= mean[k].num
             T == {k \in 0 .. Len(blended) : ~Good(k)}
  <1>3. T = {}
    <2> SUFFICES ASSUME T # {} PROVE FALSE
      OBVIOUS
    <2>1. T \in SUBSET Nat
      BY <1>1
    <2> HIDE DEF T
    <2>2. PICK k \in T : \A m \in T : k <= m
      BY <2>1, SmallestNat
    <2>3. k \in 0 .. Len(blended) /\ ~Good(k)
      BY DEF T
    <2>4. k # 0
      <3>1. ASSUME k = 0 PROVE Good(k)
        <4>1. mean[0] = [num |-> 0, den |-> 1]
          BY <1>1, <1>2 DEF IsMeans
        <4> QED BY <3>1, <4>1
      <3> QED BY <2>3, <3>1
    <2>5. k - 1 \in 0 .. Len(blended) /\ k - 1 \notin T
      BY <1>1, <2>1, <2>2, <2>3, <2>4
    <2>6. Good(k - 1)
      BY <2>5 DEF T
    <2> DEFINE a == amt[blended[k]]
    <2>7. mean[k] = Blend(mean[k - 1], a)
      BY <1>1, <1>2, <2>3, <2>4 DEF IsMeans
    <2>8. k \in 1 .. Len(blended) /\ a \in Nat \ {0}
      BY <1>1, <2>3, <2>4
    <2> HIDE DEF a
    <2>9. /\ mean[k].num \in Nat \ {0} /\ mean[k].den \in Nat \ {0}
          /\ \/ a * mean[k].den <= mean[k].num
             \/ /\ mean[k - 1].num # 0
                /\ \A low \in Nat :
                      low * mean[k - 1].den <= mean[k - 1].num => low * mean[k].den <= mean[k].num
      BY <2>6, <2>7, <2>8, BlendAbove
    <2>10. CASE a * mean[k].den <= mean[k].num
      BY <2>3, <2>8, <2>9, <2>10 DEF a
    <2>11. CASE /\ mean[k - 1].num # 0
                /\ \A low \in Nat :
                      low * mean[k - 1].den <= mean[k - 1].num => low * mean[k].den <= mean[k].num
      <3>1. PICK i \in 1 .. k - 1 : amt[blended[i]] * mean[k - 1].den <= mean[k - 1].num
        BY <2>6, <2>11
      <3>2. i \in 1 .. k /\ amt[blended[i]] \in Nat
        BY <1>1, <2>8, <3>1
      <3>3. amt[blended[i]] * mean[k].den <= mean[k].num
        BY <2>11, <3>1, <3>2
      <3> QED BY <2>3, <2>9, <3>2, <3>3
    <2> QED BY <2>9, <2>10, <2>11
  <1>4. Good(Len(blended))
    BY <1>1, <1>3
  <1> QED BY <1>1, <1>2, <1>4

\* What exceeds three times such an average exceeds three times one of its amounts.
LEMMA AboveMean ==
  ASSUME NEW n \in Nat, NEW d \in Nat \ {0}, NEW a \in Nat, NEW low \in Nat,
         low * d <= n, a * d > 3 * n
  PROVE  a > 3 * low
  <1> SUFFICES ASSUME a <= 3 * low PROVE FALSE
    OBVIOUS
  <1>1. a * d <= (3 * low) * d
    <2>1. \A x, y \in Nat : x <= y => x * d <= y * d
      OBVIOUS
    <2> QED BY <2>1
  <1>2. (3 * low) * d = 3 * (low * d)
    OBVIOUS
  <1>3. PICK x \in Nat, y \in Nat : x = low * d /\ y = a * d
    OBVIOUS
  <1> QED BY <1>1, <1>2, <1>3

-----------------------------------------------------------------------------
\* Amounts, rules and profiles are set once, in this order.
LEMMA AmountsStep == TypeOK /\ Amounts /\ [Next]_vars => Amounts'
  <1> SUFFICES ASSUME TypeOK, Amounts, [Next]_vars PROVE Amounts'
    OBVIOUS
  <1> USE DEF TypeOK, Amounts, Goto, Finish
  <1>1. ASSUME NEW s \in Sub, NEW a \in Amount, Start(s, a) PROVE Amounts'
    BY <1>1 DEF Start
  <1>2. ASSUME NEW s \in Sub, Trim(s) PROVE Amounts'
    BY <1>2 DEF Trim
  <1>3. ASSUME NEW s \in Sub, NEW field \in {"tx_5m", "tx_1h"}, NEW n, Put(s, field, n)
        PROVE  \A q \in Sub : prof'[q].avg_amount = <<>>
    <2>1. \A q \in Sub : prof[q] \in [tx_5m : Nat, tx_1h : Nat, avg_amount : Seq(Sub)]
      BY DEF Profile
    <2> QED BY <1>3, <2>1 DEF Put
  <1>4. ASSUME NEW s \in Sub, Count5(s) PROVE Amounts'
    BY <1>3, <1>4 DEF Count5
  <1>5. ASSUME NEW s \in Sub, Count1h(s) PROVE Amounts'
    BY <1>3, <1>5 DEF Count1h
  <1>6. ASSUME NEW s \in Sub, NEW profile, Score(s, profile), pc[s] # "idle" PROVE Amounts'
    BY <1>6 DEF Score, NoProfile
  <1>7. ASSUME NEW s \in Sub, Add(s) \/ Keep(s) \/ ReadAverage(s) PROVE Amounts'
    BY <1>7 DEF Add, Keep, ReadAverage
  <1>8. ASSUME NEW s \in Sub, WriteAverage(s) \/ LoseStore(s) PROVE Amounts'
    BY <1>8 DEF WriteAverage, LoseStore
  <1>9. CASE Tick \/ ForgetAverage \/ UNCHANGED vars
    BY <1>9 DEF Tick, ForgetAverage, vars
  <1>10. ASSUME NEW s \in Sub, GetAverage(s) PROVE Amounts'
    BY <1>6, <1>10 DEF GetAverage
  <1>11. ASSUME NEW s \in Sub, LoseProfile(s) PROVE Amounts'
    BY <1>6, <1>11 DEF LoseProfile
  <1> QED
    BY <1>1, <1>2, <1>4, <1>5, <1>7, <1>8, <1>9, <1>10, <1>11 DEF Next, Handle

\* VEL_003 fires for an amount above three times one of the average's.
LEMMA UnusualTrigger ==
  ASSUME TypeOK, Amounts, NEW profile, NEW seq \in Seq(Sub), profile.avg_amount = seq,
         OnceEach(seq, Ended), NEW a \in Nat, "VEL_003" \in Triggered(profile, a)
  PROVE  \E q \in Ended : a > 3 * amt[q]
  <1>1. \A i \in DOMAIN seq : seq[i] \in Ended /\ amt[seq[i]] \in Nat \ {0}
    BY VelocityAssumption DEF OnceEach, Ended, Amounts
  <1>2. PICK n \in Nat, d \in Nat \ {0} : n = Mean(seq).num /\ d = Mean(seq).den
    BY <1>1, MeanAbove
  <1>3. n > 0 /\ a * d > 3 * n
    BY <1>2 DEF Triggered
  <1>4. PICK i \in DOMAIN seq : amt[seq[i]] * d <= n
    BY <1>1, <1>2, <1>3, MeanAbove
  <1>5. a > 3 * amt[seq[i]]
    BY <1>1, <1>2, <1>3, <1>4, AboveMean
  <1> QED BY <1>1, <1>5

\* The amount it exceeds belongs to another submission, whose handler has ended.
LEMMA UnusualStep ==
  TypeOK /\ Entries /\ Averages /\ Amounts /\ UnusualIsUnusual /\ [Next]_vars => UnusualIsUnusual'
  <1> SUFFICES ASSUME TypeOK, Entries, Averages, Amounts, UnusualIsUnusual, [Next]_vars,
                      NEW s \in Sub, "VEL_003" \in fired'[s]
               PROVE  \E q \in Sub \ {s} : at'[q] # Never /\ amt'[s] > 3 * amt'[q]
    BY DEF UnusualIsUnusual
  <1>0. \A q \in Sub : amt[q] \in Nat
    <2>1. \A a \in Amount : a \in Nat
      BY VelocityAssumption
    <2>2. ASSUME NEW q \in Sub PROVE amt[q] \in Amount \cup {0}
      BY DEF TypeOK
    <2> QED BY <2>1, <2>2
  <1> USE DEF Goto, Finish
  <1>1. \A q \in Sub : at[q] # Never => at'[q] = at[q] /\ pc[q] # "idle"
    BY DEF Next, Handle, vars, redis, Tick, ForgetAverage, Start, Trim, Count5, Count1h, GetAverage,
           LoseProfile, Score, Add, Keep, ReadAverage, WriteAverage, LoseStore, TypeOK, Entries
  <1>2. \A q \in Sub : pc[q] # "idle" => amt'[q] = amt[q]
    BY DEF Next, Handle, vars, Tick, ForgetAverage, Start, Trim, Count5, Count1h, GetAverage,
           LoseProfile, Score, Add, Keep, ReadAverage, WriteAverage, LoseStore, TypeOK
  <1>3. CASE fired'[s] = fired[s]
    <2>1. PICK q \in Sub \ {s} : at[q] # Never /\ amt[s] > 3 * amt[q]
      BY <1>3 DEF UnusualIsUnusual
    <2>2. pc[s] # "idle"
      BY <1>3 DEF Amounts
    <2> QED BY <1>1, <1>2, <2>1, <2>2
  <1>4. ASSUME NEW profile, Score(s, profile), pc[s] \in {"begun", "trimmed", "counted5", "counted1h"},
               NEW seq \in Seq(Sub), profile.avg_amount = seq, OnceEach(seq, Ended)
        PROVE  \E q \in Sub \ {s} : at'[q] # Never /\ amt'[s] > 3 * amt'[q]
    <2>1. "VEL_003" \in Triggered(profile, amt[s])
      BY <1>4 DEF Score, TypeOK
    <2>2. amt[s] \in Nat
      BY <1>0
    <2>3. PICK q \in Ended : amt[s] > 3 * amt[q]
      BY <1>4, <2>1, <2>2, UnusualTrigger
    <2>4. q \in Sub \ {s} /\ at[q] # Never
      BY <1>4 DEF Ended
    <2> QED BY <1>1, <1>2, <1>4, <2>3, <2>4
  <1>5. CASE GetAverage(s)
    <2> DEFINE profile == [prof[s] EXCEPT !.avg_amount = avg]
    <2>1. profile.avg_amount = avg
      BY DEF TypeOK, Profile
    <2>2. Score(s, profile) /\ pc[s] = "counted1h"
      BY <1>5 DEF GetAverage
    <2> HIDE DEF profile
    <2> QED BY <1>4, <2>1, <2>2 DEF Averages, TypeOK
  <1>6. CASE LoseProfile(s)
    <2>1. <<>> \in Seq(Sub) /\ OnceEach(<<>>, Ended)
      BY DEF OnceEach
    <2> QED BY <1>4, <1>6, <2>1 DEF LoseProfile, Amounts
  <1>7. fired'[s] = fired[s] \/ GetAverage(s) \/ LoseProfile(s)
    <2>1. ASSUME NEW q \in Sub, GetAverage(q) \/ LoseProfile(q), q # s PROVE fired'[s] = fired[s]
      BY <2>1 DEF GetAverage, LoseProfile, Score, TypeOK
    <2> QED
      BY <2>1
      DEF Next, Handle, vars, Tick, ForgetAverage, Start, Trim, Count5, Count1h, Add, Keep,
          ReadAverage, WriteAverage, LoseStore
  <1> QED BY <1>3, <1>5, <1>6, <1>7

\* Each part of the invariant is kept by every step.
LEMMA StepInv == IInv /\ [Next]_vars => IInv'
  BY TypeStep, ClockStep, EntriesStep, KeptStep, AveragesStep, AmountsStep, CountedStep,
     UnusualStep
  DEF IInv

\* The invariant holds throughout.
THEOREM Invariance == Spec => []IInv
  BY InitInv, StepInv, PTL DEF Spec

-----------------------------------------------------------------------------
\* For any number of submissions and any windows: the types of Velocity.
THEOREM TypeCorrect == Spec => []TypeOK
  <1>1. IInv => TypeOK
    BY DEF IInv
  <1> QED BY <1>1, Invariance, PTL

\* For any number of submissions and any windows: a count is of other submissions,
\* entered within its window, at most once each.
THEOREM CountsAreReal == Spec => []CountedIsReal
  <1>1. IInv => CountedIsReal
    BY DEF IInv
  <1> QED BY <1>1, Invariance, PTL

\* For any number of submissions: overlapping updates of the average blend no amount
\* in twice.
THEOREM AmountsOnce == Spec => []AmountsCountOnce
  <1>1. IInv => AmountsCountOnce
    BY DEF IInv, Averages, OnceEach, Ended, AmountsCountOnce
  <1> QED BY <1>1, Invariance, PTL

\* For any number of submissions, whatever their amounts and whichever updates of the
\* average were lost: an amount that VEL_003 finds unusual is more than three times one
\* that the user did submit before.
THEOREM UnusualAmounts == Spec => []UnusualIsUnusual
  <1>1. IInv => UnusualIsUnusual
    BY DEF IInv
  <1> QED BY <1>1, Invariance, PTL

\* For any number of submissions and any windows whose difference is more than a
\* handler takes: no submission that EXPIRE has covered is overlooked.
THEOREM RecordedAreCounted == Spec => RecordedIsCounted
  <1>1. ASSUME IInv, Next, NEW s \in Sub, pc[s] = "trimmed", pc'[s] = "counted5"
        PROVE  prof'[s].tx_5m >= Cardinality(covered \cap InWindow(s, Five))
    <2>1. Count5(s)
      BY <1>1
      DEF Next, Handle, Tick, ForgetAverage, Start, Trim, Count5, Count1h, GetAverage, LoseProfile, Score,
          Add, Keep, ReadAverage, WriteAverage, LoseStore, Goto, Finish, IInv, TypeOK
    <2>2. prof'[s].tx_5m = Cardinality(hist \cap InWindow(s, Five))
      BY <1>1, <2>1 DEF Count5, Put, IInv, TypeOK, Profile
    <2>3. covered \cap InWindow(s, Five) \in SUBSET (hist \cap InWindow(s, Five))
      BY <1>1, Seen DEF IInv, InFlight
    <2>4. hist \cap InWindow(s, Five) \in SUBSET Sub
      BY DEF InWindow
    <2> QED BY <2>2, <2>3, <2>4, Counting
  <1>2. ASSUME IInv, Next, NEW s \in Sub, pc[s] = "counted5", pc'[s] = "counted1h"
        PROVE  prof'[s].tx_1h >= Cardinality(covered \cap InWindow(s, Hour - Slow - 1))
    <2>1. Count1h(s)
      BY <1>2
      DEF Next, Handle, Tick, ForgetAverage, Start, Trim, Count5, Count1h, GetAverage, LoseProfile, Score,
          Add, Keep, ReadAverage, WriteAverage, LoseStore, Goto, Finish, IInv, TypeOK
    <2>2. prof'[s].tx_1h = Cardinality(hist \cap InWindow(s, Hour))
      BY <1>2, <2>1 DEF Count1h, Put, IInv, TypeOK, Profile
    <2>3. InWindow(s, Hour - Slow - 1) \subseteq InWindow(s, Hour)
      <3>1. Hour - Slow - 1 \in Int /\ Hour \in Int /\ Hour - Slow - 1 <= Hour
        BY VelocityAssumption
      <3>2. began[s] \in Int
        BY <1>2 DEF IInv, TypeOK, Never
      <3> QED BY <3>1, <3>2, <1>2 DEF InWindow, IInv, TypeOK
    <2>4. covered \cap InWindow(s, Hour - Slow - 1) \in SUBSET (hist \cap InWindow(s, Hour))
      BY <1>2, <2>3, Seen DEF IInv, InFlight
    <2>5. hist \cap InWindow(s, Hour) \in SUBSET Sub
      BY DEF InWindow
    <2> QED BY <2>2, <2>4, <2>5, Counting
  <1>3. IInv /\ [Next]_vars =>
           [\A s \in Sub :
              /\ pc[s] = "trimmed" /\ pc'[s] = "counted5" =>
                     prof'[s].tx_5m >= Cardinality(covered \cap InWindow(s, Five))
              /\ pc[s] = "counted5" /\ pc'[s] = "counted1h" =>
                     prof'[s].tx_1h >= Cardinality(covered \cap InWindow(s, Hour - Slow - 1))]_vars
    BY <1>1, <1>2
  <1> QED BY <1>3, Invariance, PTL DEF Spec, RecordedIsCounted
=============================================================================
