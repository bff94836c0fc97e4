------------------------------ MODULE Velocity ------------------------------
(***************************************************************************)
(* The velocity profile of one user in Redis while several of the user's   *)
(* submissions are scored: get_user_velocity_profile and                   *)
(* store_transaction_velocity of backend/services/velocity_service.py, and *)
(* the three rules of src/velocity_engine.py that read the profile.        *)
(*                                                                         *)
(* Each await on Redis is a step.  No call can fail harder than to end its *)
(* function early, with what was read so far; a crash of the backend ends  *)
(* all of them at once.  Entries are named by their submissions: the       *)
(* member "<time>_<amount>" differs between any two.  Without a client     *)
(* neither function touches anything, so the client is taken as there.     *)
(***************************************************************************)
EXTENDS Integers, Sequences, FiniteSets

CONSTANTS
    Sub,            \* submissions of one user
    Amount,         \* amounts they may have
    Five, Hour,     \* FIVE_MINUTES and ONE_HOUR
    Slow,           \* longest time a handler takes
    FewIn5, FewIn1h,\* the counts from which VEL_001 and VEL_002 fire: 3 and 5
    Trivial,        \* amount up to which VEL_003 stays silent: 10
    Failures,       \* may calls of Redis, and scoring, fail?
    MaxTime         \* bound on the clock

ASSUME VelocityAssumption ==
    /\ IsFiniteSet(Sub) /\ Amount \subseteq Nat \ {0}
    /\ {Five, Hour, Slow, FewIn5, FewIn1h, Trivial, MaxTime} \subseteq Nat
    /\ 0 < Five /\ Five + Slow < Hour
    /\ Failures \in BOOLEAN

VARIABLES
    now,        \* clock of the backend and of Redis
    hist,       \* submissions in the sorted set tx_history
    at,         \* their scores
    dies,       \* when the sorted set expires
    avg,        \* submissions blended into avg_amount, oldest first
    pc,
    amt,        \* amount of each submission
    began,      \* time at which its handler began to read
    prof,       \* the profile it has read so far
    fired,      \* the rules it found triggered
    old,        \* the average it has read to update
    covered     \* history variable: entries whose hour EXPIRE has granted

vars == <<now, hist, at, dies, avg, pc, amt, began, prof, fired, old, covered>>

redis == <<hist, at, dies, avg, covered>>

-----------------------------------------------------------------------------
Never == -1

Rule == {"VEL_001", "VEL_002", "VEL_003"}

NoProfile == [tx_5m |-> 0, tx_1h |-> 0, avg_amount |-> <<>>]

\* Faulty: a missing average counts as zero.
BlendFromZero(mean, a) == [num |-> 9 * mean.num + a * mean.den, den |-> 10 * mean.den]

\* new_avg: 90% old and 10% new, or the amount itself if there is no old one.
Blend(mean, a) ==
    IF mean.num = 0
    THEN [num |-> a, den |-> 1]
    ELSE [num |-> 9 * mean.num + a * mean.den, den |-> 10 * mean.den]

\* The number that avg_amount holds, as a fraction; 0 when there is none.
Mean(blended) ==
    LET mean[i \in 0 .. Len(blended)] ==
            IF i = 0 THEN [num |-> 0, den |-> 1] ELSE Blend(mean[i - 1], amt[blended[i]])
    IN  mean[Len(blended)]

\* evaluate_velocity_rules, of what depends on the profile.
Triggered(profile, a) ==
    LET mean    == Mean(profile.avg_amount)
        unusual == mean.num > 0 /\ a * mean.den > 3 * mean.num /\ a > Trivial
    IN
    {rule \in Rule :
        \/ rule = "VEL_001" /\ profile.tx_5m >= FewIn5
        \/ rule = "VEL_002" /\ profile.tx_1h >= FewIn1h
        \/ rule = "VEL_003" /\ unusual}

InFlight(s) == pc[s] \in {"begun", "trimmed", "counted5", "counted1h",
                          "scored", "added", "kept", "read"}

Init ==
    /\ now = 0
    /\ hist = {} /\ covered = {} /\ avg = <<>>
    /\ at = [s \in Sub |-> Never]
    /\ dies = Never
    /\ pc = [s \in Sub |-> "idle"]
    /\ amt = [s \in Sub |-> 0]
    /\ began = [s \in Sub |-> Never]
    /\ prof = [s \in Sub |-> NoProfile]
    /\ fired = [s \in Sub |-> {}]
    /\ old = [s \in Sub |-> <<>>]

\* Time passes, and Redis drops the sorted set when its hour is over.
Tick ==
    /\ now < MaxTime
    /\ \A s \in Sub : InFlight(s) => now - began[s] < Slow
    /\ now' = now + 1
    /\ IF dies = now + 1
       THEN hist' = {} /\ dies' = Never
       ELSE UNCHANGED <<hist, dies>>
    /\ UNCHANGED <<at, avg, pc, amt, began, prof, fired, old, covered>>

\* SEVEN_DAYS without a submission.
ForgetAverage ==
    /\ avg # <<>> /\ hist = {} /\ \A s \in Sub : ~InFlight(s)
    /\ avg' = <<>>
    /\ UNCHANGED <<now, hist, at, dies, pc, amt, began, prof, fired, old, covered>>

Goto(s, to) == pc' = [pc EXCEPT ![s] = to]

Start(s, a) ==
    /\ pc[s] = "idle"
    /\ amt' = [amt EXCEPT ![s] = a]
    /\ began' = [began EXCEPT ![s] = now]
    /\ Goto(s, "begun")
    /\ UNCHANGED <<now, redis, prof, fired, old>>

\* zremrangebyscore.
Trim(s) ==
    /\ pc[s] = "begun"
    /\ hist' = {q \in hist : at[q] > began[s] - Hour}
    /\ dies' = IF hist' = {} THEN Never ELSE dies
    /\ Goto(s, "trimmed")
    /\ UNCHANGED <<now, at, avg, amt, began, prof, fired, old, covered>>

InWindow(s, width) == {q \in Sub : at[q] # Never /\ at[q] \in began[s] - width .. began[s]}

Put(s, field, value) == prof' = [prof EXCEPT ![s][field] = value]

\* Faulty: the whole set is counted.
Count5All(s) ==
    /\ pc[s] = "trimmed"
    /\ Put(s, "tx_5m", Cardinality(hist))
    /\ Goto(s, "counted5")
    /\ UNCHANGED <<now, redis, amt, began, fired, old>>

\* zcount of the last five minutes.
Count5(s) ==
    /\ pc[s] = "trimmed"
    /\ Put(s, "tx_5m", Cardinality(hist \cap InWindow(s, Five)))
    /\ Goto(s, "counted5")
    /\ UNCHANGED <<now, redis, amt, began, fired, old>>

\* zcount of the last hour.
Count1h(s) ==
    /\ pc[s] = "counted5"
    /\ Put(s, "tx_1h", Cardinality(hist \cap InWindow(s, Hour)))
    /\ Goto(s, "counted1h")
    /\ UNCHANGED <<now, redis, amt, began, fired, old>>

\* The rules are evaluated, and the handler goes on to scoring, which awaits
\* nothing.
Score(s, profile) ==
    /\ fired' = [fired EXCEPT ![s] = Triggered(profile, amt[s])]
    /\ prof' = [prof EXCEPT ![s] = NoProfile]
    /\ Goto(s, "scored")
    /\ UNCHANGED <<now, redis, amt, began, old>>

\* get of the average.
GetAverage(s) ==
    /\ pc[s] = "counted1h"
    /\ Score(s, [prof[s] EXCEPT !.avg_amount = avg])

\* Redis fails while the profile is read: what is missing stays at its default.
LoseProfile(s) ==
    /\ Failures
    /\ pc[s] \in {"begun", "trimmed", "counted5", "counted1h"}
    /\ Score(s, prof[s])

\* zadd, at the time it is called.
Add(s) ==
    /\ pc[s] = "scored"
    /\ at' = [at EXCEPT ![s] = now]
    /\ hist' = hist \cup {s}
    /\ Goto(s, "added")
    /\ UNCHANGED <<now, dies, avg, amt, began, prof, fired, old, covered>>

\* Faulty: the set is given the shorter time to live.
KeepFive(s) ==
    /\ pc[s] = "added"
    /\ dies' = IF hist = {} THEN dies ELSE now + Five
    /\ covered' = covered \cup hist
    /\ Goto(s, "kept")
    /\ UNCHANGED <<now, hist, at, avg, amt, began, prof, fired, old>>

\* expire, of no effect if the set has expired since zadd.
Keep(s) ==
    /\ pc[s] = "added"
    /\ dies' = IF hist = {} THEN dies ELSE now + Hour
    /\ covered' = covered \cup hist
    /\ Goto(s, "kept")
    /\ UNCHANGED <<now, hist, at, avg, amt, began, prof, fired, old>>

ReadAverage(s) ==
    /\ pc[s] = "kept"
    /\ old' = [old EXCEPT ![s] = avg]
    /\ Goto(s, "read")
    /\ UNCHANGED <<now, redis, amt, began, prof, fired>>

Finish(s) ==
    /\ began' = [began EXCEPT ![s] = Never]
    /\ old' = [old EXCEPT ![s] = <<>>]
    /\ Goto(s, "done")

\* Faulty: blended into what was read, and once more.
WriteAverageTwice(s) ==
    /\ pc[s] = "read"
    /\ avg' = Append(Append(old[s], s), s)
    /\ Finish(s)
    /\ UNCHANGED <<now, hist, at, dies, amt, prof, fired, covered>>

\* set of the average blended from what was read.
WriteAverage(s) ==
    /\ pc[s] = "read"
    /\ avg' = Append(old[s], s)
    /\ Finish(s)
    /\ UNCHANGED <<now, hist, at, dies, amt, prof, fired, covered>>

\* Scoring raises, or Redis fails while the submission is stored.
LoseStore(s) ==
    /\ Failures
    /\ pc[s] \in {"scored", "added", "kept", "read"}
    /\ Finish(s)
    /\ UNCHANGED <<now, redis, amt, prof, fired>>

Handle(s) ==
    \/ Trim(s) \/ Count5(s) \/ Count1h(s) \/ GetAverage(s)
    \/ Add(s) \/ Keep(s) \/ ReadAverage(s) \/ WriteAverage(s)

Next ==
    \/ Tick \/ ForgetAverage
    \/ \E s \in Sub, a \in Amount : Start(s, a)
    \/ \E s \in Sub : Handle(s) \/ LoseProfile(s) \/ LoseStore(s)

Spec == Init /\ [][Next]_vars

-----------------------------------------------------------------------------
Profile == [tx_5m : Nat, tx_1h : Nat, avg_amount : Seq(Sub)]

\* Types of the state.
TypeOK ==
    /\ now \in 0 .. MaxTime
    /\ hist \subseteq Sub /\ covered \subseteq Sub
    /\ at \in [Sub -> {Never} \cup 0 .. MaxTime]
    /\ dies \in {Never} \cup 1 .. MaxTime + Hour
    /\ avg \in Seq(Sub)
    /\ pc \in [Sub -> {"idle", "begun", "trimmed", "counted5", "counted1h",
                       "scored", "added", "kept", "read", "done"}]
    /\ amt \in [Sub -> Amount \cup {0}]
    /\ began \in [Sub -> {Never} \cup 0 .. MaxTime]
    /\ prof \in [Sub -> Profile]
    /\ fired \in [Sub -> SUBSET Rule]
    /\ old \in [Sub -> Seq(Sub)]

\* A frequency rule never fires for fewer submissions than it says: each one that
\* was counted is another submission, entered within the window.
CountedIsReal ==
    \A s \in Sub :
        InFlight(s) =>
        /\ prof[s].tx_5m <= Cardinality(InWindow(s, Five) \ {s})
        /\ prof[s].tx_1h <= Cardinality(InWindow(s, Hour) \ {s})

\* No submission that is on record is overlooked: whichever other handlers trim the
\* set or let it expire, a count has every entry of its window that EXPIRE covered.
\* At the far end of the hour a handler may lose what one with a later clock trims.
RecordedIsCounted ==
    [][\A s \in Sub :
        /\ pc[s] = "trimmed" /\ pc'[s] = "counted5" =>
               prof'[s].tx_5m >= Cardinality(covered \cap InWindow(s, Five))
        /\ pc[s] = "counted5" /\ pc'[s] = "counted1h" =>
               prof'[s].tx_1h >= Cardinality(covered \cap InWindow(s, Hour - Slow - 1))]_vars

\* Overlapping updates may lose an amount, but none is blended in twice, and none
\* that never reached the sorted set.
AmountsCountOnce ==
    \A i \in DOMAIN avg :
        /\ at[avg[i]] # Never
        /\ \A j \in DOMAIN avg : avg[i] = avg[j] => i = j

\* An unusual amount is more than three times an amount the user did submit
\* before, whatever updates of the average were lost.
UnusualIsUnusual ==
    \A s \in Sub :
        "VEL_003" \in fired[s] => \E q \in Sub \ {s} : at[q] # Never /\ amt[s] > 3 * amt[q]

\* velocity_engine.py:14, "Same user > 3 transactions in 5 minutes": of so many
\* submissions stored that close together, one at least is caught.
BurstIsCaught ==
    \A burst \in SUBSET {s \in Sub : pc[s] = "done" /\ s \in hist} :
        /\ Cardinality(burst) > FewIn5
        /\ \A q, s \in burst : at[s] - at[q] <= Five
        => \E s \in burst : "VEL_001" \in fired[s]
=============================================================================
