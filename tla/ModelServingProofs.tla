------------------------- MODULE ModelServingProofs -------------------------
(***************************************************************************)
(* For any models, test set, grid, transactions and profiles, and any      *)
(* number of trainings, evaluations, promotions and restarts: what the run *)
(* serving checks at chosen bounds.  In four parts.                        *)
(*                                                                         *)
(* The choice of a threshold: min is modelled by CHOOSE, so first the key  *)
(* it looks for must exist (LeastIsFirst: the keys are ordered and the     *)
(* rows finitely many).  What it guarantees is then read off the first     *)
(* two places of the keys (CandidateIsLeast).                              *)
(*                                                                         *)
(* The judgement of a transaction: it rests on one fact, that the rules    *)
(* enter the blend by the highest of their scores (TopScore).              *)
(*                                                                         *)
(* The processes: in the documented order a model is served with its own   *)
(* threshold.  It is invariant because each step of that order leaves a    *)
(* trace in the files (Loaded, Evaluated) or in a process that has read    *)
(* one file and not yet the other (Starting, Opening).                     *)
(*                                                                         *)
(* The three together: whatever is in the files and in the processes was   *)
(* chosen and judged as above, by TypeOK.                                  *)
(***************************************************************************)
EXTENDS ModelServing, FiniteSetTheorems, TLAPS

-----------------------------------------------------------------------------
\* A set of numbers with a member has a smallest one.
LEMMA SmallestNat ==
  ASSUME NEW T \in SUBSET Nat, T # {}
  PROVE  \E n \in T : \A m \in T : n <= m
  <1>1. PICK n \in T : \A m \in T : <<m, n>> \notin OpToRel(<, Nat)
    BY WFMin, NatLessThanWellFounded
  <1>2. \A m \in T : ~(m < n)
    BY <1>1 DEF OpToRel
  <1> QED BY <1>2

\* And a set of parts of a finite set has one that contains no other.
LEMMA SmallestSet ==
  ASSUME NEW S, IsFiniteSet(S), NEW T \in SUBSET SUBSET S, T # {}
  PROVE  \E M \in T : \A N \in T : N \subseteq M => N = M
  <1>1. T \subseteq FiniteSubsetsOf(S)
    BY FS_Subset DEF FiniteSubsetsOf
  <1>2. PICK M \in T : \A N \in T : <<N, M>> \notin StrictSubsetOrdering(S)
    BY <1>1, WFMin, FS_StrictSubsetOrderingWellFounded
  <1> QED BY <1>2 DEF StrictSubsetOrdering

\* A transitive relation that orders any two members of a finite set gives each part of
\* it a first one.
LEMMA FirstExists ==
  ASSUME NEW S, IsFiniteSet(S), NEW R,
         \A x, y, z \in S : <<x, y>> \in R /\ <<y, z>> \in R => <<x, z>> \in R,
         \A x, y \in S : x # y => <<x, y>> \in R \/ <<y, x>> \in R,
         S # {}
  PROVE  \E x \in S : \A y \in S \ {x} : <<x, y>> \in R
  <1> DEFINE T == {M \in SUBSET S : M # {} /\ ~ \E x \in M : \A y \in M \ {x} : <<x, y>> \in R}
  <1> SUFFICES ASSUME T # {} PROVE FALSE
    OBVIOUS
  <1>0. T \in SUBSET SUBSET S
    OBVIOUS
  <1> HIDE DEF T
  <1>1. PICK M \in T : \A N \in T : N \subseteq M => N = M
    BY <1>0, SmallestSet
  <1>2. PICK x \in M : TRUE
    BY DEF T
  <1>3. M \ {x} \notin T /\ M \subseteq S
    BY <1>0, <1>1, <1>2
  <1> USE DEF T
  <1>4. CASE M \ {x} = {}
    BY <1>2, <1>4
  <1>5. CASE M \ {x} # {}
    <2>1. PICK y \in M \ {x} : \A z \in M \ {x, y} : <<y, z>> \in R
      BY <1>3, <1>5
    <2>2. CASE <<y, x>> \in R
      BY <2>1, <2>2
    <2>3. CASE <<x, y>> \in R
      <3>1. \A z \in M \ {x} : <<x, z>> \in R
        BY <1>3, <2>1, <2>3
      <3> QED BY <1>2, <3>1
    <2> QED BY <1>3, <2>1, <2>2, <2>3
  <1> QED BY <1>4, <1>5

-----------------------------------------------------------------------------
\* What rates, costs and thresholds are.
Fraction == [num : Int, den : Nat \ {0}]

\* The order of fractions is transitive.
LEMMA NotBelow ==
  ASSUME NEW a \in Fraction, NEW b \in Fraction, NEW c \in Fraction, ~Below(b, a), ~Below(c, b)
  PROVE  ~Below(c, a)
  <1>1. PICK an \in Int, ad \in Nat \ {0} : an = a.num /\ ad = a.den
    BY DEF Fraction
  <1>2. PICK bn \in Int, bd \in Nat \ {0} : bn = b.num /\ bd = b.den
    BY DEF Fraction
  <1>3. PICK cn \in Int, cd \in Nat \ {0} : cn = c.num /\ cd = c.den
    BY DEF Fraction
  <1>4. an * bd <= bn * ad /\ bn * cd <= cn * bd
    BY <1>1, <1>2, <1>3 DEF Below
  <1>5. \A x, y \in Int, d \in Nat \ {0} : x <= y <=> x * d <= y * d
    OBVIOUS
  <1>6. (an * bd) * cd <= (bn * ad) * cd /\ (bn * cd) * ad <= (cn * bd) * ad
    BY <1>4, <1>5
  <1>7. (bn * ad) * cd = (bn * cd) * ad
    OBVIOUS
  <1>8. (an * bd) * cd = (an * cd) * bd /\ (cn * bd) * ad = (cn * ad) * bd
    OBVIOUS
  <1>9. (an * cd) * bd <= (cn * ad) * bd
    BY <1>6, <1>7, <1>8
  <1>10. an * cd <= cn * ad
    BY <1>5, <1>9
  <1> QED BY <1>1, <1>3, <1>10 DEF Below

\* Of two fractions one is not below the other.
LEMMA BelowOneWay ==
  ASSUME NEW a \in Fraction, NEW b \in Fraction, Below(a, b)
  PROVE  ~Below(b, a)
  <1>1. a.num * b.den \in Int /\ b.num * a.den \in Int
    BY DEF Fraction
  <1> QED BY <1>1 DEF Below

\* Tuples of n fractions.
Key(n) == [1 .. n -> Fraction]

\* The order of tuples is transitive.
LEMMA BeforeTransitive ==
  ASSUME NEW n \in Nat, NEW k \in Key(n), NEW l \in Key(n), NEW m \in Key(n),
         Before(k, l), Before(l, m)
  PROVE  Before(k, m)
  <1>1. PICK i \in 1 .. n : /\ Below(k[i], l[i])
                            /\ \A x \in 1 .. i - 1 : ~Below(k[x], l[x]) /\ ~Below(l[x], k[x])
    BY DEF Before, Key
  <1>2. PICK j \in 1 .. n : /\ Below(l[j], m[j])
                            /\ \A x \in 1 .. j - 1 : ~Below(l[x], m[x]) /\ ~Below(m[x], l[x])
    BY DEF Before, Key
  <1>3. \A x \in 1 .. n : k[x] \in Fraction /\ l[x] \in Fraction /\ m[x] \in Fraction
    BY DEF Key
  <1>4. PICK h \in 1 .. n : h <= i /\ h <= j /\ (h = i \/ h = j)
    OBVIOUS
  <1>5. ~Below(l[h], k[h]) /\ ~Below(m[h], l[h])
    BY <1>1, <1>2, <1>3, <1>4, BelowOneWay
  <1>6. Below(k[h], m[h])
    <2> SUFFICES ASSUME ~Below(k[h], m[h]) PROVE FALSE
      OBVIOUS
    <2>1. ~Below(k[h], l[h])
      BY <1>3, <1>5, NotBelow
    <2>2. ~Below(l[h], m[h])
      BY <1>3, <1>5, NotBelow
    <2> QED BY <1>1, <1>2, <1>4, <2>1, <2>2
  <1>7. ASSUME NEW x \in 1 .. h - 1 PROVE ~Below(k[x], m[x]) /\ ~Below(m[x], k[x])
    <2>1. x \in 1 .. n /\ x \in 1 .. i - 1 /\ x \in 1 .. j - 1
      BY <1>4
    <2> QED BY <1>1, <1>2, <1>3, <2>1, NotBelow
  <1>8. h \in DOMAIN k
    BY DEF Key
  <1> QED BY <1>6, <1>7, <1>8 DEF Before

\* Two tuples that differ somewhere are ordered.
LEMMA BeforeTotal ==
  ASSUME NEW n \in Nat, NEW k \in Key(n), NEW l \in Key(n),
         NEW i \in 1 .. n, Below(k[i], l[i]) \/ Below(l[i], k[i])
  PROVE  Before(k, l) \/ Before(l, k)
  <1> DEFINE T == {x \in 1 .. n : Below(k[x], l[x]) \/ Below(l[x], k[x])}
  <1>1. PICK x \in T : \A y \in T : x <= y
    <2>1. T \in SUBSET Nat /\ T # {}
      OBVIOUS
    <2> QED BY <2>1, SmallestNat
  <1>2. \A y \in 1 .. x - 1 : ~Below(k[y], l[y]) /\ ~Below(l[y], k[y])
    BY <1>1
  <1>3. x \in DOMAIN k /\ x \in DOMAIN l
    BY DEF Key
  <1> QED BY <1>1, <1>2, <1>3 DEF Before

\* What comes before is not above in the first place, nor, if that is the same, in the
\* second.
LEMMA BeforePlaces ==
  ASSUME NEW n \in Nat, n > 1, NEW k \in Key(n), NEW l \in Key(n), Before(k, l)
  PROVE  /\ ~Below(l[1], k[1])
         /\ Below(k[1], l[1]) \/ ~Below(l[2], k[2])
  <1>1. PICK i \in 1 .. n : /\ Below(k[i], l[i])
                            /\ \A x \in 1 .. i - 1 : ~Below(k[x], l[x]) /\ ~Below(l[x], k[x])
    BY DEF Before, Key
  <1>2. \A x \in 1 .. n : k[x] \in Fraction /\ l[x] \in Fraction
    BY DEF Key
  <1>3. CASE i = 1
    BY <1>1, <1>2, <1>3, BelowOneWay
  <1>4. CASE i = 2
    BY <1>1, <1>2, <1>4, BelowOneWay
  <1>5. CASE i > 2
    <2>1. 1 \in 1 .. i - 1 /\ 2 \in 1 .. i - 1
      BY <1>5
    <2> QED BY <1>1, <2>1
  <1> QED BY <1>3, <1>4, <1>5

\* Keys of n fractions for rows that differ in their thresholds.
KeyedBy(rows, key, n) ==
    /\ IsFiniteSet(rows) /\ rows # {}
    /\ DOMAIN key = rows
    /\ \A row \in rows : row.threshold \in Int /\ key[row] \in Seq(Fraction) /\ Len(key[row]) = n
    /\ \A row, other \in rows : row.threshold = other.threshold => row = other

\* A key with the threshold behind it.
Full(key, row) == Append(key[row], Whole(row.threshold))

\* It is a tuple of one fraction more, the last one the threshold.
LEMMA FullKeys ==
  ASSUME NEW rows, NEW key, NEW n \in Nat, KeyedBy(rows, key, n), NEW row \in rows
  PROVE  /\ Full(key, row) \in Key(n + 1)
         /\ Full(key, row)[n + 1] = [num |-> row.threshold, den |-> 1]
  <1>1. key[row] \in Seq(Fraction) /\ Len(key[row]) = n /\ row.threshold \in Int
    BY DEF KeyedBy
  <1>2. Whole(row.threshold) \in Fraction
    BY <1>1 DEF Whole, Fraction
  <1>3. /\ Full(key, row) \in Seq(Fraction) /\ Len(Full(key, row)) = n + 1
        /\ Full(key, row)[n + 1] = Whole(row.threshold)
    BY <1>1, <1>2 DEF Full
  <1>4. Full(key, row) \in [1 .. n + 1 -> Fraction]
    BY <1>3
  <1> QED BY <1>3, <1>4 DEF Key, Whole

\* Before that it is the key.
LEMMA FullPlaces ==
  ASSUME NEW rows, NEW key, NEW n \in Nat, KeyedBy(rows, key, n), NEW row \in rows, NEW i \in 1 .. n
  PROVE  Full(key, row)[i] = key[row][i] /\ key[row][i] \in Fraction
  <1>1. key[row] \in Seq(Fraction) /\ Len(key[row]) = n
    BY DEF KeyedBy
  <1> QED BY <1>1 DEF Full

\* The code's min finds a row, and its key comes before those of the others.
LEMMA LeastIsFirst ==
  ASSUME NEW rows, NEW key, NEW n \in Nat, KeyedBy(rows, key, n)
  PROVE  /\ Least(key) \in rows
         /\ \A other \in rows \ {Least(key)} : Before(Full(key, Least(key)), Full(key, other))
  <1> DEFINE R == {pair \in rows \X rows : Before(Full(key, pair[1]), Full(key, pair[2]))}
  <1>1. \A x, y \in rows : <<x, y>> \in R <=> Before(Full(key, x), Full(key, y))
    OBVIOUS
  <1> HIDE DEF R
  <1>2. ASSUME NEW x \in rows, NEW y \in rows, NEW z \in rows, <<x, y>> \in R, <<y, z>> \in R
        PROVE  <<x, z>> \in R
    <2>1. Full(key, x) \in Key(n + 1) /\ Full(key, y) \in Key(n + 1) /\ Full(key, z) \in Key(n + 1)
      BY FullKeys
    <2>2. n + 1 \in Nat
      OBVIOUS
    <2> QED BY <1>1, <1>2, <2>1, <2>2, BeforeTransitive
  <1>3. ASSUME NEW x \in rows, NEW y \in rows, x # y PROVE <<x, y>> \in R \/ <<y, x>> \in R
    <2>1. Full(key, x) \in Key(n + 1) /\ Full(key, y) \in Key(n + 1)
      BY FullKeys
    <2>2. /\ Full(key, x)[n + 1] = [num |-> x.threshold, den |-> 1]
          /\ Full(key, y)[n + 1] = [num |-> y.threshold, den |-> 1]
      BY FullKeys
    <2>3. x.threshold \in Int /\ y.threshold \in Int /\ x.threshold # y.threshold
      BY <1>3 DEF KeyedBy
    <2>4. \/ Below(Full(key, x)[n + 1], Full(key, y)[n + 1])
          \/ Below(Full(key, y)[n + 1], Full(key, x)[n + 1])
      BY <2>2, <2>3 DEF Below
    <2>5. n + 1 \in Nat /\ n + 1 \in 1 .. n + 1
      OBVIOUS
    <2> QED BY <1>1, <2>1, <2>4, <2>5, BeforeTotal
  <1>4. IsFiniteSet(rows) /\ rows # {} /\ DOMAIN key = rows
    BY DEF KeyedBy
  <1>5. \E x \in rows : \A y \in rows \ {x} : <<x, y>> \in R
    BY <1>2, <1>3, <1>4, FirstExists
  <1>6. \E x \in rows : \A y \in rows \ {x} : Before(Full(key, x), Full(key, y))
    BY <1>1, <1>5
  <1> QED BY <1>4, <1>6 DEF Least, Full

\* So it is above none in the first fraction, nor, if that is the same, in the second.
LEMMA LeastPlaces ==
  ASSUME NEW rows, NEW key, NEW n \in Nat, n > 1, KeyedBy(rows, key, n), NEW other \in rows
  PROVE  LET first == Least(key) IN
         /\ ~Below(key[other][1], key[first][1])
         /\ Below(key[first][1], key[other][1]) \/ ~Below(key[other][2], key[first][2])
  <1> DEFINE first == Least(key)
  <1>1. first \in rows
    BY LeastIsFirst
  <1>2. 1 \in 1 .. n /\ 2 \in 1 .. n /\ n + 1 \in Nat /\ n + 1 > 1
    OBVIOUS
  <1>3. ASSUME NEW x \in rows
        PROVE  Full(key, x)[1] = key[x][1] /\ Full(key, x)[2] = key[x][2]
    BY <1>2, FullPlaces
  <1>4. CASE other = first
    <2>1. key[first][1] \in Fraction /\ key[first][2] \in Fraction
      BY <1>1, <1>2 DEF KeyedBy
    <2> QED BY <1>4, <2>1, BelowOneWay
  <1>5. CASE other # first
    <2>1. Before(Full(key, first), Full(key, other))
      BY <1>5, LeastIsFirst
    <2>2. Full(key, first) \in Key(n + 1) /\ Full(key, other) \in Key(n + 1)
      BY <1>1, FullKeys
    <2>3. /\ ~Below(Full(key, other)[1], Full(key, first)[1])
          /\ \/ Below(Full(key, first)[1], Full(key, other)[1])
             \/ ~Below(Full(key, other)[2], Full(key, first)[2])
      BY <1>2, <2>1, <2>2, BeforePlaces
    <2>4. /\ Full(key, first)[1] = key[first][1] /\ Full(key, first)[2] = key[first][2]
          /\ Full(key, other)[1] = key[other][1] /\ Full(key, other)[2] = key[other][2]
      BY <1>1, <1>3
    <2> QED BY <2>3, <2>4
  <1> QED BY <1>4, <1>5

-----------------------------------------------------------------------------
\* A finite set is what it shares with another one and the rest.
LEMMA Split ==
  ASSUME NEW S, IsFiniteSet(S), NEW T
  PROVE  /\ Cardinality(S) \in Nat /\ Cardinality(S \cap T) \in Nat /\ Cardinality(S \ T) \in Nat
         /\ Cardinality(S) = Cardinality(S \cap T) + Cardinality(S \ T)
  <1>1. IsFiniteSet(S \cap T) /\ IsFiniteSet(S \ T)
    BY FS_Subset
  <1>2. /\ Cardinality(S) \in Nat /\ Cardinality(S \cap T) \in Nat /\ Cardinality(S \ T) \in Nat
    BY <1>1, FS_CardinalityType
  <1>3. (S \cap T) \cap (S \ T) = {} /\ (S \cap T) \cup (S \ T) = S
    OBVIOUS
  <1>4. Cardinality({}) = 0
    BY FS_EmptySet
  <1>5. Cardinality((S \cap T) \cup (S \ T)) =
            Cardinality(S \cap T) + Cardinality(S \ T) - Cardinality((S \cap T) \cap (S \ T))
    BY <1>1, FS_Union
  <1> QED BY <1>2, <1>3, <1>4, <1>5

\* There are cases of both kinds, and finitely many.
LEMMA Cases ==
  /\ IsFiniteSet(Case) /\ IsFiniteSet(Fraud)
  /\ Cardinality(Fraud) \in Nat \ {0} /\ Cardinality(Case) \in Nat \ {0}
  <1>1. IsFiniteSet(Case) /\ Fraud \subseteq Case /\ Fraud # {} /\ Case # {}
    BY PolicyAssumption
  <1>2. IsFiniteSet(Fraud)
    BY <1>1, FS_Subset
  <1> QED BY <1>1, <1>2, FS_CardinalityType, FS_EmptySet

\* A row of the grid in which each case is counted once.
IsRow(row) ==
    /\ row.threshold \in Grid
    /\ row.tp \in Nat /\ row.fp \in Nat /\ row.tn \in Nat /\ row.fn \in Nat
    /\ row.tp + row.fn = Cardinality(Fraud)
    /\ row.tp + row.fp + row.tn + row.fn = Cardinality(Case)

\* What compute_threshold_metrics makes of any model is such a row.
LEMMA RowCounts ==
  ASSUME NEW model, NEW thr \in Grid
  PROVE  IsRow(RowOf(model, thr)) /\ RowOf(model, thr).threshold = thr
  <1> DEFINE flagged == Flagged(model, thr)
  <1>1. flagged \subseteq Case /\ Fraud \subseteq Case
    BY PolicyAssumption DEF Flagged
  <1> HIDE DEF flagged
  <1>2. IsFiniteSet(Case) /\ IsFiniteSet(Fraud) /\ IsFiniteSet(Case \ Fraud)
    BY Cases, FS_Subset
  <1>3. /\ Fraud \cap flagged = flagged \cap Fraud /\ Case \cap Fraud = Fraud
        /\ (Case \ Fraud) \cap flagged = flagged \ Fraud
        /\ (Case \ Fraud) \ flagged = Case \ (flagged \cup Fraud)
    BY <1>1
  <1>4. PICK tp \in Nat, fp \in Nat, tn \in Nat, fn \in Nat :
          /\ tp = Cardinality(flagged \cap Fraud) /\ fp = Cardinality(flagged \ Fraud)
          /\ tn = Cardinality(Case \ (flagged \cup Fraud)) /\ fn = Cardinality(Fraud \ flagged)
    <2>1. Cardinality(Fraud \cap flagged) \in Nat /\ Cardinality(Fraud \ flagged) \in Nat
      BY <1>2, Split
    <2>2. /\ Cardinality((Case \ Fraud) \cap flagged) \in Nat
          /\ Cardinality((Case \ Fraud) \ flagged) \in Nat
      BY <1>2, Split
    <2> QED BY <1>3, <2>1, <2>2
  <1>5. Cardinality(Fraud) = tp + fn
    BY <1>2, <1>3, <1>4, Split
  <1>6. Cardinality(Case \ Fraud) = fp + tn
    <2>1. IsFiniteSet(Case \ Fraud)
      BY <1>2
    <2>2. Cardinality(Case \ Fraud) =
              Cardinality((Case \ Fraud) \cap flagged) + Cardinality((Case \ Fraud) \ flagged)
      BY <2>1, Split
    <2> QED BY <1>3, <1>4, <2>2
  <1>7. Cardinality(Case) = Cardinality(Fraud) + Cardinality(Case \ Fraud)
    BY <1>2, <1>3, Split
  <1>8. RowOf(model, thr) = [threshold |-> thr, tp |-> tp, fp |-> fp, tn |-> tn, fn |-> fn]
    BY <1>4 DEF RowOf, flagged
  <1>9. tp + fp + tn + fn = Cardinality(Case)
    BY <1>5, <1>6, <1>7
  <1> QED BY <1>5, <1>8, <1>9 DEF IsRow

\* A rate, of whatever counts.
LEMMA OverIsFraction ==
  ASSUME NEW n \in Nat, NEW d \in Nat
  PROVE  Over(n, d) \in Fraction
  BY DEF Over, Fraction

\* Every metric of a row is a fraction.
LEMMA Metrics ==
  ASSUME NEW row, IsRow(row)
  PROVE  /\ Cost(row) \in Fraction /\ Recall(row) \in Fraction /\ Precision(row) \in Fraction
         /\ Minus(Recall(row)) \in Fraction /\ Minus(Precision(row)) \in Fraction
         /\ F1(row) \in Fraction /\ Minus(F1(row)) \in Fraction
         /\ FlaggedRate(row) \in Fraction /\ OrOne(FlaggedRate(row)) \in Fraction
  <1>1. PICK tp \in Nat, fp \in Nat, tn \in Nat, fn \in Nat :
          tp = row.tp /\ fp = row.fp /\ tn = row.tn /\ fn = row.fn
    BY DEF IsRow
  <1>2. Cost(row) \in Fraction
    BY <1>1 DEF Cost, Whole, Fraction, COST_FALSE_NEGATIVE, COST_FALSE_POSITIVE
  <1>3. /\ Recall(row) \in Fraction /\ Precision(row) \in Fraction
        /\ F1(row) \in Fraction /\ FlaggedRate(row) \in Fraction
    BY <1>1, OverIsFraction DEF Recall, Precision, F1, FlaggedRate
  <1>4. \A f \in Fraction : Minus(f) \in Fraction /\ OrOne(f) \in Fraction
    BY DEF Fraction, Minus, OrOne, Whole
  <1> QED BY <1>2, <1>3, <1>4

\* The rows of a model differ in their thresholds.
LEMMA ResultRows ==
  ASSUME NEW model
  PROVE  /\ IsFiniteSet(Results(model)) /\ Results(model) # {}
         /\ \A row \in Results(model) : IsRow(row) /\ row = RowOf(model, row.threshold)
         /\ \A row, other \in Results(model) : row.threshold = other.threshold => row = other
  <1> DEFINE f == [thr \in Grid |-> RowOf(model, thr)]
  <1>1. f \in Surjection(Grid, Results(model))
    BY DEF Surjection, Results
  <1>2. IsFiniteSet(Results(model))
    BY <1>1, FS_Surjection, PolicyAssumption
  <1>3. Results(model) # {}
    <2>1. PICK thr \in Grid : TRUE
      BY PolicyAssumption
    <2> QED BY <2>1 DEF Results
  <1>4. \A row \in Results(model) : IsRow(row) /\ row = RowOf(model, row.threshold)
    BY RowCounts DEF Results
  <1>5. ASSUME NEW row \in Results(model), NEW other \in Results(model), row.threshold = other.threshold
        PROVE  row = other
    BY <1>4, <1>5
  <1> QED BY <1>2, <1>3, <1>4, <1>5

\* The keys of every policy are two fractions or three.
LEMMA PolicyKeys ==
  ASSUME NEW model, NEW policy \in Policy, Pool(policy, Results(model)) # {}
  PROVE  LET pool == Pool(policy, Results(model)) IN
         \E n \in Nat : n > 1 /\ KeyedBy(pool, [row \in pool |-> KeyOf(policy, row)], n)
  <1> DEFINE pool == Pool(policy, Results(model))
             key  == [row \in pool |-> KeyOf(policy, row)]
             n    == IF policy \in {"cost_optimized", "high_recall"} THEN 3 ELSE 2
  <1>1. pool \in SUBSET Results(model)
    BY DEF Pool
  <1>2. IsFiniteSet(pool)
    BY <1>1, ResultRows, FS_Subset
  <1>3. \A row \in pool : IsRow(row)
    BY <1>1, ResultRows
  <1> HIDE DEF pool
  <1>4. ASSUME NEW row \in pool
        PROVE  key[row] \in Seq(Fraction) /\ Len(key[row]) = n
    <2>1. /\ Cost(row) \in Fraction /\ Minus(Recall(row)) \in Fraction
          /\ Minus(Precision(row)) \in Fraction /\ Minus(F1(row)) \in Fraction
          /\ OrOne(FlaggedRate(row)) \in Fraction
      BY <1>3, Metrics
    <2>2. \A a, b, c \in Fraction : /\ <<a, b>> \in Seq(Fraction) /\ Len(<<a, b>>) = 2
                                    /\ <<a, b, c>> \in Seq(Fraction) /\ Len(<<a, b, c>>) = 3
      OBVIOUS
    <2>3. key[row] = KeyOf(policy, row)
      OBVIOUS
    <2> QED BY <2>1, <2>2, <2>3 DEF KeyOf, Policy
  <1>5. \A row \in pool : row.threshold \in Int
    <2>1. \A thr \in Grid : thr \in Int
      BY PolicyAssumption
    <2> QED BY <1>3, <2>1 DEF IsRow
  <1>6. \A row, other \in pool : row.threshold = other.threshold => row = other
    BY <1>1, ResultRows
  <1>7. pool # {}
    BY DEF pool
  <1>8. n \in Nat /\ n > 1
    OBVIOUS
  <1>9. DOMAIN key = pool
    OBVIOUS
  <1> HIDE DEF key, n
  <1>10. KeyedBy(pool, key, n)
    BY <1>2, <1>4, <1>5, <1>6, <1>7, <1>9 DEF KeyedBy
  <1> QED BY <1>8, <1>10 DEF key, pool

\* What a policy recommends is of its pool, and no row of the pool comes before it in
\* the first place of the key nor, if that is the same, in the second.
LEMMA CandidateIsLeast ==
  ASSUME NEW model, NEW policy \in Policy, Pool(policy, Results(model)) # {}
  PROVE  LET pool  == Pool(policy, Results(model))
             first == Candidates(Results(model))[policy]
         IN  /\ first \in pool
             /\ \A other \in pool :
                   /\ ~Below(KeyOf(policy, other)[1], KeyOf(policy, first)[1])
                   /\ \/ Below(KeyOf(policy, first)[1], KeyOf(policy, other)[1])
                      \/ ~Below(KeyOf(policy, other)[2], KeyOf(policy, first)[2])
  <1> DEFINE pool  == Pool(policy, Results(model))
             key   == [row \in pool |-> KeyOf(policy, row)]
             first == Candidates(Results(model))[policy]
  <1>1. PICK n \in Nat : n > 1 /\ KeyedBy(pool, key, n)
    BY PolicyKeys
  <1>2. first = Least(key)
    BY DEF Candidates
  <1>3. \A row \in pool : key[row] = KeyOf(policy, row)
    OBVIOUS
  <1> HIDE DEF pool, key, first
  <1>4. first \in pool
    BY <1>1, <1>2, LeastIsFirst
  <1>5. ASSUME NEW other \in pool
        PROVE  /\ ~Below(key[other][1], key[first][1])
               /\ Below(key[first][1], key[other][1]) \/ ~Below(key[other][2], key[first][2])
    BY <1>1, <1>2, LeastPlaces
  <1>6. ASSUME NEW other \in pool
        PROVE  /\ ~Below(KeyOf(policy, other)[1], KeyOf(policy, first)[1])
               /\ \/ Below(KeyOf(policy, first)[1], KeyOf(policy, other)[1])
                  \/ ~Below(KeyOf(policy, other)[2], KeyOf(policy, first)[2])
    BY <1>3, <1>4, <1>5
  <1> QED BY <1>4, <1>6 DEF pool, first

\* The first policy chooses among all rows, and by the key of pick_best_threshold.
LEMMA SameChoice ==
  ASSUME NEW model
  PROVE  /\ Pool("cost_optimized", Results(model)) = Results(model)
         /\ Candidates(Results(model))["cost_optimized"] = PickBest(Results(model))
  <1> DEFINE rows == Results(model)
  <1>1. Pool("cost_optimized", rows) = rows
    BY DEF Pool
  <1>2. "cost_optimized" \in {p \in Policy : Pool(p, rows) # {}}
    BY <1>1, ResultRows DEF Policy
  <1>3. \A row : KeyOf("cost_optimized", row) = <<Cost(row), Minus(Recall(row)), Minus(Precision(row))>>
    BY DEF KeyOf
  <1>4. Candidates(rows)["cost_optimized"] = Least([row \in rows |-> KeyOf("cost_optimized", row)])
    BY <1>1, <1>2 DEF Candidates
  <1>5. [row \in rows |-> KeyOf("cost_optimized", row)] =
            [row \in rows |-> <<Cost(row), Minus(Recall(row)), Minus(Precision(row))>>]
    BY <1>3
  <1> QED BY <1>1, <1>4, <1>5 DEF PickBest

\* No row of a model costs less than the one picked.
LEMMA PickedIsCheapest ==
  ASSUME NEW model
  PROVE  LET best == PickBest(Results(model)) IN
         /\ best \in Results(model)
         /\ \A row \in Results(model) : 10 * best.fn + best.fp <= 10 * row.fn + row.fp
  <1> DEFINE rows == Results(model)
             best == PickBest(rows)
  <1>1. "cost_optimized" \in Policy /\ Pool("cost_optimized", rows) = rows /\ rows # {}
    BY SameChoice, ResultRows DEF Policy
  <1>2. best = Candidates(rows)["cost_optimized"]
    BY SameChoice
  <1>3. \A row : KeyOf("cost_optimized", row)[1] = Cost(row)
    BY DEF KeyOf
  <1> HIDE DEF best
  <1>4. /\ best \in rows
        /\ \A row \in rows : ~Below(KeyOf("cost_optimized", row)[1], KeyOf("cost_optimized", best)[1])
    BY <1>1, <1>2, CandidateIsLeast
  <1>5. ASSUME NEW row \in rows
        PROVE  10 * best.fn + best.fp <= 10 * row.fn + row.fp
    <2>1. ~Below(Cost(row), Cost(best))
      BY <1>3, <1>4
    <2>2. IsRow(row) /\ IsRow(best)
      BY <1>4, ResultRows
    <2>3. PICK a \in Nat, b \in Nat, x \in Nat, y \in Nat :
            a = best.fn /\ b = best.fp /\ x = row.fn /\ y = row.fp
      BY <2>2 DEF IsRow
    <2>4. Cost(row) = [num |-> 10 * x + 1 * y, den |-> 1] /\ Cost(best) = [num |-> 10 * a + 1 * b, den |-> 1]
      BY <2>3 DEF Cost, Whole, COST_FALSE_NEGATIVE, COST_FALSE_POSITIVE
    <2>5. ~((10 * x + 1 * y) * 1 < (10 * a + 1 * b) * 1)
      BY <2>1, <2>4 DEF Below
    <2> QED BY <2>3, <2>5
  <1> QED BY <1>4, <1>5 DEF best

\* What one threshold costs more than another, counted case by case: the frauds and
\* the alarms they have in common cancel out.
LEMMA CaseByCase ==
  ASSUME NEW model, NEW thr \in Grid, NEW other \in Grid,
         10 * RowOf(model, thr).fn + RowOf(model, thr).fp
             <= 10 * RowOf(model, other).fn + RowOf(model, other).fp
  PROVE  LET gained == Flagged(model, other) \ Flagged(model, thr)
             lost   == Flagged(model, thr) \ Flagged(model, other)
         IN  10 * Cardinality(gained \cap Fraud) + Cardinality(lost \ Fraud)
                 <= 10 * Cardinality(lost \cap Fraud) + Cardinality(gained \ Fraud)
  <1> DEFINE F == Flagged(model, thr)
             G == Flagged(model, other)
  <1>1. IsFiniteSet(F) /\ IsFiniteSet(G)
    BY Cases, FS_Subset DEF Flagged
  <1>2. /\ RowOf(model, thr).fn = Cardinality(Fraud \ F) /\ RowOf(model, thr).fp = Cardinality(F \ Fraud)
        /\ RowOf(model, other).fn = Cardinality(Fraud \ G) /\ RowOf(model, other).fp = Cardinality(G \ Fraud)
    BY DEF RowOf
  <1> HIDE DEF F, G
  <1>3. /\ IsFiniteSet(Fraud \ F) /\ IsFiniteSet(Fraud \ G)
        /\ IsFiniteSet(F \ Fraud) /\ IsFiniteSet(G \ Fraud)
    BY <1>1, Cases, FS_Subset
  <1>4. /\ (Fraud \ F) \cap G = (G \ F) \cap Fraud /\ (Fraud \ G) \cap F = (F \ G) \cap Fraud
        /\ (F \ Fraud) \ G = (F \ G) \ Fraud /\ (G \ Fraud) \ F = (G \ F) \ Fraud
        /\ (Fraud \ F) \ G = (Fraud \ G) \ F /\ (F \ Fraud) \cap G = (G \ Fraud) \cap F
    OBVIOUS
  <1>5. PICK a \in Nat, b \in Nat, c \in Nat, d \in Nat, x \in Nat, y \in Nat :
          /\ a = Cardinality((G \ F) \cap Fraud) /\ b = Cardinality((F \ G) \cap Fraud)
          /\ c = Cardinality((F \ G) \ Fraud)    /\ d = Cardinality((G \ F) \ Fraud)
          /\ x = Cardinality((Fraud \ G) \ F)    /\ y = Cardinality((G \ Fraud) \cap F)
    <2>1. Cardinality((Fraud \ F) \cap G) \in Nat
      BY <1>3, Split
    <2>2. Cardinality((Fraud \ G) \cap F) \in Nat /\ Cardinality((Fraud \ G) \ F) \in Nat
      BY <1>3, Split
    <2>3. Cardinality((F \ Fraud) \ G) \in Nat
      BY <1>3, Split
    <2>4. Cardinality((G \ Fraud) \ F) \in Nat /\ Cardinality((G \ Fraud) \cap F) \in Nat
      BY <1>3, Split
    <2> QED BY <1>4, <2>1, <2>2, <2>3, <2>4
  <1>6. Cardinality(Fraud \ F) = a + x
    <2>1. Cardinality(Fraud \ F) = Cardinality((Fraud \ F) \cap G) + Cardinality((Fraud \ F) \ G)
      BY <1>3, Split
    <2> QED BY <1>4, <1>5, <2>1
  <1>7. Cardinality(Fraud \ G) = b + x
    <2>1. Cardinality(Fraud \ G) = Cardinality((Fraud \ G) \cap F) + Cardinality((Fraud \ G) \ F)
      BY <1>3, Split
    <2> QED BY <1>4, <1>5, <2>1
  <1>8. Cardinality(F \ Fraud) = y + c
    <2>1. Cardinality(F \ Fraud) = Cardinality((F \ Fraud) \cap G) + Cardinality((F \ Fraud) \ G)
      BY <1>3, Split
    <2> QED BY <1>4, <1>5, <2>1
  <1>9. Cardinality(G \ Fraud) = y + d
    <2>1. Cardinality(G \ Fraud) = Cardinality((G \ Fraud) \cap F) + Cardinality((G \ Fraud) \ F)
      BY <1>3, Split
    <2> QED BY <1>4, <1>5, <2>1
  <1>10. 10 * (a + x) + (y + c) <= 10 * (b + x) + (y + d)
    BY <1>2, <1>6, <1>7, <1>8, <1>9
  <1>11. 10 * a + c <= 10 * b + d
    BY <1>10
  <1> QED BY <1>5, <1>11 DEF F, G

\* Which rows meet a target, in counts.
LEMMA PoolMeets ==
  ASSUME NEW model, NEW row \in Results(model)
  PROVE  /\ row \in Pool("high_recall", Results(model)) <=> 100 * row.tp >= 95 * Cardinality(Fraud)
         /\ row \in Pool("high_precision", Results(model)) <=> row.tp > 0 /\ 30 * row.tp >= 70 * row.fp
         /\ row \in Pool("review_capacity", Results(model)) <=>
                row.tp + row.fp > 0 /\ 10 * (row.tp + row.fp) <= Cardinality(Case)
  <1>1. IsRow(row)
    BY ResultRows
  <1>2. PICK tp \in Nat, fp \in Nat, tn \in Nat, fn \in Nat :
          /\ tp = row.tp /\ fp = row.fp /\ tn = row.tn /\ fn = row.fn
          /\ tp + fn = Cardinality(Fraud) /\ tp + fp + tn + fn = Cardinality(Case)
    BY <1>1 DEF IsRow
  <1>3. tp + fn > 0 /\ tp + fp + tn + fn > 0
    BY <1>2, Cases
  <1>4. Over(95, 100) = [num |-> 95, den |-> 100] /\ Over(70, 100) = [num |-> 70, den |-> 100]
        /\ Over(10, 100) = [num |-> 10, den |-> 100]
    BY DEF Over
  <1>5. ~Below(Recall(row), Over(95, 100)) <=> 100 * tp >= 95 * (tp + fn)
    <2>1. Recall(row) = [num |-> tp, den |-> tp + fn]
      BY <1>2, <1>3 DEF Recall, Over
    <2>2. Below(Recall(row), Over(95, 100)) <=> tp * 100 < 95 * (tp + fn)
      BY <1>4, <2>1 DEF Below
    <2> QED BY <2>2
  <1>6. ~Below(Precision(row), Over(70, 100)) <=> tp > 0 /\ 30 * tp >= 70 * fp
    <2>1. CASE tp + fp = 0
      <3>1. Precision(row) = [num |-> 0, den |-> 1]
        BY <1>2, <2>1 DEF Precision, Over
      <3>2. Below(Precision(row), Over(70, 100)) <=> 0 * 100 < 70 * 1
        BY <1>4, <3>1 DEF Below
      <3> QED BY <2>1, <3>2
    <2>2. CASE tp + fp # 0
      <3>1. Precision(row) = [num |-> tp, den |-> tp + fp]
        BY <1>2, <2>2 DEF Precision, Over
      <3>2. Below(Precision(row), Over(70, 100)) <=> tp * 100 < 70 * (tp + fp)
        BY <1>4, <3>1 DEF Below
      <3> QED BY <2>2, <3>2
    <2> QED BY <2>1, <2>2
  <1>7. ~Below(Over(10, 100), OrOne(FlaggedRate(row))) <=>
            tp + fp > 0 /\ 10 * (tp + fp) <= tp + fp + tn + fn
    <2>1. FlaggedRate(row) = [num |-> tp + fp, den |-> tp + fp + tn + fn]
      BY <1>2, <1>3 DEF FlaggedRate, Over
    <2>2. CASE tp + fp = 0
      <3>1. OrOne(FlaggedRate(row)) = [num |-> 1, den |-> 1]
        BY <2>1, <2>2 DEF OrOne, Whole
      <3>2. Below(Over(10, 100), OrOne(FlaggedRate(row))) <=> 10 * 1 < 1 * 100
        BY <1>4, <3>1 DEF Below
      <3> QED BY <2>2, <3>2
    <2>3. CASE tp + fp # 0
      <3>1. OrOne(FlaggedRate(row)) = [num |-> tp + fp, den |-> tp + fp + tn + fn]
        BY <2>1, <2>3 DEF OrOne
      <3>2. Below(Over(10, 100), OrOne(FlaggedRate(row))) <=>
                10 * (tp + fp + tn + fn) < (tp + fp) * 100
        BY <1>4, <3>1 DEF Below
      <3> QED BY <2>3, <3>2
    <2> QED BY <2>2, <2>3
  <1>8. /\ row \in Pool("high_recall", Results(model)) <=> ~Below(Recall(row), Over(95, 100))
        /\ row \in Pool("high_precision", Results(model)) <=> ~Below(Precision(row), Over(70, 100))
        /\ row \in Pool("review_capacity", Results(model)) <=>
               ~Below(Over(10, 100), OrOne(FlaggedRate(row)))
    BY DEF Pool
  <1> QED BY <1>2, <1>5, <1>6, <1>7, <1>8

-----------------------------------------------------------------------------
\* The profiles a user may have.
IsProfile(profile) ==
    profile.tx_5m \in Nat /\ profile.tx_1h \in Nat /\ profile.avg_amount \in Nat

Top(rules) == Max({0} \cup {RuleScore[rule] : rule \in rules})

\* The highest score of some rules is one of them, or 0 when there is none.
LEMMA TopScore ==
  ASSUME NEW rules \in SUBSET DOMAIN RuleScore
  PROVE  /\ Top(rules) \in 0 .. 8
         /\ \A rule \in rules : RuleScore[rule] <= Top(rules)
         /\ Top(rules) = 0 \/ \E rule \in rules : RuleScore[rule] = Top(rules)
  <1> DEFINE S == {0} \cup {RuleScore[rule] : rule \in rules}
  <1>1. S \subseteq {0, 2, 5, 8} /\ 0 \in S
    BY DEF RuleScore
  <1>2. \E x \in S : \A y \in S : x >= y
    <2> HIDE DEF S
    <2>1. CASE 8 \in S
      BY <1>1, <2>1
    <2>2. CASE 8 \notin S /\ 5 \in S
      BY <1>1, <2>2
    <2>3. CASE 8 \notin S /\ 5 \notin S /\ 2 \in S
      BY <1>1, <2>3
    <2>4. CASE 8 \notin S /\ 5 \notin S /\ 2 \notin S
      BY <1>1, <2>4
    <2> QED BY <2>1, <2>2, <2>3, <2>4
  <1>3. Top(rules) \in S /\ \A y \in S : Top(rules) >= y
    BY <1>2 DEF Top, Max
  <1>4. \A rule \in rules : RuleScore[rule] \in S /\ RuleScore[rule] \in 0 .. 8
    BY DEF RuleScore
  <1> QED BY <1>1, <1>3, <1>4

\* Nothing but the rules that are there triggers.
LEMMA TriggeredAreRules ==
  ASSUME NEW txn, NEW profile
  PROVE  Triggered(txn, profile) \in SUBSET DOMAIN RuleScore
  BY DEF Triggered

\* More rules make no lower score.
LEMMA TopGrows ==
  ASSUME NEW more \in SUBSET DOMAIN RuleScore, NEW rules \in SUBSET more
  PROVE  Top(rules) <= Top(more)
  <1>1. rules \in SUBSET DOMAIN RuleScore
    OBVIOUS
  <1>2. CASE Top(rules) = 0
    BY <1>2, TopScore
  <1>3. ASSUME NEW rule \in rules, RuleScore[rule] = Top(rules) PROVE Top(rules) <= Top(more)
    BY <1>3, TopScore
  <1> QED BY <1>1, <1>2, <1>3, TopScore

\* Without a user only the rules about the transaction itself trigger, and these
\* trigger for every user.
LEMMA PreviewTriggersLess ==
  ASSUME NEW txn, TransactionInput(txn), NEW profile, IsProfile(profile)
  PROVE  Triggered(txn, EmptyProfile(txn)) \subseteq Triggered(txn, profile)
  <1>1. txn.amount \in Nat /\ ~(txn.amount > 3 * txn.amount)
    BY DEF TransactionInput
  <1>2. ASSUME NEW rule \in Triggered(txn, EmptyProfile(txn)) PROVE rule \in {"VEL_004", "VEL_005"}
    BY <1>1, <1>2 DEF Triggered, EmptyProfile
  <1>3. ASSUME NEW rule \in Triggered(txn, EmptyProfile(txn)) PROVE rule \in Triggered(txn, profile)
    BY <1>2, <1>3 DEF Triggered
  <1> QED BY <1>3

\* The blend, in the highest score.
LEMMA BlendOfTop ==
  ASSUME NEW ml \in Nat, NEW rules \in SUBSET DOMAIN RuleScore, NEW noise \in Noise
  PROVE  /\ Blend(ml, rules, noise) = 70 * ml + 30000 * Top(rules) + noise
         /\ Blend(ml, rules, noise) \in Int
  <1>1. Top(rules) \in Nat /\ noise \in Int
    BY TopScore DEF Noise
  <1>2. Blend(ml, rules, noise) = 70 * ml + 30000 * Top(rules) + noise
    BY DEF Blend, Top
  <1> QED BY <1>1, <1>2

\* Rounding moves a score by half of the last digit at most.
LEMMA Rounding ==
  ASSUME NEW score \in Int
  PROVE  /\ Rounded(score) \in Int
         /\ 100 * Rounded(score) <= score + 50
         /\ score + 50 < 100 * Rounded(score) + 100
  <1>1. \A x \in Int : x \div 100 \in Int /\ 100 * (x \div 100) <= x /\ x < 100 * (x \div 100) + 100
    OBVIOUS
  <1>2. score + 50 \in Int
    OBVIOUS
  <1> QED BY <1>1, <1>2 DEF Rounded

\* What predict_fraud says of the blend.
LEMMA Fields ==
  ASSUME NEW txn, NEW profile, NEW ml, NEW thr, NEW noise
  PROVE  LET d     == Decision(txn, profile, ml, thr, noise)
             score == Blend(ml, Triggered(txn, profile), noise)
         IN  /\ d.fraud_probability = Rounded(score)
             /\ d.risk_level = RiskLevel(score)
             /\ d.fraud_flag <=> Rounded(score) >= 100 * thr
             /\ d.reason_codes = ReasonCodes(txn, ml) \cup Triggered(txn, profile)
  BY DEF Decision

-----------------------------------------------------------------------------
\* For every transaction, user, probability and threshold: POST /transactions/predict
\* flags nothing that the submission of any user clears, and says no more.
THEOREM PreviewIsLowerBound ==
  ASSUME NEW txn, TransactionInput(txn), NEW profile, IsProfile(profile),
         NEW ml \in Nat, NEW thr \in Nat, NEW noise \in Noise
  PROVE  LET preview   == Decision(txn, EmptyProfile(txn), ml, thr, noise)
             submitted == Decision(txn, profile, ml, thr, noise)
         IN  /\ preview.fraud_flag => submitted.fraud_flag
             /\ preview.fraud_probability <= submitted.fraud_probability
  <1> DEFINE few  == Triggered(txn, EmptyProfile(txn))
             many == Triggered(txn, profile)
  <1>1. few \in SUBSET many /\ few \in SUBSET DOMAIN RuleScore /\ many \in SUBSET DOMAIN RuleScore
    BY PreviewTriggersLess, TriggeredAreRules
  <1> HIDE DEF few, many
  <1>2. Top(few) <= Top(many) /\ Top(few) \in Nat /\ Top(many) \in Nat
    BY <1>1, TopGrows, TopScore
  <1>3. Blend(ml, few, noise) <= Blend(ml, many, noise)
    BY <1>1, <1>2, BlendOfTop DEF Noise
  <1>4. ASSUME NEW x \in Int, NEW y \in Int, x <= y PROVE Rounded(x) <= Rounded(y)
    <2>1. 100 * Rounded(x) <= x + 50 /\ y + 50 < 100 * Rounded(y) + 100
      BY Rounding
    <2>2. Rounded(x) \in Int /\ Rounded(y) \in Int
      BY Rounding
    <2> QED BY <1>4, <2>1, <2>2
  <1>5. /\ Rounded(Blend(ml, few, noise)) \in Int /\ Rounded(Blend(ml, many, noise)) \in Int
        /\ Rounded(Blend(ml, few, noise)) <= Rounded(Blend(ml, many, noise))
    <2>1. PICK x \in Int : x = Blend(ml, few, noise)
      BY <1>1, BlendOfTop
    <2>2. PICK y \in Int : y = Blend(ml, many, noise)
      <3>1. many \in SUBSET DOMAIN RuleScore
        BY <1>1
      <3> QED BY <3>1, BlendOfTop
    <2>3. x <= y /\ Rounded(x) \in Int /\ Rounded(y) \in Int
      BY <1>3, <2>1, <2>2, Rounding
    <2>4. Rounded(x) <= Rounded(y)
      BY <1>4, <2>3
    <2> QED BY <2>1, <2>2, <2>3, <2>4
  <1>6. Rounded(Blend(ml, few, noise)) >= 100 * thr => Rounded(Blend(ml, many, noise)) >= 100 * thr
    BY <1>5
  <1> DEFINE preview   == Decision(txn, EmptyProfile(txn), ml, thr, noise)
             submitted == Decision(txn, profile, ml, thr, noise)
  <1>7. /\ preview.fraud_probability = Rounded(Blend(ml, few, noise))
        /\ preview.fraud_flag <=> Rounded(Blend(ml, few, noise)) >= 100 * thr
    BY Fields DEF few
  <1>8. /\ submitted.fraud_probability = Rounded(Blend(ml, many, noise))
        /\ submitted.fraud_flag <=> Rounded(Blend(ml, many, noise)) >= 100 * thr
    BY Fields DEF many
  <1> HIDE DEF preview, submitted
  <1>9. preview.fraud_flag => submitted.fraud_flag
    BY <1>6, <1>7, <1>8
  <1>10. preview.fraud_probability <= submitted.fraud_probability
    BY <1>5, <1>7, <1>8
  <1> QED BY <1>9, <1>10 DEF preview, submitted

\* For every transaction and profile: under the threshold 0.5 a flagged transaction is
\* LOW only when rounding lifts its score to 0.5, and a cleared one is always LOW.
THEOREM LevelAndFlag ==
  ASSUME NEW txn, NEW profile, NEW ml \in Nat, NEW noise \in Noise
  PROVE  LET d == Decision(txn, profile, ml, 50, noise) IN
         /\ d.fraud_flag /\ d.risk_level = "LOW" => d.fraud_probability = 5000
         /\ ~d.fraud_flag => d.risk_level = "LOW"
  <1>1. PICK score \in Int : score = Blend(ml, Triggered(txn, profile), noise)
    BY TriggeredAreRules, BlendOfTop
  <1>2. /\ Rounded(score) \in Int /\ 100 * Rounded(score) <= score + 50
        /\ score + 50 < 100 * Rounded(score) + 100
    BY Rounding
  <1>3. RiskLevel(score) = "LOW" => score < 500000
    BY DEF RiskLevel
  <1>4. score < 500000 => RiskLevel(score) = "LOW"
    BY DEF RiskLevel
  <1>5. /\ Rounded(score) >= 100 * 50 /\ score < 500000 => Rounded(score) = 5000
        /\ ~(Rounded(score) >= 100 * 50) => score < 500000
    BY <1>2
  <1> DEFINE d == Decision(txn, profile, ml, 50, noise)
  <1>6. /\ d.fraud_probability = Rounded(score) /\ d.risk_level = RiskLevel(score)
        /\ d.fraud_flag <=> Rounded(score) >= 100 * 50
    BY <1>1, Fields
  <1> HIDE DEF d
  <1>7. d.fraud_flag /\ d.risk_level = "LOW" => d.fraud_probability = 5000
    BY <1>3, <1>5, <1>6
  <1>8. ~d.fraud_flag => d.risk_level = "LOW"
    BY <1>4, <1>5, <1>6
  <1> QED BY <1>7, <1>8 DEF d

\* For every transaction and profile: from a threshold of 0.35 on, what is flagged has
\* a reason to show.
THEOREM FlaggedHasReason ==
  ASSUME NEW txn, NEW profile, NEW ml \in Nat, NEW noise \in Noise,
         NEW thr \in Nat, thr >= 35, Decision(txn, profile, ml, thr, noise).fraud_flag
  PROVE  Decision(txn, profile, ml, thr, noise).reason_codes # {}
  <1>1. CASE Triggered(txn, profile) # {}
    BY <1>1, Fields
  <1>2. CASE Triggered(txn, profile) = {}
    <2>1. {} \in SUBSET DOMAIN RuleScore /\ Top({}) = 0
      BY TopScore
    <2>2. PICK score \in Int : score = 70 * ml + noise
      BY DEF Noise
    <2>3. Blend(ml, Triggered(txn, profile), noise) = score
      <3>1. Blend(ml, {}, noise) = 70 * ml + 30000 * Top({}) + noise
        BY <2>1, BlendOfTop
      <3>2. noise \in Int
        BY DEF Noise
      <3>3. 70 * ml + 30000 * 0 + noise = 70 * ml + noise
        BY <3>2
      <3> QED BY <1>2, <2>1, <2>2, <3>1, <3>3
    <2>4. Rounded(score) >= 100 * thr
      BY <2>3, Fields, Zenon
    <2>5. Rounded(score) \in Int /\ 100 * Rounded(score) <= score + 50
      BY Rounding
    <2>6. ml >= 5000
      <3>1. noise \in {-1, 0, 1}
        BY DEF Noise
      <3> QED BY <2>2, <2>4, <2>5, <3>1
    <2>7. ReasonCodes(txn, ml) # {}
      BY <2>6 DEF ReasonCodes
    <2> QED BY <2>7, Fields
  <1> QED BY <1>1, <1>2

\* For every transaction, profile and threshold: what the backend flags and the offline
\* programs do not is the work of a rule whose score is above the probability.
THEOREM FlagsDifferByRule ==
  ASSUME NEW txn, NEW profile, NEW ml \in Nat, NEW noise \in Noise, NEW thr \in Nat,
         Decision(txn, profile, ml, thr, noise).fraud_flag, ~OfflineFlag(ml, thr)
  PROVE  \E rule \in Triggered(txn, profile) : 1000 * RuleScore[rule] > ml
  <1> DEFINE rules == Triggered(txn, profile)
  <1>1. rules \in SUBSET DOMAIN RuleScore
    BY TriggeredAreRules
  <1>2. Rounded(Blend(ml, rules, noise)) >= 100 * thr
    BY Fields, Zenon
  <1>6. ml < 100 * thr
    BY DEF OfflineFlag
  <1> HIDE DEF rules
  <1>3. Top(rules) \in Nat /\ noise \in {-1, 0, 1}
    BY <1>1, TopScore DEF Noise
  <1>4. 1000 * Top(rules) > ml
    <2>1. PICK score \in Int : score = Blend(ml, rules, noise)
      BY <1>1, BlendOfTop
    <2>2. score = 70 * ml + 30000 * Top(rules) + noise
      BY <1>1, <2>1, BlendOfTop
    <2>3. Rounded(score) \in Int /\ 100 * Rounded(score) <= score + 50
      BY Rounding
    <2>4. Rounded(score) >= ml + 1
      BY <1>2, <1>6, <2>1, <2>3
    <2> QED BY <1>3, <2>2, <2>3, <2>4
  <1>5. PICK rule \in rules : RuleScore[rule] = Top(rules)
    BY <1>1, <1>3, <1>4, TopScore
  <1> QED BY <1>4, <1>5 DEF rules

\* The place of a driver among those that apply: none comes before the first.
LEMMA FirstDriver ==
  ASSUME NEW found \in SUBSET (1 .. 9), NEW i \in found, \A j \in found : i <= j
  PROVE  i = CHOOSE k \in found : Cardinality({j \in found : j < k}) = 1 - 1
  <1>1. \A k \in found : IsFiniteSet({j \in found : j < k})
    <2>1. 1 \in Int /\ 9 \in Int
      OBVIOUS
    <2>2. IsFiniteSet(1 .. 9)
      BY <2>1, FS_Interval
    <2> QED BY <2>2, FS_Subset
  <1>2. ASSUME NEW k \in found
        PROVE  Cardinality({j \in found : j < k}) = 1 - 1 <=> k = i
    <2>1. Cardinality({j \in found : j < k}) = 0 <=> {j \in found : j < k} = {}
      BY <1>1, FS_EmptySet
    <2>2. \A j \in found : j \in Int
      OBVIOUS
    <2>3. k = i => {j \in found : j < k} = {}
      <3>1. \A j \in found : ~(j < i)
        BY <2>2
      <3> QED BY <3>1
    <2>4. k # i => i \in {j \in found : j < k}
      BY <2>2
    <2>5. 1 - 1 = 0
      OBVIOUS
    <2> QED BY <2>1, <2>3, <2>4, <2>5
  <1> QED BY <1>2

\* For every transaction, probability, threshold and cutoff: what the offline programs
\* flag is explained by the score first, and there are at most five reasons.
THEOREM OfflineExplained ==
  ASSUME NEW txn, NEW ml \in Nat, NEW thr \in Nat, NEW cutoff
  PROVE  LET reasons == OfflineReasons(txn, ml, thr, cutoff) IN
         /\ OfflineFlag(ml, thr) => reasons[1] \in {"critical", "review"}
         /\ Len(reasons) \in 1 .. 5
  <1> DEFINE found   == Applying(txn, ml, thr, cutoff)
             Nth(n)  == Driver[CHOOSE i \in found : Cardinality({j \in found : j < i}) = n - 1]
             reasons == OfflineReasons(txn, ml, thr, cutoff)
             size    == Min({5, Cardinality(found)})
  <1>1. found \in SUBSET (1 .. 9) /\ Driver[1] = "critical" /\ Driver[2] = "review"
    BY DEF Applying, Driver
  <1>2. OfflineFlag(ml, thr) => 1 \in found \/ 2 \in found
    BY DEF Applying, Driver, OfflineFlag
  <1>3. reasons = IF found = {} THEN <<"none">> ELSE [n \in 1 .. size |-> Nth(n)]
    BY DEF OfflineReasons
  <1> HIDE DEF found, reasons
  <1>4. CASE found = {}
    <2>1. reasons = <<"none">> /\ Len(<<"none">>) = 1
      BY <1>3, <1>4
    <2>2. ~OfflineFlag(ml, thr)
      BY <1>2, <1>4
    <2> QED BY <2>1, <2>2 DEF reasons
  <1>5. CASE found # {}
    <2>1. Cardinality(found) \in Nat \ {0}
      <3>1. 1 \in Int /\ 9 \in Int
        OBVIOUS
      <3>2. IsFiniteSet(1 .. 9)
        BY <3>1, FS_Interval
      <3>3. IsFiniteSet(found)
        BY <1>1, <3>2, FS_Subset
      <3> QED BY <1>5, <3>3, FS_CardinalityType, FS_EmptySet
    <2>2. size \in 1 .. 5
      <3>1. CASE Cardinality(found) <= 5
        BY <2>1, <3>1 DEF Min
      <3>2. CASE Cardinality(found) > 5
        BY <2>1, <3>2 DEF Min
      <3> QED BY <2>1, <3>1, <3>2
    <2> HIDE DEF size
    <2>3. reasons = [n \in 1 .. size |-> Nth(n)]
      BY <1>3, <1>5
    <2>4. reasons[1] = Nth(1)
      BY <2>2, <2>3
    <2>5. Len(reasons) = size
      BY <2>2, <2>3
    <2>6. ASSUME OfflineFlag(ml, thr) PROVE reasons[1] \in {"critical", "review"}
      <3>1. CASE 1 \in found
        <4>1. \A j \in found : 1 <= j
          BY <1>1
        <4>2. 1 = CHOOSE k \in found : Cardinality({j \in found : j < k}) = 1 - 1
          BY <1>1, <3>1, <4>1, FirstDriver
        <4> QED BY <1>1, <2>4, <4>2
      <3>2. CASE 1 \notin found
        <4>1. 2 \in found
          BY <1>2, <2>6, <3>2
        <4>2. \A j \in found : 2 <= j
          BY <1>1, <3>2
        <4>3. 2 = CHOOSE k \in found : Cardinality({j \in found : j < k}) = 1 - 1
          BY <1>1, <4>1, <4>2, FirstDriver
        <4> QED BY <1>1, <2>4, <4>3
      <3> QED BY <3>1, <3>2
    <2> QED BY <2>2, <2>5, <2>6 DEF reasons
  <1> QED BY <1>4, <1>5

-----------------------------------------------------------------------------
\* While a model is being written its file is torn and nothing is in order.
Written == train.pc = "writing" => train.model \in Model /\ file = Torn /\ order = "none"

\* The evaluation runs on the model of the file.
Loaded == order = "loaded" => file \in Model /\ eval # Idle /\ eval.model = file

\* The evaluation is over, and threshold.json is about the model of the file.
Evaluated ==
    order \in {"evaluated", "started", "served"} =>
        eval = Idle /\ file \in Model /\ threshold = Choice[file]

\* The backend has read its model in order, and perhaps its threshold.
Starting ==
    /\ order = "started" =>
           server.pc = "loading" /\ (server.from = "file" => server.model = file)
    /\ order = "served" =>
           server.pc = "up" /\ (server.from = "file" => server.threshold.of = server.model)

\* The page or score_file has read its model in order, and perhaps its threshold: who
\* evaluates since evaluates the same model.
Opening ==
    /\ offline.pc = "loading" /\ offline.inOrder =>
           /\ file \in Model /\ offline.model = file
           /\ threshold = Choice[file] \/ threshold.of = Torn
           /\ eval # Idle => eval.model = file
    /\ offline.pc = "up" /\ offline.inOrder => offline.threshold.of = offline.model

IInv == Written /\ Loaded /\ Evaluated /\ Starting /\ Opening

\* A model is never the mark of a torn or missing file, and its threshold names it.
LEMMA ChoiceNamesModel ==
  ASSUME NEW model \in Model
  PROVE  Choice[model].of = model /\ model # Torn /\ model # None
  BY ServingAssumption DEF Choice, None, Torn, Stub

\* Nothing has been done in order at the start.
LEMMA Initially == Init => IInv
  BY DEF Init, IInv, Written, Loaded, Evaluated, Starting, Opening, Idle, Down

\* Every step keeps the five parts.
LEMMA Steps == IInv /\ [Next]_vars => IInv'
  <1> SUFFICES ASSUME IInv, [Next]_vars PROVE IInv'
    OBVIOUS
  <1> USE DEF IInv
  <1>1. ASSUME NEW model \in Model, TrainOpen(model) PROVE IInv'
    <2>1. Written'
      BY <1>1 DEF TrainOpen, Written
    <2>2. Loaded'
      BY <1>1 DEF TrainOpen, Loaded
    <2>3. Evaluated'
      BY <1>1 DEF TrainOpen, Evaluated
    <2>4. Starting'
      BY <1>1 DEF TrainOpen, Starting
    <2>5. Opening'
      BY <1>1 DEF TrainOpen, Opening
    <2> QED BY <2>1, <2>2, <2>3, <2>4, <2>5
  <1>2. CASE TrainWrite
    <2>1. Written'
      BY <1>2 DEF TrainWrite, Written
    <2>2. Loaded'
      BY <1>2 DEF TrainWrite, Loaded
    <2>3. Evaluated'
      BY <1>2 DEF TrainWrite, Evaluated
    <2>4. Starting'
      BY <1>2 DEF TrainWrite, Starting
    <2>5. Opening'
      BY <1>2, ChoiceNamesModel DEF TrainWrite, Written, Opening
    <2> QED BY <2>1, <2>2, <2>3, <2>4, <2>5
  <1>3. CASE TrainLog
    <2>1. Written'
      BY <1>3 DEF TrainLog, Written, Idle
    <2>2. Loaded' /\ Evaluated' /\ Starting' /\ Opening'
      BY <1>3 DEF TrainLog, Loaded, Evaluated, Starting, Opening
    <2> QED BY <2>1, <2>2
  <1>4. CASE TrainDies
    <2>1. Written'
      BY <1>4 DEF TrainDies, Written, Idle
    <2>2. Loaded' /\ Evaluated' /\ Starting' /\ Opening'
      BY <1>4 DEF TrainDies, Loaded, Evaluated, Starting, Opening
    <2> QED BY <2>1, <2>2
  <1>5. CASE EvalLoad
    <2>1. Written'
      BY <1>5, ChoiceNamesModel DEF EvalLoad, Written
    <2>2. Loaded'
      BY <1>5 DEF EvalLoad, Loaded, Idle
    <2>3. Evaluated'
      BY <1>5 DEF EvalLoad, Evaluated
    <2>4. Starting'
      BY <1>5 DEF EvalLoad, Starting
    <2>5. Opening'
      BY <1>5 DEF EvalLoad, Opening
    <2> QED BY <2>1, <2>2, <2>3, <2>4, <2>5
  <1>6. CASE EvalOpen
    <2>1. Loaded'
      BY <1>6 DEF EvalOpen, Loaded, Idle
    <2>2. Evaluated'
      BY <1>6 DEF EvalOpen, Evaluated, Idle
    <2>3. Opening'
      BY <1>6 DEF EvalOpen, Opening, Idle
    <2>4. Written' /\ Starting'
      BY <1>6 DEF EvalOpen, Written, Starting
    <2> QED BY <2>1, <2>2, <2>3, <2>4
  <1>7. CASE EvalWrite
    <2>1. Written'
      BY <1>7 DEF EvalWrite, Written, Advance
    <2>2. Loaded'
      BY <1>7 DEF EvalWrite, Loaded, Advance
    <2>3. Evaluated'
      BY <1>7 DEF EvalWrite, Loaded, Evaluated, Idle, Advance
    <2>4. Starting'
      BY <1>7 DEF EvalWrite, Starting, Advance
    <2>5. Opening'
      BY <1>7 DEF EvalWrite, Opening, Idle
    <2> QED BY <2>1, <2>2, <2>3, <2>4, <2>5
  <1>8. CASE EvalDies
    <2>1. Written'
      BY <1>8 DEF EvalDies, Written, Advance
    <2>2. Loaded'
      BY <1>8 DEF EvalDies, Loaded, Advance
    <2>3. Evaluated'
      BY <1>8 DEF EvalDies, Evaluated, Advance
    <2>4. Starting'
      BY <1>8 DEF EvalDies, Starting, Advance
    <2>5. Opening'
      BY <1>8 DEF EvalDies, Opening
    <2> QED BY <2>1, <2>2, <2>3, <2>4, <2>5
  <1>9. CASE Promote
    BY <1>9 DEF Promote, Written, Loaded, Evaluated, Starting, Opening
  <1>10. CASE Start
    <2>1. Written'
      BY <1>10 DEF Start, Written, Advance
    <2>2. Loaded'
      BY <1>10 DEF Start, Loaded, Advance
    <2>3. Evaluated'
      BY <1>10 DEF Start, Evaluated, Advance
    <2>4. Starting'
      BY <1>10, ChoiceNamesModel DEF Start, Evaluated, Starting, Down, Advance, Loading
    <2>5. Opening'
      BY <1>10 DEF Start, Opening
    <2> QED BY <2>1, <2>2, <2>3, <2>4, <2>5
  <1>11. CASE ReadThreshold
    <2>1. Written'
      BY <1>11 DEF ReadThreshold, Written, Advance
    <2>2. Loaded'
      BY <1>11 DEF ReadThreshold, Loaded, Advance
    <2>3. Evaluated'
      BY <1>11 DEF ReadThreshold, Evaluated, Advance
    <2>4. Starting'
      BY <1>11, ChoiceNamesModel DEF ReadThreshold, Evaluated, Starting, Advance, Up
    <2>5. Opening'
      BY <1>11 DEF ReadThreshold, Opening
    <2> QED BY <2>1, <2>2, <2>3, <2>4, <2>5
  <1>12. CASE Stop
    <2>1. Written'
      BY <1>12 DEF Stop, Written
    <2>2. Loaded'
      BY <1>12 DEF Stop, Loaded
    <2>3. Evaluated'
      BY <1>12 DEF Stop, Evaluated
    <2>4. Starting'
      BY <1>12 DEF Stop, Starting
    <2>5. Opening'
      BY <1>12 DEF Stop, Opening
    <2> QED BY <2>1, <2>2, <2>3, <2>4, <2>5
  <1>13. CASE LoadOffline
    <2>1. Opening'
      BY <1>13 DEF LoadOffline, Evaluated, Opening
    <2>2. Written' /\ Loaded' /\ Evaluated' /\ Starting'
      BY <1>13 DEF LoadOffline, Written, Loaded, Evaluated, Starting
    <2> QED BY <2>1, <2>2
  <1>14. CASE ReadThresholdOffline
    <2>1. Opening'
      BY <1>14, ChoiceNamesModel DEF ReadThresholdOffline, Opening
    <2>2. Written' /\ Loaded' /\ Evaluated' /\ Starting'
      BY <1>14 DEF ReadThresholdOffline, Written, Loaded, Evaluated, Starting
    <2> QED BY <2>1, <2>2
  <1>15. CASE StopOffline
    <2>1. Opening'
      BY <1>15 DEF StopOffline, Opening, Down
    <2>2. Written' /\ Loaded' /\ Evaluated' /\ Starting'
      BY <1>15 DEF StopOffline, Written, Loaded, Evaluated, Starting
    <2> QED BY <2>1, <2>2
  <1>16. CASE UNCHANGED vars
    BY <1>16 DEF vars, Written, Loaded, Evaluated, Starting, Opening
  <1> QED BY <1>1, <1>2, <1>3, <1>4, <1>5, <1>6, <1>7, <1>8, <1>9,
             <1>10, <1>11, <1>12, <1>13, <1>14, <1>15, <1>16
         DEF Next

\* All five hold in every state.
THEOREM Invariance == Spec => []IInv
  BY Initially, Steps, PTL DEF Spec

\* Every step keeps the types.
LEMMA TypesStep == TypeOK /\ [Next]_vars => TypeOK'
  <1> SUFFICES ASSUME TypeOK, [Next]_vars PROVE TypeOK'
    OBVIOUS
  <1>1. ASSUME NEW model \in Model, TrainOpen(model) PROVE TypeOK'
    BY <1>1 DEF TrainOpen, TypeOK
  <1>2. CASE TrainWrite
    BY <1>2 DEF TrainWrite, TypeOK, Idle
  <1>3. CASE TrainLog
    BY <1>3 DEF TrainLog, TypeOK, Idle
  <1>4. CASE TrainDies
    BY <1>4 DEF TrainDies, TypeOK
  <1>5. CASE EvalLoad
    BY <1>5 DEF EvalLoad, TypeOK
  <1>6. CASE EvalOpen
    BY <1>6 DEF EvalOpen, TypeOK, Idle
  <1>7. CASE EvalWrite
    BY <1>7 DEF EvalWrite, TypeOK, Idle, Advance, Thresholds
  <1>8. CASE EvalDies
    BY <1>8 DEF EvalDies, TypeOK, Advance
  <1>9. CASE Promote
    BY <1>9 DEF Promote, TypeOK
  <1>10. CASE Start
    BY <1>10 DEF Start, TypeOK, Advance, Loading, Up
  <1>11. CASE ReadThreshold
    BY <1>11 DEF ReadThreshold, TypeOK, Down, Advance, Up
  <1>12. CASE Stop
    BY <1>12 DEF Stop, TypeOK, Down
  <1>13. CASE LoadOffline
    BY <1>13 DEF LoadOffline, TypeOK
  <1>14. CASE ReadThresholdOffline
    BY <1>14 DEF ReadThresholdOffline, TypeOK
  <1>15. CASE StopOffline
    BY <1>15 DEF StopOffline, TypeOK, Down
  <1>16. CASE UNCHANGED vars
    BY <1>16 DEF vars, TypeOK
  <1> QED BY <1>1, <1>2, <1>3, <1>4, <1>5, <1>6, <1>7, <1>8, <1>9,
             <1>10, <1>11, <1>12, <1>13, <1>14, <1>15, <1>16
         DEF Next

\* Type correctness: what is in Production was logged by a training, and a backend that
\* is up serves the stub or a model, never a torn file, under a threshold that
\* evaluate.py wrote or the default.
THEOREM TypeCorrect == Spec => []TypeOK
  <1>1. Init => TypeOK
    BY DEF Init, TypeOK, Thresholds, Idle, Down
  <1> QED BY <1>1, TypesStep, PTL DEF Spec

\* docs/mlops.md:25 for every set of models: after training, evaluation and a restart
\* of the backend, of the page or of score_file in this order, the model of the file
\* is used with the threshold chosen for it, whoever died before or in between.
THEOREM ServedInOrder == Spec => []MatchedInOrder
  <1>1. IInv => MatchedInOrder
    BY DEF IInv, Starting, Opening, MatchedInOrder
  <1> QED BY <1>1, Invariance, PTL

-----------------------------------------------------------------------------
\* A threshold that names a model is the row chosen for it.
LEMMA ThresholdOfModel ==
  ASSUME TypeOK, threshold.of \in Model
  PROVE  /\ threshold.row = PickBest(Results(threshold.of))
         /\ threshold.row = Candidate[threshold.of]["cost_optimized"]
         /\ Table[threshold.of] = Results(threshold.of)
         /\ Candidate[threshold.of] = Candidates(Results(threshold.of))
  <1>1. PICK model \in Model : threshold = Choice[model]
    BY ServingAssumption DEF TypeOK, Thresholds, Torn
  <1>2. threshold.of = model /\ threshold.row = PickBest(Results(model))
    BY <1>1 DEF Choice
  <1>3. Table[model] = Results(model) /\ Candidate[model] = Candidates(Results(model))
    BY DEF Table, Candidate
  <1>4. Candidates(Results(model))["cost_optimized"] = PickBest(Results(model))
    BY SameChoice
  <1> QED BY <1>2, <1>3, <1>4

\* For every test set, model and grid: against the threshold that evaluate.py selects no
\* other one pays, counted case by case.
THEOREM NoneOtherPays == Spec => []NoOtherThresholdPays
  <1>1. TypeOK => NoOtherThresholdPays
    <2> SUFFICES ASSUME TypeOK, threshold.of \in Model
                 PROVE  threshold.row.threshold \in Unbeaten[threshold.of]
      BY DEF NoOtherThresholdPays
    <2> DEFINE model == threshold.of
               thr   == threshold.row.threshold
    <2>1. /\ threshold.row \in Results(model)
          /\ \A row \in Results(model) : 10 * threshold.row.fn + threshold.row.fp <= 10 * row.fn + row.fp
      BY ThresholdOfModel, PickedIsCheapest
    <2>2. thr \in Grid /\ threshold.row = RowOf(model, thr)
      BY <2>1, ResultRows DEF IsRow
    <2>3. ASSUME NEW other \in Grid
          PROVE  LET gained == Flagged(model, other) \ Flagged(model, thr)
                     lost   == Flagged(model, thr) \ Flagged(model, other)
                 IN  10 * Cardinality(gained \cap Fraud) + Cardinality(lost \ Fraud)
                         <= 10 * Cardinality(lost \cap Fraud) + Cardinality(gained \ Fraud)
      <3>1. RowOf(model, other) \in Results(model)
        BY DEF Results
      <3>2. 10 * RowOf(model, thr).fn + RowOf(model, thr).fp
                <= 10 * RowOf(model, other).fn + RowOf(model, other).fp
        BY <2>1, <2>2, <3>1
      <3> HIDE DEF model, thr
      <3> QED BY <2>2, <3>2, CaseByCase
    <2> HIDE DEF thr
    <2>4. thr \in Unbeaten[model]
      BY <2>2, <2>3 DEF Unbeaten
    <2> QED BY <2>4 DEF thr
  <1> QED BY <1>1, TypeCorrect, PTL

\* For every model: the threshold that evaluate.py selects is the one that
\* threshold_policy.py recommends.
THEOREM SelectedIsRecommended == Spec => []RecommendedIsSelected
  <1>1. TypeOK => RecommendedIsSelected
    BY ThresholdOfModel DEF RecommendedIsSelected
  <1> QED BY <1>1, TypeCorrect, PTL

\* For every test set, model and grid: a policy has a candidate exactly if a threshold
\* meets its target, and then the candidate meets it.
THEOREM TargetsMet == Spec => []TargetsAreMet
  <1>1. TypeOK => TargetsAreMet
    <2> SUFFICES ASSUME TypeOK, threshold.of \in Model PROVE TargetsAreMet
      BY DEF TargetsAreMet
    <2> DEFINE model == threshold.of
               rows  == Results(model)
               found == Candidates(rows)
               Meets(policy, row) ==
                 CASE policy = "high_recall"    -> 100 * row.tp >= 95 * Cardinality(Fraud)
                   [] policy = "high_precision" -> row.tp > 0 /\ 30 * row.tp >= 70 * row.fp
                   [] OTHER                     -> row.tp + row.fp > 0
                                                   /\ 10 * (row.tp + row.fp) <= Cardinality(Case)
    <2>1. ASSUME NEW policy \in {"high_recall", "high_precision", "review_capacity"}, NEW row \in rows
          PROVE  row \in Pool(policy, rows) <=> Meets(policy, row)
      <3>1. CASE policy = "high_recall"
        BY <3>1, PoolMeets
      <3>2. CASE policy = "high_precision"
        BY <3>2, PoolMeets
      <3>3. CASE policy = "review_capacity"
        BY <3>3, PoolMeets
      <3> QED BY <3>1, <3>2, <3>3
    <2>2. ASSUME NEW policy \in {"high_recall", "high_precision", "review_capacity"}
          PROVE  /\ policy \in Policy /\ Pool(policy, rows) \subseteq rows
                 /\ policy \in DOMAIN found <=> Pool(policy, rows) # {}
                 /\ Pool(policy, rows) # {} => found[policy] \in Pool(policy, rows)
      <3>1. policy \in Policy
        BY DEF Policy
      <3>2. Pool(policy, rows) \subseteq rows
        BY DEF Pool
      <3>3. policy \in DOMAIN found <=> Pool(policy, rows) # {}
        BY <3>1 DEF Candidates
      <3>4. Pool(policy, rows) # {} => found[policy] \in Pool(policy, rows)
        BY <3>1, CandidateIsLeast
      <3> QED BY <3>1, <3>2, <3>3, <3>4
    <2>3. Table[model] = rows /\ Candidate[model] = found
      BY ThresholdOfModel
    <2> HIDE DEF rows, found, Meets
    <2>4. ASSUME NEW policy \in {"high_recall", "high_precision", "review_capacity"}
          PROVE  /\ policy \in DOMAIN found => Meets(policy, found[policy])
                 /\ (\E row \in rows : Meets(policy, row)) => policy \in DOMAIN found
      <3>1. policy \in DOMAIN found => Meets(policy, found[policy])
        BY <2>1, <2>2
      <3>2. (\E row \in rows : Meets(policy, row)) => policy \in DOMAIN found
        BY <2>1, <2>2
      <3> QED BY <3>1, <3>2
    <2> QED BY <2>3, <2>4 DEF TargetsAreMet, Meets
  <1> QED BY <1>1, TypeCorrect, PTL

\* For every test set, model and grid: if the threshold recommended reaches the recall
\* target, the policy that insists on recall costs the same and reviews no more.
THEOREM RecallReviewsNoMore == Spec => []RecallPolicyReviewsNoMore
  <1>1. TypeOK => RecallPolicyReviewsNoMore
    <2> SUFFICES ASSUME TypeOK, threshold.of \in Model PROVE RecallPolicyReviewsNoMore
      BY DEF RecallPolicyReviewsNoMore
    <2> DEFINE model == threshold.of
               rows  == Results(model)
               pool  == Pool("high_recall", rows)
               best  == Candidates(rows)["cost_optimized"]
               found == Candidates(rows)["high_recall"]
    <2> SUFFICES ASSUME ~Below(Recall(best), Over(95, 100))
                 PROVE  Cost(found) = Cost(best) /\ ~Below(FlaggedRate(best), FlaggedRate(found))
      BY ThresholdOfModel DEF RecallPolicyReviewsNoMore
    <2>1. /\ "cost_optimized" \in Policy /\ "high_recall" \in Policy
          /\ Pool("cost_optimized", rows) = rows /\ rows # {}
      BY SameChoice, ResultRows DEF Policy
    <2>2. /\ \A row : KeyOf("cost_optimized", row)[1] = Cost(row)
          /\ \A row : KeyOf("high_recall", row)[1] = Cost(row)
          /\ \A row : KeyOf("high_recall", row)[2] = OrOne(FlaggedRate(row))
      BY DEF KeyOf
    <2>3. best \in rows
      BY <2>1, CandidateIsLeast
    <2>4. best \in pool
      BY <2>3 DEF Pool
    <2>5. found \in pool
      BY <2>1, <2>4, CandidateIsLeast
    <2>6. found \in rows
      BY <2>5 DEF Pool
    <2>7. ~Below(Cost(found), Cost(best))
      BY <2>1, <2>2, <2>6, CandidateIsLeast
    <2>8. /\ ~Below(Cost(best), Cost(found))
          /\ Below(Cost(found), Cost(best)) \/ ~Below(OrOne(FlaggedRate(best)), OrOne(FlaggedRate(found)))
      BY <2>1, <2>2, <2>4, CandidateIsLeast
    <2>9. ASSUME NEW row \in pool
          PROVE  /\ OrOne(FlaggedRate(row)) = FlaggedRate(row)
                 /\ \E n \in Nat : Cost(row) = [num |-> n, den |-> 1]
      <3>1. row \in rows /\ IsRow(row)
        BY ResultRows DEF Pool
      <3>2. 100 * row.tp >= 95 * Cardinality(Fraud)
        BY <3>1, PoolMeets
      <3>3. PICK tp \in Nat, fp \in Nat, tn \in Nat, fn \in Nat :
              tp = row.tp /\ fp = row.fp /\ tn = row.tn /\ fn = row.fn
        BY <3>1 DEF IsRow
      <3>4. tp > 0
        BY <3>2, <3>3, Cases
      <3>5. OrOne(FlaggedRate(row)) = FlaggedRate(row)
        BY <3>3, <3>4 DEF OrOne, FlaggedRate, Over
      <3>6. Cost(row) = [num |-> 10 * fn + 1 * fp, den |-> 1]
        BY <3>3 DEF Cost, Whole, COST_FALSE_NEGATIVE, COST_FALSE_POSITIVE
      <3> QED BY <3>5, <3>6
    <2> HIDE DEF best, found, pool, rows
    <2>10. Cost(found) = Cost(best)
      <3>1. PICK x \in Nat : Cost(found) = [num |-> x, den |-> 1]
        BY <2>5, <2>9
      <3>2. PICK y \in Nat : Cost(best) = [num |-> y, den |-> 1]
        BY <2>4, <2>9
      <3>3. ~(x * 1 < y * 1) /\ ~(y * 1 < x * 1)
        BY <2>7, <2>8, <3>1, <3>2 DEF Below
      <3> QED BY <3>1, <3>2, <3>3
    <2>11. ~Below(FlaggedRate(best), FlaggedRate(found))
      BY <2>4, <2>5, <2>7, <2>8, <2>9
    <2> QED BY <2>10, <2>11
  <1> QED BY <1>1, TypeCorrect, PTL

\* The thresholds in use, and what is judged by them.
LEMMA ThresholdsInUse ==
  ASSUME TypeOK
  PROVE  /\ server.pc = "up" => server.threshold.row.threshold \in Grid \cup {50}
         /\ offline.pc = "up" => offline.threshold.row.threshold \in Grid
         /\ \A thr \in Grid \cup {50} : thr \in Nat
  <1>1. ASSUME NEW thr \in Thresholds PROVE thr.row.threshold \in Grid
    <2>1. PICK model \in Model : thr = Choice[model]
      BY DEF Thresholds
    <2>2. thr.row \in Results(model)
      BY <2>1, PickedIsCheapest DEF Choice
    <2> QED BY <2>2, ResultRows DEF IsRow
  <1>2. Default.row.threshold = 50
    BY DEF Default
  <1>3. \A thr \in Grid : thr \in Nat
    <2>1. \A thr \in Grid : thr \in 1 .. 99
      BY PolicyAssumption
    <2> QED BY <2>1
  <1>4. server.pc = "up" => server.threshold.row.threshold \in Grid \cup {50}
    BY <1>1, <1>2 DEF TypeOK
  <1>5. offline.pc = "up" => offline.threshold.row.threshold \in Grid
    BY <1>1 DEF TypeOK
  <1> QED BY <1>3, <1>4, <1>5

\* Whatever is judged has the types the rules are about.
LEMMA Judgements ==
  ASSUME NEW txn \in Txn
  PROVE  /\ TransactionInput(txn)
         /\ \A ml \in Prob : ml \in Nat
         /\ \A stub \in BOOLEAN : \A ml \in Says(stub, txn) : ml \in Nat
         /\ \A profile \in Profile : IsProfile(profile)
  <1>1. TransactionInput(txn)
    BY ScoringAssumption
  <1>2. \A ml \in Prob : ml \in Nat
    <2>1. Prob \subseteq 0 .. 10000
      BY ScoringAssumption
    <2> QED BY <2>1
  <1>3. StubScore(txn) \in Nat
    <2>1. {txn.device_risk_score, txn.ip_risk_score} \subseteq 0 .. 100
      BY <1>1 DEF TransactionInput
    <2>2. PICK device \in 0 .. 100, ip \in 0 .. 100 :
            device = txn.device_risk_score /\ ip = txn.ip_risk_score
      BY <2>1
    <2>3. 40 * (device + ip) \in Nat
      OBVIOUS
    <2> QED BY <2>2, <2>3 DEF StubScore
  <1>4. \A profile \in Profile : IsProfile(profile)
    BY ScoringAssumption DEF IsProfile
  <1> QED BY <1>1, <1>2, <1>3, <1>4 DEF Says

\* Each judgement comes from a profile, a probability and a last bit.
LEMMA JudgedBySomething ==
  ASSUME NEW stub \in BOOLEAN, NEW txn, NEW profiles, NEW thr, NEW d \in Judged(stub, txn, profiles, thr)
  PROVE  \E profile \in profiles, ml \in Says(stub, txn), noise \in Noise :
             d = Decision(txn, profile, ml, thr, noise)
  BY DEF Judged

\* For every threshold in use, transaction, probability and profile: what is flagged, by
\* the backend from a threshold of 0.35 on or by the offline programs, has a reason.
THEOREM FlagsExplained == Spec => []FlaggedIsExplained
  <1>1. ASSUME NEW stub \in BOOLEAN, NEW thr \in Grid \cup {50}, thr \in Nat, thr >= 35
        PROVE  thr \in ExplainedOnline[stub]
    <2>1. ASSUME NEW txn \in Txn, NEW d \in Judged(stub, txn, Profile \cup {EmptyProfile(txn)}, thr),
                 d.fraud_flag
          PROVE  d.reason_codes # {}
      <3>1. PICK profile \in Profile \cup {EmptyProfile(txn)}, ml \in Says(stub, txn), noise \in Noise :
              d = Decision(txn, profile, ml, thr, noise)
        BY JudgedBySomething
      <3>2. ml \in Nat
        BY Judgements
      <3> QED BY <1>1, <2>1, <3>1, <3>2, FlaggedHasReason
    <2> QED BY <2>1 DEF ExplainedOnline
  <1>2. ASSUME NEW thr \in Grid, thr \in Nat PROVE thr \in ExplainedOffline
    <2>1. ASSUME NEW txn \in Txn, NEW ml \in Prob, NEW cutoff
          PROVE  LET reasons == OfflineReasons(txn, ml, thr, cutoff) IN
                 /\ OfflineFlag(ml, thr) => reasons[1] \in {"critical", "review"}
                 /\ Len(reasons) \in 1 .. 5
      <3>1. ml \in Nat
        BY Judgements
      <3> QED BY <1>2, <3>1, OfflineExplained
    <2> QED BY <2>1 DEF ExplainedOffline
  <1>3. TypeOK => FlaggedIsExplained
    BY <1>1, <1>2, ThresholdsInUse DEF FlaggedIsExplained, ByStub
  <1> QED BY <1>3, TypeCorrect, PTL

\* For every threshold in use, transaction, probability and profile: the preview flags
\* nothing that the submission clears.
THEOREM PreviewsFlagNoMore == Spec => []PreviewFlagsNoMore
  <1>1. ASSUME NEW stub \in BOOLEAN, NEW thr \in Grid \cup {50}, thr \in Nat
        PROVE  thr \in BoundedByPreview[stub]
    <2>1. ASSUME NEW txn \in Txn, NEW profile \in Profile, NEW noise \in Noise, NEW ml \in Says(stub, txn)
          PROVE  LET preview   == Decision(txn, EmptyProfile(txn), ml, thr, noise)
                     submitted == Decision(txn, profile, ml, thr, noise)
                 IN  /\ preview.fraud_flag => submitted.fraud_flag
                     /\ preview.fraud_probability <= submitted.fraud_probability
      <3>1. TransactionInput(txn) /\ IsProfile(profile) /\ ml \in Nat
        BY Judgements
      <3> QED BY <1>1, <3>1, PreviewIsLowerBound
    <2> QED BY <2>1 DEF BoundedByPreview
  <1>2. TypeOK => PreviewFlagsNoMore
    BY <1>1, ThresholdsInUse DEF PreviewFlagsNoMore, ByStub
  <1> QED BY <1>2, TypeCorrect, PTL

\* For every transaction, probability and profile: where the backend's threshold is 0.5,
\* its level and its flag agree, but for the scores that rounding lifts to 0.5.
THEOREM LevelsMeetFlags == Spec => []LevelMeetsFlag
  <1>1. ASSUME NEW stub \in BOOLEAN PROVE stub \in LevelAgrees
    <2>1. ASSUME NEW txn \in Txn, NEW d \in Judged(stub, txn, Profile, 50)
          PROVE  /\ d.fraud_flag /\ d.risk_level = "LOW" => d.fraud_probability = 5000
                 /\ ~d.fraud_flag => d.risk_level = "LOW"
      <3>1. PICK profile \in Profile, ml \in Says(stub, txn), noise \in Noise :
              d = Decision(txn, profile, ml, 50, noise)
        BY JudgedBySomething
      <3>2. ml \in Nat
        BY Judgements
      <3> QED BY <3>1, <3>2, LevelAndFlag
    <2> QED BY <2>1 DEF LevelAgrees
  <1>2. LevelMeetsFlag
    BY <1>1 DEF LevelMeetsFlag, ByStub
  <1> QED BY <1>2, PTL

\* For every threshold in use, transaction, probability and profile: with one model and
\* one threshold, what only the backend flags is the work of a rule.
THEOREM OnlineFlagsNeedRules == Spec => []OnlineFlagNeedsRule
  <1>1. ASSUME NEW thr \in Grid, thr \in Nat PROVE thr \in NeedsRule
    <2>1. ASSUME NEW txn \in Txn, NEW profile \in Profile, NEW ml \in Prob, NEW noise \in Noise,
                 Decision(txn, profile, ml, thr, noise).fraud_flag, ~OfflineFlag(ml, thr)
          PROVE  \E rule \in Triggered(txn, profile) : 1000 * RuleScore[rule] > ml
      <3>1. ml \in Nat
        BY Judgements
      <3> QED BY <1>1, <2>1, <3>1, FlagsDifferByRule
    <2> QED BY <2>1 DEF NeedsRule
  <1>2. TypeOK => OnlineFlagNeedsRule
    BY <1>1, ThresholdsInUse DEF OnlineFlagNeedsRule
  <1> QED BY <1>2, TypeCorrect, PTL
=============================================================================
