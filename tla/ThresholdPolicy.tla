--------------------------- MODULE ThresholdPolicy ---------------------------
(***************************************************************************)
(* How the decision threshold of a fraud model is chosen: the metrics and  *)
(* pick_best_threshold of src/evaluate.py, and the policy candidates of    *)
(* src/threshold_policy.py.                                                *)
(*                                                                         *)
(* Score is what a model gives each case of the test set, in hundredths.   *)
(* Rates are fractions; a key of Python's min is a tuple of fractions.     *)
(* The grid is searched upwards, so of equal rows the first, which min and *)
(* max return, is the one with the lowest threshold.                       *)
(***************************************************************************)
EXTENDS Integers, Sequences, FiniteSets

CONSTANTS
    Case,       \* the test set
    Fraud,      \* its fraudulent cases
    Grid,       \* THRESHOLD_GRID, in hundredths
    Model,      \* models that training may yield
    Score       \* their probabilities

\* confusion_matrix needs cases of both kinds.
ASSUME PolicyAssumption ==
    /\ IsFiniteSet(Case) /\ Fraud \subseteq Case /\ Fraud \notin {{}, Case}
    /\ IsFiniteSet(Grid) /\ Grid # {} /\ Grid \subseteq 1 .. 99
    /\ Score \in [Model -> [Case -> 0 .. 100]]

-----------------------------------------------------------------------------
COST_FALSE_NEGATIVE == 10
COST_FALSE_POSITIVE == 1

Over(n, d) == IF d = 0 THEN [num |-> 0, den |-> 1] ELSE [num |-> n, den |-> d]

Whole(n) == [num |-> n, den |-> 1]

Minus(f) == [num |-> -f.num, den |-> f.den]

Below(f, g) == f.num * g.den < g.num * f.den

\* Lexicographic order of tuples.
Before(k, l) ==
    \E i \in DOMAIN k :
        /\ Below(k[i], l[i])
        /\ \A j \in 1 .. i - 1 : ~Below(k[j], l[j]) /\ ~Below(l[j], k[j])

\* The row of the least key, the lowest threshold deciding.
Least(key) ==
    CHOOSE row \in DOMAIN key :
        \A other \in DOMAIN key \ {row} :
            Before(Append(key[row], Whole(row.threshold)),
                   Append(key[other], Whole(other.threshold)))

Flagged(model, thr) == {c \in Case : Score[model][c] >= thr}

\* compute_threshold_metrics, for one threshold.
RowOf(model, thr) ==
    LET flagged == Flagged(model, thr) IN
    [threshold |-> thr,
     tp |-> Cardinality(flagged \cap Fraud),
     fp |-> Cardinality(flagged \ Fraud),
     tn |-> Cardinality(Case \ (flagged \cup Fraud)),
     fn |-> Cardinality(Fraud \ flagged)]

Results(model) == {RowOf(model, thr) : thr \in Grid}

Recall(row)      == Over(row.tp, row.tp + row.fn)
Precision(row)   == Over(row.tp, row.tp + row.fp)
\* The code takes it from precision and recall; rates equal here may differ there in
\* the last bit, and balanced_f1 is compared with nothing.
F1(row)          == Over(2 * row.tp, 2 * row.tp + row.fp + row.fn)
FlaggedRate(row) == Over(row.tp + row.fp, row.tp + row.fp + row.tn + row.fn)

\* Faulty: the two prices are swapped.
CostSwapped(row) == Whole(COST_FALSE_POSITIVE * row.fn + COST_FALSE_NEGATIVE * row.fp)

Cost(row) == Whole(COST_FALSE_NEGATIVE * row.fn + COST_FALSE_POSITIVE * row.fp)

\* Faulty: recall has the wrong sign.
PickLowRecall(rows) ==
    Least([row \in rows |-> <<Cost(row), Recall(row), Minus(Precision(row))>>])

\* pick_best_threshold.
PickBest(rows) ==
    Least([row \in rows |-> <<Cost(row), Minus(Recall(row)), Minus(Precision(row))>>])

-----------------------------------------------------------------------------
\* "x or 1.0": in Python a rate of zero is falsy.
OrOne(f) == IF f.num = 0 THEN Whole(1) ELSE f

Policy == {"cost_optimized", "balanced_f1", "high_recall", "high_precision", "review_capacity"}

\* Faulty: the target is tested on the rate of frauds, not of flags.
PoolByPrecision(policy, rows) ==
    {row \in rows : policy = "high_recall" => ~Below(Precision(row), Over(95, 100))}

\* The rows a policy chooses among.
Pool(policy, rows) ==
    {row \in rows :
        CASE policy = "high_recall"     -> ~Below(Recall(row), Over(95, 100))
          [] policy = "high_precision"  -> ~Below(Precision(row), Over(70, 100))
          [] policy = "review_capacity" -> ~Below(Over(10, 100), OrOne(FlaggedRate(row)))
          [] OTHER                      -> TRUE}

\* Faulty: under a target, recall comes before cost.
KeyOfRecallFirst(policy, row) ==
    IF policy = "cost_optimized" THEN <<Cost(row), Minus(Recall(row)), Minus(Precision(row))>>
                                 ELSE <<Minus(Recall(row)), Cost(row)>>

KeyOf(policy, row) ==
    CASE policy = "cost_optimized" ->
             <<Cost(row), Minus(Recall(row)), Minus(Precision(row))>>
      [] policy = "balanced_f1" ->
             <<Minus(F1(row)), Cost(row)>>
      [] policy = "high_recall" ->
             <<Cost(row), OrOne(FlaggedRate(row)), Minus(Precision(row))>>
      [] policy = "high_precision" ->
             <<Minus(Recall(row)), OrOne(FlaggedRate(row))>>
      [] policy = "review_capacity" ->
             <<Cost(row), Minus(Recall(row))>>

\* build_threshold_policy_candidates: a row per policy whose pool has any.
Candidates(rows) ==
    [policy \in {p \in Policy : Pool(p, rows) # {}} |->
        Least([row \in Pool(policy, rows) |-> KeyOf(policy, row)])]
=============================================================================
