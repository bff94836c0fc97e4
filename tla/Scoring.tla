------------------------------- MODULE Scoring -------------------------------
(***************************************************************************)
(* How one transaction is judged.  Online: the five rules of               *)
(* src/velocity_engine.py, combine_scores of rule_engine.py and            *)
(* predict_fraud of transaction_service.py, for POST /transactions and,    *)
(* without a user, for POST /transactions/predict.  Offline:               *)
(* score_dataframe of src/score_new_transactions.py and the reason codes   *)
(* of src/reason_codes.py, which the Streamlit page uses too.              *)
(*                                                                         *)
(* Amounts are in whole units, risk scores and thresholds in hundredths,   *)
(* probabilities in ten-thousandths, as round(p, 4) leaves them, and       *)
(* blended scores in millionths.  A sum of products of doubles may be off  *)
(* in its last bit, which matters where it meets a bound exactly: noise is *)
(* that bit.                                                               *)
(***************************************************************************)
EXTENDS Integers, Sequences, FiniteSets, FiniteSetsExt

CONSTANTS
    Txn,        \* transactions
    Prob,       \* probabilities a model may give
    Profile     \* velocity profiles of users; all zeros without Redis

MerchantCategory == {"electronics", "food", "travel", "gambling", "crypto",
                     "wire_transfer", "foreign_exchange", "other"}

\* What the fields of TransactionInput accept.
TransactionInput(txn) ==
    /\ txn.amount \in Nat \ {0} /\ txn.hour \in 0 .. 23
    /\ {txn.device_risk_score, txn.ip_risk_score} \subseteq 0 .. 100
    /\ txn.merchant_category \in MerchantCategory

ASSUME ScoringAssumption ==
    /\ Prob \subseteq 0 .. 10000
    /\ \A txn \in Txn : TransactionInput(txn)
    /\ \A profile \in Profile :
          {profile.tx_5m, profile.tx_1h, profile.avg_amount} \subseteq Nat

Noise == {-1, 0, 1}

-----------------------------------------------------------------------------
\* VELOCITY_RULES, with their scores in tenths.
RuleScore == [VEL_001 |-> 8, VEL_002 |-> 5, VEL_003 |-> 8, VEL_004 |-> 5, VEL_005 |-> 2]

\* Faulty: a transaction without a user is compared with an average of nothing.
EmptyProfileOfOne(txn) == [tx_5m |-> 0, tx_1h |-> 0, avg_amount |-> 1]

\* The profile of a transaction without a user.
EmptyProfile(txn) == [tx_5m |-> 0, tx_1h |-> 0, avg_amount |-> txn.amount]

\* evaluate_velocity_rules.
Triggered(txn, profile) ==
    {rule \in DOMAIN RuleScore :
        \/ rule = "VEL_001" /\ profile.tx_5m >= 3
        \/ rule = "VEL_002" /\ profile.tx_1h >= 5
        \/ /\ rule = "VEL_003"
           /\ profile.avg_amount > 0
           /\ txn.amount > 3 * profile.avg_amount /\ txn.amount > 10
        \/ rule = "VEL_004" /\ txn.device_risk_score > 80
        \/ rule = "VEL_005" /\ txn.hour \in 2 .. 5}

\* predict without a model.  Its term for the night reads transaction_hour, a key
\* that TransactionInput does not have.
StubScore(txn) == 40 * (txn.device_risk_score + txn.ip_risk_score)

\* Faulty: the rules come on top of the probability.
BlendOnTop(ml, rules, noise) ==
    100 * ml + 30000 * Max({0} \cup {RuleScore[rule] : rule \in rules}) + noise

\* combine_scores, before rounding.
Blend(ml, rules, noise) ==
    70 * ml + 30000 * Max({0} \cup {RuleScore[rule] : rule \in rules}) + noise

\* round(score, 4).
Rounded(score) == (score + 50) \div 100

\* Faulty: the band begins where another system's does.
RiskLevelAbove(score) ==
    CASE score > 900000 -> "CRITICAL"
      [] score > 700000 /\ score <= 900000 -> "HIGH"
      [] score > 600000 /\ score <= 700000 -> "MEDIUM"
      [] OTHER -> "LOW"

\* get_risk_level, of the score that is not rounded.
RiskLevel(score) ==
    CASE score >= 900000 -> "CRITICAL"
      [] score >= 700000 /\ score < 900000 -> "HIGH"
      [] score >= 500000 /\ score < 700000 -> "MEDIUM"
      [] OTHER -> "LOW"

HighRiskCategory == {"gambling", "crypto", "wire_transfer", "foreign_exchange", "international_wire"}

\* Faulty: the fallback needs more than the review threshold.
ReasonCodesAtHigh(txn, ml) ==
    {why \in {"device", "ip", "hour", "category", "amount", "model"} :
        \/ why = "device" /\ txn.device_risk_score >= 70
        \/ why = "model" /\ ml >= 7000}

\* _reason_codes, of the model's score.
ReasonCodes(txn, ml) ==
    LET reasons ==
        {why \in {"device", "ip", "hour", "category", "amount"} :
            \/ why = "device" /\ txn.device_risk_score >= 70
            \/ why = "ip" /\ txn.ip_risk_score >= 70
            \/ why = "hour" /\ (txn.hour < 6 \/ txn.hour > 22)
            \/ why = "category" /\ txn.merchant_category \in HighRiskCategory
            \/ why = "amount" /\ txn.amount > 50000}
    IN  IF reasons = {} /\ ml >= 5000 THEN {"model"} ELSE reasons

\* predict_fraud.
Decision(txn, profile, ml, thr, noise) ==
    LET rules == Triggered(txn, profile)
        score == Blend(ml, rules, noise)
    IN  [fraud_probability |-> Rounded(score),
         risk_level |-> RiskLevel(score),
         fraud_flag |-> Rounded(score) >= 100 * thr,
         reason_codes |-> ReasonCodes(txn, ml) \cup rules]

-----------------------------------------------------------------------------
\* score_dataframe.
OfflineFlag(ml, thr) == ml >= 100 * thr

\* What reason_codes_for_row looks for, in this order.
Driver == <<"critical", "review", "device", "ip", "amount", "hour", "type", "category", "country">>

\* The places of those that apply.
Applying(txn, ml, thr, cutoff) ==
    {i \in DOMAIN Driver :
        LET why == Driver[i] IN
        \/ why = "critical" /\ ml >= 7500
        \/ why = "review" /\ ml < 7500 /\ OfflineFlag(ml, thr)
        \/ why = "device" /\ txn.device_risk_score >= 60
        \/ why = "ip" /\ txn.ip_risk_score >= 60
        \/ why = "amount" /\ txn.amount >= cutoff
        \/ why = "hour" /\ (txn.hour <= 5 \/ txn.hour >= 23)
        \/ why = "type" /\ txn.transaction_type \in {"transfer", "withdrawal", "wire"}
        \/ why = "category" /\ txn.merchant_category \in {"crypto", "electronics", "luxury"}
        \/ why = "country" /\ txn.country \in {"RU", "CN"}}

\* reason_codes_for_row: the first five of them.
OfflineReasons(txn, ml, thr, cutoff) ==
    LET found == Applying(txn, ml, thr, cutoff)
        Nth(n) == Driver[CHOOSE i \in found : Cardinality({j \in found : j < i}) = n - 1]
    IN  IF found = {} THEN <<"none">> ELSE [n \in 1 .. Min({5, Cardinality(found)}) |-> Nth(n)]
=============================================================================
