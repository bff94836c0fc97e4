--------------------------- MODULE MCModelServing ---------------------------
(***************************************************************************)
(* ModelServing for TLC: forty cases, half of them frauds, and three       *)
(* models.  m1 has two thresholds of equal cost that both reach the recall *)
(* target, m2 one that reaches it exactly (19 of 20), one that meets the   *)
(* review budget exactly (4 of 40) and one that flags nothing, m3 cannot   *)
(* reach the recall target or the budget, and meets the precision target   *)
(* exactly (7 of 10).  The transactions lie on both sides of every bound   *)
(* that a rule or a reason has, and the probabilities and profiles at the  *)
(* bounds of the bands, of the thresholds and of what the rules make of    *)
(* them: 0.6285 with a rule of 0.2 is 0.49995, the last to be rounded up.  *)
(***************************************************************************)
EXTENDS ModelServing, TLC

CONSTANTS m1, m2, m3

MCCase  == 1 .. 40
MCFraud == 21 .. 40
MCGrid  == {20, 35, 50, 65, 80, 95}

Times(n, score) == [i \in 1 .. n |-> score]

MCScore ==
    (m1 :> Times(10, 0) \o Times(11, 40) \o Times(19, 90)) @@
    (m2 :> Times(12, 20) \o Times(8, 0) \o Times(1, 20) \o Times(15, 65) \o Times(4, 90)) @@
    (m3 :> Times(6, 35) \o Times(6, 50) \o Times(5, 65) \o Times(3, 80)
           \o Times(5, 0) \o Times(8, 35) \o Times(7, 80))

MCTxn ==
    {[amount |-> amount, hour |-> hour, device_risk_score |-> device, ip_risk_score |-> ip,
      merchant_category |-> kind[1], transaction_type |-> kind[2], country |-> kind[3]] :
        amount \in {30, 50001}, hour \in {2, 5, 12, 23},
        device \in {0, 60, 70, 81}, ip \in {0, 70, 100},
        kind \in {<<"food", "online", "US">>, <<"crypto", "transfer", "RU">>}}

MCProb == {0, 2857, 2858, 3300, 4999, 5000, 6285, 7142, 7143, 7500, 9286, 10000}

MCProfile ==
    {[tx_5m |-> 0, tx_1h |-> 0, avg_amount |-> 0], [tx_5m |-> 3, tx_1h |-> 3, avg_amount |-> 30],
     [tx_5m |-> 2, tx_1h |-> 5, avg_amount |-> 10], [tx_5m |-> 0, tx_1h |-> 4, avg_amount |-> 9]}
=============================================================================
