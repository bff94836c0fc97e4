------------------------ MODULE TransactionLifecycle ------------------------
(***************************************************************************)
(* The life of a transaction as backend/models.py draws it beside          *)
(* TransactionStatus: scoring puts a new transaction in auto_approved or   *)
(* in pending, and the user's answer takes a pending one to approved or to *)
(* rejected, where it stays.  The concurrent handlers are TransactionReview*)
(***************************************************************************)
CONSTANTS Txn,      \* transactions
          Seeded    \* the ones backend/init_db.py inserts as pending

VARIABLE state

Init == state = [t \in Txn |-> IF t \in Seeded THEN "pending" ELSE "new"]

Move(t, from, to) ==
    /\ state[t] = from
    /\ state' = [state EXCEPT ![t] = to]

AutoApprove(t) == Move(t, "new", "auto_approved")
Flag(t)        == Move(t, "new", "pending")
Approve(t)     == Move(t, "pending", "approved")
Reject(t)      == Move(t, "pending", "rejected")

Next == \E t \in Txn : AutoApprove(t) \/ Flag(t) \/ Approve(t) \/ Reject(t)

Spec == Init /\ [][Next]_state
=============================================================================
