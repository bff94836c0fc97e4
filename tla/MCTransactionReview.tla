------------------------ MODULE MCTransactionReview -------------------------
(***************************************************************************)
(* TransactionReview for TLC.  Requests are interchangeable; transactions  *)
(* are not, one of them being seeded.                                      *)
(***************************************************************************)
EXTENDS TransactionReview, TLC

RequestSymmetry == Permutations(Req)
=============================================================================
