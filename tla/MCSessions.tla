----------------------------- MODULE MCSessions -----------------------------
(***************************************************************************)
(* Sessions for TLC: two requests about one address, with two passwords    *)
(* that are good and a weak one.  The requests are not symmetric: an       *)
(* action property names them one by one.                                  *)
(***************************************************************************)
EXTENDS Sessions

CONSTANTS u1, p1, p2, p3, r1, r2
=============================================================================
