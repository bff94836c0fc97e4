----------------------------- MODULE MCVelocity -----------------------------
(***************************************************************************)
(* Velocity for TLC: submissions are interchangeable.                      *)
(***************************************************************************)
EXTENDS Velocity, TLC

Symmetry == Permutations(Sub)
=============================================================================
