----------------------------- MODULE MCFastLane -----------------------------
(***************************************************************************)
(* Instances of FastLane for TLC.  The bounds are the constants of the     *)
(* configurations; the checks are interchangeable.                         *)
(***************************************************************************)
EXTENDS FastLane, TLC

Symmetry == Permutations(Checks)
=============================================================================
