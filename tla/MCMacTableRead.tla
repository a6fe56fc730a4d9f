--------------------------- MODULE MCMacTableRead ---------------------------
(***************************************************************************)
(* Instances of MacTableRead for TLC: a handful of VLANs, with the cap on  *)
(* contexts, the abort threshold and the row cap within their reach.       *)
(***************************************************************************)
EXTENDS MacTableRead
=============================================================================
