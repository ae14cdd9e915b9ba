------------------------- MODULE MCStatusReporting -------------------------
(* StatusReporting on small instances. *)
EXTENDS StatusReporting, TLC

\* Nothing tells the jobs apart.
JobSymmetry == Permutations(Jobs)
=============================================================================
