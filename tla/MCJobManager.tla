---------------------------- MODULE MCJobManager ----------------------------
(* JobManager on small instances. *)
EXTENDS JobManager, TLC

\* Jobs are interchangeable unless InvalidSettings tells them apart.
JobSymmetry == Permutations(Jobs)
=============================================================================
