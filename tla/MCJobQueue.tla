----------------------------- MODULE MCJobQueue -----------------------------
(* Instances of JobQueue for TLC. *)
EXTENDS JobQueue, TLC

\* The safety properties do not tell jobs or callers apart.
Symmetry == Permutations(Jobs) \cup Permutations(Callers)
=============================================================================
