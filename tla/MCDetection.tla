----------------------------- MODULE MCDetection -----------------------------
(* Instances of Detection for TLC. *)
EXTENDS Detection, TLC

\* No property tells keys or details apart.
Symmetry == Permutations(Keys) \cup Permutations(Details)
=============================================================================
