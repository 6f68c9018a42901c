----------------------------- MODULE MCAccounts -----------------------------
(* Instances of Accounts for TLC. *)
EXTENDS Accounts, TLC

CONSTANTS ann, ben, p1, p2

MCDemoAccounts ==
  <<[name |-> ann, password |-> p1, role |-> "admin"],
    [name |-> ben, password |-> p1, role |-> "analyst"]>>

\* The clients are alike.
Symmetry == Permutations(Clients)
=============================================================================
