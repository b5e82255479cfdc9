----------------------------- MODULE MCAccounts -----------------------------
(* The instance of Accounts for TLC.  Accounts and requests are compared     *)
(* for equality only.                                                       *)
EXTENDS Accounts, TLC

Symmetry == Permutations(Users) \cup Permutations(Requests) \cup Permutations(Steam)

(* The bound: exploration stops behind the second race, and one account at  *)
(* a time has manual entries.                                               *)
Few == /\ Cardinality(raced) + Cardinality(crowded) <= 1
       /\ Cardinality({u \in Users : identity[u] \cap Manual # {}}) <= 1
=============================================================================
