---------------------------- MODULE MCAccounts ----------------------------
(* Accounts on small instances. *)
EXTENDS Accounts, TLC

Symmetry == Permutations(Names) \cup Permutations(Passwords) \cup Permutations(Requests)

============================================================================
