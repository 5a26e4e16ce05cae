-------------------------- MODULE MCBookMutations --------------------------
(* BookMutations on small instances. *)
EXTENDS BookMutations, TLC

Symmetry == Permutations(Users) \cup Permutations(Titles) \cup Permutations(Requests)

============================================================================
