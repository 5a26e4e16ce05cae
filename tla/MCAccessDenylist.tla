-------------------------- MODULE MCAccessDenylist --------------------------
(* AccessDenylist on small instances. *)
EXTENDS AccessDenylist, TLC

Symmetry == Permutations(Tokens) \cup Permutations(Requests) \cup Permutations(Users)

============================================================================
