-------------------------- MODULE MCRefreshTokens --------------------------
(* RefreshTokens on small instances. *)
EXTENDS RefreshTokens, TLC

Symmetry == Permutations(Tokens) \cup Permutations(Requests) \cup Permutations(Users)

============================================================================
