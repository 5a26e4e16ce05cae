------------------------- MODULE MCServerLifecycle -------------------------
(* ServerLifecycle on a small instance. *)
EXTENDS ServerLifecycle, TLC

============================================================================
