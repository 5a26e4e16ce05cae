-------------------------- MODULE MCEventConsumer --------------------------
(* EventConsumer on small instances. *)
EXTENDS EventConsumer, TLC

============================================================================
