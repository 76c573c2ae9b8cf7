----------------------------- MODULE MCEventBus -----------------------------
(* The run of EventBus. *)
EXTENDS EventBus
=============================================================================
