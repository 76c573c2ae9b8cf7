----------------------------- MODULE MCKeyedLock -----------------------------
(* The run of KeyedLock. *)
EXTENDS KeyedLock
=============================================================================
