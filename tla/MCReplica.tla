------------------------------ MODULE MCReplica ------------------------------
(* The run of Replica. *)
EXTENDS Replica
=============================================================================
