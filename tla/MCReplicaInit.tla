---------------------------- MODULE MCReplicaInit ----------------------------
(* Two tasks of one process and one of another. *)
EXTENDS ReplicaInit, TLC

CONSTANTS t1, t2, t3, p1, p2

MCProcessOf == t1 :> p1 @@ t2 :> p1 @@ t3 :> p2

Who(app, sign, wrap) == [app |-> app, sign |-> sign, wrap |-> wrap]

\* A peer, the same with a new wrapping key, and with another application.
MCCredentials == {Who("a", 1, 1), Who("a", 1, 2), Who("b", 1, 1)}

=============================================================================
