------------------------------- MODULE OpLog -------------------------------
(***************************************************************************)
(* What a replica promises about its own streams: each is an append-only   *)
(* log of timestamped operations, an append and its effect on the tables   *)
(* are one step, and no two operations of the replica, in whatever stream  *)
(* and however often it was restarted in between, carry one timestamp.     *)
(***************************************************************************)
EXTENDS Hlc, Sequences

CONSTANT Containers

VARIABLES
    log,        \* log[c]: the timestamps of the entries of stream c, in order
    applied     \* applied[c]: those whose operation reached the tables

OLInit ==
    /\ log = [c \in Containers |-> <<>>]
    /\ applied = [c \in Containers |-> <<>>]

Used == UNION {{log[c][i] : i \in DOMAIN log[c]} : c \in Containers}

\* One write: a new timestamp, above all of its stream.  The operation takes
\* effect at once, unless the stream is held back and falls behind its log.
OLAppend(c, ts) ==
    /\ ts \notin Used
    /\ \A i \in DOMAIN log[c] : Before(log[c][i], ts)
    /\ log' = [log EXCEPT ![c] = Append(@, ts)]
    /\ \/ /\ applied[c] = log[c]
          /\ applied' = [applied EXCEPT ![c] = Append(@, ts)]
       \/ UNCHANGED applied

\* A stream that was held back takes effect, in log order.
OLCatchUp(c) ==
    /\ applied' = [applied EXCEPT ![c] = log[c]]
    /\ UNCHANGED log

OLNext ==
    \E c \in Containers :
        \/ \E ts \in Timestamp : OLAppend(c, ts)
        \/ OLCatchUp(c)

OLSpec == OLInit /\ [][OLNext]_<<log, applied>>

=============================================================================
