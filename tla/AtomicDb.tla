------------------------------ MODULE AtomicDb ------------------------------
(***************************************************************************)
(* What the Db and DbBatch traits promise (ubiquisync-sql, src/db/mod.rs,  *)
(* batch.rs): a call takes effect as a whole and at one instant, or not at *)
(* all; its results are those of its own statements.                       *)
(***************************************************************************)
EXTENDS ReplicaTables

CONSTANT Tasks

VARIABLES
    store,      \* the database
    request,    \* request[t]: the call t has made, or Nothing
    answer      \* answer[t]: how the last one ended, until t goes on

vars == <<store, request, answer>>

Init ==
    /\ store = EmptyStore
    /\ request = [t \in Tasks |-> Nothing]
    /\ answer = [t \in Tasks |-> Nothing]

\* t takes its answer and may make a new call.
Proceed(t) ==
    /\ request[t] = Nothing
    /\ answer' = [answer EXCEPT ![t] = Nothing]
    /\ \/ UNCHANGED request
       \/ request' = [request EXCEPT ![t] = request'[t]]
    /\ UNCHANGED store

Answered(t) ==
    /\ request[t] # Nothing
    /\ request' = [request EXCEPT ![t] = Nothing]
    /\ answer' = [answer EXCEPT ![t] = answer'[t]]
    /\ answer'[t] # Nothing

\* Every effect, and for each statement its rows and, if it writes rows, how
\* many it wrote.  A query writes none.
Apply(t) ==
    LET statements == request[t].statements
        ran == RanAll(store, statements)
        results == answer'[t].results
    IN  /\ Answered(t)
        /\ ran.ok /\ answer'[t].ok
        /\ request[t].mode = "query" => \A i \in DOMAIN statements : ReadOnly(statements[i])
        /\ store' = ran.store
        /\ DOMAIN results = DOMAIN statements
        /\ \A i \in DOMAIN statements :
              /\ results[i].rows = ran.results[i].rows
              /\ IsDml(statements[i]) => results[i].count = ran.results[i].count

\* An error, and no effect.
Refuse(t) ==
    /\ Answered(t)
    /\ ~answer'[t].ok
    /\ UNCHANGED store

\* The process ended, or the task.
Lose(tasks) ==
    /\ request' = [t \in Tasks |-> IF t \in tasks THEN Nothing ELSE request[t]]
    /\ answer' = [t \in Tasks |-> IF t \in tasks THEN Nothing ELSE answer[t]]
    /\ UNCHANGED store

Next ==
    \/ \E t \in Tasks : Proceed(t) \/ Apply(t) \/ Refuse(t)
    \/ \E tasks \in SUBSET Tasks : Lose(tasks)

Spec == Init /\ [][Next]_vars

=============================================================================
