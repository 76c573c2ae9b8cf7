------------------------------ MODULE SqliteDb ------------------------------
(***************************************************************************)
(* The SQLite backend (ubiquisync-sqlite, src/lib.rs): one connection that *)
(* has the file to itself, a mutex around it for the tasks that share it,  *)
(* and batches as transactions.                                            *)
(*                                                                         *)
(* Outside a batch a call is one statement under the mutex: one step.  A   *)
(* batch is a step for every statement and one for COMMIT, which work on a *)
(* copy of the database until then.  A call is not dropped while it runs:  *)
(* it awaits nothing.  The mutex serves its waiters in any order.          *)
(***************************************************************************)
EXTENDS ReplicaTables

CONSTANTS
    Tasks, Processes,
    ProcessOf       \* the process each task runs in

ASSUME SqliteDbAssumption ==
    /\ ProcessOf \in [Tasks -> Processes]
    /\ Nothing \notin Tasks \cup Processes

VARIABLES
    owner,          \* the process that has the file open, or Nothing
    store,          \* what is committed
    holder,         \* the task that has the mutex for its batch, or Nothing
    work, done,     \* of that batch: the database so far, the results so far
    changes,        \* Connection::changes()
    poisoned,       \* whether a task panicked with the mutex
    request,        \* request[t]: the call t has made, or Nothing
    answer          \* answer[t]: how the last one ended, until t goes on

connection == <<owner, holder, work, done, changes, poisoned>>
dbVars == <<connection, store, request, answer>>

DbInit ==
    /\ owner = Nothing
    /\ store = EmptyStore
    /\ holder = Nothing
    /\ work = EmptyStore
    /\ done = <<>>
    /\ changes = 0
    /\ poisoned = FALSE
    /\ request = [t \in Tasks |-> Nothing]
    /\ answer = [t \in Tasks |-> Nothing]

Ok(results) == [ok |-> TRUE, results |-> results]
Error == [ok |-> FALSE, results |-> <<>>]

-----------------------------------------------------------------------------
(* The connection *)

\* locking_mode = EXCLUSIVE: opening fails while another process has the file.
OpenFile(p) ==
    /\ owner = Nothing
    /\ owner' = p
    /\ changes' = 0
    /\ poisoned' = FALSE
    /\ UNCHANGED <<store, holder, work, done, request, answer>>

Reply(t, how) ==
    /\ request' = [request EXCEPT ![t] = Nothing]
    /\ answer' = [answer EXCEPT ![t] = how]

\* run_statement(): changes() after it, reset by statements that write rows
\* and by no others, and its result.
ChangesAfter(s, ran) == IF IsDml(s) THEN ran.count ELSE changes

ResultOf(s, ran) == [count |-> ChangesAfter(s, ran), rows |-> ran.rows]

Called(t, modes) == request[t] # Nothing /\ request[t].mode \in modes

-----------------------------------------------------------------------------
(* exec(), exec_returning(), query() *)

\* The mutex is taken though it may be poisoned.
Execute(t) ==
    /\ Called(t, {"exec", "query"})
    /\ holder = Nothing
    /\ LET s == request[t].statements[1]
           ran == Ran(store, s)
       IN  IF ~ran.ok \/ (request[t].mode = "query" /\ ~ReadOnly(s))
           THEN Reply(t, Error) /\ UNCHANGED <<store, changes>>
           ELSE /\ store' = ran.store
                /\ changes' = ChangesAfter(s, ran)
                /\ Reply(t, Ok(<<ResultOf(s, ran)>>))
    /\ UNCHANGED <<owner, holder, work, done, poisoned>>

-----------------------------------------------------------------------------
(* commit() *)

\* A poisoned mutex is an error here.
Begin(t) ==
    /\ Called(t, {"batch"})
    /\ holder = Nothing
    /\ IF poisoned
       THEN Reply(t, Error) /\ UNCHANGED <<holder, work, done>>
       ELSE /\ holder' = t /\ work' = store /\ done' = <<>>
            /\ UNCHANGED <<request, answer>>
    /\ UNCHANGED <<owner, store, changes, poisoned>>

\* The transaction is dropped, and rolls back.
RollBack == holder' = Nothing /\ work' = EmptyStore /\ done' = <<>>

Upcoming(t) == request[t].statements[Len(done) + 1]

\* Mutant of Statement: on the connection, and not in a transaction.
StatementAtOnce(t) ==
    /\ Called(t, {"batch"})
    /\ holder = t
    /\ Len(done) < Len(request[t].statements)
    /\ LET ran == Ran(store, Upcoming(t))
       IN  IF ran.ok
           THEN /\ work' = ran.store /\ store' = ran.store
                /\ done' = Append(done, ResultOf(Upcoming(t), ran))
                /\ changes' = ChangesAfter(Upcoming(t), ran)
                /\ UNCHANGED <<holder, request, answer>>
           ELSE RollBack /\ Reply(t, Error) /\ UNCHANGED <<store, changes>>
    /\ UNCHANGED <<owner, poisoned>>

Statement(t) ==
    /\ Called(t, {"batch"})
    /\ holder = t
    /\ Len(done) < Len(request[t].statements)
    /\ LET ran == Ran(work, Upcoming(t))
       IN  IF ran.ok
           THEN /\ work' = ran.store
                /\ done' = Append(done, ResultOf(Upcoming(t), ran))
                /\ changes' = ChangesAfter(Upcoming(t), ran)
                /\ UNCHANGED <<holder, request, answer>>
           ELSE RollBack /\ Reply(t, Error) /\ UNCHANGED changes
    /\ UNCHANGED <<owner, store, poisoned>>

Commit(t) ==
    /\ Called(t, {"batch"})
    /\ holder = t
    /\ Len(done) = Len(request[t].statements)
    /\ store' = work
    /\ Reply(t, Ok(done))
    /\ RollBack
    /\ UNCHANGED <<owner, changes, poisoned>>

-----------------------------------------------------------------------------
(* What goes wrong *)

\* The disk is full, an I/O error: nothing of the call stays.
Fail(t) ==
    /\ request[t] # Nothing
    /\ holder \in {t, Nothing}
    /\ Reply(t, Error)
    /\ RollBack
    /\ UNCHANGED <<owner, store, changes, poisoned>>

\* Of the task that panicked nothing is left but the mark on the mutex.
Panic(t) ==
    /\ request[t] # Nothing
    /\ holder \in {t, Nothing}
    /\ request' = [request EXCEPT ![t] = Nothing]
    /\ RollBack
    /\ poisoned' = TRUE
    /\ UNCHANGED <<owner, store, changes, answer>>

\* The process ends: its tasks, and the lock on the file.  What was not
\* committed is rolled back when the file is opened again.
ProcessEnds(p) ==
    /\ owner = p
    /\ owner' = Nothing
    /\ RollBack
    /\ LET stay(of) == [t \in Tasks |-> IF ProcessOf[t] = p THEN Nothing ELSE of[t]]
       IN  request' = stay(request) /\ answer' = stay(answer)
    /\ UNCHANGED <<store, changes, poisoned>>

DbStep(t) == Execute(t) \/ Begin(t) \/ Statement(t) \/ Commit(t)

\* SqliteDb keeps what the Db trait promises.
Promise == INSTANCE AtomicDb

=============================================================================
