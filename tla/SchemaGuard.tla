---------------------------- MODULE SchemaGuard ----------------------------
(***************************************************************************)
(* How concurrent operations on one table share its schema                 *)
(* (ubiquisync-tables, src/reducer): prepare() finds or creates the table, *)
(* adds the columns an upsert needs and takes a read guard; apply()        *)
(* generates the SQL from the columns it then knows; the batch commits;    *)
(* post_apply() releases the guard.                                        *)
(*                                                                         *)
(* Abstractions.  One table and one row of it; TableMerge says what the    *)
(* statements do to the row.  A database call runs to its end once it has  *)
(* begun, as sqlite's do; one that fails changes nothing.  The table's     *)
(* lock is tokio's: whoever asks first is served first, readers together.  *)
(***************************************************************************)
EXTENDS PhysicalTable

CONSTANTS
    Tasks,         \* concurrent callers
    Named, Values, Null, Times,    \* as in TableMerge
    Work,          \* the operations callers bring
    Foreign,       \* the sets of columns other builds may have added
    Declared,      \* whether the application declares the table at first
    NoTask,
    MaxCalls,      \* bound: operations one task applies
    MaxAborts      \* bound: calls that fail or are dropped, and crashes

ASSUME SchemaGuardAssumption ==
    /\ NoTask \notin Tasks
    /\ Declared \in BOOLEAN
    /\ MaxCalls \in Nat
    /\ MaxAborts \in Nat
    /\ Named \subseteq Columns
    /\ \A o \in Work : o.kind = "upsert" => DOMAIN o.sets \subseteq Columns
    /\ \A others \in Foreign : Names(others) \cap OwnNames = {}

VARIABLES
    table,         \* the database: the table,
    row,           \* and the row, as in TableMerge
    declared,      \* whether the application declares the table
    cached,        \* whether physical_tables has an entry for the table,
    known,         \* and the cols of its schema
    mapHolder,     \* who has physical_tables for writing
    readers,       \* who has a read guard of the table's schema
    writer,        \* who has its write guard
    queue,         \* who waits for either
    pc, op,
    toAdd,         \* toAdd[t]: the columns t found missing
    sqlCols,       \* sqlCols[t]: the columns t's statement was generated from
    result,        \* result[t]: how t's last call ended
    event,         \* history: what the result of the last statement amounts
                   \* to; published if the table is declared
    applied,       \* history: the operations committed
    calls, aborts

db == <<table, row, declared, event, applied>>
locks == <<mapHolder, readers, writer, queue>>
locals == <<op, toAdd, sqlCols>>
bounds == <<calls, aborts>>

cache == <<cached, known>>

vars == <<db, cache, locks, pc, locals, result, bounds>>

T == INSTANCE TableMerge WITH
        Replicas <- {"self"},
        MaxOps <- Cardinality(Work),
        row <- [r \in {"self"} |-> row],
        event <- [r \in {"self"} |-> event],
        applied <- [r \in {"self"} |-> applied]

\* Callers bring operations of TableMerge.
ASSUME WorkAssumption == IsFiniteSet(Work) /\ Work \subseteq T!Ops

States == {"idle", "find", "make", "describe", "create", "waiting", "scan",
           "upgrade", "alter", "apply", "commit", "post"}

\* A declared table is created, with its named columns, before the first
\* operation.
Init ==
    /\ table = IF Declared THEN TableWith(Named) ELSE NoTable
    /\ declared = Declared
    /\ row = T!NoRow
    /\ cached = Declared
    /\ known = ColumnsOf(table)
    /\ mapHolder = NoTask
    /\ readers = {}
    /\ writer = NoTask
    /\ queue = <<>>
    /\ pc = [t \in Tasks |-> "idle"]
    /\ op \in [Tasks -> {CHOOSE o \in Work : TRUE}]
    /\ toAdd = [t \in Tasks |-> {}]
    /\ sqlCols = [t \in Tasks |-> {}]
    /\ result = [t \in Tasks |-> "ok"]
    /\ event = T!NoEvent
    /\ applied = {}
    /\ calls = [t \in Tasks |-> 0]
    /\ aborts = 0

GoTo(t, where) == pc' = [pc EXCEPT ![t] = where]

\* read_owned() or write_owned(): queue up for the table's lock.
Ask(t, mode) ==
    /\ queue' = Append(queue, [task |-> t, mode |-> mode])
    /\ GoTo(t, "waiting")

Return(t, how) ==
    /\ GoTo(t, "idle")
    /\ result' = [result EXCEPT ![t] = how]

\* The columns the INSERT of o names.
Needs(o) == IF o.kind = "upsert" THEN DOMAIN o.sets ELSE {}

Call(t) ==
    /\ pc[t] = "idle"
    /\ calls[t] < MaxCalls
    /\ calls' = [calls EXCEPT ![t] = @ + 1]
    /\ \E o \in Work : op' = [op EXCEPT ![t] = o]
    /\ GoTo(t, "find")
    /\ UNCHANGED <<db, cache, locks, toAdd, sqlCols, result, aborts>>

-----------------------------------------------------------------------------
(* ensure_table() *)

Find(t) ==
    /\ pc[t] = "find"
    /\ mapHolder = NoTask
    /\ IF cached
       THEN Ask(t, "read")
       ELSE GoTo(t, "make") /\ UNCHANGED queue
    /\ UNCHANGED <<db, cache, mapHolder, readers, writer, locals, result, bounds>>

\* Another task may have made the entry since Find.
LockMap(t) ==
    /\ pc[t] = "make"
    /\ mapHolder = NoTask
    /\ IF cached
       THEN Ask(t, "read") /\ UNCHANGED mapHolder
       ELSE mapHolder' = t /\ GoTo(t, "describe") /\ UNCHANGED queue
    /\ UNCHANGED <<db, cache, readers, writer, locals, result, bounds>>

\* new_surrogate(): a table of an earlier run, or of another build, is taken as
\* it is.
Describe(t) ==
    /\ pc[t] = "describe"
    /\ IF table = NoTable
       THEN GoTo(t, "create") /\ UNCHANGED <<cache, mapHolder, queue, result>>
       ELSE /\ mapHolder' = NoTask
            /\ IF Recognised(table)
               THEN /\ cached' = TRUE
                    /\ known' = ColumnsOf(table)
                    /\ Ask(t, "read")
                    /\ UNCHANGED result
               ELSE Return(t, "error") /\ UNCHANGED <<cache, queue>>
    /\ UNCHANGED <<db, readers, writer, locals, bounds>>

\* The database refuses to create a table twice.
Create(t) ==
    /\ pc[t] = "create"
    /\ mapHolder' = NoTask
    /\ IF table # NoTable
       THEN Return(t, "error") /\ UNCHANGED <<table, cache, queue>>
       ELSE /\ table' = TableWith({})
            /\ cached' = TRUE
            /\ known' = {}
            /\ Ask(t, "read")
            /\ UNCHANGED result
    /\ UNCHANGED <<row, declared, event, applied, readers, writer, locals, bounds>>

-----------------------------------------------------------------------------
(* sync_upsert_schema() and sync_delete_schema() *)

\* The first in the queue gets the lock as soon as it is free for it.
Serve(t) ==
    /\ queue # <<>>
    /\ Head(queue).task = t
    /\ writer = NoTask
    /\ \/ /\ Head(queue).mode = "read"
          /\ readers' = readers \cup {t}
          /\ GoTo(t, "scan")
          /\ UNCHANGED writer
       \/ /\ Head(queue).mode = "write"
          /\ readers = {}
          /\ writer' = t
          /\ GoTo(t, "alter")
          /\ UNCHANGED readers
    /\ queue' = Tail(queue)
    /\ UNCHANGED <<db, cache, mapHolder, locals, result, bounds>>

\* If a column is missing the read guard is given up for a write guard.
Scan(t) ==
    /\ pc[t] = "scan"
    /\ LET missing == Needs(op[t]) \ known IN
       IF missing = {}
       THEN GoTo(t, "apply") /\ UNCHANGED <<readers, toAdd>>
       ELSE /\ readers' = readers \ {t}
            /\ toAdd' = [toAdd EXCEPT ![t] = missing]
            /\ GoTo(t, "upgrade")
    /\ UNCHANGED <<db, cache, mapHolder, writer, queue, op, sqlCols, result, bounds>>

Upgrade(t) ==
    /\ pc[t] = "upgrade"
    /\ Ask(t, "write")
    /\ UNCHANGED <<db, cache, mapHolder, readers, writer, locals, result, bounds>>

\* Mutant of Alter: the column is not looked up again.
AlterUnchecked(t) ==
    /\ pc[t] = "alter"
    /\ \E c \in toAdd[t] :
          /\ toAdd' = [toAdd EXCEPT ![t] = @ \ {c}]
          /\ IF ~CanAdd(table, c)
             THEN Return(t, "error") /\ writer' = NoTask /\ UNCHANGED <<table, known>>
             ELSE /\ table' = WithColumn(table, c)
                  /\ known' = known \cup {c}
                  /\ UNCHANGED <<pc, writer, result>>
    /\ UNCHANGED <<row, declared, event, applied, cached, mapHolder, readers, queue,
                   op, sqlCols, bounds>>

\* ensure_column(): another task may have added the column since Scan.  The
\* database refuses to add it twice.
Alter(t) ==
    /\ pc[t] = "alter"
    /\ \E c \in toAdd[t] :
          /\ toAdd' = [toAdd EXCEPT ![t] = @ \ {c}]
          /\ IF c \in known
             THEN UNCHANGED <<table, known, pc, writer, result>>
             ELSE IF ~CanAdd(table, c)
             THEN Return(t, "error") /\ writer' = NoTask /\ UNCHANGED <<table, known>>
             ELSE /\ table' = WithColumn(table, c)
                  /\ known' = known \cup {c}
                  /\ UNCHANGED <<pc, writer, result>>
    /\ UNCHANGED <<row, declared, event, applied, cached, mapHolder, readers, queue,
                   op, sqlCols, bounds>>

\* Mutant of Downgrade: the write guard is kept.
DowngradeForgotten(t) ==
    /\ pc[t] = "alter"
    /\ toAdd[t] = {}
    /\ GoTo(t, "apply")
    /\ UNCHANGED <<db, cache, locks, locals, result, bounds>>

Downgrade(t) ==
    /\ pc[t] = "alter"
    /\ toAdd[t] = {}
    /\ writer' = NoTask
    /\ readers' = readers \cup {t}
    /\ GoTo(t, "apply")
    /\ UNCHANGED <<db, cache, mapHolder, queue, locals, result, bounds>>

-----------------------------------------------------------------------------
(* apply(), the commit of the batch, post_apply() *)

\* Mutant of Apply: the guard ends with apply(), before the commit.
ApplyAndRelease(t) ==
    /\ pc[t] = "apply"
    /\ sqlCols' = [sqlCols EXCEPT ![t] = known]
    /\ readers' = readers \ {t}
    /\ GoTo(t, "commit")
    /\ UNCHANGED <<db, cache, mapHolder, writer, queue, op, toAdd, result, bounds>>

Apply(t) ==
    /\ pc[t] = "apply"
    /\ sqlCols' = [sqlCols EXCEPT ![t] = known]
    /\ GoTo(t, "commit")
    /\ UNCHANGED <<db, cache, locks, op, toAdd, result, bounds>>

\* Mutant of Deleted: only the columns the application declared.
DeletedNamed(m, o, cols) ==
    LET gone == T!AfterDelete(m, o) IN
    [gone EXCEPT
        !.val = [c \in Columns |-> IF c \in Named THEN @[c] ELSE m.val[c]],
        !.lww = [c \in Columns |-> IF c \in Named THEN @[c] ELSE m.lww[c]]]

\* A delete clears the columns it was generated for, and no others.
Deleted(m, o, cols) ==
    LET gone == T!AfterDelete(m, o) IN
    [gone EXCEPT
        !.val = [c \in Columns |-> IF c \in cols THEN @[c] ELSE m.val[c]],
        !.lww = [c \in Columns |-> IF c \in cols THEN @[c] ELSE m.lww[c]]]

RunUpsert(o) ==
    IF T!Upserted(row, o)
    THEN LET m == T!AfterUpsert(row, o) IN
         row' = m /\ event' = [kind |-> "upsert", cols |-> T!Reported(m, o)]
    ELSE event' = T!NoEvent /\ UNCHANGED row

RunDelete(o, cols) ==
    IF ~ row.present \/ o.ts > row.del
    THEN row' = Deleted(row, o, cols) /\ event' = T!DeleteEvent(row)
    ELSE event' = T!NoEvent /\ UNCHANGED row

\* The database refuses a statement with a column it does not have.
Commit(t) ==
    /\ pc[t] = "commit"
    /\ IF Needs(op[t]) \subseteq ColumnsOf(table)
       THEN /\ IF op[t].kind = "upsert"
               THEN RunUpsert(op[t])
               ELSE RunDelete(op[t], sqlCols[t])
            /\ applied' = applied \cup {op[t]}
            /\ GoTo(t, "post")
            /\ UNCHANGED <<readers, result>>
       ELSE /\ Return(t, "error")
            /\ readers' = readers \ {t}
            /\ UNCHANGED <<row, event, applied>>
    /\ UNCHANGED <<table, declared, cache, mapHolder, writer, queue, locals, bounds>>

PostApply(t) ==
    /\ pc[t] = "post"
    /\ readers' = readers \ {t}
    /\ Return(t, "ok")
    /\ UNCHANGED <<db, cache, mapHolder, writer, queue, locals, bounds>>

-----------------------------------------------------------------------------
\* A future that is dropped while it waits leaves the queue.
LeaveQueue(t) ==
    \/ \E i \in DOMAIN queue :
          /\ queue[i].task = t
          /\ queue' = SubSeq(queue, 1, i - 1) \o SubSeq(queue, i + 1, Len(queue))
    \/ (\A i \in DOMAIN queue : queue[i].task # t) /\ UNCHANGED queue

\* The caller drops the call, or the database reports an error: every guard
\* goes with it.
Abandon(t) ==
    /\ pc[t] # "idle"
    /\ aborts < MaxAborts
    /\ aborts' = aborts + 1
    /\ mapHolder' = IF mapHolder = t THEN NoTask ELSE mapHolder
    /\ readers' = readers \ {t}
    /\ writer' = IF writer = t THEN NoTask ELSE writer
    /\ LeaveQueue(t)
    /\ Return(t, "abandoned")
    /\ UNCHANGED <<db, cache, locals, calls>>

\* Reducer::new(), on a database where the table is now `found`: new_named()
\* creates a declared table or adds the columns it lacks, and caches it.
Open(found, declares) ==
    /\ cached' = declares
    /\ \/ /\ ~declares
          /\ table' = found /\ known' = {}
       \/ /\ declares /\ found = NoTable
          /\ table' = TableWith(Named) /\ known' = Named
       \/ /\ declares /\ found # NoTable /\ CanDeclare(found, Named)
          /\ table' = Declare(found, Named) /\ known' = ColumnsOf(table')

Refused(found, declares) == declares /\ found # NoTable /\ ~CanDeclare(found, Named)

\* The process ends and opens the database again: as the same build, or as one
\* that declares the table, after another that knows more columns perhaps.
Crash ==
    /\ aborts < MaxAborts
    /\ aborts' = aborts + 1
    /\ \E declares \in {declared, TRUE},
          found \in IF table = NoTable THEN {table}
                   ELSE {[table EXCEPT !.cols = @ \cup others] : others \in Foreign} :
          /\ declared' = declares
          /\ IF Refused(found, declares)
             THEN result' = [t \in Tasks |-> "error"] /\ UNCHANGED <<table, cache>>
             ELSE Open(found, declares) /\ result' = [t \in Tasks |-> "abandoned"]
    /\ mapHolder' = NoTask
    /\ readers' = {}
    /\ writer' = NoTask
    /\ queue' = <<>>
    /\ pc' = [t \in Tasks |-> "idle"]
    /\ UNCHANGED <<row, event, applied, locals, calls>>

Step(t) ==
    \/ Find(t)
    \/ LockMap(t)
    \/ Describe(t)
    \/ Create(t)
    \/ Serve(t)
    \/ Scan(t)
    \/ Upgrade(t)
    \/ Alter(t)
    \/ Downgrade(t)
    \/ Apply(t)
    \/ Commit(t)
    \/ PostApply(t)

Next ==
    \/ \E t \in Tasks : Call(t) \/ Step(t) \/ Abandon(t)
    \/ Crash

Spec == Init /\ [][Next]_vars

\* While some call can go on, one does: less than what an executor that polls
\* each call gives.  Nobody has to call or to give up.
FairSpec == Spec /\ WF_vars(\E t \in Tasks : Step(t))

-----------------------------------------------------------------------------
(* Properties *)

(***************************************************************************)
(* What the read guard is threaded through prepare(), apply() and          *)
(* post_apply() for: when a statement runs the table has the columns it    *)
(* was generated from and no others, whoever else is altering the table,   *)
(* gives up or crashes.                                                    *)
(***************************************************************************)
SchemaFrozen ==
    \A t \in Tasks : pc[t] = "commit" => sqlCols[t] = ColumnsOf(table)

(***************************************************************************)
(* Callers never trip over each other's DDL, nor over that of an earlier   *)
(* run or another build: no call creates a table or a column that is       *)
(* there, writes one that is not, or does not recognise the table it       *)
(* finds, although the schema is looked at before the lock it is changed   *)
(* under is held.                                                          *)
(***************************************************************************)
CallsSucceed == \A t \in Tasks : result[t] # "error"

(***************************************************************************)
(* Every call that is not dropped comes back.  The way from the read lock  *)
(* over the write lock to the read lock, with others queued between them   *)
(* and calls dropped while they wait, blocks nobody for ever.              *)
(***************************************************************************)
EveryCallReturns == \A t \in Tasks : pc[t] # "idle" ~> pc[t] = "idle"

(***************************************************************************)
(* With the schema changing under it, the row is still what TableMerge     *)
(* says: a delete clears every column the table has, declared or not.      *)
(***************************************************************************)
ImplementsTableMerge == T!MergeSpec

=============================================================================
