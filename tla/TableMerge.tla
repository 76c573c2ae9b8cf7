----------------------------- MODULE TableMerge -----------------------------
(***************************************************************************)
(* How table operations merge (ubiquisync-tables, src/reducer): replicas   *)
(* apply the same upserts and deletes of one row, each in an order of its  *)
(* own, through the conditional SQL statements of apply_upsert() and       *)
(* apply_delete(), and emit the change events of post_upsert() and         *)
(* post_delete().  The table is a declared one, with a view and events.    *)
(*                                                                         *)
(* Abstractions.  Rows of different keys never meet in a statement, so one *)
(* row stands for all.  A timestamp is its packed integer (Hlc).  A column *)
(* that a replica has not materialized yet reads as NULL with last write   *)
(* 0, the defaults it is added with.  The order in which a replica comes   *)
(* by the operations is open: an operation may come late, again, or never. *)
(***************************************************************************)
EXTENDS Integers, FiniteSets

CONSTANTS
    Replicas,
    Columns,     \* the value columns of the table
    Named,       \* those with a user-facing name: events report no others
    Values,      \* what a column may hold, in the order the database sorts
    Null,
    Times,       \* timestamps; 0 means "never written"
    MaxOps       \* bound: different operations, on all replicas

ASSUME TableMergeAssumption ==
    /\ Named \subseteq Columns
    /\ Values \subseteq Int
    /\ Null \notin Values
    /\ Times \subseteq Nat \ {0}
    /\ MaxOps \in Nat

VARIABLES
    row,         \* row[r]: the physical row of replica r
    event,       \* event[r]: the event of the last operation r applied
    applied      \* applied[r]: history, the operations r has applied

mergeVars == <<row, event, applied>>

Cells == Values \cup {Null}

\* val and lww: a column's value and the timestamp of its last write;
\* up and del: __upsert_ts and __deleted_ts.
PhysicalRows ==
    [present : BOOLEAN, up : Times \cup {0}, del : Times \cup {0},
     val : [Columns -> Cells], lww : [Columns -> Times \cup {0}]]

\* An upsert sets some columns; a delete none, but all of the row.
Upserts == [kind : {"upsert"}, ts : Times,
            sets : UNION {[C -> Cells] : C \in SUBSET Columns}]

Deletes == [kind : {"delete"}, ts : Times]

Ops == Upserts \cup Deletes

Events == [kind : {"none", "delete"}, cols : {{}}]
          \cup [kind : {"upsert"}, cols : SUBSET Named]

NoEvent == [kind |-> "none", cols |-> {}]

\* What a row not stored stands for: the defaults of its columns.
NoRow == [present |-> FALSE, up |-> 0, del |-> 0,
          val |-> [c \in Columns |-> Null], lww |-> [c \in Columns |-> 0]]

MergeInit ==
    /\ row = [r \in Replicas |-> NoRow]
    /\ event = [r \in Replicas |-> NoEvent]
    /\ applied = [r \in Replicas |-> {}]

Later(s, t) == IF s < t THEN t ELSE s

-----------------------------------------------------------------------------
(* apply_upsert() *)

\* The tie-break: the greater value, with NULL below every value.
Beats(v, w) == v # Null /\ (w = Null \/ v > w)

\* Mutant of Wins: no tie-break, so the first of two equal writes stays.
WinsStrictly(m, op, c) == op.ts > m.lww[c]

\* The write of column c takes effect.
Wins(m, op, c) ==
    \/ op.ts > m.lww[c]
    \/ op.ts = m.lww[c] /\ Beats(op.sets[c], m.val[c])

\* The INSERT goes through, or the conflict's WHERE lets the update through.
Upserted(m, op) ==
    \/ ~ m.present
    \/ /\ op.ts >= m.del
       /\ op.ts > m.up \/ \E c \in DOMAIN op.sets : Wins(m, op, c)

\* The SET clauses; on a row of defaults they are the VALUES of the INSERT.
AfterUpsert(m, op) ==
    [m EXCEPT
        !.present = TRUE,
        !.up = Later(@, op.ts),
        !.val = [c \in Columns |->
            IF c \in DOMAIN op.sets /\ Wins(m, op, c) THEN op.sets[c] ELSE @[c]],
        !.lww = [c \in Columns |->
            IF c \in DOMAIN op.sets THEN Later(@[c], op.ts) ELSE @[c]]]

\* Mutant of Reported: every named column the operation names.
ReportedAll(m, op) == Named \cap DOMAIN op.sets

\* The RETURNING clauses, on the row after the statement.
Reported(m, op) ==
    {c \in Named \cap DOMAIN op.sets : m.lww[c] = op.ts /\ m.val[c] = op.sets[c]}

Upsert(r, op) ==
    /\ op.kind = "upsert"
    /\ IF Upserted(row[r], op)
       THEN LET m == AfterUpsert(row[r], op) IN
            /\ row' = [row EXCEPT ![r] = m]
            /\ event' = [event EXCEPT
                            ![r] = [kind |-> "upsert", cols |-> Reported(m, op)]]
       ELSE /\ event' = [event EXCEPT ![r] = NoEvent]
            /\ UNCHANGED row

-----------------------------------------------------------------------------
(* apply_delete() *)

\* Mutant of AfterDelete: the columns keep what they hold.
AfterDeleteKeepingData(m, op) ==
    [m EXCEPT !.present = TRUE, !.del = Later(@, op.ts)]

\* Older writes are cleared, back to the never-written state; newer ones,
\* which came early, stay.
AfterDelete(m, op) ==
    [m EXCEPT
        !.present = TRUE,
        !.del = Later(@, op.ts),
        !.val = [c \in Columns |-> IF m.lww[c] < op.ts THEN Null ELSE @[c]],
        !.lww = [c \in Columns |-> IF @[c] < op.ts THEN 0 ELSE @[c]]]

\* Mutant of DeleteEvent: nobody is told of a delete that is not the row's
\* first.
DeleteEventFirstOnly(m) ==
    IF m.del > 0 THEN NoEvent ELSE [kind |-> "delete", cols |-> {}]

\* post_delete(): the statement wrote the row m.
DeleteEvent(m) == [kind |-> "delete", cols |-> {}]

Delete(r, op) ==
    /\ op.kind = "delete"
    /\ IF ~ row[r].present \/ op.ts > row[r].del
       THEN /\ row' = [row EXCEPT ![r] = AfterDelete(@, op)]
            /\ event' = [event EXCEPT ![r] = DeleteEvent(row[r])]
       ELSE /\ event' = [event EXCEPT ![r] = NoEvent]
            /\ UNCHANGED row

-----------------------------------------------------------------------------
\* The operations some replica has applied.
Issued == UNION {applied[r] : r \in Replicas}

\* MaxOps bounds the operations, not how often one comes.
MergeNext ==
    \E r \in Replicas, op \in Ops :
        /\ op \in Issued \/ Cardinality(Issued) < MaxOps
        /\ applied' = [applied EXCEPT ![r] = @ \cup {op}]
        /\ Upsert(r, op) \/ Delete(r, op)

MergeSpec == MergeInit /\ [][MergeNext]_mergeVars

-----------------------------------------------------------------------------
(* Properties *)

MergeTypeOK ==
    /\ row \in [Replicas -> PhysicalRows]
    /\ event \in [Replicas -> Events]
    /\ applied \in [Replicas -> SUBSET Ops]

\* The WHERE clause of the view.
Visible(m) == m.present /\ m.up >= m.del

\* What a query of the view sees.
View(m) ==
    IF Visible(m) THEN [visible |-> TRUE, val |-> m.val]
    ELSE [visible |-> FALSE, val |-> [c \in Columns |-> Null]]

\* The deletes of S leave the operation standing.
Stands(op, S) ==
    op.kind = "upsert" /\ \A d \in S : d.kind = "delete" => d.ts <= op.ts

\* The upserts of S that set column c and stand.
Writers(S, c) == {u \in S : Stands(u, S) /\ c \in DOMAIN u.sets}

\* Writing v at time s comes before writing w at time t.
Below(s, v, t, w) == s < t \/ (s = t /\ (v = w \/ Beats(w, v)))

\* Column c of row m is the greatest write of S that stands, if there is one.
ColumnIsMerge(m, S, c) ==
    IF Writers(S, c) = {} THEN m.val[c] = Null /\ m.lww[c] = 0
    ELSE /\ \E u \in Writers(S, c) : m.lww[c] = u.ts /\ m.val[c] = u.sets[c]
         /\ \A u \in Writers(S, c) : Below(u.ts, u.sets[c], m.lww[c], m.val[c])

(***************************************************************************)
(* A row is what its operations make of it, in whatever order, and however *)
(* often, they came: it is visible iff an upsert is not older than every   *)
(* delete, and each of its columns holds the greatest write that no delete *)
(* is newer than.  Nothing of a row that was deleted is left behind, and   *)
(* nothing written before a delete comes back with a later upsert.         *)
(***************************************************************************)
RowIsMerge ==
    \A r \in Replicas :
        /\ Visible(row[r]) <=> \E u \in applied[r] : Stands(u, applied[r])
        /\ \A c \in Columns : ColumnIsMerge(row[r], applied[r], c)

(***************************************************************************)
(* Replicas that have applied the same operations show the same row.       *)
(* (__upsert_ts itself may differ between them: apply_upsert() accepts     *)
(* that, and nothing a query sees depends on it.)                          *)
(***************************************************************************)
Converged ==
    \A r, s \in Replicas : applied[r] = applied[s] => View(row[r]) = View(row[s])

(***************************************************************************)
(* Observers are told of every change they can see: a row that appears,    *)
(* disappears or changes comes with an event, an upsert event comes with a *)
(* row that is there and names every named column that changed.            *)
(***************************************************************************)
EventsTellChanges ==
    [][\A r \in Replicas :
        /\ View(row[r])' # View(row[r]) => event'[r].kind # "none"
        /\ (event'[r].kind = "upsert" /\ row'[r] # row[r]) =>
              /\ Visible(row'[r])
              /\ \A c \in Named :
                    View(row[r])'.val[c] # View(row[r]).val[c] => c \in event'[r].cols]_mergeVars

(***************************************************************************)
(* A column an event reports had its value from this operation: the loser  *)
(* of a tie is not reported, although its timestamp is the column's.       *)
(***************************************************************************)
ReportsAreTrue ==
    [][\A r \in Replicas : \A u \in applied'[r] \ applied[r] :
        event'[r].kind = "upsert" =>
            \A c \in event'[r].cols : View(row'[r]).val[c] = u.sets[c]]_mergeVars

(***************************************************************************)
(* What the protocol document says of ties: a deletion beats a write of    *)
(* the same timestamp.  The statements and the view let the write win.     *)
(***************************************************************************)
DeletionBeatsWrite ==
    \A r \in Replicas :
        (\E d \in applied[r] : /\ d.kind = "delete"
                               /\ \A u \in applied[r] : u.ts <= d.ts) =>
            ~ Visible(row[r])

=============================================================================
