---------------------------- MODULE PhysicalTable ----------------------------
(***************************************************************************)
(* The physical table behind a table id: how it is created and altered,    *)
(* what SQLite then describes, and which descriptions are taken for the    *)
(* table (ubiquisync-tables, src/physical_schema.rs, col_type.rs;          *)
(* ubiquisync-sql, src/db/schema.rs; ubiquisync-sqlite, src/lib.rs).       *)
(*                                                                         *)
(* A table is what describe_table() says of it: its key columns in their   *)
(* order and the set of the others.  A name is a token: names are made of  *)
(* identifiers and parsed back to them, and a foreign name is none.        *)
(***************************************************************************)
EXTENDS Integers, Sequences, FiniteSets

CONSTANTS
    Columns,      \* the value columns: their ids
    KeyTypes,     \* the types of the key columns, which the table id holds
    TypeOf        \* the type of each value column, which its id holds

-----------------------------------------------------------------------------
(* Types *)

Types == {"bytes", "text", "i64", "uuid"}

ASSUME PhysicalTableAssumption ==
    /\ KeyTypes \in Seq(Types)
    /\ TypeOf \in [Columns -> Types]

DbType(type) ==
    CASE type = "bytes" -> "blob"
      [] type = "text" -> "text"
      [] type = "i64" -> "integer"
      [] type = "uuid" -> "uuid"

Accepts(type, dbType) ==
    \/ dbType = DbType(type)
    \/ type = "uuid" /\ dbType = "blob"

\* sql_type() and affinity(): the class SQLite reports of a column created as
\* dbType.
Affinity(dbType) == IF dbType = "uuid" THEN "blob" ELSE dbType

-----------------------------------------------------------------------------
(* Columns *)

KeyName(i) == <<"pk", i>>
ColName(c) == <<"col", c>>
LwwName(c) == <<"lww", c>>
UpsertTs == <<"__upsert_ts">>
DeletedTs == <<"__deleted_ts">>

\* What is none of these is left in place and ignored.
OwnNames == {UpsertTs, DeletedTs} \cup {ColName(c) : c \in Columns} \cup {LwwName(c) : c \in Columns}

\* `name TYPE NOT NULL` and `name TYPE`, as they are described.
NotNull(name, dbType) == [name |-> name, type |-> Affinity(dbType), nullable |-> FALSE]
Nullable(name, dbType) == [name |-> name, type |-> Affinity(dbType), nullable |-> TRUE]

\* A value column and its lww column.
Pair(c) == {Nullable(ColName(c), DbType(TypeOf[c])), NotNull(LwwName(c), "integer")}

Pairs(columns) == UNION {Pair(c) : c \in columns}

Names(cols) == {col.name : col \in cols}

-----------------------------------------------------------------------------
(* Tables *)

\* describe_table() finds no columns.
NoTable == [pk |-> <<>>, cols |-> {}]

\* create_table()
TableWith(columns) ==
    [pk |-> [i \in DOMAIN KeyTypes |-> NotNull(KeyName(i), DbType(KeyTypes[i]))],
     cols |-> {NotNull(UpsertTs, "integer"), NotNull(DeletedTs, "integer")}
                \cup Pairs(columns)]

\* The two ALTER TABLE of ensure_column() go through together or not at all.
CanAdd(table, c) == Names(Pair(c)) \cap Names(table.cols) = {}
WithColumn(table, c) == [table EXCEPT !.cols = @ \cup Pair(c)]

\* validate_upsert_delete_ts_cols()
TimestampOk(table, name) ==
    \E col \in table.cols : col.name = name /\ col.type = "integer" /\ ~col.nullable

KeyOk(table) ==
    /\ Len(table.pk) = Len(KeyTypes)
    /\ \A i \in DOMAIN KeyTypes :
          /\ Accepts(KeyTypes[i], table.pk[i].type)
          /\ ~table.pk[i].nullable
          /\ table.pk[i].name = KeyName(i)

\* Of the others, those with a name that parses; the rest are left in place.
ColumnOk(table, c) ==
    \A col \in table.cols :
        col.name = ColName(c) =>
            /\ Accepts(TypeOf[c], col.type) /\ col.nullable
            /\ \E lww \in table.cols :
                  lww.name = LwwName(c) /\ lww.type = "integer" /\ ~lww.nullable

\* new_from_db_descriptor() goes well.
Recognised(table) ==
    /\ KeyOk(table)
    /\ TimestampOk(table, UpsertTs) /\ TimestampOk(table, DeletedTs)
    /\ \A c \in Columns : ColumnOk(table, c)

\* The cols of the schema it makes.
ColumnsOf(table) == {c \in Columns : ColName(c) \in Names(table.cols)}

\* new_named() on a table that is there: the declared columns it lacks.
CanDeclare(table, named) ==
    Recognised(table) /\ \A c \in named \ ColumnsOf(table) : CanAdd(table, c)

Declare(table, named) ==
    [table EXCEPT !.cols = @ \cup Pairs(named \ ColumnsOf(table))]

=============================================================================
