---------------------------- MODULE MCSchemaGuard ----------------------------
(* Values for the run of SchemaGuard. *)
EXTENDS SchemaGuard, TLC

CONSTANTS a, b

OneValue == {1}
ThreeTimes == {1, 2, 3}

UuidKey == <<"uuid", "i64">>

\* After a restart the table has a column of a build that knows more.
OneForeign == {{Nullable(<<"foreign">>, "text")}}

BytesAndUuid == a :> "bytes" @@ b :> "uuid"

\* A write that the delete is newer than, a write that is newer and brings
\* the row back without the column, and one that adds another column.
WriteDeleteRevive ==
    {[kind |-> "upsert", ts |-> 1, sets |-> a :> 1],
     [kind |-> "delete", ts |-> 2],
     [kind |-> "upsert", ts |-> 3, sets |-> b :> 1]}
=============================================================================
