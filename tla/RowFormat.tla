------------------------------ MODULE RowFormat -------------------------------
(***************************************************************************)
(* The rows of the replica's own tables as database cells: the columns and *)
(* their types (ubiquisync-sql, src/replica/schema.rs), their conversions  *)
(* (src/db/col.rs, row.rs, value.rs), the way of a parameter through       *)
(* sea_query (src/db/sea_query.rs) and into a cell of SQLite and back      *)
(* (ubiquisync-sqlite, src/lib.rs).                                        *)
(*                                                                         *)
(* A cell is a pair of its storage class and its content; NULL has no      *)
(* content.  A row is a sequence of cells in the order of the columns.     *)
(***************************************************************************)
EXTENDS LogFormat

Null == <<"null">>
IntegerCell(n) == <<"integer", n>>
TextCell(s) == <<"text", s>>
BlobCell(bytes) == <<"blob", bytes>>
UuidCell(bytes) == <<"uuid", bytes>>

IsA(class, cell) == cell[1] = class

-----------------------------------------------------------------------------
(* Tables *)

Column(type) == [type |-> type, optional |-> FALSE]
OptionalColumn(type) == [type |-> type, optional |-> TRUE]

Tables == {"peers", "streams", "segments", "hlc"}

Columns(table) ==
    CASE table = "peers" -> <<Column("array"), Column("bytes"), Column("signature")>>
      [] table = "streams" ->
            <<Column("i64"), Column("uuid"), Column("u64"), Column("array"), OptionalColumn("cipher"),
              OptionalColumn("head_err"), Column("u64"), OptionalColumn("commit_err"),
              OptionalColumn("i64"), OptionalColumn("u64"), OptionalColumn("array")>>
      [] table = "segments" -> <<Column("i64"), Column("u64"), Column("u64"), Column("bytes")>>
      [] table = "hlc" -> <<Column("i64"), Column("timestamp")>>

\* What the database may hold, and what the types of the columns stand for.
Cell ==
    {Null} \cup ({"integer"} \X I64) \cup ({"text", "blob"} \X Str)

ColumnValue(type) ==
    CASE type = "u64" -> U64
      [] type = "i64" -> I64
      [] type = "timestamp" -> 0 .. MaxI64
      [] type = "bytes" -> Str
      [] type \in {"array", "uuid"} -> Array
      [] type = "cipher" -> CipherInfo
      [] type = "signature" -> Key
      [] type = "commit_err" -> CommitErr
      [] type = "head_err" -> {"todo"}

ColumnIs(col, v) ==
    v \in (IF col.optional THEN Option(ColumnValue(col.type)) ELSE ColumnValue(col.type))

RowIs(table, row) ==
    /\ row = [i \in DOMAIN Columns(table) |-> row[i]]
    /\ \A i \in DOMAIN Columns(table) : ColumnIs(Columns(table)[i], row[i])

-----------------------------------------------------------------------------
(* ColType::to_db_val(), and the way into a cell *)

\* Mutant of ToDbOk: no u64 is refused.
ToDbUnchecked(type, v) == TRUE

\* A u64 has to be an i64 as well.
ToDbOk(type, v) == type = "u64" => v <= MaxI64

\* The conversion of a u64 that was not refused; others would wrap.
AsI64(v) == IF v > MaxI64 THEN v - MaxU64 - 1 ELSE v

ToDb(type, v) ==
    CASE type = "u64" -> IntegerCell(AsI64(v))
      [] type \in {"i64", "timestamp"} -> IntegerCell(v)
      [] type \in {"bytes", "array"} -> BlobCell(v)
      [] type = "uuid" -> UuidCell(v)
      [] type = "cipher" -> BlobCell(CipherBytes(v))
      [] type = "signature" -> BlobCell(TaggedBytes(v))
      [] type = "commit_err" -> BlobCell(StatusBytes(v))
      [] type = "head_err" -> BlobCell(<<>>)

\* An option is a sequence of at most one element.
ColToDb(col, v) ==
    CASE ~col.optional -> ToDb(col.type, v)
      [] col.optional /\ v = <<>> -> Null
      [] col.optional /\ v # <<>> -> ToDb(col.type, v[1])

ColToDbOk(col, v) ==
    IF col.optional THEN \A x \in ToSet(v) : ToDbOk(col.type, x) ELSE ToDbOk(col.type, v)

\* db_to_value(): NULL becomes a byte string that is missing.
SeaValue(cell) ==
    CASE IsA("null", cell) -> <<"bytes", <<>>>>
      [] IsA("integer", cell) -> <<"big_int", <<cell[2]>>>>
      [] IsA("text", cell) -> <<"string", <<cell[2]>>>>
      [] IsA("blob", cell) -> <<"bytes", <<cell[2]>>>>
      [] IsA("uuid", cell) -> <<"uuid", <<cell[2]>>>>

\* value_to_db(), of the values that db_to_value() makes.
FromSeaValue(v) ==
    CASE v[2] = <<>> -> Null
      [] v[2] # <<>> /\ v[1] = "big_int" -> IntegerCell(v[2][1])
      [] v[2] # <<>> /\ v[1] = "string" -> TextCell(v[2][1])
      [] v[2] # <<>> /\ v[1] = "bytes" -> BlobCell(v[2][1])
      [] v[2] # <<>> /\ v[1] = "uuid" -> UuidCell(v[2][1])

\* to_sql_value(): SQLite has no UUIDs.
Stored(param) == IF IsA("uuid", param) THEN BlobCell(param[2]) ELSE param

RowOk(table, row) == \A i \in DOMAIN Columns(table) : ColToDbOk(Columns(table)[i], row[i])

RowCells(table, row) ==
    [i \in DOMAIN Columns(table) |->
        Stored(FromSeaValue(SeaValue(ColToDb(Columns(table)[i], row[i]))))]

-----------------------------------------------------------------------------
(* ColType::from_db_val(), DbRow::get_at() *)

\* Bytes that are read whole by the decoder of a value in them.
Whole(bytes, Read(_)) == RequireEmpty(Read(Reader(bytes)))

Content(class, cell) ==
    IF IsA(class, cell) THEN Good(cell[2], <<>>) ELSE Failed

Nested(cell, Read(_)) == IF IsA("blob", cell) THEN Whole(cell[2], Read) ELSE Failed

FromDb(type, cell) ==
    CASE type \in {"u64", "timestamp"} -> Checked(Content("integer", cell), LAMBDA n : n >= 0)
      [] type = "i64" -> Content("integer", cell)
      [] type = "bytes" -> Content("blob", cell)
      [] type = "array" -> Nested(cell, ReadArray)
      [] type = "uuid" ->
            IF IsA("uuid", cell) THEN Content("uuid", cell) ELSE Nested(cell, ReadArray)
      [] type = "cipher" -> Nested(cell, ReadCipher)
      [] type = "signature" -> Nested(cell, ReadTagged)
      [] type = "commit_err" -> Nested(cell, ReadCommitErr)
      [] type = "head_err" -> Nested(cell, LAMBDA r : Into(r, LAMBDA v : "todo"))

ColFromDb(col, cell) ==
    CASE col.optional /\ IsA("null", cell) -> Reader(<<>>)
      [] col.optional /\ ~IsA("null", cell) -> Into(FromDb(col.type, cell), LAMBDA v : <<v>>)
      [] ~col.optional -> FromDb(col.type, cell)

\* A row with too few cells is out of bounds; cells too many are not looked at.
ReadRow(table, cells) ==
    LET read == [i \in DOMAIN Columns(table) |->
                    IF i \in DOMAIN cells THEN ColFromDb(Columns(table)[i], cells[i]) ELSE Failed]
    IN  IF \A i \in DOMAIN read : read[i].ok
        THEN Good([i \in DOMAIN read |-> read[i].val], <<>>)
        ELSE Failed

=============================================================================
