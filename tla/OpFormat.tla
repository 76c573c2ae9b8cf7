------------------------------ MODULE OpFormat ------------------------------
(***************************************************************************)
(* The operations of the tables reducer as bytes, their identifiers, and   *)
(* their validation (ubiquisync-tables, src/codec.rs, id.rs, col_type.rs,  *)
(* op.rs, reducer/validate.rs).                                            *)
(*                                                                         *)
(* Identifiers say how to read what follows: a table identifier holds the  *)
(* number and the types of its key columns, a column identifier its type.  *)
(* Text is ASCII: sequences of several bytes are left out of UTF-8.  The   *)
(* container id is compared in the code and left out here.                 *)
(***************************************************************************)
EXTENDS Wire

CONSTANT CountBits     \* of the number of key columns: 2

ASSUME OpFormatAssumption == CountBits \in Nat /\ CountBits + 2 * Power(2, CountBits) <= 2 * (GroupBits + 1)

-----------------------------------------------------------------------------
(* Types and identifiers *)

\* The order is that of the two bits.
ColTypes == <<"bytes", "text", "i64", "uuid">>

TypeBits == 2
FromBits(bits) == ColTypes[(bits % 4) + 1]
IntoBits(type) == CHOOSE bits \in 0 .. 3 : FromBits(bits) = type

IdBits == 2 * (GroupBits + 1)

\* Below the count, the types from the top downwards; the index at the bottom.
IndexBits(count) == IdBits - CountBits - TypeBits * count

TableId(types, index) ==
    FoldLeft(LAMBDA id, i : id + IntoBits(types[i]) * Power(2, IndexBits(i)),
             (Len(types) - 1) * Power(2, IndexBits(0)) + index,
             [i \in DOMAIN types |-> i])

PkCount(table) == table \div Power(2, IndexBits(0)) + 1

PkColType(table, i) == FromBits(table \div Power(2, IndexBits(i)))

\* An index that does not fit is truncated.
ColumnId(index, type) ==
    IntoBits(type) * (Base \div 4) + (index % (Base \div 4))

ColumnType(column) == FromBits(column \div (Base \div 4))

-----------------------------------------------------------------------------
(* Encoding *)

\* A value is a record of its type and its data.
Value(type, data) == [type |-> type, data |-> data]

Nul == 0

TextOk(s) == Nul \notin ToSet(s)

Utf8Ok(s) == \A b \in ToSet(s) : b < Group

Values ==
    [type : {"bytes"}, data : ByteString]
    \cup [type : {"text"}, data : {s \in ByteString : Utf8Ok(s)}]
    \cup [type : {"i64"}, data : I64]
    \cup [type : {"uuid"}, data : Array]

ColumnSet == [column : Bytes, value : Values]

Operation ==
    [is : {"upsert"}, table : Fixed(2), pk : Vec(Values), sets : Vec(ColumnSet), nulls : Vec(Bytes)]
    \cup [is : {"delete"}, table : Fixed(2), pk : Vec(Values)]

ValueOk(type, value) == value.type = type /\ (type = "text" => TextOk(value.data))

\* EncodeOpError: of the key, and of the values.
KeyOk(table, pk) ==
    /\ Len(pk) = PkCount(table)
    /\ \A i \in DOMAIN pk : ValueOk(PkColType(table, i), pk[i])

SetsOk(sets) ==
    \A i \in DOMAIN sets : ValueOk(ColumnType(sets[i].column), sets[i].value)

EncodeOpOk(op) == KeyOk(op.table, op.pk) /\ (op.is = "upsert" => SetsOk(op.sets))

ValueBytes(value) ==
    CASE value.type \in {"bytes", "text"} -> LenPrefixed(value.data)
      [] value.type = "uuid" -> value.data
      [] value.type = "i64" -> Zigzag(value.data)

KeyBytes(table, pk) == Le(table, 2) \o All(pk, ValueBytes)

OpBytes(op) ==
    IF op.is = "delete" THEN <<1>> \o KeyBytes(op.table, op.pk)
    ELSE <<0>> \o KeyBytes(op.table, op.pk)
         \o VecBytes(op.sets, LAMBDA s : <<s.column>> \o ValueBytes(s.value))
         \o VecBytes(op.nulls, LAMBDA c : <<c>>)

-----------------------------------------------------------------------------
(* Decoding *)

ReadText(r) == Checked(ReadLenPrefixed(r), LAMBDA s : Utf8Ok(s) /\ TextOk(s))

ReadData(r, type) ==
    CASE type = "bytes" -> ReadLenPrefixed(r)
      [] type = "text" -> ReadText(r)
      [] type = "i64" -> ReadZigzag(r)
      [] type = "uuid" -> ReadArray(r)

ReadValue(r, type) == Into(ReadData(r, type), LAMBDA data : Value(type, data))

\* Behind the table identifier.
ReadPk(table) ==
    LET read[i \in 0 .. PkCount(table.val)] ==
            IF i = 0 THEN Into(table, LAMBDA t : <<>>)
            ELSE ReadNext(read[i - 1], LAMBDA r : ReadValue(r, PkColType(table.val, i)))
    IN  IF table.ok THEN read[PkCount(table.val)] ELSE Failed

ReadKey(r) ==
    LET KeyOf(table) == Into(ReadPk(table), LAMBDA pk : <<table.val, pk>>)
    IN  KeyOf(ReadLe(r, 2))

ReadSet(r) ==
    LET SetOf(column) ==
            IF column.ok
            THEN Into(ReadValue(column, ColumnType(column.val)),
                      LAMBDA value : [column |-> column.val, value |-> value])
            ELSE Failed
    IN  SetOf(ReadByte(r))

ReadSets(r) == ReadVec(r, ReadSet)
ReadColumns(r) == ReadVec(r, ReadByte)

ReadUpsert(r) ==
    LET key == ReadFirst(r, ReadKey)
        sets == ReadNext(key, ReadSets)
        nulls == ReadNext(sets, ReadColumns)
    IN  Into(nulls, LAMBDA v : [is |-> "upsert", table |-> v[1][1], pk |-> v[1][2],
                                sets |-> v[2], nulls |-> v[3]])

ReadDelete(r) ==
    Into(ReadKey(r), LAMBDA v : [is |-> "delete", table |-> v[1], pk |-> v[2]])

\* Codec::do_decode().
ReadOp(bytes) ==
    LET OpOf(tag) == IF Tagged(tag, 0) THEN ReadUpsert(tag) ELSE ReadDelete(tag)
    IN  RequireEmpty(OpOf(ReadBit(Reader(bytes))))

-----------------------------------------------------------------------------
(* Validation *)

\* Mutant of NamedColumns: the columns set to NULL are not counted.
SetColumns(op) == [i \in DOMAIN op.sets |-> op.sets[i].column]

NamedColumns(op) == [i \in DOMAIN op.sets |-> op.sets[i].column] \o op.nulls

ValidPk(table, pk) ==
    /\ Len(pk) = PkCount(table)
    /\ \A i \in DOMAIN pk : pk[i].type = PkColType(table, i)

\* validate_upsert() and validate_delete().
Validate(op) ==
    /\ ValidPk(op.table, op.pk)
    /\ op.is = "upsert" =>
          /\ \A s \in ToSet(op.sets) : s.value.type = ColumnType(s.column)
          /\ IsInjective(NamedColumns(op))

=============================================================================
