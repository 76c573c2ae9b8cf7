------------------------------ MODULE Formats ------------------------------
(***************************************************************************)
(* Something written in one of the formats, and damaged on its way to its  *)
(* reader: operations (ubiquisync-tables), payloads, segments, pack        *)
(* headers and commitments (ubiquisync-core), and the rows of the          *)
(* replica's tables (ubiquisync-sql).                                      *)
(*                                                                         *)
(* The author proposes any value of the sets below; what the encoder or    *)
(* the checks refuse is not written.  A pack is built segment by segment.  *)
(* The bytes then meet changes of one place: at most two if there are not  *)
(* more than ShortFile of them, one if not more than LongFile, else none.  *)
(* Those of a row are its cells; one that holds bytes changes in one place *)
(* of these, or becomes a cell of another class.                           *)
(***************************************************************************)
EXTENDS OpFormat, PackFormat, RowFormat, PackBuilder

CONSTANTS
    Ops, Payloads, Segments, Commitments, \* what is written
    Rows(_),                              \* and the rows of a table
    Name, OtherNames,             \* of the pack's file, of others
    DamageBytes, DamageCells,     \* the bytes and the cells that damage brings
    ShortFile, LongFile      \* bound the damage by the length

\* Values are of their types, and in memory: no more of anything than usize
\* can count.
ASSUME FormatsAssumption ==
    /\ Ops \subseteq Operation
    /\ \A entries \in Payloads : entries \in Seq(LogEntry("plaintext"))
    /\ Segments \subseteq Segment
    /\ Commitments \subseteq InitCommitment
    /\ \A table \in Tables : \A row \in Rows(table) : RowIs(table, row)
    /\ PeerIds \subseteq Array /\ Containers \subseteq Array
    /\ Joins \subseteq [ok : BOOLEAN, prev : ChainHead, head : ChainHead, bytes : Str \ {<<>>}]
    /\ Times \subseteq U64 /\ Parents \subseteq Vec(PackRef)
    /\ MaxAdded <= MaxU64
    /\ RangeOk(Name.id.seqs) => Name \in PackFileDescriptor
    /\ OtherNames \subseteq PackFileDescriptor
    /\ DamageBytes \subseteq Bytes /\ DamageCells \subseteq Cell
    /\ ShortFile \in Nat /\ LongFile \in Nat /\ ShortFile <= LongFile /\ LongFile < MaxU64

VARIABLES
    file,      \* what was written, how, and its bytes now
    damage     \* the number of changes since

vars == <<builder, calls, file, damage>>

NoFile == [kind |-> "none"]

-----------------------------------------------------------------------------
(* Reading and writing by kind *)

WriteAs(kind, value) ==
    CASE kind = "op" -> OpBytes(value)
      [] kind = "payload" -> PayloadBytes(value)
      [] kind = "segment" -> SegmentBytes(value)
      [] kind = "pack" -> SignedBytes(value)
      [] kind = "init" -> CommitmentBytes(value)
      [] kind \in Tables -> RowCells(kind, value)

ReadAs(kind, bytes) ==
    CASE kind = "op" -> ReadOp(bytes)
      [] kind = "payload" -> ReadPayload(bytes)
      [] kind = "segment" -> ReadSegment(bytes)
      [] kind = "pack" -> ReadSigned(bytes)
      [] kind = "init" -> ReadCommitment(bytes)
      [] kind \in Tables -> ReadRow(kind, bytes)

-----------------------------------------------------------------------------
(* The author *)

Init ==
    /\ BuilderInit
    /\ file = NoFile
    /\ damage = 0

Written(kind, value, Write(_)) ==
    /\ file = NoFile /\ calls = <<>>
    /\ file' = [kind |-> kind, of |-> value, bytes |-> Write(value)]
    /\ UNCHANGED <<builder, calls, damage>>

\* exec() encodes the operation, and the reducer validates it.
WriteOp(op) == EncodeOpOk(op) /\ Validate(op) /\ Written("op", op, OpBytes)

WritePayload(entries) == Written("payload", entries, PayloadBytes)

WriteSegment(segment) == Written("segment", segment, SegmentBytes)

\* InitEntry::create().
WriteCommitment(c) == c.version = 0 /\ Written("init", c, CommitmentBytes)

WriteRow(table, row) ==
    RowOk(table, row) /\ Written(table, row, LAMBDA r : RowCells(table, r))

AddToPack ==
    /\ BuilderNext
    /\ Len(builder'.body) <= MaxU64
    /\ file = NoFile /\ UNCHANGED <<file, damage>>

\* PackBuilder::build(), and SignedPackHeader::encode().
Build(time, parents) ==
    LET signed == [header |-> BuildHeader(builder, time, parents, [i \in 1 .. ArrayLen |-> 0]),
                   signature |-> [algo |-> 0, data |-> [i \in 1 .. ArrayLen |-> 1]]]
    IN  /\ file = NoFile
        /\ RangeOk(Name.id.seqs) /\ Len(SignedBytes(signed)) <= MaxU64
        /\ file' = [kind |-> "pack", of |-> signed, bytes |-> SignedBytes(signed)]
        /\ UNCHANGED <<builder, calls, damage>>

-----------------------------------------------------------------------------
(* Damage *)

DamageBound ==
    CASE Len(file.bytes) <= ShortFile -> 2
      [] Len(file.bytes) \in ShortFile + 1 .. LongFile -> 1
      [] Len(file.bytes) > LongFile -> 0

Overwritten(bytes) == {[bytes EXCEPT ![i] = b] : i \in DOMAIN bytes, b \in DamageBytes}

Cut(bytes) == {SubSeq(bytes, 1, i - 1) : i \in DOMAIN bytes}

Inserted(bytes) == {InsertAt(bytes, i, b) : i \in 1 .. Len(bytes) + 1, b \in DamageBytes}

Changed(bytes) == Overwritten(bytes) \cup Cut(bytes) \cup Inserted(bytes)

ChangedCell(cell) ==
    DamageCells \cup (IF IsA("blob", cell) THEN {BlobCell(b) : b \in Changed(cell[2])} ELSE {})

ChangedRow(cells) ==
    UNION {{[cells EXCEPT ![i] = c] : c \in ChangedCell(cells[i])} : i \in DOMAIN cells}

Change ==
    /\ file # NoFile /\ damage < DamageBound
    /\ damage' = damage + 1
    /\ \E bytes \in IF file.kind \in Tables THEN ChangedRow(file.bytes) ELSE Changed(file.bytes) :
          file' = [file EXCEPT !.bytes = bytes]
    /\ UNCHANGED <<builder, calls>>

Next ==
    \/ \E op \in Ops : WriteOp(op)
    \/ \E entries \in Payloads : WritePayload(entries)
    \/ \E segment \in Segments : WriteSegment(segment)
    \/ \E c \in Commitments : WriteCommitment(c)
    \/ \E table \in Tables : \E row \in Rows(table) : WriteRow(table, row)
    \/ AddToPack
    \/ \E t \in Times, parents \in Parents : Build(t, parents)
    \/ Change

Spec == Init /\ [][Next]_vars

-----------------------------------------------------------------------------
(* Properties *)

Reads(read, value) == read.ok /\ read.val = value

\* What is written is read back as it was, whatever its kind: by the replica
\* that wrote it or another.
WrittenIsRead ==
    file # NoFile /\ damage = 0 => Reads(ReadAs(file.kind, file.bytes), file.of)

HasOneForm(kind, read, bytes) ==
    read.ok =>
        \/ WriteAs(kind, read.val) = bytes
        \/ /\ kind = "init" /\ Minor(read.val.version) # 0
           /\ IsPrefix(WriteAs(kind, read.val), bytes)

\* Bytes that can be read are the bytes their value is written as, damaged or
\* not: no two files say the same.  A signature or a hash over the bytes and
\* one over what was read (PackHeader::sign_bytes encodes the header again) thus
\* agree.  A commitment of a later minor version may go on behind what is known.
ReadIsWritten ==
    file # NoFile => HasOneForm(file.kind, ReadAs(file.kind, file.bytes), file.bytes)

\* SignedPackHeader::verify(), when only the author's signature verifies, and
\* only as its own bytes: that ECDSA has two for a message is left out.
Verifies(signed, name) ==
    /\ signed.signature = file.of.signature
    /\ SignBytes(name, signed.header) = SignBytes(Name, file.of.header)

VerifiesOnly(read) ==
    read.ok =>
        \A name \in {Name} \cup OtherNames :
            Verifies(read.val, name) => name = Name /\ file.bytes = SignedBytes(file.of)

\* A signed pack header that was changed anywhere, or is read under the name of
\* another file, is not read or does not verify.
DamageIsNoticed == file.kind = "pack" => VerifiesOnly(ReadSigned(file.bytes))

RefusedForRepeats(op) ==
    LET upsert == op.is = "upsert"
        named == IF upsert THEN {s.column : s \in ToSet(op.sets)} \cup ToSet(op.nulls) ELSE {}
        count == IF upsert THEN Len(op.sets) + Len(op.nulls) ELSE 0
    IN  EncodeOpOk(op) /\ (Validate(op) <=> Cardinality(named) = count)

ChecksAgree(read) == read.ok => RefusedForRepeats(read.val)

\* Whatever operation can be read, the only thing validation may still refuse
\* is a column named twice, and it can be encoded again.
OpChecksAgree == file.kind = "op" => ChecksAgree(ReadOp(file.bytes))

=============================================================================
