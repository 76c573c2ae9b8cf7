-------------------------------- MODULE Wire --------------------------------
(***************************************************************************)
(* The byte level of every format: Writer, Reader and the variable-length  *)
(* integers (ubiquisync-core, src/codec/).                                 *)
(*                                                                         *)
(* The widths are constants.  A byte has GroupBits + 1 bits, a varint at   *)
(* most MaxVarBytes bytes and its last byte all of its bits: 7 and 9 in    *)
(* the code, which makes 64 bits.  Arrays of fixed length (hashes, keys,   *)
(* identifiers) have ArrayLen bytes, a u64 of fixed length LeLen bytes.    *)
(*                                                                         *)
(* A writer is the sequence of bytes it wrote.  A reader is a record: what *)
(* it read last (val), what is left (rest), and whether all went well; a   *)
(* reader that failed stays failed, as the code's `?` has it.  The error   *)
(* values are not told apart, and usize is as wide as u64.                 *)
(***************************************************************************)
EXTENDS Integers, SequencesExt

CONSTANTS GroupBits, MaxVarBytes, ArrayLen, LeLen

ASSUME WireAssumption ==
    /\ GroupBits \in Nat \ {0}
    /\ MaxVarBytes \in Nat \ {0}
    /\ ArrayLen \in Nat \ {0}
    /\ LeLen \in Nat \ {0}

\* b to the power of n.
Power(b, n) ==
    LET power[k \in 0 .. n] == IF k = 0 THEN 1 ELSE b * power[k - 1]
    IN  power[n]

Group == Power(2, GroupBits)
Base == 2 * Group
Bytes == 0 .. Base - 1

MaxU64 == 2 * Power(Group, MaxVarBytes) - 1
MaxI64 == MaxU64 \div 2

\* What the types hold: u64, i64, bytes in memory, and numbers of fixed length.
U64 == 0 .. MaxU64
I64 == -MaxI64 - 1 .. MaxI64
Str == Seq(Bytes)
ByteString == {s \in Str : Len(s) <= MaxU64}
Array == {s \in Str : Len(s) = ArrayLen}
Fixed(len) == 0 .. Power(Base, len) - 1
Range64 == {r \in [start : U64, end : U64] : r.start < r.end}
Vec(S) == {s \in Seq(S) : Len(s) <= MaxU64}

\* An option is a sequence of at most one element.
Option(S) == {s \in Seq(S) : Len(s) <= 1}

\* What is left of v after 0, 1, .. n digits to the base b, the lowest first.
Quotients(v, b, n) ==
    LET rest[k \in 0 .. n] == IF k = 0 THEN v ELSE rest[k - 1] \div b
    IN  rest

\* The number of these digits, the lowest first.
Number(digits, b) ==
    LET high[k \in 0 .. Len(digits)] ==
            IF k = 0 THEN 0 ELSE digits[Len(digits) - k + 1] + b * high[k - 1]
    IN  high[Len(digits)]

-----------------------------------------------------------------------------
(* Writer *)

\* Up to the last group that is not zero.
VarLen(rest) == Min({n \in 1 .. MaxVarBytes : n = MaxVarBytes \/ rest[n] = 0})

\* Groups of bits; all but the last byte have the high bit.
VarBytes(rest, n) ==
    [i \in 1 .. n |-> IF i = n THEN rest[i - 1] ELSE Group + (rest[i - 1] % Group)]

VarU64(v) ==
    LET rest == Quotients(v, Group, MaxVarBytes)
    IN  VarBytes(rest, VarLen(rest))

Zigzag(v) == VarU64(IF v >= 0 THEN 2 * v ELSE -2 * v - 1)

Le(v, len) ==
    LET rest == Quotients(v, Base, len)
    IN  [i \in 1 .. len |-> rest[i - 1] % Base]

LenPrefixed(bytes) == VarU64(Len(bytes)) \o bytes

RangeOk(range) == range.start < range.end

RangeBytes(range) == VarU64(range.start) \o VarU64(range.end - range.start)

OptionBytes(opt, W(_)) == IF opt = <<>> THEN <<0>> ELSE <<1>> \o W(opt[1])

All(seq, W(_)) == FlattenSeq([i \in DOMAIN seq |-> W(seq[i])])

VecBytes(seq, W(_)) == VarU64(Len(seq)) \o All(seq, W)

-----------------------------------------------------------------------------
(* Reader *)

Good(val, rest) == [ok |-> TRUE, val |-> val, rest |-> rest]

Failed == [ok |-> FALSE, val |-> <<>>, rest |-> <<>>]

Reader(bytes) == Good(<<>>, bytes)

\* Ok(F(value)) of what was read.
Into(r, F(_)) == IF r.ok THEN Good(F(r.val), r.rest) ELSE Failed

Checked(r, P(_)) == IF r.ok /\ P(r.val) THEN r ELSE Failed

\* The first of several values, and one more behind those read before.
First(r) == IF r.ok THEN Good(<<r.val>>, r.rest) ELSE Failed
Behind(r, next) ==
    IF r.ok /\ next.ok THEN Good(Append(r.val, next.val), next.rest) ELSE Failed

ReadFirst(r, Read(_)) == IF r.ok THEN First(Read(r)) ELSE Failed
ReadNext(r, Read(_)) == Behind(r, Read(r))

ReadSlice(r, n) ==
    IF r.ok /\ n <= Len(r.rest)
    THEN Good(SubSeq(r.rest, 1, n), SubSeq(r.rest, n + 1, Len(r.rest)))
    ELSE Failed

ReadArray(r) == ReadSlice(r, ArrayLen)

ReadByte(r) == Into(ReadSlice(r, 1), LAMBDA s : s[1])

\* A tag was read, and is n.
Tagged(r, n) == r.ok /\ r.val = n

ReadByteIn(r, allowed) == Checked(ReadByte(r), LAMBDA b : b \in allowed)
ReadZero(r) == ReadByteIn(r, {0})
ReadBit(r) == ReadByteIn(r, {0, 1})

ReadLe(r, len) == Into(ReadSlice(r, len), LAMBDA s : Number(s, Base))

\* Mutant of Minimal: the last byte may be zero.
AnyLength(last, n) == TRUE

\* A zero at the end adds nothing: a shorter form exists.
Minimal(last, n) == n = 1 \/ last # 0

VarDigits(bytes) ==
    [i \in DOMAIN bytes |-> IF i = Len(bytes) THEN bytes[i] ELSE bytes[i] % Group]

VarValue(bytes) == Number(VarDigits(bytes), Group)

\* decode_var_u64(): up to the first byte without the high bit, or the last
\* byte there may be.
VarEnds(bytes) ==
    {i \in DOMAIN bytes : i <= MaxVarBytes /\ (i = MaxVarBytes \/ bytes[i] < Group)}

ReadVar(r) ==
    LET ends == VarEnds(r.rest)
    IN  IF r.ok /\ ends # {}
        THEN Into(Checked(ReadSlice(r, Min(ends)), LAMBDA s : Minimal(s[Len(s)], Len(s))),
                  VarValue)
        ELSE Failed

ReadZigzag(r) ==
    Into(ReadVar(r), LAMBDA v : IF v % 2 = 0 THEN v \div 2 ELSE -((v + 1) \div 2))

SliceOf(n) == ReadSlice(n, n.val)

ReadLenPrefixed(r) == SliceOf(ReadVar(r))

\* Mutant of ReadRange: the second number is taken for the end.
ReadRangeEnd(r) ==
    LET numbers == ReadNext(ReadFirst(r, ReadVar), ReadVar)
    IN  Into(Checked(numbers, LAMBDA v : v[2] > v[1]), LAMBDA v : [start |-> v[1], end |-> v[2]])

\* Neither empty nor past the end of u64.
ReadRange(r) ==
    LET numbers == ReadNext(ReadFirst(r, ReadVar), ReadVar)
    IN  Into(Checked(numbers, LAMBDA v : v[2] > 0 /\ v[1] + v[2] <= MaxU64),
             LAMBDA v : [start |-> v[1], end |-> v[1] + v[2]])

\* The tag has been read.
OptionOf(tag, Read(_)) ==
    IF Tagged(tag, 0) THEN Into(tag, LAMBDA v : <<>>) ELSE ReadFirst(tag, Read)

ReadOption(r, Read(_)) == OptionOf(ReadBit(r), Read)

\* The count has been read.
VecOf(n, Read(_)) ==
    LET read[i \in 0 .. n.val] ==
            IF i = 0 THEN Into(n, LAMBDA v : <<>>) ELSE ReadNext(read[i - 1], Read)
    IN  IF n.ok /\ n.val <= Len(n.rest) THEN read[n.val] ELSE Failed

\* Each element takes one byte at least: a count larger than what is left
\* fails in the end, and here at once.
ReadVec(r, Read(_)) == VecOf(ReadVar(r), Read)

\* One more element if anything is left.
NextOfRest(r, Read(_)) == IF r.rest = <<>> THEN r ELSE ReadNext(r, Read)

\* Elements to the end of the bytes.  Each takes one byte at least.
ReadToEnd(r, Read(_)) ==
    LET read[i \in 0 .. Len(r.rest)] ==
            IF i = 0 THEN Into(r, LAMBDA v : <<>>) ELSE NextOfRest(read[i - 1], Read)
    IN  read[Len(r.rest)]

\* All that is left, as it is.
ReadRest(r) == ReadSlice(r, Len(r.rest))

RequireEmpty(r) == IF r.rest = <<>> THEN r ELSE Failed

=============================================================================
