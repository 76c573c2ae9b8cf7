----------------------------- MODULE LogFormat ------------------------------
(***************************************************************************)
(* The entries of a log and the header of a segment as bytes               *)
(* (ubiquisync-core, src/log/entry.rs, ops.rs, segment.rs, hash.rs), the   *)
(* pieces of crypto/ they hold, and the status of a stream                 *)
(* (ubiquisync-sql, src/replica/schema.rs).                                *)
(*                                                                         *)
(* The compressed, perhaps encrypted payload of a plaintext segment is     *)
(* bytes that stand for themselves.  Keys of different algorithms have one *)
(* length.                                                                 *)
(***************************************************************************)
EXTENDS Wire

\* Tags are bytes: the largest is 4.
ASSUME LogFormatAssumption == 4 \in Bytes

(* Pieces *)

\* Signatures, verifying keys and encapsulation keys: two algorithms each.
Key == [algo : {0, 1}, data : Array]

TaggedBytes(x) == <<x.algo>> \o x.data

ReadTagged(r) ==
    Into(ReadNext(ReadFirst(r, ReadBit), ReadArray),
         LAMBDA v : [algo |-> v[1], data |-> v[2]])

\* An unknown suite is kept, not refused.
CipherInfo == [suite : Bytes, fingerprint : Array]

CipherBytes(c) == <<c.suite>> \o c.fingerprint

ReadCipher(r) ==
    Into(ReadNext(ReadFirst(r, ReadByte), ReadArray),
         LAMBDA v : [suite |-> v[1], fingerprint |-> v[2]])

ChainHead == [size : U64, hash : Array]

ChainBytes(c) == VarU64(c.size) \o c.hash

ReadChain(r) ==
    Into(ReadNext(ReadFirst(r, ReadVar), ReadArray), LAMBDA v : [size |-> v[1], hash |-> v[2]])

-----------------------------------------------------------------------------
(* Entries *)

\* A plaintext entry has a timestamp, an opaque one some bytes instead.
Timestamp(form) ==
    IF form = "plaintext" THEN {t \in Fixed(LeLen) : t < Power(Base, LeLen) \div 2} ELSE ByteString

TimestampBytes(form, t) == IF form = "plaintext" THEN Le(t, LeLen) ELSE LenPrefixed(t)

\* A timestamp leaves the highest bit free.
ReadTimestamp(form, r) ==
    IF form = "plaintext" THEN Checked(ReadLe(r, LeLen), LAMBDA t : t < Power(Base, LeLen) \div 2)
    ELSE ReadLenPrefixed(r)

LogEntry(form) ==
    [is : {"op"}, timestamp : Timestamp(form), user : ByteString, op : ByteString]
    \cup [is : {"use_key"}, cipher : CipherInfo]
    \cup [is : {"signature"}, signature : Key]
    \cup [is : {"expunged"}, hash : Array]

EntryBytes(form, e) ==
    CASE e.is = "op" -> <<0>> \o TimestampBytes(form, e.timestamp)
                           \o LenPrefixed(e.user) \o LenPrefixed(e.op)
      [] e.is = "use_key" -> <<1>> \o CipherBytes(e.cipher)
      [] e.is = "signature" -> <<2>> \o TaggedBytes(e.signature)
      [] e.is = "expunged" -> <<3>> \o e.hash

ReadOpEntry(form, r) ==
    LET timestamp == ReadFirst(r, LAMBDA x : ReadTimestamp(form, x))
        user == ReadNext(timestamp, ReadLenPrefixed)
        op == ReadNext(user, ReadLenPrefixed)
    IN  Into(op, LAMBDA v : [is |-> "op", timestamp |-> v[1], user |-> v[2], op |-> v[3]])

ReadEntry(form, r) ==
    LET EntryOf(tag) ==
            CASE Tagged(tag, 0) -> ReadOpEntry(form, tag)
              [] Tagged(tag, 1) -> Into(ReadCipher(tag), LAMBDA c : [is |-> "use_key", cipher |-> c])
              [] Tagged(tag, 2) ->
                    Into(ReadTagged(tag), LAMBDA s : [is |-> "signature", signature |-> s])
              [] Tagged(tag, 3) -> Into(ReadArray(tag), LAMBDA h : [is |-> "expunged", hash |-> h])
              [] OTHER -> Failed
    IN  EntryOf(ReadByte(r))

EntriesBytes(form, entries) == All(entries, LAMBDA e : EntryBytes(form, e))

ReadEntries(form, r) == ReadToEnd(r, LAMBDA x : ReadEntry(form, x))

\* The entries of a plaintext segment, once decrypted and decompressed.
PayloadBytes(entries) == EntriesBytes("plaintext", entries)
ReadPayload(bytes) == ReadEntries("plaintext", Reader(bytes))

-----------------------------------------------------------------------------
(* Segments *)

EncryptionInfo == [cipher : Option(CipherInfo), nonce : ByteString]

EncryptionBytes(enc) == OptionBytes(enc.cipher, CipherBytes) \o LenPrefixed(enc.nonce)

ReadMaybeCipher(r) == ReadOption(r, ReadCipher)

ReadEncryption(r) ==
    Into(ReadNext(ReadFirst(r, ReadMaybeCipher), ReadLenPrefixed),
         LAMBDA v : [cipher |-> v[1], nonce |-> v[2]])

Segment ==
    [prev : ChainHead, signature : Key, form : {"opaque"}, encryption : {<<>>},
     start : Option(CipherInfo), payload : Seq(LogEntry("opaque"))]
    \cup [prev : ChainHead, signature : Key, form : {"plaintext"}, encryption : Option(EncryptionInfo),
          start : Option(CipherInfo), payload : Str]

SegmentBytes(seg) ==
    ChainBytes(seg.prev) \o TaggedBytes(seg.signature)
      \o (IF seg.form = "opaque" THEN <<0>>
          ELSE <<1>> \o OptionBytes(seg.encryption, EncryptionBytes) \o <<0>>)
      \o OptionBytes(seg.start, CipherBytes)
      \o (IF seg.form = "opaque" THEN EntriesBytes("opaque", seg.payload) ELSE seg.payload)

ReadMaybeEncryption(r) == ReadOption(r, ReadEncryption)

\* Behind the encoding's tag.
ReadOpaque(r) ==
    LET start == ReadNext(r, ReadMaybeCipher)
        entries == ReadNext(start, LAMBDA x : ReadEntries("opaque", x))
    IN  Into(entries, LAMBDA v :
                [prev |-> v[1], signature |-> v[2], form |-> "opaque", encryption |-> <<>>,
                 start |-> v[4], payload |-> v[5]])

ReadPlaintext(r) ==
    LET encryption == ReadNext(r, ReadMaybeEncryption)
        compression == ReadNext(encryption, ReadZero)
        start == ReadNext(compression, ReadMaybeCipher)
        payload == ReadNext(start, ReadRest)
    IN  Into(payload, LAMBDA v :
                [prev |-> v[1], signature |-> v[2], form |-> "plaintext", encryption |-> v[4],
                 start |-> v[6], payload |-> v[7]])

\* SegmentReader: the header, then the entries if they can be had without a key.
ReadSegment(bytes) ==
    LET prev == ReadFirst(Reader(bytes), ReadChain)
        signature == ReadNext(prev, ReadTagged)
        form == ReadNext(signature, ReadBit)
        SegmentOf(r) == IF r.ok /\ r.val[3] = 1 THEN ReadPlaintext(r) ELSE ReadOpaque(r)
    IN  SegmentOf(form)

-----------------------------------------------------------------------------
(* CommitErr: why a stream is not applied further *)

CommitErr ==
    [is : {"need_key"}, fingerprint : Array]
    \cup [is : {"skew"}]
    \cup [is : {"need_peer"}, container : Option(Array), peer : Array, head : ChainHead]
    \cup [is : {"software"}, what : 0 .. 2, version : Bytes]

StatusBytes(s) ==
    CASE s.is = "need_key" -> <<0>> \o s.fingerprint
      [] s.is = "skew" -> <<1>>
      [] s.is = "need_peer" ->
            <<IF s.container = <<>> THEN 3 ELSE 2>> \o All(s.container, LAMBDA c : c)
            \o s.peer \o ChainBytes(s.head)
      [] s.is = "software" -> <<4, s.what, s.version>>

\* Behind the container, if there is one.
ReadNeedPeer(r) ==
    Into(ReadNext(ReadNext(r, ReadArray), ReadChain), LAMBDA v :
            [is |-> "need_peer", container |-> SubSeq(v, 1, Len(v) - 2),
             peer |-> v[Len(v) - 1], head |-> v[Len(v)]])

ReadSoftware(r) ==
    Into(ReadNext(ReadFirst(r, LAMBDA x : ReadByteIn(x, 0 .. 2)), ReadByte),
         LAMBDA v : [is |-> "software", what |-> v[1], version |-> v[2]])

ReadCommitErr(r) ==
    LET StatusOf(tag) ==
            CASE Tagged(tag, 0) ->
                    Into(ReadArray(tag), LAMBDA a : [is |-> "need_key", fingerprint |-> a])
              [] Tagged(tag, 1) -> Into(tag, LAMBDA v : [is |-> "skew"])
              [] Tagged(tag, 2) -> ReadNeedPeer(ReadFirst(tag, ReadArray))
              [] Tagged(tag, 3) -> ReadNeedPeer(Into(tag, LAMBDA v : <<>>))
              [] Tagged(tag, 4) -> ReadSoftware(tag)
              [] OTHER -> Failed
    IN  StatusOf(ReadByte(r))

=============================================================================
