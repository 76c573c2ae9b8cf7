----------------------------- MODULE MCFormats ------------------------------
(* Bytes of four bits, numbers of ten. *)
EXTENDS Formats

Uuid == Value("uuid", <<3>>)
Text == Value("text", <<1, 7>>)
Blob == Value("bytes", <<9>>)
Integer(n) == Value("i64", n)

MCKeys ==
    {[table |-> TableId(<<"uuid">>, 1), pk |-> <<Uuid>>],
     [table |-> TableId(<<"text", "i64">>, 2), pk |-> <<Text, Integer(-1)>>],
     [table |-> TableId(<<"text", "i64">>, 2), pk |-> <<Value("text", <<0>>), Integer(2)>>],
     [table |-> TableId(<<"i64">>, 31), pk |-> <<Integer(MaxI64)>>],
     [table |-> TableId(<<"i64">>, 5), pk |-> <<Integer(-MaxI64 - 1)>>],
     [table |-> TableId(<<"bytes", "uuid">>, 7), pk |-> <<Blob>>],
     [table |-> TableId(<<"bytes", "uuid">>, 7), pk |-> <<Value("bytes", <<>>), Uuid>>]}

Col(index, value) == [column |-> ColumnId(index, value.type), value |-> value]

MCSets ==
    {<<>>, <<Col(0, Blob)>>, <<Col(1, Integer(5)), Col(3, Uuid)>>, <<Col(2, Text), Col(2, Text)>>,
     <<[column |-> ColumnId(0, "i64"), value |-> Text]>>}

MCNulls == {<<>>, <<ColumnId(0, "bytes")>>, <<ColumnId(1, "uuid"), ColumnId(2, "text")>>}

MCOps ==
    {[is |-> "upsert", table |-> k.table, pk |-> k.pk, sets |-> s, nulls |-> n] :
        k \in MCKeys, s \in MCSets, n \in MCNulls}
    \cup {[is |-> "delete", table |-> k.table, pk |-> k.pk] : k \in MCKeys}

Cipher == [suite |-> 0, fingerprint |-> <<4>>]
Signature == [algo |-> 0, data |-> <<1>>]
Op(timestamp) == [is |-> "op", timestamp |-> timestamp, user |-> <<>>, op |-> <<2>>]
UseKey == [is |-> "use_key", cipher |-> Cipher]
Signed == [is |-> "signature", signature |-> Signature]
Expunged == [is |-> "expunged", hash |-> <<8>>]

MCPayloads == {<<>>, <<Op(127)>>, <<UseKey, Expunged>>, <<Op(0), Signed, Op(16)>>}

At(size) == [size |-> size, hash |-> <<size % 16>>]

Opaque(start, entries) ==
    [prev |-> At(0), signature |-> Signature, form |-> "opaque", encryption |-> <<>>,
     start |-> start, payload |-> entries]

MCSegments ==
    {Opaque(<<>>, <<>>), Opaque(<<Cipher>>, <<Op(<<1, 2>>), Signed>>), Opaque(<<>>, <<Expunged>>)}
    \cup {[prev |-> At(1023), signature |-> Signature, form |-> "plaintext", encryption |-> enc,
           start |-> <<>>, payload |-> <<0, 9>>] :
             enc \in {<<>>, <<[cipher |-> <<>>, nonce |-> <<6>>]>>,
                      <<[cipher |-> <<Cipher>>, nonce |-> <<6, 0>>]>>}}

MCCommitments ==
    {[version |-> v, hash_suite |-> 0, server |-> s, join |-> j, sig_key |-> Signature,
      wrap_key |-> [algo |-> 1, data |-> <<12>>], endorsement |-> e] :
        v \in {0, 4}, s \in BOOLEAN, j \in {<<>>, <<<<5>>>>}, e \in {<<>>, <<7, 0>>}}

NeedPeer(container) ==
    [is |-> "need_peer", container |-> container, peer |-> <<2>>, head |-> At(9)]

MCStatuses ==
    {[is |-> "need_key", fingerprint |-> <<4>>], [is |-> "skew"], NeedPeer(<<>>),
     NeedPeer(<<<<1>>>>), [is |-> "software", what |-> 2, version |-> 15]}

Stream(size, cipher, err, status, parent) ==
    <<1, <<3>>, size, <<7>>, cipher, err, 0, status, parent, parent, <<>>>>

\* A size of MaxI64 + 1 cannot be written.
MCRows(table) ==
    CASE table = "peers" -> {<<<<1>>, <<0, 9>>, Signature>>}
      [] table = "streams" ->
            {Stream(1, <<>>, <<>>, <<s>>, <<>>) : s \in MCStatuses}
            \cup {Stream(n, <<Cipher>>, <<"todo">>, <<>>, <<1>>) : n \in {0, MaxI64, MaxI64 + 1}}
      [] table = "segments" -> {<<-1, 1, 0, <<>>>>, <<2, MaxI64, 1, <<5, 6>>>>, <<1, MaxU64, 1, <<4>>>>}
      [] table = "hlc" -> {<<1, 0>>, <<1, MaxI64>>}

MCDamageCells == {Null, IntegerCell(-1), TextCell(<<1>>), BlobCell(<<>>)}

MCPeerIds == {<<1>>, <<2>>, <<3>>}
MCSelf == <<2>>
MCContainers == {<<14>>}

Joined(ok, prev, head, bytes) ==
    [ok |-> ok, prev |-> At(prev), head |-> At(head), bytes |-> bytes]

MCJoins ==
    {Joined(TRUE, 0, 1, <<5>>), Joined(TRUE, 1, 9, <<6, 6>>), Joined(TRUE, 1, 1, <<7>>),
     Joined(FALSE, 0, 1, <<4>>)}

MCName(generation, topic) ==
    [id |-> [seqs |-> [start |-> 1, end |-> 3], id |-> 20, generation |-> generation],
     peer |-> MCSelf, topic |-> topic]

MCOwnName == MCName(0, <<<<1>>, <<1, 2>>>>)
MCOtherNames == {MCName(1, <<<<1>>, <<1, 2>>>>), MCName(0, <<<<1, 1>>, <<2>>>>)}

MCTimes == {1023}
MCParents == {<<[id |-> 16, end_seq |-> 1]>>}
MCDamageBytes == {0, 1, 2, 8}

=============================================================================
