----------------------------- MODULE PackFormat -----------------------------
(***************************************************************************)
(* Pack headers as bytes, and what their signature covers                  *)
(* (ubiquisync-core, src/pack/header.rs, filename.rs); and the entry a     *)
(* peer begins with (src/init.rs).                                         *)
(*                                                                         *)
(* A hash is what was hashed, and a signature verifies for the message it  *)
(* was made for and no other.                                              *)
(***************************************************************************)
EXTENDS LogFormat

(* Pack headers *)

PackRef == [id : Fixed(LeLen), end_seq : U64]

RefBytes(ref) == Le(ref.id, LeLen) \o VarU64(ref.end_seq)

ReadId(r) == ReadLe(r, LeLen)

ReadRef(r) ==
    Into(ReadNext(ReadFirst(r, ReadId), ReadVar), LAMBDA v : [id |-> v[1], end_seq |-> v[2]])

ReadRefs(r) == ReadVec(r, ReadRef)

PackFileId == [seqs : Range64, id : Fixed(LeLen), generation : U64]

FileIdBytes(f) == RangeBytes(f.seqs) \o Le(f.id, LeLen) \o VarU64(f.generation)

ReadFileId(r) ==
    LET seqs == ReadFirst(r, ReadRange)
        id == ReadNext(seqs, ReadId)
        generation == ReadNext(id, ReadVar)
    IN  Into(generation, LAMBDA v : [seqs |-> v[1], id |-> v[2], generation |-> v[3]])

ReadFileIds(r) == ReadVec(r, ReadFileId)

SegmentDescriptor == [container : Array, idx : Range64, prev : Array, end : Array, loc : Range64]

DescriptorBytes(d) ==
    d.container \o RangeBytes(d.idx) \o d.prev \o d.end \o RangeBytes(d.loc)

ReadDescriptor(r) ==
    LET container == ReadFirst(r, ReadArray)
        idx == ReadNext(container, ReadRange)
        prev == ReadNext(idx, ReadArray)
        end == ReadNext(prev, ReadArray)
        loc == ReadNext(end, ReadRange)
    IN  Into(loc, LAMBDA v : [container |-> v[1], idx |-> v[2], prev |-> v[3], end |-> v[4],
                              loc |-> v[5]])

ReadDescriptors(r) == ReadVec(r, ReadDescriptor)

PeerData == [peer : Array, segments : Vec(SegmentDescriptor), supersedes : Vec(PackFileId)]

PeerBytes(p) ==
    p.peer \o VecBytes(p.segments, DescriptorBytes) \o VecBytes(p.supersedes, FileIdBytes)

ReadPeer(r) ==
    LET peer == ReadFirst(r, ReadArray)
        segments == ReadNext(peer, ReadDescriptors)
        supersedes == ReadNext(segments, ReadFileIds)
    IN  Into(supersedes, LAMBDA v : [peer |-> v[1], segments |-> v[2], supersedes |-> v[3]])

ReadPeers(r) == ReadVec(r, ReadPeer)

PackHeader ==
    [timestamp : U64, parents : Vec(PackRef), supersedes : Vec(PackRef), segments : Vec(SegmentDescriptor),
     peers : Vec(PeerData), body_sha256 : Array]

HeaderBytes(h) ==
    <<0>> \o VarU64(h.timestamp) \o VecBytes(h.parents, RefBytes)
      \o VecBytes(h.supersedes, RefBytes) \o VecBytes(h.segments, DescriptorBytes)
      \o VecBytes(h.peers, PeerBytes) \o h.body_sha256

ReadHeader(r) ==
    LET version == ReadFirst(r, ReadZero)
        timestamp == ReadNext(version, ReadVar)
        parents == ReadNext(timestamp, ReadRefs)
        supersedes == ReadNext(parents, ReadRefs)
        segments == ReadNext(supersedes, ReadDescriptors)
        peers == ReadNext(segments, ReadPeers)
        body == ReadNext(peers, ReadArray)
    IN  Into(body, LAMBDA v : [timestamp |-> v[2], parents |-> v[3], supersedes |-> v[4],
                               segments |-> v[5], peers |-> v[6], body_sha256 |-> v[7]])

SignedPackHeader == [header : PackHeader, signature : Key]

SignedBytes(s) == HeaderBytes(s.header) \o TaggedBytes(s.signature)

\* Mutant of ReadSigned: trailing bytes are ignored.
ReadSignedPrefix(bytes) ==
    Into(ReadNext(ReadFirst(Reader(bytes), ReadHeader), ReadTagged),
         LAMBDA v : [header |-> v[1], signature |-> v[2]])

ReadSigned(bytes) ==
    RequireEmpty(Into(ReadNext(ReadFirst(Reader(bytes), ReadHeader), ReadTagged),
                      LAMBDA v : [header |-> v[1], signature |-> v[2]]))

PackFileDescriptor == [id : PackFileId, peer : Array, topic : Vec(ByteString)]

\* sign_bytes(): the file's name, peer and topic, and the header encoded again.
SignBytes(file, header) ==
    FileIdBytes(file.id) \o file.peer \o VarU64(Len(file.topic)) \o All(file.topic, LenPrefixed)
      \o LenPrefixed(HeaderBytes(header))

-----------------------------------------------------------------------------
(* InitCommitment *)

\* Major version in the lower half of the first byte, minor in the upper; two
\* flags, the other bits are reserved.
Half == Power(2, (GroupBits + 1) \div 2)

InitCommitment ==
    [version : Bytes, hash_suite : {0}, server : BOOLEAN, join : Option(Array), sig_key : Key,
     wrap_key : Key, endorsement : ByteString]

CommitmentBytes(c) ==
    <<c.version, c.hash_suite, (IF c.server THEN 1 ELSE 0) + (IF c.join = <<>> THEN 0 ELSE 2)>>
      \o TaggedBytes(c.sig_key) \o TaggedBytes(c.wrap_key) \o All(c.join, LAMBDA p : p)
      \o LenPrefixed(c.endorsement)

Minor(version) == version \div Half

\* If the flags, the third byte, say that a workspace is joined.
ReadJoin(r) == IF r.ok /\ r.val[3] \div 2 = 1 THEN ReadFirst(r, ReadArray) ELSE Into(r, LAMBDA v : <<>>)

ReadCommitment(bytes) ==
    LET version == ReadFirst(Reader(bytes), ReadByte)
        major == Checked(version, LAMBDA v : v[1] % Half = 0)
        suite == ReadNext(major, ReadZero)
        flags == ReadNext(suite, LAMBDA x : ReadByteIn(x, 0 .. 3))
        sig_key == ReadNext(flags, ReadTagged)
        wrap_key == ReadNext(sig_key, ReadTagged)
        join == ReadNext(wrap_key, ReadJoin)
        endorsement == ReadNext(join, ReadLenPrefixed)
        Known(r) == r.rest = <<>> \/ Minor(r.val[1]) # 0
        CommitmentOf(r) == IF r.ok /\ Known(r) THEN r ELSE Failed
    IN  Into(CommitmentOf(endorsement), LAMBDA v :
                [version |-> v[1], hash_suite |-> v[2], server |-> v[3] % 2 = 1,
                 sig_key |-> v[4], wrap_key |-> v[5], join |-> v[6], endorsement |-> v[7]])

=============================================================================
