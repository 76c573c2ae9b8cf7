---------------------------- MODULE PackBuilder -----------------------------
(***************************************************************************)
(* How a pack is built (ubiquisync-core, src/pack/builder.rs): the         *)
(* segments of each container are joined and written one behind the other  *)
(* into the body, and described in the header, those of the pack's author  *)
(* in one list, those of other peers in a list each.                       *)
(*                                                                         *)
(* Abstractions.  What join_segments() does is SegmentChain's; here it     *)
(* succeeds or fails, and has written bytes.  No caller of the builder     *)
(* exists yet: any call may come next.                                     *)
(***************************************************************************)
EXTENDS Integers, SequencesExt

CONSTANTS
    Self, PeerIds,       \* the author of the pack, and those of the segments
    Containers,
    Joins,               \* what join_segments() returns: see AddContainerSegments
    Times, Parents,      \* of packs
    MaxAdded             \* bounds the calls of add_container_segments()

\* Peer ids are byte arrays of one length.
ASSUME PackBuilderAssumption ==
    /\ PeerIds \subseteq Seq(Nat)
    /\ \A p, q \in PeerIds : Len(p) = Len(q)
    /\ \A j \in Joins : j.ok \in BOOLEAN /\ j.bytes \in Seq(Nat)
    /\ MaxAdded \in Nat

VARIABLES
    builder,   \* the header's lists and the body so far
    calls      \* history: the calls of add_container_segments()

NewBuilder == [segments |-> <<>>, peers |-> <<>>, body |-> <<>>]

BuilderInit ==
    /\ builder = NewBuilder
    /\ calls = <<>>

-----------------------------------------------------------------------------
\* The order of BTreeMap's keys.
IdLess(p, q) ==
    \E i \in DOMAIN p : p[i] < q[i] /\ \A k \in 1 .. i - 1 : p[k] = q[k]

LastBefore(peers, peer) == SelectLastInSeq(peers, LAMBDA p : IdLess(p.peer, peer))

WithSegment(p, d) == [p EXCEPT !.segments = Append(@, d)]

NewPeer(peer, d) == [peer |-> peer, supersedes |-> <<>>, segments |-> <<d>>]

\* Mutant of AddPeerSegment: the segment takes the place of those before it.
AddPeerSegmentAnew(peers, peer, d) ==
    IF \E i \in DOMAIN peers : peers[i].peer = peer
    THEN [i \in DOMAIN peers |-> IF peers[i].peer = peer THEN NewPeer(peer, d) ELSE peers[i]]
    ELSE InsertAt(peers, LastBefore(peers, peer) + 1, NewPeer(peer, d))

\* The segments of another peer; the peers in the order of their ids.
AddPeerSegment(peers, peer, d) ==
    IF \E i \in DOMAIN peers : peers[i].peer = peer
    THEN [i \in DOMAIN peers |->
            IF peers[i].peer = peer THEN WithSegment(peers[i], d) ELSE peers[i]]
    ELSE InsertAt(peers, LastBefore(peers, peer) + 1, NewPeer(peer, d))

\* add_container_segments() fails if the segments do not join, and on an empty
\* segment.
Added(joined) == joined.ok /\ joined.prev.size < joined.head.size

Descriptor(container, joined, start, end) ==
    [container |-> container,
     idx |-> [start |-> joined.prev.size, end |-> joined.head.size],
     prev |-> joined.prev.hash, end |-> joined.head.hash,
     loc |-> [start |-> start, end |-> end]]

\* joined: what join_segments() wrote, and the chain before and behind it.
\* What was written before the failure stays in the body.
AddContainerSegments(b, self, peer, container, joined) ==
    LET body == b.body \o joined.bytes
        d == Descriptor(container, joined, Len(b.body), Len(body))
    IN  CASE ~ Added(joined) -> [b EXCEPT !.body = body]
          [] Added(joined) /\ peer = self ->
                [b EXCEPT !.body = body, !.segments = Append(@, d)]
          [] Added(joined) /\ peer # self ->
                [b EXCEPT !.body = body, !.peers = AddPeerSegment(@, peer, d)]

AddSegments(peer, container, joined) ==
    /\ Len(calls) < MaxAdded
    /\ builder' = AddContainerSegments(builder, Self, peer, container, joined)
    /\ calls' = Append(calls, [peer |-> peer, container |-> container, joined |-> joined])

BuilderNext ==
    \E p \in PeerIds, c \in Containers, joined \in Joins : AddSegments(p, c, joined)

BuilderSpec == BuilderInit /\ [][BuilderNext]_<<builder, calls>>

\* build().  body_sha256 is a digest of fixed length that says nothing else.
BuildHeader(b, timestamp, parents, sha256) ==
    [timestamp |-> timestamp, parents |-> parents, supersedes |-> <<>>,
     segments |-> b.segments, peers |-> b.peers, body_sha256 |-> sha256]

-----------------------------------------------------------------------------
(* Properties *)

\* The calls that added a segment of this peer, in their order.
Additions(made, peer) ==
    LET upto[n \in 0 .. Len(made)] ==
            IF n = 0 THEN <<>>
            ELSE IF made[n].peer = peer /\ Added(made[n].joined)
                 THEN Append(upto[n - 1], made[n])
                 ELSE upto[n - 1]
    IN  upto[Len(made)]

\* What was joined, and where it went.
Describes(d, call, body) ==
    /\ d = Descriptor(call.container, call.joined, d.loc.start, d.loc.end)
    /\ SubSeq(body, d.loc.start + 1, d.loc.end) = call.joined.bytes

Tells(descriptors, added, body) ==
    /\ Len(descriptors) = Len(added)
    /\ \A n \in DOMAIN descriptors : Describes(descriptors[n], added[n], body)

\* A header that says of each peer's segments what there is to say.
Finds(header, body, made) ==
    /\ Tells(header.segments, Additions(made, Self), body)
    /\ \A p \in PeerIds \ {Self} :
          Additions(made, p) # <<>> => \E i \in DOMAIN header.peers : header.peers[i].peer = p
    /\ \A i \in DOMAIN header.peers :
          LET p == header.peers[i]
          IN  /\ p.peer # Self
              /\ Tells(p.segments, Additions(made, p.peer), body)
              /\ \A k \in 1 .. i - 1 : IdLess(header.peers[k].peer, p.peer)

(***************************************************************************)
(* Whenever build() is called, the header describes exactly the segments   *)
(* whose addition succeeded, each peer's in their order, the peers by      *)
(* their ids, and finds their bytes in the body, also behind bytes that a  *)
(* failed addition left there.                                             *)
(***************************************************************************)
SegmentsFound ==
    \A time \in Times, parents \in Parents :
        Finds(BuildHeader(builder, time, parents, <<>>), builder.body, calls)

=============================================================================
