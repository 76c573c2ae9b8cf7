---------------------------- MODULE SegmentChain ----------------------------
(***************************************************************************)
(* Segments: pieces of one peer's log, packaged by their author and        *)
(* packaged again by others (ubiquisync-core, src/log/segment.rs and       *)
(* segment/join.rs).                                                       *)
(*                                                                         *)
(* The author appends entries to its log, changes the key, signs, and cuts *)
(* what is new into a segment, opaque or plaintext.  Whoever holds the     *)
(* segments packages them in the other form, joins neighbours into one     *)
(* plaintext segment, and expunges ops.  Nobody has to be trusted with     *)
(* that: the header's signature is the author's, over the chain at the     *)
(* end.                                                                    *)
(*                                                                         *)
(* Abstractions.  Encoding and compression of bytes is left out, and the   *)
(* decoding errors with it.  The AEAD of a plaintext segment is a lock:    *)
(* the payload opens with the cipher it was locked with and no other.  No  *)
(* code expunges yet; that it replaces an op by its hash in the opaque     *)
(* form, and no UseKey ever, is what entry.rs asks for.                    *)
(***************************************************************************)
EXTENDS LogChain, FiniteSets

CONSTANTS
    MaxEntries,    \* bound: entries of the log
    MaxSegments,   \* bound: segments held at a time
    MaxExpunged    \* bound: expunged ops

ASSUME SegmentChainAssumption ==
    /\ MaxEntries \in Nat
    /\ MaxSegments \in Nat
    /\ MaxExpunged \in Nat

VARIABLES
    log,       \* the author's entries, in plain
    heads,     \* heads[n + 1]: chain and cipher of the author after n entries
    held,      \* the segments, in the order of the log
    ends,      \* history: ends[i] is the number of entries up to held[i]'s end
    gone       \* history: the expunged entries, by chain index

segVars == <<log, heads, held, ends, gone>>

Origin == [chain |-> EmptyChain, cipher |-> NoCipher]

SegInit ==
    /\ log = <<>>
    /\ heads = <<Origin>>
    /\ held = <<>>
    /\ ends = <<>>
    /\ gone = {}

-----------------------------------------------------------------------------
(* The format *)

\* Mutant of StartCipher: left out if the segment changes the key anywhere.
StartCipherUnlessChanged(cipher, entries) ==
    IF \E n \in DOMAIN entries : entries[n].is = "use_key" THEN NoCipher ELSE cipher

\* SegmentHeader::init_opaque(): left out if the first entry sets the cipher.
StartCipher(cipher, entries) ==
    IF entries # <<>> /\ entries[1].is = "use_key" THEN NoCipher ELSE cipher

\* encrypted, outer: outer_encryption and the cipher in it, given only if it
\* differs from the header's start_cipher.  lock: what the payload needs.
EncodeOpaque(sig, prev, start, entries) ==
    [sig |-> sig, prev |-> prev, start |-> StartCipher(start, entries),
     form |-> "opaque", encrypted |-> FALSE, outer |-> NoCipher,
     lock |-> NoCipher, entries |-> entries]

EncodePlaintext(sig, prev, start, entries) ==
    LET end == EndCipher(start, entries)
        kept == StartCipher(start, entries)
    IN  [sig |-> sig, prev |-> prev, start |-> kept, form |-> "plaintext",
         encrypted |-> end # NoCipher,
         outer |-> IF end = kept THEN NoCipher ELSE end,
         lock |-> end, entries |-> entries]

\* SegmentReader::read(): can the payload be read with these keys?
Opens(seg, known) ==
    LET ci == IF seg.outer = NoCipher THEN seg.start ELSE seg.outer
    IN  \/ seg.form = "opaque"
        \/ ~ seg.encrypted /\ seg.lock = NoCipher
        \/ seg.encrypted /\ ci \in known /\ ci = seg.lock

\* DecodedSegment::verify().
Verify(seg, known) ==
    LET v == IF seg.form = "opaque"
             THEN VerifyOpaque(seg.prev, seg.start, seg.entries)
             ELSE VerifyPlaintext(seg.prev, seg.start, known, seg.entries)
    IN  [ok |-> Opens(seg, known) /\ v.ok /\ seg.sig = v.chain,
         chain |-> v.chain, cipher |-> v.cipher]

\* VerifiedSegment::to_plaintext().
PlainEntries(seg, known) ==
    IF seg.form = "opaque"
    THEN EntriesToPlaintext(seg.prev, seg.start, known, seg.entries)
    ELSE [ok |-> TRUE, chain |-> seg.prev, out |-> seg.entries,
          cipher |-> EndCipher(seg.start, seg.entries)]

-----------------------------------------------------------------------------
(* join_segments() *)

\* Mutant of CarriedCipher: every header is believed.
HeaderCipher(first, acc, seg) == seg.start

\* Only the first segment's claim is taken; the entries say the rest.
CarriedCipher(first, acc, seg) == IF first THEN seg.start ELSE acc.cipher

InOrder(first, acc, seg) == first \/ acc.chain = seg.prev

\* acc: chain and cipher so far, and the entries collected.
JoinOne(first, acc, seg, known) ==
    LET chain == IF first THEN seg.prev ELSE acc.chain
        cipher == CarriedCipher(first, acc, seg)
        next == IF seg.form = "opaque"
                THEN EntriesToPlaintext(chain, cipher, known, seg.entries)
                ELSE EntriesToOpaque(chain, cipher, known, seg.entries)
        entries == IF seg.form = "opaque" THEN next.out ELSE seg.entries
    IN  [ok |-> acc.ok /\ InOrder(first, acc, seg) /\ Opens(seg, known) /\ next.ok,
         chain |-> next.chain, cipher |-> next.cipher,
         out |-> acc.out \o NoSignatures(entries)]

JoinAll(segs, known) ==
    LET after[n \in 0 .. Len(segs)] ==
            IF n = 0 THEN At(known, EmptyChain, NoCipher)
            ELSE JoinOne(n = 1, after[n - 1], segs[n], known)
    IN  after[Len(segs)]

\* The joined segment, and the chain hash returned with it.
Join(segs, known) ==
    LET acc == JoinAll(segs, known)
        end == EndCipher(segs[1].start, acc.out)
    IN  [ok |-> acc.ok /\ end \in known \cup {NoCipher},
         chain |-> acc.chain,
         segment |-> EncodePlaintext(segs[Len(segs)].sig, segs[1].prev, segs[1].start, acc.out)]

-----------------------------------------------------------------------------
(* The author *)

\* ChainHash::compute_next_plaintext(), with every key at hand.
AppendEntry(e) ==
    LET head == heads[Len(heads)]
        next == EntriesToOpaque(head.chain, head.cipher, Keys, <<e>>)
    IN  /\ Len(log) < MaxEntries
        /\ log' = Append(log, e)
        /\ heads' = Append(heads, [chain |-> next.chain, cipher |-> next.cipher])
        /\ UNCHANGED <<held, ends, gone>>

WriteOp == \E p \in Payloads : AppendEntry(Op(p))

Rotate == \E k \in Keys : AppendEntry(UseKey(k))

Sign == AppendEntry(Signature(heads[Len(heads)].chain))

Packed == IF ends = <<>> THEN 0 ELSE ends[Len(ends)]

\* What is new becomes a segment; nothing new, an empty one.
Cut ==
    LET from == heads[Packed + 1]
        entries == SubSeq(log, Packed + 1, Len(log))
        sig == heads[Len(heads)].chain
        opaque == EntriesToOpaque(from.chain, from.cipher, Keys, entries).out
    IN  /\ Len(held) < MaxSegments
        /\ \/ held' = Append(held, EncodeOpaque(sig, from.chain, from.cipher, opaque))
           \/ held' = Append(held, EncodePlaintext(sig, from.chain, from.cipher, entries))
        /\ ends' = Append(ends, Len(log))
        /\ UNCHANGED <<log, heads, gone>>

-----------------------------------------------------------------------------
(* Whoever holds the segments *)

\* Decode, and encode in the other form under the same signature.
Repackage ==
    \E i \in DOMAIN held :
        LET seg == held[i]
            plain == PlainEntries(seg, Keys).out
            opaque == EntriesToOpaque(seg.prev, seg.start, Keys, plain).out
        IN  /\ held' = [held EXCEPT ![i] =
                  IF seg.form = "opaque"
                  THEN EncodePlaintext(seg.sig, seg.prev, seg.start, plain)
                  ELSE EncodeOpaque(seg.sig, seg.prev, seg.start, opaque)]
            /\ UNCHANGED <<log, heads, ends, gone>>

\* Neighbours become one segment.
JoinHeld ==
    \E i, j \in DOMAIN held :
        LET joined == Join(SubSeq(held, i, j), Keys)
        IN  /\ i < j
            /\ joined.ok
            /\ held' = SubSeq(held, 1, i - 1) \o <<joined.segment>>
                          \o SubSeq(held, j + 1, Len(held))
            /\ ends' = SubSeq(ends, 1, i - 1) \o SubSeq(ends, j, Len(ends))
            /\ UNCHANGED <<log, heads, gone>>

\* An op's ciphertext is replaced by its hash.
Expunge ==
    \E i \in DOMAIN held : \E n \in DOMAIN held[i].entries :
        LET seg == held[i]
            index == Len(seg.prev) + Len(NoSignatures(SubSeq(seg.entries, 1, n - 1)))
        IN  /\ Cardinality(gone) < MaxExpunged
            /\ seg.form = "opaque"
            /\ seg.entries[n].is = "op"
            /\ held' = [held EXCEPT ![i].entries[n] =
                            Expunged(EntryHash(seg.entries[n], index))]
            /\ gone' = gone \cup {index}
            /\ UNCHANGED <<log, heads, ends>>

SegNext ==
    \/ WriteOp
    \/ Rotate
    \/ Sign
    \/ Cut
    \/ Repackage
    \/ JoinHeld
    \/ Expunge

SegSpec == SegInit /\ [][SegNext]_segVars

-----------------------------------------------------------------------------
(* Properties *)

EndOf(i) == heads[ends[i] + 1]

StartOf(i) == IF i = 1 THEN Origin ELSE EndOf(i - 1)

\* What the author wrote there.
LogOf(i) == SubSeq(log, IF i = 1 THEN 1 ELSE ends[i - 1] + 1, ends[i])

(***************************************************************************)
(* Segments prove themselves, however often they were packaged again,      *)
(* joined or redacted: each verifies under the author's signature, and     *)
(* yields the chain and the cipher the author had at that place.           *)
(***************************************************************************)
HeldVerifies ==
    \A i \in DOMAIN held :
        /\ held[i].prev = StartOf(i).chain
        /\ Verify(held[i], Keys) =
              [ok |-> TRUE, chain |-> EndOf(i).chain, cipher |-> EndOf(i).cipher]

(***************************************************************************)
(* Nothing is lost or made up: each segment holds the author's ops and key *)
(* changes of its piece of the log, in order, but for what was expunged.   *)
(* (Signatures inside a segment may go: a join drops them.)                *)
(***************************************************************************)
EntriesKept ==
    \A i \in DOMAIN held :
        LET kept == NoSignatures(PlainEntries(held[i], Keys).out)
            written == NoSignatures(LogOf(i))
            place(n) == Len(StartOf(i).chain) + n - 1
        IN  /\ Len(kept) = Len(written)
            /\ \A n \in DOMAIN kept :
                  IF place(n) \in gone THEN kept[n].is = "expunged" ELSE kept[n] = written[n]

(***************************************************************************)
(* What a header claims about the cipher is checked, as the comment in     *)
(* ChainHash::add_one() says: a segment with a chained entry, in either    *)
(* form, either fails to verify or yields the author's cipher, whatever    *)
(* start_cipher its header names.                                          *)
(***************************************************************************)
ClaimsChecked ==
    \A i \in DOMAIN held, c \in Ciphers :
        LET plain == PlainEntries(held[i], Keys).out
        IN  NoSignatures(held[i].entries) # <<>> =>
              \A seg \in {[held[i] EXCEPT !.start = c],
                          EncodePlaintext(held[i].sig, held[i].prev, c, plain)} :
                  LET v == Verify(seg, Keys)
                  IN  v.ok => v.cipher = EndOf(i).cipher

(***************************************************************************)
(* Two segments join exactly if the log continues from one to the other;   *)
(* the chain hash returned is then the one that verifies, and a claim in   *)
(* the header of the second has no say in it.                              *)
(***************************************************************************)
JoinFollowsTheLog ==
    \A i, k \in DOMAIN held :
        LET joined == Join(<<held[i], held[k]>>, Keys)
        IN  /\ joined.ok <=> EndOf(i).chain = StartOf(k).chain
            /\ joined.ok =>
                  /\ joined.chain = EndOf(k).chain
                  /\ Verify(joined.segment, Keys).chain = joined.chain
                  /\ held[k].form = "opaque" =>
                        \A c \in Ciphers :
                            Join(<<held[i], [held[k] EXCEPT !.start = c]>>, Keys) = joined

=============================================================================
