------------------------ MODULE SegmentAndPackProofs ------------------------
(***************************************************************************)
(* Proofs about what is handed on: the segments of a log (SegmentChain),   *)
(* how a pack is built of them (PackBuilder), and the packs on a remote    *)
(* (PackStore).                                                            *)
(*                                                                         *)
(* Segments.  None of the four properties is inductive: each speaks of     *)
(* what can be read from a segment, and the actions make segments from     *)
(* segments.  The invariant, SegInv, says what a held segment is instead:  *)
(* a package, opaque or plaintext, of some entries that lead from the      *)
(* chain and cipher at its start to those at its end, and that are the     *)
(* author's, but for what was expunged.  Repackaging, joining and          *)
(* expunging take such packages to such packages.  The loops over entries  *)
(* are functions on 0 .. Len(entries); what they compute follows by        *)
(* induction over the length, as a fact about a set of numbers.            *)
(*                                                                         *)
(* Names.  A place S is a chain and the cipher in force; g, h are entries  *)
(* in plain; l, h the author's log and its heads; s, e the segments and    *)
(* where they end; G the expunged indices.                                 *)
(***************************************************************************)
EXTENDS PackStore, SegmentChain, PackBuilder, SequenceTheorems, WellFoundedInduction,
        TLAPS


-----------------------------------------------------------------------------
(* Sequences of anything, from the front *)

IsSeq(s) == \E S : s \in Seq(S)

\* Natural induction over a set: no operator has to be instantiated.
LEMMA ByInduction ==
    ASSUME NEW S, 0 \in S, \A n \in Nat : n \in S => n + 1 \in S
    PROVE  Nat \subseteq S
<1> DEFINE Left == Nat \ S
           Less == OpToRel(<, Nat)
<1> SUFFICES ASSUME Left # {} PROVE FALSE
  OBVIOUS
<1>1. \A m, k \in Nat : m < k => <<m, k>> \in Less
  BY DEF OpToRel
<1>2. PICK n \in Left : \A m \in Left : <<m, n>> \notin Less
  <2> HIDE DEF Left
  <2>1. Left \subseteq Nat
    BY DEF Left
  <2> QED
    BY <2>1, NatLessThanWellFounded, WFMin
<1> HIDE DEF Less
<1>3. n \in Nat /\ n # 0 /\ n - 1 \in Nat /\ n - 1 < n
  OBVIOUS
<1>4. n - 1 \in S
  BY <1>1, <1>2, <1>3
<1>5. (n - 1) + 1 \in S
  BY <1>3, <1>4
<1> QED
  BY <1>3, <1>5

\* What a length is, and that only the empty sequence has none.
LEMMA LengthIs ==
    /\ IsSeq(<<>>) /\ Len(<<>>) = 0
    /\ \A s : IsSeq(s) => Len(s) \in Nat /\ (Len(s) = 0 <=> s = <<>>) /\ DOMAIN s = 1 .. Len(s)
<1>1. <<>> \in Seq({}) /\ Len(<<>>) = 0
  OBVIOUS
<1>2. ASSUME NEW S, NEW s \in Seq(S)
      PROVE  Len(s) \in Nat /\ (Len(s) = 0 <=> s = <<>>) /\ DOMAIN s = 1 .. Len(s)
  BY EmptySeq, LenProperties
<1> QED
  BY <1>1, <1>2 DEF IsSeq

\* One entry more.
LEMMA AppendIs ==
    ASSUME NEW s, IsSeq(s), NEW x
    PROVE  /\ IsSeq(Append(s, x)) /\ Len(Append(s, x)) = Len(s) + 1
           /\ Append(s, x)[Len(s) + 1] = x
           /\ \A i \in 1 .. Len(s) : Append(s, x)[i] = s[i]
           /\ Append(s, x) # <<>>
<1>1. PICK S : s \in Seq(S)
  BY DEF IsSeq
<1> DEFINE T == S \cup {x}
<1>2. s \in Seq(T) /\ x \in T
  BY <1>1
<1> HIDE DEF T
<1>3. /\ Append(s, x) \in Seq(T)
      /\ Append(s, x) # <<>>
      /\ Len(Append(s, x)) = Len(s) + 1
      /\ \A i \in 1 .. Len(s) : Append(s, x)[i] = s[i]
      /\ Append(s, x)[Len(s) + 1] = x
  BY <1>2, AppendProperties
<1> QED
  BY <1>3 DEF IsSeq

\* Sequences are equal if their lengths and entries are.
LEMMA SameSeq ==
    ASSUME NEW s, NEW t, IsSeq(s), IsSeq(t), Len(s) = Len(t),
           \A i \in 1 .. Len(s) : s[i] = t[i]
    PROVE  s = t
<1>1. PICK S : s \in Seq(S)
  BY DEF IsSeq
<1>2. PICK T : t \in Seq(T)
  BY DEF IsSeq
<1>3. s \in Seq(S \cup T) /\ t \in Seq(S \cup T)
  BY <1>1, <1>2
<1> QED
  BY <1>3, SeqEqual

\* A sequence is empty, or one entry longer than another.
LEMMA Shorter ==
    ASSUME NEW s, IsSeq(s), s # <<>>
    PROVE  \E t, x : IsSeq(t) /\ s = Append(t, x) /\ Len(t) + 1 = Len(s)
<1>1. PICK S : s \in Seq(S)
  BY DEF IsSeq
<1>2. PICK t \in Seq(S), x \in S : s = Append(t, x)
  BY <1>1, SequenceEmptyOrAppend
<1>3. IsSeq(t)
  BY <1>2 DEF IsSeq
<1> QED
  BY <1>2, <1>3, AppendIs

\* The entries of one sequence after those of another.
LEMMA ConcatIs ==
    ASSUME NEW s, NEW t, IsSeq(s), IsSeq(t)
    PROVE  /\ IsSeq(s \o t) /\ Len(s \o t) = Len(s) + Len(t)
           /\ \A i \in 1 .. Len(s) : (s \o t)[i] = s[i]
           /\ \A i \in 1 .. Len(t) : (s \o t)[Len(s) + i] = t[i]
           /\ s \o <<>> = s /\ <<>> \o s = s
<1>1. PICK S : s \in Seq(S)
  BY DEF IsSeq
<1>2. PICK T : t \in Seq(T)
  BY DEF IsSeq
<1> DEFINE U == S \cup T
<1>3. s \in Seq(U) /\ t \in Seq(U)
  BY <1>1, <1>2
<1> HIDE DEF U
<1>4. /\ s \o t \in Seq(U) /\ Len(s \o t) = Len(s) + Len(t)
      /\ \A i \in 1 .. Len(s) + Len(t) :
            (s \o t)[i] = IF i <= Len(s) THEN s[i] ELSE t[i - Len(s)]
  BY <1>3, ConcatProperties
<1>5. Len(s) \in Nat /\ Len(t) \in Nat
  BY LengthIs
<1>6. \A i \in 1 .. Len(t) : Len(s) + i \in 1 .. Len(s) + Len(t) /\ ~(Len(s) + i <= Len(s))
                               /\ (Len(s) + i) - Len(s) = i
  BY <1>5
<1>7. s \o <<>> = s /\ <<>> \o s = s
  BY <1>3, ConcatEmptySeq
<1> QED
  BY <1>4, <1>5, <1>6, <1>7 DEF IsSeq

\* Appending to the second appends to both.
LEMMA ConcatAppend ==
    ASSUME NEW s, NEW t, IsSeq(s), IsSeq(t), NEW x
    PROVE  s \o Append(t, x) = Append(s \o t, x)
<1>1. PICK S : s \in Seq(S)
  BY DEF IsSeq
<1>2. PICK T : t \in Seq(T)
  BY DEF IsSeq
<1> DEFINE U == S \cup T \cup {x}
<1>3. s \in Seq(U) /\ t \in Seq(U) /\ x \in U
  BY <1>1, <1>2
<1> HIDE DEF U
<1>4. Append(t, x) = t \o <<x>> /\ Append(s \o t, x) = (s \o t) \o <<x>>
  BY <1>3, AppendIsConcat, ConcatProperties
<1> QED
  BY <1>3, <1>4, ConcatAssociative

\* The pieces of a sequence.
LEMMA SubSeqIs ==
    ASSUME NEW s, IsSeq(s), NEW m \in 1 .. Len(s) + 1, NEW n \in m - 1 .. Len(s)
    PROVE  /\ IsSeq(SubSeq(s, m, n)) /\ Len(SubSeq(s, m, n)) = n - m + 1
           /\ \A i \in 1 .. n - m + 1 : SubSeq(s, m, n)[i] = s[m + i - 1]
<1>1. PICK S : s \in Seq(S)
  BY DEF IsSeq
<1>2. Len(s) \in Nat /\ n - m + 1 \in Nat /\ m \in Int /\ n \in Int
  BY LengthIs
<1>3. \A i \in m .. n : s[i] \in S
  BY <1>1, <1>2
<1>4. /\ SubSeq(s, m, n) \in Seq(S)
      /\ Len(SubSeq(s, m, n)) = IF m <= n THEN n - m + 1 ELSE 0
      /\ \A i \in 1 .. n - m + 1 : SubSeq(s, m, n)[i] = s[m + i - 1]
  BY <1>2, <1>3, SubSeqProperties
<1>5. Len(SubSeq(s, m, n)) = n - m + 1
  BY <1>2, <1>4
<1> QED
  BY <1>4, <1>5 DEF IsSeq

-----------------------------------------------------------------------------
(* Along a log, entry by entry *)

\* What Along is defined by has a solution.
LEMMA AlongIs ==
    ASSUME NEW way, NEW start, NEW known, NEW s, IsSeq(s)
    PROVE  \E after : /\ Along(way, start, known, s) = after[Len(s)]
                      /\ after[0] = start
                      /\ \A n \in 1 .. Len(s) :
                            after[n] = One(way, after[n - 1], known, s[n])
<1> DEFINE Body(g, n) == IF n = 0 THEN start ELSE One(way, g[n - 1], known, s[n])
           Solves(g, m) == g = [n \in 0 .. m |-> Body(g, n)]
           S == {m \in Nat : \E g : Solves(g, m)}
<1>1. 0 \in S
  <2> DEFINE g == [n \in 0 .. 0 |-> start]
  <2>1. Solves(g, 0)
    OBVIOUS
  <2> QED
    BY <2>1
<1>2. ASSUME NEW m \in Nat, m \in S PROVE m + 1 \in S
  <2>1. PICK g : Solves(g, m)
    BY <1>2
  <2> DEFINE last == One(way, g[m], known, s[m + 1])
             h == [n \in 0 .. m + 1 |-> IF n = m + 1 THEN last ELSE g[n]]
  <2> HIDE DEF last
  <2>2. \A n \in 0 .. m + 1 : n # 0 => h[n - 1] = g[n - 1]
    OBVIOUS
  <2>3. \A n \in 0 .. m : g[n] = Body(g, n)
    BY <2>1
  <2>4. \A n \in 0 .. m + 1 : h[n] = Body(h, n)
    <3> SUFFICES ASSUME NEW n \in 0 .. m + 1 PROVE h[n] = Body(h, n)
      OBVIOUS
    <3>1. CASE n = m + 1
      BY <2>2, <3>1 DEF last
    <3>2. CASE n # m + 1
      <4>1. n \in 0 .. m /\ h[n] = g[n]
        BY <3>2
      <4> QED
        BY <2>2, <2>3, <4>1
    <3> QED
      BY <3>1, <3>2
  <2>5. Solves(h, m + 1)
    <3>1. h = [n \in 0 .. m + 1 |-> h[n]]
      OBVIOUS
    <3> HIDE DEF h
    <3> QED
      BY <2>4, <3>1
  <2> HIDE DEF h, Solves
  <2> QED
    BY <2>5
<1>3. Len(s) \in S
  <2> HIDE DEF S
  <2> QED
    BY <1>1, <1>2, ByInduction, LengthIs
<1> DEFINE after == CHOOSE g : Solves(g, Len(s))
<1>4. Along(way, start, known, s) = after[Len(s)]
  BY DEF Along
<1>5. Solves(after, Len(s))
  <2> HIDE DEF Solves
  <2> QED
    BY <1>3
<1>6. \A n \in 0 .. Len(s) : after[n] = Body(after, n)
  <2> HIDE DEF after
  <2> QED
    BY <1>5
<1>7. Len(s) \in Nat
  BY LengthIs
<1>8. after[0] = start
  BY <1>6, <1>7
<1>9. \A n \in 1 .. Len(s) : after[n] = One(way, after[n - 1], known, s[n])
  <2> HIDE DEF after
  <2> QED
    BY <1>6
<1> HIDE DEF after
<1> QED
  BY <1>4, <1>8, <1>9

\* Without an entry a loop ends where it starts.
LEMMA AlongNone ==
    ASSUME NEW way, NEW start, NEW known
    PROVE  Along(way, start, known, <<>>) = start
<1>1. IsSeq(<<>>) /\ Len(<<>>) = 0
  BY LengthIs
<1> QED
  BY <1>1, AlongIs

\* One entry more is one turn of the loop more.
LEMMA AlongAppend ==
    ASSUME NEW way, NEW start, NEW known, NEW s, IsSeq(s), NEW e
    PROVE  Along(way, start, known, Append(s, e)) =
              One(way, Along(way, start, known, s), known, e)
<1>1. PICK t : t = Append(s, e)
  OBVIOUS
<1>2. /\ Len(t) = Len(s) + 1 /\ t[Len(t)] = e /\ Len(s) \in Nat
      /\ \A n \in 1 .. Len(s) : t[n] = s[n]
  BY <1>1, AppendIs, LengthIs
<1>a. IsSeq(t)
  BY <1>1, AppendIs
<1>3. PICK f : /\ Along(way, start, known, s) = f[Len(s)] /\ f[0] = start
               /\ \A n \in 1 .. Len(s) : f[n] = One(way, f[n - 1], known, s[n])
  BY AlongIs
<1>4. PICK g : /\ Along(way, start, known, t) = g[Len(t)] /\ g[0] = start
               /\ \A n \in 1 .. Len(t) : g[n] = One(way, g[n - 1], known, t[n])
  BY <1>a, AlongIs
<1> DEFINE S == {n \in Nat : n <= Len(s) => g[n] = f[n]}
<1>5. 0 \in S
  BY <1>3, <1>4
<1>6. ASSUME NEW n \in Nat, n \in S PROVE n + 1 \in S
  <2> SUFFICES ASSUME n + 1 <= Len(s) PROVE g[n + 1] = f[n + 1]
    OBVIOUS
  <2>1. n + 1 \in 1 .. Len(s) /\ n + 1 \in 1 .. Len(t) /\ (n + 1) - 1 = n /\ n <= Len(s)
    BY <1>2
  <2>2. g[n] = f[n]
    BY <1>6, <2>1
  <2>3. /\ g[n + 1] = One(way, g[(n + 1) - 1], known, t[n + 1])
        /\ f[n + 1] = One(way, f[(n + 1) - 1], known, s[n + 1])
    BY <1>3, <1>4, <2>1
  <2> QED
    BY <1>2, <2>1, <2>2, <2>3
<1>7. Len(s) \in S
  <2> HIDE DEF S
  <2> QED
    BY <1>2, <1>5, <1>6, ByInduction
<1>8. g[Len(s)] = f[Len(s)]
  BY <1>2, <1>7
<1>9. Len(t) \in 1 .. Len(t) /\ Len(t) - 1 = Len(s)
  BY <1>2
<1>10. g[Len(t)] = One(way, g[Len(t) - 1], known, t[Len(t)])
  BY <1>4, <1>9
<1> QED
  BY <1>1, <1>2, <1>3, <1>4, <1>8, <1>9, <1>10

-----------------------------------------------------------------------------
(* Opaque and plaintext form *)

Entry(e) ==
    \/ \E p : e = Op(p)
    \/ \E k \in Keys : e = UseKey(k)
    \/ \E of : e = Signature(of)
    \/ \E h : e = Expunged(h)

EntriesOk(g) == IsSeq(g) /\ \A n \in 1 .. Len(g) : Entry(g[n])

\* A log is well-formed if each of its entries is.
LEMMA EntriesOkIs ==
    /\ EntriesOk(<<>>)
    /\ \A g, e : IsSeq(g) => (EntriesOk(Append(g, e)) <=> EntriesOk(g) /\ Entry(e))
<1>1. EntriesOk(<<>>)
  BY LengthIs DEF EntriesOk
<1>2. ASSUME NEW g, NEW e, IsSeq(g)
      PROVE  EntriesOk(Append(g, e)) <=> EntriesOk(g) /\ Entry(e)
  <2>1. /\ IsSeq(Append(g, e)) /\ Len(Append(g, e)) = Len(g) + 1 /\ Len(g) \in Nat
        /\ Append(g, e)[Len(g) + 1] = e
        /\ \A i \in 1 .. Len(g) : Append(g, e)[i] = g[i]
    BY <1>2, AppendIs, LengthIs
  <2>2. 1 .. Len(g) + 1 = (1 .. Len(g)) \cup {Len(g) + 1}
    BY <2>1
  <2> QED
    BY <1>2, <2>1, <2>2 DEF EntriesOk
<1> QED
  BY <1>1, <1>2

\* Encryption is undone under the same cipher and chain, and leaves the cipher
\* in force alone.
LEMMA OpaqueIs ==
    ASSUME NEW e, Entry(e), NEW cipher \in Ciphers, NEW chain, NEW o, o = ToOpaque(e, cipher, chain)
    PROVE  /\ Entry(o) /\ o.is = e.is
           /\ o.is \in {"use_key", "signature"} => o = e
           /\ ToPlaintext(o, cipher, chain) = e
           /\ CipherAfter(o, cipher) = CipherAfter(e, cipher)
           /\ CipherAfter(e, cipher) \in Ciphers
<1>1. CASE \E p : e = Op(p)
  <2>1. PICK p : e = Op(p)
    BY <1>1
  <2>2. PICK text : text = Encrypt(p, cipher, chain)
    OBVIOUS
  <2>3. o = Op(text) /\ text.plain = p /\ o.is = "op" /\ e.is = "op" /\ o.op = text
    BY <2>1, <2>2 DEF ToOpaque, Op, Encrypt
  <2>4. Decrypt(text, cipher, chain) = p
    BY <2>2, <2>3 DEF Decrypt
  <2> QED
    BY <2>1, <2>3, <2>4 DEF Entry, ToPlaintext, CipherAfter
<1>2. CASE \E k \in Keys : e = UseKey(k)
  BY <1>2 DEF Entry, ToOpaque, ToPlaintext, UseKey, CipherAfter, Ciphers
<1>3. CASE \E of : e = Signature(of)
  <2>1. PICK of : e = Signature(of)
    BY <1>3
  <2>2. e.is = "signature" /\ o = e
    BY <2>1 DEF Signature, ToOpaque
  <2> QED
    BY <2>1, <2>2 DEF Entry, ToPlaintext, CipherAfter
<1>4. CASE \E h : e = Expunged(h)
  BY <1>4 DEF Entry, ToOpaque, ToPlaintext, Expunged, CipherAfter, Ciphers
<1> QED
  BY <1>1, <1>2, <1>3, <1>4 DEF Entry

\* What a loop does with one.
LEMMA OneToOpaqueIs ==
    ASSUME NEW a, NEW e, NEW b, b = OneToOpaque(a, Keys, e),
           NEW o, o = ToOpaque(e, a.cipher, a.chain)
    PROVE  /\ b.ok <=> a.ok /\ CipherAfter(e, a.cipher) \in Ciphers
           /\ b.chain = NextChain(o, a.chain, a.cipher)
           /\ b.cipher = CipherAfter(o, a.cipher)
           /\ b.out = Append(a.out, o)
<1>1. b.ok <=> a.ok /\ CipherAfter(e, a.cipher) \in Ciphers
  BY DEF OneToOpaque, Advance, Resolved, Ciphers
<1>2. b.chain = NextChain(o, a.chain, a.cipher)
  BY DEF OneToOpaque, Advance
<1>3. b.cipher = CipherAfter(o, a.cipher) /\ b.out = Append(a.out, o)
  BY DEF OneToOpaque, Advance
<1> QED
  BY <1>1, <1>2, <1>3

\* Of entries_to_plaintext().
LEMMA OneToPlaintextIs ==
    ASSUME NEW a, NEW e, NEW b, b = OneToPlaintext(a, Keys, e)
    PROVE  /\ b.ok <=> a.ok /\ CipherAfter(e, a.cipher) \in Ciphers
           /\ b.chain = NextChain(e, a.chain, a.cipher)
           /\ b.cipher = CipherAfter(e, a.cipher)
           /\ b.out = Append(a.out, ToPlaintext(e, a.cipher, a.chain))
<1>1. b.ok <=> a.ok /\ CipherAfter(e, a.cipher) \in Ciphers
  BY DEF OneToPlaintext, Advance, Resolved, Ciphers
<1>2. b.chain = NextChain(e, a.chain, a.cipher)
  BY DEF OneToPlaintext, Advance
<1>3. b.cipher = CipherAfter(e, a.cipher) /\ b.out = Append(a.out, ToPlaintext(e, a.cipher, a.chain))
  BY DEF OneToPlaintext, Advance
<1> QED
  BY <1>1, <1>2, <1>3

\* Of verify_opaque().
LEMMA OneVerifiedIs ==
    ASSUME NEW a, NEW e, NEW b, b = OneVerified(a, e)
    PROVE  /\ b.ok <=> a.ok /\ (e.is = "signature" => e.of = a.chain)
           /\ b.chain = NextChain(e, a.chain, a.cipher)
           /\ b.cipher = CipherAfter(e, a.cipher)
           /\ b.out = Append(a.out, e)
<1>1. b.ok <=> a.ok /\ (e.is = "signature" => e.of = a.chain)
  BY DEF OneVerified, Advance, Resolved, Ciphers
<1>2. b.chain = NextChain(e, a.chain, a.cipher)
  BY DEF OneVerified, Advance
<1>3. b.cipher = CipherAfter(e, a.cipher) /\ b.out = Append(a.out, e)
  BY DEF OneVerified, Advance
<1> QED
  BY <1>1, <1>2, <1>3

\* The loops, one entry further.
LEMMA ToOpaqueAppend ==
    ASSUME NEW chain, NEW cipher, NEW g, IsSeq(g), NEW e,
           NEW a, a = EntriesToOpaque(chain, cipher, Keys, g),
           NEW b, b = EntriesToOpaque(chain, cipher, Keys, Append(g, e)),
           NEW o, o = ToOpaque(e, a.cipher, a.chain)
    PROVE  /\ b.ok <=> a.ok /\ CipherAfter(e, a.cipher) \in Ciphers
           /\ b.chain = NextChain(o, a.chain, a.cipher)
           /\ b.cipher = CipherAfter(o, a.cipher)
           /\ b.out = Append(a.out, o)
<1>1. b = One("to_opaque", a, Keys, e)
  BY AlongAppend DEF EntriesToOpaque
<1>2. One("to_opaque", a, Keys, e) = OneToOpaque(a, Keys, e)
  BY DEF One
<1>3. b = OneToOpaque(a, Keys, e)
  BY <1>1, <1>2
<1> QED
  BY <1>3, OneToOpaqueIs

\* entries_to_plaintext().
LEMMA ToPlaintextAppend ==
    ASSUME NEW chain, NEW cipher, NEW g, IsSeq(g), NEW e,
           NEW a, a = EntriesToPlaintext(chain, cipher, Keys, g),
           NEW b, b = EntriesToPlaintext(chain, cipher, Keys, Append(g, e))
    PROVE  /\ b.ok <=> a.ok /\ CipherAfter(e, a.cipher) \in Ciphers
           /\ b.chain = NextChain(e, a.chain, a.cipher)
           /\ b.cipher = CipherAfter(e, a.cipher)
           /\ b.out = Append(a.out, ToPlaintext(e, a.cipher, a.chain))
<1>1. b = One("to_plaintext", a, Keys, e)
  BY AlongAppend DEF EntriesToPlaintext
<1>2. One("to_plaintext", a, Keys, e) = OneToPlaintext(a, Keys, e)
  BY DEF One
<1>3. b = OneToPlaintext(a, Keys, e)
  BY <1>1, <1>2
<1> QED
  BY <1>3, OneToPlaintextIs

\* verify_opaque().
LEMMA VerifyAppend ==
    ASSUME NEW chain, NEW cipher, NEW g, IsSeq(g), NEW e,
           NEW a, a = VerifyOpaque(chain, cipher, g),
           NEW b, b = VerifyOpaque(chain, cipher, Append(g, e))
    PROVE  /\ b.ok <=> a.ok /\ (e.is = "signature" => e.of = a.chain)
           /\ b.chain = NextChain(e, a.chain, a.cipher)
           /\ b.cipher = CipherAfter(e, a.cipher)
           /\ b.out = Append(a.out, e)
<1>1. b = One("verify", a, {}, e)
  BY AlongAppend DEF VerifyOpaque
<1>2. One("verify", a, {}, e) = OneVerified(a, e)
  BY DEF One
<1>3. b = OneVerified(a, e)
  BY <1>1, <1>2
<1> QED
  BY <1>3, OneVerifiedIs

\* The entries a join collects.
LEMMA NoSignaturesAppend ==
    ASSUME NEW g, IsSeq(g), NEW e
    PROVE  NoSignatures(Append(g, e)) =
              IF e.is = "signature" THEN NoSignatures(g) ELSE Append(NoSignatures(g), e)
<1>1. NoSignatures(Append(g, e)) = One("unsigned", NoSignatures(g), {}, e)
  BY AlongAppend DEF NoSignatures
<1> QED
  BY <1>1 DEF One, OneUnsigned

\* The cipher in force.
LEMMA EndCipherAppend ==
    ASSUME NEW cipher, NEW g, IsSeq(g), NEW e
    PROVE  EndCipher(cipher, Append(g, e)) = CipherAfter(e, EndCipher(cipher, g))
<1>1. EndCipher(cipher, Append(g, e)) = One("cipher", EndCipher(cipher, g), {}, e)
  BY AlongAppend DEF EndCipher
<1> QED
  BY <1>1 DEF One

\* Each loop over no entries, with the key of the cipher it starts with.
LEMMA NothingRead ==
    ASSUME NEW chain, NEW cipher \in Ciphers
    PROVE  LET start == [ok |-> TRUE, chain |-> chain, cipher |-> cipher, out |-> <<>>]
           IN  /\ EntriesToOpaque(chain, cipher, Keys, <<>>) = start
               /\ EntriesToPlaintext(chain, cipher, Keys, <<>>) = start
               /\ VerifyOpaque(chain, cipher, <<>>) = start
               /\ NoSignatures(<<>>) = <<>>
               /\ EndCipher(cipher, <<>>) = cipher
  BY AlongNone
     DEF EntriesToOpaque, EntriesToPlaintext, VerifyOpaque, NoSignatures, EndCipher, At, Ciphers

\* Encrypted, entries verify, and decrypt to what they were.
Encodes(chain, cipher, g) ==
    LET a == EntriesToOpaque(chain, cipher, Keys, g)
        v == VerifyOpaque(chain, cipher, a.out)
        d == EntriesToPlaintext(chain, cipher, Keys, a.out)
    IN  /\ a.ok /\ a.cipher \in Ciphers /\ IsSeq(a.chain)
        /\ EntriesOk(a.out) /\ Len(a.out) = Len(g)
        /\ v.chain = a.chain /\ v.cipher = a.cipher
        /\ d.ok /\ d.chain = a.chain /\ d.cipher = a.cipher /\ d.out = g
        /\ EndCipher(cipher, g) = a.cipher

\* A link is added for every entry but a signature, and it names the cipher
\* then in force.
LEMMA NextChainIs ==
    ASSUME NEW e, NEW chain, IsSeq(chain), NEW cipher
    PROVE  /\ IsSeq(NextChain(e, chain, cipher))
           /\ e.is = "signature" => NextChain(e, chain, cipher) = chain
           /\ e.is # "signature" =>
                 /\ NextChain(e, chain, cipher) # <<>>
                 /\ Len(NextChain(e, chain, cipher)) = Len(chain) + 1
                 /\ NextChain(e, chain, cipher)[Len(chain) + 1].cipher = CipherAfter(e, cipher)
  BY AppendIs DEF NextChain, AddOne

\* The step of the induction over the entries, and the induction.
LEMMA EncodesOne ==
    ASSUME NEW chain, NEW cipher \in Ciphers, NEW g, IsSeq(g), Encodes(chain, cipher, g),
           NEW e, Entry(e)
    PROVE  Encodes(chain, cipher, Append(g, e))
<1>1. PICK a : a = EntriesToOpaque(chain, cipher, Keys, g)
  OBVIOUS
<1>2. PICK v : v = VerifyOpaque(chain, cipher, a.out)
  OBVIOUS
<1>3. PICK d : d = EntriesToPlaintext(chain, cipher, Keys, a.out)
  OBVIOUS
<1>4. /\ a.ok /\ a.cipher \in Ciphers /\ IsSeq(a.chain)
      /\ EntriesOk(a.out) /\ Len(a.out) = Len(g)
      /\ v.chain = a.chain /\ v.cipher = a.cipher
      /\ d.ok /\ d.chain = a.chain /\ d.cipher = a.cipher /\ d.out = g
      /\ EndCipher(cipher, g) = a.cipher
  BY <1>1, <1>2, <1>3 DEF Encodes
<1>5. PICK o : o = ToOpaque(e, a.cipher, a.chain)
  OBVIOUS
<1>6. /\ Entry(o) /\ ToPlaintext(o, a.cipher, a.chain) = e
      /\ CipherAfter(o, a.cipher) = CipherAfter(e, a.cipher)
      /\ CipherAfter(e, a.cipher) \in Ciphers
  BY <1>4, <1>5, OpaqueIs
<1>7. IsSeq(a.out)
  BY <1>4 DEF EntriesOk
<1>8. PICK b : b = EntriesToOpaque(chain, cipher, Keys, Append(g, e))
  OBVIOUS
<1>9. /\ b.ok <=> a.ok /\ CipherAfter(e, a.cipher) \in Ciphers
      /\ b.chain = NextChain(o, a.chain, a.cipher)
      /\ b.cipher = CipherAfter(o, a.cipher)
      /\ b.out = Append(a.out, o)
  BY <1>1, <1>5, <1>8, ToOpaqueAppend
<1>10. b.ok /\ b.cipher = CipherAfter(e, a.cipher) /\ b.cipher \in Ciphers
  BY <1>4, <1>6, <1>9
<1>11. IsSeq(b.chain) /\ EntriesOk(b.out) /\ Len(b.out) = Len(Append(g, e))
  <2>1. IsSeq(NextChain(o, a.chain, a.cipher))
    BY <1>4, NextChainIs
  <2>2. EntriesOk(b.out)
    BY <1>4, <1>6, <1>7, <1>9, EntriesOkIs
  <2>3. Len(Append(a.out, o)) = Len(a.out) + 1 /\ Len(Append(g, e)) = Len(g) + 1
    BY <1>7, AppendIs
  <2> QED
    BY <1>4, <1>9, <2>1, <2>2, <2>3
<1>12. PICK w : w = VerifyOpaque(chain, cipher, b.out)
  OBVIOUS
<1>13. w.chain = b.chain /\ w.cipher = b.cipher
  <2>1. w.chain = NextChain(o, v.chain, v.cipher) /\ w.cipher = CipherAfter(o, v.cipher)
    BY <1>2, <1>7, <1>9, <1>12, VerifyAppend
  <2> QED
    BY <1>4, <1>9, <2>1
<1>14. PICK f : f = EntriesToPlaintext(chain, cipher, Keys, b.out)
  OBVIOUS
<1>15. f.ok /\ f.chain = b.chain /\ f.cipher = b.cipher /\ f.out = Append(g, e)
  <2>1. /\ f.ok <=> d.ok /\ CipherAfter(o, d.cipher) \in Ciphers
        /\ f.chain = NextChain(o, d.chain, d.cipher)
        /\ f.cipher = CipherAfter(o, d.cipher)
        /\ f.out = Append(d.out, ToPlaintext(o, d.cipher, d.chain))
    BY <1>3, <1>7, <1>9, <1>14, ToPlaintextAppend
  <2> QED
    BY <1>4, <1>6, <1>9, <2>1
<1>16. EndCipher(cipher, Append(g, e)) = b.cipher
  BY <1>4, <1>10, EndCipherAppend
<1> QED
  BY <1>8, <1>10, <1>11, <1>12, <1>13, <1>14, <1>15, <1>16 DEF Encodes

\* What EncodesOne says of one entry holds of a log.
LEMMA EncodesAll ==
    ASSUME NEW chain, IsSeq(chain), NEW cipher \in Ciphers, NEW g, EntriesOk(g)
    PROVE  Encodes(chain, cipher, g)
<1> DEFINE P(u) == EntriesOk(u) => Encodes(chain, cipher, u)
           S == {n \in Nat : \A u : IsSeq(u) /\ Len(u) = n => P(u)}
<1>1. P(<<>>)
  <2>1. PICK start : start = [ok |-> TRUE, chain |-> chain, cipher |-> cipher, out |-> <<>>]
    OBVIOUS
  <2>2. /\ EntriesToOpaque(chain, cipher, Keys, <<>>) = start
        /\ EntriesToPlaintext(chain, cipher, Keys, <<>>) = start
        /\ VerifyOpaque(chain, cipher, <<>>) = start
        /\ EndCipher(cipher, <<>>) = cipher
    BY <2>1, NothingRead
  <2>3. start.ok /\ start.chain = chain /\ start.cipher = cipher /\ start.out = <<>>
    BY <2>1
  <2> QED
    BY <2>2, <2>3, EntriesOkIs DEF Encodes
<1>2. ASSUME NEW u, NEW e, IsSeq(u), P(u) PROVE P(Append(u, e))
  BY <1>2, EncodesOne, EntriesOkIs
<1> HIDE DEF P
<1>3. 0 \in S
  BY <1>1, LengthIs
<1>4. ASSUME NEW n \in Nat, n \in S PROVE n + 1 \in S
  <2> SUFFICES ASSUME NEW u, IsSeq(u), Len(u) = n + 1 PROVE P(u)
    OBVIOUS
  <2>1. u # <<>>
    BY LengthIs
  <2>2. PICK v, e : IsSeq(v) /\ u = Append(v, e) /\ Len(v) + 1 = Len(u)
    BY <2>1, Shorter
  <2>3. Len(v) = n
    BY <2>2, LengthIs
  <2> QED
    BY <1>2, <1>4, <2>2, <2>3
<1>5. Len(g) \in S
  <2> HIDE DEF S
  <2> QED
    BY <1>3, <1>4, ByInduction, LengthIs DEF EntriesOk
<1> QED
  BY <1>5 DEF P, EntriesOk

\* The last link says which cipher is in force.
LastLink(chain, cipher) == chain # <<>> /\ chain[Len(chain)].cipher = cipher

\* The last link after an entry that is no signature.
LEMMA NextLink ==
    ASSUME NEW e, NEW chain, IsSeq(chain), NEW cipher, e.is # "signature",
           NEW next, next = NextChain(e, chain, cipher)
    PROVE  Len(next) = Len(chain) + 1 /\ LastLink(next, CipherAfter(e, cipher))
<1>1. PICK link : link = [entry |-> EntryHash(e, Len(chain)), cipher |-> CipherAfter(e, cipher)]
  OBVIOUS
<1>2. next = Append(chain, link)
  BY <1>1 DEF NextChain, AddOne
<1>3. link.cipher = CipherAfter(e, cipher)
  BY <1>1
<1>4. next # <<>> /\ Len(next) = Len(chain) + 1 /\ next[Len(chain) + 1] = link
  BY <1>2, AppendIs
<1> QED
  BY <1>3, <1>4 DEF LastLink

Unsigned(u) == \A n \in 1 .. Len(u) : u[n].is # "signature"

\* Without its signatures a log has the same chain.
Links(chain, cipher, g) ==
    LET a == EntriesToOpaque(chain, cipher, Keys, g)
        u == NoSignatures(g)
        b == EntriesToOpaque(chain, cipher, Keys, u)
    IN  /\ EntriesOk(u) /\ Unsigned(u) /\ NoSignatures(u) = u
        /\ b.chain = a.chain /\ b.cipher = a.cipher
        /\ VerifyOpaque(chain, cipher, b.out).ok
        /\ Len(a.chain) = Len(chain) + Len(u)
        /\ IsSeq(NoSignatures(a.out)) /\ Len(NoSignatures(a.out)) = Len(u)
        /\ u = <<>> => a.chain = chain /\ a.cipher = cipher
        /\ u # <<>> => LastLink(a.chain, a.cipher)

\* The step of the induction over the entries, and the induction.
LEMMA LinksOne ==
    ASSUME NEW chain, IsSeq(chain), NEW cipher \in Ciphers, NEW g, EntriesOk(g),
           Links(chain, cipher, g), NEW e, Entry(e)
    PROVE  Links(chain, cipher, Append(g, e))
<1>1. PICK a : a = EntriesToOpaque(chain, cipher, Keys, g)
  OBVIOUS
<1>2. PICK u : u = NoSignatures(g)
  OBVIOUS
<1>3. PICK b : b = EntriesToOpaque(chain, cipher, Keys, u)
  OBVIOUS
<1>4. /\ EntriesOk(u) /\ Unsigned(u) /\ NoSignatures(u) = u
      /\ b.chain = a.chain /\ b.cipher = a.cipher
      /\ VerifyOpaque(chain, cipher, b.out).ok
      /\ Len(a.chain) = Len(chain) + Len(u)
      /\ IsSeq(NoSignatures(a.out)) /\ Len(NoSignatures(a.out)) = Len(u)
      /\ u = <<>> => a.chain = chain /\ a.cipher = cipher
      /\ u # <<>> => LastLink(a.chain, a.cipher)
  BY <1>1, <1>2, <1>3 DEF Links
<1>5. Encodes(chain, cipher, g) /\ Encodes(chain, cipher, u) /\ IsSeq(u) /\ IsSeq(g)
  BY <1>4, EncodesAll DEF EntriesOk
<1>6. a.cipher \in Ciphers /\ IsSeq(a.chain) /\ IsSeq(a.out)
  BY <1>1, <1>5 DEF Encodes, EntriesOk
<1>7. VerifyOpaque(chain, cipher, b.out).chain = b.chain /\ IsSeq(b.out)
  BY <1>3, <1>5 DEF Encodes, EntriesOk
<1>8. PICK o : o = ToOpaque(e, a.cipher, a.chain)
  OBVIOUS
<1>9. /\ o.is = e.is /\ CipherAfter(o, a.cipher) = CipherAfter(e, a.cipher)
  BY <1>6, <1>8, OpaqueIs
<1>10. PICK a1 : a1 = EntriesToOpaque(chain, cipher, Keys, Append(g, e))
  OBVIOUS
<1>11. /\ a1.chain = NextChain(o, a.chain, a.cipher)
       /\ a1.cipher = CipherAfter(o, a.cipher)
       /\ a1.out = Append(a.out, o)
  BY <1>1, <1>5, <1>8, <1>10, ToOpaqueAppend
<1>12. NoSignatures(a1.out) =
          IF e.is = "signature" THEN NoSignatures(a.out) ELSE Append(NoSignatures(a.out), o)
  BY <1>6, <1>9, <1>11, NoSignaturesAppend
<1>13. CASE e.is = "signature"
  <2>1. a1.chain = a.chain /\ NoSignatures(Append(g, e)) = u
    BY <1>2, <1>5, <1>6, <1>9, <1>11, <1>13, NextChainIs, NoSignaturesAppend
  <2>2. a1.cipher = a.cipher
    BY <1>9, <1>11, <1>13 DEF CipherAfter
  <2> QED
    BY <1>3, <1>4, <1>10, <1>12, <1>13, <2>1, <2>2 DEF Links
<1>14. CASE e.is # "signature"
  <2>1. PICK u1 : u1 = Append(u, e)
    OBVIOUS
  <2>2. NoSignatures(Append(g, e)) = u1
    BY <1>2, <1>5, <1>14, <2>1, NoSignaturesAppend
  <2>3. NoSignatures(u1) = u1
    BY <1>4, <1>5, <1>14, <2>1, NoSignaturesAppend
  <2>4. /\ IsSeq(u1) /\ Len(u1) = Len(u) + 1 /\ u1 # <<>>
        /\ u1[Len(u) + 1] = e /\ Len(u) \in Nat
        /\ \A i \in 1 .. Len(u) : u1[i] = u[i]
    <3>1. Len(u) \in Nat
      BY <1>5, LengthIs
    <3> QED
      BY <1>5, <2>1, <3>1, AppendIs
  <2>5. EntriesOk(u1)
    BY <1>4, <1>5, <2>1, EntriesOkIs
  <2>6. Unsigned(u1)
    <3>1. 1 .. Len(u1) = (1 .. Len(u)) \cup {Len(u) + 1}
      BY <2>4
    <3> QED
      BY <1>4, <1>14, <2>4, <3>1 DEF Unsigned
  <2>7. PICK b1 : b1 = EntriesToOpaque(chain, cipher, Keys, u1)
    OBVIOUS
  <2>8. /\ b1.chain = NextChain(o, b.chain, b.cipher)
        /\ b1.cipher = CipherAfter(o, b.cipher)
        /\ b1.out = Append(b.out, o)
    <3>1. o = ToOpaque(e, b.cipher, b.chain)
      BY <1>4, <1>8
    <3>2. b1 = EntriesToOpaque(chain, cipher, Keys, Append(u, e))
      BY <2>1, <2>7
    <3> QED
      BY <1>3, <1>5, <3>1, <3>2, ToOpaqueAppend
  <2>9. VerifyOpaque(chain, cipher, b1.out).ok
    <3>1. PICK v : v = VerifyOpaque(chain, cipher, b.out)
      OBVIOUS
    <3>2. PICK w : w = VerifyOpaque(chain, cipher, Append(b.out, o))
      OBVIOUS
    <3>3. w.ok <=> v.ok /\ (o.is = "signature" => o.of = v.chain)
      BY <1>7, <3>1, <3>2, VerifyAppend
    <3> QED
      BY <1>4, <1>9, <1>14, <2>8, <3>1, <3>2, <3>3
  <2>10. Len(a1.chain) = Len(a.chain) + 1 /\ LastLink(a1.chain, CipherAfter(o, a.cipher))
    BY <1>6, <1>9, <1>11, <1>14, NextLink
  <2>11. LastLink(a1.chain, a1.cipher)
    BY <1>11, <2>10
  <2>12. Len(a1.chain) = Len(chain) + Len(u1)
    <3>1. Len(chain) \in Nat
      BY LengthIs
    <3> QED
      BY <1>4, <2>4, <2>10, <3>1
  <2>13. IsSeq(NoSignatures(a1.out)) /\ Len(NoSignatures(a1.out)) = Len(u1)
    <3>1. NoSignatures(a1.out) = Append(NoSignatures(a.out), o)
      BY <1>12, <1>14
    <3> QED
      BY <1>4, <2>4, <3>1, AppendIs
  <2>14. b1.chain = a1.chain /\ b1.cipher = a1.cipher
    BY <1>4, <1>11, <2>8
  <2> QED
    BY <1>10, <2>2, <2>3, <2>4, <2>5, <2>6, <2>7, <2>9, <2>11, <2>12, <2>13, <2>14 DEF Links
<1> QED
  BY <1>13, <1>14

\* What LinksOne says of one entry holds of a log.
LEMMA LinksAll ==
    ASSUME NEW chain, IsSeq(chain), NEW cipher \in Ciphers, NEW g, EntriesOk(g)
    PROVE  Links(chain, cipher, g)
<1> DEFINE P(u) == EntriesOk(u) => Links(chain, cipher, u)
           S == {n \in Nat : \A u : IsSeq(u) /\ Len(u) = n => P(u)}
<1>1. P(<<>>)
  <2>1. PICK start : start = [ok |-> TRUE, chain |-> chain, cipher |-> cipher, out |-> <<>>]
    OBVIOUS
  <2>2. /\ EntriesToOpaque(chain, cipher, Keys, <<>>) = start
        /\ VerifyOpaque(chain, cipher, <<>>) = start
        /\ NoSignatures(<<>>) = <<>>
    BY <2>1, NothingRead
  <2>3. start.ok /\ start.chain = chain /\ start.cipher = cipher /\ start.out = <<>>
    BY <2>1
  <2>4. IsSeq(<<>>) /\ Len(<<>>) = 0 /\ Len(chain) \in Nat /\ Unsigned(<<>>)
    BY LengthIs DEF Unsigned
  <2> QED
    BY <2>2, <2>3, <2>4, EntriesOkIs DEF Links
<1>2. ASSUME NEW u, NEW e, IsSeq(u), P(u) PROVE P(Append(u, e))
  BY <1>2, LinksOne, EntriesOkIs
<1> HIDE DEF P
<1>3. 0 \in S
  BY <1>1, LengthIs
<1>4. ASSUME NEW n \in Nat, n \in S PROVE n + 1 \in S
  <2> SUFFICES ASSUME NEW u, IsSeq(u), Len(u) = n + 1 PROVE P(u)
    OBVIOUS
  <2>1. u # <<>>
    BY LengthIs
  <2>2. PICK v, e : IsSeq(v) /\ u = Append(v, e) /\ Len(v) + 1 = Len(u)
    BY <2>1, Shorter
  <2>3. Len(v) = n
    BY <2>2, LengthIs
  <2> QED
    BY <1>2, <1>4, <2>2, <2>3
<1>5. Len(g) \in S
  <2> HIDE DEF S
  <2> QED
    BY <1>3, <1>4, ByInduction, LengthIs DEF EntriesOk
<1> QED
  BY <1>5 DEF P, EntriesOk

\* Whatever cipher is claimed at the start, a link tells.
LEMMA VerifiedCipher ==
    ASSUME NEW chain, IsSeq(chain), NEW cipher, NEW g, IsSeq(g), NoSignatures(g) # <<>>
    PROVE  LET v == VerifyOpaque(chain, cipher, g) IN LastLink(v.chain, v.cipher)
<1> DEFINE P(u) == LET v == VerifyOpaque(chain, cipher, u)
                   IN  /\ IsSeq(v.chain)
                       /\ NoSignatures(u) # <<>> => LastLink(v.chain, v.cipher)
           S == {n \in Nat : \A u : IsSeq(u) /\ Len(u) = n => P(u)}
<1>1. P(<<>>)
  <2>1. VerifyOpaque(chain, cipher, <<>>).chain = chain /\ NoSignatures(<<>>) = <<>>
    BY AlongNone DEF VerifyOpaque, NoSignatures, At
  <2> QED
    BY <2>1
<1>2. ASSUME NEW u, NEW e, IsSeq(u), P(u) PROVE P(Append(u, e))
  <2>1. PICK v : v = VerifyOpaque(chain, cipher, u)
    OBVIOUS
  <2>2. PICK w : w = VerifyOpaque(chain, cipher, Append(u, e))
    OBVIOUS
  <2>3. w.chain = NextChain(e, v.chain, v.cipher) /\ w.cipher = CipherAfter(e, v.cipher)
    BY <1>2, <2>1, <2>2, VerifyAppend
  <2>4. IsSeq(v.chain) /\ (NoSignatures(u) # <<>> => LastLink(v.chain, v.cipher))
    BY <1>2, <2>1
  <2>5. IsSeq(w.chain)
    BY <2>3, <2>4, NextChainIs
  <2>6. NoSignatures(Append(u, e)) # <<>> => LastLink(w.chain, w.cipher)
    <3>1. CASE e.is = "signature"
      <4>1. w.chain = v.chain /\ NoSignatures(Append(u, e)) = NoSignatures(u)
        BY <1>2, <2>3, <2>4, <3>1, NextChainIs, NoSignaturesAppend
      <4>2. w.cipher = v.cipher
        BY <2>3, <3>1 DEF CipherAfter
      <4> QED
        BY <2>4, <4>1, <4>2
    <3>2. CASE e.is # "signature"
      <4>1. LastLink(w.chain, CipherAfter(e, v.cipher))
        BY <2>3, <2>4, <3>2, NextLink
      <4> QED
        BY <2>3, <4>1
    <3> QED
      BY <3>1, <3>2
  <2> QED
    BY <2>2, <2>5, <2>6
<1> HIDE DEF P
<1>3. 0 \in S
  BY <1>1, LengthIs
<1>4. ASSUME NEW n \in Nat, n \in S PROVE n + 1 \in S
  <2> SUFFICES ASSUME NEW u, IsSeq(u), Len(u) = n + 1 PROVE P(u)
    OBVIOUS
  <2>1. u # <<>>
    BY LengthIs
  <2>2. PICK v, e : IsSeq(v) /\ u = Append(v, e) /\ Len(v) + 1 = Len(u)
    BY <2>1, Shorter
  <2>3. Len(v) = n
    BY <2>2, LengthIs
  <2> QED
    BY <1>2, <1>4, <2>2, <2>3
<1>5. Len(g) \in S
  <2> HIDE DEF S
  <2> QED
    BY <1>3, <1>4, ByInduction, LengthIs
<1> QED
  BY <1>5 DEF P

-----------------------------------------------------------------------------
(* Where a log starts, and where it goes on *)

\* The cipher before a change of the key does not matter.
LEMMA FirstCipher ==
    ASSUME NEW chain, NEW cipher \in Ciphers, NEW g, IsSeq(g), g # <<>>, g[1].is = "use_key"
    PROVE  /\ EntriesToOpaque(chain, NoCipher, Keys, g) = EntriesToOpaque(chain, cipher, Keys, g)
           /\ EntriesToPlaintext(chain, NoCipher, Keys, g) =
                 EntriesToPlaintext(chain, cipher, Keys, g)
           /\ VerifyOpaque(chain, NoCipher, g) = VerifyOpaque(chain, cipher, g)
           /\ EndCipher(NoCipher, g) = EndCipher(cipher, g)
<1> DEFINE Same(u) ==
              /\ EntriesToOpaque(chain, NoCipher, Keys, u) = EntriesToOpaque(chain, cipher, Keys, u)
              /\ EntriesToPlaintext(chain, NoCipher, Keys, u) =
                    EntriesToPlaintext(chain, cipher, Keys, u)
              /\ VerifyOpaque(chain, NoCipher, u) = VerifyOpaque(chain, cipher, u)
              /\ EndCipher(NoCipher, u) = EndCipher(cipher, u)
           P(u) == u # <<>> /\ u[1].is = "use_key" => Same(u)
           S == {n \in Nat : \A u : IsSeq(u) /\ Len(u) = n => P(u)}
<1>1. P(<<>>)
  OBVIOUS
<1>2. ASSUME NEW u, NEW e, IsSeq(u), P(u) PROVE P(Append(u, e))
  <2> SUFFICES ASSUME Append(u, e)[1].is = "use_key" PROVE Same(Append(u, e))
    OBVIOUS
  <2> DEFINE Read(way, start, known) ==
                Along(way, start, known, Append(u, e)) = One(way, Along(way, start, known, u), known, e)
  <2>1. \A way, start, known : Read(way, start, known)
    BY <1>2, AlongAppend
  <2>2. CASE u = <<>>
    <3>1. e.is = "use_key"
      BY <2>2, AppendIs, LengthIs
    <3>2. \A way, start, known : Along(way, start, known, u) = start
      BY <2>2, AlongNone
    <3>3. NoCipher \in Ciphers /\ {NoCipher} \cup {NoCipher} = {NoCipher}
          /\ cipher \in {cipher} \cup {NoCipher} /\ Ciphers = Keys \cup {NoCipher}
      BY DEF Ciphers
    <3>4. \A c \in {cipher, NoCipher} :
             /\ At(Keys, chain, c) = [ok |-> TRUE, chain |-> chain, cipher |-> c, out |-> <<>>]
             /\ At({c}, chain, c) = [ok |-> TRUE, chain |-> chain, cipher |-> c, out |-> <<>>]
      BY <3>3 DEF At
    <3>5. PICK s : s = [ok |-> TRUE, chain |-> chain, cipher |-> cipher, out |-> <<>>]
      OBVIOUS
    <3>6. PICK t : t = [ok |-> TRUE, chain |-> chain, cipher |-> NoCipher, out |-> <<>>]
      OBVIOUS
    <3>7. /\ s.ok = TRUE /\ s.chain = chain /\ s.out = <<>>
          /\ t.ok = TRUE /\ t.chain = chain /\ t.out = <<>>
      BY <3>5, <3>6
    <3>8. /\ \A ok, o, out : Advance(s, ok, e, out) = Advance(t, ok, e, out)
          /\ \A c, ch : ToOpaque(e, c, ch) = e /\ ToPlaintext(e, c, ch) = e
          /\ CipherAfter(e, s.cipher) = e.key /\ CipherAfter(e, t.cipher) = e.key
          /\ CipherAfter(e, cipher) = e.key /\ CipherAfter(e, NoCipher) = e.key
      BY <3>1, <3>7 DEF Advance, NextChain, CipherAfter, ToOpaque, ToPlaintext
    <3>9. OneToOpaque(s, Keys, e) = OneToOpaque(t, Keys, e)
      BY <3>7, <3>8 DEF OneToOpaque, Resolved
    <3>10. OneToPlaintext(s, Keys, e) = OneToPlaintext(t, Keys, e)
      BY <3>7, <3>8 DEF OneToPlaintext, Resolved
    <3>11. OneVerified(s, e) = OneVerified(t, e)
      BY <3>7, <3>8 DEF OneVerified
    <3>12. /\ \A a : One("to_opaque", a, Keys, e) = OneToOpaque(a, Keys, e)
           /\ \A a : One("to_plaintext", a, Keys, e) = OneToPlaintext(a, Keys, e)
           /\ \A a : One("verify", a, {}, e) = OneVerified(a, e)
           /\ \A a : One("cipher", a, {}, e) = CipherAfter(e, a)
      BY DEF One
    <3>17. /\ At(Keys, chain, cipher) = s /\ At(Keys, chain, NoCipher) = t
           /\ At({cipher}, chain, cipher) = s /\ At({NoCipher}, chain, NoCipher) = t
      BY <3>4, <3>5, <3>6
    <3>18. \A way, start, known : Along(way, start, known, Append(u, e)) = One(way, start, known, e)
      BY <2>1, <3>2
    <3>13. /\ EntriesToOpaque(chain, cipher, Keys, Append(u, e)) = OneToOpaque(s, Keys, e)
           /\ EntriesToOpaque(chain, NoCipher, Keys, Append(u, e)) = OneToOpaque(t, Keys, e)
      BY <3>12, <3>17, <3>18 DEF EntriesToOpaque
    <3>14. /\ EntriesToPlaintext(chain, cipher, Keys, Append(u, e)) = OneToPlaintext(s, Keys, e)
           /\ EntriesToPlaintext(chain, NoCipher, Keys, Append(u, e)) = OneToPlaintext(t, Keys, e)
      BY <3>12, <3>17, <3>18 DEF EntriesToPlaintext
    <3>15. /\ VerifyOpaque(chain, cipher, Append(u, e)) = OneVerified(s, e)
           /\ VerifyOpaque(chain, NoCipher, Append(u, e)) = OneVerified(t, e)
      BY <3>12, <3>17, <3>18 DEF VerifyOpaque
    <3>16. EndCipher(cipher, Append(u, e)) = e.key /\ EndCipher(NoCipher, Append(u, e)) = e.key
      BY <3>8, <3>12, <3>18 DEF EndCipher
    <3> QED
      BY <3>9, <3>10, <3>11, <3>13, <3>14, <3>15, <3>16
  <2>3. CASE u # <<>>
    <3>1. Len(u) \in Nat /\ Len(u) # 0
      BY <1>2, <2>3, LengthIs
    <3>2. 1 \in 1 .. Len(u)
      BY <3>1
    <3>3. u[1].is = "use_key"
      BY <1>2, <3>2, AppendIs
    <3>4. Same(u)
      BY <1>2, <2>3, <3>3
    <3> QED
      BY <2>1, <3>4 DEF EntriesToOpaque, EntriesToPlaintext, VerifyOpaque, EndCipher
  <2> QED
    BY <2>2, <2>3
<1> HIDE DEF P
<1>3. 0 \in S
  BY <1>1, LengthIs
<1>4. ASSUME NEW n \in Nat, n \in S PROVE n + 1 \in S
  <2> SUFFICES ASSUME NEW u, IsSeq(u), Len(u) = n + 1 PROVE P(u)
    OBVIOUS
  <2>1. u # <<>>
    BY LengthIs
  <2>2. PICK v, e : IsSeq(v) /\ u = Append(v, e) /\ Len(v) + 1 = Len(u)
    BY <2>1, Shorter
  <2>3. Len(v) = n
    BY <2>2, LengthIs
  <2> QED
    BY <1>2, <1>4, <2>2, <2>3
<1>5. Len(g) \in S
  <2> HIDE DEF S
  <2> QED
    BY <1>3, <1>4, ByInduction, LengthIs
<1>6. P(g)
  BY <1>5
<1> QED
  BY <1>6 DEF P

EncryptedOn(a, b, c) == c.chain = b.chain /\ c.cipher = b.cipher /\ c.out = a.out \o b.out

\* What follows goes on where the entries before it ended.
LEMMA GoesOn ==
    ASSUME NEW chain, IsSeq(chain), NEW cipher \in Ciphers, NEW s, EntriesOk(s), NEW t, IsSeq(t),
           EntriesOk(t),
           NEW a, a = EntriesToOpaque(chain, cipher, Keys, s)
    PROVE  EncryptedOn(a, EntriesToOpaque(a.chain, a.cipher, Keys, t),
                       EntriesToOpaque(chain, cipher, Keys, s \o t))
<1>a. a.cipher \in Ciphers /\ IsSeq(a.chain) /\ IsSeq(a.out) /\ IsSeq(s)
  <2>1. Encodes(chain, cipher, s)
    BY EncodesAll
  <2> QED
    BY <2>1 DEF Encodes, EntriesOk
<1>b. PICK ao : ao = a.out /\ IsSeq(ao)
  BY <1>a
<1> DEFINE On(u) == EntriesToOpaque(a.chain, a.cipher, Keys, u)
           All(u) == EntriesToOpaque(chain, cipher, Keys, s \o u)
           P(u) == EntriesOk(u) => /\ All(u).chain = On(u).chain
                                   /\ All(u).cipher = On(u).cipher
                                   /\ All(u).out = a.out \o On(u).out
           S == {n \in Nat : \A u : IsSeq(u) /\ Len(u) = n => P(u)}
<1>1. P(<<>>)
  <2>1. s \o <<>> = s /\ a.out \o <<>> = a.out
    BY <1>a, ConcatIs, LengthIs
  <2>2. On(<<>>) = [ok |-> TRUE, chain |-> a.chain, cipher |-> a.cipher, out |-> <<>>]
    BY <1>a, NothingRead
  <2>3. All(<<>>) = a
    BY <2>1
  <2> HIDE DEF On, All
  <2>4. On(<<>>).chain = a.chain /\ On(<<>>).cipher = a.cipher /\ On(<<>>).out = <<>>
    BY <2>2
  <2>5. a.out = a.out \o On(<<>>).out
    BY <2>1, <2>4
  <2> QED
    BY <2>3, <2>4, <2>5
<1>2. ASSUME NEW u, NEW e, IsSeq(u), P(u) PROVE P(Append(u, e))
  <2> SUFFICES ASSUME EntriesOk(Append(u, e))
               PROVE  /\ All(Append(u, e)).chain = On(Append(u, e)).chain
                      /\ All(Append(u, e)).cipher = On(Append(u, e)).cipher
                      /\ All(Append(u, e)).out = a.out \o On(Append(u, e)).out
    OBVIOUS
  <2>1. EntriesOk(u) /\ Entry(e)
    BY <1>2, EntriesOkIs
  <2>2. PICK x : x = On(u)
    OBVIOUS
  <2>3. PICK y : y = All(u)
    OBVIOUS
  <2>4. y.chain = x.chain /\ y.cipher = x.cipher /\ y.out = a.out \o x.out
    BY <1>2, <2>1, <2>2, <2>3
  <2>5. PICK o : o = ToOpaque(e, x.cipher, x.chain)
    OBVIOUS
  <2>6. IsSeq(s \o u) /\ s \o Append(u, e) = Append(s \o u, e)
    BY <1>2, <1>a, ConcatIs, ConcatAppend
  <2>7. PICK x1 : x1 = On(Append(u, e))
    OBVIOUS
  <2>8. PICK y1 : y1 = All(Append(u, e))
    OBVIOUS
  <2>9. /\ x1.chain = NextChain(o, x.chain, x.cipher) /\ x1.cipher = CipherAfter(o, x.cipher)
        /\ x1.out = Append(x.out, o)
    BY <1>2, <2>2, <2>5, <2>7, ToOpaqueAppend
  <2>10. /\ y1.chain = NextChain(o, y.chain, y.cipher) /\ y1.cipher = CipherAfter(o, y.cipher)
         /\ y1.out = Append(y.out, o)
    <3>1. y1 = EntriesToOpaque(chain, cipher, Keys, Append(s \o u, e))
      BY <2>6, <2>8
    <3>2. o = ToOpaque(e, y.cipher, y.chain)
      BY <2>4, <2>5
    <3> QED
      BY <2>3, <2>6, <3>1, <3>2, ToOpaqueAppend
  <2>11. IsSeq(x.out)
    <3>1. Encodes(a.chain, a.cipher, u)
      BY <1>a, <2>1, EncodesAll
    <3> QED
      BY <2>2, <3>1 DEF Encodes, EntriesOk
  <2>12. y1.out = a.out \o x1.out
    <3>1. PICK xo : xo = x.out /\ IsSeq(xo)
      BY <2>11
    <3>3. IsSeq(ao) /\ IsSeq(xo)
      BY <1>b, <3>1
    <3>2. ao \o Append(xo, o) = Append(ao \o xo, o)
      BY <3>3, ConcatAppend
    <3> QED
      BY <1>b, <2>4, <2>9, <2>10, <3>1, <3>2
  <2> QED
    BY <2>4, <2>7, <2>8, <2>9, <2>10, <2>12
<1> HIDE DEF P
<1>3. 0 \in S
  BY <1>1, LengthIs
<1>4. ASSUME NEW n \in Nat, n \in S PROVE n + 1 \in S
  <2> SUFFICES ASSUME NEW u, IsSeq(u), Len(u) = n + 1 PROVE P(u)
    OBVIOUS
  <2>1. u # <<>>
    BY LengthIs
  <2>2. PICK v, e : IsSeq(v) /\ u = Append(v, e) /\ Len(v) + 1 = Len(u)
    BY <2>1, Shorter
  <2>3. Len(v) = n
    BY <2>2, LengthIs
  <2> QED
    BY <1>2, <1>4, <2>2, <2>3
<1>5. Len(t) \in S
  <2> HIDE DEF S
  <2> QED
    BY <1>3, <1>4, ByInduction, LengthIs
<1>6. P(t)
  BY <1>5
<1> QED
  BY <1>6 DEF P, EncryptedOn

\* What one entry more does to a verification.
Verified(x, e, y) ==
    /\ y.ok <=> x.ok /\ (e.is = "signature" => e.of = x.chain)
    /\ y.chain = NextChain(e, x.chain, x.cipher)
    /\ y.cipher = CipherAfter(e, x.cipher)

\* That is what one entry does.
LEMMA VerifiedIs ==
    ASSUME NEW chain, NEW cipher, NEW g, IsSeq(g), NEW e
    PROVE  Verified(VerifyOpaque(chain, cipher, g), e, VerifyOpaque(chain, cipher, Append(g, e)))
<1>1. PICK a : a = VerifyOpaque(chain, cipher, g)
  OBVIOUS
<1>2. PICK b : b = VerifyOpaque(chain, cipher, Append(g, e))
  OBVIOUS
<1>3. Verified(a, e, b)
  BY <1>1, <1>2, VerifyAppend DEF Verified
<1> QED
  BY <1>1, <1>2, <1>3

\* The step of the induction over the entries that follow.
LEMMA VerifyGoesOnOne ==
    ASSUME NEW x, NEW x1, NEW y, NEW y1, NEW e, NEW ok,
           Verified(x, e, x1), Verified(y, e, y1),
           y.chain = x.chain, y.cipher = x.cipher, y.ok <=> ok /\ x.ok
    PROVE  y1.chain = x1.chain /\ y1.cipher = x1.cipher /\ (y1.ok <=> ok /\ x1.ok)
  BY DEF Verified

\* Verifying two pieces one after the other verifies the whole.
LEMMA VerifyGoesOn ==
    ASSUME NEW chain, NEW cipher, NEW s, IsSeq(s), NEW t, IsSeq(t),
           NEW a, a = VerifyOpaque(chain, cipher, s),
           NEW b, b = VerifyOpaque(a.chain, a.cipher, t),
           NEW c, c = VerifyOpaque(chain, cipher, s \o t)
    PROVE  c.chain = b.chain /\ c.cipher = b.cipher /\ (c.ok <=> a.ok /\ b.ok)
<1> DEFINE On(u) == VerifyOpaque(a.chain, a.cipher, u)
           All(u) == VerifyOpaque(chain, cipher, s \o u)
           P(u) == /\ All(u).chain = On(u).chain
                   /\ All(u).cipher = On(u).cipher
                   /\ All(u).ok <=> a.ok /\ On(u).ok
           S == {n \in Nat : \A u : IsSeq(u) /\ Len(u) = n => P(u)}
<1>1. P(<<>>)
  <2>1. s \o <<>> = s
    BY ConcatIs, LengthIs
  <2>2. On(<<>>) = [ok |-> TRUE, chain |-> a.chain, cipher |-> a.cipher, out |-> <<>>]
    <3>1. On(<<>>) = At({a.cipher}, a.chain, a.cipher)
      BY AlongNone DEF VerifyOpaque
    <3> QED
      BY <3>1 DEF At
  <2>3. All(<<>>) = a
    BY <2>1
  <2> HIDE DEF On, All
  <2>4. On(<<>>).chain = a.chain /\ On(<<>>).cipher = a.cipher /\ On(<<>>).ok
    BY <2>2
  <2> QED
    BY <2>3, <2>4
<1>2. ASSUME NEW u, NEW e, IsSeq(u), P(u) PROVE P(Append(u, e))
  <2>1. IsSeq(s \o u) /\ s \o Append(u, e) = Append(s \o u, e)
    BY <1>2, ConcatIs, ConcatAppend
  <2>2. Verified(All(u), e, All(Append(u, e)))
    <3> HIDE DEF Verified
    <3> QED
      BY <2>1, VerifiedIs
  <2>3. Verified(On(u), e, On(Append(u, e)))
    BY <1>2, VerifiedIs
  <2> HIDE DEF On, All
  <2> QED
    BY <1>2, <2>2, <2>3, VerifyGoesOnOne
<1> HIDE DEF P
<1>3. 0 \in S
  BY <1>1, LengthIs
<1>4. ASSUME NEW n \in Nat, n \in S PROVE n + 1 \in S
  <2> SUFFICES ASSUME NEW u, IsSeq(u), Len(u) = n + 1 PROVE P(u)
    OBVIOUS
  <2>1. u # <<>>
    BY LengthIs
  <2>2. PICK v, e : IsSeq(v) /\ u = Append(v, e) /\ Len(v) + 1 = Len(u)
    BY <2>1, Shorter
  <2>3. Len(v) = n
    BY <2>2, LengthIs
  <2> QED
    BY <1>2, <1>4, <2>2, <2>3
<1>5. Len(t) \in S
  <2> HIDE DEF S
  <2> QED
    BY <1>3, <1>4, ByInduction, LengthIs
<1>6. P(t)
  BY <1>5
<1> QED
  BY <1>6 DEF P

\* What is left of two pieces without signatures is left of the whole.
LEMMA NoSignaturesConcat ==
    ASSUME NEW s, EntriesOk(s), NEW t, EntriesOk(t)
    PROVE  NoSignatures(s \o t) = NoSignatures(s) \o NoSignatures(t)
<1>a. IsSeq(s) /\ IsSeq(t)
  BY DEF EntriesOk
<1>b. \A g : EntriesOk(g) => IsSeq(NoSignatures(g))
  <2> SUFFICES ASSUME NEW g, EntriesOk(g) PROVE IsSeq(NoSignatures(g))
    OBVIOUS
  <2>1. Links(EmptyChain, NoCipher, g)
    BY LinksAll, LengthIs DEF EmptyChain, Ciphers
  <2> QED
    BY <2>1 DEF Links, EntriesOk
<1> DEFINE P(u) == EntriesOk(u) => NoSignatures(s \o u) = NoSignatures(s) \o NoSignatures(u)
           S == {n \in Nat : \A u : IsSeq(u) /\ Len(u) = n => P(u)}
<1>1. P(<<>>)
  <2>1. NoSignatures(<<>>) = <<>>
    BY AlongNone DEF NoSignatures
  <2> QED
    BY <1>a, <1>b, <2>1, ConcatIs, LengthIs
<1>2. ASSUME NEW u, NEW e, IsSeq(u), P(u) PROVE P(Append(u, e))
  <2> SUFFICES ASSUME EntriesOk(Append(u, e))
               PROVE  NoSignatures(s \o Append(u, e)) = NoSignatures(s) \o NoSignatures(Append(u, e))
    OBVIOUS
  <2>1. EntriesOk(u)
    BY <1>2, EntriesOkIs
  <2>2. IsSeq(s \o u) /\ s \o Append(u, e) = Append(s \o u, e)
    BY <1>2, <1>a, ConcatIs, ConcatAppend
  <2>3. NoSignatures(s \o u) = NoSignatures(s) \o NoSignatures(u)
    BY <1>2, <2>1
  <2>4. IsSeq(NoSignatures(s)) /\ IsSeq(NoSignatures(u))
    BY <1>b, <2>1
  <2>5. NoSignatures(Append(s \o u, e)) =
           IF e.is = "signature" THEN NoSignatures(s \o u) ELSE Append(NoSignatures(s \o u), e)
    BY <2>2, NoSignaturesAppend
  <2>6. NoSignatures(Append(u, e)) =
           IF e.is = "signature" THEN NoSignatures(u) ELSE Append(NoSignatures(u), e)
    BY <1>2, NoSignaturesAppend
  <2>7. NoSignatures(s) \o Append(NoSignatures(u), e) =
           Append(NoSignatures(s) \o NoSignatures(u), e)
    BY <2>4, ConcatAppend
  <2>8. CASE e.is = "signature"
    BY <2>2, <2>3, <2>5, <2>6, <2>8
  <2>9. CASE e.is # "signature"
    <3>1. NoSignatures(s \o Append(u, e)) = Append(NoSignatures(s) \o NoSignatures(u), e)
      BY <2>2, <2>3, <2>5, <2>9
    <3>2. NoSignatures(Append(u, e)) = Append(NoSignatures(u), e)
      BY <2>6, <2>9
    <3> QED
      BY <2>7, <3>1, <3>2
  <2> QED
    BY <2>8, <2>9
<1> HIDE DEF P
<1>3. 0 \in S
  BY <1>1, LengthIs
<1>4. ASSUME NEW n \in Nat, n \in S PROVE n + 1 \in S
  <2> SUFFICES ASSUME NEW u, IsSeq(u), Len(u) = n + 1 PROVE P(u)
    OBVIOUS
  <2>1. u # <<>>
    BY LengthIs
  <2>2. PICK v, e : IsSeq(v) /\ u = Append(v, e) /\ Len(v) + 1 = Len(u)
    BY <2>1, Shorter
  <2>3. Len(v) = n
    BY <2>2, LengthIs
  <2> QED
    BY <1>2, <1>4, <2>2, <2>3
<1>5. Len(t) \in S
  <2> HIDE DEF S
  <2> QED
    BY <1>3, <1>4, <1>a, ByInduction, LengthIs
<1>6. P(t)
  BY <1>a, <1>5
<1> QED
  BY <1>6 DEF P

\* A well-formed log after a well-formed log is one.
LEMMA EntriesOkConcat ==
    ASSUME NEW s, NEW t, EntriesOk(s), EntriesOk(t)
    PROVE  EntriesOk(s \o t)
<1>1. IsSeq(s) /\ IsSeq(t) /\ Len(s) \in Nat /\ Len(t) \in Nat
  BY LengthIs DEF EntriesOk
<1>2. /\ IsSeq(s \o t) /\ Len(s \o t) = Len(s) + Len(t)
      /\ \A i \in 1 .. Len(s) : (s \o t)[i] = s[i]
      /\ \A i \in 1 .. Len(t) : (s \o t)[Len(s) + i] = t[i]
  BY <1>1, ConcatIs
<1>3. ASSUME NEW n \in 1 .. Len(s) + Len(t) PROVE Entry((s \o t)[n])
  <2>1. CASE n \in 1 .. Len(s)
    BY <1>2, <2>1 DEF EntriesOk
  <2>2. CASE n \notin 1 .. Len(s)
    <3>1. PICK i \in 1 .. Len(t) : n = Len(s) + i
      <4>1. n - Len(s) \in 1 .. Len(t) /\ n = Len(s) + (n - Len(s))
        BY <1>1, <2>2
      <4> QED
        BY <4>1
    <3> QED
      BY <1>2, <3>1 DEF EntriesOk
  <2> QED
    BY <2>1, <2>2
<1> QED
  BY <1>2, <1>3 DEF EntriesOk

-----------------------------------------------------------------------------
(* From one place in the log to another *)

Place(S) == IsSeq(S.chain) /\ S.cipher \in Ciphers

Opaque(S, g) == EntriesToOpaque(S.chain, S.cipher, Keys, g)

\* The entries g lead from S to E, and the signatures among them verify.
Leads(S, g, E) ==
    /\ EntriesOk(g)
    /\ Opaque(S, g).chain = E.chain
    /\ Opaque(S, g).cipher = E.cipher
    /\ VerifyOpaque(S.chain, S.cipher, Opaque(S, g).out).ok

\* What one entry more, or a log more, does to an opaque form.
Encrypted(a, e, b) ==
    /\ b.chain = NextChain(ToOpaque(e, a.cipher, a.chain), a.chain, a.cipher)
    /\ b.cipher = CipherAfter(ToOpaque(e, a.cipher, a.chain), a.cipher)
    /\ b.out = Append(a.out, ToOpaque(e, a.cipher, a.chain))

\* That is what one entry does.
LEMMA EncryptedIs ==
    ASSUME NEW chain, NEW cipher, NEW g, IsSeq(g), NEW e
    PROVE  Encrypted(EntriesToOpaque(chain, cipher, Keys, g), e,
                     EntriesToOpaque(chain, cipher, Keys, Append(g, e)))
<1>1. PICK a : a = EntriesToOpaque(chain, cipher, Keys, g)
  OBVIOUS
<1>2. PICK b : b = EntriesToOpaque(chain, cipher, Keys, Append(g, e))
  OBVIOUS
<1>3. PICK o : o = ToOpaque(e, a.cipher, a.chain)
  OBVIOUS
<1>4. /\ b.chain = NextChain(o, a.chain, a.cipher)
      /\ b.cipher = CipherAfter(o, a.cipher)
      /\ b.out = Append(a.out, o)
  BY <1>1, <1>2, <1>3, ToOpaqueAppend
<1>5. Encrypted(a, e, b)
  BY <1>3, <1>4 DEF Encrypted
<1> QED
  BY <1>1, <1>2, <1>5

\* Without an entry nothing moves.
LEMMA LeadsNowhere ==
    ASSUME NEW S, Place(S)
    PROVE  Leads(S, <<>>, S)
<1>1. PICK s : s = [ok |-> TRUE, chain |-> S.chain, cipher |-> S.cipher, out |-> <<>>]
  OBVIOUS
<1>2. Opaque(S, <<>>) = s /\ VerifyOpaque(S.chain, S.cipher, <<>>) = s
  BY <1>1, NothingRead DEF Place, Opaque
<1>3. s.chain = S.chain /\ s.cipher = S.cipher /\ s.out = <<>> /\ s.ok
  BY <1>1
<1> QED
  BY <1>2, <1>3, EntriesOkIs DEF Leads

\* One entry leads on by its opaque form; a signature has to be the chain's.
LEMMA LeadsOne ==
    ASSUME NEW S, Place(S), NEW e, Entry(e), e.is = "signature" => e.of = S.chain
    PROVE  /\ Leads(S, <<e>>, Opaque(S, <<e>>))
           /\ Place(Opaque(S, <<e>>))
<1>1. IsSeq(<<>>) /\ <<e>> = Append(<<>>, e) /\ EntriesOk(<<>>)
  BY LengthIs, EntriesOkIs
<1>2. EntriesOk(<<e>>)
  BY <1>1, EntriesOkIs
<1>3. Encodes(S.chain, S.cipher, <<e>>)
  BY <1>2, EncodesAll DEF Place
<1>4. PICK s : s = [ok |-> TRUE, chain |-> S.chain, cipher |-> S.cipher, out |-> <<>>]
  OBVIOUS
<1>5. Opaque(S, <<>>) = s /\ VerifyOpaque(S.chain, S.cipher, <<>>) = s
  BY <1>4, NothingRead DEF Place, Opaque
<1>6. s.chain = S.chain /\ s.cipher = S.cipher /\ s.out = <<>> /\ s.ok
  BY <1>4
<1>7. PICK o : o = ToOpaque(e, S.cipher, S.chain)
  OBVIOUS
<1>8. PICK b : b = EntriesToOpaque(S.chain, S.cipher, Keys, Append(<<>>, e))
  OBVIOUS
<1>9. Encrypted(s, e, b)
  BY <1>1, <1>5, <1>8, EncryptedIs DEF Opaque
<1>12. b.out = Append(<<>>, o)
  BY <1>6, <1>7, <1>9 DEF Encrypted
<1>13. b.out = Append(<<>>, o) /\ b = Opaque(S, <<e>>)
  BY <1>1, <1>8, <1>12 DEF Opaque
<1>14. Verified(s, o, VerifyOpaque(S.chain, S.cipher, Append(<<>>, o)))
  BY <1>1, <1>5, VerifiedIs
<1>15. o.is = "signature" => o.of = S.chain
  <2>1. o.is = e.is /\ (o.is = "signature" => o = e)
    BY <1>7, OpaqueIs DEF Place
  <2> QED
    BY <2>1
<1>16. VerifyOpaque(S.chain, S.cipher, b.out).ok
  BY <1>6, <1>13, <1>14, <1>15 DEF Verified
<1>17. Place(Opaque(S, <<e>>))
  BY <1>3 DEF Encodes, Place, Opaque
<1> QED
  BY <1>2, <1>13, <1>16, <1>17 DEF Leads

\* The entries of a log and their opaque form are of the same kinds.
LEMMA OpaqueOk ==
    ASSUME NEW S, Place(S), NEW g, EntriesOk(g)
    PROVE  /\ Opaque(S, g).ok /\ Place(Opaque(S, g))
           /\ EntriesOk(Opaque(S, g).out) /\ Len(Opaque(S, g).out) = Len(g)
           /\ VerifyOpaque(S.chain, S.cipher, Opaque(S, g).out).chain = Opaque(S, g).chain
           /\ VerifyOpaque(S.chain, S.cipher, Opaque(S, g).out).cipher = Opaque(S, g).cipher
           /\ EndCipher(S.cipher, g) = Opaque(S, g).cipher
<1>1. Encodes(S.chain, S.cipher, g)
  BY EncodesAll DEF Place
<1> QED
  BY <1>1 DEF Encodes, Place, Opaque

\* From S to M and from M to E is from S to E.
LEMMA LeadsConcat ==
    ASSUME NEW S, Place(S), NEW M, Place(M), NEW E, NEW s, Leads(S, s, M), NEW t, Leads(M, t, E)
    PROVE  Leads(S, s \o t, E)
<1>1. EntriesOk(s) /\ EntriesOk(t)
  BY DEF Leads
<1>2. EntriesOk(s \o t)
  BY <1>1, EntriesOkConcat
<1>3. PICK a : a = Opaque(S, s)
  OBVIOUS
<1>4. PICK b : b = Opaque(M, t)
  OBVIOUS
<1>5. PICK c : c = Opaque(S, s \o t)
  OBVIOUS
<1>6. /\ a.chain = M.chain /\ a.cipher = M.cipher
      /\ b.chain = E.chain /\ b.cipher = E.cipher
  BY <1>3, <1>4 DEF Leads
<1>7. c.chain = b.chain /\ c.cipher = b.cipher /\ c.out = a.out \o b.out
  <2>2. EncryptedOn(a, EntriesToOpaque(a.chain, a.cipher, Keys, t), c)
    <3>1. IsSeq(t)
      BY <1>1 DEF EntriesOk
    <3> QED
      BY <1>1, <1>3, <1>5, <3>1, GoesOn DEF Opaque, Place
  <2>1. EncryptedOn(a, b, c)
    BY <1>4, <1>6, <2>2 DEF Opaque
  <2> QED
    BY <2>1 DEF EncryptedOn
<1>8. PICK v : v = VerifyOpaque(S.chain, S.cipher, a.out)
  OBVIOUS
<1>9. v.ok /\ v.chain = M.chain /\ v.cipher = M.cipher
  BY <1>1, <1>3, <1>6, <1>8, OpaqueOk DEF Leads
<1>10. PICK w : w = VerifyOpaque(v.chain, v.cipher, b.out)
  OBVIOUS
<1>11. w.ok
  BY <1>4, <1>9, <1>10 DEF Leads
<1>12. IsSeq(a.out) /\ IsSeq(b.out)
  BY <1>1, <1>3, <1>4, OpaqueOk DEF EntriesOk
<1>13. PICK x : x = VerifyOpaque(S.chain, S.cipher, a.out \o b.out)
  OBVIOUS
<1>14. x.ok <=> v.ok /\ w.ok
  BY <1>8, <1>10, <1>12, <1>13, VerifyGoesOn
<1>15. VerifyOpaque(S.chain, S.cipher, c.out).ok
  BY <1>7, <1>9, <1>11, <1>13, <1>14
<1> QED
  BY <1>2, <1>5, <1>6, <1>7, <1>15 DEF Leads

\* Signatures lead nowhere: without them the entries lead to the same place.
LEMMA LeadsUnsigned ==
    ASSUME NEW S, Place(S), NEW E, NEW g, Leads(S, g, E)
    PROVE  /\ Leads(S, NoSignatures(g), E)
           /\ NoSignatures(NoSignatures(g)) = NoSignatures(g)
           /\ EntriesOk(NoSignatures(g)) /\ Unsigned(NoSignatures(g))
           /\ Len(E.chain) = Len(S.chain) + Len(NoSignatures(g))
           /\ NoSignatures(g) = <<>> => E.chain = S.chain /\ E.cipher = S.cipher
           /\ NoSignatures(g) # <<>> => LastLink(E.chain, E.cipher)
           /\ IsSeq(NoSignatures(Opaque(S, g).out))
           /\ Len(NoSignatures(Opaque(S, g).out)) = Len(NoSignatures(g))
<1>1. Links(S.chain, S.cipher, g)
  BY LinksAll DEF Leads, Place
<1> QED
  BY <1>1 DEF Links, Leads, Opaque

-----------------------------------------------------------------------------
(* What a header leaves out *)

SetsFirst(g) == g # <<>> /\ g[1].is = "use_key"

\* Whether the first entry sets the cipher is decided by the first entry.
LEMMA SetsFirstAppend ==
    ASSUME NEW g, IsSeq(g), NEW e
    PROVE  SetsFirst(Append(g, e)) <=> IF g = <<>> THEN e.is = "use_key" ELSE SetsFirst(g)
<1>1. Append(g, e) # <<>>
  BY AppendIs
<1>2. CASE g = <<>>
  <2>1. Append(g, e)[1] = e
    <3>1. Len(g) = 0
      BY <1>2, LengthIs
    <3>2. Append(g, e)[Len(g) + 1] = e
      BY AppendIs
    <3> QED
      BY <3>1, <3>2
  <2> QED
    BY <1>1, <1>2, <2>1 DEF SetsFirst
<1>3. CASE g # <<>>
  <2>1. 1 \in 1 .. Len(g)
    BY <1>3, LengthIs
  <2>2. Append(g, e)[1] = g[1]
    BY <2>1, AppendIs
  <2> QED
    BY <1>1, <1>3, <2>2 DEF SetsFirst
<1> QED
  BY <1>2, <1>3

\* A change of the key stays what it is, and a join keeps it.
LEMMA SetsFirstOpaque ==
    ASSUME NEW S, Place(S), NEW g, EntriesOk(g)
    PROVE  /\ SetsFirst(Opaque(S, g).out) <=> SetsFirst(g)
           /\ \A n \in 1 .. Len(g) : Opaque(S, g).out[n].is = g[n].is
<1> DEFINE out(u) == Opaque(S, u).out
           P(u) == EntriesOk(u) => /\ IsSeq(out(u)) /\ Len(out(u)) = Len(u)
                                   /\ \A n \in 1 .. Len(u) : out(u)[n].is = u[n].is
           S1 == {n \in Nat : \A u : IsSeq(u) /\ Len(u) = n => P(u)}
<1>1. P(<<>>)
  BY OpaqueOk, LengthIs DEF EntriesOk
<1>2. ASSUME NEW u, NEW e, IsSeq(u), P(u) PROVE P(Append(u, e))
  <2> SUFFICES ASSUME EntriesOk(Append(u, e))
               PROVE  \A n \in 1 .. Len(Append(u, e)) : out(Append(u, e))[n].is = Append(u, e)[n].is
    BY OpaqueOk DEF EntriesOk
  <2>1. EntriesOk(u) /\ Entry(e) /\ Place(Opaque(S, u))
    BY <1>2, EntriesOkIs, OpaqueOk
  <2>2. PICK a : a = Opaque(S, u)
    OBVIOUS
  <2>3. PICK o : o = ToOpaque(e, a.cipher, a.chain)
    OBVIOUS
  <2>4. o.is = e.is
    BY <2>1, <2>2, <2>3, OpaqueIs DEF Place
  <2>5. out(Append(u, e)) = Append(out(u), o)
    <3>1. Encrypted(Opaque(S, u), e, Opaque(S, Append(u, e)))
      BY <1>2, EncryptedIs DEF Opaque
    <3> HIDE DEF Opaque
    <3> QED
      BY <2>2, <2>3, <3>1 DEF Encrypted
  <2>6. PICK x : x = out(u)
    OBVIOUS
  <2>7. IsSeq(x) /\ Len(x) = Len(u) /\ (\A n \in 1 .. Len(u) : x[n].is = u[n].is) /\ Len(u) \in Nat
    BY <1>2, <2>1, <2>6, LengthIs
  <2>8. /\ Len(Append(u, e)) = Len(u) + 1
        /\ Append(u, e)[Len(u) + 1] = e /\ Append(x, o)[Len(u) + 1] = o
        /\ \A n \in 1 .. Len(u) : Append(u, e)[n] = u[n] /\ Append(x, o)[n] = x[n]
    BY <1>2, <2>7, AppendIs
  <2>9. 1 .. Len(u) + 1 = (1 .. Len(u)) \cup {Len(u) + 1}
    BY <2>7
  <2>10. \A n \in 1 .. Len(Append(u, e)) : Append(x, o)[n].is = Append(u, e)[n].is
    BY <2>4, <2>7, <2>8, <2>9
  <2> QED
    BY <2>5, <2>6, <2>10
<1> HIDE DEF P
<1>3. 0 \in S1
  BY <1>1, LengthIs
<1>4. ASSUME NEW n \in Nat, n \in S1 PROVE n + 1 \in S1
  <2> SUFFICES ASSUME NEW u, IsSeq(u), Len(u) = n + 1 PROVE P(u)
    OBVIOUS
  <2>1. u # <<>>
    BY LengthIs
  <2>2. PICK v, e : IsSeq(v) /\ u = Append(v, e) /\ Len(v) + 1 = Len(u)
    BY <2>1, Shorter
  <2>3. Len(v) = n
    BY <2>2, LengthIs
  <2> QED
    BY <1>2, <1>4, <2>2, <2>3
<1>5. Len(g) \in S1
  <2> HIDE DEF S1
  <2> QED
    BY <1>3, <1>4, ByInduction, LengthIs DEF EntriesOk
<1>6. P(g)
  BY <1>5 DEF EntriesOk
<1>7. IsSeq(out(g)) /\ Len(out(g)) = Len(g) /\ \A n \in 1 .. Len(g) : out(g)[n].is = g[n].is
  BY <1>6 DEF P
<1>8. SetsFirst(out(g)) <=> SetsFirst(g)
  <2>1. PICK x : x = out(g)
    OBVIOUS
  <2>2. IsSeq(x) /\ IsSeq(g) /\ Len(x) = Len(g) /\ \A n \in 1 .. Len(g) : x[n].is = g[n].is
    BY <1>7, <2>1 DEF EntriesOk
  <2>3. Len(g) \in Nat /\ (Len(g) = 0 <=> g = <<>>) /\ (Len(x) = 0 <=> x = <<>>)
    BY <2>2, LengthIs
  <2>4. SetsFirst(x) <=> SetsFirst(g)
    BY <2>2, <2>3 DEF SetsFirst
  <2> QED
    BY <2>1, <2>4
<1> QED
  BY <1>7, <1>8

\* A signature before it is no change of the key: dropping it moves the change
\* to the front, never away.
LEMMA SetsFirstUnsigned ==
    ASSUME NEW g, IsSeq(g)
    PROVE  /\ IsSeq(NoSignatures(g))
           /\ SetsFirst(g) => SetsFirst(NoSignatures(g))
<1> DEFINE P(u) == IsSeq(NoSignatures(u)) /\ (SetsFirst(u) => SetsFirst(NoSignatures(u)))
           S == {n \in Nat : \A u : IsSeq(u) /\ Len(u) = n => P(u)}
<1>1. P(<<>>)
  BY AlongNone, LengthIs DEF NoSignatures, SetsFirst
<1>2. ASSUME NEW u, NEW e, IsSeq(u), P(u) PROVE P(Append(u, e))
  <2>1. PICK k : k = NoSignatures(u)
    OBVIOUS
  <2>2. PICK k1 : k1 = NoSignatures(Append(u, e))
    OBVIOUS
  <2>3. IsSeq(k) /\ (SetsFirst(u) => SetsFirst(k)) /\ (u = <<>> => k = <<>>)
    BY <1>2, <2>1, AlongNone DEF NoSignatures
  <2>4. k1 = IF e.is = "signature" THEN k ELSE Append(k, e)
    BY <1>2, <2>1, <2>2, NoSignaturesAppend
  <2>5. IsSeq(k)
    BY <2>3
  <2>6. IsSeq(k1)
    BY <2>4, <2>5, AppendIs
  <2>7. SetsFirst(Append(k, e)) <=> IF k = <<>> THEN e.is = "use_key" ELSE SetsFirst(k)
    BY <2>5, SetsFirstAppend
  <2>8. SetsFirst(Append(u, e)) <=> IF u = <<>> THEN e.is = "use_key" ELSE SetsFirst(u)
    BY <1>2, SetsFirstAppend
  <2>9. SetsFirst(k) => k # <<>>
    BY DEF SetsFirst
  <2>10. SetsFirst(Append(u, e)) => SetsFirst(k1)
    BY <2>3, <2>4, <2>7, <2>8, <2>9
  <2> QED
    BY <2>2, <2>6, <2>10
<1> HIDE DEF P
<1>3. 0 \in S
  BY <1>1, LengthIs
<1>4. ASSUME NEW n \in Nat, n \in S PROVE n + 1 \in S
  <2> SUFFICES ASSUME NEW u, IsSeq(u), Len(u) = n + 1 PROVE P(u)
    OBVIOUS
  <2>1. u # <<>>
    BY LengthIs
  <2>2. PICK v, e : IsSeq(v) /\ u = Append(v, e) /\ Len(v) + 1 = Len(u)
    BY <2>1, Shorter
  <2>3. Len(v) = n
    BY <2>2, LengthIs
  <2> QED
    BY <1>2, <1>4, <2>2, <2>3
<1>5. Len(g) \in S
  <2> HIDE DEF S
  <2> QED
    BY <1>3, <1>4, ByInduction, LengthIs
<1>6. P(g)
  BY <1>5
<1> QED
  BY <1>6 DEF P

\* The same of two logs, one after the other.
LEMMA SetsFirstConcat ==
    ASSUME NEW g, IsSeq(g), NEW h, IsSeq(h)
    PROVE  SetsFirst(g \o h) <=> IF g = <<>> THEN SetsFirst(h) ELSE SetsFirst(g)
<1>1. CASE g = <<>>
  BY <1>1, ConcatIs
<1>2. CASE g # <<>>
  <2>1. Len(g) \in Nat /\ Len(h) \in Nat /\ Len(g) # 0
    BY <1>2, LengthIs
  <2>2. IsSeq(g \o h) /\ Len(g \o h) = Len(g) + Len(h) /\ \A i \in 1 .. Len(g) : (g \o h)[i] = g[i]
    BY ConcatIs
  <2>3. (g \o h)[1] = g[1]
    BY <2>1, <2>2
  <2>4. Len(g \o h) # 0
    BY <2>1, <2>2
  <2>5. g \o h # <<>>
    BY <2>4, LengthIs
  <2> QED
    BY <1>2, <2>3, <2>5 DEF SetsFirst
<1> QED
  BY <1>1, <1>2

\* Left out twice is left out once.
LEMMA StartAgain ==
    ASSUME NEW c \in Ciphers, NEW g, NEW h, IsSeq(h), SetsFirst(g) => SetsFirst(h),
           NEW start, start = StartCipher(c, g)
    PROVE  /\ start \in Ciphers
           /\ StartCipher(start, h) = StartCipher(c, h)
           /\ EndCipher(start, h) = EndCipher(c, h)
           /\ \A chain : /\ EntriesToOpaque(chain, start, Keys, h) = EntriesToOpaque(chain, c, Keys, h)
                         /\ EntriesToPlaintext(chain, start, Keys, h) =
                               EntriesToPlaintext(chain, c, Keys, h)
                         /\ VerifyOpaque(chain, start, h) = VerifyOpaque(chain, c, h)
<1>1. CASE SetsFirst(g)
  <2>1. start = NoCipher /\ h # <<>> /\ h[1].is = "use_key"
    BY <1>1 DEF StartCipher, SetsFirst
  <2> QED
    BY <2>1, FirstCipher DEF Ciphers, StartCipher
<1>2. CASE ~ SetsFirst(g)
  <2>1. start = c
    BY <1>2 DEF StartCipher, SetsFirst
  <2> QED
    BY <2>1
<1> QED
  BY <1>1, <1>2

\* A header written from a header is the one written from the log.
LEMMA EncodeAgain ==
    ASSUME NEW c \in Ciphers, NEW g, NEW h, IsSeq(h), SetsFirst(g) => SetsFirst(h),
           NEW sig, NEW prev
    PROVE  /\ EncodeOpaque(sig, prev, StartCipher(c, g), h) = EncodeOpaque(sig, prev, c, h)
           /\ EncodePlaintext(sig, prev, StartCipher(c, g), h) = EncodePlaintext(sig, prev, c, h)
<1>1. PICK start : start = StartCipher(c, g)
  OBVIOUS
<1>2. StartCipher(start, h) = StartCipher(c, h) /\ EndCipher(start, h) = EndCipher(c, h)
  BY <1>1, StartAgain
<1>3. EncodeOpaque(sig, prev, start, h) = EncodeOpaque(sig, prev, c, h)
  BY <1>2 DEF EncodeOpaque
<1>4. EncodePlaintext(sig, prev, start, h) = EncodePlaintext(sig, prev, c, h)
  BY <1>2 DEF EncodePlaintext
<1> QED
  BY <1>1, <1>3, <1>4

-----------------------------------------------------------------------------
(* A segment of the log from S to E *)

Packaged(seg, S, g, E) ==
    \/ seg = EncodeOpaque(E.chain, S.chain, S.cipher, Opaque(S, g).out)
    \/ seg = EncodePlaintext(E.chain, S.chain, S.cipher, g)

\* What it takes to decrypt the entries of an opaque segment.
Decrypts(d, g, E) == d.ok /\ d.chain = E.chain /\ d.cipher = E.cipher /\ d.out = g

\* The opaque form decrypts to the entries it was made of.
LEMMA DecryptsIs ==
    ASSUME NEW S, Place(S), NEW E, NEW g, Leads(S, g, E)
    PROVE  Decrypts(EntriesToPlaintext(S.chain, S.cipher, Keys, Opaque(S, g).out), g, E)
<1>1. Encodes(S.chain, S.cipher, g)
  BY EncodesAll DEF Place, Leads
<1> QED
  BY <1>1 DEF Encodes, Leads, Opaque, Decrypts

\* A segment's fields, and what can be read from it.
SegmentOf(seg, S, g, E) ==
    /\ seg.sig = E.chain /\ seg.prev = S.chain /\ seg.start = StartCipher(S.cipher, g)
    /\ Opens(seg, Keys)
    /\ SetsFirst(seg.entries) <=> SetsFirst(g)
    /\ seg.form = "opaque" =>
          /\ seg = EncodeOpaque(E.chain, S.chain, S.cipher, Opaque(S, g).out)
          /\ seg.entries = Opaque(S, g).out
    /\ seg.form # "opaque" =>
          /\ seg = EncodePlaintext(E.chain, S.chain, S.cipher, g)
          /\ seg.entries = g

\* A packaged segment is of one of the two forms and opens with the keys.
LEMMA SegmentIs ==
    ASSUME NEW S, Place(S), NEW E, Place(E), NEW g, Leads(S, g, E),
           NEW seg, Packaged(seg, S, g, E)
    PROVE  SegmentOf(seg, S, g, E)
<1>1. EntriesOk(g) /\ IsSeq(g) /\ S.cipher \in Ciphers /\ E.cipher \in Ciphers
  BY DEF Leads, EntriesOk, Place
<1>2. PICK out : out = Opaque(S, g).out
  OBVIOUS
<1>3. IsSeq(out) /\ (SetsFirst(out) <=> SetsFirst(g))
  BY <1>1, <1>2, OpaqueOk, SetsFirstOpaque DEF EntriesOk
<1>4. StartCipher(S.cipher, out) = StartCipher(S.cipher, g)
  BY <1>3 DEF StartCipher, SetsFirst
<1>5. CASE seg = EncodeOpaque(E.chain, S.chain, S.cipher, out)
  <2>1. /\ seg.sig = E.chain /\ seg.prev = S.chain
        /\ seg.start = StartCipher(S.cipher, out)
        /\ seg.form = "opaque" /\ seg.entries = out
    BY <1>5 DEF EncodeOpaque
  <2> QED
    BY <1>2, <1>3, <1>4, <1>5, <2>1 DEF SegmentOf, Opens
<1>6. CASE seg = EncodePlaintext(E.chain, S.chain, S.cipher, g)
  <2>1. PICK kept : kept = StartCipher(S.cipher, g)
    OBVIOUS
  <2>2. EndCipher(S.cipher, g) = E.cipher
    BY <1>1, OpaqueOk DEF Leads
  <2>3. /\ seg.sig = E.chain /\ seg.prev = S.chain /\ seg.start = kept
        /\ seg.form = "plaintext" /\ seg.entries = g
        /\ seg.encrypted = (E.cipher # NoCipher) /\ seg.lock = E.cipher
        /\ seg.outer = IF E.cipher = kept THEN NoCipher ELSE E.cipher
    BY <1>6, <2>1, <2>2 DEF EncodePlaintext
  <2>4. Opens(seg, Keys)
    BY <1>1, <2>3 DEF Opens, Ciphers
  <2> QED
    BY <1>6, <2>1, <2>3, <2>4 DEF SegmentOf
<1> QED
  BY <1>2, <1>5, <1>6 DEF Packaged

\* It can be read, decrypted and verified under what its header says, and
\* under the cipher the log before it ended with.
LEMMA SegmentReads ==
    ASSUME NEW S, Place(S), NEW E, Place(E), NEW g, Leads(S, g, E),
           NEW seg, Packaged(seg, S, g, E), NEW c \in {S.cipher, seg.start}
    PROVE  /\ c \in Ciphers
           /\ seg.form = "opaque" => Decrypts(EntriesToPlaintext(S.chain, c, Keys, seg.entries), g, E)
           /\ VerifyOpaque(S.chain, c, Opaque(S, g).out) =
                 VerifyOpaque(S.chain, S.cipher, Opaque(S, g).out)
           /\ EntriesToOpaque(S.chain, c, Keys, g) = Opaque(S, g)
<1>1. SegmentOf(seg, S, g, E)
  BY SegmentIs
<1>2. IsSeq(g) /\ EntriesOk(g) /\ S.cipher \in Ciphers
  BY DEF Leads, EntriesOk, Place
<1>3. PICK out : out = Opaque(S, g).out
  OBVIOUS
<1>4. IsSeq(out) /\ (SetsFirst(g) => SetsFirst(out))
  BY <1>2, <1>3, OpaqueOk, SetsFirstOpaque DEF EntriesOk
<1>5. PICK start : start = StartCipher(S.cipher, g)
  OBVIOUS
<1>6. seg.start = start
  BY <1>1, <1>5 DEF SegmentOf
<1>7. /\ start \in Ciphers
      /\ EntriesToPlaintext(S.chain, start, Keys, out) = EntriesToPlaintext(S.chain, S.cipher, Keys, out)
      /\ VerifyOpaque(S.chain, start, out) = VerifyOpaque(S.chain, S.cipher, out)
  BY <1>2, <1>4, <1>5, StartAgain
<1>8. EntriesToOpaque(S.chain, start, Keys, g) = EntriesToOpaque(S.chain, S.cipher, Keys, g)
  BY <1>2, <1>5, StartAgain
<1>9. Decrypts(EntriesToPlaintext(S.chain, S.cipher, Keys, out), g, E)
  BY <1>3, DecryptsIs
<1>10. seg.form = "opaque" => seg.entries = out
  BY <1>1, <1>3 DEF SegmentOf
<1>11. c = S.cipher \/ c = start
  BY <1>6
<1>12. EntriesToPlaintext(S.chain, c, Keys, out) = EntriesToPlaintext(S.chain, S.cipher, Keys, out)
  BY <1>7, <1>11
<1>13. seg.form = "opaque" => Decrypts(EntriesToPlaintext(S.chain, c, Keys, seg.entries), g, E)
  BY <1>9, <1>10, <1>12
<1>14. VerifyOpaque(S.chain, c, out) = VerifyOpaque(S.chain, S.cipher, out)
  BY <1>7, <1>11
<1>15. EntriesToOpaque(S.chain, c, Keys, g) = Opaque(S, g)
  BY <1>8, <1>11 DEF Opaque
<1> QED
  BY <1>2, <1>3, <1>7, <1>11, <1>13, <1>14, <1>15

\* What is read from it is what was packaged: VerifiedSegment::to_plaintext().
LEMMA SegmentPlain ==
    ASSUME NEW S, Place(S), NEW E, Place(E), NEW g, Leads(S, g, E),
           NEW seg, Packaged(seg, S, g, E)
    PROVE  PlainEntries(seg, Keys).out = g
<1>1. SegmentOf(seg, S, g, E)
  BY SegmentIs
<1>2. CASE seg.form = "opaque"
  <2>1. Decrypts(EntriesToPlaintext(S.chain, seg.start, Keys, seg.entries), g, E)
    BY <1>2, SegmentReads
  <2> QED
    BY <1>1, <1>2, <2>1 DEF PlainEntries, Decrypts, SegmentOf
<1>3. CASE seg.form # "opaque"
  BY <1>1, <1>3 DEF PlainEntries, SegmentOf
<1> QED
  BY <1>2, <1>3

\* It verifies under the chain at its end: DecodedSegment::verify().
LEMMA SegmentVerifies ==
    ASSUME NEW S, Place(S), NEW E, Place(E), NEW g, Leads(S, g, E),
           NEW seg, Packaged(seg, S, g, E)
    PROVE  Verify(seg, Keys) = [ok |-> TRUE, chain |-> E.chain, cipher |-> E.cipher]
<1>1. SegmentOf(seg, S, g, E)
  BY SegmentIs
<1>2. PICK a : a = Opaque(S, g)
  OBVIOUS
<1>3. PICK v : v = VerifyOpaque(S.chain, seg.start, a.out)
  OBVIOUS
<1>4. VerifyOpaque(S.chain, seg.start, a.out) = VerifyOpaque(S.chain, S.cipher, a.out)
  BY <1>2, SegmentReads
<1>5. v.ok /\ v.chain = E.chain /\ v.cipher = E.cipher /\ a.ok
  BY <1>2, <1>3, <1>4, OpaqueOk DEF Leads
<1>6. Opens(seg, Keys) /\ seg.prev = S.chain /\ seg.sig = E.chain
  BY <1>1 DEF SegmentOf
<1>7. CASE seg.form = "opaque"
  <2>1. seg.entries = a.out
    BY <1>1, <1>2, <1>7 DEF SegmentOf
  <2>2. VerifyOpaque(seg.prev, seg.start, seg.entries) = v
    BY <1>3, <1>6, <2>1
  <2> QED
    BY <1>5, <1>6, <1>7, <2>2 DEF Verify
<1>8. CASE seg.form # "opaque"
  <2>1. seg.entries = g
    BY <1>1, <1>8 DEF SegmentOf
  <2>2. EntriesToOpaque(S.chain, seg.start, Keys, g) = a
    BY <1>2, SegmentReads
  <2>3. PICK w : w = VerifyPlaintext(seg.prev, seg.start, Keys, seg.entries)
    OBVIOUS
  <2>4. w = [ok |-> v.ok /\ a.ok, chain |-> v.chain, cipher |-> v.cipher]
    BY <1>3, <1>6, <2>1, <2>2, <2>3 DEF VerifyPlaintext
  <2>5. w.ok /\ w.chain = E.chain /\ w.cipher = E.cipher
    BY <1>5, <2>4
  <2> QED
    BY <1>6, <1>8, <2>3, <2>5 DEF Verify
<1> QED
  BY <1>7, <1>8

\* In the other form it is a segment from S to E as well.
LEMMA RepackagedIs ==
    ASSUME NEW S, Place(S), NEW E, Place(E), NEW g, Leads(S, g, E),
           NEW seg, Packaged(seg, S, g, E),
           NEW plain, plain = PlainEntries(seg, Keys).out
    PROVE  Packaged(IF seg.form = "opaque"
                    THEN EncodePlaintext(seg.sig, seg.prev, seg.start, plain)
                    ELSE EncodeOpaque(seg.sig, seg.prev, seg.start,
                             EntriesToOpaque(seg.prev, seg.start, Keys, plain).out), S, g, E)
<1>1. /\ seg.sig = E.chain /\ seg.prev = S.chain /\ seg.start = StartCipher(S.cipher, g)
  BY SegmentIs DEF SegmentOf
<1>2. plain = g
  BY SegmentPlain
<1>3. IsSeq(g) /\ EntriesOk(g) /\ S.cipher \in Ciphers
  BY DEF Leads, EntriesOk, Place
<1>4. PICK out : out = Opaque(S, g).out
  OBVIOUS
<1>5. IsSeq(out) /\ (SetsFirst(g) => SetsFirst(out))
  BY <1>3, <1>4, OpaqueOk, SetsFirstOpaque DEF EntriesOk
<1>6. EncodePlaintext(E.chain, S.chain, StartCipher(S.cipher, g), g) =
         EncodePlaintext(E.chain, S.chain, S.cipher, g)
  BY <1>3, EncodeAgain
<1>7. EncodeOpaque(E.chain, S.chain, StartCipher(S.cipher, g), out) =
         EncodeOpaque(E.chain, S.chain, S.cipher, out)
  BY <1>3, <1>5, EncodeAgain
<1>8. EntriesToOpaque(S.chain, seg.start, Keys, g) = Opaque(S, g)
  BY SegmentReads
<1>9. EncodePlaintext(seg.sig, seg.prev, seg.start, plain) =
         EncodePlaintext(E.chain, S.chain, S.cipher, g)
  BY <1>1, <1>2, <1>6
<1>10. EncodeOpaque(seg.sig, seg.prev, seg.start,
           EntriesToOpaque(seg.prev, seg.start, Keys, plain).out) =
         EncodeOpaque(E.chain, S.chain, S.cipher, out)
  BY <1>1, <1>2, <1>4, <1>7, <1>8
<1> QED
  BY <1>4, <1>9, <1>10 DEF Packaged

-----------------------------------------------------------------------------
(* join_segments() *)

\* What JoinAll is defined by has a solution.
LEMMA JoinAllIs ==
    ASSUME NEW segs, IsSeq(segs)
    PROVE  \E after : /\ JoinAll(segs, Keys) = after[Len(segs)]
                      /\ after[0] = At(Keys, EmptyChain, NoCipher)
                      /\ \A n \in 1 .. Len(segs) :
                            after[n] = JoinOne(n = 1, after[n - 1], segs[n], Keys)
<1> DEFINE start == At(Keys, EmptyChain, NoCipher)
           Step(x, n) == JoinOne(n = 1, x, segs[n], Keys)
           Body(g, n) == IF n = 0 THEN start ELSE Step(g[n - 1], n)
           Solves(g, m) == g = [n \in 0 .. m |-> Body(g, n)]
           S == {m \in Nat : \E g : Solves(g, m)}
<1>4. JoinAll(segs, Keys) = (CHOOSE g : Solves(g, Len(segs)))[Len(segs)]
  BY DEF JoinAll
<1> HIDE DEF start, Step
<1>1. 0 \in S
  <2> DEFINE g == [n \in 0 .. 0 |-> start]
  <2>1. Solves(g, 0)
    OBVIOUS
  <2> QED
    BY <2>1
<1>2. ASSUME NEW m \in Nat, m \in S PROVE m + 1 \in S
  <2>1. PICK g : Solves(g, m)
    BY <1>2
  <2> DEFINE last == Step(g[m], m + 1)
             h == [n \in 0 .. m + 1 |-> IF n = m + 1 THEN last ELSE g[n]]
  <2> HIDE DEF last
  <2>2. \A n \in 0 .. m + 1 : n # 0 => h[n - 1] = g[n - 1]
    OBVIOUS
  <2>3. \A n \in 0 .. m : g[n] = Body(g, n)
    BY <2>1
  <2>4. \A n \in 0 .. m + 1 : h[n] = Body(h, n)
    <3> SUFFICES ASSUME NEW n \in 0 .. m + 1 PROVE h[n] = Body(h, n)
      OBVIOUS
    <3>1. CASE n = m + 1
      BY <2>2, <3>1 DEF last
    <3>2. CASE n # m + 1
      <4>1. n \in 0 .. m /\ h[n] = g[n]
        BY <3>2
      <4> QED
        BY <2>2, <2>3, <4>1
    <3> QED
      BY <3>1, <3>2
  <2>5. Solves(h, m + 1)
    <3>1. h = [n \in 0 .. m + 1 |-> h[n]]
      OBVIOUS
    <3> HIDE DEF h
    <3> QED
      BY <2>4, <3>1
  <2> HIDE DEF h, Solves
  <2> QED
    BY <2>5
<1>3. Len(segs) \in S
  <2> HIDE DEF S
  <2> QED
    BY <1>1, <1>2, ByInduction, LengthIs
<1> DEFINE after == CHOOSE g : Solves(g, Len(segs))
<1>5. Solves(after, Len(segs))
  <2> HIDE DEF Solves
  <2> QED
    BY <1>3
<1>6. \A n \in 0 .. Len(segs) : after[n] = Body(after, n)
  <2> HIDE DEF after
  <2> QED
    BY <1>5
<1>7. Len(segs) \in Nat
  BY LengthIs
<1>8. after[0] = start
  <2> HIDE DEF after
  <2>1. 0 \in 0 .. Len(segs)
    BY <1>7
  <2> QED
    BY <1>6, <2>1
<1>9. \A n \in 1 .. Len(segs) : after[n] = Step(after[n - 1], n)
  <2> HIDE DEF after
  <2> QED
    BY <1>6
<1>10. JoinAll(segs, Keys) = after[Len(segs)]
  BY <1>4
<1> HIDE DEF after
<1> QED
  BY <1>8, <1>9, <1>10 DEF start, Step

\* A segment is joined on if the chain so far is the one it starts from.
Ready(first, acc, S) ==
    /\ first \in BOOLEAN /\ acc.ok = TRUE
    /\ first \/ (acc.chain = S.chain /\ acc.cipher = S.cipher)

JoinsOn(acc, g, E, next) ==
    /\ next.ok = TRUE /\ next.chain = E.chain /\ next.cipher = E.cipher
    /\ next.out = acc.out \o NoSignatures(g)

\* Joined on, a segment of the log leads on to its end.
LEMMA JoinOneIs ==
    ASSUME NEW S, Place(S), NEW E, Place(E), NEW g, Leads(S, g, E),
           NEW seg, Packaged(seg, S, g, E), NEW first, NEW acc, Ready(first, acc, S)
    PROVE  JoinsOn(acc, g, E, JoinOne(first, acc, seg, Keys))
<1>1. SegmentOf(seg, S, g, E)
  BY SegmentIs
<1>2. PICK c : c = CarriedCipher(first, acc, seg)
  OBVIOUS
<1>3. c = S.cipher \/ c = seg.start
  BY <1>2 DEF CarriedCipher, Ready
<1>4. /\ seg.form = "opaque" => Decrypts(EntriesToPlaintext(S.chain, c, Keys, seg.entries), g, E)
      /\ EntriesToOpaque(S.chain, c, Keys, g) = Opaque(S, g)
  BY <1>3, SegmentReads
<1>5. (IF first THEN seg.prev ELSE acc.chain) = S.chain /\ InOrder(first, acc, seg)
  BY <1>1 DEF SegmentOf, InOrder, Ready
<1>6. Opens(seg, Keys)
  BY <1>1 DEF SegmentOf
<1>7. CASE seg.form = "opaque"
  <2>1. PICK d : d = EntriesToPlaintext(S.chain, c, Keys, seg.entries)
    OBVIOUS
  <2>2. d.ok /\ d.chain = E.chain /\ d.cipher = E.cipher /\ d.out = g
    BY <1>4, <1>7, <2>1 DEF Decrypts
  <2>3. JoinOne(first, acc, seg, Keys) =
           [ok |-> acc.ok /\ InOrder(first, acc, seg) /\ Opens(seg, Keys) /\ d.ok,
            chain |-> d.chain, cipher |-> d.cipher, out |-> acc.out \o NoSignatures(d.out)]
    BY <1>2, <1>5, <1>7, <2>1 DEF JoinOne
  <2>4. (acc.ok /\ InOrder(first, acc, seg) /\ Opens(seg, Keys) /\ d.ok) = TRUE
    BY <1>5, <1>6, <2>2 DEF Ready
  <2> QED
    <3>1. PICK next : next = JoinOne(first, acc, seg, Keys)
      OBVIOUS
    <3>2. JoinOne(first, acc, seg, Keys) =
             [ok |-> TRUE, chain |-> E.chain, cipher |-> E.cipher,
              out |-> acc.out \o NoSignatures(g)]
      BY <2>2, <2>3, <2>4
    <3>3. PICK out : out = acc.out \o NoSignatures(g)
      OBVIOUS
    <3>4. next = [ok |-> TRUE, chain |-> E.chain, cipher |-> E.cipher, out |-> out]
      BY <3>1, <3>2, <3>3
    <3>5. next.ok = TRUE /\ next.chain = E.chain /\ next.cipher = E.cipher /\ next.out = out
      BY <3>4
    <3>6. JoinsOn(acc, g, E, next)
      BY <3>3, <3>5 DEF JoinsOn
    <3> QED
      BY <3>1, <3>6
<1>8. CASE seg.form # "opaque"
  <2>1. PICK d : d = Opaque(S, g)
    OBVIOUS
  <2>2. d.ok /\ d.chain = E.chain /\ d.cipher = E.cipher
    BY <2>1, OpaqueOk DEF Leads
  <2>3. seg.entries = g
    BY <1>1, <1>8 DEF SegmentOf
  <2>4. JoinOne(first, acc, seg, Keys) =
           [ok |-> acc.ok /\ InOrder(first, acc, seg) /\ Opens(seg, Keys) /\ d.ok,
            chain |-> d.chain, cipher |-> d.cipher, out |-> acc.out \o NoSignatures(g)]
    BY <1>2, <1>4, <1>5, <1>8, <2>1, <2>3 DEF JoinOne
  <2>5. (acc.ok /\ InOrder(first, acc, seg) /\ Opens(seg, Keys) /\ d.ok) = TRUE
    BY <1>5, <1>6, <2>2 DEF Ready
  <2> QED
    <3>1. PICK next : next = JoinOne(first, acc, seg, Keys)
      OBVIOUS
    <3>2. JoinOne(first, acc, seg, Keys) =
             [ok |-> TRUE, chain |-> E.chain, cipher |-> E.cipher,
              out |-> acc.out \o NoSignatures(g)]
      BY <2>2, <2>4, <2>5
    <3>3. PICK out : out = acc.out \o NoSignatures(g)
      OBVIOUS
    <3>4. next = [ok |-> TRUE, chain |-> E.chain, cipher |-> E.cipher, out |-> out]
      BY <3>1, <3>2, <3>3
    <3>5. next.ok = TRUE /\ next.chain = E.chain /\ next.cipher = E.cipher /\ next.out = out
      BY <3>4
    <3>6. JoinsOn(acc, g, E, next)
      BY <3>3, <3>5 DEF JoinsOn
    <3> QED
      BY <3>1, <3>6
<1> QED
  BY <1>7, <1>8

-----------------------------------------------------------------------------
(* What is kept of the entries *)

\* The entries g are the log's entries w from chain index at on, but for what
\* was expunged.
Kept(g, w, at, G) ==
    /\ Len(NoSignatures(g)) = Len(NoSignatures(w))
    /\ \A n \in 1 .. Len(NoSignatures(g)) :
          IF at + n - 1 \in G THEN NoSignatures(g)[n].is = "expunged"
                              ELSE NoSignatures(g)[n] = NoSignatures(w)[n]

\* Entries without the signatures are entries, and have none left to lose.
LEMMA UnsignedIs ==
    ASSUME NEW g, EntriesOk(g)
    PROVE  /\ EntriesOk(NoSignatures(g)) /\ NoSignatures(NoSignatures(g)) = NoSignatures(g)
           /\ IsSeq(NoSignatures(g)) /\ Len(NoSignatures(g)) \in Nat
<1>1. IsSeq(<<>>) /\ NoCipher \in Ciphers
  BY LengthIs DEF Ciphers
<1>2. Links(<<>>, NoCipher, g)
  BY <1>1, LinksAll
<1>3. EntriesOk(NoSignatures(g)) /\ NoSignatures(NoSignatures(g)) = NoSignatures(g)
  BY <1>2 DEF Links
<1> QED
  BY <1>3, LengthIs DEF EntriesOk

\* A join drops signatures; the ops and key changes are still those.
LEMMA KeptUnsigned ==
    ASSUME NEW g, EntriesOk(g), NEW w, NEW at, NEW G, Kept(g, w, at, G)
    PROVE  Kept(NoSignatures(g), w, at, G)
<1>1. NoSignatures(NoSignatures(g)) = NoSignatures(g)
  BY UnsignedIs
<1> QED
  BY <1>1 DEF Kept

\* A piece after a piece: what is kept of both is kept of the whole.
LEMMA KeptConcat ==
    ASSUME NEW g, EntriesOk(g), NEW w, EntriesOk(w), NEW at \in Nat, NEW G, Kept(g, w, at, G),
           NEW h, EntriesOk(h), NEW x, EntriesOk(x), NEW on \in Nat,
           on = at + Len(NoSignatures(g)), Kept(h, x, on, G)
    PROVE  Kept(g \o h, w \o x, at, G)
<1>1. PICK k : k = NoSignatures(g)
  OBVIOUS
<1>2. PICK l : l = NoSignatures(h)
  OBVIOUS
<1>3. PICK r : r = NoSignatures(w)
  OBVIOUS
<1>4. PICK s : s = NoSignatures(x)
  OBVIOUS
<1>5. /\ NoSignatures(g \o h) = k \o l
      /\ NoSignatures(w \o x) = r \o s
  BY <1>1, <1>2, <1>3, <1>4, NoSignaturesConcat
<1>6. IsSeq(k) /\ IsSeq(l) /\ IsSeq(r) /\ IsSeq(s) /\ Len(k) \in Nat /\ Len(l) \in Nat
  BY <1>1, <1>2, <1>3, <1>4, UnsignedIs
<1>7. /\ Len(k) = Len(r)
      /\ \A n \in 1 .. Len(k) : IF at + n - 1 \in G THEN k[n].is = "expunged" ELSE k[n] = r[n]
  BY <1>1, <1>3 DEF Kept
<1>8. /\ Len(l) = Len(s)
      /\ \A n \in 1 .. Len(l) : IF on + n - 1 \in G THEN l[n].is = "expunged" ELSE l[n] = s[n]
  BY <1>2, <1>4 DEF Kept
<1>9. /\ Len(k \o l) = Len(k) + Len(l) /\ Len(r \o s) = Len(k) + Len(l)
      /\ \A n \in 1 .. Len(k) : (k \o l)[n] = k[n] /\ (r \o s)[n] = r[n]
      /\ \A n \in 1 .. Len(l) : (k \o l)[Len(k) + n] = l[n] /\ (r \o s)[Len(k) + n] = s[n]
  <2>1. IsSeq(k) /\ IsSeq(l) /\ IsSeq(r) /\ IsSeq(s)
    BY <1>6
  <2>2. /\ Len(k \o l) = Len(k) + Len(l)
        /\ \A n \in 1 .. Len(k) : (k \o l)[n] = k[n]
        /\ \A n \in 1 .. Len(l) : (k \o l)[Len(k) + n] = l[n]
    BY <2>1, ConcatIs
  <2>3. /\ Len(r \o s) = Len(r) + Len(s)
        /\ \A n \in 1 .. Len(r) : (r \o s)[n] = r[n]
        /\ \A n \in 1 .. Len(s) : (r \o s)[Len(r) + n] = s[n]
    BY <2>1, ConcatIs
  <2> QED
    BY <1>7, <1>8, <2>2, <2>3
<1>10. ASSUME NEW n \in 1 .. Len(k) + Len(l)
       PROVE  IF at + n - 1 \in G THEN (k \o l)[n].is = "expunged" ELSE (k \o l)[n] = (r \o s)[n]
  <2>1. CASE n \in 1 .. Len(k)
    BY <1>7, <1>9, <2>1
  <2>2. CASE n \notin 1 .. Len(k)
    <3>1. PICK m \in 1 .. Len(l) : n = Len(k) + m
      <4>1. n - Len(k) \in 1 .. Len(l) /\ n = Len(k) + (n - Len(k))
        BY <1>6, <2>2
      <4> QED
        BY <4>1
    <3>2. at + n - 1 = on + m - 1
      BY <1>1, <1>6, <3>1
    <3>3. (k \o l)[n] = l[m] /\ (r \o s)[n] = s[m]
      BY <1>9, <3>1
    <3> QED
      BY <1>8, <3>2, <3>3
  <2> QED
    BY <2>1, <2>2
<1> QED
  BY <1>5, <1>9, <1>10 DEF Kept

\* What is expunged elsewhere changes nothing here.
LEMMA KeptElsewhere ==
    ASSUME NEW g, NEW w, NEW at, NEW G, Kept(g, w, at, G), NEW index,
           \A n \in 1 .. Len(NoSignatures(g)) : at + n - 1 # index
    PROVE  Kept(g, w, at, G \cup {index})
  BY DEF Kept

\* One entry is replaced by its hash, and its chain index is noted as gone.
LEMMA KeptExpunged ==
    ASSUME NEW g, NEW h, NEW w, NEW at \in Nat, NEW G, Kept(g, w, at, G),
           NEW p, IsSeq(p), NEW q, IsSeq(q), NEW e, NEW x, x.is = "expunged",
           NoSignatures(g) = (p \o <<e>>) \o q,
           NoSignatures(h) = (p \o <<x>>) \o q,
           NEW index, index = at + Len(p)
    PROVE  Kept(h, w, at, G \cup {index})
<1>1. \A z : /\ IsSeq(p \o <<z>>) /\ Len(p \o <<z>>) = Len(p) + 1
             /\ (p \o <<z>>)[Len(p) + 1] = z
             /\ \A n \in 1 .. Len(p) : (p \o <<z>>)[n] = p[n]
  <2> SUFFICES ASSUME NEW z
               PROVE  /\ IsSeq(p \o <<z>>) /\ Len(p \o <<z>>) = Len(p) + 1
                      /\ (p \o <<z>>)[Len(p) + 1] = z
                      /\ \A n \in 1 .. Len(p) : (p \o <<z>>)[n] = p[n]
    OBVIOUS
  <2>1. <<z>> \in Seq({z}) /\ Len(<<z>>) = 1 /\ <<z>>[1] = z
    OBVIOUS
  <2>2. IsSeq(<<z>>)
    BY <2>1 DEF IsSeq
  <2> QED
    BY <2>1, <2>2, ConcatIs
<1>2. Len(p) \in Nat /\ Len(q) \in Nat
  BY LengthIs
<1>3. \A z : /\ Len((p \o <<z>>) \o q) = Len(p) + 1 + Len(q)
             /\ \A n \in 1 .. Len(p) : ((p \o <<z>>) \o q)[n] = p[n]
             /\ ((p \o <<z>>) \o q)[Len(p) + 1] = z
             /\ \A n \in 1 .. Len(q) : ((p \o <<z>>) \o q)[Len(p) + 1 + n] = q[n]
  <2> SUFFICES ASSUME NEW z
               PROVE  /\ Len((p \o <<z>>) \o q) = Len(p) + 1 + Len(q)
                      /\ \A n \in 1 .. Len(p) : ((p \o <<z>>) \o q)[n] = p[n]
                      /\ ((p \o <<z>>) \o q)[Len(p) + 1] = z
                      /\ \A n \in 1 .. Len(q) : ((p \o <<z>>) \o q)[Len(p) + 1 + n] = q[n]
    OBVIOUS
  <2>1. PICK pz : pz = p \o <<z>>
    OBVIOUS
  <2>2. IsSeq(pz)
    BY <1>1, <2>1
  <2>3. /\ Len(pz \o q) = Len(pz) + Len(q)
        /\ \A n \in 1 .. Len(pz) : (pz \o q)[n] = pz[n]
        /\ \A n \in 1 .. Len(q) : (pz \o q)[Len(pz) + n] = q[n]
    BY <2>2, ConcatIs
  <2>4. Len(pz) = Len(p) + 1 /\ pz[Len(p) + 1] = z /\ \A n \in 1 .. Len(p) : pz[n] = p[n]
    BY <1>1, <2>1
  <2>5. /\ Len(pz \o q) = Len(p) + 1 + Len(q)
        /\ \A n \in 1 .. Len(p) : (pz \o q)[n] = p[n]
        /\ (pz \o q)[Len(p) + 1] = z
        /\ \A n \in 1 .. Len(q) : (pz \o q)[Len(p) + 1 + n] = q[n]
    BY <1>2, <2>3, <2>4
  <2> QED
    BY <2>1, <2>5
<1>4. PICK k : k = NoSignatures(g)
  OBVIOUS
<1>5. PICK l : l = NoSignatures(h)
  OBVIOUS
<1>6. /\ Len(l) = Len(k) /\ Len(k) \in Nat
      /\ l[Len(p) + 1] = x
      /\ \A n \in 1 .. Len(k) : n # Len(p) + 1 => l[n] = k[n]
  <2>1. k = (p \o <<e>>) \o q /\ l = (p \o <<x>>) \o q
    BY <1>4, <1>5
  <2>2. Len(k) = Len(p) + 1 + Len(q) /\ Len(l) = Len(p) + 1 + Len(q)
    BY <1>3, <2>1
  <2>3. l[Len(p) + 1] = x
    BY <1>3, <2>1
  <2>4. ASSUME NEW n \in 1 .. Len(k), n # Len(p) + 1 PROVE l[n] = k[n]
    <3>1. CASE n \in 1 .. Len(p)
      BY <1>3, <2>1, <3>1
    <3>2. CASE n \notin 1 .. Len(p)
      <4>1. PICK m \in 1 .. Len(q) : n = Len(p) + 1 + m
        <5>1. /\ n - (Len(p) + 1) \in 1 .. Len(q)
              /\ n = Len(p) + 1 + (n - (Len(p) + 1))
          BY <1>2, <2>2, <2>4, <3>2
        <5> QED
          BY <5>1
      <4> QED
        BY <1>3, <2>1, <4>1
    <3> QED
      BY <3>1, <3>2
  <2>5. Len(k) \in Nat
    BY <1>2, <2>2
  <2> QED
    BY <2>2, <2>3, <2>4, <2>5
<1>7. ASSUME NEW n \in 1 .. Len(k) PROVE n # Len(p) + 1 <=> at + n - 1 # index
  <2>1. PICK m \in Nat : m = Len(p)
    BY <1>2
  <2>2. n \in Int /\ index = at + m
    BY <1>6, <2>1
  <2>3. n # m + 1 <=> at + n - 1 # at + m
    BY <2>2
  <2> QED
    BY <2>1, <2>2, <2>3
<1>8. /\ Len(k) = Len(NoSignatures(w))
      /\ \A n \in 1 .. Len(k) :
            IF at + n - 1 \in G THEN k[n].is = "expunged" ELSE k[n] = NoSignatures(w)[n]
  BY <1>4 DEF Kept
<1>9. ASSUME NEW n \in 1 .. Len(l)
      PROVE  IF at + n - 1 \in G \cup {index} THEN l[n].is = "expunged"
                                              ELSE l[n] = NoSignatures(w)[n]
  BY <1>6, <1>7, <1>8
<1> QED
  BY <1>5, <1>6, <1>8, <1>9 DEF Kept

-----------------------------------------------------------------------------
(* Expunging an op *)

Single(x) == <<x>>

\* One entry between others.
Spliced(p, x, q) == (p \o Single(x)) \o q

\* A sequence of one.
LEMMA SingleIs ==
    ASSUME NEW x
    PROVE  IsSeq(Single(x)) /\ Len(Single(x)) = 1 /\ Single(x)[1] = x /\ Single(x) = Append(<<>>, x)
<1>1. <<x>> \in Seq({x}) /\ Len(<<x>>) = 1 /\ <<x>>[1] = x /\ <<x>> = Append(<<>>, x)
  OBVIOUS
<1> QED
  BY <1>1 DEF Single, IsSeq

\* Which entry is where.
LEMMA SplicedIs ==
    ASSUME NEW p, IsSeq(p), NEW x, NEW q, IsSeq(q)
    PROVE  /\ IsSeq(Spliced(p, x, q)) /\ Len(Spliced(p, x, q)) = Len(p) + 1 + Len(q)
           /\ Spliced(p, x, q)[Len(p) + 1] = x
           /\ \A i \in 1 .. Len(p) : Spliced(p, x, q)[i] = p[i]
           /\ \A i \in 1 .. Len(q) : Spliced(p, x, q)[Len(p) + 1 + i] = q[i]
<1>1. IsSeq(Single(x)) /\ Len(Single(x)) = 1 /\ Single(x)[1] = x
  BY SingleIs
<1>2. PICK px : px = p \o Single(x)
  OBVIOUS
<1>3. IsSeq(Single(x))
  BY <1>1
<1>4. /\ IsSeq(px) /\ Len(px) = Len(p) + Len(Single(x))
      /\ \A i \in 1 .. Len(p) : px[i] = p[i]
      /\ \A i \in 1 .. Len(Single(x)) : px[Len(p) + i] = Single(x)[i]
  BY <1>2, <1>3, ConcatIs
<1>5. Len(p) \in Nat /\ Len(q) \in Nat
  BY LengthIs
<1>6. Len(px) = Len(p) + 1 /\ px[Len(p) + 1] = x /\ \A i \in 1 .. Len(p) : px[i] = p[i]
  BY <1>1, <1>4, <1>5
<1>7. IsSeq(px)
  BY <1>4
<1>8. PICK s : s = px \o q
  OBVIOUS
<1>9. /\ IsSeq(s) /\ Len(s) = Len(px) + Len(q)
      /\ \A i \in 1 .. Len(px) : s[i] = px[i]
      /\ \A i \in 1 .. Len(q) : s[Len(px) + i] = q[i]
  BY <1>7, <1>8, ConcatIs
<1>10. Len(p) + 1 \in 1 .. Len(px) /\ \A i \in 1 .. Len(p) : i \in 1 .. Len(px)
  BY <1>5, <1>6
<1>11. s[Len(p) + 1] = x /\ \A i \in 1 .. Len(p) : s[i] = p[i]
  BY <1>6, <1>9, <1>10
<1>12. Len(s) = Len(p) + 1 + Len(q) /\ \A i \in 1 .. Len(q) : s[Len(p) + 1 + i] = q[i]
  BY <1>6, <1>9
<1>13. s = Spliced(p, x, q) /\ IsSeq(s)
  BY <1>2, <1>8, <1>9 DEF Spliced
<1> QED
  BY <1>11, <1>12, <1>13

\* A sequence is what its pieces make.
LEMMA SplicedSame ==
    ASSUME NEW p, IsSeq(p), NEW x, NEW q, IsSeq(q), NEW s, IsSeq(s),
           Len(s) = Len(p) + 1 + Len(q), s[Len(p) + 1] = x,
           \A i \in 1 .. Len(p) : s[i] = p[i],
           \A i \in 1 .. Len(q) : s[Len(p) + 1 + i] = q[i]
    PROVE  s = Spliced(p, x, q)
<1>1. Len(p) \in Nat /\ Len(q) \in Nat
  BY LengthIs
<1>2. PICK t : t = Spliced(p, x, q)
  OBVIOUS
<1>3. /\ IsSeq(t) /\ Len(t) = Len(p) + 1 + Len(q) /\ t[Len(p) + 1] = x
      /\ \A i \in 1 .. Len(p) : t[i] = p[i]
      /\ \A i \in 1 .. Len(q) : t[Len(p) + 1 + i] = q[i]
  BY <1>2, SplicedIs
<1>4. ASSUME NEW i \in 1 .. Len(s) PROVE s[i] = t[i]
  <2>1. CASE i \in 1 .. Len(p)
    BY <1>3, <2>1
  <2>2. CASE i = Len(p) + 1
    BY <1>3, <2>2
  <2>3. CASE i \notin 1 .. Len(p) /\ i # Len(p) + 1
    <3>1. PICK j \in 1 .. Len(q) : i = Len(p) + 1 + j
      <4>1. i - (Len(p) + 1) \in 1 .. Len(q) /\ i = Len(p) + 1 + (i - (Len(p) + 1))
        BY <1>1, <2>3
      <4> QED
        BY <4>1
    <3> QED
      BY <1>3, <3>1
  <2> QED
    BY <2>1, <2>2, <2>3
<1>5. IsSeq(t) /\ Len(s) = Len(t)
  BY <1>3
<1>6. s = t
  BY <1>4, <1>5, SameSeq
<1> QED
  BY <1>2, <1>6

Exchanged(s, n, x) == [s EXCEPT ![n] = x]

\* What EXCEPT leaves of a sequence.
LEMMA ExchangedIs ==
    ASSUME NEW s, IsSeq(s), NEW n \in 1 .. Len(s), NEW x
    PROVE  /\ IsSeq(Exchanged(s, n, x)) /\ Len(Exchanged(s, n, x)) = Len(s)
           /\ Exchanged(s, n, x)[n] = x
           /\ \A i \in 1 .. Len(s) : i # n => Exchanged(s, n, x)[i] = s[i]
<1>1. PICK t : t = [s EXCEPT ![n] = x]
  OBVIOUS
<1>2. DOMAIN s = 1 .. Len(s) /\ Len(s) \in Nat
  BY LengthIs
<1>3. PICK T : s \in Seq(T)
  BY DEF IsSeq
<1>4. t \in Seq(T \cup {x}) /\ Len(t) = Len(s)
  <2>1. s \in [1 .. Len(s) -> T]
    BY <1>3, LenProperties
  <2>2. t \in [1 .. Len(s) -> T \cup {x}]
    BY <1>1, <2>1
  <2>3. t \in Seq(T \cup {x})
    BY <1>2, <2>2, SeqDef
  <2>4. DOMAIN t = 1 .. Len(s) /\ DOMAIN t = 1 .. Len(t) /\ Len(t) \in Nat
    BY <2>2, <2>3, LenProperties
  <2> QED
    BY <1>2, <2>3, <2>4
<1>5. IsSeq(t)
  BY <1>4 DEF IsSeq
<1>6. t[n] = x /\ \A i \in 1 .. Len(s) : i # n => t[i] = s[i]
  BY <1>1, <1>2
<1>7. t = Exchanged(s, n, x)
  BY <1>1 DEF Exchanged
<1> QED
  BY <1>4, <1>5, <1>6, <1>7

\* One entry exchanged between the same others.
LEMMA SplicedExchanged ==
    ASSUME NEW p, IsSeq(p), NEW z, NEW q, IsSeq(q), NEW x
    PROVE  /\ SubSeq(Spliced(p, z, q), 1, Len(p)) = p
           /\ Exchanged(Spliced(p, z, q), Len(p) + 1, x) = Spliced(p, x, q)
<1>1. PICK s : s = Spliced(p, z, q)
  OBVIOUS
<1>2. Len(p) \in Nat /\ Len(q) \in Nat
  BY LengthIs
<1>3. /\ IsSeq(s) /\ Len(s) = Len(p) + 1 + Len(q) /\ s[Len(p) + 1] = z
      /\ \A i \in 1 .. Len(p) : s[i] = p[i]
      /\ \A i \in 1 .. Len(q) : s[Len(p) + 1 + i] = q[i]
  BY <1>1, SplicedIs
<1>4. IsSeq(s)
  BY <1>3
<1>5. SubSeq(s, 1, Len(p)) = p
  <2>1. Len(p) \in 1 - 1 .. Len(s) /\ 1 \in 1 .. Len(s) + 1 /\ Len(p) - 1 + 1 = Len(p)
        /\ \A i \in 1 .. Len(p) : 1 + i - 1 = i
    BY <1>2, <1>3
  <2>2. PICK u : u = SubSeq(s, 1, Len(p))
    OBVIOUS
  <2>3. /\ IsSeq(u) /\ Len(u) = Len(p) - 1 + 1
        /\ \A i \in 1 .. Len(p) - 1 + 1 : u[i] = s[1 + i - 1]
    BY <1>4, <2>1, <2>2, SubSeqIs
  <2>4. Len(u) = Len(p) /\ \A i \in 1 .. Len(p) : u[i] = p[i]
    BY <1>3, <2>1, <2>3
  <2>5. IsSeq(u)
    BY <2>3
  <2>6. u = p
    BY <2>4, <2>5, SameSeq
  <2> QED
    BY <2>2, <2>6
<1>6. Exchanged(s, Len(p) + 1, x) = Spliced(p, x, q)
  <2>a. PICK n \in 1 .. Len(s) : n = Len(p) + 1
    BY <1>2, <1>3
  <2>2. PICK t : t = Exchanged(s, n, x)
    OBVIOUS
  <2>b. /\ IsSeq(t) /\ Len(t) = Len(s) /\ t[n] = x
        /\ \A i \in 1 .. Len(s) : i # n => t[i] = s[i]
    BY <1>4, <2>2, ExchangedIs
  <2>3. /\ IsSeq(t) /\ Len(t) = Len(s) /\ t[Len(p) + 1] = x
        /\ \A i \in 1 .. Len(s) : i # Len(p) + 1 => t[i] = s[i]
    BY <2>a, <2>b
  <2>4. \A i \in 1 .. Len(p) : i \in 1 .. Len(s) /\ i # Len(p) + 1
    BY <1>2, <1>3
  <2>5. \A i \in 1 .. Len(q) : Len(p) + 1 + i \in 1 .. Len(s) /\ Len(p) + 1 + i # Len(p) + 1
    BY <1>2, <1>3
  <2>6. /\ \A i \in 1 .. Len(p) : t[i] = p[i]
        /\ \A i \in 1 .. Len(q) : t[Len(p) + 1 + i] = q[i]
    BY <1>3, <2>3, <2>4, <2>5
  <2>7. IsSeq(t)
    BY <2>3
  <2>8. t = Spliced(p, x, q)
    BY <1>3, <2>3, <2>6, <2>7, SplicedSame
  <2> QED
    BY <2>a, <2>2, <2>8
<1> QED
  BY <1>1, <1>5, <1>6

\* Every sequence is spliced at each of its places.
LEMMA Split ==
    ASSUME NEW s, IsSeq(s), NEW n \in 1 .. Len(s)
    PROVE  /\ s = Spliced(SubSeq(s, 1, n - 1), s[n], SubSeq(s, n + 1, Len(s)))
           /\ IsSeq(SubSeq(s, 1, n - 1)) /\ Len(SubSeq(s, 1, n - 1)) = n - 1
           /\ IsSeq(SubSeq(s, n + 1, Len(s)))
<1>1. Len(s) \in Nat /\ n \in Nat /\ n <= Len(s) /\ 1 <= n
  BY LengthIs
<1>2. PICK u : u = SubSeq(s, 1, n - 1)
  OBVIOUS
<1>3. PICK v : v = SubSeq(s, n + 1, Len(s))
  OBVIOUS
<1>4. IsSeq(u) /\ Len(u) = n - 1 /\ \A i \in 1 .. n - 1 : u[i] = s[i]
  <2>1. n - 1 \in 1 - 1 .. Len(s) /\ 1 \in 1 .. Len(s) + 1
    BY <1>1
  <2>2. /\ IsSeq(SubSeq(s, 1, n - 1)) /\ Len(SubSeq(s, 1, n - 1)) = (n - 1) - 1 + 1
        /\ \A i \in 1 .. (n - 1) - 1 + 1 : SubSeq(s, 1, n - 1)[i] = s[1 + i - 1]
    BY <2>1, SubSeqIs
  <2> QED
    BY <1>1, <1>2, <2>2
<1>5. IsSeq(v) /\ Len(v) = Len(s) - n /\ \A i \in 1 .. Len(s) - n : v[i] = s[n + i]
  <2>1. Len(s) \in (n + 1) - 1 .. Len(s) /\ n + 1 \in 1 .. Len(s) + 1
    BY <1>1
  <2>2. /\ IsSeq(SubSeq(s, n + 1, Len(s))) /\ Len(SubSeq(s, n + 1, Len(s))) = Len(s) - (n + 1) + 1
        /\ \A i \in 1 .. Len(s) - (n + 1) + 1 : SubSeq(s, n + 1, Len(s))[i] = s[(n + 1) + i - 1]
    BY <2>1, SubSeqIs
  <2> QED
    BY <1>1, <1>3, <2>2
<1>6. IsSeq(u) /\ IsSeq(v)
  BY <1>4, <1>5
<1>7. /\ Len(s) = Len(u) + 1 + Len(v) /\ Len(u) + 1 = n
      /\ \A i \in 1 .. Len(u) : s[i] = u[i]
      /\ \A i \in 1 .. Len(v) : s[Len(u) + 1 + i] = v[i]
  BY <1>1, <1>4, <1>5
<1>8. s = Spliced(u, s[n], v)
  BY <1>6, <1>7, SplicedSame
<1> QED
  BY <1>2, <1>3, <1>4, <1>6, <1>8

\* A piece of a well-formed log is well-formed.
LEMMA EntriesOkSub ==
    ASSUME NEW g, EntriesOk(g), NEW m \in 1 .. Len(g) + 1, NEW n \in m - 1 .. Len(g)
    PROVE  EntriesOk(SubSeq(g, m, n))
<1>1. IsSeq(g) /\ Len(g) \in Nat
  BY LengthIs DEF EntriesOk
<1>2. PICK u : u = SubSeq(g, m, n)
  OBVIOUS
<1>3. IsSeq(u) /\ Len(u) = n - m + 1 /\ \A i \in 1 .. n - m + 1 : u[i] = g[m + i - 1]
  BY <1>1, <1>2, SubSeqIs
<1>4. ASSUME NEW i \in 1 .. Len(u) PROVE Entry(u[i])
  <2>1. i \in 1 .. n - m + 1 /\ m + i - 1 \in 1 .. Len(g)
    BY <1>1, <1>3
  <2> QED
    BY <1>3, <2>1 DEF EntriesOk
<1>5. EntriesOk(u)
  BY <1>3, <1>4 DEF EntriesOk
<1> QED
  BY <1>2, <1>5

\* Encrypting two pieces one after the other encrypts the whole.
LEMMA OpaqueConcat ==
    ASSUME NEW S, Place(S), NEW s, EntriesOk(s), NEW t, EntriesOk(t)
    PROVE  EncryptedOn(Opaque(S, s), Opaque(Opaque(S, s), t), Opaque(S, s \o t))
<1>1. PICK a : a = Opaque(S, s)
  OBVIOUS
<1>2. IsSeq(t) /\ IsSeq(S.chain) /\ S.cipher \in Ciphers
  BY DEF EntriesOk, Place
<1>3. a = EntriesToOpaque(S.chain, S.cipher, Keys, s)
  BY <1>1 DEF Opaque
<1>4. EncryptedOn(a, EntriesToOpaque(a.chain, a.cipher, Keys, t),
                  EntriesToOpaque(S.chain, S.cipher, Keys, s \o t))
  BY <1>2, <1>3, GoesOn
<1>5. /\ Opaque(a, t) = EntriesToOpaque(a.chain, a.cipher, Keys, t)
      /\ Opaque(S, s \o t) = EntriesToOpaque(S.chain, S.cipher, Keys, s \o t)
  BY DEF Opaque
<1> QED
  BY <1>1, <1>4, <1>5

EncryptedOne(S, e, b) ==
    /\ b.chain = NextChain(ToOpaque(e, S.cipher, S.chain), S.chain, S.cipher)
    /\ b.cipher = CipherAfter(ToOpaque(e, S.cipher, S.chain), S.cipher)
    /\ b.out = Single(ToOpaque(e, S.cipher, S.chain))

\* The opaque form of one entry.
LEMMA OpaqueOne ==
    ASSUME NEW S, Place(S), NEW e
    PROVE  EncryptedOne(S, e, Opaque(S, Single(e)))
<1>1. IsSeq(<<>>) /\ Single(e) = Append(<<>>, e)
  BY LengthIs, SingleIs
<1>2. PICK s : s = [ok |-> TRUE, chain |-> S.chain, cipher |-> S.cipher, out |-> <<>>]
  OBVIOUS
<1>3. EntriesToOpaque(S.chain, S.cipher, Keys, <<>>) = s
  BY <1>2, NothingRead DEF Place
<1>4. s.chain = S.chain /\ s.cipher = S.cipher /\ s.out = <<>>
  BY <1>2
<1>5. PICK b : b = Opaque(S, Single(e))
  OBVIOUS
<1>6. Encrypted(s, e, b)
  BY <1>1, <1>3, <1>5, EncryptedIs DEF Opaque
<1>7. PICK o : o = ToOpaque(e, S.cipher, S.chain)
  OBVIOUS
<1>8. /\ b.chain = NextChain(o, S.chain, S.cipher)
      /\ b.cipher = CipherAfter(o, S.cipher)
      /\ b.out = Append(<<>>, o)
  BY <1>4, <1>6, <1>7 DEF Encrypted
<1>9. b.out = Single(o)
  BY <1>8, SingleIs
<1>10. EncryptedOne(S, e, b)
  BY <1>7, <1>8, <1>9 DEF EncryptedOne
<1> QED
  BY <1>5, <1>10

\* The chain grows by a link for each entry but the signatures.
LEMMA LeadsLength ==
    ASSUME NEW S, Place(S), NEW E, NEW g, Leads(S, g, E)
    PROVE  /\ Len(E.chain) = Len(S.chain) + Len(NoSignatures(g))
           /\ Len(NoSignatures(Opaque(S, g).out)) = Len(NoSignatures(g))
<1>1. Links(S.chain, S.cipher, g)
  BY LinksAll DEF Leads, Place
<1> QED
  BY <1>1 DEF Links, Leads, Opaque

\* An entry's opaque form is of its kind.
LEMMA OpaqueKind ==
    ASSUME NEW e, Entry(e), NEW cipher \in Ciphers, NEW chain
    PROVE  ToOpaque(e, cipher, chain).is = e.is
<1>1. PICK o : o = ToOpaque(e, cipher, chain)
  OBVIOUS
<1>2. o.is = e.is
  BY <1>1, OpaqueIs
<1> QED
  BY <1>1, <1>2

\* Every entry on the way is a place in the log.
LEMMA LeadsSplit ==
    ASSUME NEW S, Place(S), NEW E, NEW s, EntriesOk(s), NEW t, EntriesOk(t), Leads(S, s \o t, E)
    PROVE  Place(Opaque(S, s)) /\ Leads(S, s, Opaque(S, s)) /\ Leads(Opaque(S, s), t, E)
<1>1. PICK a : a = Opaque(S, s)
  OBVIOUS
<1>2. PICK b : b = Opaque(a, t)
  OBVIOUS
<1>3. PICK c : c = Opaque(S, s \o t)
  OBVIOUS
<1>a. EncryptedOn(Opaque(S, s), Opaque(Opaque(S, s), t), Opaque(S, s \o t))
  BY OpaqueConcat
<1>b. EncryptedOn(a, b, c)
  BY <1>1, <1>2, <1>3, <1>a
<1>4. c.chain = b.chain /\ c.cipher = b.cipher /\ c.out = a.out \o b.out
  BY <1>b DEF EncryptedOn
<1>5. Place(a) /\ IsSeq(a.out) /\ IsSeq(b.out)
  <2>1. Place(a) /\ IsSeq(a.out)
    BY <1>1, OpaqueOk DEF EntriesOk
  <2>2. IsSeq(b.out)
    BY <1>2, <2>1, OpaqueOk DEF EntriesOk
  <2> QED
    BY <2>1, <2>2
<1>6. PICK v : v = VerifyOpaque(S.chain, S.cipher, a.out)
  OBVIOUS
<1>7. v.chain = a.chain /\ v.cipher = a.cipher
  BY <1>1, <1>6, OpaqueOk
<1>8. PICK w : w = VerifyOpaque(v.chain, v.cipher, b.out)
  OBVIOUS
<1>9. PICK x : x = VerifyOpaque(S.chain, S.cipher, a.out \o b.out)
  OBVIOUS
<1>10. x.ok <=> v.ok /\ w.ok
  BY <1>5, <1>6, <1>8, <1>9, VerifyGoesOn
<1>11. x.ok /\ c.chain = E.chain /\ c.cipher = E.cipher
  BY <1>3, <1>4, <1>9 DEF Leads
<1>12. VerifyOpaque(a.chain, a.cipher, b.out).ok
  BY <1>7, <1>8, <1>10, <1>11
<1>13. Leads(a, t, E)
  BY <1>2, <1>4, <1>11, <1>12 DEF Leads
<1>14. Leads(S, s, a)
  BY <1>1, <1>6, <1>10, <1>11 DEF Leads
<1> QED
  BY <1>1, <1>5, <1>13, <1>14

\* Leads says nothing of E but where it is.
LEMMA LeadsSame ==
    ASSUME NEW S, NEW g, NEW M, NEW N, Leads(S, g, M), M.chain = N.chain, M.cipher = N.cipher
    PROVE  Leads(S, g, N)
  BY DEF Leads

\* Encryption depends on nothing but chain and cipher.
LEMMA OpaqueSame ==
    ASSUME NEW S, NEW g, NEW M, NEW N, M.chain = N.chain, M.cipher = N.cipher
    PROVE  Opaque(M, g) = Opaque(N, g)
  BY DEF Opaque

\* What takes the place of an op is hashed as the op was.
TakesPlace(M, e, x) ==
    LET o == ToOpaque(e, M.cipher, M.chain)
    IN  o.is = "op" /\ x = Expunged(EntryHash(o, Len(M.chain)))

\* The hash of an op leads to the same chain as the op: EntryBody::hash().
LEMMA ExpungedOne ==
    ASSUME NEW M, Place(M), NEW e, Entry(e), NEW x, TakesPlace(M, e, x)
    PROVE  /\ e.is = "op" /\ Entry(x) /\ x.is = "expunged"
           /\ Leads(M, Single(x), Opaque(M, Single(e)))
           /\ Opaque(M, Single(x)).out = Single(x)
<1>a. PICK o : o = ToOpaque(e, M.cipher, M.chain)
  OBVIOUS
<1>1. o.is = "op" /\ o.is = e.is
  BY <1>a, OpaqueKind DEF Place, TakesPlace
<1>2. PICK hash : hash = EntryHash(o, Len(M.chain))
  OBVIOUS
<1>b. x = Expunged(hash)
  BY <1>a, <1>2 DEF TakesPlace
<1>3. x.is = "expunged" /\ x.hash = hash /\ Entry(x)
  BY <1>b DEF Expunged, Entry
<1>4. ToOpaque(x, M.cipher, M.chain) = x
  BY <1>3 DEF ToOpaque
<1>5. PICK N : N = Opaque(M, Single(e))
  OBVIOUS
<1>6. PICK X : X = Opaque(M, Single(x))
  OBVIOUS
<1>7. N.chain = NextChain(o, M.chain, M.cipher) /\ N.cipher = CipherAfter(o, M.cipher)
  BY <1>5, <1>a, OpaqueOne DEF EncryptedOne
<1>8. X.chain = NextChain(x, M.chain, M.cipher) /\ X.cipher = CipherAfter(x, M.cipher)
      /\ X.out = Single(x)
  BY <1>4, <1>6, OpaqueOne DEF EncryptedOne
<1>9. CipherAfter(x, M.cipher) = M.cipher /\ CipherAfter(o, M.cipher) = M.cipher
  BY <1>1, <1>3 DEF CipherAfter
<1>10. NextChain(x, M.chain, M.cipher) = AddOne(M.chain, hash, M.cipher)
  BY <1>3, <1>9 DEF NextChain, EntryHash
<1>11. NextChain(o, M.chain, M.cipher) = AddOne(M.chain, hash, M.cipher)
  BY <1>1, <1>2, <1>9 DEF NextChain
<1>12. X.chain = N.chain /\ X.cipher = N.cipher
  BY <1>7, <1>8, <1>9, <1>10, <1>11
<1>13. Leads(M, Single(x), X)
  BY <1>3, <1>6, LeadsOne DEF Single
<1>14. Leads(M, Single(x), N)
  BY <1>12, <1>13, LeadsSame
<1> QED
  BY <1>1, <1>3, <1>5, <1>6, <1>8, <1>14

\* Expunging an op does not make the header say anything else.
LEMMA SetsFirstSpliced ==
    ASSUME NEW p, IsSeq(p), NEW x, NEW q, IsSeq(q), x.is # "use_key"
    PROVE  SetsFirst(Spliced(p, x, q)) <=> SetsFirst(p)
<1>1. PICK s : s = Spliced(p, x, q)
  OBVIOUS
<1>2. /\ IsSeq(s) /\ Len(s) = Len(p) + 1 + Len(q) /\ s[Len(p) + 1] = x
      /\ \A i \in 1 .. Len(p) : s[i] = p[i]
  BY <1>1, SplicedIs
<1>3. Len(p) \in Nat /\ Len(q) \in Nat /\ (Len(p) = 0 <=> p = <<>>)
  BY LengthIs
<1>4. Len(s) # 0 /\ IsSeq(s)
  BY <1>2, <1>3
<1>5. s # <<>>
  BY <1>4, LengthIs
<1>6. CASE p = <<>>
  <2>1. s[1] = x
    BY <1>2, <1>3, <1>6
  <2> QED
    BY <1>1, <1>6, <2>1 DEF SetsFirst
<1>7. CASE p # <<>>
  <2>1. 1 \in 1 .. Len(p)
    BY <1>3, <1>7
  <2>2. s[1] = p[1]
    BY <1>2, <2>1
  <2> QED
    BY <1>1, <1>5, <1>7, <2>2 DEF SetsFirst
<1> QED
  BY <1>6, <1>7

\* A log of one entry.
LEMMA SingleOk ==
    ASSUME NEW y, Entry(y)
    PROVE  /\ EntriesOk(Single(y))
           /\ y.is # "signature" => NoSignatures(Single(y)) = Single(y)
<1>1. Single(y) = Append(<<>>, y) /\ IsSeq(<<>>) /\ NoSignatures(<<>>) = <<>>
  BY LengthIs, AlongNone, SingleIs DEF NoSignatures
<1>2. EntriesOk(Single(y))
  BY <1>1, EntriesOkIs
<1>3. NoSignatures(Append(<<>>, y)) =
         IF y.is = "signature" THEN NoSignatures(<<>>) ELSE Append(NoSignatures(<<>>), y)
  BY <1>1, NoSignaturesAppend
<1> QED
  BY <1>1, <1>2, <1>3

\* Well-formedness and signatures around an entry that is none.
LEMMA SplicedOk ==
    ASSUME NEW u, EntriesOk(u), NEW x, Entry(x), x.is # "signature", NEW v, EntriesOk(v)
    PROVE  /\ EntriesOk(u \o Single(x)) /\ EntriesOk(Spliced(u, x, v))
           /\ NoSignatures(Spliced(u, x, v)) = Spliced(NoSignatures(u), x, NoSignatures(v))
<1>1. EntriesOk(Single(x)) /\ NoSignatures(Single(x)) = Single(x)
  BY SingleOk
<1>2. PICK ux : ux = u \o Single(x)
  OBVIOUS
<1>3. EntriesOk(ux)
  BY <1>1, <1>2, EntriesOkConcat
<1>4. NoSignatures(ux) = NoSignatures(u) \o Single(x)
  BY <1>1, <1>2, NoSignaturesConcat
<1>5. EntriesOk(ux \o v) /\ NoSignatures(ux \o v) = NoSignatures(ux) \o NoSignatures(v)
  BY <1>3, EntriesOkConcat, NoSignaturesConcat
<1> QED
  BY <1>2, <1>3, <1>4, <1>5 DEF Spliced

\* The op at n of a segment's entries gives way to its hash.
Redaction(S, out, n, index, x) ==
    /\ out[n].is = "op"
    /\ index = Len(S.chain) + Len(NoSignatures(SubSeq(out, 1, n - 1)))
    /\ x = Expunged(EntryHash(out[n], index))

Redacted(S, E, g, out, n, index, x, h, p, q) ==
    /\ Leads(S, h, E)
    /\ Opaque(S, h).out = Exchanged(out, n, x)
    /\ SetsFirst(h) <=> SetsFirst(g)
    /\ IsSeq(p) /\ IsSeq(q) /\ index = Len(S.chain) + Len(p)
    /\ NoSignatures(g) = Spliced(p, g[n], q)
    /\ NoSignatures(h) = Spliced(p, x, q)
    /\ x.is = "expunged"

\* With an op expunged, a segment is one of other entries that lead from and to
\* the same places.
LEMMA ExpungedIs ==
    ASSUME NEW S, Place(S), NEW E, NEW g, Leads(S, g, E), NEW n \in 1 .. Len(g),
           NEW index, NEW x, Redaction(S, Opaque(S, g).out, n, index, x)
    PROVE  \E h, p, q : Redacted(S, E, g, Opaque(S, g).out, n, index, x, h, p, q)
<1>1. EntriesOk(g) /\ IsSeq(g) /\ Len(g) \in Nat
  BY LengthIs DEF Leads, EntriesOk
<1>2. PICK u : u = SubSeq(g, 1, n - 1)
  OBVIOUS
<1>3. PICK v : v = SubSeq(g, n + 1, Len(g))
  OBVIOUS
<1>4. PICK e : e = g[n]
  OBVIOUS
<1>5. g = Spliced(u, e, v) /\ Len(u) = n - 1
  BY <1>1, <1>2, <1>3, <1>4, Split
<1>6. EntriesOk(u) /\ EntriesOk(v) /\ Entry(e)
  <2>1. n - 1 \in 1 - 1 .. Len(g) /\ 1 \in 1 .. Len(g) + 1
        /\ Len(g) \in (n + 1) - 1 .. Len(g) /\ n + 1 \in 1 .. Len(g) + 1
    BY <1>1
  <2> QED
    BY <1>1, <1>2, <1>3, <1>4, <2>1, EntriesOkSub DEF EntriesOk
<1>7. EntriesOk(Single(e))
  BY <1>6, SingleOk
<1>8. PICK ue : ue = u \o Single(e)
  OBVIOUS
<1>9. EntriesOk(ue)
  BY <1>6, <1>7, <1>8, EntriesOkConcat
<1>10. g = ue \o v
  BY <1>5, <1>8 DEF Spliced
<1>11. PICK N : N = Opaque(S, ue)
  OBVIOUS
<1>12. Place(N) /\ Leads(S, ue, N)
  BY <1>6, <1>9, <1>10, <1>11, LeadsSplit
<1>13. Leads(N, v, E)
  BY <1>6, <1>9, <1>10, <1>11, LeadsSplit
<1>14. Opaque(S, g).out = N.out \o Opaque(N, v).out
  <2>1. EncryptedOn(Opaque(S, ue), Opaque(Opaque(S, ue), v), Opaque(S, ue \o v))
    BY <1>6, <1>9, OpaqueConcat
  <2> QED
    BY <1>10, <1>11, <2>1 DEF EncryptedOn
<1>15. PICK M : M = Opaque(S, u)
  OBVIOUS
<1>16. Leads(S, u \o Single(e), N)
  BY <1>8, <1>12
<1>17. Place(M) /\ Leads(S, u, M)
  BY <1>6, <1>7, <1>15, <1>16, LeadsSplit
<1>19. N = Opaque(S, u \o Single(e))
  BY <1>8, <1>11
<1>18. N.out = M.out \o Opaque(M, Single(e)).out
  <2>1. EncryptedOn(Opaque(S, u), Opaque(Opaque(S, u), Single(e)), Opaque(S, u \o Single(e)))
    BY <1>6, <1>7, OpaqueConcat
  <2> QED
    BY <1>15, <1>19, <2>1 DEF EncryptedOn
<1>20. PICK o : o = ToOpaque(e, M.cipher, M.chain)
  OBVIOUS
<1>21. Opaque(M, Single(e)).out = Single(o)
  BY <1>17, <1>20, OpaqueOne DEF EncryptedOne
<1>22. PICK mo : mo = M.out
  OBVIOUS
<1>23. PICK r : r = Opaque(N, v).out
  OBVIOUS
<1>24. Opaque(S, g).out = Spliced(mo, o, r)
  BY <1>14, <1>18, <1>21, <1>22, <1>23 DEF Spliced
<1>25. IsSeq(mo) /\ Len(mo) = n - 1
  BY <1>5, <1>6, <1>15, <1>22, OpaqueOk DEF EntriesOk
<1>26. IsSeq(r)
  BY <1>6, <1>12, <1>23, OpaqueOk DEF EntriesOk
<1>27. n = Len(mo) + 1 /\ n - 1 = Len(mo)
  BY <1>1, <1>25
<1>28. /\ Opaque(S, g).out[n] = o
       /\ SubSeq(Opaque(S, g).out, 1, n - 1) = mo
       /\ Exchanged(Opaque(S, g).out, n, x) = Spliced(mo, x, r)
  <2>1. IsSeq(mo)
    BY <1>25
  <2>2. Spliced(mo, o, r)[Len(mo) + 1] = o
    BY <1>26, <2>1, SplicedIs
  <2>3. SubSeq(Spliced(mo, o, r), 1, Len(mo)) = mo
    BY <1>26, <2>1, SplicedExchanged
  <2>4. Exchanged(Spliced(mo, o, r), Len(mo) + 1, x) = Spliced(mo, x, r)
    BY <1>26, <2>1, SplicedExchanged
  <2> QED
    BY <1>24, <1>27, <2>2, <2>3, <2>4
<1>29. PICK p : p = NoSignatures(u)
  OBVIOUS
<1>30. PICK q : q = NoSignatures(v)
  OBVIOUS
<1>31. Len(M.chain) = Len(S.chain) + Len(p)
  BY <1>17, <1>29, LeadsLength
<1>32. Len(NoSignatures(mo)) = Len(p)
  BY <1>15, <1>17, <1>22, <1>29, LeadsLength
<1>33. /\ index = Len(M.chain) /\ index = Len(S.chain) + Len(p)
       /\ o.is = "op" /\ x = Expunged(EntryHash(o, index))
  BY <1>28, <1>31, <1>32 DEF Redaction
<1>34. /\ e.is = "op" /\ Entry(x) /\ x.is = "expunged"
       /\ Leads(M, Single(x), Opaque(M, Single(e)))
       /\ Opaque(M, Single(x)).out = Single(x)
  <2>1. TakesPlace(M, e, x)
    BY <1>20, <1>33 DEF TakesPlace
  <2>2. Entry(e) /\ Place(M)
    BY <1>6, <1>17
  <2> QED
    BY <2>1, <2>2, ExpungedOne
<1>35. N.chain = Opaque(M, Single(e)).chain /\ N.cipher = Opaque(M, Single(e)).cipher
  <2>1. EncryptedOn(Opaque(S, u), Opaque(Opaque(S, u), Single(e)), Opaque(S, u \o Single(e)))
    BY <1>6, <1>7, OpaqueConcat
  <2> QED
    BY <1>15, <1>19, <2>1 DEF EncryptedOn
<1>36. Leads(M, Single(x), N)
  BY <1>34, <1>35, LeadsSame
<1>37. PICK ux : ux = u \o Single(x)
  OBVIOUS
<1>38. Leads(S, ux, N)
  BY <1>12, <1>17, <1>36, <1>37, LeadsConcat
<1>39. PICK h : h = Spliced(u, x, v)
  OBVIOUS
<1>40. h = ux \o v
  BY <1>37, <1>39 DEF Spliced
<1>41. Leads(S, h, E)
  BY <1>12, <1>13, <1>38, <1>40, LeadsConcat
<1>42. Opaque(S, h).out = Spliced(mo, x, r)
  <2>1. PICK Y : Y = Opaque(S, ux)
    OBVIOUS
  <2>2. Y.chain = N.chain /\ Y.cipher = N.cipher
    BY <1>38, <2>1 DEF Leads
  <2>3. Opaque(Y, v) = Opaque(N, v)
    BY <2>2, OpaqueSame
  <2>4. EntriesOk(ux) /\ EntriesOk(Single(x))
    BY <1>34, <1>38, SingleOk DEF Leads
  <2>5. EncryptedOn(Opaque(S, ux), Opaque(Opaque(S, ux), v), Opaque(S, ux \o v))
    BY <1>6, <2>4, OpaqueConcat
  <2>6. Opaque(S, h).out = Y.out \o r
    BY <1>23, <1>40, <2>1, <2>3, <2>5 DEF EncryptedOn
  <2>7. EncryptedOn(Opaque(S, u), Opaque(Opaque(S, u), Single(x)), Opaque(S, u \o Single(x)))
    BY <1>6, <2>4, OpaqueConcat
  <2>8. Y.out = mo \o Single(x)
    BY <1>15, <1>22, <1>34, <1>37, <2>1, <2>7 DEF EncryptedOn
  <2> QED
    BY <2>6, <2>8 DEF Spliced
<1>43. SetsFirst(h) <=> SetsFirst(g)
  <2>1. IsSeq(u) /\ IsSeq(v)
    BY <1>6 DEF EntriesOk
  <2>2. SetsFirst(h) <=> SetsFirst(u)
    BY <1>34, <1>39, <2>1, SetsFirstSpliced
  <2>3. SetsFirst(g) <=> SetsFirst(u)
    BY <1>5, <1>34, <2>1, SetsFirstSpliced
  <2> QED
    BY <2>2, <2>3
<1>44. NoSignatures(g) = Spliced(p, e, q)
  BY <1>5, <1>6, <1>29, <1>30, <1>34, SplicedOk
<1>45. NoSignatures(h) = Spliced(p, x, q)
  BY <1>6, <1>29, <1>30, <1>34, <1>39, SplicedOk
<1>46. IsSeq(p) /\ IsSeq(q)
  BY <1>6, <1>29, <1>30, UnsignedIs
<1>47. Redacted(S, E, g, Opaque(S, g).out, n, index, x, h, p, q)
  BY <1>4, <1>28, <1>33, <1>34, <1>41, <1>42, <1>43, <1>44, <1>45, <1>46 DEF Redacted
<1> QED
  BY <1>47

-----------------------------------------------------------------------------
(* The author's log, and the places in it *)

HeadAt(h, n) == h[n + 1]

Span(l, m, n) == SubSeq(l, m + 1, n)

\* Entries m + 1 to n of the log.
LEMMA SpanIs ==
    ASSUME NEW l, IsSeq(l), NEW n \in 0 .. Len(l), NEW m \in 0 .. n
    PROVE  /\ IsSeq(Span(l, m, n)) /\ Len(Span(l, m, n)) = n - m
           /\ \A i \in 1 .. n - m : Span(l, m, n)[i] = l[m + i]
<1>1. Len(l) \in Nat
  BY LengthIs
<1>2. PICK k \in 1 .. Len(l) + 1 : k = m + 1 /\ n \in k - 1 .. Len(l)
  BY <1>1
<1>3. PICK u : u = SubSeq(l, k, n)
  OBVIOUS
<1>4. IsSeq(u) /\ Len(u) = n - k + 1 /\ \A i \in 1 .. n - k + 1 : u[i] = l[k + i - 1]
  BY <1>2, <1>3, SubSeqIs
<1>5. n - k + 1 = n - m /\ \A i \in 1 .. n - m : k + i - 1 = m + i
  BY <1>1, <1>2
<1>6. u = Span(l, m, n)
  BY <1>2, <1>3 DEF Span
<1>7. IsSeq(u) /\ Len(u) = n - m /\ \A i \in 1 .. n - m : u[i] = l[m + i]
  BY <1>4, <1>5
<1> QED
  BY <1>6, <1>7

\* Nothing lies between a place and itself.
LEMMA SpanNone ==
    ASSUME NEW l, IsSeq(l), NEW n \in 0 .. Len(l)
    PROVE  Span(l, n, n) = <<>>
<1>1. n \in 0 .. n
  BY LengthIs
<1>2. IsSeq(Span(l, n, n)) /\ Len(Span(l, n, n)) = n - n
  BY <1>1, SpanIs
<1>3. IsSeq(Span(l, n, n)) /\ Len(Span(l, n, n)) = 0
  BY <1>1, <1>2
<1> QED
  BY <1>3, LengthIs

\* A span after a span is a span.
LEMMA SpanConcat ==
    ASSUME NEW l, IsSeq(l), NEW k \in 0 .. Len(l), NEW n \in 0 .. k, NEW m \in 0 .. n
    PROVE  Span(l, m, n) \o Span(l, n, k) = Span(l, m, k)
<1>1. Len(l) \in Nat /\ n \in 0 .. Len(l) /\ m \in 0 .. k
  BY LengthIs
<1>2. PICK u : u = Span(l, m, n)
  OBVIOUS
<1>3. PICK v : v = Span(l, n, k)
  OBVIOUS
<1>4. PICK w : w = Span(l, m, k)
  OBVIOUS
<1>5. IsSeq(u) /\ Len(u) = n - m /\ \A i \in 1 .. n - m : u[i] = l[m + i]
  BY <1>1, <1>2, SpanIs
<1>6. IsSeq(v) /\ Len(v) = k - n /\ \A i \in 1 .. k - n : v[i] = l[n + i]
  BY <1>1, <1>3, SpanIs
<1>7. IsSeq(w) /\ Len(w) = k - m /\ \A i \in 1 .. k - m : w[i] = l[m + i]
  BY <1>1, <1>4, SpanIs
<1>8. IsSeq(u) /\ IsSeq(v) /\ IsSeq(w)
  BY <1>5, <1>6, <1>7
<1>9. PICK s : s = u \o v
  OBVIOUS
<1>10. /\ IsSeq(s) /\ Len(s) = Len(u) + Len(v)
       /\ \A i \in 1 .. Len(u) : s[i] = u[i]
       /\ \A i \in 1 .. Len(v) : s[Len(u) + i] = v[i]
  BY <1>8, <1>9, ConcatIs
<1>11. IsSeq(s) /\ Len(s) = Len(w)
  BY <1>1, <1>5, <1>6, <1>7, <1>10
<1>12. ASSUME NEW i \in 1 .. Len(s) PROVE s[i] = w[i]
  <2>1. i \in 1 .. k - m
    BY <1>7, <1>11
  <2>2. w[i] = l[m + i]
    BY <1>7, <2>1
  <2>3. CASE i <= n - m
    <3>1. i \in 1 .. n - m /\ i \in 1 .. Len(u)
      BY <1>1, <1>5, <2>1, <2>3
    <3> QED
      BY <1>5, <1>10, <2>2, <3>1
  <2>4. CASE ~(i <= n - m)
    <3>1. PICK j \in 1 .. k - n : i = (n - m) + j
      <4>1. i - (n - m) \in 1 .. k - n /\ i = (n - m) + (i - (n - m))
        BY <1>1, <2>1, <2>4
      <4> QED
        BY <4>1
    <3>2. s[i] = v[j]
      BY <1>5, <1>6, <1>10, <3>1
    <3>3. v[j] = l[n + j]
      BY <1>6
    <3>4. n + j = m + i
      BY <1>1, <3>1
    <3> QED
      BY <2>2, <3>2, <3>3, <3>4
  <2> QED
    BY <2>3, <2>4
<1>13. s = w
  BY <1>8, <1>11, <1>12, SameSeq
<1> QED
  BY <1>2, <1>3, <1>4, <1>9, <1>13

\* An entry more changes no earlier span.
LEMMA SpanAppend ==
    ASSUME NEW l, IsSeq(l), NEW e, NEW n \in 0 .. Len(l), NEW m \in 0 .. n
    PROVE  /\ Span(Append(l, e), m, n) = Span(l, m, n)
           /\ n = Len(l) => Span(Append(l, e), n, Len(l) + 1) = Single(e)
<1>1. PICK t : t = Append(l, e)
  OBVIOUS
<1>2. /\ IsSeq(t) /\ Len(t) = Len(l) + 1 /\ t[Len(l) + 1] = e
      /\ \A i \in 1 .. Len(l) : t[i] = l[i]
  BY <1>1, AppendIs
<1>3. Len(l) \in Nat /\ n \in 0 .. Len(t) /\ IsSeq(t)
  BY <1>2, LengthIs
<1>4. PICK u : u = Span(l, m, n)
  OBVIOUS
<1>5. PICK v : v = Span(t, m, n)
  OBVIOUS
<1>6. IsSeq(u) /\ Len(u) = n - m /\ \A i \in 1 .. n - m : u[i] = l[m + i]
  BY <1>4, SpanIs
<1>7. IsSeq(v) /\ Len(v) = n - m /\ \A i \in 1 .. n - m : v[i] = t[m + i]
  BY <1>3, <1>5, SpanIs
<1>8. \A i \in 1 .. n - m : m + i \in 1 .. Len(l)
  BY <1>3
<1>9. \A i \in 1 .. Len(v) : v[i] = u[i]
  BY <1>2, <1>6, <1>7, <1>8
<1>10. IsSeq(u) /\ IsSeq(v) /\ Len(u) = Len(v)
  BY <1>6, <1>7
<1>11. v = u
  BY <1>9, <1>10, SameSeq
<1>12. ASSUME n = Len(l) PROVE Span(t, n, Len(l) + 1) = Single(e)
  <2>1. PICK k \in 0 .. Len(t) : k = Len(l) + 1 /\ n \in 0 .. k
    BY <1>2, <1>3
  <2>2. PICK w : w = Span(t, n, k)
    OBVIOUS
  <2>3. IsSeq(w) /\ Len(w) = k - n /\ \A i \in 1 .. k - n : w[i] = t[n + i]
    BY <1>3, <2>1, <2>2, SpanIs
  <2>4. k - n = 1 /\ n + 1 = Len(l) + 1
    BY <1>3, <1>12, <2>1
  <2>5. IsSeq(w) /\ Len(w) = 1 /\ w[1] = e
    BY <1>2, <2>3, <2>4
  <2>6. IsSeq(Single(e)) /\ Len(Single(e)) = 1 /\ Single(e)[1] = e
    BY SingleIs
  <2>7. w = Single(e)
    <3>1. IsSeq(w) /\ IsSeq(Single(e)) /\ Len(w) = Len(Single(e))
      BY <2>5, <2>6
    <3>2. \A i \in 1 .. Len(w) : w[i] = Single(e)[i]
      BY <2>5, <2>6
    <3> QED
      BY <3>1, <3>2, SameSeq
  <2> QED
    BY <2>1, <2>2, <2>7
<1> QED
  BY <1>1, <1>4, <1>5, <1>11, <1>12

\* From any place in the log its entries lead to any later one.
LogOk(l, h) ==
    /\ EntriesOk(l)
    /\ IsSeq(h) /\ Len(h) = Len(l) + 1
    /\ HeadAt(h, 0) = Origin
    /\ \A n \in 0 .. Len(l) : Place(HeadAt(h, n))
    /\ \A n \in 0 .. Len(l) : \A m \in 0 .. n :
          Leads(HeadAt(h, m), Span(l, m, n), HeadAt(h, n))

\* What LogOk says of the log alone.
LEMMA LogIs ==
    ASSUME NEW l, NEW h, LogOk(l, h)
    PROVE  /\ EntriesOk(l) /\ IsSeq(l) /\ Len(l) \in Nat
           /\ IsSeq(h) /\ Len(h) = Len(l) + 1
           /\ h[Len(h)] = HeadAt(h, Len(l))
  BY LengthIs DEF LogOk, EntriesOk, HeadAt

\* Two places in the log: what leads from one to the other, how far it is, and
\* that they are the same place in force if the chains agree.
LEMMA LogLengths ==
    ASSUME NEW l, NEW h, LogOk(l, h), NEW n \in 0 .. Len(l), NEW m \in 0 .. n
    PROVE  /\ Place(HeadAt(h, m)) /\ Place(HeadAt(h, n))
           /\ Leads(HeadAt(h, m), Span(l, m, n), HeadAt(h, n))
           /\ EntriesOk(Span(l, m, n))
           /\ Len(HeadAt(h, m).chain) \in Nat /\ Len(HeadAt(h, n).chain) \in Nat
           /\ Len(NoSignatures(Span(l, m, n))) \in Nat
           /\ Len(HeadAt(h, n).chain) = Len(HeadAt(h, m).chain) + Len(NoSignatures(Span(l, m, n)))
           /\ HeadAt(h, m).chain = HeadAt(h, n).chain =>
                 HeadAt(h, m).cipher = HeadAt(h, n).cipher
<1>1. m \in 0 .. Len(l)
  BY LogIs
<1>2. Place(HeadAt(h, m)) /\ Place(HeadAt(h, n)) /\ Leads(HeadAt(h, m), Span(l, m, n), HeadAt(h, n))
  BY <1>1 DEF LogOk
<1>3. EntriesOk(Span(l, m, n))
  BY <1>2 DEF Leads
<1>4. Len(HeadAt(h, m).chain) \in Nat /\ Len(HeadAt(h, n).chain) \in Nat
  BY <1>2, LengthIs DEF Place
<1>5. IsSeq(NoSignatures(Span(l, m, n))) /\ Len(NoSignatures(Span(l, m, n))) \in Nat
  BY <1>3, UnsignedIs
<1>6. Len(HeadAt(h, n).chain) = Len(HeadAt(h, m).chain) + Len(NoSignatures(Span(l, m, n)))
  BY <1>2, LeadsLength
<1>7. HeadAt(h, m).chain = HeadAt(h, n).chain => HeadAt(h, m).cipher = HeadAt(h, n).cipher
  <2> SUFFICES ASSUME HeadAt(h, m).chain = HeadAt(h, n).chain
               PROVE  HeadAt(h, m).cipher = HeadAt(h, n).cipher
    OBVIOUS
  <2>1. Len(NoSignatures(Span(l, m, n))) = 0
    BY <1>4, <1>5, <1>6
  <2>2. NoSignatures(Span(l, m, n)) = <<>>
    BY <1>5, <2>1, LengthIs
  <2> QED
    BY <1>2, <2>2, LeadsUnsigned
<1> QED
  BY <1>2, <1>3, <1>4, <1>5, <1>6, <1>7

\* The author writes an entry.
LEMMA LogAppend ==
    ASSUME NEW l, NEW h, LogOk(l, h), NEW e, Entry(e),
           e.is = "signature" => e.of = HeadAt(h, Len(l)).chain,
           NEW r, r.chain = Opaque(HeadAt(h, Len(l)), Single(e)).chain,
           r.cipher = Opaque(HeadAt(h, Len(l)), Single(e)).cipher
    PROVE  /\ LogOk(Append(l, e), Append(h, r))
           /\ Len(Append(l, e)) = Len(l) + 1
           /\ \A n \in 0 .. Len(l) : HeadAt(Append(h, r), n) = HeadAt(h, n)
<1>1. EntriesOk(l) /\ IsSeq(l) /\ IsSeq(h) /\ Len(l) \in Nat /\ Len(h) = Len(l) + 1
  BY LogIs
<1>2. PICK len \in Nat : len = Len(l)
  BY <1>1
<1>3. PICK S : S = HeadAt(h, len)
  OBVIOUS
<1>4. PICK l1 : l1 = Append(l, e)
  OBVIOUS
<1>5. PICK h1 : h1 = Append(h, r)
  OBVIOUS
<1>6. IsSeq(l) /\ IsSeq(h)
  BY <1>1
<1>7. Len(l1) = len + 1 /\ EntriesOk(l1)
  BY <1>1, <1>2, <1>4, AppendIs, EntriesOkIs
<1>8. IsSeq(h1) /\ Len(h1) = Len(h) + 1 /\ h1[Len(h) + 1] = r /\ \A i \in 1 .. Len(h) : h1[i] = h[i]
  BY <1>5, <1>6, AppendIs
<1>9. /\ \A n \in 0 .. len : HeadAt(h1, n) = HeadAt(h, n)
      /\ HeadAt(h1, len + 1) = r
  <2>1. \A n \in 0 .. len : n + 1 \in 1 .. Len(h)
    BY <1>1, <1>2
  <2>2. (len + 1) + 1 = Len(h) + 1
    BY <1>1, <1>2
  <2> QED
    BY <1>8, <2>1, <2>2 DEF HeadAt
<1>10. Place(S)
  BY <1>2, <1>3 DEF LogOk
<1>11. Leads(S, Single(e), Opaque(S, Single(e))) /\ Place(Opaque(S, Single(e)))
  BY <1>2, <1>3, <1>10, LeadsOne DEF Single
<1>12. r.chain = Opaque(S, Single(e)).chain /\ r.cipher = Opaque(S, Single(e)).cipher
  BY <1>2, <1>3
<1>13. Leads(S, Single(e), r)
  BY <1>11, <1>12, LeadsSame
<1>14. Place(r)
  BY <1>11, <1>12 DEF Place
<1>15. \A n \in 0 .. len + 1 : n \in 0 .. len \/ n = len + 1
  OBVIOUS
<1>16. \A n \in 0 .. len + 1 : Place(HeadAt(h1, n))
  BY <1>2, <1>9, <1>14, <1>15 DEF LogOk
<1>17. ASSUME NEW n \in 0 .. len, NEW m \in 0 .. n
       PROVE  Leads(HeadAt(h1, m), Span(l1, m, n), HeadAt(h1, n))
  <2>1. m \in 0 .. len
    OBVIOUS
  <2>2. Span(l1, m, n) = Span(l, m, n)
    BY <1>2, <1>4, <1>6, SpanAppend
  <2> QED
    BY <1>2, <1>9, <2>1, <2>2 DEF LogOk
<1>18. ASSUME NEW m \in 0 .. len
       PROVE  Leads(HeadAt(h1, m), Span(l1, m, len + 1), HeadAt(h1, len + 1))
  <2>1. Leads(HeadAt(h1, m), Span(l1, m, len), HeadAt(h1, len)) /\ HeadAt(h1, len) = S
    BY <1>3, <1>9, <1>17
  <2>2. Span(l1, len, len + 1) = Single(e)
    <3>1. len \in 0 .. len
      OBVIOUS
    <3> QED
      BY <1>2, <1>4, <1>6, <3>1, SpanAppend
  <2>3. Span(l1, m, len) \o Span(l1, len, len + 1) = Span(l1, m, len + 1)
    <3>1. len + 1 \in 0 .. Len(l1) /\ len \in 0 .. len + 1
      BY <1>7
    <3>2. IsSeq(l1)
      BY <1>7 DEF EntriesOk
    <3> QED
      BY <3>1, <3>2, SpanConcat
  <2>4. Place(HeadAt(h1, m))
    BY <1>16
  <2>5. Leads(HeadAt(h1, m), Span(l1, m, len) \o Single(e), r)
    BY <1>10, <1>13, <2>1, <2>4, LeadsConcat
  <2> QED
    BY <1>9, <2>2, <2>3, <2>5
<1>19. Leads(HeadAt(h1, len + 1), Span(l1, len + 1, len + 1), HeadAt(h1, len + 1))
  <2>1. IsSeq(l1) /\ len + 1 \in 0 .. Len(l1)
    BY <1>7 DEF EntriesOk
  <2>2. Span(l1, len + 1, len + 1) = <<>>
    BY <2>1, SpanNone
  <2> QED
    BY <1>9, <1>14, <2>2, LeadsNowhere
<1>20. ASSUME NEW n \in 0 .. len + 1, NEW m \in 0 .. n
       PROVE  Leads(HeadAt(h1, m), Span(l1, m, n), HeadAt(h1, n))
  <2>1. CASE n \in 0 .. len
    BY <1>17, <2>1
  <2>2. CASE n = len + 1 /\ m \in 0 .. len
    BY <1>18, <2>2
  <2>3. CASE n = len + 1 /\ m = len + 1
    BY <1>19, <2>3
  <2> QED
    BY <2>1, <2>2, <2>3
<1>21. HeadAt(h1, 0) = Origin
  <2>1. 0 \in 0 .. len
    OBVIOUS
  <2> QED
    BY <1>9, <2>1 DEF LogOk
<1>22. LogOk(l1, h1)
  BY <1>1, <1>2, <1>7, <1>8, <1>16, <1>20, <1>21 DEF LogOk
<1> QED
  BY <1>2, <1>4, <1>5, <1>7, <1>9, <1>22

-----------------------------------------------------------------------------
(* What holds of the segments *)

\* Where held[i] starts, in entries of the log.
FromAt(e, i) == IF i = 1 THEN 0 ELSE e[i - 1]

LastEnd(e) == IF e = <<>> THEN 0 ELSE e[Len(e)]

\* A segment of the log's entries w, from S to E.
HoldsAt(seg, S, w, E, G) ==
    \E g : Leads(S, g, E) /\ Packaged(seg, S, g, E) /\ Kept(g, w, Len(S.chain), G)

HoldsFrom(l, h, m, n, G, seg) == HoldsAt(seg, HeadAt(h, m), Span(l, m, n), HeadAt(h, n), G)

EndsOk(s, e, len) ==
    /\ IsSeq(s) /\ IsSeq(e) /\ Len(s) = Len(e)
    /\ \A i \in 1 .. Len(e) : e[i] \in 0 .. len
    /\ \A i, j \in 1 .. Len(e) : i <= j => e[i] <= e[j]

HeldOk(l, h, s, e, G) ==
    \A i \in 1 .. Len(s) : HoldsFrom(l, h, FromAt(e, i), e[i], G, s[i])

\* Only what is in a segment is expunged.
GoneOk(h, e, G) ==
    \A x \in G : x \in Nat /\ x < Len(HeadAt(h, LastEnd(e)).chain)

\* The ends are in order, so that each segment starts where its neighbour
\* ended.
LEMMA EndsIs ==
    ASSUME NEW s, NEW e, NEW len \in Nat, EndsOk(s, e, len)
    PROVE  /\ IsSeq(s) /\ IsSeq(e) /\ Len(s) \in Nat /\ Len(e) = Len(s)
           /\ LastEnd(e) \in 0 .. len
           /\ \A i \in 1 .. Len(s) :
                 /\ e[i] \in 0 .. len /\ FromAt(e, i) \in 0 .. e[i] /\ FromAt(e, i) \in 0 .. len
                 /\ e[i] \in 0 .. LastEnd(e)
           /\ \A i, j \in 1 .. Len(s) : i < j => e[i] \in 0 .. FromAt(e, j)
<1>1. IsSeq(s) /\ IsSeq(e) /\ Len(s) = Len(e)
  BY DEF EndsOk
<1>2. Len(e) \in Nat /\ (Len(e) = 0 <=> e = <<>>)
  BY <1>1, LengthIs
<1>3. \A i \in 1 .. Len(e) : e[i] \in 0 .. len
  BY DEF EndsOk
<1>4. \A i, j \in 1 .. Len(e) : i <= j => e[i] <= e[j]
  BY DEF EndsOk
<1>5. LastEnd(e) \in 0 .. len
  BY <1>2, <1>3 DEF LastEnd
<1>6. ASSUME NEW i \in 1 .. Len(e)
      PROVE  /\ e[i] \in 0 .. len /\ FromAt(e, i) \in 0 .. e[i] /\ FromAt(e, i) \in 0 .. len
             /\ e[i] \in 0 .. LastEnd(e)
  <2>1. e[i] \in 0 .. len
    BY <1>3
  <2>2. i = 1 => FromAt(e, i) \in 0 .. e[i] /\ FromAt(e, i) \in 0 .. len
    BY <2>1 DEF FromAt
  <2>3. ASSUME i # 1 PROVE FromAt(e, i) \in 0 .. e[i] /\ FromAt(e, i) \in 0 .. len
    <3>1. i - 1 \in 1 .. Len(e) /\ i - 1 <= i
      BY <1>2, <2>3
    <3>2. e[i - 1] <= e[i] /\ e[i - 1] \in 0 .. len
      BY <1>3, <1>4, <3>1
    <3> QED
      BY <2>1, <2>3, <3>2 DEF FromAt
  <2>4. Len(e) \in 1 .. Len(e) /\ i <= Len(e) /\ e # <<>>
    BY <1>2
  <2>5. e[i] <= e[Len(e)] /\ e[Len(e)] \in 0 .. len
    BY <1>3, <1>4, <2>4
  <2>6. e[i] \in 0 .. LastEnd(e)
    BY <2>1, <2>4, <2>5 DEF LastEnd
  <2> QED
    BY <2>1, <2>2, <2>3, <2>6
<1>7. ASSUME NEW i \in 1 .. Len(e), NEW j \in 1 .. Len(e), i < j
      PROVE  e[i] \in 0 .. FromAt(e, j)
  <2>1. j - 1 \in 1 .. Len(e) /\ i <= j - 1 /\ j # 1
    BY <1>2, <1>7
  <2>2. e[i] <= e[j - 1]
    BY <1>4, <2>1
  <2>3. e[i] \in 0 .. len /\ e[j - 1] \in 0 .. len
    BY <1>3, <2>1
  <2> QED
    BY <2>1, <2>2, <2>3 DEF FromAt
<1> QED
  BY <1>1, <1>2, <1>5, <1>6, <1>7

\* The chain never gets shorter along the log.
LEMMA ChainGrows ==
    ASSUME NEW l, NEW h, LogOk(l, h), NEW n \in 0 .. Len(l), NEW m \in 0 .. n
    PROVE  /\ Len(HeadAt(h, m).chain) \in Nat /\ Len(HeadAt(h, n).chain) \in Nat
           /\ Len(HeadAt(h, m).chain) <= Len(HeadAt(h, n).chain)
<1>1. /\ Len(HeadAt(h, m).chain) \in Nat
      /\ Len(NoSignatures(Span(l, m, n))) \in Nat
      /\ Len(HeadAt(h, n).chain) = Len(HeadAt(h, m).chain) + Len(NoSignatures(Span(l, m, n)))
  BY LogLengths
<1> QED
  BY <1>1

LogInv(l, h, s, e, G) ==
    LogOk(l, h) /\ EndsOk(s, e, Len(l)) /\ HeldOk(l, h, s, e, G) /\ GoneOk(h, e, G)

\* The parts of the invariant.
LEMMA InvIs ==
    ASSUME NEW l, NEW h, NEW s, NEW e, NEW G, LogInv(l, h, s, e, G)
    PROVE  /\ LogOk(l, h) /\ EndsOk(s, e, Len(l)) /\ HeldOk(l, h, s, e, G) /\ GoneOk(h, e, G)
           /\ Len(l) \in Nat
BY LogIs DEF LogInv

\* The author writes an entry.
LEMMA InvWrites ==
    ASSUME NEW l, NEW h, NEW s, NEW e, NEW G, LogInv(l, h, s, e, G), NEW y, Entry(y),
           y.is = "signature" => y.of = HeadAt(h, Len(l)).chain,
           NEW r, r.chain = Opaque(HeadAt(h, Len(l)), Single(y)).chain,
           r.cipher = Opaque(HeadAt(h, Len(l)), Single(y)).cipher
    PROVE  LogInv(Append(l, y), Append(h, r), s, e, G)
<1>1. /\ LogOk(l, h) /\ EndsOk(s, e, Len(l)) /\ HeldOk(l, h, s, e, G) /\ GoneOk(h, e, G)
      /\ Len(l) \in Nat
  BY InvIs
<1>2. PICK l1 : l1 = Append(l, y)
  OBVIOUS
<1>3. PICK h1 : h1 = Append(h, r)
  OBVIOUS
<1>4. /\ LogOk(l1, h1) /\ Len(l1) = Len(l) + 1
      /\ \A n \in 0 .. Len(l) : HeadAt(h1, n) = HeadAt(h, n)
  BY <1>1, <1>2, <1>3, LogAppend
<1>5. IsSeq(l)
  BY <1>1, LogIs
<1>6. EndsOk(s, e, Len(l1))
  BY <1>1, <1>4 DEF EndsOk
<1>7. /\ Len(s) \in Nat /\ LastEnd(e) \in 0 .. Len(l)
      /\ \A i \in 1 .. Len(s) :
            e[i] \in 0 .. Len(l) /\ FromAt(e, i) \in 0 .. e[i] /\ FromAt(e, i) \in 0 .. Len(l)
  BY <1>1, EndsIs
<1>8. ASSUME NEW i \in 1 .. Len(s)
      PROVE  HoldsFrom(l1, h1, FromAt(e, i), e[i], G, s[i])
  <2>1. PICK m : m = FromAt(e, i)
    OBVIOUS
  <2>2. PICK n : n = e[i]
    OBVIOUS
  <2>3. n \in 0 .. Len(l) /\ m \in 0 .. n /\ m \in 0 .. Len(l)
    BY <1>7, <2>1, <2>2
  <2>4. HeadAt(h1, m) = HeadAt(h, m) /\ HeadAt(h1, n) = HeadAt(h, n)
    BY <1>4, <2>3
  <2>5. Span(l1, m, n) = Span(l, m, n)
    BY <1>2, <1>5, <2>3, SpanAppend
  <2>6. HoldsFrom(l, h, m, n, G, s[i])
    BY <1>1, <2>1, <2>2 DEF HeldOk
  <2> QED
    BY <2>1, <2>2, <2>4, <2>5, <2>6 DEF HoldsFrom
<1>9. HeldOk(l1, h1, s, e, G)
  BY <1>8 DEF HeldOk
<1>10. GoneOk(h1, e, G)
  BY <1>1, <1>4, <1>7 DEF GoneOk
<1> QED
  BY <1>2, <1>3, <1>4, <1>6, <1>9, <1>10 DEF LogInv

\* What is new becomes a segment.
LEMMA InvCuts ==
    ASSUME NEW l, NEW h, NEW s, NEW e, NEW G, LogInv(l, h, s, e, G), NEW seg,
           Packaged(seg, HeadAt(h, LastEnd(e)), Span(l, LastEnd(e), Len(l)), HeadAt(h, Len(l)))
    PROVE  LogInv(l, h, Append(s, seg), Append(e, Len(l)), G)
<1>1. /\ LogOk(l, h) /\ EndsOk(s, e, Len(l)) /\ HeldOk(l, h, s, e, G) /\ GoneOk(h, e, G)
      /\ Len(l) \in Nat
  BY InvIs
<1>2. PICK len \in Nat : len = Len(l)
  BY <1>1
<1>3. PICK m : m = LastEnd(e)
  OBVIOUS
<1>4. PICK s1 : s1 = Append(s, seg)
  OBVIOUS
<1>5. PICK e1 : e1 = Append(e, len)
  OBVIOUS
<1>6. /\ IsSeq(s) /\ IsSeq(e) /\ Len(s) \in Nat /\ Len(e) = Len(s) /\ m \in 0 .. len
      /\ \A i \in 1 .. Len(s) : e[i] \in 0 .. len
  BY <1>1, <1>2, <1>3, EndsIs
<1>7. /\ IsSeq(s1) /\ Len(s1) = Len(s) + 1 /\ s1[Len(s) + 1] = seg
      /\ \A i \in 1 .. Len(s) : s1[i] = s[i]
  BY <1>4, <1>6, AppendIs
<1>8. /\ IsSeq(e1) /\ Len(e1) = Len(e) + 1 /\ e1[Len(e) + 1] = len
      /\ \A i \in 1 .. Len(e) : e1[i] = e[i]
      /\ e1 # <<>>
  BY <1>5, <1>6, AppendIs
<1>9. \A i, j \in 1 .. Len(e) : i <= j => e[i] <= e[j]
  BY <1>1 DEF EndsOk
<1>10. \A i \in 1 .. Len(e1) : i \in 1 .. Len(e) \/ i = Len(e) + 1
  BY <1>6, <1>8
<1>11. \A i \in 1 .. Len(e1) : e1[i] \in 0 .. len
  <2>1. len \in 0 .. len
    OBVIOUS
  <2> QED
    BY <1>6, <1>8, <1>10, <2>1
<1>12. ASSUME NEW i \in 1 .. Len(e1), NEW j \in 1 .. Len(e1), i <= j
       PROVE  e1[i] <= e1[j]
  <2>1. CASE j = Len(e) + 1
    BY <1>8, <1>11, <2>1
  <2>2. CASE j \in 1 .. Len(e)
    <3>1. i \in 1 .. Len(e)
      BY <1>6, <1>12, <2>2
    <3> QED
      BY <1>8, <1>9, <1>12, <2>2, <3>1
  <2> QED
    BY <1>10, <2>1, <2>2
<1>13. EndsOk(s1, e1, len)
  BY <1>6, <1>7, <1>8, <1>11, <1>12 DEF EndsOk
<1>14. FromAt(e1, Len(e) + 1) = m
  <2>1. CASE Len(e) = 0
    <3>1. e = <<>>
      BY <1>6, <2>1, LengthIs
    <3> QED
      BY <1>3, <2>1, <3>1 DEF FromAt, LastEnd
  <2>2. CASE Len(e) # 0
    <3>1. e # <<>>
      BY <2>2, LengthIs
    <3>2. Len(e) \in 1 .. Len(e) /\ (Len(e) + 1) - 1 = Len(e) /\ Len(e) + 1 # 1
      BY <1>6, <2>2
    <3> QED
      BY <1>3, <1>8, <3>1, <3>2 DEF FromAt, LastEnd
  <2> QED
    BY <2>1, <2>2
<1>15. \A i \in 1 .. Len(e) : FromAt(e1, i) = FromAt(e, i)
  <2> SUFFICES ASSUME NEW i \in 1 .. Len(e) PROVE FromAt(e1, i) = FromAt(e, i)
    OBVIOUS
  <2>1. i # 1 => i - 1 \in 1 .. Len(e)
    BY <1>6
  <2> QED
    BY <1>8, <2>1 DEF FromAt
<1>16. HoldsFrom(l, h, m, len, G, seg)
  <2>1. Leads(HeadAt(h, m), Span(l, m, len), HeadAt(h, len))
    BY <1>1, <1>2, <1>6, <1>2, LogLengths
  <2>2. EntriesOk(Span(l, m, len))
    BY <2>1 DEF Leads
  <2>3. PICK g : g = Span(l, m, len)
    OBVIOUS
  <2>4. Len(NoSignatures(g)) \in Nat /\ Len(HeadAt(h, m).chain) \in Nat
        /\ Len(HeadAt(h, m).chain) = Len(HeadAt(h, LastEnd(e)).chain)
    <3>1. m \in 0 .. len /\ len \in 0 .. Len(l)
      BY <1>2, <1>6
    <3> QED
      BY <1>1, <1>3, <2>3, <3>1, LogLengths
  <2>5. Kept(g, g, Len(HeadAt(h, m).chain), G)
    <3> SUFFICES ASSUME NEW n \in 1 .. Len(NoSignatures(g))
                 PROVE  Len(HeadAt(h, m).chain) + n - 1 \notin G
      BY DEF Kept
    <3> QED
      BY <1>1, <2>4 DEF GoneOk
  <2>6. Packaged(seg, HeadAt(h, m), g, HeadAt(h, len))
    BY <1>2, <1>3, <2>3
  <2> QED
    BY <2>1, <2>3, <2>5, <2>6 DEF HoldsFrom, HoldsAt
<1>17. ASSUME NEW i \in 1 .. Len(s1)
       PROVE  HoldsFrom(l, h, FromAt(e1, i), e1[i], G, s1[i])
  <2>1. CASE i \in 1 .. Len(s)
    <3>1. FromAt(e1, i) = FromAt(e, i) /\ e1[i] = e[i] /\ s1[i] = s[i]
      BY <1>6, <1>7, <1>8, <1>15, <2>1
    <3>2. HoldsFrom(l, h, FromAt(e, i), e[i], G, s[i])
      BY <1>1, <2>1 DEF HeldOk
    <3> QED
      BY <3>1, <3>2
  <2>2. CASE i = Len(s) + 1
    <3>1. FromAt(e1, i) = m /\ e1[i] = len /\ s1[i] = seg
      BY <1>6, <1>7, <1>8, <1>14, <2>2
    <3> QED
      BY <1>16, <3>1
  <2> QED
    BY <1>6, <1>7, <2>1, <2>2
<1>18. HeldOk(l, h, s1, e1, G)
  BY <1>17 DEF HeldOk
<1>19. LastEnd(e1) = len
  BY <1>8 DEF LastEnd
<1>20. GoneOk(h, e1, G)
  <2>1. m \in 0 .. len /\ len \in 0 .. Len(l)
    BY <1>2, <1>6
  <2>2. /\ Len(HeadAt(h, m).chain) \in Nat /\ Len(HeadAt(h, len).chain) \in Nat
        /\ Len(HeadAt(h, m).chain) <= Len(HeadAt(h, len).chain)
    BY <1>1, <2>1, ChainGrows
  <2>3. \A x \in G : x \in Nat /\ x < Len(HeadAt(h, m).chain)
    BY <1>1, <1>3 DEF GoneOk
  <2>4. \A x \in G : x \in Nat /\ x < Len(HeadAt(h, len).chain)
    BY <2>2, <2>3
  <2> QED
    BY <1>19, <2>4 DEF GoneOk
<1> QED
  BY <1>1, <1>2, <1>4, <1>5, <1>13, <1>18, <1>20 DEF LogInv

\* One segment is packaged again.
LEMMA InvReplaces ==
    ASSUME NEW l, NEW h, NEW s, NEW e, NEW G, LogInv(l, h, s, e, G), NEW i \in 1 .. Len(s),
           NEW seg, HoldsFrom(l, h, FromAt(e, i), e[i], G, seg)
    PROVE  LogInv(l, h, Exchanged(s, i, seg), e, G)
<1>1. /\ LogOk(l, h) /\ EndsOk(s, e, Len(l)) /\ HeldOk(l, h, s, e, G) /\ GoneOk(h, e, G)
      /\ Len(l) \in Nat
  BY InvIs
<1>2. PICK s1 : s1 = Exchanged(s, i, seg)
  OBVIOUS
<1>3. IsSeq(s)
  BY <1>1 DEF EndsOk
<1>4. IsSeq(s1) /\ Len(s1) = Len(s) /\ s1[i] = seg /\ \A k \in 1 .. Len(s) : k # i => s1[k] = s[k]
  BY <1>2, <1>3, ExchangedIs
<1>5. EndsOk(s1, e, Len(l))
  BY <1>1, <1>4 DEF EndsOk
<1>6. HeldOk(l, h, s1, e, G)
  BY <1>1, <1>4 DEF HeldOk
<1> QED
  BY <1>1, <1>2, <1>5, <1>6 DEF LogInv

\* The a places from x on, and the b places from y on.
Apart(x, a, y, b) == \A m \in 1 .. a, n \in 1 .. b : x + m - 1 # y + n - 1

\* The chain of E is a links longer than that of S.
Grows(S, E, a) == a \in Nat /\ Len(E.chain) = Len(S.chain) + a

\* Two segments share no place in the chain.
LEMMA ElsewhereIs ==
    ASSUME NEW l, NEW h, LogOk(l, h), NEW s, NEW e, EndsOk(s, e, Len(l)),
           NEW i \in 1 .. Len(s), NEW k \in 1 .. Len(s), i # k,
           NEW a, Grows(HeadAt(h, FromAt(e, i)), HeadAt(h, e[i]), a),
           NEW b, Grows(HeadAt(h, FromAt(e, k)), HeadAt(h, e[k]), b)
    PROVE  Apart(Len(HeadAt(h, FromAt(e, i)).chain), a, Len(HeadAt(h, FromAt(e, k)).chain), b)
<1>1. Len(l) \in Nat
  BY LogIs
<1>2. /\ Len(s) \in Nat
      /\ \A j \in 1 .. Len(s) :
            e[j] \in 0 .. Len(l) /\ FromAt(e, j) \in 0 .. e[j] /\ FromAt(e, j) \in 0 .. Len(l)
      /\ \A j, n \in 1 .. Len(s) : j < n => e[j] \in 0 .. FromAt(e, n)
  BY <1>1, EndsIs
<1>3. PICK ei : ei = e[i]
  OBVIOUS
<1>4. PICK ek : ek = e[k]
  OBVIOUS
<1>5. PICK fi : fi = FromAt(e, i)
  OBVIOUS
<1>6. PICK fk : fk = FromAt(e, k)
  OBVIOUS
<1>7. /\ ei \in 0 .. Len(l) /\ ek \in 0 .. Len(l) /\ fi \in 0 .. Len(l) /\ fk \in 0 .. Len(l)
      /\ fi \in 0 .. ei /\ fk \in 0 .. ek
      /\ i < k => ei \in 0 .. fk
      /\ k < i => ek \in 0 .. fi
  BY <1>2, <1>3, <1>4, <1>5, <1>6
<1>8. Len(HeadAt(h, fi).chain) \in Nat /\ Len(HeadAt(h, fk).chain) \in Nat
      /\ Len(HeadAt(h, ei).chain) \in Nat /\ Len(HeadAt(h, ek).chain) \in Nat
  BY <1>7, ChainGrows
<1>9. i < k => Len(HeadAt(h, ei).chain) <= Len(HeadAt(h, fk).chain)
  BY <1>7, ChainGrows
<1>10. k < i => Len(HeadAt(h, ek).chain) <= Len(HeadAt(h, fi).chain)
  BY <1>7, ChainGrows
<1>11. /\ Len(HeadAt(h, ei).chain) = Len(HeadAt(h, fi).chain) + a
       /\ Len(HeadAt(h, ek).chain) = Len(HeadAt(h, fk).chain) + b
       /\ a \in Nat /\ b \in Nat
  BY <1>3, <1>4, <1>5, <1>6 DEF Grows
<1>12. i < k \/ k < i
  BY <1>2
<1> HIDE DEF HeadAt
<1>13. PICK x : x = Len(HeadAt(h, fi).chain)
  OBVIOUS
<1>14. PICK y : y = Len(HeadAt(h, fk).chain)
  OBVIOUS
<1>15. x \in Nat /\ y \in Nat /\ (i < k => x + a <= y) /\ (k < i => y + b <= x)
       /\ a \in Nat /\ b \in Nat
  BY <1>8, <1>9, <1>10, <1>11, <1>13, <1>14
<1>16. Apart(x, a, y, b)
  BY <1>12, <1>15 DEF Apart
<1> QED
  BY <1>5, <1>6, <1>13, <1>14, <1>16

\* What is expunged from one segment is in no other.
LEMMA HoldsElsewhere ==
    ASSUME NEW l, NEW h, LogOk(l, h), NEW s, NEW e, EndsOk(s, e, Len(l)), NEW G,
           NEW i \in 1 .. Len(s), NEW k \in 1 .. Len(s), i # k,
           NEW a, Grows(HeadAt(h, FromAt(e, i)), HeadAt(h, e[i]), a),
           NEW m \in 1 .. a, NEW index, index = Len(HeadAt(h, FromAt(e, i)).chain) + m - 1,
           NEW seg, HoldsFrom(l, h, FromAt(e, k), e[k], G, seg)
    PROVE  HoldsFrom(l, h, FromAt(e, k), e[k], G \cup {index}, seg)
<1>1. PICK S : S = HeadAt(h, FromAt(e, k))
  OBVIOUS
<1>2. PICK E : E = HeadAt(h, e[k])
  OBVIOUS
<1>3. PICK w : w = Span(l, FromAt(e, k), e[k])
  OBVIOUS
<1>4. PICK g : Leads(S, g, E) /\ Packaged(seg, S, g, E) /\ Kept(g, w, Len(S.chain), G)
  BY <1>1, <1>2, <1>3 DEF HoldsFrom, HoldsAt
<1>5. Place(S)
  <2>1. Len(l) \in Nat
    BY LogIs
  <2>2. FromAt(e, k) \in 0 .. Len(l)
    BY <2>1, EndsIs
  <2> QED
    BY <1>1, <2>2 DEF LogOk
<1>6. PICK b : b = Len(NoSignatures(g))
  OBVIOUS
<1>7. b \in Nat
  BY <1>4, <1>6, UnsignedIs DEF Leads
<1>8. Len(E.chain) = Len(S.chain) + b
  BY <1>4, <1>5, <1>6, LeadsLength
<1>9. Grows(HeadAt(h, FromAt(e, k)), HeadAt(h, e[k]), b)
  BY <1>1, <1>2, <1>7, <1>8 DEF Grows
<1>10. Apart(Len(HeadAt(h, FromAt(e, i)).chain), a, Len(HeadAt(h, FromAt(e, k)).chain), b)
  BY <1>9, ElsewhereIs
<1>11. \A n \in 1 .. Len(NoSignatures(g)) : Len(S.chain) + n - 1 # index
  <2>1. PICK x : x = Len(HeadAt(h, FromAt(e, i)).chain)
    OBVIOUS
  <2>2. PICK y : y = Len(S.chain)
    OBVIOUS
  <2>3. Apart(x, a, y, b)
    BY <1>1, <1>10, <2>1, <2>2
  <2>4. \A n \in 1 .. b : x + m - 1 # y + n - 1
    BY <2>3 DEF Apart
  <2>5. index = x + m - 1
    BY <2>1
  <2> QED
    BY <1>6, <2>2, <2>4, <2>5
<1>12. PICK at : at = Len(S.chain)
  OBVIOUS
<1>13. Kept(g, w, at, G \cup {index})
  BY <1>4, <1>11, <1>12, KeptElsewhere
<1> QED
  BY <1>1, <1>2, <1>3, <1>4, <1>12, <1>13 DEF HoldsFrom, HoldsAt

Within(S, E, index) ==
    \E a, m : Grows(S, E, a) /\ m \in 1 .. a /\ index = Len(S.chain) + m - 1

\* The op at n gives way to its hash, x, and that makes seg1 of seg.
ExpungedAt(seg, n, index, x, seg1) ==
    /\ seg.form = "opaque" /\ n \in 1 .. Len(seg.entries) /\ seg.entries[n].is = "op"
    /\ index = Len(seg.prev) + Len(NoSignatures(SubSeq(seg.entries, 1, n - 1)))
    /\ x = Expunged(EntryHash(seg.entries[n], index))
    /\ seg1 = [seg EXCEPT !.entries = Exchanged(seg.entries, n, x)]

\* The segment an op is expunged from.
LEMMA HoldsExpunged ==
    ASSUME NEW S, Place(S), NEW E, Place(E), NEW w, NEW G, NEW seg, HoldsAt(seg, S, w, E, G),
           NEW n, NEW index, NEW x, NEW seg1, ExpungedAt(seg, n, index, x, seg1)
    PROVE  /\ HoldsAt(seg1, S, w, E, G \cup {index})
           /\ Within(S, E, index)
<1>1. PICK g : Leads(S, g, E) /\ Packaged(seg, S, g, E) /\ Kept(g, w, Len(S.chain), G)
  BY DEF HoldsAt
<1>2. SegmentOf(seg, S, g, E)
  BY <1>1, SegmentIs
<1>3. PICK out : out = Opaque(S, g).out
  OBVIOUS
<1>4. /\ seg = EncodeOpaque(E.chain, S.chain, S.cipher, out) /\ seg.entries = out
      /\ seg.prev = S.chain
  BY <1>2, <1>3 DEF SegmentOf, ExpungedAt
<1>5. EntriesOk(g) /\ IsSeq(g) /\ IsSeq(out) /\ Len(out) = Len(g) /\ (SetsFirst(out) <=> SetsFirst(g))
  <2>1. EntriesOk(g)
    BY <1>1 DEF Leads
  <2> QED
    BY <1>3, <2>1, OpaqueOk, SetsFirstOpaque DEF EntriesOk
<1>6. n \in 1 .. Len(g)
  BY <1>4, <1>5 DEF ExpungedAt
<1>7. Redaction(S, Opaque(S, g).out, n, index, x)
  BY <1>3, <1>4 DEF Redaction, ExpungedAt
<1>8. PICK k, p, q : Redacted(S, E, g, Opaque(S, g).out, n, index, x, k, p, q)
  BY <1>1, <1>6, <1>7, ExpungedIs
<1>9. PICK out1 : out1 = Exchanged(out, n, x)
  OBVIOUS
<1>10. Leads(S, k, E) /\ Opaque(S, k).out = out1 /\ (SetsFirst(k) <=> SetsFirst(g))
  BY <1>3, <1>8, <1>9 DEF Redacted
<1>11. EntriesOk(k)
  BY <1>10 DEF Leads
<1>12. SetsFirst(out1) <=> SetsFirst(out)
  BY <1>5, <1>10, <1>11, SetsFirstOpaque
<1>13. Packaged(seg1, S, k, E)
  <2>1. StartCipher(S.cipher, out1) = StartCipher(S.cipher, out)
    BY <1>12 DEF StartCipher, SetsFirst
  <2>2. seg1 = [seg EXCEPT !.entries = out1]
    BY <1>4, <1>9 DEF ExpungedAt
  <2>3. seg1 = EncodeOpaque(E.chain, S.chain, S.cipher, out1)
    BY <1>4, <2>1, <2>2 DEF EncodeOpaque
  <2> QED
    BY <1>10, <2>3 DEF Packaged
<1>14. PICK at : at = Len(S.chain)
  OBVIOUS
<1>15. at \in Nat
  BY <1>14, LengthIs DEF Place
<1>16. IsSeq(p) /\ IsSeq(q) /\ index = at + Len(p) /\ x.is = "expunged"
  BY <1>8, <1>14 DEF Redacted
<1>17. PICK y : y = g[n]
  OBVIOUS
<1>18. NoSignatures(g) = (p \o <<y>>) \o q
  BY <1>8, <1>17 DEF Redacted, Spliced, Single
<1>19. NoSignatures(k) = (p \o <<x>>) \o q
  BY <1>8 DEF Redacted, Spliced, Single
<1>20. Kept(k, w, at, G \cup {index})
  BY <1>1, <1>14, <1>15, <1>16, <1>18, <1>19, KeptExpunged
<1>21. HoldsAt(seg1, S, w, E, G \cup {index})
  BY <1>10, <1>13, <1>14, <1>20 DEF HoldsAt
<1>22. Len(NoSignatures(g)) = Len(p) + 1 + Len(q) /\ Len(p) \in Nat /\ Len(q) \in Nat
  <2>1. NoSignatures(g) = Spliced(p, y, q)
    BY <1>18 DEF Spliced, Single
  <2>2. Len(Spliced(p, y, q)) = Len(p) + 1 + Len(q)
    BY <1>16, SplicedIs
  <2> QED
    BY <1>16, <2>1, <2>2, LengthIs
<1>23. PICK a : a = Len(NoSignatures(g))
  OBVIOUS
<1>24. Len(E.chain) = at + a
  BY <1>1, <1>14, <1>23, LeadsLength
<1>25. PICK lp \in Nat : lp = Len(p)
  BY <1>22
<1>26. PICK lq \in Nat : lq = Len(q)
  BY <1>22
<1>27. a = lp + 1 + lq /\ index = at + lp
  BY <1>16, <1>22, <1>23, <1>25, <1>26
<1>28. a \in Nat /\ lp + 1 \in 1 .. a /\ index = at + (lp + 1) - 1
  BY <1>15, <1>27
<1>29. Grows(S, E, a)
  BY <1>14, <1>24, <1>28 DEF Grows
<1> QED
  BY <1>14, <1>21, <1>28, <1>29 DEF Within

\* An op is expunged from one of the segments.
LEMMA InvExpunges ==
    ASSUME NEW l, NEW h, NEW s, NEW e, NEW G, LogInv(l, h, s, e, G), NEW i \in 1 .. Len(s),
           NEW n, NEW index, NEW x, NEW seg1, ExpungedAt(s[i], n, index, x, seg1)
    PROVE  LogInv(l, h, Exchanged(s, i, seg1), e, G \cup {index})
<1>1. /\ LogOk(l, h) /\ EndsOk(s, e, Len(l)) /\ HeldOk(l, h, s, e, G) /\ GoneOk(h, e, G)
      /\ Len(l) \in Nat
  BY InvIs
<1>2. PICK G1 : G1 = G \cup {index}
  OBVIOUS
<1>3. PICK s1 : s1 = Exchanged(s, i, seg1)
  OBVIOUS
<1>4. /\ IsSeq(s) /\ LastEnd(e) \in 0 .. Len(l)
      /\ e[i] \in 0 .. Len(l) /\ FromAt(e, i) \in 0 .. e[i] /\ FromAt(e, i) \in 0 .. Len(l)
      /\ e[i] \in 0 .. LastEnd(e)
  BY <1>1, EndsIs
<1>5. IsSeq(s1) /\ Len(s1) = Len(s) /\ s1[i] = seg1 /\ \A k \in 1 .. Len(s) : k # i => s1[k] = s[k]
  BY <1>3, <1>4, ExchangedIs
<1>6. EndsOk(s1, e, Len(l))
  BY <1>1, <1>5 DEF EndsOk
<1>7. PICK S : S = HeadAt(h, FromAt(e, i))
  OBVIOUS
<1>8. PICK E : E = HeadAt(h, e[i])
  OBVIOUS
<1>9. PICK w : w = Span(l, FromAt(e, i), e[i])
  OBVIOUS
<1>10. Place(S) /\ Place(E)
  BY <1>1, <1>4, <1>7, <1>8 DEF LogOk
<1>11. PICK seg : seg = s[i]
  OBVIOUS
<1>12. HoldsAt(seg, S, w, E, G)
  BY <1>1, <1>7, <1>8, <1>9, <1>11 DEF HeldOk, HoldsFrom
<1>13. ExpungedAt(seg, n, index, x, seg1)
  BY <1>11
<1>14. /\ HoldsAt(seg1, S, w, E, G \cup {index})
       /\ Within(S, E, index)
  BY <1>10, <1>12, <1>13, HoldsExpunged
<1>15. PICK a, m : Grows(S, E, a) /\ m \in 1 .. a /\ index = Len(S.chain) + m - 1
  BY <1>14 DEF Within
<1>16. /\ Grows(HeadAt(h, FromAt(e, i)), HeadAt(h, e[i]), a) /\ m \in 1 .. a
       /\ index = Len(HeadAt(h, FromAt(e, i)).chain) + m - 1
  BY <1>7, <1>8, <1>15
<1>17. m \in 1 .. a
  BY <1>15
<1>18. ASSUME NEW k \in 1 .. Len(s)
       PROVE  HoldsFrom(l, h, FromAt(e, k), e[k], G1, s1[k])
  <2>1. CASE k = i
    BY <1>2, <1>5, <1>7, <1>8, <1>9, <1>14, <2>1 DEF HoldsFrom
  <2>2. CASE k # i
    <3>1. HoldsFrom(l, h, FromAt(e, k), e[k], G, s[k])
      BY <1>1 DEF HeldOk
    <3>2. HoldsFrom(l, h, FromAt(e, k), e[k], G \cup {index}, s[k])
      BY <1>1, <1>16, <1>17, <2>2, <3>1, HoldsElsewhere
    <3> QED
      BY <1>2, <1>5, <2>2, <3>2
  <2> QED
    BY <2>1, <2>2
<1>19. HeldOk(l, h, s1, e, G1)
  BY <1>5, <1>18 DEF HeldOk
<1>20. index \in Nat /\ index < Len(HeadAt(h, LastEnd(e)).chain)
  <2>1. Len(HeadAt(h, FromAt(e, i)).chain) \in Nat
    BY <1>1, <1>4, ChainGrows
  <2>2. Len(HeadAt(h, e[i]).chain) \in Nat /\ Len(HeadAt(h, LastEnd(e)).chain) \in Nat
        /\ Len(HeadAt(h, e[i]).chain) <= Len(HeadAt(h, LastEnd(e)).chain)
    BY <1>1, <1>4, ChainGrows
  <2>3. PICK u : u = Len(HeadAt(h, FromAt(e, i)).chain)
    OBVIOUS
  <2>4. PICK v : v = Len(HeadAt(h, e[i]).chain)
    OBVIOUS
  <2>5. a \in Nat /\ v = u + a /\ index = u + m - 1
    BY <1>16, <2>3, <2>4 DEF Grows
  <2>6. u \in Nat /\ index \in Nat /\ index < v
    BY <1>17, <2>1, <2>3, <2>5
  <2> QED
    BY <2>2, <2>4, <2>6
<1>21. GoneOk(h, e, G1)
  BY <1>1, <1>2, <1>20 DEF GoneOk
<1> QED
  BY <1>1, <1>2, <1>3, <1>6, <1>19, <1>21 DEF LogInv

\* What a join has collected is a piece of the log from S to E; u are the
\* entries of the first segment.
Collected(acc, S, E, w, G, u) ==
    /\ acc.ok = TRUE /\ acc.chain = E.chain /\ acc.cipher = E.cipher
    /\ Leads(S, acc.out, E) /\ Kept(acc.out, w, Len(S.chain), G)
    /\ SetsFirst(u) => SetsFirst(acc.out)

\* The first segment of a join.
LEMMA CollectFirst ==
    ASSUME NEW S, Place(S), NEW E, Place(E), NEW g, Leads(S, g, E), NEW seg,
           Packaged(seg, S, g, E), NEW w, NEW G, Kept(g, w, Len(S.chain), G), NEW acc,
           acc = At(Keys, EmptyChain, NoCipher)
    PROVE  Collected(JoinOne(TRUE, acc, seg, Keys), S, E, w, G, g)
<1>1. acc.ok = TRUE /\ acc.out = <<>>
  BY DEF At
<1>2. PICK next : next = JoinOne(TRUE, acc, seg, Keys)
  OBVIOUS
<1>3. JoinsOn(acc, g, E, next)
  <2>1. Ready(TRUE, acc, S)
    BY <1>1 DEF Ready
  <2> QED
    BY <1>2, <2>1, JoinOneIs
<1>4. EntriesOk(g) /\ IsSeq(g)
  BY DEF Leads, EntriesOk
<1>5. IsSeq(NoSignatures(g)) /\ (SetsFirst(g) => SetsFirst(NoSignatures(g)))
  BY <1>4, SetsFirstUnsigned
<1>6. PICK k : k = NoSignatures(g)
  OBVIOUS
<1>7. <<>> \o k = k
  BY <1>5, <1>6, LengthIs, ConcatIs
<1>8. Leads(S, k, E)
  BY <1>6, LeadsUnsigned
<1>9. PICK at : at = Len(S.chain)
  OBVIOUS
<1>10. Kept(k, w, at, G)
  BY <1>4, <1>6, <1>9, KeptUnsigned
<1>11. next.ok = TRUE /\ next.chain = E.chain /\ next.cipher = E.cipher /\ next.out = k
  BY <1>1, <1>3, <1>6, <1>7 DEF JoinsOn
<1>12. SetsFirst(g) => SetsFirst(k)
  BY <1>5, <1>6
<1>13. Collected(next, S, E, w, G, g)
  BY <1>8, <1>9, <1>10, <1>11, <1>12 DEF Collected
<1> QED
  BY <1>2, <1>13

\* Each next segment of a join: the chain goes on, and its entries are added.
LEMMA CollectNext ==
    ASSUME NEW S, Place(S), NEW M, Place(M), NEW E, Place(E), NEW g, Leads(M, g, E), NEW seg,
           Packaged(seg, M, g, E), NEW w, EntriesOk(w), NEW x, EntriesOk(x), NEW G,
           Kept(g, x, Len(M.chain), G), NEW acc, NEW u, Collected(acc, S, M, w, G, u)
    PROVE  Collected(JoinOne(FALSE, acc, seg, Keys), S, E, w \o x, G, u)
<1>1. acc.ok = TRUE /\ acc.chain = M.chain /\ acc.cipher = M.cipher
  BY DEF Collected
<1>2. PICK next : next = JoinOne(FALSE, acc, seg, Keys)
  OBVIOUS
<1>3. JoinsOn(acc, g, E, next)
  <2>1. Ready(FALSE, acc, M)
    BY <1>1 DEF Ready
  <2> QED
    BY <1>2, <2>1, JoinOneIs
<1>4. PICK k : k = NoSignatures(g)
  OBVIOUS
<1>5. PICK out : out = acc.out
  OBVIOUS
<1>6. Leads(S, out, M) /\ Kept(out, w, Len(S.chain), G) /\ (SetsFirst(u) => SetsFirst(out))
  BY <1>5 DEF Collected
<1>7. EntriesOk(g) /\ EntriesOk(out) /\ IsSeq(out)
  BY <1>6 DEF Leads, EntriesOk
<1>8. Leads(M, k, E) /\ EntriesOk(k) /\ IsSeq(k)
  BY <1>4, <1>7, LeadsUnsigned, UnsignedIs
<1>9. Leads(S, out \o k, E)
  BY <1>6, <1>8, LeadsConcat
<1>10. PICK at : at = Len(S.chain)
  OBVIOUS
<1>11. PICK on : on = Len(M.chain)
  OBVIOUS
<1>12. at \in Nat /\ on \in Nat
  BY <1>10, <1>11, LengthIs DEF Place
<1>13. on = at + Len(NoSignatures(out))
  BY <1>6, <1>10, <1>11, LeadsLength
<1>14. Kept(k, x, on, G)
  BY <1>4, <1>7, <1>11, KeptUnsigned
<1>15. Kept(out \o k, w \o x, at, G)
  BY <1>6, <1>7, <1>8, <1>10, <1>12, <1>13, <1>14, KeptConcat
<1>16. SetsFirst(u) => SetsFirst(out \o k)
  <2>1. SetsFirst(out \o k) <=> IF out = <<>> THEN SetsFirst(k) ELSE SetsFirst(out)
    BY <1>7, <1>8, SetsFirstConcat
  <2> QED
    BY <1>6, <2>1 DEF SetsFirst
<1>17. next.ok = TRUE /\ next.chain = E.chain /\ next.cipher = E.cipher /\ next.out = out \o k
  BY <1>3, <1>4, <1>5 DEF JoinsOn
<1>18. Collected(next, S, E, w \o x, G, u)
  BY <1>9, <1>10, <1>15, <1>16, <1>17 DEF Collected
<1> QED
  BY <1>2, <1>18

\* Neighbours from i to j, joined.
LEMMA JoinedHolds ==
    ASSUME NEW l, NEW h, NEW s, NEW e, NEW G, LogInv(l, h, s, e, G),
           NEW i \in 1 .. Len(s), NEW j \in 1 .. Len(s), i < j,
           NEW seg, seg = Join(SubSeq(s, i, j), Keys).segment
    PROVE  HoldsFrom(l, h, FromAt(e, i), e[j], G, seg)
<1>1. /\ LogOk(l, h) /\ EndsOk(s, e, Len(l)) /\ HeldOk(l, h, s, e, G) /\ GoneOk(h, e, G)
      /\ Len(l) \in Nat
  BY InvIs
<1>2. /\ IsSeq(s) /\ Len(s) \in Nat
      /\ \A k \in 1 .. Len(s) :
            e[k] \in 0 .. Len(l) /\ FromAt(e, k) \in 0 .. e[k] /\ FromAt(e, k) \in 0 .. Len(l)
      /\ \A k, n \in 1 .. Len(s) : k < n => e[k] \in 0 .. FromAt(e, n)
  BY <1>1, EndsIs
<1>3. PICK segs : segs = SubSeq(s, i, j)
  OBVIOUS
<1>4. PICK len \in Nat : len = j - i + 1
  BY <1>2
<1>5. IsSeq(segs) /\ Len(segs) = len /\ \A k \in 1 .. len : segs[k] = s[i + k - 1]
  <2>1. i \in 1 .. Len(s) + 1 /\ j \in i - 1 .. Len(s)
    BY <1>2
  <2> QED
    BY <1>2, <1>3, <1>4, <2>1, SubSeqIs
<1>6. PICK f : f = FromAt(e, i)
  OBVIOUS
<1>7. PICK S : S = HeadAt(h, f)
  OBVIOUS
<1>8. Place(S)
  BY <1>1, <1>2, <1>6, <1>7 DEF LogOk
<1>9. \A k \in 1 .. Len(s) : Place(HeadAt(h, FromAt(e, k))) /\ Place(HeadAt(h, e[k]))
  BY <1>1, <1>2 DEF LogOk
<1>10. HoldsAt(s[i], S, Span(l, f, e[i]), HeadAt(h, e[i]), G)
  BY <1>1, <1>6, <1>7 DEF HeldOk, HoldsFrom
<1>11. PICK u : /\ Leads(S, u, HeadAt(h, e[i])) /\ Packaged(s[i], S, u, HeadAt(h, e[i]))
                /\ Kept(u, Span(l, f, e[i]), Len(S.chain), G)
  BY <1>10 DEF HoldsAt
<1>12. PICK after : /\ JoinAll(segs, Keys) = after[Len(segs)]
                    /\ after[0] = At(Keys, EmptyChain, NoCipher)
                    /\ \A n \in 1 .. Len(segs) :
                          after[n] = JoinOne(n = 1, after[n - 1], segs[n], Keys)
  BY <1>5, JoinAllIs
<1> DEFINE P(n) == Collected(after[n], S, HeadAt(h, e[i + n - 1]), Span(l, f, e[i + n - 1]), G, u)
           T == {n \in Nat : n + 1 \in 1 .. len => P(n + 1)}
<1>13. \A n \in 1 .. len : i + n - 1 \in 1 .. Len(s)
  BY <1>2, <1>4
<1>14. P(1)
  <2>1. 1 \in 1 .. Len(segs) /\ i + 1 - 1 = i /\ 1 - 1 = 0 /\ 1 \in 1 .. len
    BY <1>2, <1>4, <1>5
  <2>2. after[1] = JoinOne(TRUE, after[0], segs[1], Keys)
    <3>1. after[1] = JoinOne(1 = 1, after[1 - 1], segs[1], Keys)
      BY <1>12, <2>1
    <3>2. (1 = 1) = TRUE
      OBVIOUS
    <3> QED
      BY <2>1, <3>1, <3>2
  <2>3. segs[1] = s[i]
    BY <1>5, <2>1
  <2>4. PICK acc : acc = after[0]
    OBVIOUS
  <2>5. Collected(JoinOne(TRUE, acc, s[i], Keys), S, HeadAt(h, e[i]), Span(l, f, e[i]), G, u)
    BY <1>8, <1>9, <1>11, <1>12, <2>4, CollectFirst
  <2> QED
    BY <2>1, <2>2, <2>3, <2>4, <2>5
<1>15. ASSUME NEW n \in 1 .. len, n + 1 \in 1 .. len, P(n)
       PROVE  P(n + 1)
  <2>1. PICK k \in 1 .. Len(s) : k = i + n - 1 /\ k + 1 \in 1 .. Len(s) /\ i + (n + 1) - 1 = k + 1
        /\ i <= k
    BY <1>2, <1>4, <1>13, <1>15
  <2>2. PICK m : m = e[k]
    OBVIOUS
  <2>3. PICK t : t = e[k + 1]
    OBVIOUS
  <2>4. FromAt(e, k + 1) = m
    BY <1>2, <2>1, <2>2 DEF FromAt
  <2>5. m \in 0 .. Len(l) /\ t \in 0 .. Len(l) /\ m \in 0 .. t /\ f \in 0 .. m
    <3>1. m \in 0 .. Len(l) /\ t \in 0 .. Len(l) /\ m \in 0 .. t
      BY <1>2, <2>1, <2>2, <2>3, <2>4
    <3>2. i = k => f \in 0 .. m
      BY <1>2, <1>6, <2>2
    <3>3. ASSUME i < k PROVE f \in 0 .. m
      <4>1. e[i] \in 0 .. FromAt(e, k) /\ FromAt(e, k) \in 0 .. e[k] /\ f \in 0 .. e[i]
        BY <1>2, <1>6, <2>1, <3>3
      <4>2. e[i] \in 0 .. Len(l) /\ FromAt(e, k) \in 0 .. Len(l) /\ e[k] \in 0 .. Len(l)
        BY <1>2, <2>1
      <4>3. PICK a \in 0 .. Len(l) : a = e[i]
        BY <4>2
      <4>4. PICK b \in 0 .. Len(l) : b = FromAt(e, k)
        BY <4>2
      <4>5. a \in 0 .. b /\ b \in 0 .. m /\ f \in 0 .. a
        BY <2>2, <4>1, <4>3, <4>4
      <4> QED
        BY <3>1, <4>5
    <3>4. i = k \/ i < k
      BY <1>2, <2>1
    <3> QED
      BY <3>1, <3>2, <3>3, <3>4
  <2>6. PICK M : M = HeadAt(h, m)
    OBVIOUS
  <2>7. PICK E : E = HeadAt(h, t)
    OBVIOUS
  <2>8. Place(M) /\ Place(E)
    BY <1>1, <2>5, <2>6, <2>7 DEF LogOk
  <2>9. PICK x : x = Span(l, m, t)
    OBVIOUS
  <2>10. PICK w : w = Span(l, f, m)
    OBVIOUS
  <2>11. EntriesOk(w) /\ EntriesOk(x)
    BY <1>1, <2>5, <2>9, <2>10, LogLengths
  <2>12. w \o x = Span(l, f, t)
    <3>1. IsSeq(l)
      BY <1>1, LogIs
    <3> QED
      BY <2>5, <2>9, <2>10, <3>1, SpanConcat
  <2>13. HoldsAt(s[k + 1], M, x, E, G)
    BY <1>1, <2>1, <2>3, <2>4, <2>6, <2>7, <2>9 DEF HeldOk, HoldsFrom
  <2>14. PICK g : Leads(M, g, E) /\ Packaged(s[k + 1], M, g, E) /\ Kept(g, x, Len(M.chain), G)
    BY <2>13 DEF HoldsAt
  <2>15. PICK acc : acc = after[n]
    OBVIOUS
  <2>16. Collected(acc, S, M, w, G, u)
    BY <1>15, <2>1, <2>2, <2>6, <2>10, <2>15
  <2>17. Collected(JoinOne(FALSE, acc, s[k + 1], Keys), S, E, w \o x, G, u)
    BY <1>8, <2>8, <2>11, <2>14, <2>16, CollectNext
  <2>18. after[n + 1] = JoinOne(FALSE, acc, s[k + 1], Keys)
    <3>1. n + 1 \in 1 .. Len(segs) /\ (n + 1) - 1 = n /\ (n + 1 = 1) = FALSE
      BY <1>5, <1>15
    <3>2. segs[n + 1] = s[k + 1]
      BY <1>5, <1>15, <2>1
    <3>3. after[n + 1] = JoinOne(n + 1 = 1, after[(n + 1) - 1], segs[n + 1], Keys)
      BY <1>12, <3>1
    <3> QED
      BY <2>15, <3>1, <3>2, <3>3
  <2> QED
    BY <2>1, <2>3, <2>7, <2>12, <2>17, <2>18
<1> HIDE DEF P
<1>16. Nat \subseteq T
  <2>1. 0 \in T
    BY <1>14
  <2>2. ASSUME NEW n \in Nat, n \in T
        PROVE  n + 1 \in T
    <3>1. n + 1 \in Nat /\ ((n + 1) + 1 \in 1 .. len => n + 1 \in 1 .. len)
      BY <1>4
    <3>2. (n + 1) + 1 \in 1 .. len => P((n + 1) + 1)
      BY <1>15, <2>2, <3>1
    <3> QED
      BY <3>1, <3>2
  <2> HIDE DEF T
  <2> QED
    BY <2>1, <2>2, ByInduction
<1>17. P(len)
  <2>1. len - 1 \in Nat /\ (len - 1) + 1 = len /\ len \in 1 .. len
    BY <1>2, <1>4
  <2>2. len - 1 \in T
    BY <1>16, <2>1
  <2> QED
    BY <2>1, <2>2
<1>18. PICK acc : acc = after[len]
  OBVIOUS
<1>19. PICK E : E = HeadAt(h, e[j])
  OBVIOUS
<1>20. PICK w : w = Span(l, f, e[j])
  OBVIOUS
<1>21. Collected(acc, S, E, w, G, u)
  <2>1. i + len - 1 = j
    BY <1>2, <1>4
  <2> QED
    BY <1>17, <1>18, <1>19, <1>20, <2>1 DEF P
<1>22. JoinAll(segs, Keys) = acc
  BY <1>5, <1>12, <1>18
<1>23. /\ segs[1] = s[i] /\ segs[Len(segs)] = s[j]
  <2>1. 1 \in 1 .. len /\ i + 1 - 1 = i /\ len \in 1 .. len /\ i + len - 1 = j
    BY <1>2, <1>4
  <2> QED
    BY <1>5, <2>1
<1>24. seg = EncodePlaintext(s[j].sig, s[i].prev, s[i].start, acc.out)
  BY <1>3, <1>22, <1>23 DEF Join
<1>25. s[i].prev = S.chain /\ s[i].start = StartCipher(S.cipher, u)
  <2>1. SegmentOf(s[i], S, u, HeadAt(h, e[i]))
    BY <1>8, <1>9, <1>11, SegmentIs
  <2> QED
    BY <2>1 DEF SegmentOf
<1>26. s[j].sig = E.chain
  <2>1. HoldsAt(s[j], HeadAt(h, FromAt(e, j)), Span(l, FromAt(e, j), e[j]), E, G)
    BY <1>1, <1>19 DEF HeldOk, HoldsFrom
  <2>2. PICK g : Leads(HeadAt(h, FromAt(e, j)), g, E) /\ Packaged(s[j], HeadAt(h, FromAt(e, j)), g, E)
    BY <2>1 DEF HoldsAt
  <2>3. SegmentOf(s[j], HeadAt(h, FromAt(e, j)), g, E)
    BY <1>9, <1>19, <2>2, SegmentIs
  <2> QED
    BY <2>3 DEF SegmentOf
<1>27. PICK out : out = acc.out
  OBVIOUS
<1>28. Leads(S, out, E) /\ Kept(out, w, Len(S.chain), G) /\ (SetsFirst(u) => SetsFirst(out))
  BY <1>21, <1>27 DEF Collected
<1>29. IsSeq(out)
  BY <1>28 DEF Leads, EntriesOk
<1>30. PICK c : c = S.cipher
  OBVIOUS
<1>31. c \in Ciphers
  BY <1>8, <1>30 DEF Place
<1>32. PICK sig : sig = E.chain
  OBVIOUS
<1>33. PICK prev : prev = S.chain
  OBVIOUS
<1>34. EncodePlaintext(sig, prev, StartCipher(c, u), out) = EncodePlaintext(sig, prev, c, out)
  BY <1>28, <1>29, <1>31, EncodeAgain
<1>35. Packaged(seg, S, out, E)
  BY <1>24, <1>25, <1>26, <1>27, <1>30, <1>32, <1>33, <1>34 DEF Packaged
<1> QED
  BY <1>6, <1>7, <1>19, <1>20, <1>28, <1>35 DEF HoldsFrom, HoldsAt

\* One segment takes the place of those from i to j.
LEMMA InvJoins ==
    ASSUME NEW l, NEW h, NEW s, NEW e, NEW G, LogInv(l, h, s, e, G),
           NEW i \in 1 .. Len(s), NEW j \in 1 .. Len(s), i < j,
           NEW seg, seg = Join(SubSeq(s, i, j), Keys).segment
    PROVE  LogInv(l, h, Spliced(SubSeq(s, 1, i - 1), seg, SubSeq(s, j + 1, Len(s))),
                  SubSeq(e, 1, i - 1) \o SubSeq(e, j, Len(e)), G)
<1>1. /\ LogOk(l, h) /\ EndsOk(s, e, Len(l)) /\ HeldOk(l, h, s, e, G) /\ GoneOk(h, e, G)
      /\ Len(l) \in Nat
  BY InvIs
<1>2. IsSeq(s) /\ IsSeq(e) /\ Len(s) \in Nat /\ Len(e) = Len(s)
  BY <1>1, EndsIs
<1>3. HoldsFrom(l, h, FromAt(e, i), e[j], G, seg)
  BY JoinedHolds
<1>4. PICK len \in Nat : len = Len(s)
  BY <1>2
<1>5. PICK d \in Nat : d = j - i /\ d # 0
  BY <1>2
<1>6. i \in Nat /\ i # 0 /\ i + d <= len /\ j = i + d
  BY <1>2, <1>4, <1>5
<1>7. PICK s1 : s1 = Spliced(SubSeq(s, 1, i - 1), seg, SubSeq(s, j + 1, Len(s)))
  OBVIOUS
<1>8. PICK e1 : e1 = SubSeq(e, 1, i - 1) \o SubSeq(e, j, Len(e))
  OBVIOUS
<1>9. /\ IsSeq(s1) /\ Len(s1) = len - d /\ s1[i] = seg
      /\ \A k \in 1 .. i - 1 : s1[k] = s[k]
      /\ \A k \in i + 1 .. len - d : s1[k] = s[k + d]
  <2>1. PICK u : u = SubSeq(s, 1, i - 1)
    OBVIOUS
  <2>2. PICK v : v = SubSeq(s, j + 1, Len(s))
    OBVIOUS
  <2>3. IsSeq(u) /\ Len(u) = i - 1 /\ \A k \in 1 .. i - 1 : u[k] = s[k]
    <3>1. 1 \in 1 .. Len(s) + 1 /\ i - 1 \in 1 - 1 .. Len(s)
      BY <1>4, <1>6
    <3>2. IsSeq(u) /\ Len(u) = i - 1 - 1 + 1 /\ \A k \in 1 .. i - 1 - 1 + 1 : u[k] = s[1 + k - 1]
      BY <1>2, <2>1, <3>1, SubSeqIs
    <3>3. i - 1 - 1 + 1 = i - 1 /\ \A k \in 1 .. i - 1 : 1 + k - 1 = k
      BY <1>6
    <3> QED
      BY <3>2, <3>3
  <2>4. IsSeq(v) /\ Len(v) = len - (i + d) /\ \A k \in 1 .. len - (i + d) : v[k] = s[i + d + k]
    <3>1. j + 1 \in 1 .. Len(s) + 1 /\ Len(s) \in (j + 1) - 1 .. Len(s)
      BY <1>4, <1>6
    <3>2. /\ IsSeq(v) /\ Len(v) = Len(s) - (j + 1) + 1
          /\ \A k \in 1 .. Len(s) - (j + 1) + 1 : v[k] = s[(j + 1) + k - 1]
      BY <1>2, <2>2, <3>1, SubSeqIs
    <3>3. /\ Len(s) - (j + 1) + 1 = len - (i + d)
          /\ \A k \in 1 .. len - (i + d) : (j + 1) + k - 1 = i + d + k
      BY <1>4, <1>6
    <3> QED
      BY <3>2, <3>3
  <2>5. s1 = Spliced(u, seg, v)
    BY <1>7, <2>1, <2>2
  <2>6. /\ IsSeq(s1) /\ Len(s1) = Len(u) + 1 + Len(v) /\ s1[Len(u) + 1] = seg
        /\ \A k \in 1 .. Len(u) : s1[k] = u[k]
        /\ \A k \in 1 .. Len(v) : s1[Len(u) + 1 + k] = v[k]
    <3>1. IsSeq(u) /\ IsSeq(v)
      BY <2>3, <2>4
    <3> QED
      BY <2>5, <3>1, SplicedIs
  <2>7. Len(u) + 1 + Len(v) = len - d /\ Len(u) + 1 = i
    BY <1>4, <1>6, <2>3, <2>4
  <2>8. \A k \in i + 1 .. len - d : s1[k] = s[k + d]
    <3> SUFFICES ASSUME NEW k \in i + 1 .. len - d PROVE s1[k] = s[k + d]
      OBVIOUS
    <3>1. PICK m \in 1 .. len - (i + d) : k = i + m /\ i + d + m = k + d
      <4>1. k - i \in 1 .. len - (i + d) /\ k = i + (k - i) /\ i + d + (k - i) = k + d
        BY <1>4, <1>6
      <4> QED
        BY <4>1
    <3>2. s1[Len(u) + 1 + m] = v[m] /\ v[m] = s[i + d + m]
      BY <2>4, <2>6, <3>1
    <3> QED
      BY <2>7, <3>1, <3>2
  <2> QED
    BY <2>3, <2>6, <2>7, <2>8
<1>10. /\ IsSeq(e1) /\ Len(e1) = len - d
       /\ \A k \in 1 .. i - 1 : e1[k] = e[k]
       /\ \A k \in i .. len - d : e1[k] = e[k + d]
  <2>1. PICK u : u = SubSeq(e, 1, i - 1)
    OBVIOUS
  <2>2. PICK v : v = SubSeq(e, j, Len(e))
    OBVIOUS
  <2>3. IsSeq(u) /\ Len(u) = i - 1 /\ \A k \in 1 .. i - 1 : u[k] = e[k]
    <3>1. 1 \in 1 .. Len(e) + 1 /\ i - 1 \in 1 - 1 .. Len(e)
      BY <1>2, <1>4, <1>6
    <3>2. IsSeq(u) /\ Len(u) = i - 1 - 1 + 1 /\ \A k \in 1 .. i - 1 - 1 + 1 : u[k] = e[1 + k - 1]
      BY <1>2, <2>1, <3>1, SubSeqIs
    <3>3. i - 1 - 1 + 1 = i - 1 /\ \A k \in 1 .. i - 1 : 1 + k - 1 = k
      BY <1>6
    <3> QED
      BY <3>2, <3>3
  <2>4. /\ IsSeq(v) /\ Len(v) = len - (i + d) + 1
        /\ \A k \in 1 .. len - (i + d) + 1 : v[k] = e[i + d + k - 1]
    <3>1. j \in 1 .. Len(e) + 1 /\ Len(e) \in j - 1 .. Len(e)
      BY <1>2, <1>4, <1>6
    <3>2. /\ IsSeq(v) /\ Len(v) = Len(e) - j + 1
          /\ \A k \in 1 .. Len(e) - j + 1 : v[k] = e[j + k - 1]
      BY <1>2, <2>2, <3>1, SubSeqIs
    <3> QED
      BY <1>2, <1>4, <1>6, <3>2
  <2>5. e1 = u \o v
    BY <1>8, <2>1, <2>2
  <2>6. /\ IsSeq(e1) /\ Len(e1) = Len(u) + Len(v)
        /\ \A k \in 1 .. Len(u) : e1[k] = u[k]
        /\ \A k \in 1 .. Len(v) : e1[Len(u) + k] = v[k]
    <3>1. IsSeq(u) /\ IsSeq(v)
      BY <2>3, <2>4
    <3> QED
      BY <2>5, <3>1, ConcatIs
  <2>7. Len(u) + Len(v) = len - d
    BY <1>4, <1>6, <2>3, <2>4
  <2>8. \A k \in i .. len - d : e1[k] = e[k + d]
    <3> SUFFICES ASSUME NEW k \in i .. len - d PROVE e1[k] = e[k + d]
      OBVIOUS
    <3>1. PICK m \in 1 .. len - (i + d) + 1 : k = i - 1 + m /\ i + d + m - 1 = k + d
      <4>1. /\ k - i + 1 \in 1 .. len - (i + d) + 1 /\ k = i - 1 + (k - i + 1)
            /\ i + d + (k - i + 1) - 1 = k + d
        BY <1>4, <1>6
      <4> QED
        BY <4>1
    <3>2. e1[Len(u) + m] = v[m] /\ v[m] = e[i + d + m - 1]
      BY <2>4, <2>6, <3>1
    <3> QED
      BY <2>3, <3>1, <3>2
  <2> QED
    BY <2>3, <2>6, <2>7, <2>8
<1>11. \A k \in 1 .. len - d : k \in 1 .. i - 1 \/ k = i \/ k \in i + 1 .. len - d
  BY <1>4, <1>5, <1>6
<1>12. /\ \A k \in 1 .. len : e[k] \in 0 .. Len(l)
       /\ \A k, m \in 1 .. len : k <= m => e[k] <= e[m]
  BY <1>1, <1>2, <1>4 DEF EndsOk
<1>13. ASSUME NEW k \in 1 .. len - d
       PROVE  \E m \in 1 .. len : e1[k] = e[m] /\ m = IF k < i THEN k ELSE k + d
  <2>1. CASE k < i
    BY <1>4, <1>5, <1>6, <1>10, <2>1
  <2>2. CASE ~ k < i
    <3>1. k \in i .. len - d /\ k + d \in 1 .. len
      BY <1>4, <1>5, <1>6, <2>2
    <3> QED
      BY <1>10, <2>2, <3>1
  <2> QED
    BY <2>1, <2>2
<1>14. EndsOk(s1, e1, Len(l))
  <2>1. \A k \in 1 .. len - d : e1[k] \in 0 .. Len(l)
    BY <1>12, <1>13
  <2>2. ASSUME NEW k \in 1 .. len - d, NEW m \in 1 .. len - d, k <= m
        PROVE  e1[k] <= e1[m]
    <3>1. PICK a \in 1 .. len : e1[k] = e[a] /\ a = IF k < i THEN k ELSE k + d
      BY <1>13
    <3>2. PICK b \in 1 .. len : e1[m] = e[b] /\ b = IF m < i THEN m ELSE m + d
      BY <1>13
    <3>3. a <= b
      BY <1>4, <1>5, <1>6, <2>2, <3>1, <3>2
    <3> QED
      BY <1>12, <3>1, <3>2, <3>3
  <2> QED
    BY <1>9, <1>10, <2>1, <2>2 DEF EndsOk
<1>15. ASSUME NEW k \in 1 .. len - d
       PROVE  HoldsFrom(l, h, FromAt(e1, k), e1[k], G, s1[k])
  <2>1. CASE k \in 1 .. i - 1
    <3>1. FromAt(e1, k) = FromAt(e, k)
      <4>1. k # 1 => k - 1 \in 1 .. i - 1
        BY <1>6, <2>1
      <4> QED
        BY <1>10, <4>1 DEF FromAt
    <3>2. k \in 1 .. Len(s)
      BY <1>4, <1>6, <2>1
    <3>3. HoldsFrom(l, h, FromAt(e, k), e[k], G, s[k])
      BY <1>1, <3>2 DEF HeldOk
    <3> QED
      BY <1>9, <1>10, <2>1, <3>1, <3>3
  <2>2. CASE k = i
    <3>1. FromAt(e1, k) = FromAt(e, i)
      <4>1. k # 1 => k - 1 \in 1 .. i - 1
        BY <1>6, <2>2
      <4> QED
        BY <1>10, <2>2, <4>1 DEF FromAt
    <3>2. e1[k] = e[j] /\ s1[k] = seg
      <4>1. k \in i .. len - d /\ k + d = j
        BY <1>4, <1>6, <2>2
      <4> QED
        BY <1>9, <1>10, <2>2, <4>1
    <3> QED
      BY <1>3, <3>1, <3>2
  <2>3. CASE k \in i + 1 .. len - d
    <3>1. PICK m \in 1 .. Len(s) : m = k + d /\ m # 1 /\ m - 1 = (k - 1) + d
      BY <1>4, <1>5, <1>6, <2>3
    <3>2. k - 1 \in i .. len - d /\ k \in i .. len - d /\ k # 1
      BY <1>4, <1>5, <1>6, <2>3
    <3>3. e1[k] = e[m] /\ e1[k - 1] = e[m - 1] /\ s1[k] = s[m]
      BY <1>9, <1>10, <2>3, <3>1, <3>2
    <3>4. FromAt(e1, k) = FromAt(e, m)
      BY <3>1, <3>2, <3>3 DEF FromAt
    <3>5. HoldsFrom(l, h, FromAt(e, m), e[m], G, s[m])
      BY <1>1, <3>1 DEF HeldOk
    <3> QED
      BY <3>3, <3>4, <3>5
  <2> QED
    BY <1>11, <2>1, <2>2, <2>3
<1>16. HeldOk(l, h, s1, e1, G)
  BY <1>9, <1>15 DEF HeldOk
<1>17. LastEnd(e1) = LastEnd(e)
  <2>1. len - d \in i .. len - d /\ len - d + d = len
    BY <1>4, <1>5, <1>6
  <2>2. e1[Len(e1)] = e[Len(e)]
    BY <1>2, <1>4, <1>10, <2>1
  <2>3. e1 # <<>> /\ e # <<>>
    <3>1. Len(e1) # 0 /\ Len(e) # 0
      BY <1>2, <1>4, <1>6, <1>10, <2>1
    <3> QED
      BY <3>1, LengthIs
  <2> QED
    BY <2>2, <2>3 DEF LastEnd
<1>18. GoneOk(h, e1, G)
  BY <1>1, <1>17 DEF GoneOk
<1> QED
  BY <1>1, <1>7, <1>8, <1>14, <1>16, <1>18 DEF LogInv

-----------------------------------------------------------------------------
(* The actions *)

\* The inductive invariant.
SegInv == LogInv(log, heads, held, ends, gone)

\* Nothing is written or held yet.
LEMMA SegInvInit == SegInit => SegInv
<1> SUFFICES ASSUME SegInit PROVE SegInv
  OBVIOUS
<1>1. log = <<>> /\ heads = <<Origin>> /\ held = <<>> /\ ends = <<>> /\ gone = {}
  BY DEF SegInit
<1>2. IsSeq(<<>>) /\ Len(<<>>) = 0 /\ EntriesOk(<<>>)
  BY LengthIs, EntriesOkIs
<1>3. PICK h : h = <<Origin>>
  OBVIOUS
<1>4. IsSeq(h) /\ Len(h) = 1 /\ h[1] = Origin
  BY <1>3, SingleIs DEF Single
<1>5. HeadAt(h, 0) = Origin
  BY <1>4 DEF HeadAt
<1>6. Place(Origin)
  BY <1>2 DEF Place, Origin, EmptyChain, Ciphers
<1>7. Span(<<>>, 0, 0) = <<>>
  BY <1>2, SpanNone
<1>8. Leads(Origin, <<>>, Origin)
  BY <1>6, LeadsNowhere
<1>9. LogOk(<<>>, h)
  <2>1. \A n \in 0 .. Len(<<>>) : n = 0 /\ \A m \in 0 .. n : m = 0
    BY <1>2
  <2>2. Len(h) = Len(<<>>) + 1
    BY <1>2, <1>4
  <2>3. \A n \in 0 .. Len(<<>>) : Place(HeadAt(h, n))
    BY <1>5, <1>6, <2>1
  <2>4. \A n \in 0 .. Len(<<>>) : \A m \in 0 .. n :
           Leads(HeadAt(h, m), Span(<<>>, m, n), HeadAt(h, n))
    BY <1>5, <1>7, <1>8, <2>1
  <2> QED
    BY <1>2, <1>4, <1>5, <2>2, <2>3, <2>4 DEF LogOk
<1>10. EndsOk(<<>>, <<>>, Len(<<>>))
  BY <1>2 DEF EndsOk
<1>11. HeldOk(<<>>, h, <<>>, <<>>, {})
  BY <1>2 DEF HeldOk
<1>12. GoneOk(h, <<>>, {})
  BY DEF GoneOk
<1> QED
  BY <1>1, <1>3, <1>9, <1>10, <1>11, <1>12 DEF SegInv, LogInv

\* WriteOp, Rotate and Sign.
LEMMA AppendKeeps ==
    ASSUME SegInv, NEW y, Entry(y), y.is = "signature" => y.of = heads[Len(heads)].chain,
           AppendEntry(y)
    PROVE  SegInv'
<1>1. LogInv(log, heads, held, ends, gone)
  BY DEF SegInv
<1>2. LogOk(log, heads)
  BY <1>1, InvIs
<1>3. heads[Len(heads)] = HeadAt(heads, Len(log)) /\ Len(log) \in Nat
  BY <1>2, LogIs
<1>4. PICK S : S = HeadAt(heads, Len(log))
  OBVIOUS
<1>5. PICK next : next = EntriesToOpaque(S.chain, S.cipher, Keys, <<y>>)
  OBVIOUS
<1>6. PICK r : r = [chain |-> next.chain, cipher |-> next.cipher]
  OBVIOUS
<1>7. log' = Append(log, y) /\ heads' = Append(heads, r) /\ held' = held /\ ends' = ends /\ gone' = gone
  BY <1>3, <1>4, <1>5, <1>6 DEF AppendEntry
<1>8. next = Opaque(S, Single(y))
  BY <1>5 DEF Opaque, Single
<1>9. r.chain = Opaque(HeadAt(heads, Len(log)), Single(y)).chain
      /\ r.cipher = Opaque(HeadAt(heads, Len(log)), Single(y)).cipher
  BY <1>4, <1>6, <1>8
<1>10. y.is = "signature" => y.of = HeadAt(heads, Len(log)).chain
  BY <1>3
<1>11. LogInv(Append(log, y), Append(heads, r), held, ends, gone)
  BY <1>1, <1>9, <1>10, InvWrites
<1> QED
  BY <1>7, <1>11 DEF SegInv

\* What the author cuts is a package of its own entries.
LEMMA CutKeeps ==
    ASSUME SegInv, Cut
    PROVE  SegInv'
<1>1. LogInv(log, heads, held, ends, gone)
  BY DEF SegInv
<1>2. LogOk(log, heads) /\ EndsOk(held, ends, Len(log)) /\ Len(log) \in Nat
  BY <1>1, InvIs
<1>3. heads[Len(heads)] = HeadAt(heads, Len(log)) /\ IsSeq(log)
  BY <1>2, LogIs
<1>4. PICK m : m = LastEnd(ends)
  OBVIOUS
<1>5. m \in 0 .. Len(log) /\ m = Packed
  BY <1>2, <1>4, EndsIs DEF LastEnd, Packed
<1>6. PICK S : S = HeadAt(heads, m)
  OBVIOUS
<1>7. PICK E : E = HeadAt(heads, Len(log))
  OBVIOUS
<1>8. PICK g : g = Span(log, m, Len(log))
  OBVIOUS
<1>9. heads[Packed + 1] = S /\ SubSeq(log, Packed + 1, Len(log)) = g
  BY <1>5, <1>6, <1>8 DEF HeadAt, Span
<1>10. \E seg : /\ Packaged(seg, S, g, E)
                /\ held' = Append(held, seg) /\ ends' = Append(ends, Len(log))
                /\ log' = log /\ heads' = heads /\ gone' = gone
  <2>1. PICK out : out = EntriesToOpaque(S.chain, S.cipher, Keys, g).out
    OBVIOUS
  <2>2. /\ \/ held' = Append(held, EncodeOpaque(E.chain, S.chain, S.cipher, out))
           \/ held' = Append(held, EncodePlaintext(E.chain, S.chain, S.cipher, g))
        /\ ends' = Append(ends, Len(log))
        /\ log' = log /\ heads' = heads /\ gone' = gone
    BY <1>3, <1>7, <1>9, <2>1 DEF Cut
  <2>3. Packaged(EncodeOpaque(E.chain, S.chain, S.cipher, out), S, g, E)
    BY <2>1 DEF Packaged, Opaque
  <2>4. Packaged(EncodePlaintext(E.chain, S.chain, S.cipher, g), S, g, E)
    BY DEF Packaged
  <2> QED
    BY <2>2, <2>3, <2>4
<1>11. PICK seg : /\ Packaged(seg, S, g, E)
                  /\ held' = Append(held, seg) /\ ends' = Append(ends, Len(log))
                  /\ log' = log /\ heads' = heads /\ gone' = gone
  BY <1>10
<1>12. Packaged(seg, HeadAt(heads, LastEnd(ends)), Span(log, LastEnd(ends), Len(log)),
                HeadAt(heads, Len(log)))
  BY <1>4, <1>6, <1>7, <1>8, <1>11
<1>13. LogInv(log, heads, Append(held, seg), Append(ends, Len(log)), gone)
  BY <1>1, <1>12, InvCuts
<1> QED
  BY <1>11, <1>13 DEF SegInv

\* to_plaintext() or to_opaque(): another package of the same entries.
LEMMA RepackageKeeps ==
    ASSUME SegInv, Repackage
    PROVE  SegInv'
<1>1. LogInv(log, heads, held, ends, gone)
  BY DEF SegInv
<1>2. /\ LogOk(log, heads) /\ EndsOk(held, ends, Len(log)) /\ Len(log) \in Nat
      /\ HeldOk(log, heads, held, ends, gone)
  BY <1>1, InvIs
<1>3. DOMAIN held = 1 .. Len(held)
  BY <1>2, LengthIs DEF EndsOk
<1>4. PICK i \in 1 .. Len(held) :
         LET seg == held[i]
             plain == PlainEntries(seg, Keys).out
             opaque == EntriesToOpaque(seg.prev, seg.start, Keys, plain).out
         IN  /\ held' = [held EXCEPT ![i] =
                  IF seg.form = "opaque"
                  THEN EncodePlaintext(seg.sig, seg.prev, seg.start, plain)
                  ELSE EncodeOpaque(seg.sig, seg.prev, seg.start, opaque)]
             /\ UNCHANGED <<log, heads, ends, gone>>
  BY <1>3 DEF Repackage
<1>5. PICK seg : seg = held[i]
  OBVIOUS
<1>6. PICK plain : plain = PlainEntries(seg, Keys).out
  OBVIOUS
<1>7. PICK seg1 : seg1 = IF seg.form = "opaque"
                         THEN EncodePlaintext(seg.sig, seg.prev, seg.start, plain)
                         ELSE EncodeOpaque(seg.sig, seg.prev, seg.start,
                                  EntriesToOpaque(seg.prev, seg.start, Keys, plain).out)
  OBVIOUS
<1>8. /\ held' = Exchanged(held, i, seg1)
      /\ log' = log /\ heads' = heads /\ ends' = ends /\ gone' = gone
  BY <1>4, <1>5, <1>6, <1>7 DEF Exchanged
<1>9. PICK S : S = HeadAt(heads, FromAt(ends, i))
  OBVIOUS
<1>10. PICK E : E = HeadAt(heads, ends[i])
  OBVIOUS
<1>11. PICK w : w = Span(log, FromAt(ends, i), ends[i])
  OBVIOUS
<1>12. Place(S) /\ Place(E)
  <2>1. FromAt(ends, i) \in 0 .. Len(log) /\ ends[i] \in 0 .. Len(log)
    BY <1>2, EndsIs
  <2> QED
    BY <1>2, <1>9, <1>10, <2>1 DEF LogOk
<1>13. HoldsAt(seg, S, w, E, gone)
  BY <1>2, <1>5, <1>9, <1>10, <1>11 DEF HeldOk, HoldsFrom
<1>14. PICK g : Leads(S, g, E) /\ Packaged(seg, S, g, E) /\ Kept(g, w, Len(S.chain), gone)
  BY <1>13 DEF HoldsAt
<1>15. Packaged(IF seg.form = "opaque"
                THEN EncodePlaintext(seg.sig, seg.prev, seg.start, plain)
                ELSE EncodeOpaque(seg.sig, seg.prev, seg.start,
                         EntriesToOpaque(seg.prev, seg.start, Keys, plain).out), S, g, E)
  BY <1>6, <1>12, <1>14, RepackagedIs
<1>16. HoldsFrom(log, heads, FromAt(ends, i), ends[i], gone, seg1)
  BY <1>7, <1>9, <1>10, <1>11, <1>14, <1>15 DEF HoldsFrom, HoldsAt
<1>17. LogInv(log, heads, Exchanged(held, i, seg1), ends, gone)
  BY <1>1, <1>16, InvReplaces
<1> QED
  BY <1>8, <1>17 DEF SegInv

\* join_segments() of neighbours: one package in the place of several.
LEMMA JoinHeldKeeps ==
    ASSUME SegInv, JoinHeld
    PROVE  SegInv'
<1>1. LogInv(log, heads, held, ends, gone)
  BY DEF SegInv
<1>2. EndsOk(held, ends, Len(log))
  BY <1>1, InvIs
<1>3. DOMAIN held = 1 .. Len(held)
  BY <1>2, LengthIs DEF EndsOk
<1>4. PICK i \in 1 .. Len(held), j \in 1 .. Len(held) :
         LET joined == Join(SubSeq(held, i, j), Keys)
         IN  /\ i < j
             /\ joined.ok
             /\ held' = SubSeq(held, 1, i - 1) \o <<joined.segment>>
                           \o SubSeq(held, j + 1, Len(held))
             /\ ends' = SubSeq(ends, 1, i - 1) \o SubSeq(ends, j, Len(ends))
             /\ UNCHANGED <<log, heads, gone>>
  BY <1>3 DEF JoinHeld
<1>5. PICK seg : seg = Join(SubSeq(held, i, j), Keys).segment
  OBVIOUS
<1>6. /\ i < j
      /\ held' = Spliced(SubSeq(held, 1, i - 1), seg, SubSeq(held, j + 1, Len(held)))
      /\ ends' = SubSeq(ends, 1, i - 1) \o SubSeq(ends, j, Len(ends))
      /\ log' = log /\ heads' = heads /\ gone' = gone
  BY <1>4, <1>5 DEF Spliced, Single
<1>7. LogInv(log, heads, Spliced(SubSeq(held, 1, i - 1), seg, SubSeq(held, j + 1, Len(held))),
             SubSeq(ends, 1, i - 1) \o SubSeq(ends, j, Len(ends)), gone)
  BY <1>1, <1>5, <1>6, InvJoins
<1> QED
  BY <1>6, <1>7 DEF SegInv

\* An op gives way to its hash, in one segment and nowhere else.
LEMMA ExpungeKeeps ==
    ASSUME SegInv, Expunge
    PROVE  SegInv'
<1>1. LogInv(log, heads, held, ends, gone)
  BY DEF SegInv
<1>2. /\ LogOk(log, heads) /\ EndsOk(held, ends, Len(log)) /\ Len(log) \in Nat
      /\ HeldOk(log, heads, held, ends, gone)
  BY <1>1, InvIs
<1>3. DOMAIN held = 1 .. Len(held)
  BY <1>2, LengthIs DEF EndsOk
<1>4. PICK i \in 1 .. Len(held) : \E n \in DOMAIN held[i].entries :
         LET seg == held[i]
             index == Len(seg.prev) + Len(NoSignatures(SubSeq(seg.entries, 1, n - 1)))
         IN  /\ Cardinality(gone) < MaxExpunged
             /\ seg.form = "opaque"
             /\ seg.entries[n].is = "op"
             /\ held' = [held EXCEPT ![i].entries[n] =
                             Expunged(EntryHash(seg.entries[n], index))]
             /\ gone' = gone \cup {index}
             /\ UNCHANGED <<log, heads, ends>>
  BY <1>3 DEF Expunge
<1>5. PICK n \in DOMAIN held[i].entries :
         LET seg == held[i]
             index == Len(seg.prev) + Len(NoSignatures(SubSeq(seg.entries, 1, n - 1)))
         IN  /\ Cardinality(gone) < MaxExpunged
             /\ seg.form = "opaque"
             /\ seg.entries[n].is = "op"
             /\ held' = [held EXCEPT ![i].entries[n] =
                             Expunged(EntryHash(seg.entries[n], index))]
             /\ gone' = gone \cup {index}
             /\ UNCHANGED <<log, heads, ends>>
  BY <1>4
<1>6. PICK seg : seg = held[i]
  OBVIOUS
<1>7. PICK index : index = Len(seg.prev) + Len(NoSignatures(SubSeq(seg.entries, 1, n - 1)))
  OBVIOUS
<1>8. PICK x : x = Expunged(EntryHash(seg.entries[n], index))
  OBVIOUS
<1>9. PICK seg1 : seg1 = [seg EXCEPT !.entries = Exchanged(seg.entries, n, x)]
  OBVIOUS
<1>10. seg1 = [seg EXCEPT !.entries[n] = x]
  BY <1>9 DEF Exchanged
<1>11. [held EXCEPT ![i].entries[n] = x] = [held EXCEPT ![i] = [seg EXCEPT !.entries[n] = x]]
  BY <1>6
<1>12. /\ held' = Exchanged(held, i, seg1)
       /\ gone' = gone \cup {index} /\ log' = log /\ heads' = heads /\ ends' = ends
       /\ seg.form = "opaque" /\ seg.entries[n].is = "op"
  BY <1>5, <1>6, <1>7, <1>8, <1>10, <1>11 DEF Exchanged
<1>13. IsSeq(seg.entries)
  <2>1. HoldsFrom(log, heads, FromAt(ends, i), ends[i], gone, seg)
    BY <1>2, <1>6 DEF HeldOk
  <2>2. PICK S : S = HeadAt(heads, FromAt(ends, i))
    OBVIOUS
  <2>3. PICK E : E = HeadAt(heads, ends[i])
    OBVIOUS
  <2>4. Place(S) /\ Place(E)
    <3>1. FromAt(ends, i) \in 0 .. Len(log) /\ ends[i] \in 0 .. Len(log)
      BY <1>2, EndsIs
    <3> QED
      BY <1>2, <2>2, <2>3, <3>1 DEF LogOk
  <2>5. PICK g : Leads(S, g, E) /\ Packaged(seg, S, g, E)
    BY <2>1, <2>2, <2>3 DEF HoldsFrom, HoldsAt
  <2>6. SegmentOf(seg, S, g, E)
    BY <2>4, <2>5, SegmentIs
  <2>7. seg.entries = Opaque(S, g).out
    BY <1>12, <2>6 DEF SegmentOf
  <2>8. EntriesOk(Opaque(S, g).out)
    BY <2>4, <2>5, OpaqueOk DEF Leads
  <2> QED
    BY <2>7, <2>8 DEF EntriesOk
<1>14. n \in 1 .. Len(seg.entries)
  BY <1>6, <1>13, LengthIs
<1>15. ExpungedAt(held[i], n, index, x, seg1)
  BY <1>6, <1>7, <1>8, <1>9, <1>12, <1>14 DEF ExpungedAt
<1>16. LogInv(log, heads, Exchanged(held, i, seg1), ends, gone \cup {index})
  BY <1>1, <1>15, InvExpunges
<1> QED
  BY <1>12, <1>16 DEF SegInv

\* Every step keeps the invariant.
LEMMA SegInvNext == SegInv /\ [SegNext]_segVars => SegInv'
<1> SUFFICES ASSUME SegInv, [SegNext]_segVars PROVE SegInv'
  OBVIOUS
<1>1. CASE WriteOp
  <2>1. PICK p \in Payloads : AppendEntry(Op(p))
    BY <1>1 DEF WriteOp
  <2>2. Entry(Op(p)) /\ Op(p).is # "signature"
    BY DEF Entry, Op
  <2> QED
    BY <2>1, <2>2, AppendKeeps
<1>2. CASE Rotate
  <2>1. PICK k \in Keys : AppendEntry(UseKey(k))
    BY <1>2 DEF Rotate
  <2>2. Entry(UseKey(k)) /\ UseKey(k).is # "signature"
    BY DEF Entry, UseKey
  <2> QED
    BY <2>1, <2>2, AppendKeeps
<1>3. CASE Sign
  <2>1. PICK c : c = heads[Len(heads)].chain
    OBVIOUS
  <2>2. AppendEntry(Signature(c))
    BY <1>3, <2>1 DEF Sign
  <2>3. Entry(Signature(c)) /\ Signature(c).of = c
    BY DEF Entry, Signature
  <2> QED
    BY <2>1, <2>2, <2>3, AppendKeeps
<1>4. CASE Cut
  BY <1>4, CutKeeps
<1>5. CASE Repackage
  BY <1>5, RepackageKeeps
<1>6. CASE JoinHeld
  BY <1>6, JoinHeldKeeps
<1>7. CASE Expunge
  BY <1>7, ExpungeKeeps
<1>8. CASE UNCHANGED segVars
  BY <1>8 DEF SegInv, segVars
<1> QED
  BY <1>1, <1>2, <1>3, <1>4, <1>5, <1>6, <1>7, <1>8 DEF SegNext

\* The invariant holds throughout.
LEMMA SegInvAlways == SegSpec => []SegInv
BY SegInvInit, SegInvNext, PTL DEF SegSpec

-----------------------------------------------------------------------------
(* What it says of the segments *)

\* A held segment, in the terms of the properties.
LEMMA HeldIs ==
    ASSUME SegInv, NEW i \in DOMAIN held
    PROVE  /\ i \in 1 .. Len(held)
           /\ StartOf(i) = HeadAt(heads, FromAt(ends, i)) /\ EndOf(i) = HeadAt(heads, ends[i])
           /\ Place(StartOf(i)) /\ Place(EndOf(i))
           /\ HoldsAt(held[i], StartOf(i), LogOf(i), EndOf(i), gone)
<1>1. /\ LogOk(log, heads) /\ EndsOk(held, ends, Len(log)) /\ Len(log) \in Nat
      /\ HeldOk(log, heads, held, ends, gone)
  BY InvIs DEF SegInv
<1>2. IsSeq(held)
  BY <1>1, EndsIs
<1>3. DOMAIN held = 1 .. Len(held)
  BY <1>2, LengthIs
<1>4. i \in 1 .. Len(held)
  BY <1>3
<1>5. /\ EndOf(i) = HeadAt(heads, ends[i])
      /\ StartOf(i) = HeadAt(heads, FromAt(ends, i))
  <2>1. HeadAt(heads, 0) = Origin
    BY <1>1 DEF LogOk
  <2> QED
    BY <2>1 DEF EndOf, StartOf, HeadAt, FromAt
<1>6. LogOf(i) = Span(log, FromAt(ends, i), ends[i])
  <2>1. (IF i = 1 THEN 1 ELSE ends[i - 1] + 1) = FromAt(ends, i) + 1
    BY DEF FromAt
  <2> QED
    BY <2>1 DEF LogOf, Span
<1>7. FromAt(ends, i) \in 0 .. Len(log) /\ ends[i] \in 0 .. Len(log)
  BY <1>1, <1>4, EndsIs
<1>8. Place(HeadAt(heads, FromAt(ends, i))) /\ Place(HeadAt(heads, ends[i]))
  BY <1>1, <1>7 DEF LogOk
<1>9. HoldsFrom(log, heads, FromAt(ends, i), ends[i], gone, held[i])
  BY <1>1, <1>4 DEF HeldOk
<1> QED
  BY <1>4, <1>5, <1>6, <1>8, <1>9 DEF HoldsFrom

\* The properties follow from the invariant, one by one.
LEMMA HeldVerifiesIs == SegInv => HeldVerifies
<1> SUFFICES ASSUME SegInv, NEW i \in DOMAIN held
             PROVE  /\ held[i].prev = StartOf(i).chain
                    /\ Verify(held[i], Keys) =
                          [ok |-> TRUE, chain |-> EndOf(i).chain, cipher |-> EndOf(i).cipher]
  BY DEF HeldVerifies
<1>1. PICK S : S = StartOf(i)
  OBVIOUS
<1>2. PICK E : E = EndOf(i)
  OBVIOUS
<1>3. PICK seg : seg = held[i]
  OBVIOUS
<1>4. Place(S) /\ Place(E) /\ HoldsAt(seg, S, LogOf(i), E, gone)
  BY <1>1, <1>2, <1>3, HeldIs
<1>5. PICK g : Leads(S, g, E) /\ Packaged(seg, S, g, E)
  BY <1>4 DEF HoldsAt
<1>6. SegmentOf(seg, S, g, E)
  BY <1>4, <1>5, SegmentIs
<1>7. seg.prev = S.chain
  BY <1>6 DEF SegmentOf
<1>8. Verify(seg, Keys) = [ok |-> TRUE, chain |-> E.chain, cipher |-> E.cipher]
  BY <1>4, <1>5, SegmentVerifies
<1> QED
  BY <1>1, <1>2, <1>3, <1>7, <1>8

\* For each entry: it is expunged, or what was written.
LEMMA EntriesKeptIs == SegInv => EntriesKept
<1> SUFFICES ASSUME SegInv, NEW i \in DOMAIN held
             PROVE  LET kept == NoSignatures(PlainEntries(held[i], Keys).out)
                        written == NoSignatures(LogOf(i))
                        place(n) == Len(StartOf(i).chain) + n - 1
                    IN  /\ Len(kept) = Len(written)
                        /\ \A n \in DOMAIN kept :
                              IF place(n) \in gone THEN kept[n].is = "expunged"
                                                   ELSE kept[n] = written[n]
  BY DEF EntriesKept
<1>1. PICK S : S = StartOf(i)
  OBVIOUS
<1>2. PICK E : E = EndOf(i)
  OBVIOUS
<1>3. PICK seg : seg = held[i]
  OBVIOUS
<1>4. PICK w : w = LogOf(i)
  OBVIOUS
<1>5. Place(S) /\ Place(E) /\ HoldsAt(seg, S, w, E, gone)
  BY <1>1, <1>2, <1>3, <1>4, HeldIs
<1>6. PICK g : Leads(S, g, E) /\ Packaged(seg, S, g, E) /\ Kept(g, w, Len(S.chain), gone)
  BY <1>5 DEF HoldsAt
<1>7. PlainEntries(seg, Keys).out = g
  BY <1>5, <1>6, SegmentPlain
<1>8. IsSeq(NoSignatures(g))
  BY <1>6, UnsignedIs DEF Leads
<1>9. DOMAIN NoSignatures(g) = 1 .. Len(NoSignatures(g))
  BY <1>8, LengthIs
<1> QED
  BY <1>1, <1>3, <1>4, <1>6, <1>7, <1>9 DEF Kept

\* What verifies names the author's cipher, under whatever header.
LEMMA VerifiesOnlyAs ==
    ASSUME NEW S, Place(S), NEW E, NEW g, Leads(S, g, E), NoSignatures(g) # <<>>,
           NEW c, NEW out, IsSeq(out), NoSignatures(out) # <<>>,
           NEW v, v = VerifyOpaque(S.chain, c, out), E.chain = v.chain
    PROVE  v.cipher = E.cipher
<1>1. LastLink(E.chain, E.cipher)
  BY LeadsUnsigned
<1>2. PICK chain : chain = S.chain
  OBVIOUS
<1>3. IsSeq(chain)
  BY <1>2 DEF Place
<1>4. LastLink(VerifyOpaque(chain, c, out).chain, VerifyOpaque(chain, c, out).cipher)
  BY <1>3, VerifiedCipher
<1>5. LastLink(v.chain, v.cipher)
  BY <1>2, <1>4
<1> QED
  BY <1>1, <1>5 DEF LastLink

\* An opaque segment under another start_cipher.
LEMMA ClaimOpaque ==
    ASSUME NEW S, Place(S), NEW E, Place(E), NEW g, Leads(S, g, E), NoSignatures(g) # <<>>,
           NEW out, out = Opaque(S, g).out,
           NoSignatures(out) # <<>>, NEW seg, seg.form = "opaque", seg.sig = E.chain,
           seg.prev = S.chain, seg.entries = out, Verify(seg, Keys).ok
    PROVE  Verify(seg, Keys).cipher = E.cipher
<1>1. EntriesOk(g) /\ EntriesOk(out)
  BY OpaqueOk DEF Leads
<1>4. PICK c : c = seg.start
  OBVIOUS
<1>5. PICK v : v = VerifyOpaque(S.chain, c, out)
  OBVIOUS
<1>6. Verify(seg, Keys).cipher = v.cipher /\ E.chain = v.chain
  BY <1>4, <1>5 DEF Verify
<1>7. v.cipher = E.cipher
  BY <1>1, <1>5, <1>6, VerifiesOnlyAs DEF EntriesOk
<1> QED
  BY <1>6, <1>7

\* A plaintext segment under another start_cipher.
LEMMA ClaimPlaintext ==
    ASSUME NEW S, Place(S), NEW E, Place(E), NEW g, Leads(S, g, E), NoSignatures(g) # <<>>,
           NEW seg, seg.form # "opaque", seg.sig = E.chain, seg.prev = S.chain, seg.entries = g,
           seg.start \in Ciphers, Verify(seg, Keys).ok
    PROVE  Verify(seg, Keys).cipher = E.cipher
<1>1. EntriesOk(g)
  BY DEF Leads
<1>2. PICK c \in Ciphers : c = seg.start
  OBVIOUS
<1>3. PICK chain : chain = S.chain
  OBVIOUS
<1>4. PICK out : out = EntriesToOpaque(chain, c, Keys, g).out
  OBVIOUS
<1>5. IsSeq(chain)
  BY <1>3 DEF Place
<1>6. Encodes(chain, c, g) /\ Links(chain, c, g)
  BY <1>1, <1>5, EncodesAll, LinksAll
<1>7. EntriesOk(out) /\ IsSeq(NoSignatures(out)) /\ Len(NoSignatures(out)) = Len(NoSignatures(g))
  BY <1>4, <1>6 DEF Encodes, Links
<1>8. IsSeq(NoSignatures(g))
  BY <1>1, UnsignedIs
<1>9. NoSignatures(out) # <<>> /\ IsSeq(out)
  BY <1>7, <1>8, LengthIs DEF EntriesOk
<1>10. PICK v : v = VerifyOpaque(S.chain, c, out)
  OBVIOUS
<1>11. VerifyPlaintext(seg.prev, seg.start, Keys, seg.entries).chain = v.chain
       /\ VerifyPlaintext(seg.prev, seg.start, Keys, seg.entries).cipher = v.cipher
  BY <1>2, <1>3, <1>4, <1>10 DEF VerifyPlaintext
<1>12. Verify(seg, Keys).cipher = v.cipher /\ E.chain = v.chain
  BY <1>11 DEF Verify
<1>13. v.cipher = E.cipher
  BY <1>9, <1>10, <1>12, VerifiesOnlyAs
<1> QED
  BY <1>12, <1>13

\* Both forms of the segment, with any claim in the header.
LEMMA ClaimsCheckedIs == SegInv => ClaimsChecked
<1> SUFFICES ASSUME SegInv, NEW i \in DOMAIN held, NEW c \in Ciphers,
                    NoSignatures(held[i].entries) # <<>>,
                    NEW seg \in {[held[i] EXCEPT !.start = c],
                                 EncodePlaintext(held[i].sig, held[i].prev, c,
                                                 PlainEntries(held[i], Keys).out)},
                    Verify(seg, Keys).ok
             PROVE  Verify(seg, Keys).cipher = EndOf(i).cipher
  BY DEF ClaimsChecked
<1>1. PICK S : S = StartOf(i)
  OBVIOUS
<1>2. PICK E : E = EndOf(i)
  OBVIOUS
<1>3. PICK from : from = held[i]
  OBVIOUS
<1>4. Place(S) /\ Place(E) /\ HoldsAt(from, S, LogOf(i), E, gone)
  BY <1>1, <1>2, <1>3, HeldIs
<1>5. PICK g : Leads(S, g, E) /\ Packaged(from, S, g, E)
  BY <1>4 DEF HoldsAt
<1>6. SegmentOf(from, S, g, E)
  BY <1>4, <1>5, SegmentIs
<1>7. PlainEntries(from, Keys).out = g
  BY <1>4, <1>5, SegmentPlain
<1>8. PICK out : out = Opaque(S, g).out
  OBVIOUS
<1>9. from.sig = E.chain /\ from.prev = S.chain
  BY <1>6 DEF SegmentOf
<1>10. NoSignatures(g) # <<>>
  <2>1. CASE from.form = "opaque"
    <3>1. from.entries = Opaque(S, g).out
      BY <1>6, <2>1 DEF SegmentOf
    <3>2. /\ IsSeq(NoSignatures(Opaque(S, g).out))
          /\ Len(NoSignatures(Opaque(S, g).out)) = Len(NoSignatures(g))
      BY <1>4, <1>5, LeadsUnsigned, ZenonT(60)
    <3>3. NoSignatures(Opaque(S, g).out) # <<>>
      BY <1>3, <3>1
    <3>4. IsSeq(NoSignatures(g))
      BY <1>5, UnsignedIs DEF Leads
    <3> QED
      BY <3>2, <3>3, <3>4, LengthIs
  <2>2. CASE from.form # "opaque"
    <3>1. from.entries = g
      BY <1>6, <2>2 DEF SegmentOf
    <3> QED
      BY <1>3, <3>1
  <2> QED
    BY <2>1, <2>2
<1>11. CASE seg = [from EXCEPT !.start = c]
  <2>1. CASE from.form = "opaque"
    <3>1. from = EncodeOpaque(E.chain, S.chain, S.cipher, out)
      BY <1>6, <1>8, <2>1 DEF SegmentOf
    <3>2. /\ seg.form = "opaque" /\ seg.sig = E.chain /\ seg.prev = S.chain /\ seg.entries = out
      BY <1>11, <3>1 DEF EncodeOpaque
    <3>3. NoSignatures(out) # <<>>
      BY <1>3, <1>6, <1>8, <2>1 DEF SegmentOf
    <3> QED
      BY <1>2, <1>4, <1>5, <1>8, <1>10, <3>2, <3>3, ClaimOpaque
  <2>2. CASE from.form # "opaque"
    <3>1. from = EncodePlaintext(E.chain, S.chain, S.cipher, g)
      BY <1>6, <2>2 DEF SegmentOf
    <3>2. /\ seg.form # "opaque" /\ seg.sig = E.chain /\ seg.prev = S.chain /\ seg.entries = g
          /\ seg.start = c
      BY <1>11, <3>1 DEF EncodePlaintext
    <3> QED
      BY <1>2, <1>4, <1>5, <1>10, <3>2, ClaimPlaintext
  <2> QED
    BY <2>1, <2>2
<1>12. CASE seg = EncodePlaintext(from.sig, from.prev, c, PlainEntries(from, Keys).out)
  <2>1. seg = EncodePlaintext(E.chain, S.chain, c, g)
    BY <1>7, <1>9, <1>12
  <2>2. /\ seg.form # "opaque" /\ seg.sig = E.chain /\ seg.prev = S.chain /\ seg.entries = g
        /\ seg.start = StartCipher(c, g)
    BY <2>1 DEF EncodePlaintext
  <2>3. seg.start \in Ciphers
    BY <2>2 DEF StartCipher, Ciphers
  <2> QED
    BY <1>2, <1>4, <1>5, <1>10, <2>2, <2>3, ClaimPlaintext
<1> QED
  BY <1>3, <1>11, <1>12

-----------------------------------------------------------------------------
(* Two segments joined *)

\* The loop of a join, for two segments.
LEMMA JoinTwo ==
    ASSUME NEW a, NEW b
    PROVE  JoinAll(<<a, b>>, Keys) =
              JoinOne(FALSE, JoinOne(TRUE, At(Keys, EmptyChain, NoCipher), a, Keys), b, Keys)
<1>1. PICK segs : segs = <<a, b>>
  OBVIOUS
<1>2. segs \in Seq({a, b}) /\ Len(segs) = 2 /\ segs[1] = a /\ segs[2] = b
  BY <1>1
<1>3. IsSeq(segs)
  BY <1>2 DEF IsSeq
<1>4. PICK after : /\ JoinAll(segs, Keys) = after[Len(segs)]
                   /\ after[0] = At(Keys, EmptyChain, NoCipher)
                   /\ \A n \in 1 .. Len(segs) :
                         after[n] = JoinOne(n = 1, after[n - 1], segs[n], Keys)
  BY <1>3, JoinAllIs
<1>5. 1 \in 1 .. Len(segs) /\ 2 \in 1 .. Len(segs) /\ 1 - 1 = 0 /\ 2 - 1 = 1
      /\ (1 = 1) = TRUE /\ (2 = 1) = FALSE
  BY <1>2
<1>6. after[1] = JoinOne(TRUE, after[0], a, Keys)
  <2>1. after[1] = JoinOne(1 = 1, after[1 - 1], segs[1], Keys)
    BY <1>4, <1>5
  <2> QED
    BY <1>2, <1>5, <2>1
<1>7. after[2] = JoinOne(FALSE, after[1], b, Keys)
  <2>1. after[2] = JoinOne(2 = 1, after[2 - 1], segs[2], Keys)
    BY <1>4, <1>5
  <2> QED
    BY <1>2, <1>5, <2>1
<1> QED
  BY <1>1, <1>2, <1>4, <1>6, <1>7

\* A join of two segments.
LEMMA JoinPair ==
    ASSUME NEW a, NEW b, NEW acc,
           acc = JoinOne(FALSE, JoinOne(TRUE, At(Keys, EmptyChain, NoCipher), a, Keys), b, Keys)
    PROVE  Join(<<a, b>>, Keys) =
              [ok |-> acc.ok /\ EndCipher(a.start, acc.out) \in Keys \cup {NoCipher},
               chain |-> acc.chain,
               segment |-> EncodePlaintext(b.sig, a.prev, a.start, acc.out)]
<1>1. PICK segs : segs = <<a, b>>
  OBVIOUS
<1>2. Len(segs) = 2 /\ segs[1] = a /\ segs[2] = b
  BY <1>1
<1>3. JoinAll(segs, Keys) = acc
  BY <1>1, JoinTwo
<1>4. Join(segs, Keys) =
         [ok |-> acc.ok /\ EndCipher(a.start, acc.out) \in Keys \cup {NoCipher},
          chain |-> acc.chain,
          segment |-> EncodePlaintext(b.sig, a.prev, a.start, acc.out)]
  BY <1>2, <1>3 DEF Join
<1> QED
  BY <1>1, <1>4

\* Places of the same chain are of the same cipher.
LEMMA SamePlace ==
    ASSUME NEW l, NEW h, LogOk(l, h), NEW m \in 0 .. Len(l), NEW n \in 0 .. Len(l),
           HeadAt(h, m).chain = HeadAt(h, n).chain
    PROVE  HeadAt(h, m).cipher = HeadAt(h, n).cipher
<1>1. Len(l) \in Nat
  BY LogIs
<1>2. m \in 0 .. n \/ n \in 0 .. m
  BY <1>1
<1>3. m \in 0 .. n => HeadAt(h, m).cipher = HeadAt(h, n).cipher
  BY LogLengths
<1>4. n \in 0 .. m => HeadAt(h, m).cipher = HeadAt(h, n).cipher
  BY LogLengths
<1> QED
  BY <1>2, <1>3, <1>4

\* The second segment's claim about the cipher is not read.
LEMMA ClaimUnread ==
    ASSUME NEW seg, seg.form = "opaque", NEW c, NEW other, other = [seg EXCEPT !.start = c],
           NEW S, NEW g, NEW E, SegmentOf(seg, S, g, E), NEW acc
    PROVE  JoinOne(FALSE, acc, other, Keys) = JoinOne(FALSE, acc, seg, Keys) /\ other.sig = seg.sig
<1>1. seg = EncodeOpaque(E.chain, S.chain, S.cipher, Opaque(S, g).out)
  BY DEF SegmentOf
<1>2. /\ other.form = seg.form /\ other.prev = seg.prev /\ other.entries = seg.entries
      /\ other.sig = seg.sig
  BY <1>1 DEF EncodeOpaque
<1>3. Opens(seg, Keys) = TRUE /\ Opens(other, Keys) = TRUE
  BY <1>2 DEF Opens
<1>4. InOrder(FALSE, acc, other) = InOrder(FALSE, acc, seg)
      /\ CarriedCipher(FALSE, acc, other) = CarriedCipher(FALSE, acc, seg)
  BY <1>2 DEF InOrder, CarriedCipher
<1>5. PICK next : next = EntriesToPlaintext(acc.chain, CarriedCipher(FALSE, acc, seg), Keys, seg.entries)
  OBVIOUS
<1>6. JoinOne(FALSE, acc, seg, Keys) =
         [ok |-> acc.ok /\ InOrder(FALSE, acc, seg) /\ Opens(seg, Keys) /\ next.ok,
          chain |-> next.chain, cipher |-> next.cipher,
          out |-> acc.out \o NoSignatures(next.out)]
  BY <1>5 DEF JoinOne
<1>7. JoinOne(FALSE, acc, other, Keys) =
         [ok |-> acc.ok /\ InOrder(FALSE, acc, other) /\ Opens(other, Keys) /\ next.ok,
          chain |-> next.chain, cipher |-> next.cipher,
          out |-> acc.out \o NoSignatures(next.out)]
  BY <1>2, <1>4, <1>5 DEF JoinOne
<1>8. (acc.ok /\ InOrder(FALSE, acc, other) /\ Opens(other, Keys) /\ next.ok) =
      (acc.ok /\ InOrder(FALSE, acc, seg) /\ Opens(seg, Keys) /\ next.ok)
  BY <1>3, <1>4
<1> QED
  BY <1>2, <1>6, <1>7, <1>8

\* It is, if the chain goes on from one to the other.
LEMMA PairJoined ==
    ASSUME NEW S, Place(S), NEW M, Place(M), NEW g, Leads(S, g, M), NEW a, Packaged(a, S, g, M),
           NEW T, Place(T), NEW E, Place(E), NEW t, Leads(T, t, E), NEW b, Packaged(b, T, t, E),
           M.chain = T.chain, M.cipher = T.cipher
    PROVE  LET joined == Join(<<a, b>>, Keys)
           IN  joined.ok /\ joined.chain = E.chain /\ Verify(joined.segment, Keys).chain = E.chain
<1>1. PICK start : start = At(Keys, EmptyChain, NoCipher)
  OBVIOUS
<1>2. start.ok = TRUE /\ start.out = <<>>
  BY <1>1 DEF At
<1>3. PICK one : one = JoinOne(TRUE, start, a, Keys)
  OBVIOUS
<1>4. JoinsOn(start, g, M, one)
  <2>1. Ready(TRUE, start, S)
    BY <1>2 DEF Ready
  <2> QED
    BY <1>3, <2>1, JoinOneIs
<1>5. EntriesOk(g) /\ EntriesOk(t)
  BY DEF Leads
<1>6. PICK k : k = NoSignatures(g)
  OBVIOUS
<1>7. PICK n : n = NoSignatures(t)
  OBVIOUS
<1>8. IsSeq(k) /\ IsSeq(n)
  BY <1>5, <1>6, <1>7, UnsignedIs
<1>9. <<>> \o k = k
  BY <1>8, LengthIs, ConcatIs
<1>10. one.ok = TRUE /\ one.chain = T.chain /\ one.cipher = T.cipher /\ one.out = k
  BY <1>2, <1>4, <1>6, <1>9 DEF JoinsOn
<1>11. PICK acc : acc = JoinOne(FALSE, one, b, Keys)
  OBVIOUS
<1>12. JoinsOn(one, t, E, acc)
  <2>1. Ready(FALSE, one, T)
    BY <1>10 DEF Ready
  <2> QED
    BY <1>11, <2>1, JoinOneIs
<1>13. PICK out : out = k \o n
  OBVIOUS
<1>14. acc.ok = TRUE /\ acc.chain = E.chain /\ acc.out = out
  BY <1>7, <1>10, <1>12, <1>13 DEF JoinsOn
<1>15. Leads(S, k, T)
  <2>1. Leads(S, k, M)
    BY <1>6, LeadsUnsigned
  <2> QED
    BY <2>1, LeadsSame
<1>16. Leads(T, n, E)
  BY <1>7, LeadsUnsigned
<1>17. Leads(S, out, E)
  BY <1>13, <1>15, <1>16, LeadsConcat
<1>18. EntriesOk(out) /\ IsSeq(out)
  BY <1>17 DEF Leads, EntriesOk
<1>19. SetsFirst(g) => SetsFirst(out)
  <2>1. IsSeq(g)
    BY <1>5 DEF EntriesOk
  <2>2. SetsFirst(g) => SetsFirst(k)
    BY <1>6, <2>1, SetsFirstUnsigned
  <2>3. SetsFirst(out) <=> IF k = <<>> THEN SetsFirst(n) ELSE SetsFirst(k)
    BY <1>8, <1>13, SetsFirstConcat
  <2> QED
    BY <2>2, <2>3 DEF SetsFirst
<1>20. PICK c : c = S.cipher
  OBVIOUS
<1>21. c \in Ciphers
  BY <1>20 DEF Place
<1>22. PICK from : from = StartCipher(c, g)
  OBVIOUS
<1>23. EndCipher(from, out) = EndCipher(c, out)
  BY <1>18, <1>19, <1>21, <1>22, StartAgain
<1>24. EndCipher(c, out) = E.cipher
  BY <1>17, <1>18, <1>20, OpaqueOk DEF Leads
<1>25. a.prev = S.chain /\ a.start = from /\ b.sig = E.chain
  <2>1. SegmentOf(a, S, g, M) /\ SegmentOf(b, T, t, E)
    BY SegmentIs
  <2> QED
    BY <1>20, <1>22, <2>1 DEF SegmentOf
<1>26. Join(<<a, b>>, Keys) =
          [ok |-> acc.ok /\ EndCipher(a.start, acc.out) \in Keys \cup {NoCipher},
           chain |-> acc.chain,
           segment |-> EncodePlaintext(b.sig, a.prev, a.start, acc.out)]
  BY <1>1, <1>3, <1>11, JoinPair
<1>27. PICK seg : seg = EncodePlaintext(b.sig, a.prev, a.start, acc.out)
  OBVIOUS
<1>28. PICK sig : sig = E.chain
  OBVIOUS
<1>29. PICK prev : prev = S.chain
  OBVIOUS
<1>30. EncodePlaintext(sig, prev, StartCipher(c, g), out) = EncodePlaintext(sig, prev, c, out)
  BY <1>18, <1>19, <1>21, EncodeAgain
<1>31. Packaged(seg, S, out, E)
  BY <1>14, <1>20, <1>22, <1>25, <1>27, <1>28, <1>29, <1>30 DEF Packaged
<1>32. Verify(seg, Keys) = [ok |-> TRUE, chain |-> E.chain, cipher |-> E.cipher]
  BY <1>17, <1>31, SegmentVerifies
<1>33. Verify(seg, Keys).chain = E.chain
  BY <1>32
<1>34. (acc.ok /\ EndCipher(a.start, acc.out) \in Keys \cup {NoCipher}) = TRUE
  BY <1>14, <1>23, <1>24, <1>25 DEF Place, Ciphers
<1>35. Join(<<a, b>>, Keys) = [ok |-> TRUE, chain |-> acc.chain, segment |-> seg]
  BY <1>26, <1>27, <1>34
<1> QED
  BY <1>14, <1>33, <1>35

\* Two segments join if the chain goes on, and only then.
LEMMA JoinFollowsTheLogIs == SegInv => JoinFollowsTheLog
<1> SUFFICES ASSUME SegInv, NEW i \in DOMAIN held, NEW k \in DOMAIN held,
                    NEW joined, joined = Join(<<held[i], held[k]>>, Keys)
             PROVE  /\ joined.ok <=> EndOf(i).chain = StartOf(k).chain
                    /\ joined.ok =>
                          /\ joined.chain = EndOf(k).chain
                          /\ Verify(joined.segment, Keys).chain = joined.chain
                          /\ held[k].form = "opaque" =>
                                \A c \in Ciphers :
                                    Join(<<held[i], [held[k] EXCEPT !.start = c]>>, Keys) = joined
  BY DEF JoinFollowsTheLog
<1>1. PICK S : S = StartOf(i)
  OBVIOUS
<1>2. PICK M : M = EndOf(i)
  OBVIOUS
<1>3. PICK T : T = StartOf(k)
  OBVIOUS
<1>4. PICK E : E = EndOf(k)
  OBVIOUS
<1>5. PICK a : a = held[i]
  OBVIOUS
<1>6. PICK b : b = held[k]
  OBVIOUS
<1>7. Place(S) /\ Place(M) /\ HoldsAt(a, S, LogOf(i), M, gone)
  BY <1>1, <1>2, <1>5, HeldIs
<1>8. Place(T) /\ Place(E) /\ HoldsAt(b, T, LogOf(k), E, gone)
  BY <1>3, <1>4, <1>6, HeldIs
<1>9. PICK g : Leads(S, g, M) /\ Packaged(a, S, g, M)
  BY <1>7 DEF HoldsAt
<1>10. PICK t : Leads(T, t, E) /\ Packaged(b, T, t, E)
  BY <1>8 DEF HoldsAt
<1>11. M.chain = T.chain => M.cipher = T.cipher
  <2>1. LogOk(log, heads) /\ EndsOk(held, ends, Len(log)) /\ Len(log) \in Nat
    BY InvIs DEF SegInv
  <2>2. i \in 1 .. Len(held) /\ k \in 1 .. Len(held)
        /\ M = HeadAt(heads, ends[i]) /\ T = HeadAt(heads, FromAt(ends, k))
    BY <1>2, <1>3, HeldIs
  <2>3. PICK m : m = ends[i]
    OBVIOUS
  <2>4. PICK n : n = FromAt(ends, k)
    OBVIOUS
  <2>5. m \in 0 .. Len(log) /\ n \in 0 .. Len(log)
    BY <2>1, <2>2, <2>3, <2>4, EndsIs
  <2> QED
    BY <2>1, <2>2, <2>3, <2>4, <2>5, SamePlace
<1>12. PICK one : one = JoinOne(TRUE, At(Keys, EmptyChain, NoCipher), a, Keys)
  OBVIOUS
<1>13. PICK acc : acc = JoinOne(FALSE, one, b, Keys)
  OBVIOUS
<1>14. joined = [ok |-> acc.ok /\ EndCipher(a.start, acc.out) \in Keys \cup {NoCipher},
                 chain |-> acc.chain,
                 segment |-> EncodePlaintext(b.sig, a.prev, a.start, acc.out)]
  BY <1>5, <1>6, <1>12, <1>13, JoinPair, ZenonT(60)
<1>15. joined.ok => M.chain = T.chain
  <2>1. one.chain = M.chain
    <3>1. PICK start : start = At(Keys, EmptyChain, NoCipher)
      OBVIOUS
    <3>2. Ready(TRUE, start, S)
      BY <3>1 DEF Ready, At
    <3>3. JoinsOn(start, g, M, one)
      BY <1>7, <1>9, <1>12, <3>1, <3>2, JoinOneIs
    <3> QED
      BY <3>3 DEF JoinsOn
  <2>2. b.prev = T.chain
    <3>1. SegmentOf(b, T, t, E)
      BY <1>8, <1>10, SegmentIs
    <3> QED
      BY <3>1 DEF SegmentOf
  <2>3. joined.ok => acc.ok
    <3>1. joined.ok = (acc.ok /\ EndCipher(a.start, acc.out) \in Keys \cup {NoCipher})
      BY <1>14
    <3> QED
      BY <3>1, Zenon
  <2>4. acc.ok => InOrder(FALSE, one, b)
    BY <1>13 DEF JoinOne
  <2> QED
    BY <2>1, <2>2, <2>3, <2>4 DEF InOrder
<1>16. M.chain = T.chain => /\ joined.ok /\ joined.chain = E.chain
                            /\ Verify(joined.segment, Keys).chain = E.chain
  <2> SUFFICES ASSUME M.chain = T.chain
               PROVE  /\ joined.ok /\ joined.chain = E.chain
                      /\ Verify(joined.segment, Keys).chain = E.chain
    OBVIOUS
  <2>1. M.cipher = T.cipher
    BY <1>11
  <2>2. LET u == Join(<<a, b>>, Keys)
        IN  u.ok /\ u.chain = E.chain /\ Verify(u.segment, Keys).chain = E.chain
    BY <1>7, <1>8, <1>9, <1>10, <2>1, PairJoined
  <2> QED
    BY <1>5, <1>6, <2>2
<1>17. ASSUME b.form = "opaque", NEW c \in Ciphers
       PROVE  Join(<<a, [b EXCEPT !.start = c]>>, Keys) = joined
  <2>1. PICK other : other = [b EXCEPT !.start = c]
    OBVIOUS
  <2>2. SegmentOf(b, T, t, E)
    BY <1>8, <1>10, SegmentIs
  <2>3. JoinOne(FALSE, one, other, Keys) = JoinOne(FALSE, one, b, Keys) /\ other.sig = b.sig
    BY <1>17, <2>1, <2>2, ClaimUnread
  <2>4. acc = JoinOne(FALSE, one, other, Keys)
    BY <1>13, <2>3
  <2>5. Join(<<a, other>>, Keys) =
           [ok |-> acc.ok /\ EndCipher(a.start, acc.out) \in Keys \cup {NoCipher},
            chain |-> acc.chain,
            segment |-> EncodePlaintext(other.sig, a.prev, a.start, acc.out)]
    BY <1>12, <2>4, JoinPair
  <2> QED
    BY <1>14, <2>1, <2>3, <2>5
<1> QED
  BY <1>2, <1>3, <1>4, <1>5, <1>6, <1>15, <1>16, <1>17

(***************************************************************************)
(* In every reachable state, for any number of entries, keys, segments and *)
(* expunged ops: DecodedSegment::verify() succeeds on every segment held,  *)
(* however often it was packaged again, joined or redacted, and yields the *)
(* chain and the cipher the author had at its end.                         *)
(***************************************************************************)
THEOREM SegmentsVerify == SegSpec => []HeldVerifies
BY SegInvAlways, HeldVerifiesIs, PTL

(***************************************************************************)
(* Repackaging, join_segments() and expunging never lose, make up or       *)
(* reorder an op or a key change: VerifiedSegment::to_plaintext() yields   *)
(* what the author wrote there, except at the chain indices that were      *)
(* expunged.                                                               *)
(***************************************************************************)
THEOREM SegmentsKeepEntries == SegSpec => []EntriesKept
BY SegInvAlways, EntriesKeptIs, PTL

(***************************************************************************)
(* A header's start_cipher need not be trusted. ChainHash::add_one()       *)
(* hashes the cipher in force into each link, so that a segment that has   *)
(* one and verifies yields the author's cipher, whatever its header        *)
(* claims.                                                                 *)
(***************************************************************************)
THEOREM SegmentClaimsChecked == SegSpec => []ClaimsChecked
BY SegInvAlways, ClaimsCheckedIs, PTL

(***************************************************************************)
(* join_segments() of two segments succeeds exactly if the second's        *)
(* prev_hash is the chain at the end of the first, returns the chain that  *)
(* the joined segment verifies to, and does not read the claim of an       *)
(* opaque second.                                                          *)
(***************************************************************************)
THEOREM SegmentsJoin == SegSpec => []JoinFollowsTheLog
BY SegInvAlways, JoinFollowsTheLogIs, PTL

-----------------------------------------------------------------------------
(***************************************************************************)
(* Building a pack: the header finds every segment in the body.            *)
(*                                                                         *)
(* SegmentsFound is inductive but for three things that it does not say:   *)
(* that no descriptor points behind the end of the body, so that what is   *)
(* written later does not reach it; that the peers in the list have ids of *)
(* the set that the order is one of; and that a list of their segments is  *)
(* one.  BuilderInv adds them.                                             *)
(***************************************************************************)

(* The calls that added a segment *)

\* One call more.
OneAddition(peer, before, call) ==
    IF call.peer = peer /\ Added(call.joined) THEN Append(before, call) ELSE before

\* What Additions is defined by has a solution.
LEMMA AdditionsIs ==
    ASSUME NEW made, IsSeq(made), NEW peer
    PROVE  \E upto : /\ Additions(made, peer) = upto[Len(made)]
                     /\ upto[0] = <<>>
                     /\ \A n \in 1 .. Len(made) :
                           upto[n] = OneAddition(peer, upto[n - 1], made[n])
<1> DEFINE Body(g, n) == IF n = 0 THEN <<>> ELSE OneAddition(peer, g[n - 1], made[n])
           Solves(g, m) == g = [n \in 0 .. m |-> Body(g, n)]
           S == {m \in Nat : \E g : Solves(g, m)}
<1>1. 0 \in S
  <2> DEFINE g == [n \in 0 .. 0 |-> <<>>]
  <2>1. Solves(g, 0)
    OBVIOUS
  <2> QED
    BY <2>1
<1>2. ASSUME NEW m \in Nat, m \in S PROVE m + 1 \in S
  <2>1. PICK g : Solves(g, m)
    BY <1>2
  <2> DEFINE last == OneAddition(peer, g[m], made[m + 1])
             h == [n \in 0 .. m + 1 |-> IF n = m + 1 THEN last ELSE g[n]]
  <2> HIDE DEF last
  <2>2. \A n \in 0 .. m + 1 : n # 0 => h[n - 1] = g[n - 1]
    OBVIOUS
  <2>3. \A n \in 0 .. m : g[n] = Body(g, n)
    BY <2>1
  <2>4. \A n \in 0 .. m + 1 : h[n] = Body(h, n)
    <3> SUFFICES ASSUME NEW n \in 0 .. m + 1 PROVE h[n] = Body(h, n)
      OBVIOUS
    <3>1. CASE n = m + 1
      BY <2>2, <3>1 DEF last
    <3>2. CASE n # m + 1
      <4>1. n \in 0 .. m /\ h[n] = g[n]
        BY <3>2
      <4> QED
        BY <2>2, <2>3, <4>1
    <3> QED
      BY <3>1, <3>2
  <2>5. Solves(h, m + 1)
    <3>1. h = [n \in 0 .. m + 1 |-> h[n]]
      OBVIOUS
    <3> HIDE DEF h
    <3> QED
      BY <2>4, <3>1
  <2> HIDE DEF h, Solves
  <2> QED
    BY <2>5
<1>3. Len(made) \in S
  <2> HIDE DEF S
  <2> QED
    BY <1>1, <1>2, ByInduction, LengthIs
<1> DEFINE upto == CHOOSE g : Solves(g, Len(made))
<1>4. Additions(made, peer) = upto[Len(made)]
  BY DEF Additions, OneAddition
<1>5. Solves(upto, Len(made))
  <2> HIDE DEF Solves
  <2> QED
    BY <1>3
<1>6. \A n \in 0 .. Len(made) : upto[n] = Body(upto, n)
  <2> HIDE DEF upto
  <2> QED
    BY <1>5
<1>7. Len(made) \in Nat
  BY LengthIs
<1>8. upto[0] = <<>>
  BY <1>6, <1>7
<1>9. \A n \in 1 .. Len(made) : upto[n] = OneAddition(peer, upto[n - 1], made[n])
  <2> HIDE DEF upto
  <2> QED
    BY <1>6
<1> HIDE DEF upto
<1> QED
  BY <1>4, <1>8, <1>9

\* Before the first call nothing was added.
LEMMA AdditionsNone ==
    ASSUME NEW peer
    PROVE  Additions(<<>>, peer) = <<>>
<1>1. IsSeq(<<>>) /\ Len(<<>>) = 0
  BY LengthIs
<1> QED
  BY <1>1, AdditionsIs

\* A call adds its segment behind those added before.
LEMMA AdditionsAppend ==
    ASSUME NEW made, IsSeq(made), NEW peer, NEW call
    PROVE  Additions(Append(made, call), peer) =
              OneAddition(peer, Additions(made, peer), call)
<1>1. PICK t : t = Append(made, call)
  OBVIOUS
<1>2. /\ Len(t) = Len(made) + 1 /\ t[Len(t)] = call /\ Len(made) \in Nat
      /\ \A n \in 1 .. Len(made) : t[n] = made[n]
  BY <1>1, AppendIs, LengthIs
<1>a. IsSeq(t)
  BY <1>1, AppendIs
<1>3. PICK f : /\ Additions(made, peer) = f[Len(made)] /\ f[0] = <<>>
               /\ \A n \in 1 .. Len(made) : f[n] = OneAddition(peer, f[n - 1], made[n])
  BY AdditionsIs
<1>4. PICK g : /\ Additions(t, peer) = g[Len(t)] /\ g[0] = <<>>
               /\ \A n \in 1 .. Len(t) : g[n] = OneAddition(peer, g[n - 1], t[n])
  BY <1>a, AdditionsIs
<1> DEFINE S == {n \in Nat : n <= Len(made) => g[n] = f[n]}
<1>5. 0 \in S
  BY <1>3, <1>4
<1>6. ASSUME NEW n \in Nat, n \in S PROVE n + 1 \in S
  <2> SUFFICES ASSUME n + 1 <= Len(made) PROVE g[n + 1] = f[n + 1]
    OBVIOUS
  <2>1. n + 1 \in 1 .. Len(made) /\ n + 1 \in 1 .. Len(t) /\ (n + 1) - 1 = n /\ n <= Len(made)
    BY <1>2
  <2>2. g[n] = f[n]
    BY <1>6, <2>1
  <2>3. /\ g[n + 1] = OneAddition(peer, g[(n + 1) - 1], t[n + 1])
        /\ f[n + 1] = OneAddition(peer, f[(n + 1) - 1], made[n + 1])
    BY <1>3, <1>4, <2>1
  <2> QED
    BY <1>2, <2>1, <2>2, <2>3
<1>7. Len(made) \in S
  <2> HIDE DEF S
  <2> QED
    BY <1>2, <1>5, <1>6, ByInduction
<1>8. g[Len(made)] = f[Len(made)]
  BY <1>2, <1>7
<1>9. Len(t) \in 1 .. Len(t) /\ Len(t) - 1 = Len(made)
  BY <1>2
<1>10. g[Len(t)] = OneAddition(peer, g[Len(t) - 1], t[Len(t)])
  BY <1>4, <1>9
<1> QED
  BY <1>1, <1>2, <1>3, <1>4, <1>8, <1>9, <1>10

-----------------------------------------------------------------------------
(* What a header tells of one peer *)

\* A descriptor's bytes are in the body.
Located(d, body) ==
    d.loc.start \in Nat /\ d.loc.end \in d.loc.start .. Len(body)

Told(descriptors, added, body) ==
    /\ IsSeq(descriptors) /\ IsSeq(added) /\ Len(descriptors) = Len(added)
    /\ \A n \in 1 .. Len(descriptors) :
          Describes(descriptors[n], added[n], body) /\ Located(descriptors[n], body)

\* What is described stays where it is, whatever is written behind it.
LEMMA DescribesGrown ==
    ASSUME NEW d, NEW call, NEW body, IsSeq(body), NEW more, IsSeq(more),
           Describes(d, call, body), Located(d, body)
    PROVE  Describes(d, call, body \o more) /\ Located(d, body \o more)
<1>1. PICK a, z : a = d.loc.start /\ z = d.loc.end
  OBVIOUS
<1>2. Len(body) \in Nat /\ Len(more) \in Nat
  BY LengthIs
<1>3. a \in Nat /\ z \in a .. Len(body)
  BY <1>1 DEF Located
<1>4. PICK new : new = body \o more
  OBVIOUS
<1>5. /\ IsSeq(new) /\ Len(new) = Len(body) + Len(more)
      /\ \A i \in 1 .. Len(body) : new[i] = body[i]
  BY <1>4, ConcatIs
<1>a. IsSeq(new)
  BY <1>5
<1>6. a + 1 \in 1 .. Len(body) + 1 /\ z \in (a + 1) - 1 .. Len(body)
  BY <1>2, <1>3
<1>7. a + 1 \in 1 .. Len(new) + 1 /\ z \in (a + 1) - 1 .. Len(new)
  BY <1>2, <1>3, <1>5
<1>8. PICK s, t : s = SubSeq(body, a + 1, z) /\ t = SubSeq(new, a + 1, z)
  OBVIOUS
<1>9. /\ IsSeq(s) /\ Len(s) = z - (a + 1) + 1
      /\ \A i \in 1 .. z - (a + 1) + 1 : s[i] = body[(a + 1) + i - 1]
  BY <1>6, <1>8, SubSeqIs
<1>10. /\ IsSeq(t) /\ Len(t) = z - (a + 1) + 1
       /\ \A i \in 1 .. z - (a + 1) + 1 : t[i] = new[(a + 1) + i - 1]
  BY <1>a, <1>7, <1>8, SubSeqIs
<1>11. \A i \in 1 .. z - (a + 1) + 1 : (a + 1) + i - 1 \in 1 .. Len(body)
  BY <1>2, <1>3
<1>12. \A i \in 1 .. Len(s) : s[i] = t[i]
  BY <1>5, <1>9, <1>10, <1>11
<1>13. IsSeq(s) /\ IsSeq(t) /\ Len(s) = Len(t)
  BY <1>9, <1>10
<1>14. s = t
  BY <1>12, <1>13, SameSeq
<1>15. Describes(d, call, new)
  BY <1>1, <1>8, <1>14 DEF Describes
<1>16. Located(d, new)
  BY <1>1, <1>2, <1>3, <1>5 DEF Located
<1> QED
  BY <1>4, <1>15, <1>16

\* What was just joined is described at the end of the body.
LEMMA DescribesNew ==
    ASSUME NEW call, NEW body, IsSeq(body), IsSeq(call.joined.bytes), NEW d,
           d = Descriptor(call.container, call.joined, Len(body),
                          Len(body \o call.joined.bytes))
    PROVE  /\ Describes(d, call, body \o call.joined.bytes)
           /\ Located(d, body \o call.joined.bytes)
<1>1. PICK more : more = call.joined.bytes
  OBVIOUS
<1>b. IsSeq(more)
  BY <1>1
<1>2. Len(body) \in Nat /\ Len(more) \in Nat
  BY <1>b, LengthIs
<1>3. PICK new : new = body \o more
  OBVIOUS
<1>4. /\ IsSeq(new) /\ Len(new) = Len(body) + Len(more)
      /\ \A i \in 1 .. Len(more) : new[Len(body) + i] = more[i]
  BY <1>b, <1>3, ConcatIs
<1>a. IsSeq(new)
  BY <1>4
<1>5. d.loc.start = Len(body) /\ d.loc.end = Len(new)
  BY <1>1, <1>3 DEF Descriptor
<1>6. PICK a, z : a = Len(body) /\ z = Len(new)
  OBVIOUS
<1>7. a + 1 \in 1 .. Len(new) + 1 /\ z \in (a + 1) - 1 .. Len(new)
  BY <1>2, <1>4, <1>6
<1>8. PICK t : t = SubSeq(new, a + 1, z)
  OBVIOUS
<1>9. /\ IsSeq(t) /\ Len(t) = z - (a + 1) + 1
      /\ \A i \in 1 .. z - (a + 1) + 1 : t[i] = new[(a + 1) + i - 1]
  BY <1>a, <1>7, <1>8, SubSeqIs
<1>10. z - (a + 1) + 1 = Len(more)
       /\ \A i \in 1 .. Len(more) : (a + 1) + i - 1 = Len(body) + i
  BY <1>2, <1>4, <1>6
<1>11. \A i \in 1 .. Len(t) : t[i] = more[i]
  BY <1>4, <1>9, <1>10
<1>12. IsSeq(t) /\ Len(t) = Len(more)
  BY <1>9, <1>10
<1>13. t = more
  BY <1>b, <1>11, <1>12, SameSeq
<1>14. SubSeq(new, d.loc.start + 1, d.loc.end) = call.joined.bytes
  BY <1>1, <1>5, <1>6, <1>8, <1>13
<1>15. d = Descriptor(call.container, call.joined, d.loc.start, d.loc.end)
  BY <1>1, <1>3, <1>5
<1>16. Describes(d, call, new)
  BY <1>14, <1>15 DEF Describes
<1>17. Located(d, new)
  BY <1>2, <1>4, <1>5 DEF Located
<1> QED
  BY <1>1, <1>3, <1>16, <1>17

\* Nothing to tell.
LEMMA ToldNone ==
    ASSUME NEW body
    PROVE  Told(<<>>, <<>>, body)
<1>1. IsSeq(<<>>) /\ Len(<<>>) = 0
  BY LengthIs
<1> QED
  BY <1>1 DEF Told

\* What is told stays true, whatever is written behind it.
LEMMA ToldGrown ==
    ASSUME NEW ds, NEW added, NEW body, IsSeq(body), NEW more, IsSeq(more),
           Told(ds, added, body)
    PROVE  Told(ds, added, body \o more)
<1>1. ASSUME NEW n \in 1 .. Len(ds)
      PROVE  Describes(ds[n], added[n], body \o more) /\ Located(ds[n], body \o more)
  <2>1. Describes(ds[n], added[n], body) /\ Located(ds[n], body)
    BY DEF Told
  <2> QED
    BY <2>1, DescribesGrown
<1>2. IsSeq(ds) /\ IsSeq(added) /\ Len(ds) = Len(added)
  BY DEF Told
<1> QED
  BY <1>1, <1>2 DEF Told

\* One segment more is told of.
LEMMA ToldAppend ==
    ASSUME NEW ds, NEW added, NEW body, Told(ds, added, body), NEW d, NEW call,
           Describes(d, call, body), Located(d, body)
    PROVE  Told(Append(ds, d), Append(added, call), body)
<1>1. IsSeq(ds) /\ IsSeq(added) /\ Len(ds) = Len(added) /\ Len(ds) \in Nat
  BY LengthIs DEF Told
<1>2. PICK x, y : x = Append(ds, d) /\ y = Append(added, call)
  OBVIOUS
<1>3. /\ IsSeq(x) /\ Len(x) = Len(ds) + 1 /\ x[Len(ds) + 1] = d
      /\ \A i \in 1 .. Len(ds) : x[i] = ds[i]
  BY <1>1, <1>2, AppendIs
<1>4. /\ IsSeq(y) /\ Len(y) = Len(added) + 1 /\ y[Len(added) + 1] = call
      /\ \A i \in 1 .. Len(added) : y[i] = added[i]
  BY <1>1, <1>2, AppendIs
<1>5. ASSUME NEW n \in 1 .. Len(x)
      PROVE  Describes(x[n], y[n], body) /\ Located(x[n], body)
  <2>1. CASE n = Len(ds) + 1
    BY <1>1, <1>3, <1>4, <2>1
  <2>2. CASE n # Len(ds) + 1
    <3>1. n \in 1 .. Len(ds) /\ x[n] = ds[n] /\ y[n] = added[n]
      BY <1>1, <1>3, <1>4, <2>2
    <3>2. Describes(ds[n], added[n], body) /\ Located(ds[n], body)
      BY <3>1 DEF Told
    <3> QED
      BY <3>1, <3>2
  <2> QED
    BY <2>1, <2>2
<1>6. IsSeq(x) /\ IsSeq(y) /\ Len(x) = Len(y)
  BY <1>1, <1>3, <1>4
<1>7. Told(x, y, body)
  BY <1>5, <1>6 DEF Told
<1> QED
  BY <1>2, <1>7

-----------------------------------------------------------------------------
(* The order of the peers *)

\* Of two ids there is a first difference.
LEMMA FirstDifference ==
    ASSUME NEW p \in Seq(Nat), NEW q \in Seq(Nat), Len(p) = Len(q), p # q
    PROVE  \E i \in 1 .. Len(p) : p[i] # q[i] /\ \A k \in 1 .. i - 1 : p[k] = q[k]
<1> DEFINE First(i) == p[i] # q[i] /\ \A k \in 1 .. i - 1 : p[k] = q[k]
           S == {n \in Nat : n <= Len(p) => \/ \A k \in 1 .. n : p[k] = q[k]
                                            \/ \E i \in 1 .. n : First(i)}
<1>1. 0 \in S
  OBVIOUS
<1>2. ASSUME NEW n \in Nat, n \in S PROVE n + 1 \in S
  <2> SUFFICES ASSUME n + 1 <= Len(p)
               PROVE  \/ \A k \in 1 .. n + 1 : p[k] = q[k]
                      \/ \E i \in 1 .. n + 1 : First(i)
    OBVIOUS
  <2>0. n <= Len(p)
    OBVIOUS
  <2>1. CASE \E i \in 1 .. n : First(i)
    <3> HIDE DEF First
    <3> QED
      BY <2>1
  <2>2. CASE \A k \in 1 .. n : p[k] = q[k]
    <3>1. CASE p[n + 1] = q[n + 1]
      BY <2>2, <3>1
    <3>2. CASE p[n + 1] # q[n + 1]
      <4>1. First(n + 1)
        BY <2>2, <3>2
      <4> HIDE DEF First
      <4> QED
        BY <4>1
    <3> QED
      BY <3>1, <3>2
  <2> QED
    BY <1>2, <2>0, <2>1, <2>2
<1>a. Len(p) \in Nat
  BY LenProperties
<1>3. Len(p) \in S
  <2> HIDE DEF S
  <2> QED
    BY <1>a, <1>1, <1>2, ByInduction
<1>4. \E k \in 1 .. Len(p) : p[k] # q[k]
  BY SeqEqual
<1>5. \E i \in 1 .. Len(p) : First(i)
  <2> HIDE DEF First
  <2> QED
    BY <1>a, <1>3, <1>4
<1> QED
  BY <1>5

\* The ids are in a strict order, and any two of them are.
LEMMA IdLessIs ==
    ASSUME NEW p \in Seq(Nat), NEW q \in Seq(Nat), Len(p) = Len(q), p # q
    PROVE  IdLess(p, q) \/ IdLess(q, p)
<1>1. PICK i \in 1 .. Len(p) : p[i] # q[i] /\ \A k \in 1 .. i - 1 : p[k] = q[k]
  BY FirstDifference
<1>2. p[i] \in Nat /\ q[i] \in Nat /\ DOMAIN p = 1 .. Len(p) /\ DOMAIN q = 1 .. Len(p)
  BY LenProperties, ElementOfSeq
<1>3. p[i] < q[i] \/ q[i] < p[i]
  BY <1>1, <1>2
<1> QED
  BY <1>1, <1>2, <1>3 DEF IdLess

\* What is before one that is before another is before the other.
LEMMA IdLessTransitive ==
    ASSUME NEW p \in Seq(Nat), NEW q \in Seq(Nat), NEW r \in Seq(Nat),
           Len(p) = Len(q), Len(q) = Len(r), IdLess(p, q), IdLess(q, r)
    PROVE  IdLess(p, r)
<1>1. DOMAIN p = 1 .. Len(p) /\ DOMAIN q = 1 .. Len(p) /\ DOMAIN r = 1 .. Len(p)
      /\ Len(p) \in Nat
      /\ \A i \in 1 .. Len(p) : p[i] \in Nat /\ q[i] \in Nat /\ r[i] \in Nat
  BY LenProperties, ElementOfSeq
<1>2. PICK i \in 1 .. Len(p) : p[i] < q[i] /\ \A k \in 1 .. i - 1 : p[k] = q[k]
  BY <1>1 DEF IdLess
<1>3. PICK j \in 1 .. Len(p) : q[j] < r[j] /\ \A k \in 1 .. j - 1 : q[k] = r[k]
  BY <1>1 DEF IdLess
<1>4. CASE i <= j
  <2>1. p[i] < r[i]
    <3>1. CASE i = j
      BY <1>1, <1>2, <1>3, <3>1
    <3>2. CASE i # j
      <4>1. i \in 1 .. j - 1
        BY <1>4, <3>2
      <4> QED
        BY <1>2, <1>3, <4>1
    <3> QED
      BY <3>1, <3>2
  <2>2. \A k \in 1 .. i - 1 : p[k] = r[k]
    <3>1. \A k \in 1 .. i - 1 : k \in 1 .. j - 1
      BY <1>4
    <3> QED
      BY <1>2, <1>3, <3>1
  <2> QED
    BY <1>1, <2>1, <2>2 DEF IdLess
<1>5. CASE j < i
  <2>1. j \in 1 .. i - 1
    BY <1>5
  <2>2. p[j] < r[j]
    BY <1>2, <1>3, <2>1
  <2>3. \A k \in 1 .. j - 1 : k \in 1 .. i - 1
    BY <1>5
  <2>4. \A k \in 1 .. j - 1 : p[k] = r[k]
    BY <1>2, <1>3, <2>3
  <2> QED
    BY <1>1, <2>2, <2>4 DEF IdLess
<1> QED
  BY <1>4, <1>5

\* A set of indices has a last one.
LEMMA LastIndex ==
    ASSUME NEW n \in Nat, NEW I, I \subseteq 1 .. n, I # {}
    PROVE  Max(I) \in I /\ \A i \in I : i <= Max(I)
<1> DEFINE Latest(m) == m \in I /\ \A i \in I : i <= m
           Upto(m, k) == m \in I /\ m <= k /\ \A i \in I : i <= m \/ i > k
           S == {k \in Nat : (\A i \in I : i > k) \/ \E m \in I : Upto(m, k)}
<1>1. 0 \in S
  OBVIOUS
<1>2. ASSUME NEW k \in Nat, k \in S PROVE k + 1 \in S
  <2>1. CASE k + 1 \in I
    <3>1. Upto(k + 1, k + 1)
      <4>1. \A i \in I : i <= k + 1 \/ i > k + 1
        OBVIOUS
      <4> QED
        BY <2>1, <4>1
    <3> HIDE DEF Upto
    <3> QED
      BY <2>1, <3>1
  <2>2. CASE k + 1 \notin I
    <3>1. CASE \A i \in I : i > k
      <4>1. \A i \in I : i > k + 1
        BY <2>2, <3>1
      <4> HIDE DEF Upto
      <4> QED
        BY <4>1
    <3>2. CASE \E m \in I : Upto(m, k)
      <4>1. PICK m \in I : Upto(m, k)
        BY <3>2
      <4>2. Upto(m, k + 1)
        BY <2>2, <4>1
      <4> HIDE DEF Upto
      <4> QED
        BY <4>2
    <3> HIDE DEF Upto
    <3> QED
      BY <1>2, <3>1, <3>2
  <2> QED
    BY <2>1, <2>2
<1>3. n \in S
  <2> HIDE DEF S
  <2> QED
    BY <1>1, <1>2, ByInduction
<1>4. \E m \in I : Upto(m, n)
  <2>1. \E i \in 1 .. n : i \in I
    OBVIOUS
  <2>2. ~ \A i \in I : i > n
    BY <2>1
  <2> HIDE DEF Upto
  <2> QED
    BY <1>3, <2>2
<1>5. PICK m \in I : Latest(m)
  BY <1>4
<1>6. \A i \in I : m >= i
  BY <1>5
<1>7. Max(I) \in I /\ \A i \in I : Max(I) >= i
  BY <1>5, <1>6 DEF Max
<1> QED
  BY <1>7

-----------------------------------------------------------------------------
(* Where a new peer goes *)

Ordered(peers) ==
    \A i, k \in 1 .. Len(peers) : k < i => IdLess(peers[k].peer, peers[i].peer)

\* The last of the peers before it.
LEMMA LastBeforeIs ==
    ASSUME NEW peers, IsSeq(peers), NEW peer
    PROVE  /\ LastBefore(peers, peer) \in 0 .. Len(peers)
           /\ LastBefore(peers, peer) # 0 => IdLess(peers[LastBefore(peers, peer)].peer, peer)
           /\ \A i \in 1 .. Len(peers) :
                 i > LastBefore(peers, peer) => ~ IdLess(peers[i].peer, peer)
<1> DEFINE I == {i \in 1 .. Len(peers) : IdLess(peers[i].peer, peer)}
<1>1. LastBefore(peers, peer) = IF I # {} THEN Max(I) ELSE 0
  BY DEF LastBefore, SelectLastInSeq
<1>2. Len(peers) \in Nat
  BY LengthIs
<1>3. CASE I = {}
  <2>1. LastBefore(peers, peer) = 0
    BY <1>1, <1>3
  <2>2. \A i \in 1 .. Len(peers) : ~ IdLess(peers[i].peer, peer)
    BY <1>3
  <2> QED
    BY <1>2, <2>1, <2>2
<1>4. CASE I # {}
  <2>1. PICK k : k = LastBefore(peers, peer)
    OBVIOUS
  <2>2. k = Max(I)
    BY <1>1, <1>4, <2>1
  <2>3. I \subseteq 1 .. Len(peers)
    OBVIOUS
  <2>4. k \in I /\ \A i \in I : i <= k
    <3> HIDE DEF I
    <3> QED
      BY <1>2, <1>4, <2>2, <2>3, LastIndex
  <2>5. k \in 0 .. Len(peers) /\ IdLess(peers[k].peer, peer)
    BY <1>2, <2>4
  <2>6. ASSUME NEW i \in 1 .. Len(peers), i > k PROVE ~ IdLess(peers[i].peer, peer)
    <3>1. i \notin I
      <4> HIDE DEF I
      <4> QED
        BY <1>2, <2>4, <2>5, <2>6
    <3> QED
      BY <3>1
  <2> HIDE DEF I
  <2> QED
    BY <2>1, <2>5, <2>6
<1> QED
  BY <1>3, <1>4

\* Which entry is where after an insertion.
LEMMA InsertedIs ==
    ASSUME NEW s, IsSeq(s), NEW k \in 0 .. Len(s), NEW x
    PROVE  /\ IsSeq(InsertAt(s, k + 1, x)) /\ Len(InsertAt(s, k + 1, x)) = Len(s) + 1
           /\ InsertAt(s, k + 1, x)[k + 1] = x
           /\ \A i \in 1 .. k : InsertAt(s, k + 1, x)[i] = s[i]
           /\ \A i \in k + 1 .. Len(s) : InsertAt(s, k + 1, x)[i + 1] = s[i]
<1>1. Len(s) \in Nat
  BY LengthIs
<1>2. PICK p, q : p = SubSeq(s, 1, (k + 1) - 1) /\ q = SubSeq(s, k + 1, Len(s))
  OBVIOUS
<1>3. /\ IsSeq(p) /\ Len(p) = k
      /\ \A i \in 1 .. k : p[i] = s[i]
  <2>1. 1 \in 1 .. Len(s) + 1 /\ (k + 1) - 1 \in 1 - 1 .. Len(s)
    BY <1>1
  <2>2. /\ IsSeq(p) /\ Len(p) = (k + 1) - 1 - 1 + 1
        /\ \A i \in 1 .. (k + 1) - 1 - 1 + 1 : p[i] = s[1 + i - 1]
    BY <1>2, <2>1, SubSeqIs
  <2>3. (k + 1) - 1 - 1 + 1 = k /\ \A i \in 1 .. k : 1 + i - 1 = i
    BY <1>1
  <2> QED
    BY <2>2, <2>3
<1>4. /\ IsSeq(q) /\ Len(q) = Len(s) - k
      /\ \A i \in 1 .. Len(s) - k : q[i] = s[k + i]
  <2>1. k + 1 \in 1 .. Len(s) + 1 /\ Len(s) \in (k + 1) - 1 .. Len(s)
    BY <1>1
  <2>2. /\ IsSeq(q) /\ Len(q) = Len(s) - (k + 1) + 1
        /\ \A i \in 1 .. Len(s) - (k + 1) + 1 : q[i] = s[(k + 1) + i - 1]
    BY <1>2, <2>1, SubSeqIs
  <2>3. Len(s) - (k + 1) + 1 = Len(s) - k /\ \A i \in 1 .. Len(s) - k : (k + 1) + i - 1 = k + i
    BY <1>1
  <2> QED
    BY <2>2, <2>3
<1>5. PICK t : t = Spliced(p, x, q)
  OBVIOUS
<1>6. t = InsertAt(s, k + 1, x)
  BY <1>2, <1>5 DEF Spliced, Single, InsertAt
<1>7. IsSeq(p) /\ IsSeq(q)
  BY <1>3, <1>4
<1>8. /\ IsSeq(t) /\ Len(t) = Len(p) + 1 + Len(q)
      /\ t[Len(p) + 1] = x
      /\ \A i \in 1 .. Len(p) : t[i] = p[i]
      /\ \A i \in 1 .. Len(q) : t[Len(p) + 1 + i] = q[i]
  BY <1>5, <1>7, SplicedIs
<1>9. Len(t) = Len(s) + 1 /\ t[k + 1] = x /\ \A i \in 1 .. k : t[i] = s[i]
  BY <1>1, <1>3, <1>4, <1>8
<1>10. ASSUME NEW i \in k + 1 .. Len(s) PROVE t[i + 1] = s[i]
  <2>1. PICK j \in 1 .. Len(s) - k : i = k + j
    <3>1. i - k \in 1 .. Len(s) - k /\ i = k + (i - k)
      BY <1>1
    <3> QED
      BY <3>1
  <2>2. i + 1 = k + 1 + j
    BY <1>1, <2>1
  <2>3. t[k + 1 + j] = q[j] /\ q[j] = s[k + j]
    BY <1>3, <1>4, <1>8
  <2> QED
    BY <2>1, <2>2, <2>3
<1>11. IsSeq(t)
  BY <1>8
<1> QED
  BY <1>6, <1>9, <1>10, <1>11

\* The ids of peers.
PeersOf(peers) == \A i \in 1 .. Len(peers) : peers[i].peer \in PeerIds

\* In its place a new peer leaves the peers in their order.
LEMMA OrderedInserted ==
    ASSUME NEW peers, IsSeq(peers), PeersOf(peers), Ordered(peers), NEW x,
           x.peer \in PeerIds, \A i \in 1 .. Len(peers) : peers[i].peer # x.peer
    PROVE  Ordered(InsertAt(peers, LastBefore(peers, x.peer) + 1, x))
<1>1. PICK m : m = LastBefore(peers, x.peer)
  OBVIOUS
<1>2. /\ m \in 0 .. Len(peers)
      /\ m # 0 => IdLess(peers[m].peer, x.peer)
      /\ \A i \in 1 .. Len(peers) : i > m => ~ IdLess(peers[i].peer, x.peer)
  BY <1>1, LastBeforeIs
<1>3. Len(peers) \in Nat
  BY LengthIs
<1>4. PICK t : t = InsertAt(peers, m + 1, x)
  OBVIOUS
<1>5. /\ IsSeq(t) /\ Len(t) = Len(peers) + 1 /\ t[m + 1] = x
      /\ \A i \in 1 .. m : t[i] = peers[i]
      /\ \A i \in m + 1 .. Len(peers) : t[i + 1] = peers[i]
  <2>1. m \in 0 .. Len(peers)
    BY <1>2
  <2> QED
    BY <1>4, <2>1, InsertedIs
<1>6. \A p, q \in PeerIds : p \in Seq(Nat) /\ Len(p) = Len(q)
  BY PackBuilderAssumption DEF PackBuilderAssumption
<1>7. \A p, q \in PeerIds : p # q /\ ~ IdLess(p, q) => IdLess(q, p)
  BY <1>6, IdLessIs
<1>8. \A p, q, r \in PeerIds : IdLess(p, q) /\ IdLess(q, r) => IdLess(p, r)
  BY <1>6, IdLessTransitive
<1>9. \A i \in 1 .. Len(peers) : peers[i].peer \in PeerIds
  BY DEF PeersOf
<1>10. \A i, k \in 1 .. Len(peers) : k < i => IdLess(peers[k].peer, peers[i].peer)
  BY DEF Ordered
<1>11. ASSUME NEW k \in 1 .. m PROVE IdLess(peers[k].peer, x.peer)
  <2>1. k \in 1 .. Len(peers) /\ m \in 1 .. Len(peers) /\ IdLess(peers[m].peer, x.peer)
    BY <1>2, <1>3
  <2>2. CASE k = m
    BY <2>1, <2>2
  <2>3. CASE k # m
    <3>1. IdLess(peers[k].peer, peers[m].peer)
      BY <1>2, <1>10, <2>1, <2>3
    <3>2. peers[k].peer \in PeerIds /\ peers[m].peer \in PeerIds
      BY <1>9, <2>1
    <3> QED
      BY <1>8, <2>1, <3>1, <3>2
  <2> QED
    BY <2>2, <2>3
<1>12. ASSUME NEW i \in m + 1 .. Len(peers) PROVE IdLess(x.peer, peers[i].peer)
  <2>1. i \in 1 .. Len(peers) /\ i > m
    BY <1>2, <1>3
  <2>2. ~ IdLess(peers[i].peer, x.peer) /\ peers[i].peer \in PeerIds /\ peers[i].peer # x.peer
    BY <1>2, <1>9, <2>1
  <2> QED
    BY <1>7, <2>2
<1>13. ASSUME NEW i \in 1 .. Len(t), NEW k \in 1 .. Len(t), k < i
       PROVE  IdLess(t[k].peer, t[i].peer)
  <2>1. CASE i \in 1 .. m
    <3>1. k \in 1 .. m /\ k \in 1 .. Len(peers) /\ i \in 1 .. Len(peers)
      BY <1>2, <1>3, <1>13, <2>1
    <3> QED
      BY <1>5, <1>10, <1>13, <2>1, <3>1
  <2>2. CASE i = m + 1
    <3>1. k \in 1 .. m
      BY <1>2, <1>13, <2>2
    <3> QED
      BY <1>5, <1>11, <2>2, <3>1
  <2>3. CASE i \notin 1 .. m /\ i # m + 1
    <3>1. PICK j \in m + 1 .. Len(peers) : i = j + 1
      <4>1. i - 1 \in m + 1 .. Len(peers) /\ i = (i - 1) + 1
        BY <1>2, <1>3, <1>5, <2>3
      <4> QED
        BY <4>1
    <3>2. t[i] = peers[j]
      BY <1>5, <3>1
    <3>a. j \in 1 .. Len(peers)
      BY <1>2, <1>3
    <3>3. CASE k \in 1 .. m
      <4>1. k \in 1 .. Len(peers) /\ k < j
        BY <1>2, <1>3, <3>3
      <4> QED
        BY <1>5, <1>10, <3>2, <3>3, <3>a, <4>1
    <3>4. CASE k = m + 1
      BY <1>5, <1>12, <3>2, <3>4
    <3>5. CASE k \notin 1 .. m /\ k # m + 1
      <4>1. PICK l \in m + 1 .. Len(peers) : k = l + 1
        <5>1. k - 1 \in m + 1 .. Len(peers) /\ k = (k - 1) + 1
          BY <1>2, <1>3, <1>5, <3>5
        <5> QED
          BY <5>1
      <4>2. t[k] = peers[l] /\ l \in 1 .. Len(peers) /\ l < j
        BY <1>2, <1>3, <1>5, <1>13, <3>1, <4>1
      <4> QED
        BY <1>10, <3>2, <3>a, <4>2
    <3> QED
      BY <3>3, <3>4, <3>5
  <2> QED
    BY <2>1, <2>2, <2>3
<1>14. Ordered(t)
  BY <1>13 DEF Ordered
<1> QED
  BY <1>1, <1>4, <1>14

-----------------------------------------------------------------------------
(* The invariant *)

IsBuilder(b) == \E ds, ps, bytes : b = [segments |-> ds, peers |-> ps, body |-> bytes]

IsPeer(p) == \E id, old, ds : p = [peer |-> id, supersedes |-> old, segments |-> ds]

\* What is said of another peer.
PeerTold(p, made, body) ==
    IsPeer(p) /\ p.peer # Self /\ Told(p.segments, Additions(made, p.peer), body)

PeersTold(peers, made, body) == \A i \in 1 .. Len(peers) : PeerTold(peers[i], made, body)

IsListed(peers, peer) == \E i \in 1 .. Len(peers) : peers[i].peer = peer

AllListed(peers, made) ==
    \A p \in PeerIds \ {Self} : Additions(made, p) # <<>> => IsListed(peers, p)

PeersOk(peers, made, body) ==
    /\ IsSeq(peers) /\ PeersOf(peers) /\ Ordered(peers)
    /\ PeersTold(peers, made, body) /\ AllListed(peers, made)

Built(segments, peers, body, made) ==
    /\ IsSeq(body) /\ IsSeq(made)
    /\ Told(segments, Additions(made, Self), body)
    /\ PeersOk(peers, made, body)

BuilderInv ==
    /\ IsBuilder(builder)
    /\ Built(builder.segments, builder.peers, builder.body, calls)

\* A call that adds nothing to a peer's segments leaves what is told of it true.
LEMMA ToldStill ==
    ASSUME NEW ds, NEW made, IsSeq(made), NEW peer, NEW body, IsSeq(body),
           Told(ds, Additions(made, peer), body), NEW call, NEW more, IsSeq(more),
           ~ (call.peer = peer /\ Added(call.joined))
    PROVE  Told(ds, Additions(Append(made, call), peer), body \o more)
<1>1. Additions(Append(made, call), peer) = Additions(made, peer)
  BY AdditionsAppend DEF OneAddition
<1> QED
  BY <1>1, ToldGrown

\* One that does is told of with the others.
LEMMA ToldMore ==
    ASSUME NEW ds, NEW made, IsSeq(made), NEW peer, NEW body, IsSeq(body),
           Told(ds, Additions(made, peer), body), NEW call, IsSeq(call.joined.bytes),
           call.peer = peer, Added(call.joined), NEW d,
           d = Descriptor(call.container, call.joined, Len(body),
                          Len(body \o call.joined.bytes))
    PROVE  Told(Append(ds, d), Additions(Append(made, call), peer),
                body \o call.joined.bytes)
<1>1. Additions(Append(made, call), peer) = Append(Additions(made, peer), call)
  BY AdditionsAppend DEF OneAddition
<1>2. Told(ds, Additions(made, peer), body \o call.joined.bytes)
  BY ToldGrown
<1>3. /\ Describes(d, call, body \o call.joined.bytes)
      /\ Located(d, body \o call.joined.bytes)
  BY DescribesNew
<1> QED
  BY <1>1, <1>2, <1>3, ToldAppend

\* What is told of another peer stays true if nothing was added to its segments.
LEMMA PeerStill ==
    ASSUME NEW p, NEW made, IsSeq(made), NEW body, IsSeq(body), PeerTold(p, made, body),
           NEW call, NEW more, IsSeq(more), ~ (call.peer = p.peer /\ Added(call.joined))
    PROVE  PeerTold(p, Append(made, call), body \o more)
<1>1. Told(p.segments, Additions(made, p.peer), body)
  BY DEF PeerTold
<1>2. Told(p.segments, Additions(Append(made, call), p.peer), body \o more)
  BY <1>1, ToldStill
<1> QED
  BY <1>2 DEF PeerTold

\* The other peers, if nothing was added to theirs.
LEMMA PeersStill ==
    ASSUME NEW peers, NEW made, IsSeq(made), NEW body, IsSeq(body),
           PeersOk(peers, made, body), NEW call, NEW more, IsSeq(more),
           \A p \in PeerIds \ {Self} : ~ (call.peer = p /\ Added(call.joined))
    PROVE  PeersOk(peers, Append(made, call), body \o more)
<1>1. IsSeq(peers) /\ PeersOf(peers) /\ Ordered(peers)
  BY DEF PeersOk
<1>2. ASSUME NEW i \in 1 .. Len(peers)
      PROVE  PeerTold(peers[i], Append(made, call), body \o more)
  <2>1. PeerTold(peers[i], made, body)
    BY DEF PeersOk, PeersTold
  <2>2. peers[i].peer \in PeerIds \ {Self}
    BY <1>1, <2>1 DEF PeersOf, PeerTold
  <2>3. ~ (call.peer = peers[i].peer /\ Added(call.joined))
    BY <2>2
  <2> QED
    BY <2>1, <2>3, PeerStill
<1>3. ASSUME NEW p \in PeerIds \ {Self}, Additions(Append(made, call), p) # <<>>
      PROVE  IsListed(peers, p)
  <2>1. Additions(Append(made, call), p) = Additions(made, p)
    BY AdditionsAppend DEF OneAddition
  <2> QED
    BY <1>3, <2>1 DEF PeersOk, AllListed
<1> QED
  BY <1>1, <1>2, <1>3 DEF PeersOk, PeersTold, AllListed

\* What a segment more changes in the description of a peer.
LEMMA WithSegmentIs ==
    ASSUME NEW p, IsPeer(p), NEW d
    PROVE  /\ IsPeer(WithSegment(p, d)) /\ WithSegment(p, d).peer = p.peer
           /\ WithSegment(p, d).segments = Append(p.segments, d)
<1>1. PICK id, old, ds : p = [peer |-> id, supersedes |-> old, segments |-> ds]
  BY DEF IsPeer
<1>2. PICK more : more = Append(ds, d)
  OBVIOUS
<1>3. WithSegment(p, d) = [peer |-> id, supersedes |-> old, segments |-> more]
  <2>1. p.segments = ds
    BY <1>1
  <2>2. Append(p.segments, d) = more
    BY <1>2, <2>1
  <2>3. WithSegment(p, d) = [p EXCEPT !.segments = more]
    BY <2>2 DEF WithSegment
  <2> QED
    BY <1>1, <2>3
<1>4. IsPeer(WithSegment(p, d))
  BY <1>3 DEF IsPeer
<1>5. WithSegment(p, d).peer = p.peer /\ WithSegment(p, d).segments = more
  BY <1>1, <1>3
<1>6. more = Append(p.segments, d)
  BY <1>1, <1>2
<1> QED
  BY <1>4, <1>5, <1>6

\* One segment more of a peer that is listed.
LEMMA PeersListed ==
    ASSUME NEW peers, NEW made, IsSeq(made), NEW body, IsSeq(body),
           PeersOk(peers, made, body), NEW call, IsSeq(call.joined.bytes),
           call.peer \in PeerIds \ {Self}, Added(call.joined), IsListed(peers, call.peer),
           NEW d,
           d = Descriptor(call.container, call.joined, Len(body),
                          Len(body \o call.joined.bytes))
    PROVE  PeersOk(AddPeerSegment(peers, call.peer, d), Append(made, call),
                   body \o call.joined.bytes)
<1> DEFINE Same(i) == IF peers[i].peer = call.peer THEN WithSegment(peers[i], d) ELSE peers[i]
<1>1. IsSeq(peers) /\ PeersOf(peers) /\ Ordered(peers)
  BY DEF PeersOk
<1>2. DOMAIN peers = 1 .. Len(peers) /\ Len(peers) \in Nat
  BY <1>1, LengthIs
<1>3. PICK t : t = AddPeerSegment(peers, call.peer, d)
  OBVIOUS
<1>4. t = [i \in 1 .. Len(peers) |-> Same(i)]
  BY <1>2, <1>3 DEF AddPeerSegment, IsListed
<1>5. IsSeq(t) /\ Len(t) = Len(peers)
  <2> DEFINE T == {Same(i) : i \in 1 .. Len(peers)}
  <2> HIDE DEF Same
  <2>1. t \in [1 .. Len(peers) -> T]
    BY <1>4
  <2> HIDE DEF T
  <2>2. t \in Seq(T)
    BY <1>2, <2>1, SeqDef
  <2>3. DOMAIN t = 1 .. Len(peers) /\ DOMAIN t = 1 .. Len(t) /\ Len(t) \in Nat
    BY <2>1, <2>2, LenProperties
  <2> QED
    BY <1>2, <2>2, <2>3 DEF IsSeq
<1>6. \A i \in 1 .. Len(peers) : t[i] = Same(i)
  <2> HIDE DEF Same
  <2> QED
    BY <1>4
<1>7. \A i \in 1 .. Len(peers) : PeerTold(peers[i], made, body)
  BY DEF PeersOk, PeersTold
<1>8. \A i \in 1 .. Len(peers) : t[i].peer = peers[i].peer
  BY <1>6, <1>7, WithSegmentIs DEF PeerTold
<1>9. ASSUME NEW i \in 1 .. Len(t)
      PROVE  PeerTold(t[i], Append(made, call), body \o call.joined.bytes)
  <2>1. i \in 1 .. Len(peers) /\ PeerTold(peers[i], made, body)
    BY <1>5, <1>7
  <2>2. PICK p : p = peers[i]
    OBVIOUS
  <2>3. CASE p.peer = call.peer
    <3>1. PICK q : q = WithSegment(p, d)
      OBVIOUS
    <3>2. t[i] = q
      BY <1>6, <2>1, <2>2, <2>3, <3>1
    <3>3. IsPeer(p) /\ p.peer # Self /\ Told(p.segments, Additions(made, p.peer), body)
      BY <2>1, <2>2 DEF PeerTold
    <3>4. IsPeer(q) /\ q.peer = p.peer /\ q.segments = Append(p.segments, d)
      BY <3>1, <3>3, WithSegmentIs
    <3>5. Told(Append(p.segments, d), Additions(Append(made, call), p.peer),
               body \o call.joined.bytes)
      BY <2>3, <3>3, ToldMore
    <3>6. PeerTold(q, Append(made, call), body \o call.joined.bytes)
      BY <3>3, <3>4, <3>5 DEF PeerTold
    <3> QED
      BY <3>2, <3>6
  <2>4. CASE p.peer # call.peer
    <3>1. t[i] = p
      BY <1>6, <2>1, <2>2, <2>4
    <3>2. ~ (call.peer = p.peer /\ Added(call.joined))
      BY <2>4
    <3>3. PeerTold(p, Append(made, call), body \o call.joined.bytes)
      BY <2>1, <2>2, <3>2, PeerStill
    <3> QED
      BY <3>1, <3>3
  <2> QED
    BY <2>3, <2>4
<1>10. PeersOf(t) /\ Ordered(t)
  BY <1>1, <1>5, <1>8 DEF PeersOf, Ordered
<1>11. ASSUME NEW p \in PeerIds \ {Self}, Additions(Append(made, call), p) # <<>>
       PROVE  IsListed(t, p)
  <2>1. CASE p = call.peer
    BY <1>5, <1>8, <2>1 DEF IsListed
  <2>2. CASE p # call.peer
    <3>1. Additions(Append(made, call), p) = Additions(made, p)
      BY <2>2, AdditionsAppend DEF OneAddition
    <3>2. IsListed(peers, p)
      BY <1>11, <3>1 DEF PeersOk, AllListed
    <3> QED
      BY <1>5, <1>8, <3>2 DEF IsListed
  <2> QED
    BY <2>1, <2>2
<1>12. IsSeq(t)
  BY <1>5
<1>13. PeersOk(t, Append(made, call), body \o call.joined.bytes)
  BY <1>9, <1>10, <1>11, <1>12 DEF PeersOk, PeersTold, AllListed
<1> QED
  BY <1>3, <1>13

\* The first segment of a peer.
LEMMA PeersNew ==
    ASSUME NEW peers, NEW made, IsSeq(made), NEW body, IsSeq(body),
           PeersOk(peers, made, body), NEW call, IsSeq(call.joined.bytes),
           call.peer \in PeerIds \ {Self}, Added(call.joined),
           ~ IsListed(peers, call.peer), NEW d,
           d = Descriptor(call.container, call.joined, Len(body),
                          Len(body \o call.joined.bytes))
    PROVE  PeersOk(AddPeerSegment(peers, call.peer, d), Append(made, call),
                   body \o call.joined.bytes)
<1>1. IsSeq(peers) /\ PeersOf(peers) /\ Ordered(peers)
  BY DEF PeersOk
<1>2. DOMAIN peers = 1 .. Len(peers) /\ Len(peers) \in Nat
  BY <1>1, LengthIs
<1>3. PICK x, m, t : /\ x = NewPeer(call.peer, d) /\ m = LastBefore(peers, call.peer)
                     /\ t = InsertAt(peers, m + 1, x)
  OBVIOUS
<1>4. t = AddPeerSegment(peers, call.peer, d)
  BY <1>2, <1>3 DEF AddPeerSegment, IsListed
<1>5. m \in 0 .. Len(peers)
  BY <1>1, <1>3, LastBeforeIs
<1>6. /\ IsSeq(t) /\ Len(t) = Len(peers) + 1 /\ t[m + 1] = x
      /\ \A i \in 1 .. m : t[i] = peers[i]
      /\ \A i \in m + 1 .. Len(peers) : t[i + 1] = peers[i]
  BY <1>1, <1>3, <1>5, InsertedIs
<1>7. PICK ds : ds = <<d>>
  OBVIOUS
<1>8. x = [peer |-> call.peer, supersedes |-> <<>>, segments |-> ds]
  BY <1>3, <1>7 DEF NewPeer
<1>9. IsPeer(x) /\ x.peer = call.peer /\ x.segments = ds
  BY <1>8 DEF IsPeer
<1>10. Told(ds, Additions(Append(made, call), call.peer), body \o call.joined.bytes)
  <2>1. Additions(made, call.peer) = <<>>
    BY DEF PeersOk, AllListed
  <2>2. Told(<<>>, Additions(made, call.peer), body)
    BY <2>1, ToldNone
  <2>3. Told(Append(<<>>, d), Additions(Append(made, call), call.peer),
             body \o call.joined.bytes)
    BY <2>2, ToldMore
  <2>4. ds = Append(<<>>, d)
    BY <1>7, SingleIs DEF Single
  <2> QED
    BY <2>3, <2>4
<1>11. PeerTold(x, Append(made, call), body \o call.joined.bytes)
  BY <1>9, <1>10 DEF PeerTold
<1>12. ASSUME NEW i \in 1 .. Len(peers)
       PROVE  /\ PeerTold(peers[i], Append(made, call), body \o call.joined.bytes)
              /\ peers[i].peer \in PeerIds /\ peers[i].peer # call.peer
  <2>1. PeerTold(peers[i], made, body)
    BY DEF PeersOk, PeersTold
  <2>2. peers[i].peer # call.peer
    BY DEF IsListed
  <2>3. PeerTold(peers[i], Append(made, call), body \o call.joined.bytes)
    BY <2>1, <2>2, PeerStill
  <2> QED
    BY <1>1, <2>2, <2>3 DEF PeersOf
<1>13. \A i \in 1 .. Len(t) : t[i] = x \/ \E k \in 1 .. Len(peers) : t[i] = peers[k]
  <2> SUFFICES ASSUME NEW i \in 1 .. Len(t)
               PROVE  t[i] = x \/ \E k \in 1 .. Len(peers) : t[i] = peers[k]
    OBVIOUS
  <2>1. CASE i \in 1 .. m
    BY <1>2, <1>5, <1>6, <2>1
  <2>2. CASE i = m + 1
    BY <1>6, <2>2
  <2>3. CASE i \notin 1 .. m /\ i # m + 1
    <3>1. PICK j \in m + 1 .. Len(peers) : i = j + 1
      <4>1. i - 1 \in m + 1 .. Len(peers) /\ i = (i - 1) + 1
        BY <1>2, <1>5, <1>6, <2>3
      <4> QED
        BY <4>1
    <3>2. t[i] = peers[j] /\ j \in 1 .. Len(peers)
      BY <1>2, <1>5, <1>6, <3>1
    <3> QED
      BY <3>2
  <2> QED
    BY <2>1, <2>2, <2>3
<1>14. \A i \in 1 .. Len(t) :
          PeerTold(t[i], Append(made, call), body \o call.joined.bytes) /\ t[i].peer \in PeerIds
  BY <1>9, <1>11, <1>12, <1>13
<1>15. Ordered(t)
  <2>1. x.peer \in PeerIds /\ \A i \in 1 .. Len(peers) : peers[i].peer # x.peer
    BY <1>9, <1>12
  <2>2. t = InsertAt(peers, LastBefore(peers, x.peer) + 1, x)
    BY <1>3, <1>9
  <2> QED
    BY <1>1, <2>1, <2>2, OrderedInserted
<1>16. \A k \in 1 .. Len(peers) : \E i \in 1 .. Len(t) : t[i] = peers[k]
  <2> SUFFICES ASSUME NEW k \in 1 .. Len(peers) PROVE \E i \in 1 .. Len(t) : t[i] = peers[k]
    OBVIOUS
  <2>1. CASE k \in 1 .. m
    <3>1. k \in 1 .. Len(t) /\ t[k] = peers[k]
      BY <1>2, <1>6, <2>1
    <3> QED
      BY <3>1
  <2>2. CASE k \notin 1 .. m
    <3>1. k \in m + 1 .. Len(peers) /\ k + 1 \in 1 .. Len(t)
      BY <1>2, <1>5, <1>6, <2>2
    <3>2. t[k + 1] = peers[k]
      BY <1>6, <3>1
    <3> QED
      BY <3>1, <3>2
  <2> QED
    BY <2>1, <2>2
<1>17. ASSUME NEW p \in PeerIds \ {Self}, Additions(Append(made, call), p) # <<>>
       PROVE  IsListed(t, p)
  <2>1. CASE p = call.peer
    <3>1. m + 1 \in 1 .. Len(t) /\ t[m + 1].peer = p
      BY <1>2, <1>5, <1>6, <1>9, <2>1
    <3> QED
      BY <3>1 DEF IsListed
  <2>2. CASE p # call.peer
    <3>1. Additions(Append(made, call), p) = Additions(made, p)
      BY <2>2, AdditionsAppend DEF OneAddition
    <3>2. IsListed(peers, p)
      BY <1>17, <3>1 DEF PeersOk, AllListed
    <3> QED
      BY <1>16, <3>2 DEF IsListed
  <2> QED
    BY <2>1, <2>2
<1>18. IsSeq(t)
  BY <1>6
<1>19. PeersOk(t, Append(made, call), body \o call.joined.bytes)
  BY <1>14, <1>15, <1>17, <1>18 DEF PeersOk, PeersTold, PeersOf, AllListed
<1> QED
  BY <1>4, <1>19

\* An empty builder, of which nothing was asked.
LEMMA BuilderInvInit == BuilderInit => BuilderInv
<1> SUFFICES ASSUME BuilderInit PROVE BuilderInv
  OBVIOUS
<1>1. /\ builder = [segments |-> <<>>, peers |-> <<>>, body |-> <<>>]
      /\ calls = <<>>
  BY DEF BuilderInit, NewBuilder
<1>2. IsSeq(<<>>) /\ Len(<<>>) = 0
  BY LengthIs
<1>3. IsBuilder(builder)
  BY <1>1 DEF IsBuilder
<1>4. \A p : Additions(<<>>, p) = <<>>
  BY AdditionsNone
<1>5. Told(<<>>, Additions(<<>>, Self), <<>>)
  BY <1>4, ToldNone
<1>6. PeersOk(<<>>, <<>>, <<>>)
  BY <1>2, <1>4 DEF PeersOk, PeersOf, Ordered, PeersTold, AllListed
<1>7. Built(<<>>, <<>>, <<>>, <<>>)
  BY <1>2, <1>5, <1>6 DEF Built
<1>8. builder.segments = <<>> /\ builder.peers = <<>> /\ builder.body = <<>>
  BY <1>1
<1> QED
  BY <1>1, <1>3, <1>7, <1>8 DEF BuilderInv

\* What a call leaves of the builder.
WithBody(b, body) == [b EXCEPT !.body = body]

WithOwn(b, body, ds) == [b EXCEPT !.body = body, !.segments = ds]

WithPeers(b, body, ps) == [b EXCEPT !.body = body, !.peers = ps]

\* The bytes of a failed addition stay, and nothing else changes.
LEMMA WithBodyIs ==
    ASSUME NEW b, IsBuilder(b), NEW body
    PROVE  /\ IsBuilder(WithBody(b, body)) /\ WithBody(b, body).body = body
           /\ WithBody(b, body).segments = b.segments /\ WithBody(b, body).peers = b.peers
<1>1. PICK ds, ps, bytes : b = [segments |-> ds, peers |-> ps, body |-> bytes]
  BY DEF IsBuilder
<1>2. WithBody(b, body) = [segments |-> ds, peers |-> ps, body |-> body]
  BY <1>1 DEF WithBody
<1>3. IsBuilder(WithBody(b, body))
  BY <1>2 DEF IsBuilder
<1>4. /\ WithBody(b, body).body = body
      /\ WithBody(b, body).segments = ds /\ WithBody(b, body).peers = ps
  BY <1>2
<1>5. b.segments = ds /\ b.peers = ps
  BY <1>1
<1> QED
  BY <1>3, <1>4, <1>5

\* A segment of the author changes the body and the author's list.
LEMMA WithOwnIs ==
    ASSUME NEW b, IsBuilder(b), NEW body, NEW new
    PROVE  /\ IsBuilder(WithOwn(b, body, new)) /\ WithOwn(b, body, new).body = body
           /\ WithOwn(b, body, new).segments = new /\ WithOwn(b, body, new).peers = b.peers
<1>1. PICK ds, ps, bytes : b = [segments |-> ds, peers |-> ps, body |-> bytes]
  BY DEF IsBuilder
<1>2. WithOwn(b, body, new) = [segments |-> new, peers |-> ps, body |-> body]
  <2>1. PICK w : w = [b EXCEPT !.body = body, !.segments = new]
    OBVIOUS
  <2>2. w = [segments |-> new, peers |-> ps, body |-> body]
    BY <1>1, <2>1
  <2> QED
    BY <2>1, <2>2 DEF WithOwn
<1>3. IsBuilder(WithOwn(b, body, new))
  BY <1>2 DEF IsBuilder
<1>4. /\ WithOwn(b, body, new).body = body
      /\ WithOwn(b, body, new).segments = new /\ WithOwn(b, body, new).peers = ps
  BY <1>2
<1>5. b.segments = ds /\ b.peers = ps
  BY <1>1
<1> QED
  BY <1>3, <1>4, <1>5

\* A segment of another peer changes the body and the other peers.
LEMMA WithPeersIs ==
    ASSUME NEW b, IsBuilder(b), NEW body, NEW new
    PROVE  /\ IsBuilder(WithPeers(b, body, new)) /\ WithPeers(b, body, new).body = body
           /\ WithPeers(b, body, new).segments = b.segments /\ WithPeers(b, body, new).peers = new
<1>1. PICK ds, ps, bytes : b = [segments |-> ds, peers |-> ps, body |-> bytes]
  BY DEF IsBuilder
<1>2. WithPeers(b, body, new) = [segments |-> ds, peers |-> new, body |-> body]
  <2>1. PICK w : w = [b EXCEPT !.body = body, !.peers = new]
    OBVIOUS
  <2>2. w = [segments |-> ds, peers |-> new, body |-> body]
    BY <1>1, <2>1
  <2> QED
    BY <2>1, <2>2 DEF WithPeers
<1>3. IsBuilder(WithPeers(b, body, new))
  BY <1>2 DEF IsBuilder
<1>4. /\ WithPeers(b, body, new).body = body
      /\ WithPeers(b, body, new).segments = ds /\ WithPeers(b, body, new).peers = new
  BY <1>2
<1>5. b.segments = ds /\ b.peers = ps
  BY <1>1
<1> QED
  BY <1>3, <1>4, <1>5

\* add_container_segments(), on each of its ways.
LEMMA BuilderInvAdds ==
    ASSUME BuilderInv, NEW peer \in PeerIds, NEW container \in Containers,
           NEW joined \in Joins, AddSegments(peer, container, joined)
    PROVE  BuilderInv'
<1>1. PICK call : call = [peer |-> peer, container |-> container, joined |-> joined]
  OBVIOUS
<1>2. call.peer = peer /\ call.container = container /\ call.joined = joined
  BY <1>1
<1>3. PICK b : b = builder
  OBVIOUS
<1>4. PICK segs, peers, body : segs = b.segments /\ peers = b.peers /\ body = b.body
  OBVIOUS
<1>5. IsBuilder(b) /\ Built(segs, peers, body, calls)
  BY <1>3, <1>4 DEF BuilderInv
<1>6. /\ IsSeq(body) /\ IsSeq(calls) /\ Told(segs, Additions(calls, Self), body)
      /\ PeersOk(peers, calls, body)
  BY <1>5 DEF Built
<1>7. IsSeq(joined.bytes)
  BY PackBuilderAssumption DEF PackBuilderAssumption, IsSeq
<1>8. PICK body2 : body2 = body \o joined.bytes
  OBVIOUS
<1>9. PICK d : d = Descriptor(container, joined, Len(body), Len(body2))
  OBVIOUS
<1>10. PICK new : new = AddContainerSegments(b, Self, peer, container, joined)
  OBVIOUS
<1>a. PICK own, others : own = Append(segs, d) /\ others = AddPeerSegment(peers, peer, d)
  OBVIOUS
<1>11. /\ IsBuilder(new) /\ new.body = body2
       /\ new.segments = IF Added(joined) /\ peer = Self THEN own ELSE segs
       /\ new.peers = IF Added(joined) /\ peer # Self THEN others ELSE peers
  <2>1. IsBuilder(b)
    BY <1>5
  <2>2. CASE ~ Added(joined)
    <3>1. new = WithBody(b, body2)
      BY <1>4, <1>8, <1>9, <1>10, <1>a, <2>2 DEF AddContainerSegments, WithBody
    <3>2. /\ IsBuilder(new) /\ new.body = body2
          /\ new.segments = segs /\ new.peers = peers
      BY <1>4, <2>1, <3>1, WithBodyIs
    <3> QED
      BY <2>2, <3>2
  <2>3. CASE Added(joined) /\ peer = Self
    <3>1. new = WithOwn(b, body2, own)
      BY <1>4, <1>8, <1>9, <1>10, <1>a, <2>3 DEF AddContainerSegments, WithOwn
    <3>2. /\ IsBuilder(new) /\ new.body = body2
          /\ new.segments = own /\ new.peers = peers
      BY <1>4, <2>1, <3>1, WithOwnIs
    <3> QED
      BY <2>3, <3>2
  <2>4. CASE Added(joined) /\ peer # Self
    <3>1. new = WithPeers(b, body2, others)
      BY <1>4, <1>8, <1>9, <1>10, <1>a, <2>4 DEF AddContainerSegments, WithPeers
    <3>2. /\ IsBuilder(new) /\ new.body = body2
          /\ new.segments = segs /\ new.peers = others
      BY <1>4, <2>1, <3>1, WithPeersIs
    <3> QED
      BY <2>4, <3>2
  <2> QED
    BY <2>2, <2>3, <2>4
<1>12. PICK made : made = Append(calls, call)
  OBVIOUS
<1>13. builder' = new /\ calls' = made
  BY <1>1, <1>3, <1>10, <1>12 DEF AddSegments
<1>14. IsSeq(body2) /\ IsSeq(made)
  BY <1>6, <1>7, <1>8, <1>12, ConcatIs, AppendIs
<1>15. Told(new.segments, Additions(made, Self), body2)
  <2>1. CASE Added(joined) /\ peer = Self
    <3>1. Told(Append(segs, d), Additions(Append(calls, call), Self),
               body \o call.joined.bytes)
      BY <1>2, <1>6, <1>7, <1>8, <1>9, <2>1, ToldMore
    <3> QED
      BY <1>2, <1>8, <1>11, <1>12, <1>a, <2>1, <3>1
  <2>2. CASE ~ (Added(joined) /\ peer = Self)
    <3>1. Told(segs, Additions(Append(calls, call), Self), body \o joined.bytes)
      BY <1>2, <1>6, <1>7, <2>2, ToldStill
    <3> QED
      BY <1>8, <1>11, <1>12, <2>2, <3>1
  <2> QED
    BY <2>1, <2>2
<1>16. PeersOk(new.peers, made, body2)
  <2>1. CASE Added(joined) /\ peer # Self
    <3>1. call.peer \in PeerIds \ {Self} /\ Added(call.joined) /\ IsSeq(call.joined.bytes)
      BY <1>2, <1>7, <2>1
    <3>2. d = Descriptor(call.container, call.joined, Len(body),
                         Len(body \o call.joined.bytes))
      BY <1>2, <1>8, <1>9
    <3>3. PeersOk(AddPeerSegment(peers, call.peer, d), Append(calls, call),
                  body \o call.joined.bytes)
      <4>1. CASE IsListed(peers, call.peer)
        BY <1>6, <3>1, <3>2, <4>1, PeersListed
      <4>2. CASE ~ IsListed(peers, call.peer)
        BY <1>6, <3>1, <3>2, <4>2, PeersNew
      <4> QED
        BY <4>1, <4>2
    <3> QED
      BY <1>2, <1>8, <1>11, <1>12, <1>a, <2>1, <3>3
  <2>2. CASE ~ (Added(joined) /\ peer # Self)
    <3>1. \A p \in PeerIds \ {Self} : ~ (call.peer = p /\ Added(call.joined))
      BY <1>2, <2>2
    <3>2. PeersOk(peers, Append(calls, call), body \o joined.bytes)
      BY <1>6, <1>7, <3>1, PeersStill
    <3> QED
      BY <1>8, <1>11, <1>12, <2>2, <3>2
  <2> QED
    BY <2>1, <2>2
<1>17. Built(new.segments, new.peers, new.body, made)
  BY <1>11, <1>14, <1>15, <1>16 DEF Built
<1> QED
  BY <1>11, <1>13, <1>17 DEF BuilderInv

\* Every step.
LEMMA BuilderInvNext == BuilderInv /\ [BuilderNext]_<<builder, calls>> => BuilderInv'
<1> SUFFICES ASSUME BuilderInv, [BuilderNext]_<<builder, calls>> PROVE BuilderInv'
  OBVIOUS
<1>1. CASE BuilderNext
  <2>1. PICK peer \in PeerIds, container \in Containers, joined \in Joins :
            AddSegments(peer, container, joined)
    BY <1>1 DEF BuilderNext
  <2> QED
    BY <2>1, BuilderInvAdds
<1>2. CASE UNCHANGED <<builder, calls>>
  BY <1>2 DEF BuilderInv
<1> QED
  BY <1>1, <1>2

\* What is told is what SegmentsFound asks for.
LEMMA ToldTells ==
    ASSUME NEW ds, NEW added, NEW body, Told(ds, added, body)
    PROVE  Tells(ds, added, body)
<1>1. IsSeq(ds) /\ Len(ds) = Len(added)
  BY DEF Told
<1>2. DOMAIN ds = 1 .. Len(ds)
  BY <1>1, LengthIs
<1> QED
  BY <1>1, <1>2 DEF Told, Tells

\* What the invariant says of the lists is what build() puts in the header.
LEMMA SegmentsFoundIs == BuilderInv => SegmentsFound
<1> SUFFICES ASSUME BuilderInv, NEW time \in Times, NEW parents \in Parents
             PROVE  Finds(BuildHeader(builder, time, parents, <<>>), builder.body, calls)
  BY DEF SegmentsFound
<1>1. PICK segs, peers, body :
          segs = builder.segments /\ peers = builder.peers /\ body = builder.body
  OBVIOUS
<1>2. PICK header : header = BuildHeader(builder, time, parents, <<>>)
  OBVIOUS
<1>3. header.segments = segs /\ header.peers = peers
  BY <1>1, <1>2 DEF BuildHeader
<1>4. Told(segs, Additions(calls, Self), body) /\ PeersOk(peers, calls, body)
  BY <1>1 DEF BuilderInv, Built
<1>5. IsSeq(peers) /\ PeersOf(peers) /\ Ordered(peers)
  BY <1>4 DEF PeersOk
<1>6. DOMAIN peers = 1 .. Len(peers) /\ Len(peers) \in Nat
  BY <1>5, LengthIs
<1>7. Tells(segs, Additions(calls, Self), body)
  BY <1>4, ToldTells
<1>8. \A p \in PeerIds \ {Self} :
          Additions(calls, p) # <<>> => \E i \in DOMAIN peers : peers[i].peer = p
  BY <1>4, <1>6 DEF PeersOk, AllListed, IsListed
<1>9. ASSUME NEW i \in DOMAIN peers
      PROVE  /\ peers[i].peer # Self
             /\ Tells(peers[i].segments, Additions(calls, peers[i].peer), body)
             /\ \A k \in 1 .. i - 1 : IdLess(peers[k].peer, peers[i].peer)
  <2>1. i \in 1 .. Len(peers)
    BY <1>6
  <2>2. PeerTold(peers[i], calls, body)
    BY <1>4, <2>1 DEF PeersOk, PeersTold
  <2>3. peers[i].peer # Self /\ Told(peers[i].segments, Additions(calls, peers[i].peer), body)
    BY <2>2 DEF PeerTold
  <2>4. \A k \in 1 .. i - 1 : k \in 1 .. Len(peers) /\ k < i
    BY <1>6, <2>1
  <2>5. \A k \in 1 .. i - 1 : IdLess(peers[k].peer, peers[i].peer)
    BY <1>5, <2>1, <2>4 DEF Ordered
  <2> QED
    BY <2>3, <2>5, ToldTells
<1>10. Finds(header, body, calls)
  BY <1>3, <1>7, <1>8, <1>9 DEF Finds
<1> QED
  BY <1>1, <1>2, <1>10

(***************************************************************************)
(* For any number of calls, peers and containers: the header that build()  *)
(* writes describes exactly the segments whose addition succeeded, each    *)
(* peer's in their order, the peers by their ids, and every body_loc finds *)
(* the bytes that join_segments() wrote for it, also behind bytes that a   *)
(* failed add_container_segments() left in the body.                       *)
(***************************************************************************)
THEOREM BuilderSegmentsFound == BuilderSpec => []SegmentsFound
<1>1. BuilderSpec => []BuilderInv
  BY BuilderInvInit, BuilderInvNext, PTL DEF BuilderSpec
<1> QED
  BY <1>1, SegmentsFoundIs, PTL

-----------------------------------------------------------------------------
(***************************************************************************)
(* Packs: a listed pack is complete, and what was published stays          *)
(* available.                                                              *)
(*                                                                         *)
(* Neither is inductive.  A deletion must not meet the writing of the same *)
(* pack half way: it cannot, since only a published pack is listed and     *)
(* only an unpublished one is written.  And a deletion that was decided    *)
(* when a newer pack was listed must still find it listed when it removes  *)
(* the header.                                                             *)
(***************************************************************************)

ListedIsPublished == ListPacks \subseteq published

WritingInv ==
    writing # Nothing =>
        /\ writing[1] \notin published
        /\ writing[2] = "header" => File(writing[1], "body") \in files

DeletingInv ==
    deleting # Nothing =>
        /\ deleting[1] \in published
        /\ deleting[2] = "body" => File(deleting[1], "header") \notin files

Covers(q, p) == p.seqs \subseteq q.seqs

\* The pack whose header is about to go is covered by another one.
Replaced ==
    deleting # Nothing =>
        \E q \in ListPacks \ {deleting[1]} : Covers(q, deleting[1])

PublishedIsListed == \A p \in published : \E q \in ListPacks : Covers(q, p)

PackInv ==
    /\ TypeOK
    /\ BodyBehindHeader
    /\ ListedIsPublished
    /\ WritingInv
    /\ DeletingInv
    /\ Replaced
    /\ PublishedIsListed

-----------------------------------------------------------------------------
\* write_pack() writes the body and then the header.
LEMMA WriteSteps ==
    /\ WriteOrder("body") = "header"
    /\ WriteOrder("header") = "done"
    /\ FirstWritten = "body"
<1>1. WriteOrder("body") = "header" /\ WriteOrder("header") = "done"
  BY DEF WriteOrder
<1>2. FirstWritten \in Kinds /\ WriteOrder(FirstWritten) # "done"
  BY <1>1 DEF FirstWritten, Kinds
<1> QED
  BY <1>1, <1>2 DEF Kinds

\* delete_pack() deletes the header and then the body.
LEMMA DeleteSteps ==
    /\ DeleteOrder("header") = "body"
    /\ DeleteOrder("body") = "done"
    /\ FirstDeleted = "header"
<1>1. DeleteOrder("header") = "body" /\ DeleteOrder("body") = "done"
  BY DEF DeleteOrder
<1>2. FirstDeleted \in Kinds /\ DeleteOrder(FirstDeleted) # "done"
  BY <1>1 DEF FirstDeleted, Kinds
<1> QED
  BY <1>1, <1>2 DEF Kinds

Headers(fs) == {p \in Packs : File(p, "header") \in fs}

\* list_packs() lists the packs whose header is there.
LEMMA ListedHasHeader ==
    ASSUME NEW fs \in SUBSET Files
    PROVE  {f.pack : f \in {g \in fs : ListedName(g)}} = Headers(fs)
<1> DEFINE Listed == {f.pack : f \in {g \in fs : ListedName(g)}}
<1>1. ASSUME NEW p \in Listed
      PROVE  p \in Packs /\ File(p, "header") \in fs
  <2>1. PICK f \in fs : ListedName(f) /\ p = f.pack
    BY <1>1
  <2>2. f = File(p, "header") /\ p \in Packs
    BY <2>1 DEF Files, File, ListedName, Kinds
  <2> QED
    BY <2>1, <2>2
<1>2. ASSUME NEW p \in Packs, File(p, "header") \in fs
      PROVE  p \in Listed
  BY <1>2 DEF ListedName, File
<1> QED
  BY <1>1, <1>2 DEF Headers

\* Files that differ in pack, kind or being temporary are different files.
LEMMA FileNames ==
    ASSUME NEW p, NEW q, NEW k, NEW l
    PROVE  /\ File(p, k) = File(q, l) <=> p = q /\ k = l
           /\ File(p, k) # Temp(q, l)
BY DEF File, Temp

\* Of the listed packs of one reference one is the last generation.
LEMMA LastGeneration ==
    ASSUME NEW S \in SUBSET Packs, NEW p \in S
    PROVE  \E q \in Dedupe(S) : q.ref = p.ref /\ q.generation >= p.generation
<1> DEFINE Same == {q \in S : q.ref = p.ref}
           Distance(q) == MaxGeneration - q.generation
           Distances == {Distance(q) : q \in Same}
<1>1. \A q \in S : q.generation \in 0 .. MaxGeneration /\ MaxGeneration \in Nat
  BY PackStoreAssumption
<1>2. Distances \subseteq Nat /\ Distances # {}
  BY <1>1
<1>3. PICK n \in Distances : \A m \in Distances : n <= m
  <2> HIDE DEF Distances
  <2> DEFINE Less == OpToRel(<, Nat)
  <2>1. PICK n \in Distances : \A m \in Distances : <<m, n>> \notin Less
    BY <1>2, NatLessThanWellFounded, WFMin
  <2>2. \A m, k \in Nat : m < k => <<m, k>> \in Less
    BY DEF OpToRel
  <2> HIDE DEF Less
  <2>3. \A m \in Distances : n <= m
    <3> SUFFICES ASSUME NEW m \in Distances PROVE n <= m
      OBVIOUS
    <3>1. m \in Nat /\ n \in Nat /\ ~ (m < n)
      BY <1>2, <2>1, <2>2
    <3> QED
      BY <3>1
  <2> QED
    BY <2>3
<1>4. PICK q \in Same : n = Distance(q)
  BY <1>3
<1>5. \A r \in Same : r.generation <= q.generation
  <2> SUFFICES ASSUME NEW r \in Same PROVE r.generation <= q.generation
    OBVIOUS
  <2>1. Distance(q) <= Distance(r)
    BY <1>3, <1>4
  <2> QED
    BY <2>1, <1>1
<1>6. q \in Dedupe(S)
  BY <1>5 DEF Dedupe
<1> QED
  BY <1>5, <1>6

-----------------------------------------------------------------------------
\* A task has nothing to do, or a file of a pack.
LEMMA StepFacts ==
    /\ Nothing \in Steps
    /\ \A p \in Packs, k \in Kinds : <<p, k>> \in Steps /\ <<p, k>> # Nothing
    /\ \A s \in Steps \ {Nothing} : s[1] \in Packs /\ s[2] \in Kinds
<1>1. Nothing \in Steps
  BY DEF Steps
<1>2. \A p, k : <<p, k>> # Nothing
  BY DEF Nothing
<1>3. \A p \in Packs, k \in Kinds : <<p, k>> \in Steps
  BY Zenon DEF Steps
<1>4. ASSUME NEW s \in Steps, s # Nothing
      PROVE  s[1] \in Packs /\ s[2] \in Kinds
  <2>1. s \in Packs \X Kinds
    BY <1>4, Zenon DEF Steps
  <2> QED
    BY <2>1
<1> QED
  BY <1>1, <1>2, <1>3, <1>4

LEMMA Bounds == MaxErrors \in Nat /\ MaxCrashes \in Nat
BY PackStoreAssumption

LEMMA InitInv == Init => PackInv
<1> SUFFICES ASSUME Init PROVE PackInv
  OBVIOUS
<1>1. TypeOK
  <2>1. writing \in Steps /\ deleting \in Steps
    BY StepFacts DEF Init
  <2>2. errors \in 0 .. MaxErrors /\ crashes \in 0 .. MaxCrashes
    BY PackStoreAssumption DEF Init
  <2>3. reader \in [listing : BOOLEAN, passed : SUBSET Packs, listed : SUBSET Packs,
                    wanted : SUBSET Packs, opened : SUBSET Packs]
    BY DEF Init, NoReader
  <2>4. files \subseteq Files /\ staged \in BOOLEAN /\ failed \subseteq Packs
        /\ published \subseteq Packs /\ missed \subseteq Packs
    BY DEF Init
  <2> QED
    BY <2>1, <2>2, <2>3, <2>4 DEF TypeOK
<1>2. ListPacks = {}
  BY DEF Init, ListPacks
<1> QED
  BY <1>1, <1>2 DEF Init, PackInv, BodyBehindHeader, ListedIsPublished, WritingInv,
     DeletingInv, Replaced, PublishedIsListed

LEMMA TypeStep ==
    ASSUME TypeOK, [Next]_vars
    PROVE  TypeOK'
<1> USE Bounds, StepFacts DEF TypeOK
<1>1. CASE WritePack
  <2>1. writing' \in Steps
    BY <1>1, WriteSteps, Zenon DEF WritePack, Kinds
  <2>2. failed' \subseteq Packs
    BY <1>1 DEF WritePack
  <2> QED
    BY <1>1, <2>1, <2>2 DEF WritePack
<1>2. CASE WriteTemp
  <2>1. Temp(writing[1], writing[2]) \in Files
    BY <1>2 DEF WriteTemp, Files, Temp
  <2> QED
    BY <1>2, <2>1 DEF WriteTemp
<1>3. CASE Rename
  <2>1. writing[1] \in Packs /\ writing[2] \in Kinds
    BY <1>3 DEF Rename
  <2>2. AfterFile(writing[1], writing[2]) \in Steps
    <3>1. CASE writing[2] = "body"
      BY <2>1, <3>1, WriteSteps, Zenon DEF AfterFile, Kinds
    <3>2. CASE writing[2] = "header"
      BY <2>1, <3>2, WriteSteps, Zenon DEF AfterFile, Kinds
    <3> QED
      BY <2>1, <3>1, <3>2 DEF Kinds
  <2>3. writing' \in Steps
    BY <1>3, <2>2 DEF Rename
  <2>4. files' \subseteq Files
    <3>1. files' = (files \ {Temp(writing[1], writing[2])}) \cup {File(writing[1], writing[2])}
      BY <1>3, Zenon DEF Rename
    <3>2. File(writing[1], writing[2]) \in Files
      BY <2>1 DEF Files, File
    <3> QED
      BY <3>1, <3>2
  <2>5. published' \subseteq Packs
    <3>1. published' = published \/ published' = published \cup {writing[1]}
      BY <1>3, Zenon DEF Rename
    <3> QED
      BY <2>1, <3>1
  <2> QED
    BY <1>3, <2>3, <2>4, <2>5 DEF Rename
<1>4. CASE WriteError
  <2>1. errors' \in 0 .. MaxErrors
    BY <1>4 DEF WriteError
  <2>2. failed' \subseteq Packs
    BY <1>4 DEF WriteError
  <2> QED
    BY <1>4, <2>1, <2>2 DEF WriteError
<1>5. CASE DeletePack
  <2>1. ListPacks \subseteq Packs
    BY ListedHasHeader DEF ListPacks, Headers
  <2> QED
    BY <1>5, <2>1, DeleteSteps DEF DeletePack, Kinds
<1>6. CASE RemoveFile
  BY <1>6, DeleteSteps DEF RemoveFile, Kinds
<1>7. CASE DeleteError
  BY <1>7 DEF DeleteError
<1>8. CASE Crash
  <2>1. crashes' \in 0 .. MaxCrashes
    BY <1>8 DEF Crash
  <2> QED
    BY <1>8, <2>1 DEF Crash
<1>9. CASE StartListing
  BY <1>9 DEF StartListing, NoReader
<1>10. CASE ListEntry
  <2>1. PICK p \in Packs : reader' = [reader EXCEPT !.passed = @ \cup {p},
                                         !.listed = @ \cup ({p} \cap ListPacks)]
    BY <1>10 DEF ListEntry
  <2>2. reader.passed \cup {p} \in SUBSET Packs
    OBVIOUS
  <2>3. reader.listed \cup ({p} \cap ListPacks) \in SUBSET Packs
    OBVIOUS
  <2>4. reader' = [reader EXCEPT !.passed = reader.passed \cup {p},
                                 !.listed = reader.listed \cup ({p} \cap ListPacks)]
    BY <2>1
  <2> QED
    BY <1>10, <2>2, <2>3, <2>4 DEF ListEntry
<1>11. CASE EndListing
  BY <1>11 DEF EndListing, NoReader, Dedupe
<1>12. CASE ReadHeader
  <2>1. PICK p \in reader.wanted :
           /\ reader' = [reader EXCEPT !.wanted = @ \ {p},
                            !.opened = IF File(p, "header") \in files
                                       THEN @ \cup {p} ELSE @]
           /\ missed' \in {missed, missed \cup {p}}
    BY <1>12, Zenon DEF ReadHeader
  <2> DEFINE opened == IF File(p, "header") \in files
                       THEN reader.opened \cup {p} ELSE reader.opened
  <2>2. p \in Packs /\ opened \in SUBSET Packs /\ reader.wanted \ {p} \in SUBSET Packs
    OBVIOUS
  <2>3. reader' = [reader EXCEPT !.wanted = reader.wanted \ {p}, !.opened = opened]
    BY <2>1
  <2> HIDE DEF opened
  <2> QED
    BY <1>12, <2>1, <2>2, <2>3 DEF ReadHeader
<1>13. CASE ReadBody
  BY <1>13 DEF ReadBody
<1>14. CASE UNCHANGED vars
  BY <1>14 DEF vars
<1> QED
  BY <1>1, <1>2, <1>3, <1>4, <1>5, <1>6, <1>7, <1>8, <1>9, <1>10, <1>11, <1>12,
     <1>13, <1>14 DEF Next

-----------------------------------------------------------------------------
\* What the rest of the invariant speaks of.
scope == <<files, writing, deleting, published>>

LEMMA InvStep ==
    ASSUME PackInv, [Next]_vars
    PROVE  PackInv'
<1>1. TypeOK /\ TypeOK'
  BY TypeStep DEF PackInv
<1>2. ListPacks = Headers(files) /\ ListPacks' = Headers(files')
  BY <1>1, ListedHasHeader DEF TypeOK, ListPacks
<1>3. CASE UNCHANGED scope
  BY <1>1, <1>3 DEF scope, PackInv, BodyBehindHeader, ListedIsPublished, WritingInv,
     DeletingInv, Replaced, PublishedIsListed, ListPacks
<1>4. CASE WritePack
  <2>1. PICK p \in Packs : p \notin published /\ writing' = <<p, "body">>
    BY <1>4, WriteSteps DEF WritePack
  <2>2. WritingInv'
    BY <1>4, <2>1 DEF WritingInv, WritePack
  <2>3. UNCHANGED <<files, deleting, published>>
    BY <1>4 DEF WritePack
  <2> QED
    BY <1>1, <2>2, <2>3 DEF PackInv, BodyBehindHeader, ListedIsPublished, DeletingInv,
       Replaced, PublishedIsListed, ListPacks
<1>5. CASE WriteTemp
  <2>1. UNCHANGED <<writing, deleting, published>>
    BY <1>5 DEF WriteTemp
  <2>2. \A p \in Packs, k \in Kinds : File(p, k) \in files' <=> File(p, k) \in files
    BY <1>5, FileNames DEF WriteTemp
  <2>3. ListPacks' = ListPacks
    BY <1>2, <2>2 DEF Headers, Kinds
  <2>4. writing # Nothing => writing[1] \in Packs
    BY <1>1, StepFacts DEF TypeOK
  <2>5. deleting # Nothing => deleting[1] \in Packs
    BY <1>1, StepFacts DEF TypeOK
  <2>6. BodyBehindHeader'
    BY <2>2 DEF PackInv, BodyBehindHeader, Kinds
  <2>7. WritingInv'
    BY <2>1, <2>2, <2>4 DEF PackInv, WritingInv, Kinds
  <2>8. DeletingInv'
    BY <2>1, <2>2, <2>5 DEF PackInv, DeletingInv, Kinds
  <2> QED
    BY <1>1, <2>1, <2>3, <2>6, <2>7, <2>8
       DEF PackInv, ListedIsPublished, Replaced, PublishedIsListed
<1>6. CASE Rename
  <2> DEFINE p == writing[1]
  <2>1. /\ writing # Nothing /\ p \in Packs /\ writing[2] \in Kinds
        /\ p \notin published
        /\ deleting' = deleting
        /\ files' = (files \ {Temp(p, writing[2])}) \cup {File(p, writing[2])}
    BY <1>1, <1>6, StepFacts DEF Rename, PackInv, TypeOK, WritingInv
  <2>2. \A q \in Packs, k \in Kinds :
           File(q, k) \in files' <=> File(q, k) \in files \/ (q = p /\ k = writing[2])
    BY <2>1, FileNames
  <2>3. deleting # Nothing => deleting[1] \in Packs /\ deleting[1] # p
    BY <1>1, <2>1, StepFacts DEF PackInv, TypeOK, DeletingInv
  <2>4. DeletingInv' /\ Replaced'
    <3>1. published \subseteq published' /\ ListPacks \subseteq ListPacks'
      BY <1>2, <1>6, <2>2, Zenon DEF Rename, Headers, Kinds
    <3>2. DeletingInv'
      BY <2>1, <2>2, <2>3, <3>1 DEF PackInv, DeletingInv, Kinds
    <3>3. Replaced'
      BY <2>1, <3>1 DEF PackInv, Replaced
    <3> QED
      BY <3>2, <3>3
  <2>5. CASE writing[2] = "body"
    <3>1. writing' = <<p, "header">> /\ published' = published
      <4>1. AfterFile(p, writing[2]) = <<p, "header">> /\ <<p, "header">> # Nothing
        BY <2>1, <2>5, WriteSteps, StepFacts, Zenon DEF AfterFile, Kinds
      <4> QED
        BY <1>6, <4>1, Zenon DEF Rename
    <3>2. ListPacks' = ListPacks
      BY <1>2, <2>2, <2>5 DEF Headers, Kinds
    <3>3. BodyBehindHeader' /\ WritingInv'
      BY <2>1, <2>2, <2>5, <3>1 DEF PackInv, BodyBehindHeader, WritingInv, Kinds
    <3> QED
      BY <1>1, <2>4, <3>1, <3>2, <3>3 DEF PackInv, ListedIsPublished, PublishedIsListed
  <2>6. CASE writing[2] = "header"
    <3>1. writing' = Nothing /\ published' = published \cup {p}
      <4>1. AfterFile(p, writing[2]) = Nothing
        BY <2>6, WriteSteps DEF AfterFile
      <4> QED
        BY <1>6, <4>1, Zenon DEF Rename
    <3>2. ListPacks' = ListPacks \cup {p}
      BY <1>2, <2>1, <2>2, <2>6 DEF Headers, Kinds
    <3>3. BodyBehindHeader'
      BY <2>1, <2>2, <2>6 DEF PackInv, BodyBehindHeader, WritingInv, Kinds
    <3>4. PublishedIsListed'
      BY <3>1, <3>2 DEF PackInv, PublishedIsListed, Covers
    <3> QED
      BY <1>1, <2>4, <3>1, <3>2, <3>3, <3>4 DEF PackInv, ListedIsPublished, WritingInv
  <2> QED
    BY <2>1, <2>5, <2>6 DEF Kinds
<1>7. CASE WriteError
  BY <1>1, <1>7 DEF WriteError, PackInv, BodyBehindHeader, ListedIsPublished, WritingInv,
     DeletingInv, Replaced, PublishedIsListed, ListPacks
<1>8. CASE DeletePack
  <2>1. PICK p \in ListPacks, q \in ListPacks :
           Supersedes(q, p) /\ deleting' = <<p, "header">>
    BY <1>8, DeleteSteps DEF DeletePack
  <2>2. p \in Packs /\ q \in Packs /\ p \in published
    BY <1>2, <2>1 DEF PackInv, ListedIsPublished, Headers
  <2>3. q # p /\ Covers(q, p)
    BY <2>1, <2>2, PackStoreAssumption DEF Supersedes, Covers
  <2>4. UNCHANGED <<files, writing, published>>
    BY <1>8 DEF DeletePack
  <2>5. ListPacks' = ListPacks
    BY <2>4 DEF ListPacks
  <2>6. DeletingInv'
    BY <2>1, <2>2, <2>4 DEF DeletingInv
  <2>7. Replaced'
    BY <2>1, <2>3, <2>5 DEF Replaced
  <2> QED
    BY <1>1, <2>4, <2>5, <2>6, <2>7 DEF PackInv, BodyBehindHeader, ListedIsPublished,
       WritingInv, PublishedIsListed
<1>9. CASE RemoveFile
  <2> DEFINE d == deleting[1]
  <2>1. /\ deleting # Nothing /\ d \in Packs /\ deleting[2] \in Kinds
        /\ UNCHANGED <<writing, published>>
        /\ files' = files \ {File(d, deleting[2])}
        /\ deleting' = IF DeleteOrder(deleting[2]) = "done" THEN Nothing
                       ELSE <<d, DeleteOrder(deleting[2])>>
    BY <1>1, <1>9, StepFacts DEF RemoveFile, TypeOK
  <2>2. \A q \in Packs, k \in Kinds :
           File(q, k) \in files' <=> File(q, k) \in files /\ ~ (q = d /\ k = deleting[2])
    BY <2>1, FileNames
  <2>3. d \in published
    BY <2>1 DEF PackInv, DeletingInv
  <2>4. writing # Nothing => writing[1] \in Packs /\ writing[1] # d
    BY <1>1, <2>3, StepFacts DEF PackInv, TypeOK, WritingInv
  <2>5. WritingInv'
    BY <2>1, <2>2, <2>4 DEF PackInv, WritingInv, Kinds
  <2>6. CASE deleting[2] = "header"
    <3>1. deleting' = <<d, "body">>
      BY <2>1, <2>6, DeleteSteps
    <3>2. ListPacks' = ListPacks \ {d}
      BY <1>2, <2>2, <2>6 DEF Headers, Kinds
    <3>3. PICK q \in ListPacks \ {d} : Covers(q, d)
      BY <2>1 DEF PackInv, Replaced
    <3>4. PublishedIsListed'
      <4> SUFFICES ASSUME NEW p \in published PROVE \E r \in ListPacks' : Covers(r, p)
        BY <2>1 DEF PublishedIsListed
      <4>1. PICK r \in ListPacks : Covers(r, p)
        BY DEF PackInv, PublishedIsListed
      <4> QED
        BY <3>2, <3>3, <4>1 DEF Covers
    <3>5. BodyBehindHeader'
      BY <2>2, <2>6 DEF PackInv, BodyBehindHeader, Kinds
    <3>6. DeletingInv'
      BY <2>1, <2>2, <2>3, <2>6, <3>1 DEF DeletingInv, Kinds
    <3>7. Replaced'
      BY <3>1, <3>2, <3>3 DEF Replaced
    <3> QED
      BY <1>1, <2>1, <2>5, <3>2, <3>4, <3>5, <3>6, <3>7 DEF PackInv, ListedIsPublished
  <2>7. CASE deleting[2] = "body"
    <3>1. deleting' = Nothing
      BY <2>1, <2>7, DeleteSteps
    <3>2. ListPacks' = ListPacks
      BY <1>2, <2>2, <2>7 DEF Headers, Kinds
    <3>3. BodyBehindHeader'
      BY <2>1, <2>2, <2>7 DEF PackInv, BodyBehindHeader, DeletingInv, Kinds
    <3> QED
      BY <1>1, <2>1, <2>5, <3>1, <3>2, <3>3 DEF PackInv, ListedIsPublished, DeletingInv,
         Replaced, PublishedIsListed
  <2> QED
    BY <2>1, <2>6, <2>7 DEF Kinds
<1>10. CASE DeleteError
  BY <1>1, <1>10 DEF DeleteError, PackInv, BodyBehindHeader, ListedIsPublished, WritingInv,
     DeletingInv, Replaced, PublishedIsListed, ListPacks
<1>11. CASE Crash
  BY <1>1, <1>11 DEF Crash, PackInv, BodyBehindHeader, ListedIsPublished, WritingInv,
     DeletingInv, Replaced, PublishedIsListed, ListPacks
<1>12. CASE \/ StartListing \/ ListEntry \/ EndListing \/ ReadHeader \/ ReadBody
            \/ UNCHANGED vars
  <2>1. UNCHANGED scope
    BY <1>12 DEF scope, vars, StartListing, ListEntry, EndListing, ReadHeader, ReadBody
  <2> QED
    BY <1>3, <2>1
<1> QED
  BY <1>4, <1>5, <1>6, <1>7, <1>8, <1>9, <1>10, <1>11, <1>12 DEF Next

LEMMA SpecInv == Spec => []PackInv
<1>1. PackInv /\ [Next]_vars => PackInv'
  BY InvStep
<1> QED
  BY InitInv, <1>1, PTL DEF Spec

-----------------------------------------------------------------------------
\* The pack store keeps to its types.
THEOREM PackStoreTypeOK == Spec => []TypeOK
<1>1. PackInv => TypeOK
  BY DEF PackInv
<1> QED
  BY SpecInv, <1>1, PTL

\* A header is never in the directory without its body: for any packs, and
\* for any number of errors and crashes.
THEOREM PackStoreBodyBehindHeader == Spec => []BodyBehindHeader
<1>1. PackInv => BodyBehindHeader
  BY DEF PackInv
<1> QED
  BY SpecInv, <1>1, PTL

\* What was published is in a pack that a reader would list now and finds.
LEMMA CoveredByReadable ==
    ASSUME PackInv, NEW p \in published
    PROVE  \E r \in Readable : Covers(r, p)
<1>1. ListPacks = Headers(files)
  BY ListedHasHeader DEF PackInv, TypeOK, ListPacks
<1>2. PICK q \in ListPacks : Covers(q, p)
  BY DEF PackInv, PublishedIsListed
<1>3. PICK r \in Dedupe(ListPacks) : r.ref = q.ref /\ r.generation >= q.generation
  BY <1>1, <1>2, LastGeneration DEF Headers
<1>4. r \in ListPacks /\ r \in Packs /\ q \in Packs
  BY <1>1, <1>2, <1>3 DEF Dedupe, Headers
<1>5. q.seqs \subseteq r.seqs
  <2>1. q.generation \in 0 .. MaxGeneration /\ r.generation \in 0 .. MaxGeneration
        /\ MaxGeneration \in Nat
    BY <1>4, PackStoreAssumption
  <2>2. CASE r.generation = q.generation
    BY <1>3, <1>4, <2>2, PackStoreAssumption
  <2>3. CASE r.generation # q.generation
    <3>1. r.generation > q.generation
      BY <1>3, <2>1, <2>3
    <3>2. Supersedes(r, q)
      BY <1>3, <3>1 DEF Supersedes
    <3> QED
      BY <1>4, <3>2, PackStoreAssumption
  <2> QED
    BY <2>2, <2>3
<1>6. r \in Readable
  BY <1>1, <1>3, <1>4 DEF Readable, PackInv, BodyBehindHeader, Headers, Kinds
<1> QED
  BY <1>2, <1>5, <1>6 DEF Covers

\* Whatever is compacted or deleted, in any order and with any failures, the
\* listed packs hold all that was published.
THEOREM PackStorePublishedStaysReadable == Spec => []PublishedStaysReadable
<1>1. PackInv => PublishedStaysReadable
  BY CoveredByReadable DEF PublishedStaysReadable, Covers
<1> QED
  BY SpecInv, <1>1, PTL

-----------------------------------------------------------------------------
(* A reader that finds a file gone *)

\* What a reader has in hand was listed once, and so published.
ReaderInv ==
    reader.listed \cup reader.wanted \cup reader.opened \subseteq published

LEMMA ReaderStep ==
    ASSUME PackInv, ReaderInv, [Next]_vars
    PROVE  ReaderInv'
<1>1. published \subseteq published'
  BY Zenon DEF Next, vars, WritePack, WriteTemp, Rename, WriteError, DeletePack, RemoveFile,
     DeleteError, Crash, StartListing, ListEntry, EndListing, ReadHeader, ReadBody
<1>2. CASE UNCHANGED reader
  BY <1>1, <1>2 DEF ReaderInv
<1>3. CASE StartListing
  BY <1>3 DEF StartListing, ReaderInv, NoReader
<1>4. CASE ListEntry
  BY <1>4 DEF ListEntry, ReaderInv, PackInv, TypeOK, ListedIsPublished
<1>5. CASE EndListing
  BY <1>5 DEF EndListing, ReaderInv, NoReader, Dedupe
<1>6. CASE ReadHeader
  BY <1>6 DEF ReadHeader, ReaderInv, PackInv, TypeOK
<1>7. CASE ReadBody
  BY <1>7 DEF ReadBody, ReaderInv, PackInv, TypeOK
<1>8. CASE \/ WritePack \/ WriteTemp \/ Rename \/ WriteError
           \/ DeletePack \/ RemoveFile \/ DeleteError \/ Crash \/ UNCHANGED vars
  <2>1. UNCHANGED reader
    BY <1>8, Zenon DEF vars, WritePack, WriteTemp, Rename, WriteError, DeletePack,
       RemoveFile, DeleteError, Crash
  <2> QED
    BY <1>2, <2>1
<1> QED
  BY <1>3, <1>4, <1>5, <1>6, <1>7, <1>8 DEF Next

\* A read that misses a file leaves the directory as it is, and the pack it
\* misses is published and not listed: its body goes after its header.
LEMMA MissStep ==
    ASSUME PackInv, ReaderInv, [Next]_vars, NEW p \in missed' \ missed
    PROVE  p \in published \ ListPacks
<1>1. ListPacks = Headers(files)
  BY ListedHasHeader DEF PackInv, TypeOK, ListPacks
<1>2. ReadHeader \/ ReadBody
  BY Zenon DEF Next, vars, WritePack, WriteTemp, Rename, WriteError, DeletePack, RemoveFile,
     DeleteError, Crash, StartListing, ListEntry, EndListing
<1>3. CASE ReadHeader
  <2>1. p \in reader.wanted /\ File(p, "header") \notin files
    BY <1>3 DEF ReadHeader
  <2> QED
    BY <1>1, <2>1 DEF ReaderInv, Headers
<1>4. CASE ReadBody
  <2>1. p \in reader.opened /\ File(p, "body") \notin files
    BY <1>4 DEF ReadBody
  <2> QED
    BY <1>1, <2>1 DEF ReaderInv, Headers, PackInv, BodyBehindHeader
<1> QED
  BY <1>2, <1>3, <1>4

(***************************************************************************)
(* A reader that misses a file of a pack it listed finds, if it lists      *)
(* again, all that the missing pack held: for any packs, any number of     *)
(* generations between the two listings, and any errors and crashes.       *)
(***************************************************************************)
THEOREM PackStoreMissMeansSuperseded == Spec => MissMeansSuperseded
<1>1. Init => ReaderInv
  BY DEF Init, ReaderInv, NoReader
<1>2. PackInv /\ ReaderInv /\ [Next]_vars => ReaderInv'
  BY ReaderStep
<1>3. PackInv /\ ReaderInv /\ [Next]_vars =>
         [\A p \in missed' \ missed :
             \E q \in Readable \ {p} : p.seqs \subseteq q.seqs]_vars
  <2> SUFFICES ASSUME PackInv, ReaderInv, [Next]_vars, NEW p \in missed' \ missed
               PROVE  \E q \in Readable \ {p} : p.seqs \subseteq q.seqs
    OBVIOUS
  <2>1. p \in published /\ p \notin ListPacks
    BY MissStep
  <2>2. PICK r \in Readable : Covers(r, p)
    BY <2>1, CoveredByReadable
  <2>3. r # p
    BY <2>1, <2>2 DEF Readable, Dedupe
  <2> QED
    BY <2>2, <2>3 DEF Covers
<1> QED
  BY SpecInv, <1>1, <1>2, <1>3, PTL DEF Spec, MissMeansSuperseded

=============================================================================
