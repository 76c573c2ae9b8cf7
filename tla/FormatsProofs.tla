--------------------------- MODULE FormatsProofs ----------------------------
(***************************************************************************)
(* Whatever is written is read back, damage never makes a second form, a   *)
(* pack's signature is for one header only, and the decoder of operations  *)
(* agrees with their validation: the four invariants of Formats, for any   *)
(* widths, values, names and damage.                                       *)
(*                                                                         *)
(* The readers of operations, rows, commitments and errors are shown       *)
(* Parsed for their codes, as CodecProofs shows it for the rest, and each  *)
(* kind of file is then one code with one reader (KindsAre); a commitment, *)
(* which later minor versions may continue, is read from its front.        *)
(*                                                                         *)
(* Invariant: a file holds a value that its code has bytes for, and as     *)
(* long as nothing has damaged it, these bytes (FormatsInv). That the      *)
(* packs of the builder are such values needs the builder's own type, in   *)
(* which the numbers of segments and peers grow with its calls             *)
(* (BuilderTyped).                                                         *)
(***************************************************************************)
EXTENDS Formats, CodecProofs

-----------------------------------------------------------------------------
(* Why a stream is not applied further *)

\* The bytes of an option are those of its value, if there is one.
LEMMA AllOfOption ==
    /\ All(<<>>, LAMBDA c : c) = <<>>
    /\ \A a \in Str : All(<<a>>, LAMBDA c : c) = a
<1>1. All(<<>>, LAMBDA c : c) = <<>>
  <2>1. [i \in DOMAIN <<>> |-> <<>>[i]] = <<>>
    OBVIOUS
  <2> QED
    BY <2>1, FlattenGrows DEF All
<1>2. ASSUME NEW a \in Str PROVE All(<<a>>, LAMBDA c : c) = a
  <2>1. [i \in DOMAIN <<a>> |-> <<a>>[i]] = Append(<<>>, a)
    OBVIOUS
  <2>2. <<>> \in Seq(Str)
    OBVIOUS
  <2>3. FlattenSeq(Append(<<>>, a)) = FlattenSeq(<<>>) \o a /\ FlattenSeq(<<>>) = <<>>
    BY <2>2, FlattenGrows
  <2>4. <<>> \o a = a
    BY ConcatIs
  <2> QED
    BY <2>1, <2>3, <2>4 DEF All
<1> QED
  BY <1>1, <1>2

NeedKeySet == [is : {"need_key"}, fingerprint : Array]
NeedKeyCode == [x \in NeedKeySet |-> x.fingerprint]
NeedKeyOf == [v \in Array |-> [is |-> "need_key", fingerprint |-> v]]

\* The code of NeedKey.
LEMMA NeedKeyIs ==
    /\ DOMAIN NeedKeyCode = NeedKeySet /\ \A x \in NeedKeySet : NeedKeyCode[x] = x.fingerprint
    /\ \A v \in Array : NeedKeyOf[v] = [is |-> "need_key", fingerprint |-> v]
    /\ IsCode(NeedKeyCode) /\ Renames(NeedKeyOf, ArrayCode, NeedKeyCode)
<1>1. DOMAIN NeedKeyCode = NeedKeySet /\ \A x \in NeedKeySet : NeedKeyCode[x] = x.fingerprint
  BY DEF NeedKeyCode
<1>2. \A v \in Array : NeedKeyOf[v] = [is |-> "need_key", fingerprint |-> v]
  BY DEF NeedKeyOf
<1>3. /\ IsCode(ArrayCode) /\ DOMAIN ArrayCode = Array
      /\ \A y \in Array : ArrayCode[y] = y
  BY CodesOfNumbers, CodesAre
<1>4. ASSUME NEW v \in Array PROVE NeedKeyOf[v] \in NeedKeySet
                 /\ NeedKeyCode[NeedKeyOf[v]] = ArrayCode[v]
  <2>1. PICK x : x = [is |-> "need_key", fingerprint |-> v]
    OBVIOUS
  <2>2. x \in NeedKeySet /\ x.fingerprint = v
    BY <2>1 DEF NeedKeySet
  <2> QED
    BY <1>1, <1>2, <1>3, <2>1, <2>2
<1>5. ASSUME NEW x \in NeedKeySet PROVE \E v \in Array : NeedKeyOf[v] = x
  <2>1. x.fingerprint \in Array /\ x = [is |-> "need_key", fingerprint |-> x.fingerprint]
    BY DEF NeedKeySet
  <2> QED
    BY <1>2, <2>1
<1>6. Renames(NeedKeyOf, ArrayCode, NeedKeyCode)
  BY <1>1, <1>3, <1>4, <1>5 DEF Renames
<1>7. IsCode(NeedKeyCode)
  <2>1. ASSUME NEW x \in NeedKeySet PROVE NeedKeyCode[x] \in Str
    <3>1. PICK v \in Array : NeedKeyOf[v] = x
      BY <1>5
    <3>2. NeedKeyCode[x] = ArrayCode[v]
      BY <1>4, <3>1
    <3> QED
      BY <1>3, <3>2 DEF IsCode
  <2> QED
    BY <1>1, <2>1 DEF IsCode
<1> QED
  BY <1>1, <1>2, <1>6, <1>7

SkewSet == [is : {"skew"}]
SkewCode == [x \in SkewSet |-> <<>>]
SkewOf == [v \in {<<>>} |-> [is |-> "skew"]]

\* The code of a clock that is ahead: nothing but the tag.
LEMMA SkewIs ==
    /\ DOMAIN SkewCode = SkewSet /\ \A x \in SkewSet : SkewCode[x] = <<>>
    /\ SkewOf[<<>>] = [is |-> "skew"]
    /\ IsCode(SkewCode) /\ Renames(SkewOf, NoBytes, SkewCode)
<1>1. DOMAIN SkewCode = SkewSet /\ \A x \in SkewSet : SkewCode[x] = <<>>
  BY DEF SkewCode
<1>2. DOMAIN SkewOf = {<<>>} /\ SkewOf[<<>>] = [is |-> "skew"]
  BY DEF SkewOf
<1>3. [is |-> "skew"] \in SkewSet /\ \A x \in SkewSet : x = [is |-> "skew"]
  BY DEF SkewSet
<1>4. Renames(SkewOf, NoBytes, SkewCode)
  BY <1>1, <1>2, <1>3, NoBytesIs DEF Renames
<1>5. IsCode(SkewCode)
  BY <1>1, StrIs DEF IsCode
<1> QED
  BY <1>1, <1>2, <1>4, <1>5

\* A peer that is missed, in a container and without one.
NeedPeerInSet ==
    [is : {"need_peer"}, container : Option(Array) \ {<<>>}, peer : Array, head : ChainHead]
NeedPeerInBytes(x) == x.container[1] \o x.peer \o ChainBytes(x.head)
ReadNeedPeerIn(r) ==
    Into(ReadNext(ReadNext(ReadFirst(r, ReadArray), ReadArray), ReadChain), LAMBDA v :
            [is |-> "need_peer", container |-> <<v[1]>>, peer |-> v[2], head |-> v[3]])

NeedPeerInCode == [x \in NeedPeerInSet |-> NeedPeerInBytes(x)]
NeedPeerInTuples == Three(ArrayCode, ArrayCode, ChainCode)
NeedPeerInOf == [v \in DOMAIN NeedPeerInTuples |->
    [is |-> "need_peer", container |-> <<v[1]>>, peer |-> v[2], head |-> v[3]]]

\* The code of a peer that is missing, and its height.
LEMMA NeedPeerInIs ==
    /\ DOMAIN NeedPeerInCode = NeedPeerInSet
           /\ \A x \in NeedPeerInSet : NeedPeerInCode[x] = NeedPeerInBytes(x)
    /\ IsCode(NeedPeerInCode) /\ NoneEmpty(NeedPeerInCode)
    /\ Renames(NeedPeerInOf, NeedPeerInTuples, NeedPeerInCode)
<1> DEFINE T == Three(ArrayCode, ArrayCode, ChainCode)
<1>c. IsCode(ArrayCode) /\ IsCode(ChainCode)
  BY ChainIs, CodesOfNumbers
<1>t1. IsCode(One(ArrayCode))
  BY <1>c, OneIs
<1>t2. IsCode(Two(ArrayCode, ArrayCode))
           /\ Appends(One(ArrayCode), ArrayCode, Two(ArrayCode, ArrayCode))
  BY <1>c, <1>t1, TwoIs
<1>t3. IsCode(Three(ArrayCode, ArrayCode, ChainCode))
           /\ Appends(Two(ArrayCode, ArrayCode), ChainCode, Three(ArrayCode, ArrayCode, ChainCode))
  BY <1>c, <1>t2, ThreeIs
<1>n1. NoneEmpty(One(ArrayCode))
  <2>1. NoneEmpty(ArrayCode)
    BY NumbersNoneEmpty
  <2> QED
    BY <2>1, OneNoneEmpty
<1>n2. NoneEmpty(Two(ArrayCode, ArrayCode))
  BY <1>c, <1>t1, <1>t2, <1>n1, AppendsNoneEmpty
<1>n3. NoneEmpty(Three(ArrayCode, ArrayCode, ChainCode))
  BY <1>c, <1>t2, <1>t3, <1>n2, AppendsNoneEmpty
<1>d1. DOMAIN ArrayCode = Array /\ \A y \in Array : ArrayCode[y] = y
  BY CodesAre
<1>d2. DOMAIN ArrayCode = Array /\ \A y \in Array : ArrayCode[y] = y
  BY CodesAre
<1>d3. DOMAIN ChainCode = ChainHead /\ \A y \in ChainHead : ChainCode[y] = ChainBytes(y)
  BY ChainIs
<1>1. /\ \A a \in Array, b \in Array, c \in ChainHead :
            <<a, b, c>> \in DOMAIN T
      /\ \A a \in Array, b \in Array, c \in ChainHead :
            T[<<a, b, c>>] = Cat(Cat(a, b), ChainBytes(c))
      /\ \A v \in DOMAIN T : \E a \in Array, b \in Array, c \in ChainHead : v = <<a, b, c>>
  BY <1>d1, <1>d2, <1>d3, ThreeTuples
<1>2. DOMAIN NeedPeerInCode = NeedPeerInSet
          /\ \A x \in NeedPeerInSet : NeedPeerInCode[x] = NeedPeerInBytes(x)
  BY DEF NeedPeerInCode
<1>3. DOMAIN NeedPeerInOf = DOMAIN T
          /\ \A v \in DOMAIN T : NeedPeerInOf[v]
          = [is |-> "need_peer", container |-> <<v[1]>>, peer |-> v[2], head |-> v[3]]
  BY DEF NeedPeerInOf, NeedPeerInTuples
<1> HIDE DEF T
<1>4. Renames(NeedPeerInOf, T, NeedPeerInCode)
  <2>1. ASSUME NEW a \in Array, NEW b \in Array, NEW c \in ChainHead
        PROVE  NeedPeerInOf[<<a, b, c>>] \in NeedPeerInSet
                   /\ NeedPeerInCode[NeedPeerInOf[<<a, b, c>>]] = T[<<a, b, c>>]
    <3>1. PICK x : x = [is |-> "need_peer", container |-> <<a>>, peer |-> b, head |-> c]
      OBVIOUS
    <3>2. NeedPeerInOf[<<a, b, c>>] = x
      <4>1. <<a, b, c>> \in DOMAIN T
        BY <1>1
      <4>2. NeedPeerInOf[<<a, b, c>>]
                = [is |-> "need_peer", container |-> <<a>>, peer |-> b, head |-> c]
        BY <1>3, <4>1
      <4> QED
        BY <3>1, <4>2
    <3>3. x \in NeedPeerInSet
      BY <3>1, OptionsAre DEF NeedPeerInSet
    <3>4. NeedPeerInBytes(x) = Cat(Cat(a, b), ChainBytes(c))
      <4>1. x.container[1] = a /\ x.peer = b /\ x.head = c
        BY <3>1
      <4>2. NeedPeerInBytes(x) = Cat(Cat(x.container[1], x.peer), ChainBytes(x.head))
        BY DEF NeedPeerInBytes, Cat
      <4> QED
        BY <4>1, <4>2
    <3>5. T[<<a, b, c>>] = Cat(Cat(a, b), ChainBytes(c))
      BY <1>1
    <3> QED
      BY <1>2, <3>2, <3>3, <3>4, <3>5
  <2>2. ASSUME NEW x \in NeedPeerInSet PROVE \E v \in DOMAIN T : NeedPeerInOf[v] = x
    <3>1. x.container[1] \in Array /\ x.peer \in Array /\ x.head \in ChainHead
      BY OptionsAre DEF NeedPeerInSet
    <3>2. x = [is |-> x.is, container |-> x.container, peer |-> x.peer, head |-> x.head]
      BY DEF NeedPeerInSet
    <3>3. PICK v : v = <<x.container[1], x.peer, x.head>>
      OBVIOUS
    <3>4. v \in DOMAIN T
      BY <1>1, <3>1, <3>3
    <3>5. NeedPeerInOf[v] = [is |-> "need_peer", container |-> <<v[1]>>, peer |-> v[2], head |-> v[3]]
      BY <1>3, <3>4
    <3>6. "need_peer" = x.is /\ <<v[1]>> = x.container /\ v[2] = x.peer /\ v[3] = x.head
      BY <3>3, OptionsAre DEF NeedPeerInSet
    <3> QED
      BY <3>2, <3>4, <3>5, <3>6
  <2>3. ASSUME NEW v \in DOMAIN T
                   PROVE NeedPeerInOf[v] \in NeedPeerInSet /\ NeedPeerInCode[NeedPeerInOf[v]] = T[v]
    <3>1. PICK a \in Array, b \in Array, c \in ChainHead : v = <<a, b, c>>
      BY <1>1
    <3> QED
      BY <2>1, <3>1
  <2> QED
    BY <1>2, <2>2, <2>3 DEF Renames
<1>5. IsCode(NeedPeerInCode) /\ NoneEmpty(NeedPeerInCode)
  BY <1>4, <1>t3, <1>n3, RenamesCode DEF T
<1> QED
  BY <1>2, <1>4, <1>5 DEF T, NeedPeerInTuples

\* The reader of a peer that is missing, and its height.
LEMMA NeedPeerInParsed ==
    ASSUME NEW r, r.ok, r.rest \in Str
    PROVE  Parsed(ReadNeedPeerIn(r), NeedPeerInCode, r.rest)
<1>c. IsCode(ArrayCode) /\ IsCode(ChainCode)
  BY ChainIs, CodesOfNumbers
<1>t1. IsCode(One(ArrayCode))
  BY <1>c, OneIs
<1>t2. IsCode(Two(ArrayCode, ArrayCode))
           /\ Appends(One(ArrayCode), ArrayCode, Two(ArrayCode, ArrayCode))
  BY <1>c, <1>t1, TwoIs
<1>t3. IsCode(Three(ArrayCode, ArrayCode, ChainCode))
           /\ Appends(Two(ArrayCode, ArrayCode), ChainCode, Three(ArrayCode, ArrayCode, ChainCode))
  BY <1>c, <1>t2, ThreeIs
<1>p1. PICK n1, o1 : n1 = ReadArray(r) /\ o1 = First(n1)
  OBVIOUS
<1>q1. Parsed(n1, ArrayCode, r.rest)
  BY <1>p1, ReadArrayParsed
<1>r1. Parsed(o1, One(ArrayCode), r.rest)
  BY <1>p1, <1>q1, FirstParsed
<1>p2. PICK n2, o2 : n2 = ReadArray(o1) /\ o2 = Behind(o1, n2)
  OBVIOUS
<1>q2. o1.ok => Parsed(n2, ArrayCode, o1.rest)
  <2>1. o1.ok => o1.rest \in Str
    BY <1>r1, ParsedIs
  <2> QED
    BY <1>p2, <2>1, ReadArrayParsed
<1>r2. Parsed(o2, Two(ArrayCode, ArrayCode), r.rest)
  BY <1>c, <1>t1, <1>t2, <1>p2, <1>q2, <1>r1, BehindParsed
<1>p3. PICK n3, o3 : n3 = ReadChain(o2) /\ o3 = Behind(o2, n3)
  OBVIOUS
<1>q3. o2.ok => Parsed(n3, ChainCode, o2.rest)
  <2>1. o2.ok => o2.rest \in Str
    BY <1>r2, ParsedIs
  <2> QED
    BY <1>p3, <2>1, ChainParsed
<1>r3. Parsed(o3, Three(ArrayCode, ArrayCode, ChainCode), r.rest)
  BY <1>c, <1>t2, <1>t3, <1>p3, <1>q3, <1>r2, BehindParsed
<1>1. ReadNeedPeerIn(r) = IF o3.ok
          THEN Good([is |-> "need_peer", container |-> <<o3.val[1]>>, peer |-> o3.val[2],
          head |-> o3.val[3]], o3.rest) ELSE Failed
  BY <1>p1, <1>p2, <1>p3 DEF ReadNeedPeerIn, ReadNext, ReadFirst, Into
<1>2. o3.ok => NeedPeerInOf[o3.val]
          = [is |-> "need_peer", container |-> <<o3.val[1]>>, peer |-> o3.val[2], head |-> o3.val[3]]
  <2>1. o3.ok => o3.val \in DOMAIN NeedPeerInTuples
    BY <1>r3, ParsedIs DEF NeedPeerInTuples
  <2> QED
    BY <2>1 DEF NeedPeerInOf
<1>3. /\ ~o3.ok => ReadNeedPeerIn(r) = Failed
      /\ o3.ok => ReadNeedPeerIn(r) = Good(NeedPeerInOf[o3.val], o3.rest)
  BY <1>1, <1>2
<1>4. Renames(NeedPeerInOf, Three(ArrayCode, ArrayCode, ChainCode), NeedPeerInCode)
  BY NeedPeerInIs DEF NeedPeerInTuples
<1> QED
  BY <1>3, <1>4, <1>r3, IntoParsed

NeedPeerSet == [is : {"need_peer"}, container : {<<>>}, peer : Array, head : ChainHead]
NeedPeerBytes(x) == x.peer \o ChainBytes(x.head)
ReadNeedPeerAlone(r) ==
    Into(ReadNext(ReadFirst(r, ReadArray), ReadChain), LAMBDA v :
            [is |-> "need_peer", container |-> <<>>, peer |-> v[1], head |-> v[2]])

NeedPeerCode == [x \in NeedPeerSet |-> NeedPeerBytes(x)]
NeedPeerTuples == Two(ArrayCode, ChainCode)
NeedPeerOf == [v \in DOMAIN NeedPeerTuples |->
    [is |-> "need_peer", container |-> <<>>, peer |-> v[1], head |-> v[2]]]

\* The code of NeedPeerInit.
LEMMA NeedPeerIs ==
    /\ DOMAIN NeedPeerCode = NeedPeerSet /\ \A x \in NeedPeerSet : NeedPeerCode[x] = NeedPeerBytes(x)
    /\ IsCode(NeedPeerCode) /\ NoneEmpty(NeedPeerCode)
    /\ Renames(NeedPeerOf, NeedPeerTuples, NeedPeerCode)
<1> DEFINE T == Two(ArrayCode, ChainCode)
<1>c. IsCode(ArrayCode) /\ IsCode(ChainCode)
  BY ChainIs, CodesOfNumbers
<1>t1. IsCode(One(ArrayCode))
  BY <1>c, OneIs
<1>t2. IsCode(Two(ArrayCode, ChainCode))
           /\ Appends(One(ArrayCode), ChainCode, Two(ArrayCode, ChainCode))
  BY <1>c, <1>t1, TwoIs
<1>n1. NoneEmpty(One(ArrayCode))
  <2>1. NoneEmpty(ArrayCode)
    BY NumbersNoneEmpty
  <2> QED
    BY <2>1, OneNoneEmpty
<1>n2. NoneEmpty(Two(ArrayCode, ChainCode))
  BY <1>c, <1>t1, <1>t2, <1>n1, AppendsNoneEmpty
<1>d1. DOMAIN ArrayCode = Array /\ \A y \in Array : ArrayCode[y] = y
  BY CodesAre
<1>d2. DOMAIN ChainCode = ChainHead /\ \A y \in ChainHead : ChainCode[y] = ChainBytes(y)
  BY ChainIs
<1>1. /\ \A a \in Array, b \in ChainHead :
            <<a, b>> \in DOMAIN T
      /\ \A a \in Array, b \in ChainHead :
            T[<<a, b>>] = Cat(a, ChainBytes(b))
      /\ \A v \in DOMAIN T : \E a \in Array, b \in ChainHead : v = <<a, b>>
  BY <1>d1, <1>d2, TwoTuples
<1>2. DOMAIN NeedPeerCode = NeedPeerSet /\ \A x \in NeedPeerSet : NeedPeerCode[x] = NeedPeerBytes(x)
  BY DEF NeedPeerCode
<1>3. DOMAIN NeedPeerOf = DOMAIN T
          /\ \A v \in DOMAIN T : NeedPeerOf[v]
          = [is |-> "need_peer", container |-> <<>>, peer |-> v[1], head |-> v[2]]
  BY DEF NeedPeerOf, NeedPeerTuples
<1> HIDE DEF T
<1>4. Renames(NeedPeerOf, T, NeedPeerCode)
  <2>1. ASSUME NEW a \in Array, NEW b \in ChainHead
        PROVE  NeedPeerOf[<<a, b>>] \in NeedPeerSet /\ NeedPeerCode[NeedPeerOf[<<a, b>>]] = T[<<a, b>>]
    <3>1. PICK x : x = [is |-> "need_peer", container |-> <<>>, peer |-> a, head |-> b]
      OBVIOUS
    <3>2. NeedPeerOf[<<a, b>>] = x
      <4>1. <<a, b>> \in DOMAIN T
        BY <1>1
      <4>2. NeedPeerOf[<<a, b>>] = [is |-> "need_peer", container |-> <<>>, peer |-> a, head |-> b]
        BY <1>3, <4>1
      <4> QED
        BY <3>1, <4>2
    <3>3. x \in NeedPeerSet
      BY <3>1 DEF NeedPeerSet
    <3>4. NeedPeerBytes(x) = Cat(a, ChainBytes(b))
      <4>1. x.peer = a /\ x.head = b
        BY <3>1
      <4>2. NeedPeerBytes(x) = Cat(x.peer, ChainBytes(x.head))
        BY DEF NeedPeerBytes, Cat
      <4> QED
        BY <4>1, <4>2
    <3>5. T[<<a, b>>] = Cat(a, ChainBytes(b))
      BY <1>1
    <3> QED
      BY <1>2, <3>2, <3>3, <3>4, <3>5
  <2>2. ASSUME NEW x \in NeedPeerSet PROVE \E v \in DOMAIN T : NeedPeerOf[v] = x
    <3>1. x.peer \in Array /\ x.head \in ChainHead
      BY DEF NeedPeerSet
    <3>2. x = [is |-> x.is, container |-> x.container, peer |-> x.peer, head |-> x.head]
      BY DEF NeedPeerSet
    <3>3. PICK v : v = <<x.peer, x.head>>
      OBVIOUS
    <3>4. v \in DOMAIN T
      BY <1>1, <3>1, <3>3
    <3>5. NeedPeerOf[v] = [is |-> "need_peer", container |-> <<>>, peer |-> v[1], head |-> v[2]]
      BY <1>3, <3>4
    <3>6. "need_peer" = x.is /\ <<>> = x.container /\ v[1] = x.peer /\ v[2] = x.head
      BY <3>3 DEF NeedPeerSet
    <3> QED
      BY <3>2, <3>4, <3>5, <3>6
  <2>3. ASSUME NEW v \in DOMAIN T
                   PROVE NeedPeerOf[v] \in NeedPeerSet /\ NeedPeerCode[NeedPeerOf[v]] = T[v]
    <3>1. PICK a \in Array, b \in ChainHead : v = <<a, b>>
      BY <1>1
    <3> QED
      BY <2>1, <3>1
  <2> QED
    BY <1>2, <2>2, <2>3 DEF Renames
<1>5. IsCode(NeedPeerCode) /\ NoneEmpty(NeedPeerCode)
  BY <1>4, <1>t2, <1>n2, RenamesCode DEF T
<1> QED
  BY <1>2, <1>4, <1>5 DEF T, NeedPeerTuples

\* The reader of NeedPeerInit.
LEMMA NeedPeerParsed ==
    ASSUME NEW r, r.ok, r.rest \in Str
    PROVE  Parsed(ReadNeedPeerAlone(r), NeedPeerCode, r.rest)
<1>c. IsCode(ArrayCode) /\ IsCode(ChainCode)
  BY ChainIs, CodesOfNumbers
<1>t1. IsCode(One(ArrayCode))
  BY <1>c, OneIs
<1>t2. IsCode(Two(ArrayCode, ChainCode))
           /\ Appends(One(ArrayCode), ChainCode, Two(ArrayCode, ChainCode))
  BY <1>c, <1>t1, TwoIs
<1>p1. PICK n1, o1 : n1 = ReadArray(r) /\ o1 = First(n1)
  OBVIOUS
<1>q1. Parsed(n1, ArrayCode, r.rest)
  BY <1>p1, ReadArrayParsed
<1>r1. Parsed(o1, One(ArrayCode), r.rest)
  BY <1>p1, <1>q1, FirstParsed
<1>p2. PICK n2, o2 : n2 = ReadChain(o1) /\ o2 = Behind(o1, n2)
  OBVIOUS
<1>q2. o1.ok => Parsed(n2, ChainCode, o1.rest)
  <2>1. o1.ok => o1.rest \in Str
    BY <1>r1, ParsedIs
  <2> QED
    BY <1>p2, <2>1, ChainParsed
<1>r2. Parsed(o2, Two(ArrayCode, ChainCode), r.rest)
  BY <1>c, <1>t1, <1>t2, <1>p2, <1>q2, <1>r1, BehindParsed
<1>1. ReadNeedPeerAlone(r) = IF o2.ok
          THEN Good([is |-> "need_peer", container |-> <<>>, peer |-> o2.val[1],
          head |-> o2.val[2]], o2.rest) ELSE Failed
  BY <1>p1, <1>p2 DEF ReadNeedPeerAlone, ReadNext, ReadFirst, Into
<1>2. o2.ok => NeedPeerOf[o2.val]
          = [is |-> "need_peer", container |-> <<>>, peer |-> o2.val[1], head |-> o2.val[2]]
  <2>1. o2.ok => o2.val \in DOMAIN NeedPeerTuples
    BY <1>r2, ParsedIs DEF NeedPeerTuples
  <2> QED
    BY <2>1 DEF NeedPeerOf
<1>3. /\ ~o2.ok => ReadNeedPeerAlone(r) = Failed
      /\ o2.ok => ReadNeedPeerAlone(r) = Good(NeedPeerOf[o2.val], o2.rest)
  BY <1>1, <1>2
<1>4. Renames(NeedPeerOf, Two(ArrayCode, ChainCode), NeedPeerCode)
  BY NeedPeerIs DEF NeedPeerTuples
<1> QED
  BY <1>3, <1>4, <1>r2, IntoParsed

SoftwareSet == [is : {"software"}, what : 0 .. 2, version : Bytes]
SoftwareBytes(x) == <<x.what>> \o <<x.version>>

\* What the clock or the peer was needed for: one of three tags.
LEMMA WhatIs ==
    IsCode(FlagCode(0 .. 2)) /\ NoneEmpty(FlagCode(0 .. 2))
<1>1. 0 .. 2 \in SUBSET Bytes
  BY TagBytes
<1> QED
  BY <1>1, CodesOfNumbers, NumbersNoneEmpty

\* The reader of that tag.
LEMMA ReadWhatParsed ==
    ASSUME NEW r, r.ok, r.rest \in Str
    PROVE  Parsed(ReadByteIn(r, 0 .. 2), FlagCode(0 .. 2), r.rest)
<1>1. 0 .. 2 \in SUBSET Bytes
  BY TagBytes
<1> QED
  BY <1>1, ReadByteInParsed

SoftwareCode == [x \in SoftwareSet |-> SoftwareBytes(x)]
SoftwareTuples == Two(FlagCode(0 .. 2), ByteCode)
SoftwareOf == [v \in DOMAIN SoftwareTuples |-> [is |-> "software", what |-> v[1], version |-> v[2]]]

\* The code of SoftwareUpdate.
LEMMA SoftwareIs ==
    /\ DOMAIN SoftwareCode = SoftwareSet /\ \A x \in SoftwareSet : SoftwareCode[x] = SoftwareBytes(x)
    /\ IsCode(SoftwareCode) /\ NoneEmpty(SoftwareCode)
    /\ Renames(SoftwareOf, SoftwareTuples, SoftwareCode)
<1> DEFINE T == Two(FlagCode(0 .. 2), ByteCode)
<1>c. IsCode(FlagCode(0 .. 2)) /\ IsCode(ByteCode)
  BY CodesOfNumbers, WhatIs
<1>t1. IsCode(One(FlagCode(0 .. 2)))
  BY <1>c, OneIs
<1>t2. IsCode(Two(FlagCode(0 .. 2), ByteCode))
           /\ Appends(One(FlagCode(0 .. 2)), ByteCode, Two(FlagCode(0 .. 2), ByteCode))
  BY <1>c, <1>t1, TwoIs
<1>n1. NoneEmpty(One(FlagCode(0 .. 2)))
  <2>1. NoneEmpty(FlagCode(0 .. 2))
    BY WhatIs
  <2> QED
    BY <2>1, OneNoneEmpty
<1>n2. NoneEmpty(Two(FlagCode(0 .. 2), ByteCode))
  BY <1>c, <1>t1, <1>t2, <1>n1, AppendsNoneEmpty
<1>d1. DOMAIN FlagCode(0 .. 2) = 0 .. 2 /\ \A y \in 0 .. 2 : FlagCode(0 .. 2)[y] = <<y>>
  BY FlagCodeIs
<1>d2. DOMAIN ByteCode = Bytes /\ \A y \in Bytes : ByteCode[y] = <<y>>
  BY CodesAre
<1>1. /\ \A a \in 0 .. 2, b \in Bytes :
            <<a, b>> \in DOMAIN T
      /\ \A a \in 0 .. 2, b \in Bytes :
            T[<<a, b>>] = Cat(<<a>>, <<b>>)
      /\ \A v \in DOMAIN T : \E a \in 0 .. 2, b \in Bytes : v = <<a, b>>
  BY <1>d1, <1>d2, TwoTuples
<1>2. DOMAIN SoftwareCode = SoftwareSet /\ \A x \in SoftwareSet : SoftwareCode[x] = SoftwareBytes(x)
  BY DEF SoftwareCode
<1>3. DOMAIN SoftwareOf = DOMAIN T
          /\ \A v \in DOMAIN T : SoftwareOf[v] = [is |-> "software", what |-> v[1], version |-> v[2]]
  BY DEF SoftwareOf, SoftwareTuples
<1> HIDE DEF T
<1>4. Renames(SoftwareOf, T, SoftwareCode)
  <2>1. ASSUME NEW a \in 0 .. 2, NEW b \in Bytes
        PROVE  SoftwareOf[<<a, b>>] \in SoftwareSet /\ SoftwareCode[SoftwareOf[<<a, b>>]] = T[<<a, b>>]
    <3>1. PICK x : x = [is |-> "software", what |-> a, version |-> b]
      OBVIOUS
    <3>2. SoftwareOf[<<a, b>>] = x
      <4>1. <<a, b>> \in DOMAIN T
        BY <1>1
      <4>2. SoftwareOf[<<a, b>>] = [is |-> "software", what |-> a, version |-> b]
        BY <1>3, <4>1
      <4> QED
        BY <3>1, <4>2
    <3>3. x \in SoftwareSet
      BY <3>1 DEF SoftwareSet
    <3>4. SoftwareBytes(x) = Cat(<<a>>, <<b>>)
      <4>1. x.what = a /\ x.version = b
        BY <3>1
      <4>2. SoftwareBytes(x) = Cat(<<x.what>>, <<x.version>>)
        BY DEF SoftwareBytes, Cat
      <4> QED
        BY <4>1, <4>2
    <3>5. T[<<a, b>>] = Cat(<<a>>, <<b>>)
      BY <1>1
    <3> QED
      BY <1>2, <3>2, <3>3, <3>4, <3>5
  <2>2. ASSUME NEW x \in SoftwareSet PROVE \E v \in DOMAIN T : SoftwareOf[v] = x
    <3>1. x.what \in 0 .. 2 /\ x.version \in Bytes
      BY DEF SoftwareSet
    <3>2. x = [is |-> x.is, what |-> x.what, version |-> x.version]
      BY DEF SoftwareSet
    <3>3. PICK v : v = <<x.what, x.version>>
      OBVIOUS
    <3>4. v \in DOMAIN T
      BY <1>1, <3>1, <3>3
    <3>5. SoftwareOf[v] = [is |-> "software", what |-> v[1], version |-> v[2]]
      BY <1>3, <3>4
    <3>6. "software" = x.is /\ v[1] = x.what /\ v[2] = x.version
      BY <3>3 DEF SoftwareSet
    <3> QED
      BY <3>2, <3>4, <3>5, <3>6
  <2>3. ASSUME NEW v \in DOMAIN T
                   PROVE SoftwareOf[v] \in SoftwareSet /\ SoftwareCode[SoftwareOf[v]] = T[v]
    <3>1. PICK a \in 0 .. 2, b \in Bytes : v = <<a, b>>
      BY <1>1
    <3> QED
      BY <2>1, <3>1
  <2> QED
    BY <1>2, <2>2, <2>3 DEF Renames
<1>5. IsCode(SoftwareCode) /\ NoneEmpty(SoftwareCode)
  BY <1>4, <1>t2, <1>n2, RenamesCode DEF T
<1> QED
  BY <1>2, <1>4, <1>5 DEF T, SoftwareTuples

\* The reader of SoftwareUpdate.
LEMMA SoftwareParsed ==
    ASSUME NEW r, r.ok, r.rest \in Str
    PROVE  Parsed(ReadSoftware(r), SoftwareCode, r.rest)
<1>c. IsCode(FlagCode(0 .. 2)) /\ IsCode(ByteCode)
  BY CodesOfNumbers, WhatIs
<1>t1. IsCode(One(FlagCode(0 .. 2)))
  BY <1>c, OneIs
<1>t2. IsCode(Two(FlagCode(0 .. 2), ByteCode))
           /\ Appends(One(FlagCode(0 .. 2)), ByteCode, Two(FlagCode(0 .. 2), ByteCode))
  BY <1>c, <1>t1, TwoIs
<1>p1. PICK n1, o1 : n1 = ReadByteIn(r, 0 .. 2) /\ o1 = First(n1)
  OBVIOUS
<1>q1. Parsed(n1, FlagCode(0 .. 2), r.rest)
  BY <1>p1, ReadWhatParsed
<1>r1. Parsed(o1, One(FlagCode(0 .. 2)), r.rest)
  BY <1>p1, <1>q1, FirstParsed
<1>p2. PICK n2, o2 : n2 = ReadByte(o1) /\ o2 = Behind(o1, n2)
  OBVIOUS
<1>q2. o1.ok => Parsed(n2, ByteCode, o1.rest)
  <2>1. o1.ok => o1.rest \in Str
    BY <1>r1, ParsedIs
  <2> QED
    BY <1>p2, <2>1, ReadByteParsed
<1>r2. Parsed(o2, Two(FlagCode(0 .. 2), ByteCode), r.rest)
  BY <1>c, <1>t1, <1>t2, <1>p2, <1>q2, <1>r1, BehindParsed
<1>1. ReadSoftware(r) = IF o2.ok
          THEN Good([is |-> "software", what |-> o2.val[1], version |-> o2.val[2]], o2.rest) ELSE Failed
  BY <1>p1, <1>p2 DEF ReadSoftware, ReadNext, ReadFirst, Into
<1>2. o2.ok => SoftwareOf[o2.val] = [is |-> "software", what |-> o2.val[1], version |-> o2.val[2]]
  <2>1. o2.ok => o2.val \in DOMAIN SoftwareTuples
    BY <1>r2, ParsedIs DEF SoftwareTuples
  <2> QED
    BY <2>1 DEF SoftwareOf
<1>3. /\ ~o2.ok => ReadSoftware(r) = Failed
      /\ o2.ok => ReadSoftware(r) = Good(SoftwareOf[o2.val], o2.rest)
  BY <1>1, <1>2
<1>4. Renames(SoftwareOf, Two(FlagCode(0 .. 2), ByteCode), SoftwareCode)
  BY SoftwareIs DEF SoftwareTuples
<1> QED
  BY <1>3, <1>4, <1>r2, IntoParsed

StatusCode == [x \in CommitErr |-> StatusBytes(x)]
StatusTags ==
    [t \in {0, 1, 2, 3, 4} |-> IF t = 0 THEN NeedKeyCode
                               ELSE IF t = 1 THEN SkewCode
                               ELSE IF t = 2 THEN NeedPeerInCode
                               ELSE IF t = 3 THEN NeedPeerCode ELSE SoftwareCode]

\* The statuses by their tags.
LEMMA StatusTagsAre ==
    /\ DOMAIN StatusTags = {0, 1, 2, 3, 4}
    /\ StatusTags[0] = NeedKeyCode /\ StatusTags[1] = SkewCode
    /\ StatusTags[2] = NeedPeerInCode /\ StatusTags[3] = NeedPeerCode /\ StatusTags[4] = SoftwareCode
    /\ \A t \in DOMAIN StatusTags : IsCode(StatusTags[t])
<1>1. /\ DOMAIN StatusTags = {0, 1, 2, 3, 4}
      /\ StatusTags[0] = NeedKeyCode /\ StatusTags[1] = SkewCode
      /\ StatusTags[2] = NeedPeerInCode /\ StatusTags[3] = NeedPeerCode /\ StatusTags[4] = SoftwareCode
  BY DEF StatusTags
<1>2. IsCode(NeedKeyCode) /\ IsCode(SkewCode) /\ IsCode(NeedPeerInCode) /\ IsCode(NeedPeerCode)
          /\ IsCode(SoftwareCode)
  BY NeedKeyIs, SkewIs, NeedPeerInIs, NeedPeerIs, SoftwareIs
<1> QED
  BY <1>1, <1>2

\* The code of CommitErr.
LEMMA StatusIs ==
    /\ DOMAIN StatusCode = CommitErr
    /\ \A x \in CommitErr : StatusCode[x] = StatusBytes(x)
    /\ Tags(StatusTags, StatusCode)
    /\ IsCode(StatusCode) /\ NoneEmpty(StatusCode)
<1>1. DOMAIN StatusCode = CommitErr /\ \A x \in CommitErr : StatusCode[x] = StatusBytes(x)
  BY DEF StatusCode
<1>2. \A x : x \in CommitErr <=>
         x \in NeedKeySet \/ x \in SkewSet \/ x \in NeedPeerInSet \/ x \in NeedPeerSet
             \/ x \in SoftwareSet
  <2>1. ASSUME NEW x \in CommitErr
        PROVE  x \in NeedKeySet \/ x \in SkewSet \/ x \in NeedPeerInSet \/ x \in NeedPeerSet
                   \/ x \in SoftwareSet
    BY DEF CommitErr, NeedKeySet, SkewSet, NeedPeerInSet, NeedPeerSet, SoftwareSet
  <2>2. ASSUME NEW x, x \in NeedKeySet \/ x \in SkewSet \/ x \in NeedPeerInSet
                   \/ x \in NeedPeerSet \/ x \in SoftwareSet
        PROVE  x \in CommitErr
    <3>1. <<>> \in Option(Array)
      BY OptionsAre
    <3> QED
      BY <2>2, <3>1 DEF CommitErr, NeedKeySet, SkewSet, NeedPeerInSet, NeedPeerSet, SoftwareSet
  <2> QED
    BY <2>1, <2>2
<1>3. /\ DOMAIN NeedKeyCode = NeedKeySet /\ DOMAIN SkewCode = SkewSet
      /\ DOMAIN NeedPeerInCode = NeedPeerInSet /\ DOMAIN NeedPeerCode = NeedPeerSet
      /\ DOMAIN SoftwareCode = SoftwareSet
  BY NeedKeyIs, SkewIs, NeedPeerInIs, NeedPeerIs, SoftwareIs
<1>4. ASSUME NEW x \in NeedKeySet PROVE StatusBytes(x) = Cat(<<0>>, NeedKeyCode[x])
  <2>1. x.is = "need_key"
    BY DEF NeedKeySet
  <2> QED
    BY <2>1, NeedKeyIs DEF StatusBytes, Cat
<1>5. ASSUME NEW x \in SkewSet PROVE StatusBytes(x) = Cat(<<1>>, SkewCode[x])
  <2>1. x.is = "skew"
    BY DEF SkewSet
  <2>2. StatusBytes(x) = <<1>>
    BY <2>1 DEF StatusBytes
  <2>3. <<1>> \in Str
    BY TagBytes DEF Str
  <2>4. Cat(<<1>>, <<>>) = <<1>>
    BY <2>3, ConcatIs DEF Cat
  <2> QED
    BY <2>2, <2>4, SkewIs
<1>6. ASSUME NEW x \in NeedPeerInSet PROVE StatusBytes(x) = Cat(<<2>>, NeedPeerInCode[x])
  <2>1. x.is = "need_peer" /\ x.container \in Option(Array) /\ x.container # <<>>
            /\ x.peer \in Array /\ x.head \in ChainHead
    BY DEF NeedPeerInSet
  <2>2. PICK a, p, h : a = x.container[1] /\ p = x.peer /\ h = ChainBytes(x.head)
    OBVIOUS
  <2>3. a \in Array /\ x.container = <<a>>
    BY <2>1, <2>2, OptionsAre
  <2>4. a \in Str /\ p \in Str
    BY <2>1, <2>2, <2>3 DEF Array
  <2>5. h \in Str
    BY <2>1, <2>2, ChainIs DEF IsCode
  <2>6. <<2>> \in Str
    BY TagBytes DEF Str
  <2>7. All(x.container, LAMBDA c : c) = a
    BY <2>3, <2>4, AllOfOption
  <2>8. StatusBytes(x) = <<IF x.container = <<>> THEN 3
            ELSE 2>> \o All(x.container, LAMBDA c : c) \o x.peer \o ChainBytes(x.head)
    BY <2>1 DEF StatusBytes
  <2>9. <<IF x.container = <<>> THEN 3 ELSE 2>> = <<2>>
    BY <2>1
  <2>10. PICK z, w : z = All(x.container, LAMBDA c : c) /\ w = <<IF x.container = <<>> THEN 3 ELSE 2>>
    OBVIOUS
  <2>11. StatusBytes(x) = w \o z \o p \o h
    BY <2>2, <2>8, <2>10
  <2>12. StatusBytes(x) = Cat(Cat(Cat(<<2>>, a), p), h)
    BY <2>7, <2>9, <2>10, <2>11 DEF Cat
  <2>13. Cat(Cat(Cat(<<2>>, a), p), h) = Cat(<<2>>, Cat(Cat(a, p), h))
    <3>1. Cat(<<2>>, a) \in Str /\ Cat(a, p) \in Str
      BY <2>4, <2>6, CatIs
    <3>2. Cat(Cat(<<2>>, a), p) = Cat(<<2>>, Cat(a, p))
      BY <2>4, <2>6, CatIs
    <3>3. Cat(Cat(<<2>>, Cat(a, p)), h) = Cat(<<2>>, Cat(Cat(a, p), h))
      BY <2>5, <2>6, <3>1, CatIs
    <3> QED
      BY <3>2, <3>3
  <2>14. NeedPeerInCode[x] = Cat(Cat(a, p), h)
    BY <2>2, NeedPeerInIs DEF NeedPeerInBytes, Cat
  <2> QED
    BY <2>12, <2>13, <2>14
<1>7. ASSUME NEW x \in NeedPeerSet PROVE StatusBytes(x) = Cat(<<3>>, NeedPeerCode[x])
  <2>1. x.is = "need_peer" /\ x.container = <<>> /\ x.peer \in Array /\ x.head \in ChainHead
    BY DEF NeedPeerSet
  <2>2. PICK p, h : p = x.peer /\ h = ChainBytes(x.head)
    OBVIOUS
  <2>3. p \in Str
    BY <2>1, <2>2 DEF Array
  <2>4. h \in Str
    BY <2>1, <2>2, ChainIs DEF IsCode
  <2>5. <<3>> \in Str
    BY TagBytes DEF Str
  <2>6. PICK z, w : z = All(x.container, LAMBDA c : c) /\ w = <<IF x.container = <<>> THEN 3 ELSE 2>>
    OBVIOUS
  <2>7. StatusBytes(x) = w \o z \o p \o h
    BY <2>1, <2>2, <2>6 DEF StatusBytes
  <2>8. z = <<>>
    <3>1. All(<<>>, LAMBDA c : c) = <<>>
      BY AllOfOption
    <3>2. All(x.container, LAMBDA c : c) = All(<<>>, LAMBDA c : c)
      BY <2>1 DEF All
    <3> QED
      BY <2>6, <3>1, <3>2
  <2>9. w = <<3>>
    BY <2>1, <2>6
  <2>10. <<3>> \o <<>> = <<3>>
    BY <2>5, ConcatIs
  <2>11. StatusBytes(x) = Cat(Cat(<<3>>, p), h)
    BY <2>7, <2>8, <2>9, <2>10 DEF Cat
  <2>12. Cat(Cat(<<3>>, p), h) = Cat(<<3>>, Cat(p, h))
    BY <2>3, <2>4, <2>5, CatIs
  <2>13. NeedPeerCode[x] = Cat(p, h)
    BY <2>2, NeedPeerIs DEF NeedPeerBytes, Cat
  <2> QED
    BY <2>11, <2>12, <2>13
<1>8. ASSUME NEW x \in SoftwareSet PROVE StatusBytes(x) = Cat(<<4>>, SoftwareCode[x])
  <2>1. x.is = "software"
    BY DEF SoftwareSet
  <2>2. StatusBytes(x) = <<4, x.what, x.version>>
    BY <2>1 DEF StatusBytes
  <2>3. SoftwareCode[x] = <<x.what>> \o <<x.version>>
    BY SoftwareIs DEF SoftwareBytes
  <2>4. <<4, x.what, x.version>> = <<4>> \o (<<x.what>> \o <<x.version>>)
    OBVIOUS
  <2> QED
    BY <2>2, <2>3, <2>4 DEF Cat
<1>9. Tags(StatusTags, StatusCode)
  <2>1. ASSUME NEW t \in DOMAIN StatusTags, NEW u, u \in DOMAIN StatusTags[t]
        PROVE  u \in DOMAIN StatusCode /\ StatusCode[u] = Cat(<<t>>, StatusTags[t][u])
    <3>1. t = 0 \/ t = 1 \/ t = 2 \/ t = 3 \/ t = 4
      BY StatusTagsAre
    <3>2. CASE t = 0
      BY <1>1, <1>2, <1>3, <1>4, <2>1, <3>2, StatusTagsAre
    <3>3. CASE t = 1
      BY <1>1, <1>2, <1>3, <1>5, <2>1, <3>3, StatusTagsAre
    <3>4. CASE t = 2
      BY <1>1, <1>2, <1>3, <1>6, <2>1, <3>4, StatusTagsAre
    <3>5. CASE t = 3
      BY <1>1, <1>2, <1>3, <1>7, <2>1, <3>5, StatusTagsAre
    <3>6. CASE t = 4
      BY <1>1, <1>2, <1>3, <1>8, <2>1, <3>6, StatusTagsAre
    <3> QED
      BY <3>1, <3>2, <3>3, <3>4, <3>5, <3>6
  <2>2. ASSUME NEW u \in DOMAIN StatusCode
        PROVE  \E t \in DOMAIN StatusTags : u \in DOMAIN StatusTags[t]
    <3>1. u \in NeedKeySet \/ u \in SkewSet \/ u \in NeedPeerInSet \/ u \in NeedPeerSet
              \/ u \in SoftwareSet
      BY <1>1, <1>2
    <3>2. {0, 1, 2, 3, 4} = DOMAIN StatusTags
      BY StatusTagsAre
    <3> QED
      BY <1>3, <3>1, <3>2, StatusTagsAre
  <2> QED
    BY <2>1, <2>2 DEF Tags
<1>10. IsCode(StatusCode) /\ NoneEmpty(StatusCode)
  <2>1. DOMAIN StatusTags \subseteq Bytes
    BY StatusTagsAre, TagBytes
  <2> QED
    BY <1>9, <2>1, StatusTagsAre, TagsAreCode
<1> QED
  BY <1>1, <1>9, <1>10

\* The container is what was read before the peer and its head.
LEMMA ReadNeedPeerIs ==
    ASSUME NEW r, r.ok, r.rest \in Str
    PROVE  /\ ReadNeedPeer(ReadFirst(r, ReadArray)) = ReadNeedPeerIn(r)
           /\ ReadNeedPeer(Into(r, LAMBDA v : <<>>)) = ReadNeedPeerAlone(r)
<1>c. IsCode(ArrayCode) /\ IsCode(ChainCode)
  BY CodesOfNumbers, ChainIs
<1>t1. IsCode(One(ArrayCode))
  BY <1>c, OneIs
<1>t2. IsCode(Two(ArrayCode, ArrayCode))
           /\ Appends(One(ArrayCode), ArrayCode, Two(ArrayCode, ArrayCode))
  BY <1>c, <1>t1, TwoIs
<1>t3. /\ IsCode(Three(ArrayCode, ArrayCode, ChainCode))
       /\ Appends(Two(ArrayCode, ArrayCode), ChainCode, Three(ArrayCode, ArrayCode, ChainCode))
  BY <1>c, <1>t2, ThreeIs
<1>u2. IsCode(Two(ArrayCode, ChainCode))
           /\ Appends(One(ArrayCode), ChainCode, Two(ArrayCode, ChainCode))
  BY <1>c, <1>t1, TwoIs
<1>1. PICK n1, o1, n2, o2, n3, o3 :
         /\ n1 = ReadArray(r) /\ o1 = First(n1)
         /\ n2 = ReadArray(o1) /\ o2 = Behind(o1, n2)
         /\ n3 = ReadChain(o2) /\ o3 = Behind(o2, n3)
  OBVIOUS
<1>2. Parsed(o1, One(ArrayCode), r.rest)
  <2>1. Parsed(n1, ArrayCode, r.rest)
    BY <1>1, ReadArrayParsed
  <2> QED
    BY <1>1, <2>1, FirstParsed
<1>3. Parsed(o2, Two(ArrayCode, ArrayCode), r.rest)
  <2>1. o1.ok => o1.rest \in Str
    BY <1>2, ParsedIs
  <2>2. o1.ok => Parsed(n2, ArrayCode, o1.rest)
    BY <1>1, <2>1, ReadArrayParsed
  <2> QED
    BY <1>1, <1>c, <1>t1, <1>t2, <1>2, <2>2, BehindParsed
<1>4. Parsed(o3, Three(ArrayCode, ArrayCode, ChainCode), r.rest)
  <2>1. o2.ok => o2.rest \in Str
    BY <1>3, ParsedIs
  <2>2. o2.ok => Parsed(n3, ChainCode, o2.rest)
    BY <1>1, <2>1, ChainParsed
  <2> QED
    BY <1>1, <1>c, <1>t2, <1>t3, <1>3, <2>2, BehindParsed
<1>0. PICK in, alone : /\ in = ReadNeedPeer(ReadFirst(r, ReadArray))
                       /\ alone = ReadNeedPeer(Into(r, LAMBDA v : <<>>))
  OBVIOUS
<1>5. in = ReadNeedPeerIn(r)
  <2>1. in =
          IF o3.ok THEN Good([is |-> "need_peer", container |-> SubSeq(o3.val, 1, Len(o3.val) - 2),
                              peer |-> o3.val[Len(o3.val) - 1], head |-> o3.val[Len(o3.val)]], o3.rest)
          ELSE Failed
    BY <1>0, <1>1 DEF ReadNeedPeer, ReadNext, ReadFirst, Into
  <2>2. ReadNeedPeerIn(r) =
          IF o3.ok THEN Good([is |-> "need_peer", container |-> <<o3.val[1]>>,
                              peer |-> o3.val[2], head |-> o3.val[3]], o3.rest)
          ELSE Failed
    BY <1>1 DEF ReadNeedPeerIn, ReadNext, ReadFirst, Into
  <2>3. ASSUME o3.ok
        PROVE  /\ SubSeq(o3.val, 1, Len(o3.val) - 2) = <<o3.val[1]>>
               /\ o3.val[Len(o3.val) - 1] = o3.val[2] /\ o3.val[Len(o3.val)] = o3.val[3]
    <3>1. o3.val \in DOMAIN Three(ArrayCode, ArrayCode, ChainCode)
      BY <1>4, <2>3, ParsedIs
    <3>2. PICK a \in DOMAIN ArrayCode, b \in DOMAIN ArrayCode, c \in DOMAIN ChainCode :
                   o3.val = <<a, b, c>>
      BY <3>1, ThreeTuples
    <3>3. PICK v : v = <<a, b, c>>
      OBVIOUS
    <3>4. Len(v) = 3
      BY <3>3
    <3>5. SubSeq(v, 1, 1) = <<v[1]>>
      <4>1. v \in Seq({a, b, c}) /\ v[1] = a
        BY <3>3
      <4>2. PICK w : w = SubSeq(v, 1, 1)
        OBVIOUS
      <4>3. w \in Seq({a, b, c}) /\ Len(w) = 1 /\ w[1] = v[1]
        BY <3>4, <4>1, <4>2
      <4>4. w = <<w[1]>>
        BY <4>3
      <4> QED
        BY <4>2, <4>3, <4>4
    <3> QED
      BY <3>2, <3>3, <3>4, <3>5
  <2> QED
    BY <2>1, <2>2, <2>3
<1>6. PICK start, m1, p1, m2, p2 :
         /\ start = Good(<<>>, r.rest)
         /\ m1 = ReadArray(start) /\ p1 = Behind(start, m1)
         /\ m2 = ReadChain(p1) /\ p2 = Behind(p1, m2)
  OBVIOUS
<1>7. start.ok /\ start.val = <<>> /\ start.rest = r.rest
  BY <1>6, GoodIs
<1>8. m1 = n1
  BY <1>1, <1>6, <1>7 DEF ReadArray, ReadSlice
<1>9. p1 = o1
  <2>1. \A x : Append(<<>>, x) = <<x>>
    OBVIOUS
  <2> QED
    BY <1>1, <1>6, <1>7, <1>8, <2>1 DEF Behind, First
<1>10. Parsed(p2, Two(ArrayCode, ChainCode), r.rest)
  <2>1. o1.ok => o1.rest \in Str
    BY <1>2, ParsedIs
  <2>2. o1.ok => Parsed(m2, ChainCode, o1.rest)
    BY <1>6, <1>9, <2>1, ChainParsed
  <2>3. p2 = Behind(o1, m2)
    BY <1>6, <1>9
  <2> QED
    BY <1>c, <1>t1, <1>u2, <1>2, <2>2, <2>3, BehindParsed
<1>11. alone = ReadNeedPeerAlone(r)
  <2>1. alone =
          IF p2.ok THEN Good([is |-> "need_peer", container |-> SubSeq(p2.val, 1, Len(p2.val) - 2),
                              peer |-> p2.val[Len(p2.val) - 1], head |-> p2.val[Len(p2.val)]], p2.rest)
          ELSE Failed
    BY <1>0, <1>6 DEF ReadNeedPeer, ReadNext, Into
  <2>2. ReadNeedPeerAlone(r) =
          IF p2.ok THEN Good([is |-> "need_peer", container |-> <<>>,
                              peer |-> p2.val[1], head |-> p2.val[2]], p2.rest)
          ELSE Failed
    BY <1>1, <1>6, <1>9 DEF ReadNeedPeerAlone, ReadNext, ReadFirst, Into
  <2>3. ASSUME p2.ok
        PROVE  /\ SubSeq(p2.val, 1, Len(p2.val) - 2) = <<>>
               /\ p2.val[Len(p2.val) - 1] = p2.val[1] /\ p2.val[Len(p2.val)] = p2.val[2]
    <3>1. p2.val \in DOMAIN Two(ArrayCode, ChainCode)
      BY <1>10, <2>3, ParsedIs
    <3>2. PICK a \in DOMAIN ArrayCode, b \in DOMAIN ChainCode : p2.val = <<a, b>>
      BY <3>1, TwoTuples
    <3>3. PICK v : v = <<a, b>>
      OBVIOUS
    <3>4. Len(v) = 2
      BY <3>3
    <3>5. SubSeq(v, 1, 0) = <<>>
      BY <3>3
    <3> QED
      BY <3>2, <3>3, <3>4, <3>5
  <2> QED
    BY <2>1, <2>2, <2>3
<1> QED
  BY <1>0, <1>5, <1>11

\* CommitErr::decode().
LEMMA StatusParsed ==
    ASSUME NEW r, r.ok, r.rest \in Str
    PROVE  Parsed(ReadCommitErr(r), StatusCode, r.rest)
<1>1. PICK tag, p : tag = ReadByte(r) /\ p = ReadCommitErr(r)
  OBVIOUS
<1>2. Parsed(tag, FlagCode(Bytes), r.rest)
  BY <1>1, ReadTagParsed
<1>3. tag.ok => tag.rest \in Str
  BY <1>2, ParsedIs
<1>4. PICK key, in, alone : /\ key = ReadArray(tag)
                            /\ in = ReadNeedPeer(ReadFirst(tag, ReadArray))
                            /\ alone = ReadNeedPeer(Into(tag, LAMBDA v : <<>>))
  OBVIOUS
<1>5. p = CASE Tagged(tag, 0) -> (IF key.ok
          THEN Good([is |-> "need_key", fingerprint |-> key.val], key.rest)
                                  ELSE Failed)
            [] Tagged(tag, 1) -> (IF tag.ok THEN Good([is |-> "skew"], tag.rest) ELSE Failed)
            [] Tagged(tag, 2) -> in
            [] Tagged(tag, 3) -> alone
            [] Tagged(tag, 4) -> ReadSoftware(tag)
            [] OTHER -> Failed
  BY <1>1, <1>4 DEF ReadCommitErr, Into, ReadFirst
<1>6. ASSUME tag.ok, tag.val = 0 PROVE Parsed(p, NeedKeyCode, tag.rest)
  <2>1. p = IF key.ok THEN Good([is |-> "need_key", fingerprint |-> key.val], key.rest) ELSE Failed
    BY <1>5, <1>6 DEF Tagged
  <2>2. Parsed(key, ArrayCode, tag.rest)
    BY <1>3, <1>4, <1>6, ReadArrayParsed
  <2>3. key.ok => key.val \in Array
    BY <2>2, ParsedIs, CodesAre
  <2>4. /\ ~key.ok => p = Failed
        /\ key.ok => p = Good(NeedKeyOf[key.val], key.rest)
    BY <2>1, <2>3, NeedKeyIs
  <2> QED
    BY <2>2, <2>4, NeedKeyIs, IntoParsed
<1>7. ASSUME tag.ok, tag.val = 1 PROVE Parsed(p, SkewCode, tag.rest)
  <2>1. p = Good([is |-> "skew"], tag.rest)
    BY <1>5, <1>7 DEF Tagged
  <2>2. PICK o : o = Good(<<>>, tag.rest)
    OBVIOUS
  <2>3. Parsed(o, NoBytes, tag.rest)
    BY <1>3, <1>7, <2>2, NoBytesIs
  <2>4. o.ok /\ o.val = <<>> /\ o.rest = tag.rest
    BY <2>2, GoodIs
  <2>5. p = Good(SkewOf[o.val], o.rest)
    BY <2>1, <2>4, SkewIs
  <2> QED
    BY <2>3, <2>4, <2>5, SkewIs, IntoParsed
<1>8. ASSUME tag.ok, tag.val = 2 PROVE Parsed(p, NeedPeerInCode, tag.rest)
  <2>1. p = in
    BY <1>5, <1>8 DEF Tagged
  <2>2. in = ReadNeedPeerIn(tag)
    BY <1>3, <1>4, <1>8, ReadNeedPeerIs
  <2> QED
    BY <1>3, <1>8, <2>1, <2>2, NeedPeerInParsed
<1>9. ASSUME tag.ok, tag.val = 3 PROVE Parsed(p, NeedPeerCode, tag.rest)
  <2>1. p = alone
    BY <1>5, <1>9 DEF Tagged
  <2>2. alone = ReadNeedPeerAlone(tag)
    BY <1>3, <1>4, <1>9, ReadNeedPeerIs
  <2> QED
    BY <1>3, <1>9, <2>1, <2>2, NeedPeerParsed
<1>10. ASSUME tag.ok, tag.val = 4 PROVE Parsed(p, SoftwareCode, tag.rest)
  <2>1. p = ReadSoftware(tag)
    BY <1>5, <1>10 DEF Tagged
  <2> QED
    BY <1>3, <1>10, <2>1, SoftwareParsed
<1>11. /\ ~tag.ok => p = Failed
       /\ tag.ok /\ tag.val \notin {0, 1, 2, 3, 4} => p = Failed
  BY <1>5 DEF Tagged
<1>12. tag.ok /\ tag.val \in DOMAIN StatusTags => Parsed(p, StatusTags[tag.val], tag.rest)
  BY <1>6, <1>7, <1>8, <1>9, <1>10, StatusTagsAre
<1>13. DOMAIN StatusTags = {0, 1, 2, 3, 4} /\ {0, 1, 2, 3, 4} \subseteq Bytes /\ Bytes \in SUBSET Bytes
  BY StatusTagsAre, TagBytes
<1>14. Tags(StatusTags, StatusCode) /\ \A t \in DOMAIN StatusTags : IsCode(StatusTags[t])
  BY StatusIs, StatusTagsAre
<1>15. Parsed(p, StatusCode, r.rest)
  BY <1>2, <1>11, <1>12, <1>13, <1>14, TagParsed
<1> QED
  BY <1>1, <1>15

-----------------------------------------------------------------------------
(* The entry a peer begins with *)

Majors == {v \in Bytes : v % Half = 0}
\* The one element.
The(s) == s[1]

Members == Option(Array) \ {<<>>}
MemberCode == One(ArrayCode)

\* Half a byte has at least one value.
LEMMA HalfIs ==
    Half \in Nat \ {0}
<1>1. (GroupBits + 1) \div 2 \in Nat
  BY WireAssumption
<1> QED
  BY <1>1, PowerPositive DEF Half

\* The codes that the two forms of an init entry are made of.
LEMMA JoinCodesAre ==
    /\ IsCode(FlagCode(Majors)) /\ NoneEmpty(FlagCode(Majors))
    /\ IsCode(FlagCode({0, 1})) /\ IsCode(FlagCode({2, 3})) /\ IsCode(FlagCode(0 .. 3))
    /\ IsCode(NoBytes) /\ DOMAIN NoBytes = {<<>>} /\ \A y \in {<<>>} : NoBytes[y] = y
    /\ IsCode(MemberCode) /\ DOMAIN MemberCode = Members
    /\ \A y \in Members : MemberCode[y] = The(y)
<1>1. Majors \in SUBSET Bytes /\ {0, 1} \in SUBSET Bytes /\ {2, 3} \in SUBSET Bytes
          /\ 0 .. 3 \in SUBSET Bytes
  BY TagBytes DEF Majors
<1>2. /\ IsCode(FlagCode(Majors)) /\ NoneEmpty(FlagCode(Majors))
      /\ IsCode(FlagCode({0, 1})) /\ IsCode(FlagCode({2, 3})) /\ IsCode(FlagCode(0 .. 3))
  BY <1>1, CodesOfNumbers, NumbersNoneEmpty
<1>3. IsCode(NoBytes) /\ DOMAIN NoBytes = {<<>>} /\ \A y \in {<<>>} : NoBytes[y] = y
  BY NoBytesIs
<1>4. IsCode(ArrayCode) /\ DOMAIN ArrayCode = Array /\ \A a \in Array : ArrayCode[a] = a
  BY CodesOfNumbers, CodesAre
<1>5. IsCode(MemberCode) /\ DOMAIN MemberCode = {<<a>> : a \in Array}
  BY <1>4, OneIs DEF MemberCode
<1>6. \A a \in Array : MemberCode[<<a>>] = a
  BY <1>4, OneTuples DEF MemberCode
<1>7. ASSUME NEW y PROVE y \in Members <=> \E a \in Array : y = <<a>>
  BY OptionsAre DEF Members
<1>8. ASSUME NEW y \in Members PROVE MemberCode[y] = The(y)
  <2>1. PICK a \in Array : y = <<a>>
    BY <1>7
  <2> QED
    BY <1>6, <2>1 DEF The
<1>9. DOMAIN MemberCode = Members
  BY <1>5, <1>7
<1> QED
  BY <1>2, <1>3, <1>5, <1>8, <1>9

ReadNoJoin(r) == Into(r, LAMBDA v : <<>>)
ReadMember(r) == ReadFirst(r, ReadArray)

\* Reading that a peer joins nobody takes no bytes.
LEMMA ReadNoJoinParsed ==
    ASSUME NEW r, r.ok, r.rest \in Str
    PROVE  Parsed(ReadNoJoin(r), NoBytes, r.rest)
<1>1. ReadNoJoin(r) = Good(<<>>, r.rest)
  BY DEF ReadNoJoin, Into
<1> QED
  BY <1>1, NoBytesIs

\* The reader of the member that a peer joins.
LEMMA ReadMemberParsed ==
    ASSUME NEW r, r.ok, r.rest \in Str
    PROVE  Parsed(ReadMember(r), MemberCode, r.rest)
<1>1. PICK n : n = ReadArray(r)
  OBVIOUS
<1>2. ReadMember(r) = First(n)
  BY <1>1 DEF ReadMember, ReadFirst
<1>3. Parsed(n, ArrayCode, r.rest)
  BY <1>1, ReadArrayParsed
<1> QED
  BY <1>2, <1>3, FirstParsed DEF MemberCode

AloneSet ==
    [version : Majors, hash_suite : {0}, server : BOOLEAN, join : {<<>>}, sig_key : Key,
     wrap_key : Key, endorsement : ByteString]

AloneBytes(c) ==
    <<c.version>> \o <<0>> \o <<IF c.server THEN 1 ELSE 0>> \o TaggedBytes(c.sig_key)
      \o TaggedBytes(c.wrap_key) \o c.join \o LenPrefixed(c.endorsement)

ReadAlone(r) ==
    Into(ReadNext(ReadNext(r, ReadNoJoin), ReadLenPrefixed), LAMBDA v :
            [version |-> v[1], hash_suite |-> v[2], server |-> v[3] % 2 = 1,
             sig_key |-> v[4], wrap_key |-> v[5], join |-> v[6], endorsement |-> v[7]])

AloneCode == [x \in AloneSet |-> AloneBytes(x)]
AloneTuples == Seven(FlagCode(Majors), FlagCode({0}), FlagCode({0, 1}), KeyCode, KeyCode,
    NoBytes, LenCode)
AloneOf == [v \in DOMAIN AloneTuples |->
    [version |-> v[1], hash_suite |-> v[2], server |-> (v[3] % 2 = 1), sig_key |-> v[4],
    wrap_key |-> v[5], join |-> v[6], endorsement |-> v[7]]]

\* The code of an init entry of a peer that joins nobody.
LEMMA AloneIs ==
    /\ DOMAIN AloneCode = AloneSet /\ \A x \in AloneSet : AloneCode[x] = AloneBytes(x)
    /\ IsCode(AloneCode) /\ NoneEmpty(AloneCode)
    /\ Renames(AloneOf, AloneTuples, AloneCode)
<1> DEFINE T == Seven(FlagCode(Majors), FlagCode({0}), FlagCode({0, 1}), KeyCode, KeyCode,
               NoBytes, LenCode)
<1>c. IsCode(FlagCode(Majors)) /\ IsCode(FlagCode({0})) /\ IsCode(FlagCode({0, 1}))
          /\ IsCode(KeyCode) /\ IsCode(NoBytes) /\ IsCode(LenCode)
  BY JoinCodesAre, KeyIs, LenCodeIs, TagCodes
<1>t1. IsCode(One(FlagCode(Majors)))
  BY <1>c, OneIs
<1>t2. IsCode(Two(FlagCode(Majors), FlagCode({0})))
           /\ Appends(One(FlagCode(Majors)), FlagCode({0}), Two(FlagCode(Majors), FlagCode({0})))
  BY <1>c, <1>t1, TwoIs
<1>t3. IsCode(Three(FlagCode(Majors), FlagCode({0}), FlagCode({0, 1})))
           /\ Appends(Two(FlagCode(Majors), FlagCode({0})), FlagCode({0, 1}),
           Three(FlagCode(Majors), FlagCode({0}), FlagCode({0, 1})))
  BY <1>c, <1>t2, ThreeIs
<1>t4. IsCode(Four(FlagCode(Majors), FlagCode({0}), FlagCode({0, 1}), KeyCode))
           /\ Appends(Three(FlagCode(Majors), FlagCode({0}), FlagCode({0, 1})), KeyCode,
           Four(FlagCode(Majors), FlagCode({0}), FlagCode({0, 1}), KeyCode))
  BY <1>c, <1>t3, FourIs
<1>t5. IsCode(Five(FlagCode(Majors), FlagCode({0}), FlagCode({0, 1}), KeyCode, KeyCode))
           /\ Appends(Four(FlagCode(Majors), FlagCode({0}), FlagCode({0, 1}), KeyCode),
           KeyCode, Five(FlagCode(Majors), FlagCode({0}), FlagCode({0, 1}), KeyCode, KeyCode))
  BY <1>c, <1>t4, FiveIs
<1>t6. IsCode(Six(FlagCode(Majors), FlagCode({0}), FlagCode({0, 1}), KeyCode, KeyCode,
           NoBytes)) /\ Appends(Five(FlagCode(Majors), FlagCode({0}), FlagCode({0, 1}),
           KeyCode, KeyCode), NoBytes,
           Six(FlagCode(Majors), FlagCode({0}), FlagCode({0, 1}), KeyCode, KeyCode, NoBytes))
  BY <1>c, <1>t5, SixIs
<1>t7. IsCode(Seven(FlagCode(Majors), FlagCode({0}), FlagCode({0, 1}), KeyCode, KeyCode,
           NoBytes, LenCode))
           /\ Appends(Six(FlagCode(Majors), FlagCode({0}), FlagCode({0, 1}), KeyCode, KeyCode,
           NoBytes), LenCode,
           Seven(FlagCode(Majors), FlagCode({0}), FlagCode({0, 1}), KeyCode, KeyCode, NoBytes, LenCode))
  BY <1>c, <1>t6, SevenIs
<1>n1. NoneEmpty(One(FlagCode(Majors)))
  <2>1. NoneEmpty(FlagCode(Majors))
    BY JoinCodesAre
  <2> QED
    BY <2>1, OneNoneEmpty
<1>n2. NoneEmpty(Two(FlagCode(Majors), FlagCode({0})))
  BY <1>c, <1>t1, <1>t2, <1>n1, AppendsNoneEmpty
<1>n3. NoneEmpty(Three(FlagCode(Majors), FlagCode({0}), FlagCode({0, 1})))
  BY <1>c, <1>t2, <1>t3, <1>n2, AppendsNoneEmpty
<1>n4. NoneEmpty(Four(FlagCode(Majors), FlagCode({0}), FlagCode({0, 1}), KeyCode))
  BY <1>c, <1>t3, <1>t4, <1>n3, AppendsNoneEmpty
<1>n5. NoneEmpty(Five(FlagCode(Majors), FlagCode({0}), FlagCode({0, 1}), KeyCode, KeyCode))
  BY <1>c, <1>t4, <1>t5, <1>n4, AppendsNoneEmpty
<1>n6. NoneEmpty(Six(FlagCode(Majors), FlagCode({0}), FlagCode({0, 1}), KeyCode, KeyCode, NoBytes))
  BY <1>c, <1>t5, <1>t6, <1>n5, AppendsNoneEmpty
<1>n7. NoneEmpty(Seven(FlagCode(Majors), FlagCode({0}), FlagCode({0, 1}), KeyCode, KeyCode,
           NoBytes, LenCode))
  BY <1>c, <1>t6, <1>t7, <1>n6, AppendsNoneEmpty
<1>d1. DOMAIN FlagCode(Majors) = Majors /\ \A y \in Majors : FlagCode(Majors)[y] = <<y>>
  BY FlagCodeIs
<1>d2. DOMAIN FlagCode({0}) = {0} /\ \A y \in {0} : FlagCode({0})[y] = <<y>>
  BY FlagCodeIs
<1>d3. DOMAIN FlagCode({0, 1}) = {0, 1} /\ \A y \in {0, 1} : FlagCode({0, 1})[y] = <<y>>
  BY FlagCodeIs
<1>d4. DOMAIN KeyCode = Key /\ \A y \in Key : KeyCode[y] = TaggedBytes(y)
  BY KeyIs
<1>d5. DOMAIN KeyCode = Key /\ \A y \in Key : KeyCode[y] = TaggedBytes(y)
  BY KeyIs
<1>d6. DOMAIN NoBytes = {<<>>} /\ \A y \in {<<>>} : NoBytes[y] = y
  BY JoinCodesAre
<1>d7. DOMAIN LenCode = ByteString /\ \A y \in ByteString : LenCode[y] = LenPrefixed(y)
  BY CodesAre
<1>1. /\ \A a \in Majors, b \in {0}, c \in {0, 1}, d \in Key, e \in Key, f \in {<<>>},
             g \in ByteString :
            <<a, b, c, d, e, f, g>> \in DOMAIN T
      /\ \A a \in Majors, b \in {0}, c \in {0, 1}, d \in Key, e \in Key, f \in {<<>>},
             g \in ByteString :
            T[<<a, b, c, d, e, f, g>>]
                = Cat(Cat(Cat(Cat(Cat(Cat(<<a>>, <<b>>), <<c>>), TaggedBytes(d)),
                TaggedBytes(e)), f), LenPrefixed(g))
      /\ \A v \in DOMAIN T : \E a \in Majors, b \in {0}, c \in {0, 1}, d \in Key, e \in Key,
             f \in {<<>>}, g \in ByteString : v = <<a, b, c, d, e, f, g>>
  BY <1>d1, <1>d2, <1>d3, <1>d4, <1>d5, <1>d6, <1>d7, SevenTuples
<1>2. DOMAIN AloneCode = AloneSet /\ \A x \in AloneSet : AloneCode[x] = AloneBytes(x)
  BY DEF AloneCode
<1>3. DOMAIN AloneOf = DOMAIN T
          /\ \A v \in DOMAIN T : AloneOf[v]
          = [version |-> v[1], hash_suite |-> v[2], server |-> (v[3] % 2 = 1),
          sig_key |-> v[4], wrap_key |-> v[5], join |-> v[6], endorsement |-> v[7]]
  BY DEF AloneOf, AloneTuples
<1> HIDE DEF T
<1>4. Renames(AloneOf, T, AloneCode)
  <2>1. ASSUME NEW a \in Majors, NEW b \in {0}, NEW c \in {0, 1}, NEW d \in Key, NEW e \in Key,
                   NEW f \in {<<>>}, NEW g \in ByteString
        PROVE  AloneOf[<<a, b, c, d, e, f, g>>] \in AloneSet
                   /\ AloneCode[AloneOf[<<a, b, c, d, e, f, g>>]] = T[<<a, b, c, d, e, f, g>>]
    <3>1. PICK x : x = [version |-> a, hash_suite |-> b, server |-> (c % 2 = 1), sig_key |-> d,
                   wrap_key |-> e, join |-> f, endorsement |-> g]
      OBVIOUS
    <3>2. AloneOf[<<a, b, c, d, e, f, g>>] = x
      <4>1. <<a, b, c, d, e, f, g>> \in DOMAIN T
        BY <1>1
      <4>2. AloneOf[<<a, b, c, d, e, f, g>>]
                = [version |-> a, hash_suite |-> b, server |-> (c % 2 = 1), sig_key |-> d,
                wrap_key |-> e, join |-> f, endorsement |-> g]
        BY <1>3, <4>1
      <4> QED
        BY <3>1, <4>2
    <3>3. x \in AloneSet
      BY <3>1 DEF AloneSet
    <3>4. AloneBytes(x) = Cat(Cat(Cat(Cat(Cat(Cat(<<a>>, <<b>>), <<c>>), TaggedBytes(d)),
              TaggedBytes(e)), f), LenPrefixed(g))
      <4>0. x.server <=> c % 2 = 1
        BY <3>1
      <4>3. (IF x.server THEN 1 ELSE 0) = c
        BY <4>0
      <4>4. /\ x.version = a /\ 0 = b /\ x.sig_key = d
            /\ x.wrap_key = e /\ x.join = f /\ x.endorsement = g
        BY <3>1
      <4>1.  x.version = a /\ 0 = b /\ (IF x.server THEN 1 ELSE 0) = c
            /\ x.sig_key = d /\ x.wrap_key = e /\ x.join = f /\ x.endorsement = g
        BY <4>3, <4>4
      <4>2. AloneBytes(x) = Cat(Cat(Cat(Cat(Cat(Cat(<<x.version>>, <<0>>), <<(IF x.server
                THEN 1 ELSE 0)>>), TaggedBytes(x.sig_key)), TaggedBytes(x.wrap_key)), x.join),
                LenPrefixed(x.endorsement))
        BY DEF AloneBytes, Cat
      <4> QED
        BY <4>1, <4>2
    <3>5. T[<<a, b, c, d, e, f, g>>]
              = Cat(Cat(Cat(Cat(Cat(Cat(<<a>>, <<b>>), <<c>>), TaggedBytes(d)),
              TaggedBytes(e)), f), LenPrefixed(g))
      BY <1>1
    <3> QED
      BY <1>2, <3>2, <3>3, <3>4, <3>5
  <2>2. ASSUME NEW x \in AloneSet PROVE \E v \in DOMAIN T : AloneOf[v] = x
    <3>1. x.version \in Majors /\ 0 \in {0} /\ (IF x.server THEN 1
              ELSE 0) \in {0, 1} /\ x.sig_key \in Key /\ x.wrap_key \in Key
              /\ x.join \in {<<>>} /\ x.endorsement \in ByteString
      BY DEF AloneSet
    <3>2. x = [version |-> x.version, hash_suite |-> x.hash_suite, server |-> x.server,
              sig_key |-> x.sig_key, wrap_key |-> x.wrap_key, join |-> x.join,
              endorsement |-> x.endorsement]
      BY DEF AloneSet
    <3>3. PICK v : v = <<x.version, 0, (IF x.server THEN 1
                   ELSE 0), x.sig_key, x.wrap_key, x.join, x.endorsement>>
      OBVIOUS
    <3>4. v \in DOMAIN T
      BY <1>1, <3>1, <3>3
    <3>5. AloneOf[v] = [version |-> v[1], hash_suite |-> v[2], server |-> (v[3] % 2 = 1),
              sig_key |-> v[4], wrap_key |-> v[5], join |-> v[6], endorsement |-> v[7]]
      BY <1>3, <3>4
    <3>6. v[1] = x.version /\ v[2] = x.hash_suite /\ (v[3] % 2 = 1) = x.server
              /\ v[4] = x.sig_key /\ v[5] = x.wrap_key /\ v[6] = x.join /\ v[7] = x.endorsement
      BY <3>3 DEF AloneSet
    <3> QED
      BY <3>2, <3>4, <3>5, <3>6
  <2>3. ASSUME NEW v \in DOMAIN T PROVE AloneOf[v] \in AloneSet /\ AloneCode[AloneOf[v]] = T[v]
    <3>1. PICK a \in Majors, b \in {0}, c \in {0, 1}, d \in Key, e \in Key, f \in {<<>>},
                   g \in ByteString : v = <<a, b, c, d, e, f, g>>
      BY <1>1
    <3> QED
      BY <2>1, <3>1
  <2> QED
    BY <1>2, <2>2, <2>3 DEF Renames
<1>5. IsCode(AloneCode) /\ NoneEmpty(AloneCode)
  BY <1>4, <1>t7, <1>n7, RenamesCode DEF T
<1> QED
  BY <1>2, <1>4, <1>5 DEF T, AloneTuples

\* The reader of an init entry of a peer that joins nobody.
LEMMA AloneParsed ==
    ASSUME NEW r, NEW s, Parsed(r,
               Five(FlagCode(Majors), FlagCode({0}), FlagCode({0, 1}), KeyCode, KeyCode), s)
    PROVE  Parsed(ReadAlone(r), AloneCode, s)
<1>c. IsCode(FlagCode(Majors)) /\ IsCode(FlagCode({0})) /\ IsCode(FlagCode({0, 1}))
          /\ IsCode(KeyCode) /\ IsCode(NoBytes) /\ IsCode(LenCode)
  BY JoinCodesAre, KeyIs, LenCodeIs, TagCodes
<1>t1. IsCode(One(FlagCode(Majors)))
  BY <1>c, OneIs
<1>t2. IsCode(Two(FlagCode(Majors), FlagCode({0})))
           /\ Appends(One(FlagCode(Majors)), FlagCode({0}), Two(FlagCode(Majors), FlagCode({0})))
  BY <1>c, <1>t1, TwoIs
<1>t3. IsCode(Three(FlagCode(Majors), FlagCode({0}), FlagCode({0, 1})))
           /\ Appends(Two(FlagCode(Majors), FlagCode({0})), FlagCode({0, 1}),
           Three(FlagCode(Majors), FlagCode({0}), FlagCode({0, 1})))
  BY <1>c, <1>t2, ThreeIs
<1>t4. IsCode(Four(FlagCode(Majors), FlagCode({0}), FlagCode({0, 1}), KeyCode))
           /\ Appends(Three(FlagCode(Majors), FlagCode({0}), FlagCode({0, 1})), KeyCode,
           Four(FlagCode(Majors), FlagCode({0}), FlagCode({0, 1}), KeyCode))
  BY <1>c, <1>t3, FourIs
<1>t5. IsCode(Five(FlagCode(Majors), FlagCode({0}), FlagCode({0, 1}), KeyCode, KeyCode))
           /\ Appends(Four(FlagCode(Majors), FlagCode({0}), FlagCode({0, 1}), KeyCode),
           KeyCode, Five(FlagCode(Majors), FlagCode({0}), FlagCode({0, 1}), KeyCode, KeyCode))
  BY <1>c, <1>t4, FiveIs
<1>t6. IsCode(Six(FlagCode(Majors), FlagCode({0}), FlagCode({0, 1}), KeyCode, KeyCode,
           NoBytes)) /\ Appends(Five(FlagCode(Majors), FlagCode({0}), FlagCode({0, 1}),
           KeyCode, KeyCode), NoBytes,
           Six(FlagCode(Majors), FlagCode({0}), FlagCode({0, 1}), KeyCode, KeyCode, NoBytes))
  BY <1>c, <1>t5, SixIs
<1>t7. IsCode(Seven(FlagCode(Majors), FlagCode({0}), FlagCode({0, 1}), KeyCode, KeyCode,
           NoBytes, LenCode))
           /\ Appends(Six(FlagCode(Majors), FlagCode({0}), FlagCode({0, 1}), KeyCode, KeyCode,
           NoBytes), LenCode,
           Seven(FlagCode(Majors), FlagCode({0}), FlagCode({0, 1}), KeyCode, KeyCode, NoBytes, LenCode))
  BY <1>c, <1>t6, SevenIs
<1>r5. Parsed(r, Five(FlagCode(Majors), FlagCode({0}), FlagCode({0, 1}), KeyCode, KeyCode), s)
  OBVIOUS
<1>p6. PICK n6, o6 : n6 = ReadNoJoin(r) /\ o6 = Behind(r, n6)
  OBVIOUS
<1>q6. r.ok => Parsed(n6, NoBytes, r.rest)
  <2>1. r.ok => r.rest \in Str
    BY <1>r5, ParsedIs
  <2> QED
    BY <1>p6, <2>1, ReadNoJoinParsed
<1>r6. Parsed(o6, Six(FlagCode(Majors), FlagCode({0}), FlagCode({0, 1}), KeyCode, KeyCode, NoBytes), s)
  BY <1>c, <1>t5, <1>t6, <1>p6, <1>q6, <1>r5, BehindParsed
<1>p7. PICK n7, o7 : n7 = ReadLenPrefixed(o6) /\ o7 = Behind(o6, n7)
  OBVIOUS
<1>q7. o6.ok => Parsed(n7, LenCode, o6.rest)
  <2>1. o6.ok => o6.rest \in Str
    BY <1>r6, ParsedIs
  <2> QED
    BY <1>p7, <2>1, ReadLenPrefixedParsed
<1>r7. Parsed(o7, Seven(FlagCode(Majors), FlagCode({0}), FlagCode({0, 1}), KeyCode, KeyCode,
           NoBytes, LenCode), s)
  BY <1>c, <1>t6, <1>t7, <1>p7, <1>q7, <1>r6, BehindParsed
<1>1. ReadAlone(r) = IF o7.ok
          THEN Good([version |-> o7.val[1], hash_suite |-> o7.val[2],
          server |-> (o7.val[3] % 2 = 1), sig_key |-> o7.val[4], wrap_key |-> o7.val[5],
          join |-> o7.val[6], endorsement |-> o7.val[7]], o7.rest) ELSE Failed
  BY <1>p6, <1>p7 DEF ReadAlone, ReadNext, ReadFirst, Into
<1>2. o7.ok => AloneOf[o7.val]
          = [version |-> o7.val[1], hash_suite |-> o7.val[2], server |-> (o7.val[3] % 2 = 1),
          sig_key |-> o7.val[4], wrap_key |-> o7.val[5], join |-> o7.val[6], endorsement |-> o7.val[7]]
  <2>1. o7.ok => o7.val \in DOMAIN AloneTuples
    BY <1>r7, ParsedIs DEF AloneTuples
  <2> QED
    BY <2>1 DEF AloneOf
<1>3. /\ ~o7.ok => ReadAlone(r) = Failed
      /\ o7.ok => ReadAlone(r) = Good(AloneOf[o7.val], o7.rest)
  BY <1>1, <1>2
<1>4. Renames(AloneOf, Seven(FlagCode(Majors), FlagCode({0}), FlagCode({0, 1}), KeyCode,
          KeyCode, NoBytes, LenCode), AloneCode)
  BY AloneIs DEF AloneTuples
<1> QED
  BY <1>3, <1>4, <1>r7, IntoParsed

JoinedSet ==
    [version : Majors, hash_suite : {0}, server : BOOLEAN, join : Members, sig_key : Key,
     wrap_key : Key, endorsement : ByteString]

JoinedBytes(c) ==
    <<c.version>> \o <<0>> \o <<IF c.server THEN 3 ELSE 2>> \o TaggedBytes(c.sig_key)
      \o TaggedBytes(c.wrap_key) \o The(c.join) \o LenPrefixed(c.endorsement)

ReadJoined(r) ==
    Into(ReadNext(ReadNext(r, ReadMember), ReadLenPrefixed), LAMBDA v :
            [version |-> v[1], hash_suite |-> v[2], server |-> v[3] % 2 = 1,
             sig_key |-> v[4], wrap_key |-> v[5], join |-> v[6], endorsement |-> v[7]])

JoinedCode == [x \in JoinedSet |-> JoinedBytes(x)]
JoinedTuples == Seven(FlagCode(Majors), FlagCode({0}), FlagCode({2, 3}), KeyCode, KeyCode,
    MemberCode, LenCode)
JoinedOf == [v \in DOMAIN JoinedTuples |->
    [version |-> v[1], hash_suite |-> v[2], server |-> (v[3] % 2 = 1), sig_key |-> v[4],
    wrap_key |-> v[5], join |-> v[6], endorsement |-> v[7]]]

\* The code of an init entry of a peer that joins another.
LEMMA JoinedIs ==
    /\ DOMAIN JoinedCode = JoinedSet /\ \A x \in JoinedSet : JoinedCode[x] = JoinedBytes(x)
    /\ IsCode(JoinedCode) /\ NoneEmpty(JoinedCode)
    /\ Renames(JoinedOf, JoinedTuples, JoinedCode)
<1> DEFINE T == Seven(FlagCode(Majors), FlagCode({0}), FlagCode({2, 3}), KeyCode, KeyCode,
               MemberCode, LenCode)
<1>c. IsCode(FlagCode(Majors)) /\ IsCode(FlagCode({0})) /\ IsCode(FlagCode({2, 3}))
          /\ IsCode(KeyCode) /\ IsCode(MemberCode) /\ IsCode(LenCode)
  BY JoinCodesAre, KeyIs, LenCodeIs, TagCodes
<1>t1. IsCode(One(FlagCode(Majors)))
  BY <1>c, OneIs
<1>t2. IsCode(Two(FlagCode(Majors), FlagCode({0})))
           /\ Appends(One(FlagCode(Majors)), FlagCode({0}), Two(FlagCode(Majors), FlagCode({0})))
  BY <1>c, <1>t1, TwoIs
<1>t3. IsCode(Three(FlagCode(Majors), FlagCode({0}), FlagCode({2, 3})))
           /\ Appends(Two(FlagCode(Majors), FlagCode({0})), FlagCode({2, 3}),
           Three(FlagCode(Majors), FlagCode({0}), FlagCode({2, 3})))
  BY <1>c, <1>t2, ThreeIs
<1>t4. IsCode(Four(FlagCode(Majors), FlagCode({0}), FlagCode({2, 3}), KeyCode))
           /\ Appends(Three(FlagCode(Majors), FlagCode({0}), FlagCode({2, 3})), KeyCode,
           Four(FlagCode(Majors), FlagCode({0}), FlagCode({2, 3}), KeyCode))
  BY <1>c, <1>t3, FourIs
<1>t5. IsCode(Five(FlagCode(Majors), FlagCode({0}), FlagCode({2, 3}), KeyCode, KeyCode))
           /\ Appends(Four(FlagCode(Majors), FlagCode({0}), FlagCode({2, 3}), KeyCode),
           KeyCode, Five(FlagCode(Majors), FlagCode({0}), FlagCode({2, 3}), KeyCode, KeyCode))
  BY <1>c, <1>t4, FiveIs
<1>t6. IsCode(Six(FlagCode(Majors), FlagCode({0}), FlagCode({2, 3}), KeyCode, KeyCode,
           MemberCode)) /\ Appends(Five(FlagCode(Majors), FlagCode({0}), FlagCode({2, 3}),
           KeyCode, KeyCode), MemberCode,
           Six(FlagCode(Majors), FlagCode({0}), FlagCode({2, 3}), KeyCode, KeyCode, MemberCode))
  BY <1>c, <1>t5, SixIs
<1>t7. IsCode(Seven(FlagCode(Majors), FlagCode({0}), FlagCode({2, 3}), KeyCode, KeyCode,
           MemberCode, LenCode))
           /\ Appends(Six(FlagCode(Majors), FlagCode({0}), FlagCode({2, 3}), KeyCode, KeyCode,
           MemberCode), LenCode,
           Seven(FlagCode(Majors), FlagCode({0}), FlagCode({2, 3}), KeyCode, KeyCode,
           MemberCode, LenCode))
  BY <1>c, <1>t6, SevenIs
<1>n1. NoneEmpty(One(FlagCode(Majors)))
  <2>1. NoneEmpty(FlagCode(Majors))
    BY JoinCodesAre
  <2> QED
    BY <2>1, OneNoneEmpty
<1>n2. NoneEmpty(Two(FlagCode(Majors), FlagCode({0})))
  BY <1>c, <1>t1, <1>t2, <1>n1, AppendsNoneEmpty
<1>n3. NoneEmpty(Three(FlagCode(Majors), FlagCode({0}), FlagCode({2, 3})))
  BY <1>c, <1>t2, <1>t3, <1>n2, AppendsNoneEmpty
<1>n4. NoneEmpty(Four(FlagCode(Majors), FlagCode({0}), FlagCode({2, 3}), KeyCode))
  BY <1>c, <1>t3, <1>t4, <1>n3, AppendsNoneEmpty
<1>n5. NoneEmpty(Five(FlagCode(Majors), FlagCode({0}), FlagCode({2, 3}), KeyCode, KeyCode))
  BY <1>c, <1>t4, <1>t5, <1>n4, AppendsNoneEmpty
<1>n6. NoneEmpty(Six(FlagCode(Majors), FlagCode({0}), FlagCode({2, 3}), KeyCode, KeyCode, MemberCode))
  BY <1>c, <1>t5, <1>t6, <1>n5, AppendsNoneEmpty
<1>n7. NoneEmpty(Seven(FlagCode(Majors), FlagCode({0}), FlagCode({2, 3}), KeyCode, KeyCode,
           MemberCode, LenCode))
  BY <1>c, <1>t6, <1>t7, <1>n6, AppendsNoneEmpty
<1>d1. DOMAIN FlagCode(Majors) = Majors /\ \A y \in Majors : FlagCode(Majors)[y] = <<y>>
  BY FlagCodeIs
<1>d2. DOMAIN FlagCode({0}) = {0} /\ \A y \in {0} : FlagCode({0})[y] = <<y>>
  BY FlagCodeIs
<1>d3. DOMAIN FlagCode({2, 3}) = {2, 3} /\ \A y \in {2, 3} : FlagCode({2, 3})[y] = <<y>>
  BY FlagCodeIs
<1>d4. DOMAIN KeyCode = Key /\ \A y \in Key : KeyCode[y] = TaggedBytes(y)
  BY KeyIs
<1>d5. DOMAIN KeyCode = Key /\ \A y \in Key : KeyCode[y] = TaggedBytes(y)
  BY KeyIs
<1>d6. DOMAIN MemberCode = Members /\ \A y \in Members : MemberCode[y] = The(y)
  BY JoinCodesAre
<1>d7. DOMAIN LenCode = ByteString /\ \A y \in ByteString : LenCode[y] = LenPrefixed(y)
  BY CodesAre
<1>1. /\ \A a \in Majors, b \in {0}, c \in {2, 3}, d \in Key, e \in Key, f \in Members,
             g \in ByteString :
            <<a, b, c, d, e, f, g>> \in DOMAIN T
      /\ \A a \in Majors, b \in {0}, c \in {2, 3}, d \in Key, e \in Key, f \in Members,
             g \in ByteString :
            T[<<a, b, c, d, e, f, g>>]
                = Cat(Cat(Cat(Cat(Cat(Cat(<<a>>, <<b>>), <<c>>), TaggedBytes(d)),
                TaggedBytes(e)), The(f)), LenPrefixed(g))
      /\ \A v \in DOMAIN T : \E a \in Majors, b \in {0}, c \in {2, 3}, d \in Key, e \in Key,
             f \in Members, g \in ByteString : v = <<a, b, c, d, e, f, g>>
  <2> DEFINE B(a, b, c, d, e, f,
                 g) == Cat(Cat(Cat(Cat(Cat(Cat(<<a>>, <<b>>), <<c>>), TaggedBytes(d)),
                 TaggedBytes(e)), The(f)), LenPrefixed(g))
             tuple(a, b, c, d, e, f, g) == <<a, b, c, d, e, f, g>>
  <2>1. ASSUME NEW a \in Majors, NEW b \in {0}, NEW c \in {2, 3}, NEW d \in Key, NEW e \in Key,
                   NEW f \in Members, NEW g \in ByteString
        PROVE  tuple(a, b, c, d, e, f, g) \in DOMAIN T
                   /\ T[tuple(a, b, c, d, e, f, g)] = B(a, b, c, d, e, f, g)
    <3>1. /\ a \in DOMAIN FlagCode(Majors) /\ b \in DOMAIN FlagCode({0})
                 /\ c \in DOMAIN FlagCode({2, 3})
          /\ d \in DOMAIN KeyCode /\ e \in DOMAIN KeyCode /\ f \in DOMAIN MemberCode
                 /\ g \in DOMAIN LenCode
      BY <1>d1, <1>d2, <1>d3, <1>d4, <1>d5, <1>d6, <1>d7
    <3>2. <<a, b, c, d, e, f, g>> \in DOMAIN T
      BY <3>1, SevenTuples
    <3>3. T[<<a, b, c, d, e, f, g>>] =
            Cat(Cat(Cat(Cat(Cat(Cat(FlagCode(Majors)[a], FlagCode({0})[b]),
                FlagCode({2, 3})[c]), KeyCode[d]), KeyCode[e]), MemberCode[f]), LenCode[g])
      BY <3>1, SevenTuples
    <3> HIDE DEF T
    <3> QED
      BY <3>2, <3>3, <1>d1, <1>d2, <1>d3, <1>d4, <1>d5, <1>d6, <1>d7
  <2>2. ASSUME NEW v \in DOMAIN T
        PROVE  \E a \in Majors, b \in {0}, c \in {2, 3}, d \in Key, e \in Key, f \in Members,
                   g \in ByteString : v = <<a, b, c, d, e, f, g>>
    <3>1. PICK a \in DOMAIN FlagCode(Majors), b \in DOMAIN FlagCode({0}), c \in DOMAIN FlagCode({2, 3}),
               d \in DOMAIN KeyCode, e \in DOMAIN KeyCode, f \in DOMAIN MemberCode,
                   g \in DOMAIN LenCode :
                  v = <<a, b, c, d, e, f, g>>
      BY SevenTuples
    <3> HIDE DEF T
    <3> QED
      BY <3>1, <1>d1, <1>d2, <1>d3, <1>d4, <1>d5, <1>d6, <1>d7
  <2> HIDE DEF T
  <2>3. /\ \A a \in Majors, b \in {0}, c \in {2, 3}, d \in Key, e \in Key, f \in Members,
               g \in ByteString : tuple(a, b, c, d, e, f, g) \in DOMAIN T
        /\ \A a \in Majors, b \in {0}, c \in {2, 3}, d \in Key, e \in Key, f \in Members,
               g \in ByteString : T[tuple(a, b, c, d, e, f, g)] = B(a, b, c, d, e, f, g)
    <3> HIDE DEF B, tuple
    <3> QED
      BY <2>1
  <2>4. \A v \in DOMAIN T : \E a \in Majors, b \in {0}, c \in {2, 3}, d \in Key, e \in Key,
            f \in Members, g \in ByteString : v = <<a, b, c, d, e, f, g>>
    BY <2>2
  <2> QED
    BY <2>3, <2>4
<1>2. DOMAIN JoinedCode = JoinedSet /\ \A x \in JoinedSet : JoinedCode[x] = JoinedBytes(x)
  BY DEF JoinedCode
<1>3. DOMAIN JoinedOf = DOMAIN T
          /\ \A v \in DOMAIN T : JoinedOf[v]
          = [version |-> v[1], hash_suite |-> v[2], server |-> (v[3] % 2 = 1),
          sig_key |-> v[4], wrap_key |-> v[5], join |-> v[6], endorsement |-> v[7]]
  BY DEF JoinedOf, JoinedTuples
<1> HIDE DEF T
<1>4. Renames(JoinedOf, T, JoinedCode)
  <2>1. ASSUME NEW a \in Majors, NEW b \in {0}, NEW c \in {2, 3}, NEW d \in Key, NEW e \in Key,
                   NEW f \in Members, NEW g \in ByteString
        PROVE  JoinedOf[<<a, b, c, d, e, f, g>>] \in JoinedSet
                   /\ JoinedCode[JoinedOf[<<a, b, c, d, e, f, g>>]] = T[<<a, b, c, d, e, f, g>>]
    <3>1. PICK x : x = [version |-> a, hash_suite |-> b, server |-> (c % 2 = 1), sig_key |-> d,
                   wrap_key |-> e, join |-> f, endorsement |-> g]
      OBVIOUS
    <3>2. JoinedOf[<<a, b, c, d, e, f, g>>] = x
      <4>1. <<a, b, c, d, e, f, g>> \in DOMAIN T
        BY <1>1
      <4>2. JoinedOf[<<a, b, c, d, e, f, g>>]
                = [version |-> a, hash_suite |-> b, server |-> (c % 2 = 1), sig_key |-> d,
                wrap_key |-> e, join |-> f, endorsement |-> g]
        BY <1>3, <4>1
      <4> QED
        BY <3>1, <4>2
    <3>3. x \in JoinedSet
      BY <3>1 DEF JoinedSet
    <3>4. JoinedBytes(x) = Cat(Cat(Cat(Cat(Cat(Cat(<<a>>, <<b>>), <<c>>), TaggedBytes(d)),
              TaggedBytes(e)), The(f)), LenPrefixed(g))
      <4>0. x.server <=> c % 2 = 1
        BY <3>1
      <4>3. (IF x.server THEN 3 ELSE 2) = c
        BY <4>0
      <4>4. /\ x.version = a /\ 0 = b /\ x.sig_key = d
            /\ x.wrap_key = e /\ x.join = f /\ x.endorsement = g
        BY <3>1
      <4>1.  x.version = a /\ 0 = b /\ (IF x.server THEN 3 ELSE 2) = c
            /\ x.sig_key = d /\ x.wrap_key = e /\ x.join = f /\ x.endorsement = g
        BY <4>3, <4>4
      <4>2. JoinedBytes(x) = Cat(Cat(Cat(Cat(Cat(Cat(<<x.version>>, <<0>>), <<(IF x.server
                THEN 3 ELSE 2)>>), TaggedBytes(x.sig_key)), TaggedBytes(x.wrap_key)),
                The(x.join)), LenPrefixed(x.endorsement))
        BY DEF JoinedBytes, Cat
      <4> QED
        BY <4>1, <4>2
    <3>5. T[<<a, b, c, d, e, f, g>>]
              = Cat(Cat(Cat(Cat(Cat(Cat(<<a>>, <<b>>), <<c>>), TaggedBytes(d)),
              TaggedBytes(e)), The(f)), LenPrefixed(g))
      BY <1>1
    <3> QED
      BY <1>2, <3>2, <3>3, <3>4, <3>5
  <2>2. ASSUME NEW x \in JoinedSet PROVE \E v \in DOMAIN T : JoinedOf[v] = x
    <3>1. x.version \in Majors /\ 0 \in {0} /\ (IF x.server THEN 3
              ELSE 2) \in {2, 3} /\ x.sig_key \in Key /\ x.wrap_key \in Key
              /\ x.join \in Members /\ x.endorsement \in ByteString
      BY DEF JoinedSet
    <3>2. x = [version |-> x.version, hash_suite |-> x.hash_suite, server |-> x.server,
              sig_key |-> x.sig_key, wrap_key |-> x.wrap_key, join |-> x.join,
              endorsement |-> x.endorsement]
      BY DEF JoinedSet
    <3>3. PICK v : v = <<x.version, 0, (IF x.server THEN 3
                   ELSE 2), x.sig_key, x.wrap_key, x.join, x.endorsement>>
      OBVIOUS
    <3>4. v \in DOMAIN T
      BY <1>1, <3>1, <3>3
    <3>5. JoinedOf[v] = [version |-> v[1], hash_suite |-> v[2], server |-> (v[3] % 2 = 1),
              sig_key |-> v[4], wrap_key |-> v[5], join |-> v[6], endorsement |-> v[7]]
      BY <1>3, <3>4
    <3>6. v[1] = x.version /\ v[2] = x.hash_suite /\ (v[3] % 2 = 1) = x.server
              /\ v[4] = x.sig_key /\ v[5] = x.wrap_key /\ v[6] = x.join /\ v[7] = x.endorsement
      BY <3>3 DEF JoinedSet
    <3> QED
      BY <3>2, <3>4, <3>5, <3>6
  <2>3. ASSUME NEW v \in DOMAIN T PROVE JoinedOf[v] \in JoinedSet /\ JoinedCode[JoinedOf[v]] = T[v]
    <3>1. PICK a \in Majors, b \in {0}, c \in {2, 3}, d \in Key, e \in Key, f \in Members,
                   g \in ByteString : v = <<a, b, c, d, e, f, g>>
      BY <1>1
    <3> QED
      BY <2>1, <3>1
  <2> QED
    BY <1>2, <2>2, <2>3 DEF Renames
<1>5. IsCode(JoinedCode) /\ NoneEmpty(JoinedCode)
  BY <1>4, <1>t7, <1>n7, RenamesCode DEF T
<1> QED
  BY <1>2, <1>4, <1>5 DEF T, JoinedTuples

\* The reader of an init entry of a peer that joins another.
LEMMA JoinedParsed ==
    ASSUME NEW r, NEW s, Parsed(r,
               Five(FlagCode(Majors), FlagCode({0}), FlagCode({2, 3}), KeyCode, KeyCode), s)
    PROVE  Parsed(ReadJoined(r), JoinedCode, s)
<1>c. IsCode(FlagCode(Majors)) /\ IsCode(FlagCode({0})) /\ IsCode(FlagCode({2, 3}))
          /\ IsCode(KeyCode) /\ IsCode(MemberCode) /\ IsCode(LenCode)
  BY JoinCodesAre, KeyIs, LenCodeIs, TagCodes
<1>t1. IsCode(One(FlagCode(Majors)))
  BY <1>c, OneIs
<1>t2. IsCode(Two(FlagCode(Majors), FlagCode({0})))
           /\ Appends(One(FlagCode(Majors)), FlagCode({0}), Two(FlagCode(Majors), FlagCode({0})))
  BY <1>c, <1>t1, TwoIs
<1>t3. IsCode(Three(FlagCode(Majors), FlagCode({0}), FlagCode({2, 3})))
           /\ Appends(Two(FlagCode(Majors), FlagCode({0})), FlagCode({2, 3}),
           Three(FlagCode(Majors), FlagCode({0}), FlagCode({2, 3})))
  BY <1>c, <1>t2, ThreeIs
<1>t4. IsCode(Four(FlagCode(Majors), FlagCode({0}), FlagCode({2, 3}), KeyCode))
           /\ Appends(Three(FlagCode(Majors), FlagCode({0}), FlagCode({2, 3})), KeyCode,
           Four(FlagCode(Majors), FlagCode({0}), FlagCode({2, 3}), KeyCode))
  BY <1>c, <1>t3, FourIs
<1>t5. IsCode(Five(FlagCode(Majors), FlagCode({0}), FlagCode({2, 3}), KeyCode, KeyCode))
           /\ Appends(Four(FlagCode(Majors), FlagCode({0}), FlagCode({2, 3}), KeyCode),
           KeyCode, Five(FlagCode(Majors), FlagCode({0}), FlagCode({2, 3}), KeyCode, KeyCode))
  BY <1>c, <1>t4, FiveIs
<1>t6. IsCode(Six(FlagCode(Majors), FlagCode({0}), FlagCode({2, 3}), KeyCode, KeyCode,
           MemberCode)) /\ Appends(Five(FlagCode(Majors), FlagCode({0}), FlagCode({2, 3}),
           KeyCode, KeyCode), MemberCode,
           Six(FlagCode(Majors), FlagCode({0}), FlagCode({2, 3}), KeyCode, KeyCode, MemberCode))
  BY <1>c, <1>t5, SixIs
<1>t7. IsCode(Seven(FlagCode(Majors), FlagCode({0}), FlagCode({2, 3}), KeyCode, KeyCode,
           MemberCode, LenCode))
           /\ Appends(Six(FlagCode(Majors), FlagCode({0}), FlagCode({2, 3}), KeyCode, KeyCode,
           MemberCode), LenCode,
           Seven(FlagCode(Majors), FlagCode({0}), FlagCode({2, 3}), KeyCode, KeyCode,
           MemberCode, LenCode))
  BY <1>c, <1>t6, SevenIs
<1>r5. Parsed(r, Five(FlagCode(Majors), FlagCode({0}), FlagCode({2, 3}), KeyCode, KeyCode), s)
  OBVIOUS
<1>p6. PICK n6, o6 : n6 = ReadMember(r) /\ o6 = Behind(r, n6)
  OBVIOUS
<1>q6. r.ok => Parsed(n6, MemberCode, r.rest)
  <2>1. r.ok => r.rest \in Str
    BY <1>r5, ParsedIs
  <2> QED
    BY <1>p6, <2>1, ReadMemberParsed
<1>r6. Parsed(o6, Six(FlagCode(Majors), FlagCode({0}), FlagCode({2, 3}), KeyCode, KeyCode,
           MemberCode), s)
  BY <1>c, <1>t5, <1>t6, <1>p6, <1>q6, <1>r5, BehindParsed
<1>p7. PICK n7, o7 : n7 = ReadLenPrefixed(o6) /\ o7 = Behind(o6, n7)
  OBVIOUS
<1>q7. o6.ok => Parsed(n7, LenCode, o6.rest)
  <2>1. o6.ok => o6.rest \in Str
    BY <1>r6, ParsedIs
  <2> QED
    BY <1>p7, <2>1, ReadLenPrefixedParsed
<1>r7. Parsed(o7, Seven(FlagCode(Majors), FlagCode({0}), FlagCode({2, 3}), KeyCode, KeyCode,
           MemberCode, LenCode), s)
  BY <1>c, <1>t6, <1>t7, <1>p7, <1>q7, <1>r6, BehindParsed
<1>1. ReadJoined(r) = IF o7.ok
          THEN Good([version |-> o7.val[1], hash_suite |-> o7.val[2],
          server |-> (o7.val[3] % 2 = 1), sig_key |-> o7.val[4], wrap_key |-> o7.val[5],
          join |-> o7.val[6], endorsement |-> o7.val[7]], o7.rest) ELSE Failed
  BY <1>p6, <1>p7 DEF ReadJoined, ReadNext, ReadFirst, Into
<1>2. o7.ok => JoinedOf[o7.val]
          = [version |-> o7.val[1], hash_suite |-> o7.val[2], server |-> (o7.val[3] % 2 = 1),
          sig_key |-> o7.val[4], wrap_key |-> o7.val[5], join |-> o7.val[6], endorsement |-> o7.val[7]]
  <2>1. o7.ok => o7.val \in DOMAIN JoinedTuples
    BY <1>r7, ParsedIs DEF JoinedTuples
  <2> QED
    BY <2>1 DEF JoinedOf
<1>3. /\ ~o7.ok => ReadJoined(r) = Failed
      /\ o7.ok => ReadJoined(r) = Good(JoinedOf[o7.val], o7.rest)
  BY <1>1, <1>2
<1>4. Renames(JoinedOf, Seven(FlagCode(Majors), FlagCode({0}), FlagCode({2, 3}), KeyCode,
          KeyCode, MemberCode, LenCode), JoinedCode)
  BY JoinedIs DEF JoinedTuples
<1> QED
  BY <1>3, <1>4, <1>r7, IntoParsed

\* Three bytes are one, and one, and one.
LEMMA ThreeBytes ==
    \A a, b, c : <<a, b, c>> = Cat(Cat(<<a>>, <<b>>), <<c>>)
<1>1. ASSUME NEW a, NEW b, NEW c PROVE <<a, b, c>> = (<<a>> \o <<b>>) \o <<c>>
  <2>1. PICK S : S = {a, b, c}
    OBVIOUS
  <2>2. a \in S /\ b \in S /\ c \in S /\ <<a>> \in Seq(S) /\ <<a, b>> \in Seq(S)
    BY <2>1
  <2>3. Append(<<a>>, b) = <<a>> \o <<b>>
    BY <2>2, AppendIsConcat
  <2>4. Append(<<a, b>>, c) = <<a, b>> \o <<c>>
    BY <2>2, AppendIsConcat
  <2> QED
    BY <2>3, <2>4, AppendTwo, AppendThree
<1> QED
  BY <1>1 DEF Cat

\* Of a version that can be read.
KnownCommitment == {c \in InitCommitment : c.version \in Majors}
CommitmentCode == [x \in KnownCommitment |-> CommitmentBytes(x)]

\* The code of InitCommitment.
LEMMA CommitmentIs ==
    /\ DOMAIN CommitmentCode = KnownCommitment
    /\ \A x \in KnownCommitment : CommitmentCode[x] = CommitmentBytes(x)
    /\ Either(AloneCode, JoinedCode, CommitmentCode)
    /\ IsCode(CommitmentCode)
<1>1. /\ DOMAIN CommitmentCode = KnownCommitment
      /\ \A x \in KnownCommitment : CommitmentCode[x] = CommitmentBytes(x)
  BY DEF CommitmentCode
<1>2. /\ DOMAIN AloneCode = AloneSet /\ \A x \in AloneSet : AloneCode[x] = AloneBytes(x)
      /\ DOMAIN JoinedCode = JoinedSet /\ \A x \in JoinedSet : JoinedCode[x] = JoinedBytes(x)
      /\ IsCode(AloneCode) /\ IsCode(JoinedCode)
  BY AloneIs, JoinedIs
<1>3. ASSUME NEW x PROVE x \in KnownCommitment <=> x \in AloneSet \/ x \in JoinedSet
  <2>1. /\ <<>> \in Option(Array)
        /\ Majors \subseteq Bytes
    BY OptionsAre DEF Majors
  <2>2. x \in AloneSet => x \in KnownCommitment
    BY <2>1 DEF AloneSet, KnownCommitment, InitCommitment
  <2>3. x \in JoinedSet => x \in KnownCommitment
    BY <2>1 DEF JoinedSet, KnownCommitment, InitCommitment, Members
  <2>4. x \in KnownCommitment /\ x.join = <<>> => x \in AloneSet
    BY DEF AloneSet, KnownCommitment, InitCommitment
  <2>5. x \in KnownCommitment /\ x.join # <<>> => x \in JoinedSet
    BY DEF JoinedSet, KnownCommitment, InitCommitment, Members
  <2> QED
    BY <2>2, <2>3, <2>4, <2>5
<1>4. ASSUME NEW x \in AloneSet PROVE CommitmentBytes(x) = AloneBytes(x)
  <2>1. x.hash_suite = 0 /\ x.join = <<>> /\ x.server \in BOOLEAN
    BY DEF AloneSet
  <2>2. (IF x.server THEN 1 ELSE 0) + (IF x.join = <<>> THEN 0 ELSE 2) = IF x.server THEN 1 ELSE 0
    BY <2>1
  <2>3. PICK f : f = IF x.server THEN 1 ELSE 0
    OBVIOUS
  <2>4. <<x.version, x.hash_suite, f>> = Cat(Cat(<<x.version>>, <<0>>), <<f>>)
    BY <2>1, ThreeBytes
  <2>5. All(x.join, LAMBDA p : p) = <<>>
    BY <2>1, AllOfOption
  <2>6. CommitmentBytes(x) =
          Cat(Cat(Cat(Cat(<<x.version, x.hash_suite, f>>, TaggedBytes(x.sig_key)),
              TaggedBytes(x.wrap_key)), <<>>),
              LenPrefixed(x.endorsement))
    BY <2>2, <2>3, <2>5 DEF CommitmentBytes, Cat
  <2>7. AloneBytes(x) =
          Cat(Cat(Cat(Cat(Cat(Cat(<<x.version>>, <<0>>), <<f>>), TaggedBytes(x.sig_key)),
              TaggedBytes(x.wrap_key)), <<>>),
              LenPrefixed(x.endorsement))
    BY <2>1, <2>3 DEF AloneBytes, Cat
  <2> QED
    BY <2>4, <2>6, <2>7
<1>5. ASSUME NEW x \in JoinedSet PROVE CommitmentBytes(x) = JoinedBytes(x)
  <2>1. x.hash_suite = 0 /\ x.join \in Members /\ x.server \in BOOLEAN
    BY DEF JoinedSet
  <2>2. PICK a \in Array : x.join = <<a>>
    BY <2>1, OptionsAre DEF Members
  <2>3. PICK f : f = IF x.server THEN 3 ELSE 2
    OBVIOUS
  <2>8. x.join # <<>>
    BY <2>2
  <2>9. (IF x.server THEN 1 ELSE 0) + (IF x.join = <<>> THEN 0 ELSE 2) = f
    BY <2>1, <2>3, <2>8
  <2>4. <<x.version, x.hash_suite, f>> = Cat(Cat(<<x.version>>, <<0>>), <<f>>)
    BY <2>1, ThreeBytes
  <2>5. All(x.join, LAMBDA p : p) = a /\ The(x.join) = a
    <3>1. a \in Str
      BY DEF Array
    <3> QED
      BY <2>2, <3>1, AllOfOption DEF The
  <2>6. CommitmentBytes(x) =
          Cat(Cat(Cat(Cat(<<x.version, x.hash_suite, f>>, TaggedBytes(x.sig_key)),
              TaggedBytes(x.wrap_key)), a),
              LenPrefixed(x.endorsement))
    BY <2>9, <2>5 DEF CommitmentBytes, Cat
  <2>7. JoinedBytes(x) =
          Cat(Cat(Cat(Cat(Cat(Cat(<<x.version>>, <<0>>), <<f>>), TaggedBytes(x.sig_key)),
              TaggedBytes(x.wrap_key)), a),
              LenPrefixed(x.endorsement))
    BY <2>5, <2>3 DEF JoinedBytes, Cat
  <2> QED
    BY <2>4, <2>6, <2>7
<1>6. Either(AloneCode, JoinedCode, CommitmentCode)
  <2>1. \A x \in AloneSet : CommitmentCode[x] = AloneCode[x]
    BY <1>1, <1>2, <1>3, <1>4
  <2>2. \A x \in JoinedSet : CommitmentCode[x] = JoinedCode[x]
    BY <1>1, <1>2, <1>3, <1>5
  <2> QED
    BY <1>1, <1>2, <1>3, <2>1, <2>2 DEF Either
<1>7. IsCode(CommitmentCode)
  BY <1>2, <1>6 DEF Either, IsCode
<1> QED
  BY <1>1, <1>6, <1>7

\* The tuples of five with the third value restricted.
LEMMA FifthParsed ==
    ASSUME NEW o, NEW s, NEW A, NEW B, NEW allowed, NEW D, NEW E,
           Parsed(o, Five(A, B, FlagCode(allowed), D, E), s),
           NEW some \in SUBSET allowed,
           NEW p, ~o.ok => p = Failed, o.ok => p = IF o.val[3] \in some THEN o ELSE Failed
    PROVE  Parsed(p, Five(A, B, FlagCode(some), D, E), s)
<1>1. /\ DOMAIN FlagCode(allowed) = allowed /\ DOMAIN FlagCode(some) = some
      /\ \A b \in some : FlagCode(some)[b] = FlagCode(allowed)[b]
  BY FlagCodeIs
<1>2. PICK F, G : F = FlagCode(allowed) /\ G = FlagCode(some)
  OBVIOUS
<1>f. PICK TF, TG : TF = Five(A, B, F, D, E) /\ TG = Five(A, B, G, D, E)
  OBVIOUS
<1>3. /\ \A v \in DOMAIN TF :
            \E a \in DOMAIN A, b \in DOMAIN B, c \in DOMAIN F, d \in DOMAIN D, e \in DOMAIN E :
                v = <<a, b, c, d, e>>
      /\ \A a \in DOMAIN A, b \in DOMAIN B, c \in DOMAIN F, d \in DOMAIN D, e \in DOMAIN E :
            /\ <<a, b, c, d, e>> \in DOMAIN TF
            /\ TF[<<a, b, c, d, e>>] = Cat(Cat(Cat(Cat(A[a], B[b]), F[c]), D[d]), E[e])
  BY <1>f, FiveTuples
<1>g. /\ \A v \in DOMAIN TG :
            \E a \in DOMAIN A, b \in DOMAIN B, c \in DOMAIN G, d \in DOMAIN D, e \in DOMAIN E :
                v = <<a, b, c, d, e>>
      /\ \A a \in DOMAIN A, b \in DOMAIN B, c \in DOMAIN G, d \in DOMAIN D, e \in DOMAIN E :
            /\ <<a, b, c, d, e>> \in DOMAIN TG
            /\ TG[<<a, b, c, d, e>>] = Cat(Cat(Cat(Cat(A[a], B[b]), G[c]), D[d]), E[e])
  BY <1>f, FiveTuples
<1>4. ASSUME NEW v \in DOMAIN TG
      PROVE  v \in DOMAIN TF /\ TG[v] = TF[v]
  <2>1. PICK a \in DOMAIN A, b \in DOMAIN B, c \in DOMAIN G, d \in DOMAIN D, e \in DOMAIN E :
               v = <<a, b, c, d, e>>
    BY <1>g
  <2>2. c \in DOMAIN F /\ F[c] = G[c]
    BY <1>1, <1>2
  <2>3. TG[v] = Cat(Cat(Cat(Cat(A[a], B[b]), G[c]), D[d]), E[e])
    BY <1>g, <2>1
  <2>4. v \in DOMAIN TF /\ TF[v] = Cat(Cat(Cat(Cat(A[a], B[b]), F[c]), D[d]), E[e])
    BY <1>3, <2>1, <2>2
  <2> QED
    BY <2>2, <2>3, <2>4
<1>5. ASSUME NEW v \in DOMAIN TF PROVE v \in DOMAIN TG <=> v[3] \in some
  <2>1. PICK a \in DOMAIN A, b \in DOMAIN B, c \in DOMAIN F, d \in DOMAIN D, e \in DOMAIN E :
               v = <<a, b, c, d, e>>
    BY <1>3
  <2>2. v[3] = c
    BY <2>1
  <2>3. c \in some => v \in DOMAIN TG
    BY <1>1, <1>2, <1>g, <2>1
  <2>4. ASSUME v \in DOMAIN TG PROVE c \in some
    <3>1. PICK a1 \in DOMAIN A, b1 \in DOMAIN B, c1 \in DOMAIN G, d1 \in DOMAIN D, e1 \in DOMAIN E :
                 v = <<a1, b1, c1, d1, e1>>
      BY <1>g, <2>4
    <3>2. c = c1
      BY <2>1, <3>1
    <3> QED
      BY <1>1, <1>2, <3>2
  <2> QED
    BY <2>2, <2>3, <2>4
<1>6. o.ok => o.val \in DOMAIN TF
  BY <1>2, <1>f, ParsedIs
<1>7. o.ok => p = IF o.val \in DOMAIN TG THEN o ELSE Failed
  BY <1>5, <1>6
<1>8. Parsed(p, TG, s)
  <2>1. /\ DOMAIN TG \subseteq DOMAIN TF
        /\ \A v \in DOMAIN TG : TG[v] = TF[v]
    BY <1>4
  <2>2. Parsed(o, TF, s)
    BY <1>2, <1>f
  <2> QED
    BY <1>7, <2>1, <2>2, CheckedParsed
<1> QED
  BY <1>2, <1>f, <1>8

\* The reader starts with all of the bytes.
LEMMA ReaderIs ==
    \A bytes : Reader(bytes).ok /\ Reader(bytes).rest = bytes
  BY GoodIs DEF Reader

\* Versions that differ in the minor number only.
LEMMA MajorParsed ==
    ASSUME NEW o, NEW bytes, Parsed(o, One(ByteCode), bytes),
           NEW m, ~o.ok => m = Failed, o.ok => m = IF o.val[1] % Half = 0 THEN o ELSE Failed
    PROVE  Parsed(m, One(FlagCode(Majors)), bytes)
<1>1. PICK M : M = FlagCode(Majors)
  OBVIOUS
<1>2. /\ DOMAIN ByteCode = Bytes /\ \A b \in Bytes : ByteCode[b] = <<b>>
      /\ DOMAIN M = Majors /\ \A b \in Majors : M[b] = <<b>>
  BY <1>1, CodesAre, FlagCodeIs
<1>3. PICK X, Y : X = One(ByteCode) /\ Y = One(M)
  OBVIOUS
<1>4. /\ \A b \in Bytes : <<b>> \in DOMAIN X /\ X[<<b>>] = <<b>>
      /\ \A v \in DOMAIN X : \E b \in Bytes : v = <<b>>
  BY <1>2, <1>3, OneTuples
<1>5. /\ \A b \in Majors : <<b>> \in DOMAIN Y /\ Y[<<b>>] = <<b>>
      /\ \A v \in DOMAIN Y : \E b \in Majors : v = <<b>>
  BY <1>2, <1>3, OneTuples
<1>6. \A b \in Bytes : b \in Majors <=> b % Half = 0
  BY DEF Majors
<1>7. Majors \subseteq Bytes
  BY DEF Majors
<1>8. DOMAIN Y \subseteq DOMAIN X /\ \A v \in DOMAIN Y : Y[v] = X[v]
  <2>1. ASSUME NEW v \in DOMAIN Y PROVE v \in DOMAIN X /\ Y[v] = X[v]
    <3>1. PICK b \in Majors : v = <<b>>
      BY <1>5
    <3> QED
      BY <1>4, <1>5, <1>7, <3>1
  <2> QED
    BY <2>1
<1>9. ASSUME NEW v \in DOMAIN X PROVE v \in DOMAIN Y <=> v[1] % Half = 0
  <2>1. PICK b \in Bytes : v = <<b>>
    BY <1>4
  <2>2. v[1] = b
    BY <2>1
  <2>3. v \in DOMAIN Y => b \in Majors
    <3>1. ASSUME NEW a \in Majors, v = <<a>> PROVE b \in Majors
      <4>1. a = b
        BY <2>1, <3>1
      <4> QED
        BY <4>1
    <3> QED
      BY <1>5, <3>1
  <2>4. b \in Majors => v \in DOMAIN Y
    BY <1>5, <2>1
  <2> QED
    BY <1>6, <2>2, <2>3, <2>4
<1>10. o.ok => o.val \in DOMAIN X
  BY <1>3, ParsedIs
<1>11. o.ok => m = IF o.val \in DOMAIN Y THEN o ELSE Failed
  BY <1>9, <1>10
<1>12. Parsed(m, Y, bytes)
  <2>1. Parsed(o, X, bytes)
    BY <1>3
  <2> QED
    BY <1>8, <1>11, <2>1, CheckedParsed
<1> QED
  BY <1>1, <1>3, <1>12

\* Up to the keys.
LEMMA FrontParsed ==
    ASSUME NEW bytes \in Str, NEW r, r = Reader(bytes),
           NEW n1, n1 = ReadByte(r), NEW o1, o1 = First(n1),
           NEW m, m = IF o1.ok /\ o1.val[1] % Half = 0 THEN o1 ELSE Failed,
           NEW o2, o2 = Behind(m, ReadZero(m)),
           NEW o3, o3 = Behind(o2, ReadByteIn(o2, 0 .. 3)),
           NEW o4, o4 = Behind(o3, ReadTagged(o3)),
           NEW o5, o5 = Behind(o4, ReadTagged(o4))
    PROVE  Parsed(o5, Five(FlagCode(Majors), FlagCode({0}), FlagCode(0 .. 3), KeyCode, KeyCode), bytes)
<1> DEFINE M == FlagCode(Majors)
           Z == FlagCode({0})
           F == FlagCode(0 .. 3)
<1>c. IsCode(M) /\ IsCode(Z) /\ IsCode(F) /\ IsCode(KeyCode) /\ IsCode(ByteCode)
  BY JoinCodesAre, KeyIs, TagCodes, CodesOfNumbers
<1>0. r.ok /\ r.rest \in Str /\ r.rest = bytes
  BY ReaderIs
<1>1. Parsed(o1, One(ByteCode), bytes)
  <2>1. Parsed(n1, ByteCode, bytes)
    BY <1>0, ReadByteParsed
  <2> QED
    BY <2>1, FirstParsed
<1>2. Parsed(m, One(M), bytes)
  <2>1. (~o1.ok => m = Failed) /\ (o1.ok => m = IF o1.val[1] % Half = 0 THEN o1 ELSE Failed)
    OBVIOUS
  <2> QED
    BY <1>1, <2>1, MajorParsed
<1>t1. IsCode(One(M))
  BY <1>c, OneIs
<1>t2. IsCode(Two(M, Z)) /\ Appends(One(M), Z, Two(M, Z))
  BY <1>c, <1>t1, TwoIs
<1>t3. IsCode(Three(M, Z, F)) /\ Appends(Two(M, Z), F, Three(M, Z, F))
  BY <1>c, <1>t2, ThreeIs
<1>t4. IsCode(Four(M, Z, F, KeyCode)) /\ Appends(Three(M, Z, F), KeyCode, Four(M, Z, F, KeyCode))
  BY <1>c, <1>t3, FourIs
<1>t5. Appends(Four(M, Z, F, KeyCode), KeyCode, Five(M, Z, F, KeyCode, KeyCode))
  BY <1>c, <1>t4, FiveIs
<1>3. Parsed(o2, Two(M, Z), bytes)
  <2>1. m.ok => m.rest \in Str
    BY <1>2, ParsedIs
  <2>2. m.ok => Parsed(ReadZero(m), Z, m.rest)
    BY <2>1, ReadZeroParsed
  <2> HIDE DEF M, Z
  <2> QED
    BY <1>2, <1>c, <1>t1, <1>t2, <2>2, BehindParsed
<1>4. Parsed(o3, Three(M, Z, F), bytes)
  <2>1. o2.ok => o2.rest \in Str
    BY <1>3, ParsedIs
  <2>2. o2.ok => Parsed(ReadByteIn(o2, 0 .. 3), F, o2.rest)
    <3>1. 0 .. 3 \in SUBSET Bytes
      BY TagBytes
    <3> QED
      BY <2>1, <3>1, ReadByteInParsed
  <2> HIDE DEF M, Z, F
  <2> QED
    BY <1>3, <1>c, <1>t2, <1>t3, <2>2, BehindParsed
<1>5. Parsed(o4, Four(M, Z, F, KeyCode), bytes)
  <2>1. o3.ok => o3.rest \in Str
    BY <1>4, ParsedIs
  <2>2. o3.ok => Parsed(ReadTagged(o3), KeyCode, o3.rest)
    BY <2>1, KeyParsed
  <2> HIDE DEF M, Z, F
  <2> QED
    BY <1>4, <1>c, <1>t3, <1>t4, <2>2, BehindParsed
<1>6. Parsed(o5, Five(M, Z, F, KeyCode, KeyCode), bytes)
  <2>1. o4.ok => o4.rest \in Str
    BY <1>5, ParsedIs
  <2>2. o4.ok => Parsed(ReadTagged(o4), KeyCode, o4.rest)
    BY <2>1, KeyParsed
  <2> HIDE DEF M, Z, F
  <2> QED
    BY ZenonT(60), <1>5, <1>c, <1>t4, <1>t5, <2>2, BehindParsed
<1> QED
  BY <1>6

\* A commitment, whatever is behind it: from the endorsement on, and from the keys on.
FromValues(v) ==
    [version |-> v[1], hash_suite |-> v[2], server |-> v[3] % 2 = 1,
     sig_key |-> v[4], wrap_key |-> v[5], join |-> v[6], endorsement |-> v[7]]
ReadEnd(r) == ReadNext(ReadNext(r, ReadJoin), ReadLenPrefixed)

\* Which of the two forms is read depends on the third byte.
LEMMA JoinsAre ==
    ASSUME NEW r
    PROVE  /\ r.ok /\ r.val[3] \in {0, 1} => Into(ReadEnd(r), FromValues) = ReadAlone(r)
           /\ r.ok /\ r.val[3] \in {2, 3} => Into(ReadEnd(r), FromValues) = ReadJoined(r)
<1>1. ASSUME r.ok, r.val[3] \in {0, 1} PROVE Into(ReadEnd(r), FromValues) = ReadAlone(r)
  <2>1. r.val[3] \div 2 # 1
    BY <1>1
  <2>2. ReadJoin(r) = ReadNoJoin(r)
    BY <2>1 DEF ReadJoin, ReadNoJoin
  <2>3. ReadEnd(r) = ReadNext(ReadNext(r, ReadNoJoin), ReadLenPrefixed)
    BY <2>2 DEF ReadEnd, ReadNext
  <2> QED
    BY <2>3 DEF ReadAlone, Into, FromValues
<1>2. ASSUME r.ok, r.val[3] \in {2, 3} PROVE Into(ReadEnd(r), FromValues) = ReadJoined(r)
  <2>1. r.val[3] \div 2 = 1
    BY <1>2
  <2>2. ReadJoin(r) = ReadMember(r)
    BY <1>2, <2>1 DEF ReadJoin, ReadMember
  <2>3. ReadEnd(r) = ReadNext(ReadNext(r, ReadMember), ReadLenPrefixed)
    BY <2>2 DEF ReadEnd, ReadNext
  <2> QED
    BY <2>3 DEF ReadJoined, Into, FromValues
<1> QED
  BY <1>1, <1>2

\* When reading failed, the rest of the init entry fails too.
LEMMA EndFails ==
    /\ Into(ReadEnd(Failed), FromValues) = Failed
    /\ ReadAlone(Failed) = Failed /\ ReadJoined(Failed) = Failed
<1>1. ~Failed.ok
  BY GoodIs
<1> QED
  BY <1>1, BehindFailed DEF ReadEnd, ReadAlone, ReadJoined, ReadNext, Into

\* A commitment in front of other bytes.
LEMMA EndParsed ==
    ASSUME NEW bytes \in Str, NEW o,
           Parsed(o, Five(FlagCode(Majors), FlagCode({0}), FlagCode(0 .. 3), KeyCode, KeyCode), bytes)
    PROVE  Parsed(Into(ReadEnd(o), FromValues), CommitmentCode, bytes)
<1>1. PICK al, jo : /\ al = IF o.ok /\ o.val[3] \in {0, 1} THEN o ELSE Failed
                    /\ jo = IF o.ok /\ o.val[3] \in {2, 3} THEN o ELSE Failed
  OBVIOUS
<1>2. Parsed(al, Five(FlagCode(Majors), FlagCode({0}), FlagCode({0, 1}), KeyCode, KeyCode), bytes)
  <2>1. {0, 1} \in SUBSET (0 .. 3)
    OBVIOUS
  <2>2. (~o.ok => al = Failed) /\ (o.ok => al = IF o.val[3] \in {0, 1} THEN o ELSE Failed)
    BY <1>1
  <2> QED
    BY <2>1, <2>2, FifthParsed
<1>3. Parsed(jo, Five(FlagCode(Majors), FlagCode({0}), FlagCode({2, 3}), KeyCode, KeyCode), bytes)
  <2>1. {2, 3} \in SUBSET (0 .. 3)
    OBVIOUS
  <2>2. (~o.ok => jo = Failed) /\ (o.ok => jo = IF o.val[3] \in {2, 3} THEN o ELSE Failed)
    BY <1>1
  <2> QED
    BY <2>1, <2>2, FifthParsed
<1>4. Parsed(ReadAlone(al), AloneCode, bytes) /\ Parsed(ReadJoined(jo), JoinedCode, bytes)
  BY <1>2, <1>3, AloneParsed, JoinedParsed
<1>5. o.ok => o.val[3] \in 0 .. 3
  <2>1. PICK F, T : F = FlagCode(0 .. 3)
                 /\ T = Five(FlagCode(Majors), FlagCode({0}), F, KeyCode, KeyCode)
    OBVIOUS
  <2>2. o.ok => o.val \in DOMAIN T
    BY <2>1, ParsedIs
  <2>3. DOMAIN F = 0 .. 3
    BY <2>1, FlagCodeIs
  <2>4. ASSUME o.ok PROVE o.val[3] \in 0 .. 3
    <3>1. PICK a \in DOMAIN FlagCode(Majors), b \in DOMAIN FlagCode({0}), c \in DOMAIN F,
               d \in DOMAIN KeyCode, e \in DOMAIN KeyCode : o.val = <<a, b, c, d, e>>
      BY <2>1, <2>2, <2>4, FiveTuples
    <3> QED
      BY <2>3, <3>1
  <2> QED
    BY <2>4
<1>6. ~o.ok => o = Failed
  BY ParsedIs
<1>7. PICK x, y, p : x = ReadAlone(al) /\ y = ReadJoined(jo) /\ p = Into(ReadEnd(o), FromValues)
  OBVIOUS
<1>8. (x.ok => p = x) /\ (~x.ok => p = y) /\ (~x.ok \/ ~y.ok)
  <2>1. ~Failed.ok
    BY GoodIs
  <2>2. CASE o.ok /\ o.val[3] \in {0, 1}
    <3>1. al = o /\ jo = Failed
      BY <1>1, <2>2
    <3>2. p = x
      BY <1>7, <2>2, <3>1, JoinsAre
    <3>3. y = Failed
      BY <1>7, <3>1, EndFails
    <3>4. ~x.ok => x = Failed
      BY <1>4, <1>7, ParsedIs
    <3> QED
      BY <2>1, <3>2, <3>3, <3>4
  <2>3. CASE o.ok /\ o.val[3] \in {2, 3}
    <3>1. al = Failed /\ jo = o
      BY <1>1, <2>3
    <3>2. p = y
      BY <1>7, <2>3, <3>1, JoinsAre
    <3>3. x = Failed
      BY <1>7, <3>1, EndFails
    <3> QED
      BY <2>1, <3>2, <3>3
  <2>4. CASE ~o.ok
    <3>1. al = Failed /\ jo = Failed /\ o = Failed
      BY <1>1, <1>6, <2>4
    <3>2. x = Failed /\ y = Failed /\ p = Failed
      BY <1>7, <3>1, EndFails
    <3> QED
      BY <2>1, <3>2
  <2>5. o.ok => o.val[3] \in {0, 1} \/ o.val[3] \in {2, 3}
    BY <1>5
  <2> QED
    BY <2>2, <2>3, <2>4, <2>5
<1>9. Parsed(p, CommitmentCode, bytes)
  <2>1. Parsed(x, AloneCode, bytes) /\ Parsed(y, JoinedCode, bytes)
    BY <1>4, <1>7
  <2> QED
    BY <1>8, <2>1, CommitmentIs, EitherParsed
<1> QED
  BY <1>7, <1>9

\* InitCommitment::decode(): only a later minor version may go on.
GoesOn(q) == q.ok /\ (q.rest = <<>> \/ Minor(q.val.version) # 0)

\* The reader of InitCommitment.
LEMMA CommitmentParsed ==
    ASSUME NEW bytes \in Str
    PROVE  \E q : /\ Parsed(q, CommitmentCode, bytes)
                  /\ ReadCommitment(bytes) = IF GoesOn(q) THEN q ELSE Failed
<1>1. PICK r : r = Reader(bytes)
  OBVIOUS
<1>2. PICK n1 : n1 = ReadByte(r)
  OBVIOUS
<1>3. PICK o1 : o1 = First(n1)
  OBVIOUS
<1>4. PICK m : m = IF o1.ok /\ o1.val[1] % Half = 0 THEN o1 ELSE Failed
  OBVIOUS
<1>5. PICK o2 : o2 = Behind(m, ReadZero(m))
  OBVIOUS
<1>6. PICK o3 : o3 = Behind(o2, ReadByteIn(o2, 0 .. 3))
  OBVIOUS
<1>7. PICK o4 : o4 = Behind(o3, ReadTagged(o3))
  OBVIOUS
<1>8. PICK o5 : o5 = Behind(o4, ReadTagged(o4))
  OBVIOUS
<1>9. Parsed(o5, Five(FlagCode(Majors), FlagCode({0}), FlagCode(0 .. 3), KeyCode, KeyCode), bytes)
  BY ZenonT(60), <1>1, <1>2, <1>3, <1>4, <1>5, <1>6, <1>7, <1>8, FrontParsed
<1>10. PICK e, q : e = ReadEnd(o5) /\ q = Into(e, FromValues)
  OBVIOUS
<1>11. Parsed(q, CommitmentCode, bytes)
  BY <1>9, <1>10, EndParsed
<1>12. r.ok
  BY <1>1, ReaderIs
<1>13. ReadCommitment(bytes) =
         Into(IF e.ok /\ (e.rest = <<>> \/ Minor(e.val[1]) # 0) THEN e ELSE Failed, FromValues)
  <2>1. o1 = ReadFirst(r, ReadByte)
    BY <1>2, <1>3, <1>12 DEF ReadFirst
  <2>2. m = Checked(o1, LAMBDA v : v[1] % Half = 0)
    BY <1>4 DEF Checked
  <2>3. o2 = ReadNext(m, ReadZero)
    BY <1>5 DEF ReadNext
  <2>4. o3 = ReadNext(o2, LAMBDA x : ReadByteIn(x, 0 .. 3))
    BY <1>6 DEF ReadNext
  <2>5. o4 = ReadNext(o3, ReadTagged) /\ o5 = ReadNext(o4, ReadTagged)
    BY <1>7, <1>8 DEF ReadNext
  <2>6. e = ReadNext(ReadNext(o5, ReadJoin), ReadLenPrefixed)
    BY <1>10 DEF ReadEnd
  <2> QED
    BY <1>1, <2>1, <2>2, <2>3, <2>4, <2>5, <2>6 DEF ReadCommitment, FromValues
<1>14. (q.ok <=> e.ok) /\ (e.ok => q.rest = e.rest /\ q.val.version = e.val[1])
  <2>1. e.ok => q = Good(FromValues(e.val), e.rest)
    BY <1>10 DEF Into
  <2>2. ~e.ok => q = Failed
    BY <1>10 DEF Into
  <2>3. FromValues(e.val).version = e.val[1]
    BY DEF FromValues
  <2> QED
    BY <2>1, <2>2, <2>3, GoodIs
<1>15. ReadCommitment(bytes) = IF GoesOn(q) THEN q ELSE Failed
  <2>1. CASE e.ok /\ (e.rest = <<>> \/ Minor(e.val[1]) # 0)
    <3>1. GoesOn(q)
      BY <1>14, <2>1 DEF GoesOn
    <3>2. ReadCommitment(bytes) = q
      BY <1>10, <1>13, <2>1
    <3> QED
      BY <3>1, <3>2
  <2>2. CASE ~(e.ok /\ (e.rest = <<>> \/ Minor(e.val[1]) # 0))
    <3>1. ~GoesOn(q)
      BY <1>14, <2>2 DEF GoesOn
    <3>2. ReadCommitment(bytes) = Into(Failed, FromValues)
      BY <1>13, <2>2
    <3>3. Into(Failed, FromValues) = Failed
      BY GoodIs DEF Into
    <3> QED
      BY <3>1, <3>2, <3>3
  <2> QED
    BY <2>1, <2>2
<1> QED
  BY <1>11, <1>15

-----------------------------------------------------------------------------
(* Pack files, and what is signed of them *)

\* SignedPackHeader::decode().
LEMMA ReadSignedParsed ==
    ASSUME NEW bytes \in Str
    PROVE  ParsedAll(ReadSigned(bytes), SignedCode, bytes)
<1>1. PICK r, o : r = Reader(bytes) /\ o = ReadSignedHeader(r)
  OBVIOUS
<1>2. r.ok /\ r.rest = bytes
  BY <1>1, ReaderIs
<1>3. Parsed(o, SignedCode, bytes)
  BY <1>1, <1>2, SignedParsed
<1>4. ReadSigned(bytes) = RequireEmpty(o)
  BY <1>1 DEF ReadSigned, ReadSignedHeader
<1> QED
  BY <1>3, <1>4, RequireEmptyParsed

\* A topic, if it were read: what is signed is only written.
ReadTopic(r) == ReadVec(r, ReadLenPrefixed)

TopicBytes(x) == VecBytes(x, LenPrefixed)

\* The topics of pack files, each a string of bytes.
LEMMA TopicAre ==
    /\ DOMAIN VecCode(LenCode) = Vec(ByteString)
    /\ \A x \in Vec(ByteString) : VecCode(LenCode)[x] = TopicBytes(x)
    /\ IsCode(VecCode(LenCode)) /\ NoneEmpty(VecCode(LenCode))
<1>1. /\ IsCode(LenCode) /\ DOMAIN LenCode = ByteString
      /\ \A x \in ByteString : LenCode[x] = LenPrefixed(x)
  BY LenCodeIs, CodesAre
<1>2. /\ IsCode(VecCode(LenCode)) /\ NoneEmpty(VecCode(LenCode))
      /\ DOMAIN VecCode(LenCode) = Vec(ByteString)
  BY <1>1, VecCodeIsCode, VecCodeIs
<1>3. ASSUME NEW x \in Vec(ByteString) PROVE VecCode(LenCode)[x] = TopicBytes(x)
  <2>1. VecCode(LenCode)[x] = VarU64(Len(x)) \o FlattenSeq([i \in DOMAIN x |-> LenCode[x[i]]])
    BY <1>1 DEF VecCode, Cat
  <2>2. \A i \in DOMAIN x : LenCode[x[i]] = LenPrefixed(x[i])
    <3>1. \A i \in DOMAIN x : x[i] \in ByteString
      BY DEF Vec
    <3> QED
      BY <1>1, <3>1
  <2>3. [i \in DOMAIN x |-> LenCode[x[i]]] = [i \in DOMAIN x |-> LenPrefixed(x[i])]
    BY <2>2
  <2>4. TopicBytes(x) = VarU64(Len(x)) \o FlattenSeq([i \in DOMAIN x |-> LenPrefixed(x[i])])
    BY DEF TopicBytes, VecBytes, All
  <2> QED
    BY <2>1, <2>3, <2>4
<1> QED
  BY <1>2, <1>3

\* The reader of a topic: the rest of the bytes.
LEMMA ReadTopicParsed ==
    ASSUME NEW r, r.ok, r.rest \in Str
    PROVE  Parsed(ReadTopic(r), VecCode(LenCode), r.rest)
<1>1. PICK n, p : n = ReadVar(r) /\ p = ReadTopic(r)
  OBVIOUS
<1>2. Parsed(n, VarCode, r.rest)
  BY <1>1, ReadVarParsed
<1> DEFINE Solves(g) == g = [i \in 0 .. n.val |->
                IF i = 0 THEN (IF n.ok THEN Good(<<>>, n.rest) ELSE Failed)
                ELSE Behind(g[i - 1], ReadLenPrefixed(g[i - 1]))]
           read == CHOOSE g : Solves(g)
           next == [k \in 1 .. n.val |-> ReadLenPrefixed(read[k - 1])]
<1>3. p = IF n.ok /\ n.val <= Len(n.rest) THEN read[n.val] ELSE Failed
  BY <1>1 DEF ReadTopic, ReadVec, VecOf, Into, ReadNext
<1>4. /\ IsCode(LenCode) /\ NoneEmpty(LenCode) /\ DOMAIN LenCode = ByteString
  BY LenCodeIs, CodesAre
<1>5. n.ok => ReadsOneByOne(read, next, Same(LenCode), n.rest, n.val)
  <2>1. SUFFICES ASSUME n.ok PROVE ReadsOneByOne(read, next, Same(LenCode), n.rest, n.val)
    OBVIOUS
  <2>2. n.val \in Nat /\ n.rest \in Str
    <3>1. n.val \in DOMAIN VarCode /\ n.rest \in Str
      BY <1>2, <2>1, ParsedIs
    <3>2. n.val \in U64
      BY <3>1 DEF VarCode
    <3> QED
      BY <3>1, <3>2, MaxU64Is DEF U64
  <2> DEFINE reads == [k \in 1 .. n.val |-> [o \in Outcomes(ByteString) |-> ReadLenPrefixed(o)]]
             start == Good(<<>>, n.rest)
  <2>3. AreCodes(Same(LenCode), ByteString, n.val)
    BY <1>4, <2>2, SameIs
  <2>4. \A k \in 1 .. n.val : Same(LenCode)[k] = LenCode
    BY <2>2 DEF Same
  <2>5. start \in Outcomes(ByteString)
    <3>1. <<>> \in Seq(ByteString)
      OBVIOUS
    <3> QED
      BY <2>2, <3>1, OutcomesAre
  <2>6. \A k \in 1 .. n.val : \A o \in Outcomes(ByteString) : o.ok
            => Parsed(reads[k][o], Same(LenCode)[k], o.rest)
    <3>1. ASSUME NEW k \in 1 .. n.val, NEW o \in Outcomes(ByteString), o.ok
          PROVE  Parsed(reads[k][o], Same(LenCode)[k], o.rest)
      <4>1. reads[k][o] = ReadLenPrefixed(o)
        OBVIOUS
      <4>2. o.rest \in Str
        BY <3>1, OutcomesAre
      <4>3. Parsed(ReadLenPrefixed(o), LenCode, o.rest)
        BY <3>1, <4>2, ReadLenPrefixedParsed
      <4> QED
        BY <2>4, <4>1, <4>3
    <3> QED
      BY <3>1
  <2>7. PICK f : Runs(f, reads, ByteString, start, n.val)
    <3> HIDE DEF reads, start
    <3> QED
      BY <2>2, <2>3, <2>5, <2>6, RunsExist
  <2>8. /\ f \in [0 .. n.val -> Outcomes(ByteString)] /\ f[0] = start
        /\ \A k \in 1 .. n.val : f[k] = Behind(f[k - 1], reads[k][f[k - 1]])
    BY <2>7 DEF Runs
  <2>9. \A k \in 1 .. n.val : f[k] = Behind(f[k - 1], ReadLenPrefixed(f[k - 1]))
    <3>1. ASSUME NEW k \in 1 .. n.val PROVE f[k] = Behind(f[k - 1], ReadLenPrefixed(f[k - 1]))
      <4>1. f[k - 1] \in Outcomes(ByteString)
        BY <2>2, <2>8
      <4>2. reads[k][f[k - 1]] = ReadLenPrefixed(f[k - 1])
        BY <4>1
      <4> QED
        BY <2>8, <4>2
    <3> QED
      BY <3>1
  <2>10. Solves(f)
    <3>1. \A i \in 0 .. n.val : i # 0 => i \in 1 .. n.val
      BY <2>2
    <3>2. \A i \in 0 .. n.val : f[i] = IF i = 0 THEN (IF n.ok THEN Good(<<>>, n.rest) ELSE Failed)
                                        ELSE Behind(f[i - 1], ReadLenPrefixed(f[i - 1]))
      BY <2>1, <2>8, <2>9, <3>1
    <3>3. f = [i \in 0 .. n.val |-> f[i]]
      BY <2>8
    <3> QED
      BY <3>2, <3>3
  <2>11. Solves(read)
    <3> HIDE DEF Solves
    <3> QED
      BY <2>10
  <2> HIDE DEF read
  <2>12. read[0] = Good(<<>>, n.rest)
             /\ \A k \in 1 .. n.val : read[k] = Behind(read[k - 1], ReadLenPrefixed(read[k - 1]))
    <3>1. 0 \in 0 .. n.val /\ \A k \in 1 .. n.val : k \in 0 .. n.val /\ k # 0
      BY <2>2
    <3> QED
      BY <2>1, <2>11, <3>1
  <2>13. ASSUME NEW k \in 1 .. n.val PROVE read[k] = Behind(read[k - 1], next[k])
    BY <2>12
  <2>14. ASSUME NEW k \in 1 .. n.val, read[k - 1].ok, read[k - 1].rest \in Str
         PROVE  Parsed(next[k], Same(LenCode)[k], read[k - 1].rest)
    <3>1. next[k] = ReadLenPrefixed(read[k - 1])
      OBVIOUS
    <3>2. PICK q : q = read[k - 1]
      OBVIOUS
    <3>3. Parsed(ReadLenPrefixed(q), LenCode, q.rest)
      BY <2>14, <3>2, ReadLenPrefixedParsed
    <3> QED
      BY <2>4, <3>1, <3>2, <3>3
  <2> HIDE DEF next
  <2> QED
    BY <2>12, <2>13, <2>14 DEF ReadsOneByOne
<1> HIDE DEF read, next
<1>6. Parsed(p, VecCode(LenCode), r.rest)
  <2>1. /\ ~n.ok => p = Failed
        /\ n.ok => p = IF n.val <= Len(n.rest) THEN read[n.val] ELSE Failed
    BY <1>3
  <2> QED
    BY <1>2, <1>4, <1>5, <2>1, VecParsed
<1> QED
  BY <1>1, <1>6

MessageCode == Four(FileIdCode, ArrayCode, VecCode(LenCode), LenCode)
Message(name, header) == <<name.id, name.peer, name.topic, HeaderBytes(header)>>

\* The codes of what is signed: a header, and a chain head.
LEMMA MessageCodes ==
    /\ IsCode(One(FileIdCode))
    /\ IsCode(Two(FileIdCode, ArrayCode))
           /\ Appends(One(FileIdCode), ArrayCode, Two(FileIdCode, ArrayCode))
    /\ IsCode(Three(FileIdCode, ArrayCode, VecCode(LenCode)))
    /\ Appends(Two(FileIdCode, ArrayCode), VecCode(LenCode),
           Three(FileIdCode, ArrayCode, VecCode(LenCode)))
    /\ IsCode(MessageCode)
    /\ Appends(Three(FileIdCode, ArrayCode, VecCode(LenCode)), LenCode, MessageCode)
<1>1. IsCode(FileIdCode) /\ IsCode(ArrayCode) /\ IsCode(VecCode(LenCode)) /\ IsCode(LenCode)
  BY FileIdIs, CodesOfNumbers, TopicAre, LenCodeIs
<1>2. IsCode(One(FileIdCode))
  BY <1>1, OneIs
<1>3. IsCode(Two(FileIdCode, ArrayCode))
          /\ Appends(One(FileIdCode), ArrayCode, Two(FileIdCode, ArrayCode))
  BY <1>1, <1>2, TwoIs
<1>4. /\ IsCode(Three(FileIdCode, ArrayCode, VecCode(LenCode)))
      /\ Appends(Two(FileIdCode, ArrayCode), VecCode(LenCode),
             Three(FileIdCode, ArrayCode, VecCode(LenCode)))
  BY <1>1, <1>3, ThreeIs
<1>5. IsCode(MessageCode)
          /\ Appends(Three(FileIdCode, ArrayCode, VecCode(LenCode)), LenCode, MessageCode)
  BY <1>1, <1>4, FourIs DEF MessageCode
<1> QED
  BY <1>2, <1>3, <1>4, <1>5

\* What is signed can be told apart: it could be read.
LEMMA MessagesDiffer ==
    ASSUME NEW v \in DOMAIN MessageCode, NEW w \in DOMAIN MessageCode, MessageCode[v] = MessageCode[w]
    PROVE  v = w
<1>1. PICK s, r : s = MessageCode[v] /\ r = Reader(s)
  OBVIOUS
<1>2. s \in Str
  BY <1>1, MessageCodes DEF IsCode
<1>3. r.ok /\ r.rest = s
  BY <1>1, ReaderIs
<1>4. PICK o1 : o1 = First(ReadFileId(r))
  OBVIOUS
<1>5. Parsed(o1, One(FileIdCode), s)
  <2>1. Parsed(ReadFileId(r), FileIdCode, s)
    BY <1>2, <1>3, FileIdParsed
  <2> QED
    BY <1>4, <2>1, FirstParsed
<1>6. PICK o2 : o2 = Behind(o1, ReadArray(o1))
  OBVIOUS
<1>7. Parsed(o2, Two(FileIdCode, ArrayCode), s)
  <2>1. o1.ok => o1.rest \in Str
    BY <1>5, ParsedIs
  <2>2. o1.ok => Parsed(ReadArray(o1), ArrayCode, o1.rest)
    BY <2>1, ReadArrayParsed
  <2>3. IsCode(ArrayCode)
    BY CodesOfNumbers
  <2> QED
    BY <1>5, <1>6, <2>2, <2>3, MessageCodes, BehindParsed
<1>8. PICK o3 : o3 = Behind(o2, ReadTopic(o2))
  OBVIOUS
<1>9. Parsed(o3, Three(FileIdCode, ArrayCode, VecCode(LenCode)), s)
  <2>1. o2.ok => o2.rest \in Str
    BY <1>7, ParsedIs
  <2>2. o2.ok => Parsed(ReadTopic(o2), VecCode(LenCode), o2.rest)
    BY <2>1, ReadTopicParsed
  <2>3. IsCode(VecCode(LenCode))
    BY TopicAre
  <2> QED
    BY <1>7, <1>8, <2>2, <2>3, MessageCodes, BehindParsed
<1>10. PICK o4 : o4 = Behind(o3, ReadLenPrefixed(o3))
  OBVIOUS
<1>11. Parsed(o4, MessageCode, s)
  <2>1. o3.ok => o3.rest \in Str
    BY <1>9, ParsedIs
  <2>2. o3.ok => Parsed(ReadLenPrefixed(o3), LenCode, o3.rest)
    BY <2>1, ReadLenPrefixedParsed
  <2>3. IsCode(LenCode)
    BY LenCodeIs
  <2> QED
    BY <1>9, <1>10, <2>2, <2>3, MessageCodes, BehindParsed
<1>12. Begins(s, MessageCode, v, <<>>) /\ Begins(s, MessageCode, w, <<>>)
  BY <1>1, <1>2, SplitsAll DEF Begins
<1> QED
  BY <1>11, <1>12, ParsedUnique

\* sign_bytes() writes a message.
LEMMA SignBytesIs ==
    ASSUME NEW name \in PackFileDescriptor, NEW header \in PackHeader,
               HeaderBytes(header) \in ByteString
    PROVE  /\ Message(name, header) \in DOMAIN MessageCode
           /\ MessageCode[Message(name, header)] = SignBytes(name, header)
<1>1. name.id \in PackFileId /\ name.peer \in Array /\ name.topic \in Vec(ByteString)
  BY DEF PackFileDescriptor
<1>2. PICK i, p, t, h : /\ i = name.id /\ p = name.peer /\ t = name.topic /\ h = HeaderBytes(header)
  OBVIOUS
<1>3. /\ i \in DOMAIN FileIdCode /\ FileIdCode[i] = FileIdBytes(i) /\ FileIdCode[i] \in Str
  BY <1>1, <1>2, FileIdIs DEF IsCode
<1>4. p \in DOMAIN ArrayCode /\ ArrayCode[p] = p /\ p \in Str
  BY <1>1, <1>2, CodesAre DEF Array
<1>5. t \in DOMAIN VecCode(LenCode) /\ VecCode(LenCode)[t] = TopicBytes(t)
  BY <1>1, <1>2, TopicAre
<1>6. h \in DOMAIN LenCode /\ LenCode[h] = LenPrefixed(h)
  BY <1>2, CodesAre
<1>7. /\ <<i, p, t, h>> \in DOMAIN MessageCode
      /\ MessageCode[<<i, p, t, h>>] =
           Cat(Cat(Cat(FileIdCode[i], ArrayCode[p]), VecCode(LenCode)[t]), LenCode[h])
  BY <1>3, <1>4, <1>5, <1>6, FourTuples DEF MessageCode
<1>8. PICK x, y, z : x = Cat(FileIdBytes(i), p) /\ y = VarU64(Len(t)) /\ z = All(t, LenPrefixed)
  OBVIOUS
<1>9. TopicBytes(t) = Cat(y, z)
  BY <1>8 DEF TopicBytes, VecBytes, Cat
<1>10. x \in Str /\ y \in Str /\ z \in Str
  <2>1. x \in Str
    BY <1>3, <1>4, <1>8, CatIs
  <2>2. y \in Str
    <3>1. Len(t) \in U64
      BY <1>1, <1>2, MaxU64Is DEF Vec, U64
    <3> QED
      BY <1>8, <3>1, CodesOfNumbers, CodesAre DEF IsCode
  <2>3. z \in Str
    <3>1. \A k \in DOMAIN t : LenPrefixed(t[k]) \in Str
      <4>1. \A k \in DOMAIN t : t[k] \in ByteString
        BY <1>1, <1>2 DEF Vec
      <4> QED
        BY <4>1, LenCodeIs, CodesAre DEF IsCode
    <3>2. t \in Seq(ByteString)
      BY <1>1, <1>2 DEF Vec
    <3>3. [k \in DOMAIN t |-> LenPrefixed(t[k])] \in Seq(Str)
      BY <3>1, <3>2
    <3> QED
      BY <1>8, <3>3, FlattenGrows DEF All
  <2> QED
    BY <2>1, <2>2, <2>3
<1>11. Cat(Cat(x, y), z) = Cat(x, Cat(y, z))
  BY <1>10, CatIs
<1>12. SignBytes(name, header) = Cat(Cat(Cat(x, y), z), LenPrefixed(h))
  BY <1>2, <1>8 DEF SignBytes, Cat
<1>13. MessageCode[<<i, p, t, h>>] = Cat(Cat(x, Cat(y, z)), LenPrefixed(h))
  BY <1>3, <1>4, <1>5, <1>6, <1>7, <1>8, <1>9
<1>14. Message(name, header) = <<i, p, t, h>>
  BY <1>2 DEF Message
<1> QED
  BY <1>7, <1>11, <1>12, <1>13, <1>14

\* What is signed tells the file, and the header.
LEMMA SignBytesDiffer ==
    ASSUME NEW name \in PackFileDescriptor, NEW other \in PackFileDescriptor,
           NEW h \in PackHeader, NEW g \in PackHeader,
           HeaderBytes(h) \in ByteString, HeaderBytes(g) \in ByteString,
           SignBytes(name, h) = SignBytes(other, g)
    PROVE  name = other /\ h = g
<1>1. /\ Message(name, h) \in DOMAIN MessageCode /\ MessageCode[Message(name, h)] = SignBytes(name, h)
      /\ Message(other, g) \in DOMAIN MessageCode
             /\ MessageCode[Message(other, g)] = SignBytes(other, g)
  BY SignBytesIs
<1>2. Message(name, h) = Message(other, g)
  BY <1>1, MessagesDiffer
<1>3. /\ name.id = other.id /\ name.peer = other.peer /\ name.topic = other.topic
      /\ HeaderBytes(h) = HeaderBytes(g)
  BY <1>2 DEF Message
<1>4. name = other
  BY <1>3 DEF PackFileDescriptor
<1>5. h = g
  <2>1. PICK s, r : s = HeaderBytes(h) /\ r = Reader(s)
    OBVIOUS
  <2>2. s \in Str /\ r.ok /\ r.rest = s
    BY <2>1, ReaderIs DEF ByteString
  <2>3. Parsed(ReadHeader(r), HeaderCode, s)
    BY <2>2, HeaderParsed
  <2>4. h \in DOMAIN HeaderCode /\ g \in DOMAIN HeaderCode /\ HeaderCode[h] = s /\ HeaderCode[g] = s
    BY <1>3, <2>1, HeaderIs
  <2>5. Begins(s, HeaderCode, h, <<>>) /\ Begins(s, HeaderCode, g, <<>>)
    BY <2>2, <2>4, SplitsAll DEF Begins
  <2> QED
    BY <2>3, <2>5, ParsedUnique
<1> QED
  BY <1>4, <1>5

-----------------------------------------------------------------------------
(* Identifiers of tables and columns *)

Types == {"bytes", "text", "i64", "uuid"}

\* Any bits give one of the types.
LEMMA FromBitsIs ==
    \A n \in Nat : FromBits(n) \in Types
<1>1. ASSUME NEW n \in Nat PROVE FromBits(n) \in Types
  <2>1. n % 4 = 0 \/ n % 4 = 1 \/ n % 4 = 2 \/ n % 4 = 3
    OBVIOUS
  <2>2. (n % 4) + 1 = 1 \/ (n % 4) + 1 = 2 \/ (n % 4) + 1 = 3 \/ (n % 4) + 1 = 4
    BY <2>1
  <2>3. ColTypes[1] = "bytes" /\ ColTypes[2] = "text" /\ ColTypes[3] = "i64" /\ ColTypes[4] = "uuid"
    BY DEF ColTypes
  <2> QED
    BY <2>2, <2>3 DEF FromBits, Types
<1> QED
  BY <1>1

\* A table's identifier is below this power of two.
LEMMA IdIs ==
    /\ IdBits \in Nat /\ Fixed(2) = 0 .. Power(2, IdBits) - 1
    /\ CountBits \in Nat /\ CountBits <= IdBits
    /\ \A i \in 0 .. Power(2, CountBits) : IndexBits(i) \in Nat
<1>1. GroupBits \in Nat /\ GroupBits + 1 \in Nat
  BY WireAssumption
<1>2. Power(2, GroupBits + 1) = 2 * Power(2, GroupBits) /\ Power(2, GroupBits) \in Nat
  BY <1>1, PowerIs
<1>3. Base = Power(2, GroupBits + 1)
  BY <1>2 DEF Base, Group
<1>4. Power(2, (GroupBits + 1) + (GroupBits + 1)) = Power(2, GroupBits + 1) * Power(2, GroupBits + 1)
  BY <1>1, PowerOfSum
<1>5. Power(Base, 2) = Base * Base
  <2>1. Base \in Nat
    BY WidthsAre
  <2>2. Power(Base, 0) = 1 /\ Power(Base, 0 + 1) = Base * Power(Base, 0)
            /\ Power(Base, 1 + 1) = Base * Power(Base, 1)
    BY <2>1, PowerIs
  <2>3. Power(Base, 1) = Base
    BY <2>1, <2>2
  <2> QED
    BY <2>2, <2>3
<1>6. IdBits = (GroupBits + 1) + (GroupBits + 1)
  BY <1>1 DEF IdBits
<1>7. Fixed(2) = 0 .. Power(2, IdBits) - 1
  BY <1>3, <1>4, <1>5, <1>6 DEF Fixed
<1>8. CountBits \in Nat /\ CountBits + 2 * Power(2, CountBits) <= IdBits /\ Power(2, CountBits) \in Nat
  <2>1. CountBits \in Nat /\ CountBits + 2 * Power(2, CountBits) <= IdBits
    BY OpFormatAssumption DEF IdBits
  <2> QED
    BY <2>1, PowerIs
<1>9. ASSUME NEW i \in 0 .. Power(2, CountBits) PROVE IndexBits(i) \in Nat
  BY <1>1, <1>6, <1>8 DEF IndexBits, TypeBits
<1> QED
  BY <1>1, <1>6, <1>7, <1>8, <1>9

\* A table has a key column for sure, and a type for each one.
LEMMA TableIs ==
    ASSUME NEW table \in Fixed(2)
    PROVE  /\ PkCount(table) \in Nat \ {0} /\ PkCount(table) <= Power(2, CountBits)
           /\ \A i \in 1 .. PkCount(table) : PkColType(table, i) \in Types
<1>1. PICK p, q : p = Power(2, IndexBits(0)) /\ q = Power(2, CountBits)
  OBVIOUS
<1>2. IndexBits(0) = IdBits - CountBits
  BY IdIs DEF IndexBits, TypeBits
<1>3. IdBits - CountBits \in Nat
  BY IdIs
<1>4. p \in Nat \ {0} /\ q \in Nat \ {0}
  BY <1>1, <1>2, <1>3, IdIs, PowerPositive
<1>5. Power(2, IdBits) = p * q
  <2>1. (IdBits - CountBits) + CountBits = IdBits
    BY IdIs
  <2> QED
    BY <1>1, <1>2, <1>3, <2>1, IdIs, PowerOfSum
<1>6. table \in Nat /\ table < p * q
  <2>1. Power(2, IdBits) \in Nat
    BY IdIs, PowerIs
  <2> QED
    BY <1>5, <2>1, IdIs
<1>7. table \div p \in Nat /\ table \div p < q
  <2>1. PICK d, r : d = table \div p /\ r = table % p
    OBVIOUS
  <2>2. d \in Nat /\ r \in 0 .. p - 1 /\ table = r + p * d
    BY <1>4, <1>6, <2>1, DivisionIs
  <2>3. d < q <=> r + p * d < p * q
    BY <1>4, <2>2, ProductOrder
  <2> QED
    BY <1>6, <2>1, <2>2, <2>3
<1>8. PkCount(table) \in Nat \ {0} /\ PkCount(table) <= q
  BY <1>1, <1>4, <1>7 DEF PkCount
<1>9. ASSUME NEW i \in 1 .. PkCount(table) PROVE PkColType(table, i) \in Types
  <2>1. i \in 0 .. Power(2, CountBits)
    BY <1>1, <1>4, <1>8
  <2>2. Power(2, IndexBits(i)) \in Nat \ {0}
    BY SMTT(40), <2>1, IdIs, PowerPositive
  <2>3. table \div Power(2, IndexBits(i)) \in Nat
    BY <1>6, <2>2, DivisionIs
  <2> QED
    BY <2>3, FromBitsIs DEF PkColType
<1> QED
  BY <1>1, <1>8, <1>9

\* The type of a column is one of five.
LEMMA ColumnTypeIs ==
    \A column \in Bytes : ColumnType(column) \in Types
<1>1. Base \in Nat /\ Base >= 4
  BY WidthsAre
<1>2. Base \div 4 \in Nat \ {0}
  BY <1>1
<1>3. ASSUME NEW column \in Bytes PROVE ColumnType(column) \in Types
  <2>1. column \in Nat
    BY StrIs
  <2>2. column \div (Base \div 4) \in Nat
    BY <1>2, <2>1, DivisionIs
  <2> QED
    BY <2>2, FromBitsIs DEF ColumnType
<1> QED
  BY <1>3

-----------------------------------------------------------------------------
(* Values *)

OkText == {w \in ByteString : Utf8Ok(w) /\ TextOk(w)}
TextCode == [w \in OkText |-> LenPrefixed(w)]

DataCode(type) ==
    CASE type = "bytes" -> LenCode
      [] type = "text" -> TextCode
      [] type = "i64" -> ZigzagCode
      [] type = "uuid" -> ArrayCode

OkValues(type) == {v \in Values : ValueOk(type, v)}
ValueCode(type) == [v \in OkValues(type) |-> ValueBytes(v)]
ValueOf(type) == [d \in DOMAIN DataCode(type) |-> Value(type, d)]

\* CodecError::InvalidUtf8, and the check for NUL.
LEMMA ReadTextParsed ==
    ASSUME NEW r, r.ok, r.rest \in Str
    PROVE  Parsed(ReadText(r), TextCode, r.rest)
<1>1. PICK o, p : o = ReadLenPrefixed(r) /\ p = ReadText(r)
  OBVIOUS
<1>2. Parsed(o, LenCode, r.rest)
  BY <1>1, ReadLenPrefixedParsed
<1>3. DOMAIN LenCode = ByteString /\ \A w \in ByteString : LenCode[w] = LenPrefixed(w)
  BY CodesAre
<1>4. DOMAIN TextCode = OkText /\ \A w \in OkText : TextCode[w] = LenPrefixed(w)
  BY DEF TextCode
<1>5. DOMAIN TextCode \subseteq DOMAIN LenCode /\ \A w \in DOMAIN TextCode : TextCode[w] = LenCode[w]
  BY <1>3, <1>4 DEF OkText
<1>6. p = IF o.ok /\ (Utf8Ok(o.val) /\ TextOk(o.val)) THEN o ELSE Failed
  BY <1>1 DEF ReadText, Checked
<1>7. o.ok => o.val \in ByteString
  BY <1>2, <1>3, ParsedIs
<1>8. o.ok => (o.val \in DOMAIN TextCode <=> Utf8Ok(o.val) /\ TextOk(o.val))
  BY <1>4, <1>7 DEF OkText
<1>9. (~o.ok => p = Failed) /\ (o.ok => p = IF o.val \in DOMAIN TextCode THEN o ELSE Failed)
  BY <1>6, <1>8
<1>10. Parsed(p, TextCode, r.rest)
  BY <1>2, <1>5, <1>9, CheckedParsed
<1> QED
  BY <1>1, <1>10

\* The code of the data of a value.
LEMMA DataIs ==
    ASSUME NEW type \in Types
    PROVE  /\ IsCode(DataCode(type))
           /\ \A r : r.ok /\ r.rest \in Str => Parsed(ReadData(r, type), DataCode(type), r.rest)
           /\ \A d \in DOMAIN DataCode(type) :
                 Value(type, d) \in OkValues(type) /\ ValueBytes(Value(type, d)) = DataCode(type)[d]
           /\ \A v \in OkValues(type) : v.data \in DOMAIN DataCode(type) /\ v = Value(type, v.data)
<1>0. /\ DOMAIN LenCode = ByteString /\ \A w \in ByteString : LenCode[w] = LenPrefixed(w)
      /\ IsCode(LenCode)
  BY CodesAre, LenCodeIs
<1>1. CASE type = "bytes"
  <2>1. DataCode(type) = LenCode
    BY <1>1 DEF DataCode
  <2>2. ASSUME NEW r, r.ok, r.rest \in Str PROVE Parsed(ReadData(r, type), LenCode, r.rest)
    <3>1. ReadData(r, type) = ReadLenPrefixed(r)
      BY <1>1 DEF ReadData
    <3> QED
      BY <2>2, <3>1, ReadLenPrefixedParsed
  <2>3. ASSUME NEW d \in ByteString
        PROVE  Value(type, d) \in OkValues(type) /\ ValueBytes(Value(type, d)) = LenPrefixed(d)
    BY <1>1 DEF Value, OkValues, Values, ValueOk, ValueBytes
  <2>4. ASSUME NEW v \in OkValues(type) PROVE v.data \in ByteString /\ v = Value(type, v.data)
    BY <1>1 DEF Value, OkValues, Values, ValueOk
  <2> QED
    BY <1>0, <2>1, <2>2, <2>3, <2>4
<1>2. CASE type = "text"
  <2>1. DataCode(type) = TextCode /\ DOMAIN TextCode = OkText
            /\ \A w \in OkText : TextCode[w] = LenPrefixed(w)
    BY <1>2 DEF DataCode, TextCode
  <2>2. ASSUME NEW r, r.ok, r.rest \in Str PROVE Parsed(ReadData(r, type), TextCode, r.rest)
    <3>1. ReadData(r, type) = ReadText(r)
      BY <1>2 DEF ReadData
    <3> QED
      BY <2>2, <3>1, ReadTextParsed
  <2>3. ASSUME NEW d \in OkText
        PROVE  Value(type, d) \in OkValues(type) /\ ValueBytes(Value(type, d)) = LenPrefixed(d)
    BY <1>2 DEF Value, OkValues, Values, ValueOk, ValueBytes, OkText
  <2>4. ASSUME NEW v \in OkValues(type) PROVE v.data \in OkText /\ v = Value(type, v.data)
    BY <1>2 DEF Value, OkValues, Values, ValueOk, OkText
  <2>5. IsCode(TextCode)
    BY <1>0, <2>1 DEF IsCode, OkText
  <2> QED
    BY <2>1, <2>2, <2>3, <2>4, <2>5
<1>3. CASE type = "i64"
  <2>1. DataCode(type) = ZigzagCode /\ DOMAIN ZigzagCode = I64
            /\ \A n \in I64 : ZigzagCode[n] = Zigzag(n)
    BY <1>3 DEF DataCode, ZigzagCode
  <2>2. ASSUME NEW r, r.ok, r.rest \in Str PROVE Parsed(ReadData(r, type), ZigzagCode, r.rest)
    <3>1. ReadData(r, type) = ReadZigzag(r)
      BY <1>3 DEF ReadData
    <3> QED
      BY <2>2, <3>1, ReadZigzagParsed
  <2>3. ASSUME NEW d \in I64
        PROVE  Value(type, d) \in OkValues(type) /\ ValueBytes(Value(type, d)) = Zigzag(d)
    BY <1>3 DEF Value, OkValues, Values, ValueOk, ValueBytes
  <2>4. ASSUME NEW v \in OkValues(type) PROVE v.data \in I64 /\ v = Value(type, v.data)
    BY <1>3 DEF Value, OkValues, Values, ValueOk
  <2> QED
    BY <2>1, <2>2, <2>3, <2>4, CodesOfNumbers
<1>4. CASE type = "uuid"
  <2>1. DataCode(type) = ArrayCode /\ DOMAIN ArrayCode = Array /\ \A w \in Array : ArrayCode[w] = w
    BY <1>4, CodesAre DEF DataCode
  <2>2. ASSUME NEW r, r.ok, r.rest \in Str PROVE Parsed(ReadData(r, type), ArrayCode, r.rest)
    <3>1. ReadData(r, type) = ReadArray(r)
      BY <1>4 DEF ReadData
    <3> QED
      BY <2>2, <3>1, ReadArrayParsed
  <2>3. ASSUME NEW d \in Array
        PROVE  Value(type, d) \in OkValues(type) /\ ValueBytes(Value(type, d)) = d
    BY <1>4 DEF Value, OkValues, Values, ValueOk, ValueBytes
  <2>4. ASSUME NEW v \in OkValues(type) PROVE v.data \in Array /\ v = Value(type, v.data)
    BY <1>4 DEF Value, OkValues, Values, ValueOk
  <2> QED
    BY <2>1, <2>2, <2>3, <2>4, CodesOfNumbers
<1> QED
  BY <1>1, <1>2, <1>3, <1>4 DEF Types

\* The code of Value.
LEMMA ValueIs ==
    ASSUME NEW type \in Types
    PROVE  /\ IsCode(ValueCode(type)) /\ DOMAIN ValueCode(type) = OkValues(type)
           /\ \A v \in OkValues(type) : ValueCode(type)[v] = ValueBytes(v)
           /\ \A r : r.ok /\ r.rest \in Str => Parsed(ReadValue(r, type), ValueCode(type), r.rest)
<1>1. DOMAIN ValueCode(type) = OkValues(type) /\ \A v \in OkValues(type) :
          ValueCode(type)[v] = ValueBytes(v)
  BY DEF ValueCode
<1>2. PICK D, f, C : D = DataCode(type) /\ f = ValueOf(type) /\ C = ValueCode(type)
  OBVIOUS
<1>3. DOMAIN f = DOMAIN D /\ \A d \in DOMAIN D : f[d] = Value(type, d)
  BY <1>2 DEF ValueOf
<1>4. /\ IsCode(D)
      /\ \A d \in DOMAIN D : Value(type, d) \in OkValues(type) /\ ValueBytes(Value(type, d)) = D[d]
      /\ \A v \in OkValues(type) : v.data \in DOMAIN D /\ v = Value(type, v.data)
  BY <1>2, DataIs
<1>5. Renames(f, D, C)
  <2>1. \A d \in DOMAIN D : f[d] \in DOMAIN C /\ C[f[d]] = D[d]
    BY <1>1, <1>2, <1>3, <1>4
  <2>2. ASSUME NEW v \in DOMAIN C PROVE \E d \in DOMAIN D : f[d] = v
    <3>1. v.data \in DOMAIN D /\ v = Value(type, v.data)
      BY <1>1, <1>2, <1>4
    <3> QED
      BY <1>3, <3>1
  <2> QED
    BY <2>1, <2>2 DEF Renames
<1>6. IsCode(C)
  BY <1>4, <1>5, RenamesCode
<1>7. ASSUME NEW r, r.ok, r.rest \in Str PROVE Parsed(ReadValue(r, type), C, r.rest)
  <2>1. PICK o, p : o = ReadData(r, type) /\ p = ReadValue(r, type)
    OBVIOUS
  <2>2. Parsed(o, D, r.rest)
    BY <1>2, <1>7, <2>1, DataIs
  <2>3. p = IF o.ok THEN Good(Value(type, o.val), o.rest) ELSE Failed
    BY <2>1 DEF ReadValue, Into
  <2>4. o.ok => o.val \in DOMAIN D
    BY <2>2, ParsedIs
  <2>5. (~o.ok => p = Failed) /\ (o.ok => p = Good(f[o.val], o.rest))
    BY <1>3, <2>3, <2>4
  <2>6. Parsed(p, C, r.rest)
    BY <1>5, <2>2, <2>5, IntoParsed
  <2> QED
    BY <2>1, <2>6
<1> QED
  BY <1>1, <1>2, <1>6, <1>7

-----------------------------------------------------------------------------
(* Keys *)

PkCodes(table) == [k \in Nat |-> ValueCode(PkColType(table, k))]
PkCode(table) == ListOf(PkCodes(table), Values, PkCount(table))
OkPks(table) == {pk \in Seq(Values) : KeyOk(table, pk)}

\* Each column of a primary key has the code of its type.
LEMMA PkCodesAre ==
    ASSUME NEW table \in Fixed(2)
    PROVE  /\ AreCodes(PkCodes(table), Values, PkCount(table))
           /\ \A k \in 1 .. PkCount(table) : PkCodes(table)[k] = ValueCode(PkColType(table, k))
<1>1. PkCount(table) \in Nat /\ \A k \in 1 .. PkCount(table) : PkColType(table, k) \in Types
  BY TableIs
<1>2. \A k \in 1 .. PkCount(table) : PkCodes(table)[k] = ValueCode(PkColType(table, k))
  BY <1>1 DEF PkCodes
<1>3. ASSUME NEW k \in 1 .. PkCount(table)
      PROVE  IsCode(PkCodes(table)[k]) /\ DOMAIN PkCodes(table)[k] \subseteq Values
  <2>1. PICK type \in Types : type = PkColType(table, k)
    BY <1>1
  <2>2. IsCode(ValueCode(type)) /\ DOMAIN ValueCode(type) = OkValues(type)
    BY ValueIs
  <2>3. OkValues(type) \subseteq Values
    BY DEF OkValues
  <2> QED
    BY <1>2, <2>1, <2>2, <2>3
<1> QED
  BY <1>2, <1>3 DEF AreCodes

\* The code of a primary key.
LEMMA PkIs ==
    ASSUME NEW table \in Fixed(2)
    PROVE  /\ IsCode(PkCode(table)) /\ DOMAIN PkCode(table) = OkPks(table)
           /\ \A pk \in OkPks(table) : PkCode(table)[pk] = All(pk, ValueBytes)
<1>1. PICK n, codes : n = PkCount(table) /\ codes = PkCodes(table)
  OBVIOUS
<1>2. n \in Nat /\ \A k \in 1 .. n : PkColType(table, k) \in Types
  BY <1>1, TableIs
<1>3. AreCodes(codes, Values, n) /\ \A k \in 1 .. n : codes[k] = ValueCode(PkColType(table, k))
  BY <1>1, PkCodesAre
<1>4. ASSUME NEW pk PROVE IsListOf(pk, codes, Values, n) <=> pk \in OkPks(table)
  <2>1. \A k \in 1 .. n : DOMAIN codes[k] = OkValues(PkColType(table, k))
    BY <1>2, <1>3, ValueIs
  <2>2. IsListOf(pk, codes, Values, n) <=>
           pk \in Seq(Values) /\ Len(pk) = n
               /\ \A k \in 1 .. n : pk[k] \in OkValues(PkColType(table, k))
    BY <2>1 DEF IsListOf
  <2>3. ASSUME pk \in Seq(Values), Len(pk) = n
        PROVE  /\ DOMAIN pk = 1 .. n
               /\ \A k \in 1 .. n : pk[k] \in OkValues(PkColType(table, k))
                      <=> ValueOk(PkColType(table, k), pk[k])
    BY <2>3 DEF OkValues
  <2>4. pk \in OkPks(table) <=>
           pk \in Seq(Values) /\ Len(pk) = n /\ \A k \in DOMAIN pk : ValueOk(PkColType(table, k), pk[k])
    BY <1>1 DEF OkPks, KeyOk
  <2> QED
    BY <2>2, <2>3, <2>4
<1>5. \A pk : pk \in DOMAIN PkCode(table) <=> IsListOf(pk, codes, Values, n)
  BY <1>1, ListOfIs DEF PkCode
<1>6. IsCode(PkCode(table))
  <2>1. ASSUME NEW pk \in DOMAIN PkCode(table) PROVE PkCode(table)[pk] \in Str
    <3>1. IsListOf(pk, codes, Values, n)
      BY <1>5
    <3>2. Pieces(codes, pk) \in Seq(Str)
      BY <1>2, <1>3, <3>1, PiecesAre
    <3>3. PkCode(table)[pk] = FlattenSeq(Pieces(codes, pk))
      BY <1>1, <3>1, ListOfIs DEF PkCode
    <3> QED
      BY <3>2, <3>3, FlattenGrows
  <2> QED
    BY <2>1 DEF IsCode
<1>7. ASSUME NEW pk \in OkPks(table) PROVE PkCode(table)[pk] = All(pk, ValueBytes)
  <2>1. IsListOf(pk, codes, Values, n)
    BY <1>4
  <2>2. PkCode(table)[pk] = FlattenSeq(Pieces(codes, pk))
    BY <1>1, <2>1, ListOfIs DEF PkCode
  <2>3. DOMAIN pk = 1 .. n /\ \A k \in 1 .. n : pk[k] \in DOMAIN codes[k]
    BY <2>1 DEF IsListOf
  <2>4. \A k \in 1 .. n : codes[k][pk[k]] = ValueBytes(pk[k])
    <3>1. ASSUME NEW k \in 1 .. n PROVE codes[k][pk[k]] = ValueBytes(pk[k])
      <4>1. PICK type \in Types : type = PkColType(table, k)
        BY <1>2
      <4>2. codes[k] = ValueCode(type) /\ pk[k] \in DOMAIN ValueCode(type)
        BY <1>3, <2>3, <4>1
      <4>3. pk[k] \in OkValues(type)
        BY <4>2, ValueIs
      <4> QED
        BY <4>2, <4>3, ValueIs
    <3> QED
      BY <3>1
  <2>5. Pieces(codes, pk) = [k \in DOMAIN pk |-> ValueBytes(pk[k])]
    BY <2>3, <2>4 DEF Pieces
  <2> QED
    BY <2>2, <2>5 DEF All
<1> QED
  BY <1>4, <1>5, <1>6, <1>7

\* The reader of a primary key, by the type of its column.
LEMMA ReadPkParsed ==
    ASSUME NEW n, n.ok, n.val \in Fixed(2), n.rest \in Str
    PROVE  Parsed(ReadPk(n), PkCode(n.val), n.rest)
<1>1. PICK c, codes, p : c = PkCount(n.val) /\ codes = PkCodes(n.val) /\ p = ReadPk(n)
  OBVIOUS
<1> DEFINE type(k) == PkColType(n.val, k)
           Solves(g) == g = [i \in 0 .. c |->
                IF i = 0 THEN (IF n.ok THEN Good(<<>>, n.rest) ELSE Failed)
                ELSE Behind(g[i - 1], ReadValue(g[i - 1], type(i)))]
           read == CHOOSE g : Solves(g)
           next == [k \in 1 .. c |-> ReadValue(read[k - 1], type(k))]
<1>2. p = IF n.ok THEN read[c] ELSE Failed
  BY <1>1 DEF ReadPk, Into, ReadNext
<1>3. c \in Nat /\ \A k \in 1 .. c : type(k) \in Types
  BY <1>1, TableIs
<1>4. AreCodes(codes, Values, c) /\ \A k \in 1 .. c : codes[k] = ValueCode(type(k))
  BY <1>1, PkCodesAre
<1>5. ReadsOneByOne(read, next, codes, n.rest, c)
  <2> DEFINE reads == [k \in 1 .. c |-> [o \in Outcomes(Values) |-> ReadValue(o, type(k))]]
             start == Good(<<>>, n.rest)
  <2>1. start \in Outcomes(Values)
    <3>1. <<>> \in Seq(Values)
      OBVIOUS
    <3> QED
      BY <3>1, OutcomesAre
  <2>2. ASSUME NEW k \in 1 .. c, NEW o, o.ok, o.rest \in Str
        PROVE  Parsed(ReadValue(o, type(k)), codes[k], o.rest)
    <3>1. PICK t \in Types : t = type(k)
      BY <1>3
    <3>2. Parsed(ReadValue(o, t), ValueCode(t), o.rest)
      BY <2>2, ValueIs
    <3> QED
      BY <1>4, <3>1, <3>2
  <2>3. \A k \in 1 .. c : \A o \in Outcomes(Values) : o.ok => Parsed(reads[k][o], codes[k], o.rest)
    <3>1. ASSUME NEW k \in 1 .. c, NEW o \in Outcomes(Values), o.ok
          PROVE  Parsed(reads[k][o], codes[k], o.rest)
      <4>1. reads[k][o] = ReadValue(o, type(k))
        OBVIOUS
      <4>2. o.rest \in Str
        BY <3>1, OutcomesAre
      <4> QED
        BY <2>2, <3>1, <4>1, <4>2
    <3> QED
      BY <3>1
  <2>4. PICK f : Runs(f, reads, Values, start, c)
    <3> HIDE DEF reads, start
    <3> QED
      BY <1>3, <1>4, <2>1, <2>3, RunsExist
  <2>5. /\ f \in [0 .. c -> Outcomes(Values)] /\ f[0] = start
        /\ \A k \in 1 .. c : f[k] = Behind(f[k - 1], reads[k][f[k - 1]])
    BY <2>4 DEF Runs
  <2>6. \A k \in 1 .. c : f[k] = Behind(f[k - 1], ReadValue(f[k - 1], type(k)))
    <3>1. ASSUME NEW k \in 1 .. c PROVE f[k] = Behind(f[k - 1], ReadValue(f[k - 1], type(k)))
      <4>1. f[k - 1] \in Outcomes(Values)
        BY <1>3, <2>5
      <4>2. reads[k][f[k - 1]] = ReadValue(f[k - 1], type(k))
        BY <4>1
      <4> QED
        BY <2>5, <4>2
    <3> QED
      BY <3>1
  <2>7. Solves(f)
    <3>1. \A i \in 0 .. c : i # 0 => i \in 1 .. c
      BY <1>3
    <3>2. \A i \in 0 .. c : f[i] = IF i = 0 THEN (IF n.ok THEN Good(<<>>, n.rest) ELSE Failed)
                                     ELSE Behind(f[i - 1], ReadValue(f[i - 1], type(i)))
      BY <2>5, <2>6, <3>1
    <3>3. f = [i \in 0 .. c |-> f[i]]
      BY <2>5
    <3> QED
      BY <3>2, <3>3
  <2>8. Solves(read)
    <3> HIDE DEF Solves
    <3> QED
      BY <2>7
  <2> HIDE DEF read
  <2>9. read[0] = Good(<<>>, n.rest)
            /\ \A k \in 1 .. c : read[k] = Behind(read[k - 1], ReadValue(read[k - 1], type(k)))
    <3>1. 0 \in 0 .. c /\ \A k \in 1 .. c : k \in 0 .. c /\ k # 0
      BY <1>3
    <3> QED
      BY <2>8, <3>1
  <2>10. ASSUME NEW k \in 1 .. c PROVE read[k] = Behind(read[k - 1], next[k])
    BY <2>9
  <2>11. ASSUME NEW k \in 1 .. c, read[k - 1].ok, read[k - 1].rest \in Str
         PROVE  Parsed(next[k], codes[k], read[k - 1].rest)
    <3>1. next[k] = ReadValue(read[k - 1], type(k))
      OBVIOUS
    <3>2. PICK q : q = read[k - 1]
      OBVIOUS
    <3>3. Parsed(ReadValue(q, type(k)), codes[k], q.rest)
      BY <2>2, <2>11, <3>2
    <3> QED
      BY <3>1, <3>2, <3>3
  <2> HIDE DEF next
  <2> QED
    BY <2>9, <2>10, <2>11 DEF ReadsOneByOne
<1> HIDE DEF read, next
<1>6. Parsed(p, ListOf(codes, Values, c), n.rest)
  <2>1. p = read[c]
    BY <1>2
  <2>2. c \in 0 .. c
    BY <1>3
  <2>3. \A k \in 0 .. c : Parsed(read[k], ListOf(codes, Values, k), n.rest)
    BY <1>3, <1>4, <1>5, ListParsed
  <2> QED
    BY <2>1, <2>2, <2>3
<1> QED
  BY <1>1, <1>6 DEF PkCode

OkKeys == {u \in Fixed(2) \X Seq(Values) : KeyOk(u[1], u[2])}
OpKeyCode == [u \in OkKeys |-> KeyBytes(u[1], u[2])]

\* The code of the key of an operation.
LEMMA OpKeyIs ==
    /\ DOMAIN OpKeyCode = OkKeys /\ \A u \in OkKeys : OpKeyCode[u] = KeyBytes(u[1], u[2])
    /\ IsCode(OpKeyCode)
<1>1. DOMAIN OpKeyCode = OkKeys /\ \A u \in OkKeys : OpKeyCode[u] = KeyBytes(u[1], u[2])
  BY DEF OpKeyCode
<1>2. ASSUME NEW u \in OkKeys PROVE OpKeyCode[u] \in Str
  <2>1. PICK t, pk : t = u[1] /\ pk = u[2]
    OBVIOUS
  <2>2. t \in Fixed(2) /\ pk \in OkPks(t)
    BY <2>1 DEF OkKeys, OkPks
  <2>3. Le(t, 2) \in Str
    BY <2>2, LeIs
  <2>4. All(pk, ValueBytes) \in Str
    BY <2>2, PkIs DEF IsCode
  <2>5. OpKeyCode[u] = Le(t, 2) \o All(pk, ValueBytes)
    BY <1>1, <2>1 DEF KeyBytes
  <2> QED
    BY <2>3, <2>4, <2>5, ConcatIs
<1> QED
  BY <1>1, <1>2 DEF IsCode

\* The reader of the primary key of an operation.
LEMMA ReadKeyParsed ==
    ASSUME NEW r, r.ok, r.rest \in Str
    PROVE  Parsed(ReadKey(r), OpKeyCode, r.rest)
<1>1. PICK o : o = ReadLe(r, 2)
  OBVIOUS
<1>2. PICK k, p : k = ReadPk(o) /\ p = ReadKey(r)
  OBVIOUS
<1>3. Parsed(o, LeCode(2), r.rest)
  BY <1>1, ReadLeParsed
<1>4. DOMAIN LeCode(2) = Fixed(2) /\ \A v \in Fixed(2) : LeCode(2)[v] = Le(v, 2)
  BY LeCodeIs
<1>5. IsCode(LeCode(2))
  BY CodesOfNumbers
<1>6. p = IF k.ok THEN Good(<<o.val, k.val>>, k.rest) ELSE Failed
  BY <1>1, <1>2 DEF ReadKey, Into
<1>7. o.ok => o.val \in Fixed(2) /\ o.rest \in Str
  BY <1>3, <1>4, ParsedIs
<1>8. ~o.ok => k = Failed
  BY <1>2 DEF ReadPk
<1>9. o.ok => Parsed(k, PkCode(o.val), o.rest)
  BY <1>2, <1>7, ReadPkParsed
<1> DEFINE Keyed(t) == [u \in {<<t, pk>> : pk \in OkPks(t)} |-> PkCode(t)[u[2]]]
           With(t) == [pk \in OkPks(t) |-> <<t, pk>>]
           next == [t \in Fixed(2) |-> Keyed(t)]
<1>10. ASSUME NEW t \in Fixed(2)
       PROVE  /\ DOMAIN Keyed(t) = {<<t, pk>> : pk \in OkPks(t)}
              /\ \A pk \in OkPks(t) : Keyed(t)[<<t, pk>>] = PkCode(t)[pk]
              /\ IsCode(Keyed(t))
  <2>1. DOMAIN Keyed(t) = {<<t, pk>> : pk \in OkPks(t)}
    OBVIOUS
  <2>2. \A pk \in OkPks(t) : Keyed(t)[<<t, pk>>] = PkCode(t)[pk]
    OBVIOUS
  <2>3. \A pk \in OkPks(t) : PkCode(t)[pk] \in Str
    BY PkIs DEF IsCode
  <2> HIDE DEF Keyed
  <2> QED
    BY <2>1, <2>2, <2>3 DEF IsCode
<1>11. ASSUME NEW t \in Fixed(2) PROVE Renames(With(t), PkCode(t), Keyed(t))
  <2>1. DOMAIN PkCode(t) = OkPks(t)
    BY PkIs
  <2>2. \A pk \in OkPks(t) : With(t)[pk] = <<t, pk>>
    OBVIOUS
  <2>3. PICK f, K, C : f = With(t) /\ K = Keyed(t) /\ C = PkCode(t)
    OBVIOUS
  <2>4. /\ DOMAIN K = {<<t, pk>> : pk \in OkPks(t)} /\ \A pk \in OkPks(t) : K[<<t, pk>>] = C[pk]
    BY <1>10, <2>3
  <2>5. DOMAIN C = OkPks(t) /\ \A pk \in OkPks(t) : f[pk] = <<t, pk>>
    BY <2>1, <2>2, <2>3
  <2>6. Renames(f, C, K)
    BY <2>4, <2>5 DEF Renames
  <2> QED
    BY <2>3, <2>6
<1>12. \A t \in Fixed(2) : next[t] = Keyed(t)
  OBVIOUS
<1>13. Follows(LeCode(2), next, OpKeyCode)
  <2>1. ASSUME NEW t \in Fixed(2), NEW u \in DOMAIN Keyed(t)
        PROVE  u \in DOMAIN OpKeyCode /\ OpKeyCode[u] = Le(t, 2) \o Keyed(t)[u]
    <3>1. PICK pk \in OkPks(t) : u = <<t, pk>>
      BY <1>10
    <3>2. u[1] = t /\ u[2] = pk
      BY <3>1
    <3>3. u \in OkKeys
      BY <3>1 DEF OkKeys, OkPks
    <3>4. Keyed(t)[u] = All(pk, ValueBytes)
      <4>1. PkCode(t)[pk] = All(pk, ValueBytes)
        BY PkIs
      <4>2. Keyed(t)[u] = PkCode(t)[pk]
        BY <1>10, <3>1
      <4> QED
        BY <4>1, <4>2
    <3>5. OpKeyCode[u] = Le(t, 2) \o All(pk, ValueBytes)
      BY <3>2, <3>3, OpKeyIs DEF KeyBytes
    <3> HIDE DEF Keyed
    <3> QED
      BY <3>3, <3>4, <3>5, OpKeyIs
  <2>2. ASSUME NEW u \in DOMAIN OpKeyCode PROVE \E t \in Fixed(2) : u \in DOMAIN Keyed(t)
    <3>1. u \in OkKeys
      BY OpKeyIs
    <3>2. PICK t \in Fixed(2), pk \in Seq(Values) : u = <<t, pk>>
      BY <3>1 DEF OkKeys
    <3>3. pk \in OkPks(t)
      BY <3>1, <3>2 DEF OkKeys, OkPks
    <3> QED
      BY <1>10, <3>2, <3>3
  <2> HIDE DEF Keyed, next
  <2> QED
    BY SMTT(40), <1>4, <1>12, <2>1, <2>2 DEF Follows
<1>14. ASSUME o.ok PROVE Parsed(p, next[o.val], o.rest)
  <2>1. PICK t \in Fixed(2) : t = o.val
    BY <1>7, <1>14
  <2>2. Parsed(k, PkCode(t), o.rest)
    BY <1>9, <1>14, <2>1
  <2>3. k.ok => k.val \in OkPks(t)
    BY <2>2, ParsedIs, PkIs
  <2>4. (~k.ok => p = Failed) /\ (k.ok => p = Good(With(t)[k.val], k.rest))
    BY <1>6, <2>1, <2>3
  <2> HIDE DEF With, Keyed, next
  <2>5. Parsed(p, Keyed(t), o.rest)
    BY <1>11, <2>2, <2>4, IntoParsed
  <2> QED
    BY <1>12, <2>1, <2>5
<1>15. ~o.ok => p = Failed
  BY <1>6, <1>8, GoodIs
<1>16. \A v \in DOMAIN LeCode(2) : IsCode(next[v])
  BY <1>4, <1>10, <1>12
<1> HIDE DEF next
<1>17. Parsed(p, OpKeyCode, r.rest)
  BY <1>3, <1>5, <1>13, <1>14, <1>15, <1>16, ThenParsed
<1> QED
  BY <1>2, <1>17

-----------------------------------------------------------------------------
(* Columns and their values *)

OkSet == {s \in ColumnSet : ValueOk(ColumnType(s.column), s.value)}
SetBytes(s) == <<s.column>> \o ValueBytes(s.value)
SetCode == [s \in OkSet |-> SetBytes(s)]

\* The code of ColumnSet.
LEMMA SetIs ==
    /\ DOMAIN SetCode = OkSet /\ \A s \in OkSet : SetCode[s] = SetBytes(s)
    /\ IsCode(SetCode) /\ NoneEmpty(SetCode)
<1>1. DOMAIN SetCode = OkSet /\ \A s \in OkSet : SetCode[s] = SetBytes(s)
  BY DEF SetCode
<1>2. ASSUME NEW s \in OkSet PROVE SetCode[s] \in Str /\ SetCode[s] # <<>>
  <2>1. PICK c, v : c = s.column /\ v = s.value
    OBVIOUS
  <2>2. c \in Bytes /\ v \in OkValues(ColumnType(c))
    BY <2>1 DEF OkSet, ColumnSet, OkValues
  <2>3. PICK type \in Types : type = ColumnType(c)
    BY <2>2, ColumnTypeIs
  <2>4. ValueBytes(v) \in Str
    BY <2>2, <2>3, ValueIs DEF IsCode
  <2>5. <<c>> \in Str /\ Len(<<c>>) = 1
    BY <2>2, StrIs
  <2>6. <<c>> \o ValueBytes(v) \in Str /\ Len(<<c>> \o ValueBytes(v)) = 1 + Len(ValueBytes(v))
    BY <2>4, <2>5, ConcatIs
  <2>7. Len(ValueBytes(v)) \in Nat /\ Len(<<>>) = 0
    BY <2>4, StrIs
  <2>8. SetCode[s] = <<c>> \o ValueBytes(v)
    BY <1>1, <2>1 DEF SetBytes
  <2> QED
    BY <2>6, <2>7, <2>8
<1> QED
  BY <1>1, <1>2 DEF IsCode, NoneEmpty

\* The reader of ColumnSet.
LEMMA SetParsed ==
    ASSUME NEW r, r.ok, r.rest \in Str
    PROVE  Parsed(ReadSet(r), SetCode, r.rest)
<1>1. PICK o : o = ReadByte(r)
  OBVIOUS
<1>2. PICK type, p : type = ColumnType(o.val) /\ p = ReadSet(r)
  OBVIOUS
<1>3. PICK k : k = ReadValue(o, type)
  OBVIOUS
<1>4. Parsed(o, ByteCode, r.rest)
  BY <1>1, ReadByteParsed
<1>5. DOMAIN ByteCode = Bytes /\ (\A b \in Bytes : ByteCode[b] = <<b>>) /\ IsCode(ByteCode)
  BY CodesAre, CodesOfNumbers
<1>6. p = IF o.ok THEN (IF k.ok THEN Good([column |-> o.val, value |-> k.val], k.rest)
          ELSE Failed) ELSE Failed
  BY <1>1, <1>2, <1>3 DEF ReadSet, Into
<1>7. o.ok => o.val \in Bytes /\ o.rest \in Str
  BY <1>4, <1>5, ParsedIs
<1>8. o.ok => type \in Types
  BY <1>2, <1>7, ColumnTypeIs
<1>9. o.ok => Parsed(k, ValueCode(type), o.rest)
  BY <1>3, <1>7, <1>8, ValueIs
<1> DEFINE Given(c) == [s \in {s \in OkSet : s.column = c} |-> ValueBytes(s.value)]
           With(c) == [v \in OkValues(ColumnType(c)) |-> [column |-> c, value |-> v]]
           next == [c \in Bytes |-> Given(c)]
<1>10. ASSUME NEW c \in Bytes
       PROVE  /\ \A v \in OkValues(ColumnType(c)) : /\ [column |-> c, value |-> v] \in DOMAIN Given(c)
                                                    /\ Given(c)[[column |-> c, value |-> v]]
                                                         = ValueBytes(v)
              /\ \A s \in DOMAIN Given(c) : /\ s \in OkSet /\ s.column = c
                                               /\ s.value \in OkValues(ColumnType(c))
                                            /\ s = [column |-> c, value |-> s.value]
                                            /\ Given(c)[s] = ValueBytes(s.value)
  <2>1. ASSUME NEW v \in OkValues(ColumnType(c))
        PROVE  /\ [column |-> c, value |-> v] \in DOMAIN Given(c)
               /\ Given(c)[[column |-> c, value |-> v]] = ValueBytes(v)
    <3>1. PICK s : s = [column |-> c, value |-> v]
      OBVIOUS
    <3>2. s \in OkSet /\ s.column = c /\ s.value = v
      BY <3>1 DEF OkSet, OkValues, ColumnSet
    <3>3. s \in DOMAIN Given(c) /\ Given(c)[s] = ValueBytes(v)
      BY <3>2
    <3> QED
      BY <3>1, <3>3
  <2>2. ASSUME NEW s \in DOMAIN Given(c)
        PROVE  /\ s \in OkSet /\ s.column = c /\ s.value \in OkValues(ColumnType(c))
               /\ s = [column |-> c, value |-> s.value]
               /\ Given(c)[s] = ValueBytes(s.value)
    <3>1. s \in OkSet /\ s.column = c
      OBVIOUS
    <3>2. s.value \in OkValues(ColumnType(c)) /\ s = [column |-> c, value |-> s.value]
      BY <3>1 DEF OkSet, OkValues, ColumnSet
    <3>3. Given(c)[s] = ValueBytes(s.value)
      BY <3>1
    <3> QED
      BY <3>1, <3>2, <3>3
  <2> QED
    BY <2>1, <2>2
<1>11. ASSUME NEW c \in Bytes
       PROVE  IsCode(Given(c)) /\ Renames(With(c), ValueCode(ColumnType(c)), Given(c))
  <2>1. PICK t \in Types : t = ColumnType(c)
    BY ColumnTypeIs
  <2>2. PICK f, K, C : f = With(c) /\ K = Given(c) /\ C = ValueCode(t)
    OBVIOUS
  <2>3. /\ DOMAIN C = OkValues(t) /\ IsCode(C) /\ \A v \in OkValues(t) : C[v] = ValueBytes(v)
    BY <2>2, ValueIs
  <2>4. \A v \in OkValues(t) : f[v] = [column |-> c, value |-> v]
    BY <2>1, <2>2
  <2>5. DOMAIN f = OkValues(t)
    BY <2>1, <2>2
  <2>6. \A v \in OkValues(t) : f[v] \in DOMAIN K /\ K[f[v]] = C[v]
    <3> HIDE DEF Given, With
    <3>1. ASSUME NEW v \in OkValues(t) PROVE f[v] \in DOMAIN K /\ K[f[v]] = C[v]
      <4>1. PICK s : s = [column |-> c, value |-> v]
        OBVIOUS
      <4>2. s \in DOMAIN K /\ K[s] = ValueBytes(v)
        BY <1>10, <2>1, <2>2, <4>1
      <4> QED
        BY <2>3, <2>4, <4>1, <4>2
    <3> QED
      BY <3>1
  <2>7. \A s \in DOMAIN K : /\ s.value \in OkValues(t) /\ f[s.value] = s
                            /\ K[s] = ValueBytes(s.value)
    <3> HIDE DEF Given, With
    <3>1. ASSUME NEW s \in DOMAIN K
          PROVE  s.value \in OkValues(t) /\ f[s.value] = s /\ K[s] = ValueBytes(s.value)
      <4>1. s.value \in OkValues(t) /\ s = [column |-> c, value |-> s.value]
                /\ K[s] = ValueBytes(s.value)
        BY <1>10, <2>1, <2>2
      <4>2. f[s.value] = [column |-> c, value |-> s.value]
        BY <2>4, <4>1
      <4> QED
        BY <4>1, <4>2
    <3> QED
      BY <3>1
  <2>8. Renames(f, C, K)
    BY <2>3, <2>6, <2>7 DEF Renames
  <2>9. IsCode(K)
    BY <2>3, <2>8, RenamesCode
  <2> HIDE DEF Given, With
  <2> QED
    BY <2>1, <2>2, <2>8, <2>9
<1>12. \A c \in Bytes : next[c] = Given(c)
  OBVIOUS
<1>13. Follows(ByteCode, next, SetCode)
  <2>1. ASSUME NEW c \in Bytes, NEW s \in DOMAIN Given(c)
        PROVE  s \in DOMAIN SetCode /\ SetCode[s] = <<c>> \o Given(c)[s]
    <3>1. s \in OkSet /\ s.column = c /\ Given(c)[s] = ValueBytes(s.value)
      BY <1>10
    <3>2. SetCode[s] = <<c>> \o ValueBytes(s.value)
      BY <3>1, SetIs DEF SetBytes
    <3> HIDE DEF Given
    <3> QED
      BY <3>1, <3>2, SetIs
  <2>2. ASSUME NEW s \in DOMAIN SetCode PROVE \E c \in Bytes : s \in DOMAIN Given(c)
    <3>1. s \in OkSet
      BY SetIs
    <3>2. s.column \in Bytes
      BY <3>1 DEF OkSet, ColumnSet
    <3>3. s \in DOMAIN Given(s.column)
      BY <3>1
    <3> QED
      BY <3>2, <3>3
  <2> HIDE DEF Given, next
  <2> QED
    BY ZenonT(60), <1>5, <1>12, <2>1, <2>2 DEF Follows
<1>14. ASSUME o.ok PROVE Parsed(p, next[o.val], o.rest)
  <2>1. PICK c \in Bytes : c = o.val
    BY <1>7, <1>14
  <2>2. type = ColumnType(c) /\ type \in Types
    BY <1>2, <1>8, <1>14, <2>1
  <2>3. Parsed(k, ValueCode(type), o.rest)
    BY <1>9, <1>14
  <2>4. k.ok => k.val \in OkValues(type)
    BY <2>2, <2>3, ParsedIs, ValueIs
  <2>5. k.ok => With(c)[k.val] = [column |-> c, value |-> k.val]
    BY <2>2, <2>4
  <2>6. (~k.ok => p = Failed) /\ (k.ok => p = Good(With(c)[k.val], k.rest))
    <3> HIDE DEF With, Given, next
    <3> QED
      BY <1>6, <1>14, <2>1, <2>5
  <2> HIDE DEF With, Given, next
  <2>7. Parsed(p, Given(c), o.rest)
    <3>1. Renames(With(c), ValueCode(type), Given(c))
      BY <1>11, <2>2
    <3> QED
      BY <2>3, <2>6, <3>1, IntoParsed
  <2> QED
    BY <1>12, <2>1, <2>7
<1>15. ~o.ok => p = Failed
  BY <1>6
<1>16. \A c \in DOMAIN ByteCode : IsCode(next[c])
  BY <1>5, <1>11, <1>12
<1> HIDE DEF next
<1>17. Parsed(p, SetCode, r.rest)
  BY <1>4, <1>5, <1>13, <1>14, <1>15, <1>16, ThenParsed
<1> QED
  BY <1>2, <1>17

SetsBytes(x) == VecBytes(x, SetBytes)

\* The code of the sets of an operation.
LEMMA SetsAre ==
    /\ DOMAIN VecCode(SetCode) = Vec(OkSet)
    /\ \A x \in Vec(OkSet) : VecCode(SetCode)[x] = SetsBytes(x)
    /\ IsCode(VecCode(SetCode)) /\ NoneEmpty(VecCode(SetCode))
<1>1. /\ IsCode(SetCode) /\ DOMAIN SetCode = OkSet
      /\ \A x \in OkSet : SetCode[x] = SetBytes(x)
  BY SetIs
<1>2. /\ IsCode(VecCode(SetCode)) /\ NoneEmpty(VecCode(SetCode))
      /\ DOMAIN VecCode(SetCode) = Vec(OkSet)
  BY <1>1, VecCodeIsCode, VecCodeIs
<1>3. ASSUME NEW x \in Vec(OkSet) PROVE VecCode(SetCode)[x] = SetsBytes(x)
  <2>1. VecCode(SetCode)[x] = VarU64(Len(x)) \o FlattenSeq([i \in DOMAIN x |-> SetCode[x[i]]])
    BY <1>1 DEF VecCode, Cat
  <2>2. \A i \in DOMAIN x : SetCode[x[i]] = SetBytes(x[i])
    <3>1. \A i \in DOMAIN x : x[i] \in OkSet
      BY DEF Vec
    <3> QED
      BY <1>1, <3>1
  <2>3. [i \in DOMAIN x |-> SetCode[x[i]]] = [i \in DOMAIN x |-> SetBytes(x[i])]
    BY <2>2
  <2>4. SetsBytes(x) = VarU64(Len(x)) \o FlattenSeq([i \in DOMAIN x |-> SetBytes(x[i])])
    BY DEF SetsBytes, VecBytes, All
  <2> QED
    BY <2>1, <2>3, <2>4
<1> QED
  BY <1>2, <1>3

\* The reader of the sets of an operation.
LEMMA ReadSetsParsed ==
    ASSUME NEW r, r.ok, r.rest \in Str
    PROVE  Parsed(ReadSets(r), VecCode(SetCode), r.rest)
<1>1. PICK n, p : n = ReadVar(r) /\ p = ReadSets(r)
  OBVIOUS
<1>2. Parsed(n, VarCode, r.rest)
  BY <1>1, ReadVarParsed
<1> DEFINE Solves(g) == g = [i \in 0 .. n.val |->
                IF i = 0 THEN (IF n.ok THEN Good(<<>>, n.rest) ELSE Failed)
                ELSE Behind(g[i - 1], ReadSet(g[i - 1]))]
           read == CHOOSE g : Solves(g)
           next == [k \in 1 .. n.val |-> ReadSet(read[k - 1])]
<1>3. p = IF n.ok /\ n.val <= Len(n.rest) THEN read[n.val] ELSE Failed
  BY <1>1 DEF ReadSets, ReadVec, VecOf, Into, ReadNext
<1>4. /\ IsCode(SetCode) /\ NoneEmpty(SetCode) /\ DOMAIN SetCode = OkSet
  BY SetIs
<1>5. n.ok => ReadsOneByOne(read, next, Same(SetCode), n.rest, n.val)
  <2>1. SUFFICES ASSUME n.ok PROVE ReadsOneByOne(read, next, Same(SetCode), n.rest, n.val)
    OBVIOUS
  <2>2. n.val \in Nat /\ n.rest \in Str
    <3>1. n.val \in DOMAIN VarCode /\ n.rest \in Str
      BY <1>2, <2>1, ParsedIs
    <3>2. n.val \in U64
      BY <3>1 DEF VarCode
    <3> QED
      BY <3>1, <3>2, MaxU64Is DEF U64
  <2> DEFINE reads == [k \in 1 .. n.val |-> [o \in Outcomes(OkSet) |-> ReadSet(o)]]
             start == Good(<<>>, n.rest)
  <2>3. AreCodes(Same(SetCode), OkSet, n.val)
    BY <1>4, <2>2, SameIs
  <2>4. \A k \in 1 .. n.val : Same(SetCode)[k] = SetCode
    BY <2>2 DEF Same
  <2>5. start \in Outcomes(OkSet)
    <3>1. <<>> \in Seq(OkSet)
      OBVIOUS
    <3> QED
      BY <2>2, <3>1, OutcomesAre
  <2>6. \A k \in 1 .. n.val : \A o \in Outcomes(OkSet) : o.ok
            => Parsed(reads[k][o], Same(SetCode)[k], o.rest)
    <3>1. ASSUME NEW k \in 1 .. n.val, NEW o \in Outcomes(OkSet), o.ok
          PROVE  Parsed(reads[k][o], Same(SetCode)[k], o.rest)
      <4>1. reads[k][o] = ReadSet(o)
        OBVIOUS
      <4>2. o.rest \in Str
        BY <3>1, OutcomesAre
      <4>3. Parsed(ReadSet(o), SetCode, o.rest)
        BY <3>1, <4>2, SetParsed
      <4> QED
        BY <2>4, <4>1, <4>3
    <3> QED
      BY <3>1
  <2>7. PICK f : Runs(f, reads, OkSet, start, n.val)
    <3> HIDE DEF reads, start
    <3> QED
      BY <2>2, <2>3, <2>5, <2>6, RunsExist
  <2>8. /\ f \in [0 .. n.val -> Outcomes(OkSet)] /\ f[0] = start
        /\ \A k \in 1 .. n.val : f[k] = Behind(f[k - 1], reads[k][f[k - 1]])
    BY <2>7 DEF Runs
  <2>9. \A k \in 1 .. n.val : f[k] = Behind(f[k - 1], ReadSet(f[k - 1]))
    <3>1. ASSUME NEW k \in 1 .. n.val PROVE f[k] = Behind(f[k - 1], ReadSet(f[k - 1]))
      <4>1. f[k - 1] \in Outcomes(OkSet)
        BY <2>2, <2>8
      <4>2. reads[k][f[k - 1]] = ReadSet(f[k - 1])
        BY <4>1
      <4> QED
        BY <2>8, <4>2
    <3> QED
      BY <3>1
  <2>10. Solves(f)
    <3>1. \A i \in 0 .. n.val : i # 0 => i \in 1 .. n.val
      BY <2>2
    <3>2. \A i \in 0 .. n.val : f[i] = IF i = 0 THEN (IF n.ok THEN Good(<<>>, n.rest) ELSE Failed)
                                        ELSE Behind(f[i - 1], ReadSet(f[i - 1]))
      BY <2>1, <2>8, <2>9, <3>1
    <3>3. f = [i \in 0 .. n.val |-> f[i]]
      BY <2>8
    <3> QED
      BY <3>2, <3>3
  <2>11. Solves(read)
    <3> HIDE DEF Solves
    <3> QED
      BY <2>10
  <2> HIDE DEF read
  <2>12. read[0] = Good(<<>>, n.rest)
             /\ \A k \in 1 .. n.val : read[k] = Behind(read[k - 1], ReadSet(read[k - 1]))
    <3>1. 0 \in 0 .. n.val /\ \A k \in 1 .. n.val : k \in 0 .. n.val /\ k # 0
      BY <2>2
    <3> QED
      BY <2>1, <2>11, <3>1
  <2>13. ASSUME NEW k \in 1 .. n.val PROVE read[k] = Behind(read[k - 1], next[k])
    BY <2>12
  <2>14. ASSUME NEW k \in 1 .. n.val, read[k - 1].ok, read[k - 1].rest \in Str
         PROVE  Parsed(next[k], Same(SetCode)[k], read[k - 1].rest)
    <3>1. next[k] = ReadSet(read[k - 1])
      OBVIOUS
    <3>2. PICK q : q = read[k - 1]
      OBVIOUS
    <3>3. Parsed(ReadSet(q), SetCode, q.rest)
      BY <2>14, <3>2, SetParsed
    <3> QED
      BY <2>4, <3>1, <3>2, <3>3
  <2> HIDE DEF next
  <2> QED
    BY <2>12, <2>13, <2>14 DEF ReadsOneByOne
<1> HIDE DEF read, next
<1>6. Parsed(p, VecCode(SetCode), r.rest)
  <2>1. /\ ~n.ok => p = Failed
        /\ n.ok => p = IF n.val <= Len(n.rest) THEN read[n.val] ELSE Failed
    BY <1>3
  <2> QED
    BY <1>2, <1>4, <1>5, <2>1, VecParsed
<1> QED
  BY <1>1, <1>6

ColumnBytes(c) == <<c>>
ColumnsBytes(x) == VecBytes(x, ColumnBytes)

\* The code of the columns of a delete.
LEMMA ColumnsAre ==
    /\ DOMAIN VecCode(ByteCode) = Vec(Bytes)
    /\ \A x \in Vec(Bytes) : VecCode(ByteCode)[x] = ColumnsBytes(x)
    /\ IsCode(VecCode(ByteCode)) /\ NoneEmpty(VecCode(ByteCode))
<1>1. /\ IsCode(ByteCode) /\ DOMAIN ByteCode = Bytes
      /\ \A x \in Bytes : ByteCode[x] = ColumnBytes(x)
  BY CodesAre, CodesOfNumbers DEF ColumnBytes
<1>2. /\ IsCode(VecCode(ByteCode)) /\ NoneEmpty(VecCode(ByteCode))
      /\ DOMAIN VecCode(ByteCode) = Vec(Bytes)
  BY <1>1, VecCodeIsCode, VecCodeIs
<1>3. ASSUME NEW x \in Vec(Bytes) PROVE VecCode(ByteCode)[x] = ColumnsBytes(x)
  <2>1. VecCode(ByteCode)[x] = VarU64(Len(x)) \o FlattenSeq([i \in DOMAIN x |-> ByteCode[x[i]]])
    BY <1>1 DEF VecCode, Cat
  <2>2. \A i \in DOMAIN x : ByteCode[x[i]] = ColumnBytes(x[i])
    <3>1. \A i \in DOMAIN x : x[i] \in Bytes
      BY DEF Vec
    <3> QED
      BY <1>1, <3>1
  <2>3. [i \in DOMAIN x |-> ByteCode[x[i]]] = [i \in DOMAIN x |-> ColumnBytes(x[i])]
    BY <2>2
  <2>4. ColumnsBytes(x) = VarU64(Len(x)) \o FlattenSeq([i \in DOMAIN x |-> ColumnBytes(x[i])])
    BY DEF ColumnsBytes, VecBytes, All
  <2> QED
    BY <2>1, <2>3, <2>4
<1> QED
  BY <1>2, <1>3

\* The reader of the columns of a delete.
LEMMA ReadColumnsParsed ==
    ASSUME NEW r, r.ok, r.rest \in Str
    PROVE  Parsed(ReadColumns(r), VecCode(ByteCode), r.rest)
<1>1. PICK n, p : n = ReadVar(r) /\ p = ReadColumns(r)
  OBVIOUS
<1>2. Parsed(n, VarCode, r.rest)
  BY <1>1, ReadVarParsed
<1> DEFINE Solves(g) == g = [i \in 0 .. n.val |->
                IF i = 0 THEN (IF n.ok THEN Good(<<>>, n.rest) ELSE Failed)
                ELSE Behind(g[i - 1], ReadByte(g[i - 1]))]
           read == CHOOSE g : Solves(g)
           next == [k \in 1 .. n.val |-> ReadByte(read[k - 1])]
<1>3. p = IF n.ok /\ n.val <= Len(n.rest) THEN read[n.val] ELSE Failed
  BY <1>1 DEF ReadColumns, ReadVec, VecOf, Into, ReadNext
<1>4. /\ IsCode(ByteCode) /\ NoneEmpty(ByteCode) /\ DOMAIN ByteCode = Bytes
  BY CodesAre, CodesOfNumbers, NumbersNoneEmpty
<1>5. n.ok => ReadsOneByOne(read, next, Same(ByteCode), n.rest, n.val)
  <2>1. SUFFICES ASSUME n.ok PROVE ReadsOneByOne(read, next, Same(ByteCode), n.rest, n.val)
    OBVIOUS
  <2>2. n.val \in Nat /\ n.rest \in Str
    <3>1. n.val \in DOMAIN VarCode /\ n.rest \in Str
      BY <1>2, <2>1, ParsedIs
    <3>2. n.val \in U64
      BY <3>1 DEF VarCode
    <3> QED
      BY <3>1, <3>2, MaxU64Is DEF U64
  <2> DEFINE reads == [k \in 1 .. n.val |-> [o \in Outcomes(Bytes) |-> ReadByte(o)]]
             start == Good(<<>>, n.rest)
  <2>3. AreCodes(Same(ByteCode), Bytes, n.val)
    BY <1>4, <2>2, SameIs
  <2>4. \A k \in 1 .. n.val : Same(ByteCode)[k] = ByteCode
    BY <2>2 DEF Same
  <2>5. start \in Outcomes(Bytes)
    <3>1. <<>> \in Seq(Bytes)
      OBVIOUS
    <3> QED
      BY <2>2, <3>1, OutcomesAre
  <2>6. \A k \in 1 .. n.val : \A o \in Outcomes(Bytes) : o.ok
            => Parsed(reads[k][o], Same(ByteCode)[k], o.rest)
    <3>1. ASSUME NEW k \in 1 .. n.val, NEW o \in Outcomes(Bytes), o.ok
          PROVE  Parsed(reads[k][o], Same(ByteCode)[k], o.rest)
      <4>1. reads[k][o] = ReadByte(o)
        OBVIOUS
      <4>2. o.rest \in Str
        BY <3>1, OutcomesAre
      <4>3. Parsed(ReadByte(o), ByteCode, o.rest)
        BY <3>1, <4>2, ReadByteParsed
      <4> QED
        BY <2>4, <4>1, <4>3
    <3> QED
      BY <3>1
  <2>7. PICK f : Runs(f, reads, Bytes, start, n.val)
    <3> HIDE DEF reads, start
    <3> QED
      BY <2>2, <2>3, <2>5, <2>6, RunsExist
  <2>8. /\ f \in [0 .. n.val -> Outcomes(Bytes)] /\ f[0] = start
        /\ \A k \in 1 .. n.val : f[k] = Behind(f[k - 1], reads[k][f[k - 1]])
    BY <2>7 DEF Runs
  <2>9. \A k \in 1 .. n.val : f[k] = Behind(f[k - 1], ReadByte(f[k - 1]))
    <3>1. ASSUME NEW k \in 1 .. n.val PROVE f[k] = Behind(f[k - 1], ReadByte(f[k - 1]))
      <4>1. f[k - 1] \in Outcomes(Bytes)
        BY <2>2, <2>8
      <4>2. reads[k][f[k - 1]] = ReadByte(f[k - 1])
        BY <4>1
      <4> QED
        BY <2>8, <4>2
    <3> QED
      BY <3>1
  <2>10. Solves(f)
    <3>1. \A i \in 0 .. n.val : i # 0 => i \in 1 .. n.val
      BY <2>2
    <3>2. \A i \in 0 .. n.val : f[i] = IF i = 0 THEN (IF n.ok THEN Good(<<>>, n.rest) ELSE Failed)
                                        ELSE Behind(f[i - 1], ReadByte(f[i - 1]))
      BY <2>1, <2>8, <2>9, <3>1
    <3>3. f = [i \in 0 .. n.val |-> f[i]]
      BY <2>8
    <3> QED
      BY <3>2, <3>3
  <2>11. Solves(read)
    <3> HIDE DEF Solves
    <3> QED
      BY <2>10
  <2> HIDE DEF read
  <2>12. read[0] = Good(<<>>, n.rest)
             /\ \A k \in 1 .. n.val : read[k] = Behind(read[k - 1], ReadByte(read[k - 1]))
    <3>1. 0 \in 0 .. n.val /\ \A k \in 1 .. n.val : k \in 0 .. n.val /\ k # 0
      BY <2>2
    <3> QED
      BY <2>1, <2>11, <3>1
  <2>13. ASSUME NEW k \in 1 .. n.val PROVE read[k] = Behind(read[k - 1], next[k])
    BY <2>12
  <2>14. ASSUME NEW k \in 1 .. n.val, read[k - 1].ok, read[k - 1].rest \in Str
         PROVE  Parsed(next[k], Same(ByteCode)[k], read[k - 1].rest)
    <3>1. next[k] = ReadByte(read[k - 1])
      OBVIOUS
    <3>2. PICK q : q = read[k - 1]
      OBVIOUS
    <3>3. Parsed(ReadByte(q), ByteCode, q.rest)
      BY <2>14, <3>2, ReadByteParsed
    <3> QED
      BY <2>4, <3>1, <3>2, <3>3
  <2> HIDE DEF next
  <2> QED
    BY <2>12, <2>13, <2>14 DEF ReadsOneByOne
<1> HIDE DEF read, next
<1>6. Parsed(p, VecCode(ByteCode), r.rest)
  <2>1. /\ ~n.ok => p = Failed
        /\ n.ok => p = IF n.val <= Len(n.rest) THEN read[n.val] ELSE Failed
    BY <1>3
  <2> QED
    BY <1>2, <1>4, <1>5, <2>1, VecParsed
<1> QED
  BY <1>1, <1>6

-----------------------------------------------------------------------------
(* Operations *)

UpsertSet ==
    {op \in [is : {"upsert"}, table : Fixed(2), pk : Seq(Values), sets : Vec(OkSet), nulls :
        Vec(Bytes)] :
        KeyOk(op.table, op.pk)}
DeleteSet ==
    {op \in [is : {"delete"}, table : Fixed(2), pk : Seq(Values)] : KeyOk(op.table, op.pk)}
UpsertCode ==
    [op \in UpsertSet |->
        Cat(Cat(KeyBytes(op.table, op.pk), SetsBytes(op.sets)), ColumnsBytes(op.nulls))]
DeleteCode == [op \in DeleteSet |-> KeyBytes(op.table, op.pk)]
UpsertTuples == Three(OpKeyCode, VecCode(SetCode), VecCode(ByteCode))
UpsertOf ==
    [v \in DOMAIN UpsertTuples |->
        [is |-> "upsert", table |-> v[1][1], pk |-> v[1][2], sets |-> v[2], nulls |-> v[3]]]
DeleteOf == [u \in OkKeys |-> [is |-> "delete", table |-> u[1], pk |-> u[2]]]

\* A key is a table and its values.
LEMMA OkKeysAre ==
    /\ \A t, pk : t \in Fixed(2) /\ pk \in Seq(Values) /\ KeyOk(t, pk) => <<t, pk>> \in OkKeys
    /\ \A u \in OkKeys : u[1] \in Fixed(2) /\ u[2] \in Seq(Values) /\ KeyOk(u[1], u[2])
    /\ \A t, pk : <<t, pk>>[1] = t /\ <<t, pk>>[2] = pk
  BY DEF OkKeys

\* The code of Upsert.
LEMMA UpsertIs ==
    /\ DOMAIN UpsertCode = UpsertSet
    /\ IsCode(UpsertCode)
    /\ Renames(UpsertOf, UpsertTuples, UpsertCode)
<1> DEFINE T == Three(OpKeyCode, VecCode(SetCode), VecCode(ByteCode))
<1>c. IsCode(OpKeyCode) /\ IsCode(VecCode(SetCode)) /\ IsCode(VecCode(ByteCode))
  BY OpKeyIs, SetsAre, ColumnsAre
<1>t1. IsCode(One(OpKeyCode))
  BY <1>c, OneIs
<1>t2. IsCode(Two(OpKeyCode, VecCode(SetCode)))
  BY <1>c, <1>t1, TwoIs
<1>t3. IsCode(Three(OpKeyCode, VecCode(SetCode), VecCode(ByteCode)))
  BY <1>c, <1>t2, ThreeIs
<1>d1. DOMAIN OpKeyCode = OkKeys /\ \A y \in OkKeys : OpKeyCode[y] = KeyBytes(y[1], y[2])
  BY OpKeyIs
<1>d2. DOMAIN VecCode(SetCode) = Vec(OkSet) /\ \A y \in Vec(OkSet) : VecCode(SetCode)[y] = SetsBytes(y)
  BY SetsAre
<1>d3. DOMAIN VecCode(ByteCode) = Vec(Bytes)
           /\ \A y \in Vec(Bytes) : VecCode(ByteCode)[y] = ColumnsBytes(y)
  BY ColumnsAre
<1>1. /\ \A a \in OkKeys, b \in Vec(OkSet), c \in Vec(Bytes) : <<a, b, c>> \in DOMAIN T
      /\ \A a \in OkKeys, b \in Vec(OkSet), c \in Vec(Bytes) :
            T[<<a, b, c>>] = Cat(Cat(KeyBytes(a[1], a[2]), SetsBytes(b)), ColumnsBytes(c))
      /\ \A v \in DOMAIN T : \E a \in OkKeys, b \in Vec(OkSet), c \in Vec(Bytes) : v = <<a, b, c>>
  BY <1>d1, <1>d2, <1>d3, ThreeTuples
<1>2. /\ DOMAIN UpsertCode = UpsertSet
      /\ \A op \in UpsertSet : UpsertCode[op] =
            Cat(Cat(KeyBytes(op.table, op.pk), SetsBytes(op.sets)), ColumnsBytes(op.nulls))
  BY DEF UpsertCode
<1>3. /\ DOMAIN UpsertOf = DOMAIN T
      /\ \A v \in DOMAIN T : UpsertOf[v] =
            [is |-> "upsert", table |-> v[1][1], pk |-> v[1][2], sets |-> v[2], nulls |-> v[3]]
  BY DEF UpsertOf, UpsertTuples
<1> HIDE DEF T
<1>4. Renames(UpsertOf, T, UpsertCode)
  <2>1. ASSUME NEW a \in OkKeys, NEW b \in Vec(OkSet), NEW c \in Vec(Bytes)
        PROVE  UpsertOf[<<a, b, c>>] \in UpsertSet /\ UpsertCode[UpsertOf[<<a, b, c>>]] = T[<<a, b, c>>]
    <3>1. PICK t, pk : t = a[1] /\ pk = a[2]
      OBVIOUS
    <3>2. t \in Fixed(2) /\ pk \in Seq(Values) /\ KeyOk(t, pk)
      BY <3>1, OkKeysAre
    <3>3. PICK x : x = [is |-> "upsert", table |-> t, pk |-> pk, sets |-> b, nulls |-> c]
      OBVIOUS
    <3>4. UpsertOf[<<a, b, c>>] = x
      <4>1. PICK v : v = <<a, b, c>>
        OBVIOUS
      <4>2. v \in DOMAIN T /\ v[1] = a /\ v[2] = b /\ v[3] = c
        BY <1>1, <4>1
      <4>3. UpsertOf[v] = [is |-> "upsert", table |-> a[1], pk |-> a[2], sets |-> b, nulls |-> c]
        BY <1>3, <4>2
      <4> QED
        BY <3>1, <3>3, <4>1, <4>3
    <3>5. x.table = t /\ x.pk = pk /\ x.sets = b /\ x.nulls = c
      BY <3>3
    <3>6. x \in UpsertSet
      BY <3>2, <3>3 DEF UpsertSet
    <3>7. T[<<a, b, c>>] = Cat(Cat(KeyBytes(t, pk), SetsBytes(b)), ColumnsBytes(c))
      BY <1>1, <3>1
    <3> QED
      BY <1>2, <3>4, <3>5, <3>6, <3>7
  <2>2. ASSUME NEW x \in UpsertSet PROVE \E v \in DOMAIN T : UpsertOf[v] = x
    <3>1. /\ x.table \in Fixed(2) /\ x.pk \in Seq(Values) /\ KeyOk(x.table, x.pk)
          /\ x.sets \in Vec(OkSet) /\ x.nulls \in Vec(Bytes)
      BY DEF UpsertSet
    <3>2. x = [is |-> "upsert", table |-> x.table, pk |-> x.pk, sets |-> x.sets, nulls |-> x.nulls]
      BY DEF UpsertSet
    <3>3. PICK a : a = <<x.table, x.pk>>
      OBVIOUS
    <3>4. a \in OkKeys /\ a[1] = x.table /\ a[2] = x.pk
      BY <3>1, <3>3, OkKeysAre
    <3>5. PICK v : v = <<a, x.sets, x.nulls>>
      OBVIOUS
    <3>6. v \in DOMAIN T
      BY <1>1, <3>1, <3>4, <3>5
    <3>7. UpsertOf[v] = [is |-> "upsert", table |-> v[1][1], pk |-> v[1][2], sets |-> v[2],
              nulls |-> v[3]]
      BY <1>3, <3>6
    <3>8. v[1] = a /\ v[2] = x.sets /\ v[3] = x.nulls
      BY <3>5
    <3> QED
      BY <3>2, <3>4, <3>6, <3>7, <3>8
  <2>3. ASSUME NEW v \in DOMAIN T PROVE UpsertOf[v] \in UpsertSet /\ UpsertCode[UpsertOf[v]] = T[v]
    <3>1. PICK a \in OkKeys, b \in Vec(OkSet), c \in Vec(Bytes) : v = <<a, b, c>>
      BY <1>1
    <3> QED
      BY <2>1, <3>1
  <2> QED
    BY <1>2, <2>2, <2>3 DEF Renames
<1>5. IsCode(UpsertCode)
  BY <1>4, <1>t3 DEF T, Renames, IsCode
<1> QED
  BY <1>2, <1>4, <1>5 DEF T, UpsertTuples

\* The code of Delete.
LEMMA DeleteIs ==
    /\ DOMAIN DeleteCode = DeleteSet
    /\ IsCode(DeleteCode)
    /\ Renames(DeleteOf, OpKeyCode, DeleteCode)
<1>1. DOMAIN DeleteCode = DeleteSet /\ \A op \in DeleteSet : DeleteCode[op] = KeyBytes(op.table, op.pk)
  BY DEF DeleteCode
<1>2. DOMAIN OpKeyCode = OkKeys /\ (\A y \in OkKeys : OpKeyCode[y] = KeyBytes(y[1], y[2]))
          /\ IsCode(OpKeyCode)
  BY OpKeyIs
<1>3. \A u \in OkKeys : DeleteOf[u] = [is |-> "delete", table |-> u[1], pk |-> u[2]]
  BY DEF DeleteOf
<1>4. ASSUME NEW u \in OkKeys PROVE DeleteOf[u] \in DeleteSet /\ DeleteCode[DeleteOf[u]] = OpKeyCode[u]
  <2>1. PICK x : x = [is |-> "delete", table |-> u[1], pk |-> u[2]]
    OBVIOUS
  <2>2. x.table = u[1] /\ x.pk = u[2]
    BY <2>1
  <2>3. u[1] \in Fixed(2) /\ u[2] \in Seq(Values) /\ KeyOk(u[1], u[2])
    BY OkKeysAre
  <2>4. x \in DeleteSet
    BY <2>1, <2>3 DEF DeleteSet
  <2> QED
    BY <1>1, <1>2, <1>3, <2>1, <2>2, <2>4
<1>5. ASSUME NEW x \in DeleteSet PROVE \E u \in OkKeys : DeleteOf[u] = x
  <2>1. x.table \in Fixed(2) /\ x.pk \in Seq(Values) /\ KeyOk(x.table, x.pk)
    BY DEF DeleteSet
  <2>2. x = [is |-> "delete", table |-> x.table, pk |-> x.pk]
    BY DEF DeleteSet
  <2>3. PICK u : u = <<x.table, x.pk>>
    OBVIOUS
  <2>4. u \in OkKeys /\ u[1] = x.table /\ u[2] = x.pk
    BY <2>1, <2>3, OkKeysAre
  <2> QED
    BY <1>3, <2>2, <2>4
<1>6. Renames(DeleteOf, OpKeyCode, DeleteCode)
  BY <1>1, <1>2, <1>4, <1>5 DEF Renames
<1>7. IsCode(DeleteCode)
  BY <1>2, <1>6 DEF Renames, IsCode
<1> QED
  BY <1>1, <1>6, <1>7

\* Upsert::decode().
LEMMA UpsertParsed ==
    ASSUME NEW r, r.ok, r.rest \in Str
    PROVE  Parsed(ReadUpsert(r), UpsertCode, r.rest)
<1>c. IsCode(OpKeyCode) /\ IsCode(VecCode(SetCode)) /\ IsCode(VecCode(ByteCode))
  BY OpKeyIs, SetsAre, ColumnsAre
<1>t1. IsCode(One(OpKeyCode))
  BY <1>c, OneIs
<1>t2. IsCode(Two(OpKeyCode, VecCode(SetCode)))
           /\ Appends(One(OpKeyCode), VecCode(SetCode), Two(OpKeyCode, VecCode(SetCode)))
  BY <1>c, <1>t1, TwoIs
<1>t3. /\ IsCode(Three(OpKeyCode, VecCode(SetCode), VecCode(ByteCode)))
       /\ Appends(Two(OpKeyCode, VecCode(SetCode)), VecCode(ByteCode),
              Three(OpKeyCode, VecCode(SetCode), VecCode(ByteCode)))
  BY <1>c, <1>t2, ThreeIs
<1>p1. PICK n1, o1 : n1 = ReadKey(r) /\ o1 = First(n1)
  OBVIOUS
<1>q1. Parsed(n1, OpKeyCode, r.rest)
  BY <1>p1, ReadKeyParsed
<1>r1. Parsed(o1, One(OpKeyCode), r.rest)
  BY <1>p1, <1>q1, FirstParsed
<1>p2. PICK n2, o2 : n2 = ReadSets(o1) /\ o2 = Behind(o1, n2)
  OBVIOUS
<1>q2. o1.ok => Parsed(n2, VecCode(SetCode), o1.rest)
  <2>1. o1.ok => o1.rest \in Str
    BY <1>r1, ParsedIs
  <2> QED
    BY <1>p2, <2>1, ReadSetsParsed
<1>r2. Parsed(o2, Two(OpKeyCode, VecCode(SetCode)), r.rest)
  BY <1>c, <1>t1, <1>t2, <1>p2, <1>q2, <1>r1, BehindParsed
<1>p3. PICK n3, o3 : n3 = ReadColumns(o2) /\ o3 = Behind(o2, n3)
  OBVIOUS
<1>q3. o2.ok => Parsed(n3, VecCode(ByteCode), o2.rest)
  <2>1. o2.ok => o2.rest \in Str
    BY <1>r2, ParsedIs
  <2> QED
    BY <1>p3, <2>1, ReadColumnsParsed
<1>r3. Parsed(o3, Three(OpKeyCode, VecCode(SetCode), VecCode(ByteCode)), r.rest)
  BY <1>c, <1>t2, <1>t3, <1>p3, <1>q3, <1>r2, BehindParsed
<1>1. ReadUpsert(r) =
        IF o3.ok THEN Good([is |-> "upsert", table |-> o3.val[1][1], pk |-> o3.val[1][2],
                            sets |-> o3.val[2], nulls |-> o3.val[3]], o3.rest)
        ELSE Failed
  BY <1>p1, <1>p2, <1>p3 DEF ReadUpsert, ReadNext, ReadFirst, Into
<1>2. o3.ok => UpsertOf[o3.val] = [is |-> "upsert", table |-> o3.val[1][1], pk |-> o3.val[1][2],
                                   sets |-> o3.val[2], nulls |-> o3.val[3]]
  <2>1. o3.ok => o3.val \in DOMAIN UpsertTuples
    BY <1>r3, ParsedIs DEF UpsertTuples
  <2> QED
    BY <2>1 DEF UpsertOf
<1>3. /\ ~o3.ok => ReadUpsert(r) = Failed
      /\ o3.ok => ReadUpsert(r) = Good(UpsertOf[o3.val], o3.rest)
  BY <1>1, <1>2
<1>4. Renames(UpsertOf, Three(OpKeyCode, VecCode(SetCode), VecCode(ByteCode)), UpsertCode)
  BY UpsertIs DEF UpsertTuples
<1> QED
  BY <1>3, <1>4, <1>r3, IntoParsed

\* Delete::decode().
LEMMA DeleteParsed ==
    ASSUME NEW r, r.ok, r.rest \in Str
    PROVE  Parsed(ReadDelete(r), DeleteCode, r.rest)
<1>1. PICK k, p : k = ReadKey(r) /\ p = ReadDelete(r)
  OBVIOUS
<1>2. Parsed(k, OpKeyCode, r.rest)
  BY <1>1, ReadKeyParsed
<1>3. p = IF k.ok THEN Good([is |-> "delete", table |-> k.val[1], pk |-> k.val[2]], k.rest) ELSE Failed
  BY <1>1 DEF ReadDelete, Into
<1>4. k.ok => k.val \in OkKeys
  BY <1>2, ParsedIs, OpKeyIs
<1>5. k.ok => DeleteOf[k.val] = [is |-> "delete", table |-> k.val[1], pk |-> k.val[2]]
  BY <1>4 DEF DeleteOf
<1>6. (~k.ok => p = Failed) /\ (k.ok => p = Good(DeleteOf[k.val], k.rest))
  BY <1>3, <1>5
<1>7. Parsed(p, DeleteCode, r.rest)
  BY <1>2, <1>6, DeleteIs, IntoParsed
<1> QED
  BY <1>1, <1>7

OpTags == [t \in {0, 1} |-> IF t = 0 THEN UpsertCode ELSE DeleteCode]
OpCode == [op \in UpsertSet \cup DeleteSet |-> OpBytes(op)]

\* The code of Op.
LEMMA OpIs ==
    /\ DOMAIN OpCode = UpsertSet \cup DeleteSet
    /\ \A op \in UpsertSet \cup DeleteSet : OpCode[op] = OpBytes(op)
    /\ IsCode(OpCode)
    /\ DOMAIN OpTags = {0, 1} /\ OpTags[0] = UpsertCode /\ OpTags[1] = DeleteCode
    /\ Tags(OpTags, OpCode)
<1>1. DOMAIN OpCode = UpsertSet \cup DeleteSet /\ \A op \in UpsertSet \cup DeleteSet :
          OpCode[op] = OpBytes(op)
  BY DEF OpCode
<1>2. DOMAIN OpTags = {0, 1} /\ OpTags[0] = UpsertCode /\ OpTags[1] = DeleteCode
  BY DEF OpTags
<1>3. ASSUME NEW op \in UpsertSet PROVE OpBytes(op) = Cat(<<0>>, UpsertCode[op])
  <2>1. PICK k, s, n, t : /\ k = KeyBytes(op.table, op.pk) /\ s = SetsBytes(op.sets)
                          /\ n = ColumnsBytes(op.nulls) /\ t = <<0>>
    OBVIOUS
  <2>2. /\ op.is = "upsert" /\ op.table \in Fixed(2) /\ op.pk \in Seq(Values) /\ KeyOk(op.table, op.pk)
        /\ op.sets \in Vec(OkSet) /\ op.nulls \in Vec(Bytes)
    BY DEF UpsertSet
  <2>3. k \in Str
    <3>1. PICK u : u = <<op.table, op.pk>>
      OBVIOUS
    <3>2. u \in OkKeys /\ u[1] = op.table /\ u[2] = op.pk
      BY <2>2, <3>1, OkKeysAre
    <3> QED
      BY <2>1, <3>2, OpKeyIs DEF IsCode
  <2>4. s \in Str
    BY <2>1, <2>2, SetsAre DEF IsCode
  <2>5. n \in Str
    BY <2>1, <2>2, ColumnsAre DEF IsCode
  <2>6. t \in Str
    BY <2>1, TagBytes DEF Str
  <2>7. OpBytes(op) = Cat(Cat(Cat(t, k), s), n)
    <3>1. op.is # "delete"
      BY <2>2
    <3>2. OpBytes(op) = ((t \o k) \o VecBytes(op.sets, SetBytes)) \o VecBytes(op.nulls, ColumnBytes)
      BY <2>1, <3>1 DEF OpBytes, SetBytes, ColumnBytes
    <3> QED
      BY <2>1, <3>2 DEF Cat, SetsBytes, ColumnsBytes
  <2>8. UpsertCode[op] = Cat(Cat(k, s), n)
    BY <2>1 DEF UpsertCode
  <2>9. /\ Cat(Cat(t, k), s) = Cat(t, Cat(k, s)) /\ Cat(k, s) \in Str
    BY <2>3, <2>4, <2>6, CatIs
  <2>10. PICK ks : ks = Cat(k, s)
    OBVIOUS
  <2>11. Cat(Cat(t, ks), n) = Cat(t, Cat(ks, n))
    BY <2>5, <2>6, <2>9, <2>10, CatIs
  <2> QED
    BY <2>1, <2>7, <2>8, <2>9, <2>10, <2>11
<1>4. ASSUME NEW op \in DeleteSet PROVE OpBytes(op) = Cat(<<1>>, DeleteCode[op])
  <2>1. op.is = "delete"
    BY DEF DeleteSet
  <2>2. DeleteCode[op] = KeyBytes(op.table, op.pk)
    BY DEF DeleteCode
  <2> QED
    BY <2>1, <2>2 DEF OpBytes, Cat
<1>5. DOMAIN UpsertCode = UpsertSet /\ DOMAIN DeleteCode = DeleteSet
  BY UpsertIs, DeleteIs
<1>6. Tags(OpTags, OpCode)
  <2>1. ASSUME NEW t \in DOMAIN OpTags, NEW u, u \in DOMAIN OpTags[t]
        PROVE  u \in DOMAIN OpCode /\ OpCode[u] = Cat(<<t>>, OpTags[t][u])
    <3>1. CASE t = 0
      BY <1>1, <1>2, <1>3, <1>5, <2>1, <3>1
    <3>2. CASE t = 1
      BY <1>1, <1>2, <1>4, <1>5, <2>1, <3>2
    <3> QED
      BY <1>2, <3>1, <3>2
  <2>2. ASSUME NEW u \in DOMAIN OpCode PROVE \E t \in DOMAIN OpTags : u \in DOMAIN OpTags[t]
    BY <1>1, <1>2, <1>5
  <2> QED
    BY <2>1, <2>2 DEF Tags
<1>7. IsCode(OpCode)
  <2>1. DOMAIN OpTags \subseteq Bytes
    BY <1>2, TagBytes
  <2>2. \A t \in DOMAIN OpTags : IsCode(OpTags[t])
    BY <1>2, UpsertIs, DeleteIs
  <2> QED
    BY <1>6, <2>1, <2>2, TagsAreCode
<1> QED
  BY <1>1, <1>2, <1>6, <1>7

\* Codec::do_decode().
LEMMA ReadOpParsed ==
    ASSUME NEW bytes \in Str
    PROVE  ParsedAll(ReadOp(bytes), OpCode, bytes)
<1>1. PICK r, tag : r = Reader(bytes) /\ tag = ReadBit(r)
  OBVIOUS
<1>2. r.ok /\ r.rest = bytes
  BY <1>1, ReaderIs
<1>3. {0, 1} \in SUBSET Bytes
  BY TagBytes
<1>4. Parsed(tag, FlagCode({0, 1}), bytes)
  BY <1>1, <1>2, <1>3, ReadByteInParsed DEF ReadBit
<1>5. /\ ~tag.ok => tag = Failed
      /\ tag.ok => tag.rest \in Str /\ tag.val \in {0, 1}
  <2>1. DOMAIN FlagCode({0, 1}) = {0, 1}
    BY DEF FlagCode
  <2> QED
    BY <1>4, <2>1, ParsedIs
<1>6. PICK p : p = IF Tagged(tag, 0) THEN ReadUpsert(tag) ELSE ReadDelete(tag)
  OBVIOUS
<1>7. ReadOp(bytes) = RequireEmpty(p)
  BY <1>1, <1>6 DEF ReadOp
<1>8. ~tag.ok => p = Failed
  <2>1. ASSUME ~tag.ok PROVE p = Failed
    <3>1. p = ReadDelete(tag)
      BY <1>6, <2>1 DEF Tagged
    <3>2. ~ReadLe(tag, 2).ok
      BY <2>1, GoodIs DEF ReadLe, Into, ReadSlice
    <3>3. ReadPk(ReadLe(tag, 2)) = Failed
      BY <3>2 DEF ReadPk
    <3>4. ~ReadKey(tag).ok
      BY <3>3, GoodIs DEF ReadKey, Into
    <3> QED
      BY <3>1, <3>4 DEF ReadDelete, Into
  <2> QED
    BY <2>1
<1>9. tag.ok /\ tag.val = 0 => Parsed(p, UpsertCode, tag.rest)
  BY <1>5, <1>6, UpsertParsed DEF Tagged
<1>10. tag.ok /\ tag.val = 1 => Parsed(p, DeleteCode, tag.rest)
  BY <1>5, <1>6, DeleteParsed DEF Tagged
<1>11. DOMAIN OpTags = {0, 1} /\ Tags(OpTags, OpCode) /\ \A t \in DOMAIN OpTags : IsCode(OpTags[t])
  BY OpIs, UpsertIs, DeleteIs
<1>12. tag.ok /\ tag.val \in DOMAIN OpTags => Parsed(p, OpTags[tag.val], tag.rest)
  BY <1>5, <1>9, <1>10, OpIs
<1>13. tag.ok => tag.val \in DOMAIN OpTags
  BY <1>5, <1>11
<1>14. Parsed(p, OpCode, bytes)
  BY <1>3, <1>4, <1>8, <1>11, <1>12, <1>13, TagParsed
<1> QED
  BY <1>7, <1>14, RequireEmptyParsed

-----------------------------------------------------------------------------
(* What may be encoded, and what is valid *)

\* What the encoder takes, the reader knows.
LEMMA OpWritten ==
    ASSUME NEW op \in Operation, EncodeOpOk(op)
    PROVE  op \in DOMAIN OpCode /\ OpCode[op] = OpBytes(op)
<1>1. KeyOk(op.table, op.pk)
  BY DEF EncodeOpOk
<1>2. CASE op.is = "upsert"
  <2>1. op \in [is : {"upsert"}, table : Fixed(2), pk : Vec(Values), sets :
            Vec(ColumnSet), nulls : Vec(Bytes)]
    BY <1>2 DEF Operation
  <2>2. op.pk \in Seq(Values)
    BY <2>1 DEF Vec
  <2>3. op.sets \in Vec(OkSet)
    <3>1. SetsOk(op.sets)
      BY <1>2 DEF EncodeOpOk
    <3>2. op.sets \in Seq(ColumnSet) /\ Len(op.sets) <= MaxU64
      BY <2>1 DEF Vec
    <3>3. \A i \in DOMAIN op.sets : op.sets[i] \in OkSet
      BY <3>1, <3>2 DEF SetsOk, OkSet
    <3>4. op.sets \in Seq(OkSet)
      BY <3>2, <3>3
    <3> QED
      BY <3>2, <3>4 DEF Vec
  <2>4. op \in UpsertSet
    BY <1>1, <2>1, <2>2, <2>3 DEF UpsertSet
  <2> QED
    BY <2>4, OpIs
<1>3. CASE op.is # "upsert"
  <2>1. op \in [is : {"delete"}, table : Fixed(2), pk : Vec(Values)]
    BY <1>3 DEF Operation
  <2>2. op.pk \in Seq(Values)
    BY <2>1 DEF Vec
  <2>3. op \in DeleteSet
    BY <1>1, <2>1, <2>2 DEF DeleteSet
  <2> QED
    BY <2>3, OpIs
<1> QED
  BY <1>2, <1>3

\* As many different elements as there are places: none twice.
LEMMA InjectiveCount ==
    ASSUME NEW S, NEW q \in Seq(S)
    PROVE  /\ IsFiniteSet(ToSet(q))
           /\ IsInjective(q) <=> Cardinality(ToSet(q)) = Len(q)
<1>1. PICK n, T : n = Len(q) /\ T = ToSet(q)
  OBVIOUS
<1>2. n \in Nat /\ DOMAIN q = 1 .. n
  BY <1>1
<1>3. T = {q[i] : i \in 1 .. n}
  BY <1>1, <1>2 DEF ToSet
<1>4. q \in [1 .. n -> T]
  BY <1>1, <1>2, <1>3
<1>5. q \in Surjection(1 .. n, T)
  BY <1>3, <1>4 DEF Surjection
<1>6. IsFiniteSet(1 .. n) /\ Cardinality(1 .. n) = n
  <2>1. 1 \in Int /\ n \in Int
    BY <1>2
  <2>2. IsFiniteSet(1 .. n) /\ Cardinality(1 .. n) = IF 1 > n THEN 0 ELSE n - 1 + 1
    BY <2>1, FS_Interval
  <2> QED
    BY <1>2, <2>2
<1>7. /\ IsFiniteSet(T)
      /\ Cardinality(T) = Cardinality(1 .. n) <=> q \in Injection(1 .. n, T)
  BY <1>5, <1>6, FS_Surjection
<1>8. q \in Injection(1 .. n, T) <=> IsInjective(q)
  BY <1>4 DEF Injection
<1> QED
  BY <1>1, <1>6, <1>7, <1>8

\* The columns of an upsert, and their number.
LEMMA NamedColumnsAre ==
    ASSUME NEW op \in UpsertSet
    PROVE  /\ NamedColumns(op) \in Seq(Bytes)
           /\ Len(NamedColumns(op)) = Len(op.sets) + Len(op.nulls)
           /\ ToSet(NamedColumns(op)) = {s.column : s \in ToSet(op.sets)} \cup ToSet(op.nulls)
<1>1. PICK sets, nulls : sets = op.sets /\ nulls = op.nulls
  OBVIOUS
<1>2. sets \in Seq(OkSet) /\ nulls \in Seq(Bytes)
  BY <1>1 DEF UpsertSet, Vec
<1>3. PICK c : c = [i \in DOMAIN sets |-> sets[i].column]
  OBVIOUS
<1>4. c \in Seq(Bytes) /\ Len(c) = Len(sets) /\ DOMAIN c = DOMAIN sets
  <2>1. DOMAIN sets = 1 .. Len(sets) /\ Len(sets) \in Nat
    BY <1>2
  <2>2. \A i \in DOMAIN sets : sets[i].column \in Bytes
    <3>1. \A i \in DOMAIN sets : sets[i] \in OkSet
      BY <1>2
    <3> QED
      BY <3>1 DEF OkSet, ColumnSet
  <2> QED
    BY <1>3, <2>1, <2>2
<1>5. PICK q : q = c \o nulls
  OBVIOUS
<1>6. NamedColumns(op) = q
  BY <1>1, <1>3, <1>5 DEF NamedColumns
<1>7. /\ q \in Seq(Bytes) /\ Len(q) = Len(c) + Len(nulls) /\ DOMAIN q = 1 .. Len(c) + Len(nulls)
      /\ \A i \in 1 .. Len(c) : q[i] = c[i]
      /\ \A i \in 1 .. Len(nulls) : q[Len(c) + i] = nulls[i]
      /\ \A i \in 1 .. Len(c) + Len(nulls) : i > Len(c) => i - Len(c) \in 1 .. Len(nulls)
             /\ q[i] = nulls[i - Len(c)]
  <2>1. q \in Seq(Bytes) /\ Len(q) = Len(c) + Len(nulls) /\ DOMAIN q = 1 .. Len(c) + Len(nulls)
    <3>1. c \in Seq(Bytes) /\ nulls \in Seq(Bytes)
      BY <1>2, <1>4
    <3>2. c \o nulls \in Seq(Bytes) /\ Len(c \o nulls) = Len(c) + Len(nulls)
      BY <3>1, ConcatProperties
    <3> QED
      BY <1>5, <3>2
  <2>2. \A i \in 1 .. Len(c) : q[i] = c[i]
    BY <1>2, <1>4, <1>5
  <2>3. Len(c) \in Nat /\ Len(nulls) \in Nat
    BY <1>2, <1>4
  <2>4. \A i \in 1 .. Len(c) + Len(nulls) : i > Len(c) => i - Len(c) \in 1 .. Len(nulls)
            /\ q[i] = nulls[i - Len(c)]
    BY <1>2, <1>4, <1>5, <2>3
  <2>5. ASSUME NEW i \in 1 .. Len(nulls) PROVE q[Len(c) + i] = nulls[i]
    <3>1. PICK k : k = Len(c) + i
      OBVIOUS
    <3>2. k \in 1 .. Len(c) + Len(nulls) /\ k > Len(c) /\ k - Len(c) = i
      BY <2>3, <3>1
    <3> QED
      BY <2>4, <3>1, <3>2
  <2> QED
    BY <2>1, <2>2, <2>4, <2>5
<1>8. /\ Len(c) \in Nat /\ Len(nulls) \in Nat
      /\ DOMAIN c = 1 .. Len(c) /\ DOMAIN nulls = 1 .. Len(nulls)
  BY <1>2, <1>4
<1>9. {s.column : s \in ToSet(sets)} = ToSet(c)
  BY <1>3, <1>4 DEF ToSet
<1>10. ToSet(q) \subseteq ToSet(c) \cup ToSet(nulls)
  <2>1. ASSUME NEW i \in DOMAIN q PROVE q[i] \in ToSet(c) \cup ToSet(nulls)
    <3>1. i \in 1 .. Len(c) + Len(nulls)
      BY <1>7
    <3>2. CASE i > Len(c)
      <4>1. i - Len(c) \in DOMAIN nulls /\ q[i] = nulls[i - Len(c)]
        BY <1>7, <1>8, <3>1, <3>2
      <4> QED
        BY <4>1 DEF ToSet
    <3>3. CASE ~(i > Len(c))
      <4>1. i \in DOMAIN c /\ q[i] = c[i]
        BY <1>7, <1>8, <3>1, <3>3
      <4> QED
        BY <4>1 DEF ToSet
    <3> QED
      BY <3>2, <3>3
  <2> QED
    BY <2>1 DEF ToSet
<1>11. ToSet(c) \cup ToSet(nulls) \subseteq ToSet(q)
  <2>1. ASSUME NEW i \in DOMAIN c PROVE c[i] \in ToSet(q)
    <3>1. i \in DOMAIN q /\ q[i] = c[i]
      BY <1>7, <1>8
    <3> QED
      BY <3>1 DEF ToSet
  <2>2. ASSUME NEW i \in DOMAIN nulls PROVE nulls[i] \in ToSet(q)
    <3>1. Len(c) + i \in DOMAIN q /\ q[Len(c) + i] = nulls[i]
      BY <1>7, <1>8
    <3> QED
      BY <3>1 DEF ToSet
  <2> QED
    BY <2>1, <2>2 DEF ToSet
<1> QED
  BY <1>1, <1>4, <1>6, <1>7, <1>9, <1>10, <1>11

\* Encoding and validation agree on all but repeated columns.
LEMMA RefusedForRepeatsIs ==
    ASSUME NEW op \in UpsertSet \cup DeleteSet
    PROVE  RefusedForRepeats(op)
<1>1. KeyOk(op.table, op.pk) /\ op.is \in {"upsert", "delete"}
  BY DEF UpsertSet, DeleteSet
<1>2. ValidPk(op.table, op.pk)
  BY <1>1 DEF KeyOk, ValidPk, ValueOk
<1>3. CASE op.is = "upsert"
  <2>1. op \in UpsertSet
    BY <1>3 DEF DeleteSet
  <2>2. op.sets \in Seq(OkSet)
    BY <2>1 DEF UpsertSet, Vec
  <2>3. \A i \in DOMAIN op.sets : op.sets[i] \in OkSet
    BY <2>2
  <2>4. \A i \in DOMAIN op.sets : ValueOk(ColumnType(op.sets[i].column), op.sets[i].value)
    BY <2>3 DEF OkSet
  <2>5. EncodeOpOk(op)
    BY <1>1, <2>4 DEF EncodeOpOk, SetsOk
  <2>6. \A s \in ToSet(op.sets) : s.value.type = ColumnType(s.column)
    BY <2>4 DEF ToSet, ValueOk
  <2>7. Validate(op) <=> IsInjective(NamedColumns(op))
    BY <1>2, <1>3, <2>6 DEF Validate
  <2>8. /\ NamedColumns(op) \in Seq(Bytes)
        /\ Len(NamedColumns(op)) = Len(op.sets) + Len(op.nulls)
        /\ ToSet(NamedColumns(op)) = {s.column : s \in ToSet(op.sets)} \cup ToSet(op.nulls)
    BY <2>1, NamedColumnsAre
  <2>9. IsInjective(NamedColumns(op)) <=> Cardinality(ToSet(NamedColumns(op))) = Len(NamedColumns(op))
    BY <2>8, InjectiveCount
  <2> QED
    BY <1>3, <2>5, <2>7, <2>8, <2>9 DEF RefusedForRepeats
<1>4. CASE op.is # "upsert"
  <2>1. EncodeOpOk(op) /\ Validate(op)
    BY <1>1, <1>2, <1>4 DEF EncodeOpOk, Validate
  <2>2. Cardinality({}) = 0
    BY FS_EmptySet
  <2> QED
    BY <1>4, <2>1, <2>2 DEF RefusedForRepeats
<1> QED
  BY <1>3, <1>4

\* What decode() accepts is valid, and valid operations are accepted.
LEMMA ReadOpsAgree ==
    ASSUME NEW bytes \in Str
    PROVE  ChecksAgree(ReadOp(bytes))
<1>1. PICK o : o = ReadOp(bytes)
  OBVIOUS
<1>2. ParsedAll(o, OpCode, bytes)
  BY <1>1, ReadOpParsed
<1>3. o.ok => o.val \in UpsertSet \cup DeleteSet
  BY <1>2, ParsedAllIs, OpIs
<1> QED
  BY <1>1, <1>3, RefusedForRepeatsIs DEF ChecksAgree

-----------------------------------------------------------------------------
(* Cells *)

ColTypeNames ==
    {"u64", "i64", "timestamp", "bytes", "array", "uuid", "cipher", "signature", "commit_err",
        "head_err"}

\* The cell of a value, on its way through sea_query and into SQLite.
CellOf(param) == Stored(FromSeaValue(SeaValue(param)))

CellSet(type) == {v \in ColumnValue(type) : ToDbOk(type, v)}
CellCode(type) == [v \in CellSet(type) |-> CellOf(ToDb(type, v))]

\* What is stored of a parameter, whatever is in it.
LEMMA CellOfIs ==
    /\ CellOf(Null) = Null
    /\ \A n : CellOf(IntegerCell(n)) = IntegerCell(n)
    /\ \A b : CellOf(BlobCell(b)) = BlobCell(b)
    /\ \A b : CellOf(UuidCell(b)) = BlobCell(b)
<1>1. CellOf(Null) = Null
  <2>1. Null[1] = "null" /\ IsA("null", Null)
    BY DEF Null, IsA
  <2>2. SeaValue(Null) = <<"bytes", <<>>>>
    <3>1. PICK c : c = Null
      OBVIOUS
    <3>2. SeaValue(c) = <<"bytes", <<>>>>
      BY <2>1, <3>1 DEF SeaValue, IsA
    <3> QED
      BY <3>1, <3>2
  <2>3. FromSeaValue(<<"bytes", <<>>>>) = Null
    BY DEF FromSeaValue
  <2>4. Stored(Null) = Null
    BY DEF Stored, IsA, Null
  <2> QED
    BY <2>2, <2>3, <2>4 DEF CellOf
<1>2. ASSUME NEW n PROVE CellOf(IntegerCell(n)) = IntegerCell(n)
  <2>1. PICK c : c = IntegerCell(n)
    OBVIOUS
  <2>2. c[1] = "integer" /\ c[2] = n
    BY <2>1 DEF IntegerCell
  <2>3. SeaValue(c) = <<"big_int", <<n>>>>
    BY <2>2 DEF SeaValue, IsA
  <2>4. PICK v : v = <<"big_int", <<n>>>>
    OBVIOUS
  <2>5. v[1] = "big_int" /\ v[2] # <<>> /\ v[2][1] = n
    BY <2>4
  <2>6. FromSeaValue(v) = c
    BY <2>1, <2>5 DEF FromSeaValue
  <2>7. Stored(c) = c
    BY <2>2 DEF Stored, IsA
  <2> QED
    BY <2>1, <2>3, <2>4, <2>6, <2>7 DEF CellOf
<1>3. ASSUME NEW n PROVE CellOf(BlobCell(n)) = BlobCell(n)
  <2>1. PICK c : c = BlobCell(n)
    OBVIOUS
  <2>2. c[1] = "blob" /\ c[2] = n
    BY <2>1 DEF BlobCell
  <2>3. SeaValue(c) = <<"bytes", <<n>>>>
    BY <2>2 DEF SeaValue, IsA
  <2>4. PICK v : v = <<"bytes", <<n>>>>
    OBVIOUS
  <2>5. v[1] = "bytes" /\ v[2] # <<>> /\ v[2][1] = n
    BY <2>4
  <2>6. FromSeaValue(v) = c
    BY <2>1, <2>5 DEF FromSeaValue
  <2>7. Stored(c) = c
    BY <2>2 DEF Stored, IsA
  <2> QED
    BY <2>1, <2>3, <2>4, <2>6, <2>7 DEF CellOf
<1>4. ASSUME NEW n PROVE CellOf(UuidCell(n)) = BlobCell(n)
  <2>1. PICK c : c = UuidCell(n)
    OBVIOUS
  <2>2. c[1] = "uuid" /\ c[2] = n
    BY <2>1 DEF UuidCell
  <2>3. SeaValue(c) = <<"uuid", <<n>>>>
    BY <2>2 DEF SeaValue, IsA
  <2>4. PICK v : v = <<"uuid", <<n>>>>
    OBVIOUS
  <2>5. v[1] = "uuid" /\ v[2] # <<>> /\ v[2][1] = n
    BY <2>4
  <2>6. FromSeaValue(v) = c
    BY <2>1, <2>5 DEF FromSeaValue
  <2>7. Stored(c) = BlobCell(n)
    BY <2>2 DEF Stored, IsA
  <2> QED
    BY <2>1, <2>3, <2>4, <2>6, <2>7 DEF CellOf
<1> QED
  BY <1>1, <1>2, <1>3, <1>4

\* The classes of cells.
LEMMA CellsAre ==
    /\ \A b \in Str : BlobCell(b) \in Cell /\ TextCell(b) \in Cell
    /\ \A n \in I64 : IntegerCell(n) \in Cell
    /\ Null \in Cell /\ IsA("null", Null)
    /\ \A b : IsA("blob", BlobCell(b)) /\ BlobCell(b)[2] = b /\ ~IsA("null", BlobCell(b))
    /\ \A n : IsA("integer", IntegerCell(n)) /\ IntegerCell(n)[2] = n /\ ~IsA("null", IntegerCell(n))
    /\ \A c \in Cell : /\ ~IsA("uuid", c)
                       /\ IsA("blob", c) => c[2] \in Str /\ c = BlobCell(c[2])
                       /\ IsA("integer", c) => c[2] \in I64 /\ c = IntegerCell(c[2])
                       /\ IsA("null", c) => c = Null
<1>1. ASSUME NEW b \in Str PROVE BlobCell(b) \in Cell /\ TextCell(b) \in Cell
  BY DEF Cell, BlobCell, TextCell
<1>2. ASSUME NEW n \in I64 PROVE IntegerCell(n) \in Cell
  BY DEF Cell, IntegerCell
<1>3. Null \in Cell /\ IsA("null", Null)
  BY DEF Cell, Null, IsA
<1>4. \A b : IsA("blob", BlobCell(b)) /\ BlobCell(b)[2] = b /\ ~IsA("null", BlobCell(b))
  BY DEF IsA, BlobCell
<1>5. \A n : IsA("integer", IntegerCell(n)) /\ IntegerCell(n)[2] = n /\ ~IsA("null", IntegerCell(n))
  BY DEF IsA, IntegerCell
<1>6. ASSUME NEW c \in Cell
      PROVE  /\ ~IsA("uuid", c)
             /\ IsA("blob", c) => c[2] \in Str /\ c = BlobCell(c[2])
             /\ IsA("integer", c) => c[2] \in I64 /\ c = IntegerCell(c[2])
             /\ IsA("null", c) => c = Null
  <2>1. CASE c = Null
    BY <2>1 DEF Null, IsA
  <2>2. CASE c \in {"integer"} \X I64
    BY <2>2 DEF IsA, IntegerCell
  <2>3. CASE c \in {"text", "blob"} \X Str
    BY <2>3 DEF IsA, BlobCell
  <2> QED
    BY <2>1, <2>2, <2>3 DEF Cell
<1> QED
  BY <1>1, <1>2, <1>3, <1>4, <1>5, <1>6

\* What a cell holds in bytes is as good as the bytes.
LEMMA BlobParsed ==
    ASSUME NEW cell \in Cell, NEW code, IsCode(code),
           NEW cells, DOMAIN cells = DOMAIN code,
           \A v \in DOMAIN code : cells[v] = BlobCell(code[v]),
           NEW o, ~IsA("blob", cell) => o = Failed,
           IsA("blob", cell) => ParsedAll(o, code, cell[2])
    PROVE  /\ ParsedAll(o, cells, cell)
           /\ \A v \in DOMAIN cells : cells[v] \in Cell \ {Null}
<1>1. ASSUME NEW v \in DOMAIN cells PROVE cells[v] \in Cell \ {Null}
  BY CellsAre DEF IsCode
<1>2. CASE IsA("blob", cell)
  <2>1. PICK b \in Str : b = cell[2] /\ cell = BlobCell(b)
    BY <1>2, CellsAre
  <2>2. \A v \in DOMAIN code : cells[v] = cell <=> code[v] = b
    BY <2>1, CellsAre
  <2>3. ParsedAll(o, code, b)
    BY <1>2, <2>1
  <2> QED
    BY <1>1, <2>2, <2>3 DEF ParsedAll
<1>3. CASE ~IsA("blob", cell)
  <2>1. \A v \in DOMAIN cells : cells[v] # cell
    BY <1>3, CellsAre
  <2> QED
    BY <1>1, <1>3, <2>1 DEF ParsedAll
<1> QED
  BY <1>2, <1>3

\* The values that are numbers.
LEMMA NumbersInCells ==
    ASSUME NEW cell \in Cell, NEW type \in {"u64", "i64", "timestamp"}
    PROVE  /\ ParsedAll(FromDb(type, cell), CellCode(type), cell)
           /\ \A v \in CellSet(type) : CellCode(type)[v] \in Cell \ {Null}
<1>1. MaxI64 \in Nat /\ MaxU64 = 2 * MaxI64 + 1
  BY MaxI64Is
<1>2. ASSUME NEW v \in CellSet(type)
      PROVE  v \in I64 /\ CellCode(type)[v] = IntegerCell(v) /\ (type # "i64" => v >= 0)
  <2>1. CASE type = "u64"
    <3>1. v \in U64 /\ v <= MaxI64
      BY <2>1 DEF CellSet, ColumnValue, ToDbOk
    <3>2. ToDb(type, v) = IntegerCell(v) /\ v \in I64 /\ v >= 0
      BY <1>1, <2>1, <3>1 DEF ToDb, AsI64, U64, I64
    <3> QED
      BY <3>2, CellOfIs DEF CellCode
  <2>2. CASE type = "i64"
    <3>1. v \in I64 /\ ToDb(type, v) = IntegerCell(v)
      BY <2>2 DEF CellSet, ColumnValue, ToDb
    <3> QED
      BY <2>2, <3>1, CellOfIs DEF CellCode
  <2>3. CASE type = "timestamp"
    <3>1. v \in 0 .. MaxI64 /\ ToDb(type, v) = IntegerCell(v)
      BY <2>3 DEF CellSet, ColumnValue, ToDb
    <3>2. v \in I64 /\ v >= 0
      BY <1>1, <3>1 DEF I64
    <3> QED
      BY <3>1, <3>2, CellOfIs DEF CellCode
  <2> QED
    BY <2>1, <2>2, <2>3
<1>3. \A v \in CellSet(type) : CellCode(type)[v] \in Cell \ {Null}
  BY <1>2, CellsAre
<1>4. PICK o : o = FromDb(type, cell)
  OBVIOUS
<1>5. CASE IsA("integer", cell)
  <2>1. PICK n \in I64 : n = cell[2] /\ cell = IntegerCell(n)
    BY <1>5, CellsAre
  <2>2. PICK g : g = Good(n, <<>>)
    OBVIOUS
  <2>3. g.ok /\ g.val = n
    BY <2>2, GoodIs
  <2>4. Content("integer", cell) = g
    BY <1>5, <2>1, <2>2 DEF Content
  <2>5. \A v \in CellSet(type) : CellCode(type)[v] = cell <=> v = n
    BY <1>2, <2>1, CellsAre
  <2>6. DOMAIN CellCode(type) = CellSet(type)
    BY DEF CellCode
  <2>7. CASE type = "i64"
    <3>1. o = g
      BY <1>4, <2>4, <2>7 DEF FromDb
    <3>2. n \in CellSet(type)
      BY <2>7 DEF CellSet, ColumnValue, ToDbOk
    <3> QED
      BY <1>3, <1>4, <2>2, <2>5, <2>6, <3>1, <3>2 DEF ParsedAll
  <2>8. CASE type # "i64"
    <3>1. o = IF n >= 0 THEN g ELSE Failed
      BY <1>4, <2>3, <2>4, <2>8 DEF FromDb, Checked
    <3>2. n >= 0 <=> n \in CellSet(type)
      <4>1. n >= 0 <=> n \in 0 .. MaxI64
        BY <1>1 DEF I64
      <4>2. n \in U64 /\ n <= MaxI64 <=> n \in 0 .. MaxI64
        BY <1>1, <4>1 DEF U64, I64
      <4> QED
        BY <2>8, <4>1, <4>2 DEF CellSet, ColumnValue, ToDbOk
    <3> QED
      BY <1>3, <1>4, <2>2, <2>5, <2>6, <3>1, <3>2 DEF ParsedAll
  <2> QED
    BY <2>7, <2>8
<1>6. CASE ~IsA("integer", cell)
  <2>1. Content("integer", cell) = Failed /\ ~Failed.ok
    BY <1>6, GoodIs DEF Content
  <2>2. o = Failed
    BY <1>4, <2>1 DEF FromDb, Checked
  <2>3. \A v \in CellSet(type) : CellCode(type)[v] # cell
    BY <1>2, <1>6, CellsAre
  <2>4. DOMAIN CellCode(type) = CellSet(type)
    BY DEF CellCode
  <2> QED
    BY <1>3, <1>4, <2>2, <2>3, <2>4 DEF ParsedAll
<1> QED
  BY <1>5, <1>6
\* Bytes that are read whole.
LEMMA WholeParsed ==
    ASSUME NEW bytes \in Str, NEW o, NEW code, Parsed(o, code, bytes), NEW w, w = RequireEmpty(o)
    PROVE  ParsedAll(w, code, bytes)
  BY RequireEmptyParsed

\* The values that are bytes.
LEMMA BytesInCells ==
    ASSUME NEW cell \in Cell, NEW type \in ColTypeNames \ {"u64", "i64", "timestamp"}
    PROVE  /\ ParsedAll(FromDb(type, cell), CellCode(type), cell)
           /\ \A v \in CellSet(type) : CellCode(type)[v] \in Cell \ {Null}
<1>1. CellSet(type) = ColumnValue(type) /\ DOMAIN CellCode(type) = ColumnValue(type)
  <2>1. \A v : ToDbOk(type, v)
    BY DEF ToDbOk
  <2> QED
    BY <2>1 DEF CellSet, CellCode
<1>2. PICK o, b, r, cells : /\ o = FromDb(type, cell) /\ b = cell[2] /\ r = Reader(b)
                            /\ cells = CellCode(type)
  OBVIOUS
<1>3. ASSUME IsA("blob", cell) PROVE b \in Str /\ r.ok /\ r.rest = b
  BY <1>2, <1>3, CellsAre, ReaderIs
<1>4. ~IsA("uuid", cell)
  BY CellsAre
<1>5. CASE type = "bytes"
  <2>1. DOMAIN cells = DOMAIN RestCode /\ \A v \in DOMAIN RestCode : cells[v] = BlobCell(RestCode[v])
    <3>1. ColumnValue(type) = Str /\ \A v : ToDb(type, v) = BlobCell(v)
      BY <1>5 DEF ColumnValue, ToDb
    <3>2. DOMAIN RestCode = Str /\ \A w \in Str : RestCode[w] = w
      BY CodesAre
    <3> QED
      BY <1>1, <1>2, <3>1, <3>2, CellOfIs DEF CellCode
  <2>2. o = IF IsA("blob", cell) THEN Good(b, <<>>) ELSE Failed
    BY <1>2, <1>5 DEF FromDb, Content
  <2>3. IsA("blob", cell) => ParsedAll(o, RestCode, b)
    BY <1>3, <2>2, CodesAre DEF ParsedAll
  <2>4. IsCode(RestCode)
    BY CodesAre DEF IsCode
  <2>5. ~IsA("blob", cell) => o = Failed
    BY <2>2
  <2> QED
    BY <1>1, <1>2, <2>1, <2>3, <2>4, <2>5, BlobParsed
<1>6. CASE type = "array" \/ type = "uuid"
  <2>1. DOMAIN cells = DOMAIN ArrayCode /\ \A v \in DOMAIN ArrayCode : cells[v] = BlobCell(ArrayCode[v])
    <3>1. ColumnValue(type) = Array /\ \A v : CellOf(ToDb(type, v)) = BlobCell(v)
      BY <1>6, CellOfIs DEF ColumnValue, ToDb
    <3> QED
      BY <1>1, <1>2, <3>1, CodesAre DEF CellCode
  <2>2. PICK q : q = ReadArray(r)
    OBVIOUS
  <2>3. o = IF IsA("blob", cell) THEN RequireEmpty(q) ELSE Failed
    BY <1>2, <1>4, <1>6, <2>2 DEF FromDb, Nested, Whole
  <2>4. IsA("blob", cell) => ParsedAll(o, ArrayCode, b)
    BY <1>3, <2>2, <2>3, ReadArrayParsed, WholeParsed
  <2>5. IsCode(ArrayCode)
    BY CodesOfNumbers
  <2>6. ~IsA("blob", cell) => o = Failed
    BY <2>3
  <2> QED
    BY <1>1, <1>2, <2>1, <2>4, <2>5, <2>6, BlobParsed
<1>7. CASE type = "cipher"
  <2>1. DOMAIN cells = DOMAIN CipherCode /\ \A v \in DOMAIN CipherCode :
            cells[v] = BlobCell(CipherCode[v])
    <3>1. ColumnValue(type) = CipherInfo /\ \A v : CellOf(ToDb(type, v)) = BlobCell(CipherBytes(v))
      BY <1>7, CellOfIs DEF ColumnValue, ToDb
    <3> QED
      BY <1>1, <1>2, <3>1, CipherIs DEF CellCode
  <2>2. PICK q : q = ReadCipher(r)
    OBVIOUS
  <2>3. o = IF IsA("blob", cell) THEN RequireEmpty(q) ELSE Failed
    BY <1>2, <1>7, <2>2 DEF FromDb, Nested, Whole
  <2>4. IsA("blob", cell) => ParsedAll(o, CipherCode, b)
    BY <1>3, <2>2, <2>3, CipherParsed, WholeParsed
  <2>5. IsCode(CipherCode)
    BY CipherIs
  <2>6. ~IsA("blob", cell) => o = Failed
    BY <2>3
  <2> QED
    BY <1>1, <1>2, <2>1, <2>4, <2>5, <2>6, BlobParsed
<1>8. CASE type = "signature"
  <2>1. DOMAIN cells = DOMAIN KeyCode /\ \A v \in DOMAIN KeyCode : cells[v] = BlobCell(KeyCode[v])
    <3>1. ColumnValue(type) = Key /\ \A v : CellOf(ToDb(type, v)) = BlobCell(TaggedBytes(v))
      BY <1>8, CellOfIs DEF ColumnValue, ToDb
    <3> QED
      BY <1>1, <1>2, <3>1, KeyIs DEF CellCode
  <2>2. PICK q : q = ReadTagged(r)
    OBVIOUS
  <2>3. o = IF IsA("blob", cell) THEN RequireEmpty(q) ELSE Failed
    BY <1>2, <1>8, <2>2 DEF FromDb, Nested, Whole
  <2>4. IsA("blob", cell) => ParsedAll(o, KeyCode, b)
    BY <1>3, <2>2, <2>3, KeyParsed, WholeParsed
  <2>5. IsCode(KeyCode)
    BY KeyIs
  <2>6. ~IsA("blob", cell) => o = Failed
    BY <2>3
  <2> QED
    BY <1>1, <1>2, <2>1, <2>4, <2>5, <2>6, BlobParsed
<1>9. CASE type = "commit_err"
  <2>1. DOMAIN cells = DOMAIN StatusCode /\ \A v \in DOMAIN StatusCode :
            cells[v] = BlobCell(StatusCode[v])
    <3>1. ColumnValue(type) = CommitErr /\ \A v : CellOf(ToDb(type, v)) = BlobCell(StatusBytes(v))
      BY <1>9, CellOfIs DEF ColumnValue, ToDb
    <3> QED
      BY <1>1, <1>2, <3>1, StatusIs DEF CellCode
  <2>2. PICK q : q = ReadCommitErr(r)
    OBVIOUS
  <2>3. o = IF IsA("blob", cell) THEN RequireEmpty(q) ELSE Failed
    BY <1>2, <1>9, <2>2 DEF FromDb, Nested, Whole
  <2>4. IsA("blob", cell) => ParsedAll(o, StatusCode, b)
    BY <1>3, <2>2, <2>3, StatusParsed, WholeParsed
  <2>5. IsCode(StatusCode)
    BY StatusIs
  <2>6. ~IsA("blob", cell) => o = Failed
    BY <2>3
  <2> QED
    BY <1>1, <1>2, <2>1, <2>4, <2>5, <2>6, BlobParsed
<1>10. CASE type = "head_err"
  <2>1. PICK code : code = [v \in {"todo"} |-> <<>>]
    OBVIOUS
  <2>2. DOMAIN code = {"todo"} /\ code["todo"] = <<>> /\ IsCode(code)
    BY <2>1, StrIs DEF IsCode
  <2>3. DOMAIN cells = DOMAIN code /\ \A v \in DOMAIN code : cells[v] = BlobCell(code[v])
    <3>1. ColumnValue(type) = {"todo"} /\ \A v : CellOf(ToDb(type, v)) = BlobCell(<<>>)
      BY <1>10, CellOfIs DEF ColumnValue, ToDb
    <3> QED
      BY <1>1, <1>2, <2>2, <3>1 DEF CellCode
  <2>4. PICK q : q = IF r.ok THEN Good("todo", r.rest) ELSE Failed
    OBVIOUS
  <2>5. o = IF IsA("blob", cell) THEN RequireEmpty(q) ELSE Failed
    BY <1>2, <1>10, <2>4 DEF FromDb, Nested, Whole, Into
  <2>6. ASSUME IsA("blob", cell) PROVE ParsedAll(o, code, b)
    <3>1. q = Good("todo", b) /\ q.rest = b
      BY <1>3, <2>4, <2>6, GoodIs
    <3>2. o = IF b = <<>> THEN Good("todo", <<>>) ELSE Failed
      BY <2>5, <2>6, <3>1 DEF RequireEmpty
    <3> QED
      BY <2>2, <3>2 DEF ParsedAll
  <2>7. ~IsA("blob", cell) => o = Failed
    BY <2>5
  <2> QED
    BY <1>1, <1>2, <2>2, <2>3, <2>6, <2>7, BlobParsed
<1> QED
  BY <1>5, <1>6, <1>7, <1>8, <1>9, <1>10 DEF ColTypeNames

\* What is read from a cell is what was written to it.
LEMMA CellParsed ==
    ASSUME NEW cell \in Cell, NEW type \in ColTypeNames
    PROVE  /\ ParsedAll(FromDb(type, cell), CellCode(type), cell)
           /\ \A v \in CellSet(type) : CellCode(type)[v] \in Cell \ {Null}
  BY NumbersInCells, BytesInCells

-----------------------------------------------------------------------------
(* Columns and rows *)

\* What is written to a column, and what it becomes.
InColumn(col, v) == ColumnIs(col, v) /\ ColToDbOk(col, v)
CellIn(col, v) == CellOf(ColToDb(col, v))

\* The cells that are written are cells of their columns.
LEMMA ColumnWritten ==
    ASSUME NEW col, col.type \in ColTypeNames, col.optional \in BOOLEAN, NEW v, InColumn(col, v)
    PROVE  /\ CellIn(col, v) \in Cell
           /\ ColFromDb(col, CellIn(col, v)).ok /\ ColFromDb(col, CellIn(col, v)).val = v
<1>1. PICK type, c : type = col.type /\ c = CellIn(col, v)
  OBVIOUS
<1>2. ASSUME NEW x \in CellSet(type)
      PROVE  /\ CellOf(ToDb(type, x)) \in Cell \ {Null}
             /\ FromDb(type, CellOf(ToDb(type, x))) = Good(x, <<>>)
  <2>1. PICK d : d = CellOf(ToDb(type, x))
    OBVIOUS
  <2>2. DOMAIN CellCode(type) = CellSet(type) /\ CellCode(type)[x] = d
    BY <2>1 DEF CellCode
  <2>3. Null \in Cell
    BY CellsAre
  <2>4. d \in Cell \ {Null}
    BY <1>1, <2>2, <2>3, CellParsed
  <2>5. ParsedAll(FromDb(type, d), CellCode(type), d)
    BY <1>1, <2>4, CellParsed
  <2> QED
    BY <2>1, <2>2, <2>4, <2>5 DEF ParsedAll
<1>3. CASE ~col.optional
  <2>1. v \in CellSet(type)
    BY <1>1, <1>3 DEF InColumn, ColumnIs, ColToDbOk, CellSet
  <2>2. c = CellOf(ToDb(type, v))
    BY <1>1, <1>3 DEF CellIn, ColToDb
  <2>3. ColFromDb(col, c) = FromDb(type, c)
    BY <1>1, <1>3 DEF ColFromDb
  <2> QED
    BY <1>1, <1>2, <2>1, <2>2, <2>3, GoodIs
<1>4. CASE col.optional /\ v = <<>>
  <2>1. c = Null
    BY <1>1, <1>4, CellOfIs DEF CellIn, ColToDb
  <2>2. ColFromDb(col, c) = Reader(<<>>)
    BY <1>4, <2>1, CellsAre DEF ColFromDb
  <2>3. Reader(<<>>).ok /\ Reader(<<>>).val = <<>>
    BY GoodIs DEF Reader
  <2> QED
    BY <1>1, <1>4, <2>1, <2>2, <2>3, CellsAre
<1>5. CASE col.optional /\ v # <<>>
  <2>1. v \in Seq(ColumnValue(type)) /\ Len(v) <= 1
    BY <1>1, <1>5 DEF InColumn, ColumnIs, Option
  <2>2. Len(v) = 1 /\ v[1] \in ColumnValue(type) /\ v = <<v[1]>> /\ 1 \in DOMAIN v
    <3>1. Len(v) = 1
      <4>1. PICK S : S = ColumnValue(type)
        OBVIOUS
      <4>2. v \in Seq(S)
        BY <2>1, <4>1
      <4>3. v # <<>>
        BY <1>5
      <4>4. PICK n : n = Len(v)
        OBVIOUS
      <4>5. n \in Nat \ {0}
        BY <4>2, <4>3, <4>4, EmptySeq
      <4>6. n <= 1
        BY <2>1, <4>4
      <4>7. n = 1
        BY <4>5, <4>6
      <4> QED
        BY <4>4, <4>7
    <3> QED
      BY SMTT(40), <2>1, <3>1
  <2>3. PICK x : x = v[1]
    OBVIOUS
  <2>4. x \in CellSet(type)
    <3>1. x \in ToSet(v)
      BY <2>2, <2>3 DEF ToSet
    <3> QED
      BY <1>1, <1>5, <2>2, <2>3, <3>1 DEF InColumn, ColToDbOk, CellSet
  <2>5. c = CellOf(ToDb(type, x))
    BY <1>1, <1>5, <2>3 DEF CellIn, ColToDb
  <2>6. c \in Cell \ {Null} /\ FromDb(type, c) = Good(x, <<>>)
    BY <1>2, <2>4, <2>5
  <2>7. ~IsA("null", c)
    BY <2>6, CellsAre
  <2>8. ColFromDb(col, c) = Good(<<x>>, <<>>)
    <3>1. ColFromDb(col, c) = IF FromDb(type, c).ok
              THEN Good(<<FromDb(type, c).val>>, FromDb(type, c).rest) ELSE Failed
      BY <1>1, <1>5, <2>7 DEF ColFromDb, Into
    <3>2. PICK g : g = FromDb(type, c)
      OBVIOUS
    <3>3. g.ok /\ g.val = x /\ g.rest = <<>>
      BY <2>6, <3>2, GoodIs
    <3> QED
      BY <3>1, <3>2, <3>3
  <2> QED
    BY <1>1, <2>2, <2>3, <2>6, <2>8, GoodIs
<1> QED
  BY <1>3, <1>4, <1>5

\* What is read from a column is written back to the same cell.
LEMMA ColumnRead ==
    ASSUME NEW col, col.type \in ColTypeNames, col.optional \in BOOLEAN, NEW c \in Cell,
           ColFromDb(col, c).ok
    PROVE  CellIn(col, ColFromDb(col, c).val) = c
<1>1. PICK type, o, g : type = col.type /\ o = ColFromDb(col, c) /\ g = FromDb(type, c)
  OBVIOUS
<1>2. ASSUME g.ok PROVE CellOf(ToDb(type, g.val)) = c
  <2>1. ParsedAll(g, CellCode(type), c)
    BY <1>1, CellParsed
  <2>2. g.val \in DOMAIN CellCode(type) /\ CellCode(type)[g.val] = c
    BY <1>2, <2>1, ParsedAllIs
  <2> QED
    BY <2>2 DEF CellCode
<1>3. CASE ~col.optional
  <2>1. o = g
    BY <1>1, <1>3 DEF ColFromDb
  <2> QED
    BY <1>1, <1>2, <1>3, <2>1 DEF CellIn, ColToDb
<1>4. CASE col.optional /\ IsA("null", c)
  <2>1. o = Good(<<>>, <<>>)
    BY <1>1, <1>4 DEF ColFromDb, Reader
  <2>2. o.val = <<>>
    BY <2>1, GoodIs
  <2>3. CellIn(col, <<>>) = Null
    BY <1>4, CellOfIs DEF CellIn, ColToDb
  <2>4. c = Null
    BY <1>4, CellsAre
  <2> QED
    BY <1>1, <2>2, <2>3, <2>4
<1>5. CASE col.optional /\ ~IsA("null", c)
  <2>1. o = IF g.ok THEN Good(<<g.val>>, g.rest) ELSE Failed
    BY <1>1, <1>5 DEF ColFromDb, Into
  <2>2. g.ok /\ o.val = <<g.val>>
    BY <1>1, <2>1, GoodIs
  <2>3. PICK v : v = <<g.val>>
    OBVIOUS
  <2>4. v # <<>> /\ v[1] = g.val
    BY <2>3
  <2>5. CellIn(col, v) = CellOf(ToDb(type, g.val))
    BY <1>1, <1>5, <2>4 DEF CellIn, ColToDb
  <2> QED
    BY <1>1, <1>2, <2>2, <2>3, <2>5
<1> QED
  BY <1>3, <1>4, <1>5

\* A column of a table has a type, and is optional or not.
LEMMA ColumnsOk ==
    ASSUME NEW table \in Tables, NEW i \in DOMAIN Columns(table)
    PROVE  Columns(table)[i].type \in ColTypeNames /\ Columns(table)[i].optional \in BOOLEAN
<1> DEFINE Ok(col) == col.type \in ColTypeNames /\ col.optional \in BOOLEAN
<1>1. \A type \in ColTypeNames : Ok(Column(type)) /\ Ok(OptionalColumn(type))
  BY DEF Column, OptionalColumn
<1>2. PICK C : C = {Column(type) : type \in ColTypeNames} \cup {OptionalColumn(type) :
               type \in ColTypeNames}
  OBVIOUS
<1>3. \A type \in ColTypeNames : Column(type) \in C /\ OptionalColumn(type) \in C
  BY <1>2
<1>4. \A col \in C : Ok(col)
  BY <1>1, <1>2
<1>5. Columns(table) \in Seq(C)
  <2>1. CASE table = "peers"
    BY <1>3, <2>1 DEF Columns, ColTypeNames
  <2>2. CASE table = "streams"
    BY <1>3, <2>2 DEF Columns, ColTypeNames
  <2>3. CASE table = "segments"
    BY <1>3, <2>3 DEF Columns, ColTypeNames
  <2>4. CASE table = "hlc"
    BY <1>3, <2>4 DEF Columns, ColTypeNames
  <2> QED
    BY <2>1, <2>2, <2>3, <2>4 DEF Tables
<1> QED
  BY <1>4, <1>5

\* A row is read back from the cells it is stored in.
LEMMA RowWritten ==
    ASSUME NEW table \in Tables, NEW row, RowIs(table, row), RowOk(table, row)
    PROVE  /\ RowCells(table, row) \in [DOMAIN Columns(table) -> Cell]
           /\ ReadRow(table, RowCells(table, row)) = Good(row, <<>>)
<1>1. PICK cols, cells : cols = Columns(table) /\ cells = RowCells(table, row)
  OBVIOUS
<1>2. cells = [i \in DOMAIN cols |-> CellIn(cols[i], row[i])]
  BY <1>1 DEF RowCells, CellIn, CellOf
<1>3. ASSUME NEW i \in DOMAIN cols
      PROVE  /\ cells[i] \in Cell
             /\ ColFromDb(cols[i], cells[i]).ok /\ ColFromDb(cols[i], cells[i]).val = row[i]
  <2>1. PICK col, v : col = cols[i] /\ v = row[i]
    OBVIOUS
  <2>2. InColumn(col, v)
    BY <1>1, <2>1 DEF InColumn, RowIs, RowOk
  <2>3. col.type \in ColTypeNames /\ col.optional \in BOOLEAN
    BY <1>1, <2>1, ColumnsOk
  <2>4. cells[i] = CellIn(col, v)
    BY <1>2, <2>1
  <2> QED
    BY <2>1, <2>2, <2>3, <2>4, ColumnWritten
<1>4. cells \in [DOMAIN cols -> Cell]
  BY <1>2, <1>3
<1>5. PICK read : read = [i \in DOMAIN cols |-> IF i \in DOMAIN cells
               THEN ColFromDb(cols[i], cells[i]) ELSE Failed]
  OBVIOUS
<1>6. DOMAIN read = DOMAIN cols /\ \A i \in DOMAIN cols : read[i].ok /\ read[i].val = row[i]
  BY <1>3, <1>4, <1>5
<1>7. ReadRow(table, cells) = IF \A i \in DOMAIN read : read[i].ok
                              THEN Good([i \in DOMAIN read |-> read[i].val], <<>>) ELSE Failed
  BY <1>1, <1>5 DEF ReadRow
<1>8. [i \in DOMAIN read |-> read[i].val] = row
  <2>1. row = [i \in DOMAIN cols |-> row[i]]
    BY <1>1 DEF RowIs
  <2>2. [i \in DOMAIN read |-> read[i].val] = [i \in DOMAIN cols |-> row[i]]
    BY <1>6
  <2> QED
    BY <2>1, <2>2
<1> QED
  BY <1>1, <1>4, <1>6, <1>7, <1>8

\* Cells that can be read are those of the row that was read.
LEMMA RowRead ==
    ASSUME NEW table \in Tables, NEW cells \in [DOMAIN Columns(table) -> Cell], ReadRow(table, cells).ok
    PROVE  RowCells(table, ReadRow(table, cells).val) = cells
<1>1. PICK cols, o : cols = Columns(table) /\ o = ReadRow(table, cells)
  OBVIOUS
<1>2. PICK read : read = [i \in DOMAIN cols |-> ColFromDb(cols[i], cells[i])]
  OBVIOUS
<1>3. [i \in DOMAIN cols |-> IF i \in DOMAIN cells THEN ColFromDb(cols[i], cells[i]) ELSE Failed] = read
  BY <1>1, <1>2
<1>4. PICK row : row = [i \in DOMAIN read |-> read[i].val]
  OBVIOUS
<1>5. o = IF \A i \in DOMAIN read : read[i].ok THEN Good(row, <<>>) ELSE Failed
  BY <1>1, <1>3, <1>4 DEF ReadRow
<1>6. (\A i \in DOMAIN read : read[i].ok) /\ o.val = row
  BY <1>1, <1>5, GoodIs
<1>7. ASSUME NEW i \in DOMAIN cols PROVE CellIn(cols[i], row[i]) = cells[i]
  <2>1. PICK col, c : col = cols[i] /\ c = cells[i]
    OBVIOUS
  <2>2. col.type \in ColTypeNames /\ col.optional \in BOOLEAN /\ c \in Cell
    BY <1>1, <2>1, ColumnsOk
  <2>3. ColFromDb(col, c).ok /\ row[i] = ColFromDb(col, c).val
    BY <1>2, <1>4, <1>6, <2>1
  <2>4. CellIn(col, ColFromDb(col, c).val) = c
    BY <2>2, <2>3, ColumnRead
  <2> QED
    BY <2>1, <2>3, <2>4
<1>8. RowCells(table, row) = [i \in DOMAIN cols |-> CellIn(cols[i], row[i])]
  BY <1>1 DEF RowCells, CellIn, CellOf
<1>9. cells = [i \in DOMAIN cols |-> cells[i]]
  BY <1>1
<1> QED
  BY <1>1, <1>6, <1>7, <1>8, <1>9

-----------------------------------------------------------------------------
(* Sequences that grow *)

UpTo(S, n) == {s \in Seq(S) : Len(s) <= n}

\* The elements up to a place of a longer sequence.
LEMMA UpToGrows ==
    ASSUME NEW S, NEW T, S \subseteq T, NEW n \in Nat, NEW m \in Nat, n <= m
    PROVE  UpTo(S, n) \subseteq UpTo(T, m)
<1> SUFFICES ASSUME NEW s \in UpTo(S, n) PROVE s \in UpTo(T, m)
  OBVIOUS
<1>1. s \in Seq(S) /\ Len(s) <= n /\ Len(s) \in Nat
  BY DEF UpTo
<1>2. \A i \in 1 .. Len(s) : s[i] \in T
  BY <1>1
<1>3. s = [i \in 1 .. Len(s) |-> s[i]]
  BY <1>1
<1>4. s \in Seq(T)
  BY <1>1, <1>2, <1>3, IsASeq
<1> QED
  BY <1>1, <1>4 DEF UpTo

\* One more element at the end of those up to a place.
LEMMA UpToAppends ==
    ASSUME NEW S, NEW n \in Nat, NEW s \in UpTo(S, n), NEW e \in S
    PROVE  Append(s, e) \in UpTo(S, n + 1)
<1>1. s \in Seq(S) /\ Len(s) \in Nat /\ Len(s) <= n
  BY DEF UpTo
<1>2. Append(s, e) \in Seq(S) /\ Len(Append(s, e)) = Len(s) + 1
  BY <1>1
<1> QED
  BY <1>1, <1>2 DEF UpTo

\* Inserting behind a place leaves what is in front of it.
LEMMA UpToInserts ==
    ASSUME NEW S, NEW n \in Nat, NEW s \in UpTo(S, n), NEW e \in S, NEW i \in 1 .. Len(s) + 1
    PROVE  InsertAt(s, i, e) \in UpTo(S, n + 1)
<1>1. PICK len : len = Len(s)
  OBVIOUS
<1>2. s \in Seq(S) /\ len \in Nat /\ len <= n /\ i \in Nat /\ 1 <= i /\ i <= len + 1
  BY <1>1 DEF UpTo
<1>3. PICK a : a = SubSeq(s, 1, i - 1)
  OBVIOUS
<1>4. PICK c : c = SubSeq(s, i, len)
  OBVIOUS
<1>5. a \in Seq(S) /\ Len(a) = i - 1
  <2>1. 1 \in 1 .. len + 1 /\ i - 1 \in 0 .. len /\ 1 <= i - 1 + 1
    BY <1>2
  <2> QED
    BY <1>1, <1>2, <1>3, <2>1, SubSeqProperties
<1>6. c \in Seq(S) /\ Len(c) = len - i + 1
  <2>1. i \in 1 .. len + 1 /\ len \in 0 .. len /\ i <= len + 1
    BY <1>2
  <2> QED
    BY <1>1, <1>2, <1>4, <2>1, SubSeqProperties
<1>7. PICK b : b = <<e>>
  OBVIOUS
<1>8. b \in Seq(S) /\ Len(b) = 1
  BY <1>7
<1>9. PICK ab : ab = a \o b
  OBVIOUS
<1>10. ab \in Seq(S) /\ Len(ab) = i
  <2>1. a \in Seq(S) /\ b \in Seq(S)
    BY <1>5, <1>8
  <2>2. a \o b \in Seq(S) /\ Len(a \o b) = Len(a) + Len(b)
    BY <2>1, ConcatProperties
  <2>3. Len(a) + Len(b) = i
    BY <1>2, <1>5, <1>8
  <2> QED
    BY <1>9, <2>2, <2>3
<1>11. PICK abc : abc = ab \o c
  OBVIOUS
<1>12. abc \in Seq(S) /\ Len(abc) = len + 1
  <2>1. ab \in Seq(S) /\ c \in Seq(S)
    BY <1>6, <1>10
  <2>2. ab \o c \in Seq(S) /\ Len(ab \o c) = Len(ab) + Len(c)
    BY <2>1, ConcatProperties
  <2>3. Len(ab) + Len(c) = len + 1
    BY <1>2, <1>6, <1>10
  <2> QED
    BY <1>11, <2>2, <2>3
<1>13. InsertAt(s, i, e) = abc
  BY <1>1, <1>3, <1>4, <1>7, <1>9, <1>11 DEF InsertAt
<1> QED
  BY <1>2, <1>12, <1>13 DEF UpTo

\* Each element changed in its place.
LEMMA UpToMaps ==
    ASSUME NEW S, NEW T, NEW n \in Nat, NEW s \in UpTo(S, n), NEW t,
           DOMAIN t = DOMAIN s, t = [i \in DOMAIN t |-> t[i]], \A i \in DOMAIN s : t[i] \in T
    PROVE  t \in UpTo(T, n)
<1>1. s \in Seq(S) /\ Len(s) <= n /\ Len(s) \in Nat /\ DOMAIN s = 1 .. Len(s)
  BY DEF UpTo
<1>2. PICK len \in Nat : len = Len(s)
  BY <1>1
<1>3. t = [i \in 1 .. len |-> t[i]] /\ \A i \in 1 .. len : t[i] \in T
  BY <1>1, <1>2
<1>4. t \in Seq(T)
  BY <1>3, IsASeq
<1>5. Len(t) = len
  BY <1>1, <1>2, <1>4
<1> QED
  BY <1>1, <1>2, <1>4, <1>5 DEF UpTo

-----------------------------------------------------------------------------
(* The builder *)

SegmentsUpTo(n) == UpTo(SegmentDescriptor, n)

\* Another peer's, n segments at most.
PeerUpTo(n) == [peer : Array, supersedes : {<<>>}, segments : SegmentsUpTo(n)]

PeersUpTo(n) == UpTo(PeerUpTo(n), n)

\* What n calls can have made.
BuilderOf(n) == [segments : SegmentsUpTo(n), peers : PeersUpTo(n), body : ByteString]

\* A builder only gains references and segments.
LEMMA BuilderGrows ==
    ASSUME NEW n \in Nat
    PROVE  /\ SegmentsUpTo(n) \subseteq SegmentsUpTo(n + 1)
           /\ PeerUpTo(n) \subseteq PeerUpTo(n + 1)
           /\ PeersUpTo(n) \subseteq PeersUpTo(n + 1)
<1>1. n + 1 \in Nat /\ n <= n + 1
  OBVIOUS
<1>2. SegmentsUpTo(n) \subseteq SegmentsUpTo(n + 1)
  BY <1>1, UpToGrows DEF SegmentsUpTo
<1>3. PeerUpTo(n) \subseteq PeerUpTo(n + 1)
  BY <1>2 DEF PeerUpTo
<1>4. PeersUpTo(n) \subseteq PeersUpTo(n + 1)
  BY <1>1, <1>3, UpToGrows DEF PeersUpTo
<1> QED
  BY <1>2, <1>3, <1>4

\* A segment recorded for a peer that is known.
LEMMA WithSegmentIs ==
    ASSUME NEW n \in Nat, NEW p \in PeerUpTo(n), NEW d \in SegmentDescriptor
    PROVE  WithSegment(p, d) \in PeerUpTo(n + 1)
<1>1. PICK peer, ds : p = [peer |-> peer, supersedes |-> <<>>, segments |-> ds]
                      /\ peer \in Array /\ ds \in SegmentsUpTo(n)
  BY DEF PeerUpTo
<1>2. PICK new : new = Append(ds, d)
  OBVIOUS
<1>3. p.segments = ds
  BY <1>1
<1>4. WithSegment(p, d) = [p EXCEPT !.segments = new]
  BY <1>2, <1>3 DEF WithSegment
<1>5. [p EXCEPT !.segments = new] = [peer |-> peer, supersedes |-> <<>>, segments |-> new]
  BY <1>1
<1>6. new \in SegmentsUpTo(n + 1)
  BY <1>1, <1>2, UpToAppends DEF SegmentsUpTo
<1> QED
  BY <1>1, <1>4, <1>5, <1>6 DEF PeerUpTo

\* A peer that was not known before.
LEMMA NewPeerIs ==
    ASSUME NEW n \in Nat, NEW peer \in Array, NEW d \in SegmentDescriptor
    PROVE  NewPeer(peer, d) \in PeerUpTo(n + 1)
<1>1. PICK ds : ds = <<d>>
  OBVIOUS
<1>2. ds \in Seq(SegmentDescriptor) /\ Len(ds) = 1
  BY <1>1
<1>3. ds \in SegmentsUpTo(n + 1)
  BY <1>2 DEF SegmentsUpTo, UpTo
<1> QED
  BY <1>1, <1>3 DEF NewPeer, PeerUpTo

\* The largest of some indices is one of them.
LEMMA LargestInside ==
    ASSUME NEW len \in Nat, NEW I, I \subseteq 1 .. len, I # {}
    PROVE  Max(I) \in 1 .. len
<1>1. PICK J : J = {len - i : i \in I}
  OBVIOUS
<1>2. \A j \in J : j \in Nat
  <2>1. \A i \in I : len - i \in Nat
    OBVIOUS
  <2> QED
    BY <1>1, <2>1
<1>3. J \in SUBSET Nat /\ J # {}
  BY <1>1, <1>2
<1>4. PICK j \in J : \A k \in J : j <= k
  BY <1>3, LeastOf
<1>5. PICK m \in I : j = len - m
  BY <1>1
<1>6. \A i \in I : len - m <= len - i
  BY <1>1, <1>4, <1>5
<1>7. \A i \in I : m >= i
  BY <1>6
<1>8. Max(I) \in I
  BY <1>7 DEF Max
<1> QED
  BY <1>8

\* The place in front of a peer is a place of the peers.
LEMMA LastBeforeInside ==
    ASSUME NEW S, NEW peers \in Seq(S), NEW peer
    PROVE  LastBefore(peers, peer) \in 0 .. Len(peers)
<1>1. PICK len \in Nat : len = Len(peers)
  OBVIOUS
<1>2. PICK I : I = {i \in 1 .. Len(peers) : IdLess(peers[i].peer, peer)}
  OBVIOUS
<1>3. LastBefore(peers, peer) = IF I # {} THEN Max(I) ELSE 0
  BY <1>2 DEF LastBefore, SelectLastInSeq
<1>4. I \subseteq 1 .. len
  BY <1>1, <1>2
<1>5. I # {} => Max(I) \in 1 .. len
  BY <1>4, LargestInside
<1>6. LastBefore(peers, peer) \in 0 .. len
  BY <1>3, <1>5
<1> QED
  BY <1>1, <1>6

\* add_peer_segment(): the peer is known, or it is added.
LEMMA AddPeerSegmentIs ==
    ASSUME NEW n \in Nat, NEW peers \in PeersUpTo(n), NEW peer \in Array, NEW d \in SegmentDescriptor
    PROVE  AddPeerSegment(peers, peer, d) \in PeersUpTo(n + 1)
<1>1. PICK new : new = AddPeerSegment(peers, peer, d)
  OBVIOUS
<1>2. peers \in UpTo(PeerUpTo(n), n) /\ peers \in Seq(PeerUpTo(n))
  BY DEF PeersUpTo, UpTo
<1>3. \A i \in DOMAIN peers : peers[i] \in PeerUpTo(n)
  BY <1>2
<1>4. CASE \E i \in DOMAIN peers : peers[i].peer = peer
  <2>1. new = [i \in DOMAIN peers |-> IF peers[i].peer = peer THEN WithSegment(peers[i], d)
            ELSE peers[i]]
    BY <1>1, <1>4 DEF AddPeerSegment
  <2>2. DOMAIN new = DOMAIN peers /\ new = [i \in DOMAIN new |-> new[i]]
    BY <2>1
  <2>3. \A i \in DOMAIN peers : new[i] \in PeerUpTo(n + 1)
    <3>1. \A i \in DOMAIN peers : WithSegment(peers[i], d) \in PeerUpTo(n + 1)
      BY <1>3, WithSegmentIs
    <3>2. \A i \in DOMAIN peers : peers[i] \in PeerUpTo(n + 1)
      BY <1>3, BuilderGrows
    <3> QED
      BY <2>1, <3>1, <3>2
  <2>4. new \in UpTo(PeerUpTo(n + 1), n)
    BY <1>2, <2>2, <2>3, UpToMaps
  <2>5. UpTo(PeerUpTo(n + 1), n) \subseteq UpTo(PeerUpTo(n + 1), n + 1)
    BY UpToGrows
  <2> QED
    BY <1>1, <2>4, <2>5 DEF PeersUpTo
<1>5. CASE ~ \E i \in DOMAIN peers : peers[i].peer = peer
  <2>1. PICK at : at = LastBefore(peers, peer) + 1
    OBVIOUS
  <2>2. LastBefore(peers, peer) \in 0 .. Len(peers)
    BY <1>2, LastBeforeInside
  <2>3. at \in 1 .. Len(peers) + 1
    BY <1>2, <2>1, <2>2
  <2>4. PICK p : p = NewPeer(peer, d)
    OBVIOUS
  <2>5. p \in PeerUpTo(n + 1)
    BY <2>4, NewPeerIs
  <2>6. peers \in UpTo(PeerUpTo(n + 1), n)
    BY <1>2, BuilderGrows, UpToGrows
  <2>7. InsertAt(peers, at, p) \in UpTo(PeerUpTo(n + 1), n + 1)
    BY <2>3, <2>5, <2>6, UpToInserts
  <2>8. new = InsertAt(peers, at, p)
    BY <1>1, <1>5, <2>1, <2>4 DEF AddPeerSegment
  <2> QED
    BY <1>1, <2>7, <2>8 DEF PeersUpTo
<1> QED
  BY <1>4, <1>5
Call == [peer : PeerIds, container : Containers, joined : Joins]

\* The builder after its calls.
BuilderTyped ==
    calls \in Seq(Call) /\ Len(calls) <= MaxAdded /\ builder \in BuilderOf(Len(calls))

\* The two ways a call changes the header.
BodyOf(b, body) == [b EXCEPT !.body = body]
OwnOf(b, body, ds) == [b EXCEPT !.body = body, !.segments = ds]
PeersOf(b, body, ps) == [b EXCEPT !.body = body, !.peers = ps]

\* A builder with one more segment, of its own or of a peer.
LEMMA BuilderChanges ==
    ASSUME NEW n \in Nat, NEW b \in BuilderOf(n), NEW body \in ByteString,
           NEW ds \in SegmentsUpTo(n + 1), NEW ps \in PeersUpTo(n + 1)
    PROVE  /\ BodyOf(b, body) \in BuilderOf(n + 1)
           /\ OwnOf(b, body, ds) \in BuilderOf(n + 1)
           /\ PeersOf(b, body, ps) \in BuilderOf(n + 1)
<1>1. PICK es, qs, old : /\ b = [segments |-> es, peers |-> qs, body |-> old]
                         /\ es \in SegmentsUpTo(n) /\ qs \in PeersUpTo(n)
  BY DEF BuilderOf
<1>2. es \in SegmentsUpTo(n + 1) /\ qs \in PeersUpTo(n + 1)
  BY <1>1, BuilderGrows
<1>3. BodyOf(b, body) \in BuilderOf(n + 1)
  <2>1. PICK w : w = [b EXCEPT !.body = body]
    OBVIOUS
  <2>2. w = [segments |-> es, peers |-> qs, body |-> body]
    BY <1>1, <2>1
  <2> QED
    BY <1>2, <2>1, <2>2 DEF BodyOf, BuilderOf
<1>4. OwnOf(b, body, ds) \in BuilderOf(n + 1)
  <2>1. PICK w : w = [b EXCEPT !.body = body, !.segments = ds]
    OBVIOUS
  <2>2. w = [segments |-> ds, peers |-> qs, body |-> body]
    BY <1>1, <2>1
  <2> QED
    BY <1>2, <2>1, <2>2 DEF OwnOf, BuilderOf
<1>5. PeersOf(b, body, ps) \in BuilderOf(n + 1)
  <2>1. PICK w : w = [b EXCEPT !.body = body, !.peers = ps]
    OBVIOUS
  <2>2. w = [segments |-> es, peers |-> ps, body |-> body]
    BY <1>1, <2>1
  <2> QED
    BY <1>2, <2>1, <2>2 DEF PeersOf, BuilderOf
<1> QED
  BY <1>3, <1>4, <1>5

\* A segment that is added has a descriptor of its type.
LEMMA DescriptorTyped ==
    ASSUME NEW container \in Containers, NEW joined \in Joins, Added(joined),
           NEW start \in U64, NEW end \in U64, start < end
    PROVE  Descriptor(container, joined, start, end) \in SegmentDescriptor
<1>1. joined.prev \in ChainHead /\ joined.head \in ChainHead /\ container \in Array
  BY FormatsAssumption
<1>2. /\ joined.prev.size \in U64 /\ joined.head.size \in U64
      /\ joined.prev.hash \in Array /\ joined.head.hash \in Array
  BY <1>1 DEF ChainHead
<1>3. joined.prev.size < joined.head.size
  BY DEF Added
<1>4. PICK idx : idx = [start |-> joined.prev.size, end |-> joined.head.size]
  OBVIOUS
<1>5. idx \in Range64
  BY <1>2, <1>3, <1>4 DEF Range64
<1>6. PICK loc : loc = [start |-> start, end |-> end]
  OBVIOUS
<1>7. loc \in Range64
  BY <1>6 DEF Range64
<1> QED
  BY <1>1, <1>2, <1>4, <1>5, <1>6, <1>7 DEF Descriptor, SegmentDescriptor

\* The body grows by what was joined.
LEMMA BodyGrows ==
    ASSUME NEW body \in ByteString, NEW bytes \in Str \ {<<>>}, Len(body \o bytes) <= MaxU64
    PROVE  /\ body \o bytes \in ByteString /\ Len(body) < Len(body \o bytes)
           /\ Len(body) \in U64 /\ Len(body \o bytes) \in U64
<1>1. body \in Seq(Bytes) /\ bytes \in Seq(Bytes) /\ bytes # <<>>
  BY DEF ByteString, Str
<1>2. Len(body) \in Nat /\ Len(bytes) \in Nat /\ Len(bytes) # 0
  BY <1>1, EmptySeq
<1>3. body \o bytes \in Seq(Bytes) /\ Len(body \o bytes) = Len(body) + Len(bytes)
  BY <1>1, ConcatProperties
<1>4. PICK m, n, all : m = Len(body) /\ n = Len(bytes) /\ all = Len(body \o bytes)
  OBVIOUS
<1>5. m \in Nat /\ n \in Nat /\ n # 0 /\ all = m + n /\ all <= MaxU64 /\ MaxU64 \in Nat
  BY <1>2, <1>3, <1>4, MaxU64Is
<1>6. m < all /\ m \in U64 /\ all \in U64
  BY <1>5 DEF U64
<1> QED
  BY <1>3, <1>4, <1>6 DEF ByteString, Str

\* A builder with one more segment is still of its type.
LEMMA AddedTyped ==
    ASSUME NEW n \in Nat, NEW b \in BuilderOf(n), NEW peer \in PeerIds, NEW container \in Containers,
           NEW joined \in Joins, NEW new, new = AddContainerSegments(b, Self, peer, container, joined),
           Len(new.body) <= MaxU64
    PROVE  new \in BuilderOf(n + 1)
<1>1. PICK bytes : bytes = b.body \o joined.bytes
  OBVIOUS
<1>2. PICK d : d = Descriptor(container, joined, Len(b.body), Len(bytes))
  OBVIOUS
<1>3. PICK es, qs, old : /\ b = [segments |-> es, peers |-> qs, body |-> old]
                         /\ es \in SegmentsUpTo(n) /\ qs \in PeersUpTo(n) /\ old \in ByteString
  BY DEF BuilderOf
<1>4. b.segments = es /\ b.peers = qs /\ b.body = old
  BY <1>3
<1>5. PICK ds : ds = Append(es, d)
  OBVIOUS
<1>6. PICK ps : ps = AddPeerSegment(qs, peer, d)
  OBVIOUS
<1>7. new = CASE ~ Added(joined) -> BodyOf(b, bytes)
              [] Added(joined) /\ peer = Self -> OwnOf(b, bytes, ds)
              [] Added(joined) /\ peer # Self -> PeersOf(b, bytes, ps)
  BY <1>1, <1>2, <1>4, <1>5, <1>6 DEF AddContainerSegments, BodyOf, OwnOf, PeersOf
<1>8. BodyOf(b, bytes).body = bytes /\ OwnOf(b, bytes, ds).body = bytes
          /\ PeersOf(b, bytes, ps).body = bytes
  BY <1>3 DEF BodyOf, OwnOf, PeersOf
<1>9. new = BodyOf(b, bytes) \/ new = OwnOf(b, bytes, ds) \/ new = PeersOf(b, bytes, ps)
  BY <1>7
<1>10. new.body = bytes
  BY <1>8, <1>9
<1>11. joined.bytes \in Str \ {<<>>} /\ peer \in Array
  BY FormatsAssumption
<1>12. /\ bytes \in ByteString /\ Len(old) < Len(bytes)
       /\ Len(old) \in U64 /\ Len(bytes) \in U64
  <2>1. bytes = old \o joined.bytes /\ Len(old \o joined.bytes) <= MaxU64
    BY <1>1, <1>4, <1>10
  <2> QED
    BY <1>3, <1>11, <2>1, BodyGrows
<1>13. CASE ~ Added(joined)
  <2>1. new = BodyOf(b, bytes)
    BY <1>7, <1>13
  <2>2. es \in SegmentsUpTo(n + 1) /\ qs \in PeersUpTo(n + 1)
    BY <1>3, BuilderGrows
  <2> QED
    BY <1>12, <2>1, <2>2, BuilderChanges
<1>14. CASE Added(joined)
  <2>1. d \in SegmentDescriptor
    <3>1. d = Descriptor(container, joined, Len(old), Len(bytes))
      BY <1>2, <1>4
    <3> QED
      BY <1>12, <1>14, <3>1, DescriptorTyped
  <2>2. ds \in SegmentsUpTo(n + 1)
    BY <1>3, <1>5, <2>1, UpToAppends DEF SegmentsUpTo
  <2>3. ps \in PeersUpTo(n + 1)
    BY <1>3, <1>6, <1>11, <2>1, AddPeerSegmentIs
  <2>4. /\ OwnOf(b, bytes, ds) \in BuilderOf(n + 1)
        /\ PeersOf(b, bytes, ps) \in BuilderOf(n + 1)
    BY <1>12, <2>2, <2>3, BuilderChanges
  <2>5. new = OwnOf(b, bytes, ds) \/ new = PeersOf(b, bytes, ps)
    BY <1>7, <1>14
  <2> QED
    BY <2>4, <2>5
<1> QED
  BY <1>13, <1>14

\* At the beginning the builder is of its type.
LEMMA BuilderTypedInit == ASSUME BuilderInit PROVE BuilderTyped
<1>1. PICK b, c : b = builder /\ c = calls
  OBVIOUS
<1>2. b = [segments |-> <<>>, peers |-> <<>>, body |-> <<>>] /\ c = <<>>
  BY <1>1 DEF BuilderInit, NewBuilder
<1>3. c \in Seq(Call) /\ Len(c) = 0
  BY <1>2
<1>4. MaxAdded \in Nat
  BY PackBuilderAssumption
<1>5. <<>> \in SegmentsUpTo(0) /\ <<>> \in PeersUpTo(0)
  BY DEF SegmentsUpTo, PeersUpTo, UpTo
<1>6. <<>> \in ByteString
  BY MaxU64Is DEF ByteString, Str
<1>7. b \in BuilderOf(0)
  BY <1>2, <1>5, <1>6 DEF BuilderOf
<1> QED
  BY <1>1, <1>3, <1>4, <1>7 DEF BuilderTyped

\* Every step leaves the builder of its type.
LEMMA BuilderTypedStep ==
    ASSUME BuilderTyped, BuilderNext, Len(builder'.body) <= MaxU64
    PROVE  BuilderTyped'
<1>1. PICK p \in PeerIds, c \in Containers, joined \in Joins : AddSegments(p, c, joined)
  BY DEF BuilderNext
<1>2. PICK call : call = [peer |-> p, container |-> c, joined |-> joined]
  OBVIOUS
<1>3. /\ Len(calls) < MaxAdded /\ builder' = AddContainerSegments(builder, Self, p, c, joined)
      /\ calls' = Append(calls, call)
  BY <1>1, <1>2 DEF AddSegments
<1>4. call \in Call
  BY <1>2 DEF Call
<1>5. calls \in Seq(Call) /\ Len(calls) \in Nat /\ builder \in BuilderOf(Len(calls))
  BY DEF BuilderTyped
<1>6. calls' \in Seq(Call) /\ Len(calls') = Len(calls) + 1
  BY <1>3, <1>4, <1>5
<1>7. builder' \in BuilderOf(Len(calls) + 1)
  <2>1. PICK n \in Nat : n = Len(calls)
    BY <1>5
  <2>2. PICK b : b = builder
    OBVIOUS
  <2>3. PICK new : new = builder'
    OBVIOUS
  <2>4. b \in BuilderOf(n) /\ new = AddContainerSegments(b, Self, p, c, joined)
            /\ Len(new.body) <= MaxU64
    BY <1>3, <1>5, <2>1, <2>2, <2>3
  <2>5. new \in BuilderOf(n + 1)
    BY <2>4, AddedTyped
  <2> QED
    BY <2>1, <2>3, <2>5
<1>8. Len(calls') <= MaxAdded
  BY <1>3, <1>5, <1>6, PackBuilderAssumption
<1> QED
  BY <1>6, <1>7, <1>8 DEF BuilderTyped

-----------------------------------------------------------------------------
(* The kinds of files *)

\* Those with a code for all of their bytes.
CodeKinds == {"op", "payload", "segment", "pack"}
Kinds == CodeKinds \cup {"init"} \cup Tables

KindCode(kind) ==
    CASE kind = "op" -> OpCode
      [] kind = "payload" -> EntriesCode("plaintext")
      [] kind = "segment" -> SegmentCode
      [] kind = "pack" -> SignedCode

\* Each kind of file has a code, and a reader that reads just that code.
LEMMA KindsAre ==
    ASSUME NEW kind \in CodeKinds
    PROVE  /\ IsCode(KindCode(kind))
           /\ \A v \in DOMAIN KindCode(kind) : KindCode(kind)[v] = WriteAs(kind, v)
           /\ \A bytes \in Str : ParsedAll(ReadAs(kind, bytes), KindCode(kind), bytes)
<1>1. CASE kind = "op"
  <2>1. KindCode(kind) = OpCode
    BY <1>1 DEF KindCode
  <2>2. \A v : WriteAs(kind, v) = OpBytes(v)
    BY <1>1 DEF WriteAs, Tables
  <2>3. \A bytes : ReadAs(kind, bytes) = ReadOp(bytes)
    BY <1>1 DEF ReadAs, Tables
  <2>4. IsCode(OpCode) /\ \A v \in DOMAIN OpCode : OpCode[v] = OpBytes(v)
    BY OpIs
  <2>5. \A bytes \in Str : ParsedAll(ReadOp(bytes), OpCode, bytes)
    BY ReadOpParsed
  <2> QED
    BY <2>1, <2>2, <2>3, <2>4, <2>5
<1>2. CASE kind = "payload"
  <2>1. KindCode(kind) = EntriesCode("plaintext")
    BY <1>2 DEF KindCode
  <2>2. \A v : WriteAs(kind, v) = EntriesBytes("plaintext", v)
    BY <1>2 DEF WriteAs, PayloadBytes, Tables
  <2>3. \A bytes : ReadAs(kind, bytes) = ReadEntries("plaintext", Reader(bytes))
    BY <1>2 DEF ReadAs, ReadPayload, Tables
  <2>4. /\ IsCode(EntriesCode("plaintext"))
        /\ \A v \in DOMAIN EntriesCode("plaintext") : EntriesCode("plaintext")[v]
               = EntriesBytes("plaintext", v)
    BY EntriesAre
  <2>5. ASSUME NEW bytes \in Str
        PROVE  ParsedAll(ReadEntries("plaintext", Reader(bytes)), EntriesCode("plaintext"), bytes)
    <3>1. PICK r : r = Reader(bytes)
      OBVIOUS
    <3>2. r.ok /\ r.rest = bytes
      BY <3>1, ReaderIs
    <3>3. ParsedAll(ReadEntries("plaintext", r), EntriesCode("plaintext"), r.rest)
      BY <3>2, EntriesParsed
    <3> QED
      BY <3>1, <3>2, <3>3
  <2> QED
    BY <2>1, <2>2, <2>3, <2>4, <2>5
<1>3. CASE kind = "segment"
  <2>1. KindCode(kind) = SegmentCode
    BY <1>3 DEF KindCode
  <2>2. \A v : WriteAs(kind, v) = SegmentBytes(v)
    BY <1>3 DEF WriteAs, Tables
  <2>3. \A bytes : ReadAs(kind, bytes) = ReadSegment(bytes)
    BY <1>3 DEF ReadAs, Tables
  <2>4. IsCode(SegmentCode) /\ \A v \in DOMAIN SegmentCode : SegmentCode[v] = SegmentBytes(v)
    BY SegmentIs
  <2>5. \A bytes \in Str : ParsedAll(ReadSegment(bytes), SegmentCode, bytes)
    BY SegmentParsed
  <2> QED
    BY <2>1, <2>2, <2>3, <2>4, <2>5
<1>4. CASE kind = "pack"
  <2>1. KindCode(kind) = SignedCode
    BY <1>4 DEF KindCode
  <2>2. \A v : WriteAs(kind, v) = SignedBytes(v)
    BY <1>4 DEF WriteAs, Tables
  <2>3. \A bytes : ReadAs(kind, bytes) = ReadSigned(bytes)
    BY <1>4 DEF ReadAs, Tables
  <2>4. IsCode(SignedCode) /\ \A v \in DOMAIN SignedCode : SignedCode[v] = SignedBytes(v)
    BY SignedIs
  <2>5. \A bytes \in Str : ParsedAll(ReadSigned(bytes), SignedCode, bytes)
    BY ReadSignedParsed
  <2> QED
    BY <2>1, <2>2, <2>3, <2>4, <2>5
<1> QED
  BY <1>1, <1>2, <1>3, <1>4 DEF CodeKinds

\* What was written: values of the types, as the encoders and the checks let
\* them through.
CanBe(kind, of) ==
    /\ kind = "op" => of \in Operation /\ EncodeOpOk(of)
    /\ kind = "payload" => of \in Seq(LogEntry("plaintext"))
    /\ kind = "segment" => of \in Segment
    /\ kind = "pack" =>
          /\ of \in SignedPackHeader /\ Name \in PackFileDescriptor
          /\ Len(SignedBytes(of)) <= MaxU64
    /\ kind = "init" => of \in InitCommitment /\ of.version = 0
    /\ kind \in Tables => RowIs(kind, of) /\ RowOk(kind, of)

BytesOf(kind) == IF kind \in Tables THEN [DOMAIN Columns(kind) -> Cell] ELSE Str

\* Whatever can be in a file is a value of the code of its kind.
LEMMA CanBeInCode ==
    ASSUME NEW kind \in CodeKinds, NEW of, CanBe(kind, of)
    PROVE  of \in DOMAIN KindCode(kind)
<1>1. CASE kind = "op"
  <2>1. of \in Operation /\ EncodeOpOk(of)
    BY <1>1 DEF CanBe
  <2>2. of \in DOMAIN OpCode
    BY <2>1, OpWritten
  <2> QED
    BY <1>1, <2>2 DEF KindCode
<1>2. CASE kind = "payload"
  <2>1. of \in Seq(LogEntry("plaintext"))
    BY <1>2 DEF CanBe
  <2>2. DOMAIN EntriesCode("plaintext") = Seq(LogEntry("plaintext"))
    BY EntriesAre
  <2> QED
    BY <1>2, <2>1, <2>2 DEF KindCode
<1>3. CASE kind = "segment"
  <2>1. of \in Segment
    BY <1>3 DEF CanBe
  <2>2. DOMAIN SegmentCode = Segment
    BY SegmentIs
  <2> QED
    BY <1>3, <2>1, <2>2 DEF KindCode
<1>4. CASE kind = "pack"
  <2>1. of \in SignedPackHeader
    BY <1>4 DEF CanBe
  <2>2. DOMAIN SignedCode = SignedPackHeader
    BY SignedIs
  <2> QED
    BY <1>4, <2>1, <2>2 DEF KindCode
<1> QED
  BY <1>1, <1>2, <1>3, <1>4 DEF CodeKinds

\* The init entry and the rows are kinds of their own.
LEMMA KindsApart ==
    /\ \A kind \in CodeKinds : kind # "init" /\ kind \notin Tables
    /\ "init" \notin Tables
    /\ \A kind \in CodeKinds \cup {"init"} : BytesOf(kind) = Str
  BY DEF CodeKinds, Tables, BytesOf

\* The first version is one that is known.
LEMMA FirstCommitment ==
    ASSUME NEW c \in InitCommitment, c.version = 0
    PROVE  /\ c \in DOMAIN CommitmentCode /\ CommitmentCode[c] = CommitmentBytes(c)
           /\ CommitmentBytes(c) \in Str
<1>1. c.version \in Bytes
  BY DEF InitCommitment
<1>2. 0 % Half = 0
  BY HalfIs
<1>3. c \in KnownCommitment
  BY <1>1, <1>2 DEF KnownCommitment, Majors
<1>4. c \in DOMAIN CommitmentCode /\ CommitmentCode[c] = CommitmentBytes(c)
  BY <1>3, CommitmentIs
<1>5. IsCode(CommitmentCode)
  BY CommitmentIs
<1> QED
  BY <1>4, <1>5 DEF IsCode

\* A front of a string.
LEMMA SplitsPrefix ==
    ASSUME NEW s, NEW w, NEW t, Splits(s, w, t)
    PROVE  IsPrefix(w, s)
<1>1. w \in Seq(Bytes) /\ t \in Seq(Bytes) /\ s = w \o t
  BY DEF Splits, Str
<1>2. PICK m \in Nat : m = Len(w)
  BY <1>1
<1>3. PICK n \in Nat : n = Len(s) /\ m <= n
  BY <1>1, <1>2, SplitsIs, StrIs
<1>4. \A i \in 1 .. m : s[i] = w[i]
  BY <1>1, <1>2, ConcatProperties
<1>5. SubSeq(s, 1, m) = [i \in 1 .. m |-> s[i]]
  BY <1>2, <1>3
<1>6. SubSeq(w, 1, m) = [i \in 1 .. m |-> w[i]]
  BY <1>2
<1>7. SubSeq(w, 1, m) = SubSeq(s, 1, m)
  BY <1>4, <1>5, <1>6
<1> QED
  BY <1>2, <1>3, <1>7 DEF IsPrefix
\* The bytes of a file, and that a reader takes them for what was written.
LEMMA WritesAndReads ==
    ASSUME NEW kind \in Kinds, NEW of, CanBe(kind, of)
    PROVE  /\ WriteAs(kind, of) \in BytesOf(kind)
           /\ Reads(ReadAs(kind, WriteAs(kind, of)), of)
<1>1. PICK bytes, o : bytes = WriteAs(kind, of) /\ o = ReadAs(kind, bytes)
  OBVIOUS
<1>2. CASE kind \in CodeKinds
  <2>1. of \in DOMAIN KindCode(kind)
    BY <1>2, CanBeInCode
  <2>2. KindCode(kind)[of] = bytes /\ bytes \in Str
    BY <1>1, <1>2, <2>1, KindsAre DEF IsCode
  <2>3. ParsedAll(o, KindCode(kind), bytes)
    BY <1>1, <1>2, <2>2, KindsAre
  <2>4. o.ok /\ o.val = of
    BY <2>1, <2>2, <2>3, ParsedAllIs
  <2>5. BytesOf(kind) = Str
    BY <1>2, KindsApart
  <2> QED
    BY <1>1, <2>2, <2>4, <2>5 DEF Reads
<1>3. CASE kind = "init"
  <2>1. of \in InitCommitment /\ of.version = 0
    BY <1>3 DEF CanBe
  <2>2. bytes = CommitmentBytes(of) /\ o = ReadCommitment(bytes)
    BY <1>1, <1>3 DEF WriteAs, ReadAs, Tables
  <2>3. of \in DOMAIN CommitmentCode /\ CommitmentCode[of] = bytes /\ bytes \in Str
    BY <2>1, <2>2, FirstCommitment
  <2>4. PICK q : Parsed(q, CommitmentCode, bytes) /\ o = IF GoesOn(q) THEN q ELSE Failed
    BY <2>2, <2>3, CommitmentParsed
  <2>5. Begins(bytes, CommitmentCode, of, <<>>)
    BY <2>3, SplitsAll DEF Begins
  <2>6. q = Good(of, <<>>)
    BY <2>4, <2>5 DEF Parsed
  <2>7. GoesOn(q) /\ q.ok /\ q.val = of
    BY <2>6, GoodIs DEF GoesOn
  <2>8. o.ok /\ o.val = of
    BY <2>4, <2>7
  <2>9. BytesOf(kind) = Str
    BY <1>3, KindsApart
  <2> QED
    BY <1>1, <2>3, <2>8, <2>9 DEF Reads
<1>4. CASE kind \in Tables
  <2>1. RowIs(kind, of) /\ RowOk(kind, of)
    BY <1>4 DEF CanBe
  <2>2. bytes = RowCells(kind, of) /\ o = ReadRow(kind, bytes)
    BY <1>1, <1>4 DEF WriteAs, ReadAs, Tables
  <2>3. bytes \in [DOMAIN Columns(kind) -> Cell] /\ o = Good(of, <<>>)
    BY <1>4, <2>1, <2>2, RowWritten
  <2>4. o.ok /\ o.val = of
    BY <2>3, GoodIs
  <2> QED
    BY <1>1, <1>4, <2>3, <2>4 DEF Reads, BytesOf
<1> QED
  BY <1>2, <1>3, <1>4 DEF Kinds

\* Whatever bytes a reader takes for a value, the value is written as these.
LEMMA FormIsOne ==
    ASSUME NEW kind \in Kinds, NEW bytes \in BytesOf(kind)
    PROVE  HasOneForm(kind, ReadAs(kind, bytes), bytes)
<1>1. PICK o : o = ReadAs(kind, bytes)
  OBVIOUS
<1>2. SUFFICES ASSUME o.ok
               PROVE  \/ WriteAs(kind, o.val) = bytes
                      \/ /\ kind = "init" /\ Minor(o.val.version) # 0
                         /\ IsPrefix(WriteAs(kind, o.val), bytes)
  BY <1>1 DEF HasOneForm
<1>3. CASE kind \in CodeKinds
  <2>1. bytes \in Str
    BY <1>3, KindsApart
  <2>2. ParsedAll(o, KindCode(kind), bytes)
    BY <1>1, <1>3, <2>1, KindsAre
  <2>3. o.val \in DOMAIN KindCode(kind) /\ KindCode(kind)[o.val] = bytes
    BY <1>2, <2>2, ParsedAllIs
  <2>4. WriteAs(kind, o.val) = bytes
    BY <1>3, <2>3, KindsAre
  <2> QED
    BY <2>4
<1>4. CASE kind = "init"
  <2>1. bytes \in Str
    BY <1>4, KindsApart
  <2>2. o = ReadCommitment(bytes)
    BY <1>1, <1>4 DEF ReadAs, Tables
  <2>3. PICK q : Parsed(q, CommitmentCode, bytes) /\ o = IF GoesOn(q) THEN q ELSE Failed
    BY <2>1, <2>2, CommitmentParsed
  <2>4. o = q /\ GoesOn(q)
    BY <1>2, <2>3, GoodIs
  <2>5. Begins(bytes, CommitmentCode, q.val, q.rest)
    BY <2>3, <2>4, ParsedIs DEF GoesOn
  <2>6. PICK c, t : c = q.val /\ t = q.rest
    OBVIOUS
  <2>7. c \in DOMAIN CommitmentCode /\ Splits(bytes, CommitmentCode[c], t)
    BY <2>5, <2>6 DEF Begins
  <2>8. CommitmentCode[c] = WriteAs(kind, c)
    <3>1. CommitmentCode[c] = CommitmentBytes(c)
      BY <2>7, CommitmentIs
    <3> QED
      BY <1>4, <3>1 DEF WriteAs, Tables
  <2>9. Splits(bytes, WriteAs(kind, c), t)
    BY <2>7, <2>8
  <2>10. CASE t = <<>>
    <3>1. WriteAs(kind, c) = bytes
      BY <2>9, <2>10, SplitsAll
    <3> QED
      BY <2>4, <2>6, <3>1
  <2>11. CASE t # <<>>
    <3>1. Minor(c.version) # 0
      BY <2>4, <2>6, <2>11 DEF GoesOn
    <3>2. IsPrefix(WriteAs(kind, c), bytes)
      BY <2>9, SplitsPrefix
    <3> QED
      BY <1>4, <2>4, <2>6, <3>1, <3>2
  <2> QED
    BY <2>10, <2>11
<1>5. CASE kind \in Tables
  <2>1. bytes \in [DOMAIN Columns(kind) -> Cell]
    BY <1>5 DEF BytesOf
  <2>2. o = ReadRow(kind, bytes)
    BY <1>1, <1>5 DEF ReadAs, Tables
  <2>3. RowCells(kind, o.val) = bytes
    BY <1>2, <1>5, <2>1, <2>2, RowRead
  <2>4. WriteAs(kind, o.val) = bytes
    BY <1>5, <2>3 DEF WriteAs, Tables
  <2> QED
    BY <2>4
<1> QED
  BY <1>3, <1>4, <1>5 DEF Kinds

\* The header of a pack is shorter than the pack.
LEMMA HeaderInside ==
    ASSUME NEW s \in SignedPackHeader, Len(SignedBytes(s)) <= MaxU64
    PROVE  HeaderBytes(s.header) \in ByteString
<1>1. s.header \in PackHeader /\ s.signature \in Key
  BY DEF SignedPackHeader
<1>2. HeaderBytes(s.header) \in Str
  BY <1>1, HeaderIs DEF IsCode
<1>3. TaggedBytes(s.signature) \in Str
  BY <1>1, KeyIs DEF IsCode
<1>4. PICK h, t : h = HeaderBytes(s.header) /\ t = TaggedBytes(s.signature)
  OBVIOUS
<1>5. Len(h \o t) = Len(h) + Len(t) /\ Len(h \o t) <= MaxU64
  <2>1. SignedBytes(s) = h \o t
    BY <1>4 DEF SignedBytes
  <2> QED
    BY <1>2, <1>3, <1>4, <2>1, ConcatIs
<1>6. PICK m, n : m = Len(h) /\ n = Len(t)
  OBVIOUS
<1>7. m \in Nat /\ n \in Nat /\ MaxU64 \in Nat
  BY <1>2, <1>3, <1>4, <1>6, StrIs, MaxU64Is
<1>8. m <= MaxU64
  BY <1>5, <1>6, <1>7
<1> QED
  BY <1>2, <1>4, <1>6, <1>8 DEF ByteString

\* A pack's signature verifies for its own header under its own name.
LEMMA OnlyItself ==
    ASSUME NEW of, CanBe("pack", of), NEW bytes \in ByteString, NEW o, o = ReadSigned(bytes), o.ok,
           NEW name \in {Name} \cup OtherNames,
           o.val.signature = of.signature,
           SignBytes(name, o.val.header) = SignBytes(Name, of.header)
    PROVE  name = Name /\ bytes = SignedBytes(of)
<1>1. of \in SignedPackHeader /\ Name \in PackFileDescriptor /\ Len(SignedBytes(of)) <= MaxU64
  BY DEF CanBe
<1>2. bytes \in Str /\ Len(bytes) <= MaxU64
  BY DEF ByteString
<1>3. ParsedAll(o, SignedCode, bytes)
  BY <1>2, ReadSignedParsed
<1>4. o.val \in SignedPackHeader /\ SignedBytes(o.val) = bytes
  BY <1>3, ParsedAllIs, SignedIs
<1>5. PICK s : s = o.val
  OBVIOUS
<1>6. s \in SignedPackHeader /\ Len(SignedBytes(s)) <= MaxU64
  BY <1>2, <1>4, <1>5
<1>7. HeaderBytes(s.header) \in ByteString
  BY <1>6, HeaderInside
<1>8. HeaderBytes(of.header) \in ByteString
  BY <1>1, HeaderInside
<1>9. name \in PackFileDescriptor
  BY <1>1, FormatsAssumption
<1>10. s.header \in PackHeader /\ of.header \in PackHeader
  BY <1>1, <1>6 DEF SignedPackHeader
<1>11. SignBytes(name, s.header) = SignBytes(Name, of.header)
  BY <1>5
<1>12. name = Name /\ s.header = of.header
  <2>1. Name \in PackFileDescriptor
    BY <1>1
  <2>2. PICK h, g : h = s.header /\ g = of.header
    OBVIOUS
  <2>3. /\ h \in PackHeader /\ g \in PackHeader
        /\ HeaderBytes(h) \in ByteString /\ HeaderBytes(g) \in ByteString
        /\ SignBytes(name, h) = SignBytes(Name, g)
    BY <1>7, <1>8, <1>10, <1>11, <2>2
  <2>4. name = Name /\ h = g
    BY <1>9, <2>1, <2>3, SignBytesDiffer
  <2> QED
    BY <2>2, <2>4
<1>13. s = of
  <2>1. s.signature = of.signature
    BY <1>5
  <2> QED
    BY <1>1, <1>6, <1>12, <2>1 DEF SignedPackHeader
<1> QED
  BY <1>4, <1>5, <1>12, <1>13

-----------------------------------------------------------------------------
(* The invariant *)

FileOf(kind, of, bytes) == [kind |-> kind, of |-> of, bytes |-> bytes]

\* A file that was written, and what damage it has met.
IsFile(f, changes) ==
    /\ f = FileOf(f.kind, f.of, f.bytes)
    /\ f.kind \in Kinds /\ CanBe(f.kind, f.of) /\ f.bytes \in BytesOf(f.kind)
    /\ f.kind = "pack" => Len(f.bytes) <= MaxU64
    /\ changes = 0 => f.bytes = WriteAs(f.kind, f.of)

(***************************************************************************)
(* The inductive invariant: the builder keeps to its types, and a file is  *)
(* bytes of its kind for a value of its kind, those of the value itself    *)
(* until something has changed them.                                       *)
(***************************************************************************)
FormatsInv ==
    /\ BuilderTyped
    /\ file = NoFile \/ IsFile(file, damage)
    /\ damage \in Nat

\* The parts of a file record.
LEMMA FileOfIs ==
    \A kind, of, bytes :
        /\ FileOf(kind, of, bytes).kind = kind /\ FileOf(kind, of, bytes).of = of
        /\ FileOf(kind, of, bytes).bytes = bytes
  BY DEF FileOf

\* What is written is a file.
LEMMA WrittenIsFile ==
    ASSUME NEW kind \in Kinds, NEW of, CanBe(kind, of), NEW changes
    PROVE  IsFile(FileOf(kind, of, WriteAs(kind, of)), changes)
<1>1. PICK bytes : bytes = WriteAs(kind, of)
  OBVIOUS
<1>2. PICK f : f = FileOf(kind, of, bytes)
  OBVIOUS
<1>3. f.kind = kind /\ f.of = of /\ f.bytes = bytes
  BY <1>2, FileOfIs
<1>4. bytes \in BytesOf(kind)
  BY <1>1, WritesAndReads
<1>5. kind = "pack" => Len(bytes) <= MaxU64
  <2>1. kind = "pack" => bytes = SignedBytes(of)
    BY <1>1 DEF WriteAs, Tables
  <2> QED
    BY <2>1 DEF CanBe
<1>6. f = FileOf(f.kind, f.of, f.bytes)
  BY <1>2, <1>3
<1>7. IsFile(f, changes)
  BY <1>1, <1>3, <1>4, <1>5, <1>6 DEF IsFile
<1> QED
  BY <1>1, <1>2, <1>7

\* There is no file at the beginning.
LEMMA FormatsInvInit == ASSUME Init PROVE FormatsInv
  BY BuilderTypedInit DEF Init, FormatsInv

\* One that writes a file, and does no more.
LEMMA FormatsInvWrites ==
    ASSUME FormatsInv, NEW kind \in Kinds, NEW of, CanBe(kind, of),
           file' = FileOf(kind, of, WriteAs(kind, of)), UNCHANGED <<builder, calls, damage>>
    PROVE  FormatsInv'
<1>1. BuilderTyped'
  BY DEF FormatsInv, BuilderTyped
<1>2. IsFile(file', damage)
  BY WrittenIsFile
<1>3. damage' = damage /\ damage \in Nat
  BY DEF FormatsInv
<1> QED
  BY <1>1, <1>2, <1>3 DEF FormatsInv

\* The header that the builder makes is one of the type.
LEMMA HeaderBuilt ==
    ASSUME NEW n \in Nat, n <= MaxAdded, NEW b \in BuilderOf(n), NEW t \in Times,
               NEW parents \in Parents,
           NEW sha \in Array
    PROVE  BuildHeader(b, t, parents, sha) \in PackHeader
<1>1. n <= MaxU64 /\ MaxU64 \in Nat
  BY FormatsAssumption, PackBuilderAssumption, MaxU64Is
<1>2. \A S, T : S \subseteq T => UpTo(S, n) \subseteq Vec(T)
  <2>1. ASSUME NEW S, NEW T, S \subseteq T PROVE UpTo(S, n) \subseteq UpTo(T, MaxU64)
    BY <1>1, <2>1, UpToGrows
  <2>2. \A T : UpTo(T, MaxU64) = Vec(T)
    BY DEF UpTo, Vec
  <2> QED
    BY <2>1, <2>2
<1>3. SegmentsUpTo(n) \subseteq Vec(SegmentDescriptor)
  BY <1>2 DEF SegmentsUpTo
<1>4. \A T : <<>> \in Vec(T)
  BY <1>1 DEF Vec
<1>5. PeerUpTo(n) \subseteq PeerData
  BY <1>3, <1>4 DEF PeerUpTo, PeerData
<1>6. PeersUpTo(n) \subseteq Vec(PeerData)
  BY <1>2, <1>5 DEF PeersUpTo
<1>7. b.segments \in Vec(SegmentDescriptor) /\ b.peers \in Vec(PeerData)
  BY <1>3, <1>6 DEF BuilderOf
<1>8. t \in U64 /\ parents \in Vec(PackRef)
  BY FormatsAssumption
<1>9. PICK ds, ps : ds = b.segments /\ ps = b.peers
  OBVIOUS
<1>10. BuildHeader(b, t, parents, sha) =
        [timestamp |-> t, parents |-> parents, supersedes |-> <<>>,
         segments |-> ds, peers |-> ps, body_sha256 |-> sha]
  BY <1>9 DEF BuildHeader
<1>11. ds \in Vec(SegmentDescriptor) /\ ps \in Vec(PeerData) /\ <<>> \in Vec(PackRef)
  BY <1>4, <1>7, <1>9
<1> QED
  BY <1>8, <1>10, <1>11 DEF PackHeader

\* Arrays of zeros and of ones.
LEMMA ArraysOf ==
    \A b \in {0, 1} : [i \in 1 .. ArrayLen |-> b] \in Array
<1>1. ArrayLen \in Nat /\ {0, 1} \in SUBSET Bytes
  BY WireAssumption, TagBytes
<1> SUFFICES ASSUME NEW b \in {0, 1} PROVE [i \in 1 .. ArrayLen |-> b] \in Array
  OBVIOUS
<1>2. PICK s : s = [i \in 1 .. ArrayLen |-> b]
  OBVIOUS
<1>3. s \in Seq(Bytes)
  BY <1>1, <1>2, IsASeq
<1>4. Len(s) = ArrayLen
  BY <1>1, <1>2, <1>3
<1> QED
  BY <1>2, <1>3, <1>4 DEF Array, Str

\* The invariant is kept when a file is written.
LEMMA FormatsInvBuilds ==
    ASSUME FormatsInv, NEW t \in Times, NEW parents \in Parents, Build(t, parents)
    PROVE  FormatsInv'
<1>1. PICK sha, data : sha = [i \in 1 .. ArrayLen |-> 0] /\ data = [i \in 1 .. ArrayLen |-> 1]
  OBVIOUS
<1>2. sha \in Array /\ data \in Array
  BY <1>1, ArraysOf
<1>3. PICK header : header = BuildHeader(builder, t, parents, sha)
  OBVIOUS
<1>4. PICK signature : signature = [algo |-> 0, data |-> data]
  OBVIOUS
<1>5. PICK signed : signed = [header |-> header, signature |-> signature]
  OBVIOUS
<1>6. /\ RangeOk(Name.id.seqs) /\ Len(SignedBytes(signed)) <= MaxU64
      /\ file' = [kind |-> "pack", of |-> signed, bytes |-> SignedBytes(signed)]
      /\ UNCHANGED <<builder, calls, damage>>
  BY <1>1, <1>3, <1>4, <1>5 DEF Build
<1>7. PICK n \in Nat : n = Len(calls) /\ n <= MaxAdded /\ builder \in BuilderOf(n)
  BY DEF FormatsInv, BuilderTyped
<1>8. header \in PackHeader
  BY <1>2, <1>3, <1>7, HeaderBuilt
<1>9. signed \in SignedPackHeader
  BY <1>2, <1>4, <1>5, <1>8 DEF SignedPackHeader, Key
<1>10. Name \in PackFileDescriptor
  BY <1>6, FormatsAssumption
<1>11. CanBe("pack", signed)
  BY <1>6, <1>9, <1>10 DEF CanBe, Tables
<1>12. WriteAs("pack", signed) = SignedBytes(signed)
  BY DEF WriteAs, Tables
<1>13. file' = FileOf("pack", signed, WriteAs("pack", signed))
  BY <1>6, <1>12 DEF FileOf
<1>14. "pack" \in Kinds
  BY DEF Kinds, CodeKinds
<1> QED
  BY <1>6, <1>11, <1>13, <1>14, FormatsInvWrites
\* The writers, but for the builder.
LEMMA FormatsInvAuthors ==
    ASSUME FormatsInv
    PROVE  /\ \A op \in Ops : WriteOp(op) => FormatsInv'
           /\ \A entries \in Payloads : WritePayload(entries) => FormatsInv'
           /\ \A segment \in Segments : WriteSegment(segment) => FormatsInv'
           /\ \A c \in Commitments : WriteCommitment(c) => FormatsInv'
           /\ \A table \in Tables : \A row \in Rows(table) : WriteRow(table, row) => FormatsInv'
<1>k. {"op", "payload", "segment", "init"} \cup Tables \subseteq Kinds
  BY DEF Kinds, CodeKinds
<1>1. ASSUME NEW op \in Ops, WriteOp(op) PROVE FormatsInv'
  <2>1. /\ EncodeOpOk(op) /\ file' = [kind |-> "op", of |-> op, bytes |-> OpBytes(op)]
        /\ UNCHANGED <<builder, calls, damage>>
    BY <1>1 DEF WriteOp, Written
  <2>2. CanBe("op", op)
    BY <2>1, FormatsAssumption DEF CanBe, Tables
  <2>3. file' = FileOf("op", op, WriteAs("op", op))
    BY <2>1 DEF FileOf, WriteAs, Tables
  <2> QED
    BY <1>k, <2>1, <2>2, <2>3, FormatsInvWrites
<1>2. ASSUME NEW entries \in Payloads, WritePayload(entries) PROVE FormatsInv'
  <2>1. /\ file' = [kind |-> "payload", of |-> entries, bytes |-> PayloadBytes(entries)]
        /\ UNCHANGED <<builder, calls, damage>>
    BY <1>2 DEF WritePayload, Written
  <2>2. CanBe("payload", entries)
    BY FormatsAssumption DEF CanBe, Tables
  <2>3. file' = FileOf("payload", entries, WriteAs("payload", entries))
    BY <2>1 DEF FileOf, WriteAs, Tables
  <2> QED
    BY <1>k, <2>1, <2>2, <2>3, FormatsInvWrites
<1>3. ASSUME NEW segment \in Segments, WriteSegment(segment) PROVE FormatsInv'
  <2>1. /\ file' = [kind |-> "segment", of |-> segment, bytes |-> SegmentBytes(segment)]
        /\ UNCHANGED <<builder, calls, damage>>
    BY <1>3 DEF WriteSegment, Written
  <2>2. CanBe("segment", segment)
    BY FormatsAssumption DEF CanBe, Tables
  <2>3. file' = FileOf("segment", segment, WriteAs("segment", segment))
    BY <2>1 DEF FileOf, WriteAs, Tables
  <2> QED
    BY <1>k, <2>1, <2>2, <2>3, FormatsInvWrites
<1>4. ASSUME NEW c \in Commitments, WriteCommitment(c) PROVE FormatsInv'
  <2>1. /\ c.version = 0 /\ file' = [kind |-> "init", of |-> c, bytes |-> CommitmentBytes(c)]
        /\ UNCHANGED <<builder, calls, damage>>
    BY <1>4 DEF WriteCommitment, Written
  <2>2. CanBe("init", c)
    BY <2>1, FormatsAssumption DEF CanBe, Tables
  <2>3. file' = FileOf("init", c, WriteAs("init", c))
    BY <2>1 DEF FileOf, WriteAs, Tables
  <2> QED
    BY <1>k, <2>1, <2>2, <2>3, FormatsInvWrites
<1>5. ASSUME NEW table \in Tables, NEW row \in Rows(table), WriteRow(table, row) PROVE FormatsInv'
  <2>1. /\ RowOk(table, row) /\ file' = [kind |-> table, of |-> row, bytes |-> RowCells(table, row)]
        /\ UNCHANGED <<builder, calls, damage>>
    BY <1>5 DEF WriteRow, Written
  <2>2. RowIs(table, row)
    BY FormatsAssumption
  <2>3. CanBe(table, row)
    BY <2>1, <2>2 DEF CanBe, Tables
  <2>4. WriteAs(table, row) = RowCells(table, row)
    BY DEF WriteAs, Tables
  <2>5. file' = FileOf(table, row, WriteAs(table, row))
    BY <2>1, <2>4 DEF FileOf
  <2> QED
    BY <1>k, <2>1, <2>3, <2>5, FormatsInvWrites
<1> QED
  BY <1>1, <1>2, <1>3, <1>4, <1>5

\* The invariant is kept when a segment is added to the builder.
LEMMA FormatsInvAdds ==
    ASSUME FormatsInv, AddToPack
    PROVE  FormatsInv'
<1>1. BuilderNext /\ Len(builder'.body) <= MaxU64 /\ file = NoFile /\ UNCHANGED <<file, damage>>
  BY DEF AddToPack
<1>2. BuilderTyped'
  BY <1>1, BuilderTypedStep DEF FormatsInv
<1> QED
  BY <1>1, <1>2 DEF FormatsInv

\* Damage changes the length by one at most, or shortens.
LEMMA ChangedIs ==
    ASSUME NEW bytes \in Str, NEW new \in Changed(bytes)
    PROVE  new \in Str /\ Len(new) <= Len(bytes) + 1
<1>1. PICK len \in Nat : len = Len(bytes)
  BY StrIs
<1>2. bytes \in Seq(Bytes) /\ DOMAIN bytes = 1 .. len
  BY <1>1 DEF Str
<1>3. bytes \in UpTo(Bytes, len)
  BY <1>1, <1>2 DEF UpTo
<1>4. DamageBytes \subseteq Bytes
  BY FormatsAssumption
<1>5. CASE new \in Overwritten(bytes)
  <2>1. PICK i \in DOMAIN bytes, b \in DamageBytes : new = [bytes EXCEPT ![i] = b]
    BY <1>5 DEF Overwritten
  <2>2. DOMAIN new = DOMAIN bytes /\ new = [k \in DOMAIN new |-> new[k]]
    BY <2>1
  <2>3. \A k \in DOMAIN bytes : new[k] \in Bytes
    BY <1>2, <1>4, <2>1
  <2>4. new \in UpTo(Bytes, len)
    BY <1>3, <2>2, <2>3, UpToMaps
  <2> QED
    BY <1>1, <2>4 DEF UpTo, Str
<1>6. CASE new \in Cut(bytes)
  <2>1. PICK i \in DOMAIN bytes : new = SubSeq(bytes, 1, i - 1)
    BY <1>6 DEF Cut
  <2>2. i - 1 \in 0 .. len /\ i - 1 \in Nat
    BY <1>2, <2>1
  <2>3. i - 1 \in 0 .. Len(bytes)
    BY <1>1, <2>2
  <2>4. Splits(bytes, SubSeq(bytes, 1, i - 1), SubSeq(bytes, (i - 1) + 1, Len(bytes)))
            /\ Len(SubSeq(bytes, 1, i - 1)) = i - 1
    BY <2>3, SplitsAt
  <2>5. new \in Str /\ Len(new) = i - 1
    BY <2>1, <2>4, SplitsIs
  <2> QED
    BY <1>1, <2>2, <2>5
<1>7. CASE new \in Inserted(bytes)
  <2>1. PICK i \in 1 .. Len(bytes) + 1, b \in DamageBytes : new = InsertAt(bytes, i, b)
    BY <1>7 DEF Inserted
  <2>2. b \in Bytes
    BY <1>4, <2>1
  <2>3. InsertAt(bytes, i, b) \in UpTo(Bytes, len + 1)
    BY <1>3, <2>1, <2>2, UpToInserts
  <2> QED
    BY <1>1, <2>1, <2>3 DEF UpTo, Str
<1> QED
  BY <1>5, <1>6, <1>7 DEF Changed

\* A changed cell is still a cell of the row's columns.
LEMMA ChangedCellIs ==
    ASSUME NEW cell \in Cell, NEW new \in ChangedCell(cell)
    PROVE  new \in Cell
<1>1. CASE new \in DamageCells
  BY <1>1, FormatsAssumption
<1>2. CASE new \notin DamageCells
  <2>1. PICK b : IsA("blob", cell) /\ b \in Changed(cell[2]) /\ new = BlobCell(b)
    BY <1>2 DEF ChangedCell
  <2>2. cell[2] \in Str
    <3>1. cell[1] = "blob"
      BY <2>1 DEF IsA
    <3> QED
      BY <3>1 DEF Cell, Null
  <2>3. b \in Str
    BY <2>1, <2>2, ChangedIs
  <2> QED
    BY <2>1, <2>3 DEF BlobCell, Cell
<1> QED
  BY <1>1, <1>2

\* A changed row is still a row.
LEMMA ChangedRowIs ==
    ASSUME NEW table \in Tables, NEW cells \in [DOMAIN Columns(table) -> Cell],
               NEW new \in ChangedRow(cells)
    PROVE  new \in [DOMAIN Columns(table) -> Cell]
<1>1. PICK i \in DOMAIN cells : new \in {[cells EXCEPT ![i] = c] : c \in ChangedCell(cells[i])}
  BY DEF ChangedRow
<1>2. PICK c \in ChangedCell(cells[i]) : new = [cells EXCEPT ![i] = c]
  BY <1>1
<1>3. c \in Cell
  BY <1>1, <1>2, ChangedCellIs
<1> QED
  BY <1>1, <1>2, <1>3

\* What is damaged is not longer than LongFile.
LEMMA DamagedIsShort ==
    ASSUME NEW changes \in Nat, changes < DamageBound, Len(file.bytes) \in Nat
    PROVE  Len(file.bytes) <= LongFile
<1>1. PICK n \in Nat : n = Len(file.bytes)
  OBVIOUS
<1>2. ShortFile \in Nat /\ LongFile \in Nat /\ ShortFile <= LongFile
  BY FormatsAssumption
<1>3. DamageBound = CASE n <= ShortFile -> 2 [] n \in ShortFile + 1 .. LongFile -> 1 [] n > LongFile -> 0
  BY <1>1 DEF DamageBound
<1>4. ASSUME n > LongFile PROVE FALSE
  <2>1. ~(n <= ShortFile) /\ n \notin ShortFile + 1 .. LongFile
    BY <1>2, <1>4
  <2>2. DamageBound = 0
    BY <1>3, <1>4, <2>1
  <2> QED
    BY <2>2
<1> QED
  BY <1>1, <1>2, <1>4

\* The invariant is kept when a file is damaged.
LEMMA FormatsInvChanges ==
    ASSUME FormatsInv, Change
    PROVE  FormatsInv'
<1>1. /\ file # NoFile /\ damage < DamageBound /\ damage' = damage + 1
      /\ UNCHANGED <<builder, calls>>
  BY DEF Change
<1>2. PICK new \in IF file.kind \in Tables THEN ChangedRow(file.bytes) ELSE Changed(file.bytes) :
        file' = [file EXCEPT !.bytes = new]
  BY DEF Change
<1>3. IsFile(file, damage) /\ damage \in Nat /\ BuilderTyped
  BY <1>1 DEF FormatsInv
<1>4. PICK kind, of, bytes : kind = file.kind /\ of = file.of /\ bytes = file.bytes
  OBVIOUS
<1>5. /\ file = FileOf(kind, of, bytes) /\ kind \in Kinds /\ CanBe(kind, of)
      /\ bytes \in BytesOf(kind)
  BY <1>3, <1>4 DEF IsFile
<1>6. file' = FileOf(kind, of, new)
  <2>1. PICK f, g : f = file /\ g = [f EXCEPT !.bytes = new]
    OBVIOUS
  <2>2. f = [kind |-> kind, of |-> of, bytes |-> bytes]
    BY <1>5, <2>1 DEF FileOf
  <2>3. g = [kind |-> kind, of |-> of, bytes |-> new]
    BY <2>1, <2>2
  <2> QED
    BY <1>2, <2>1, <2>3 DEF FileOf
<1>7. new \in BytesOf(kind)
  <2>1. CASE kind \in Tables
    <3>1. bytes \in [DOMAIN Columns(kind) -> Cell] /\ new \in ChangedRow(bytes)
      BY <1>2, <1>4, <1>5, <2>1 DEF BytesOf
    <3> QED
      BY <2>1, <3>1, ChangedRowIs DEF BytesOf
  <2>2. CASE kind \notin Tables
    <3>1. bytes \in Str /\ new \in Changed(bytes)
      BY <1>2, <1>4, <1>5, <2>2 DEF BytesOf
    <3> QED
      BY <2>2, <3>1, ChangedIs DEF BytesOf
  <2> QED
    BY <2>1, <2>2
<1>8. kind = "pack" => Len(new) <= MaxU64
  <2> SUFFICES ASSUME kind = "pack" PROVE Len(new) <= MaxU64
    OBVIOUS
  <2>1. kind \notin Tables
    BY DEF Tables
  <2>2. bytes \in Str /\ new \in Changed(bytes)
    BY <1>2, <1>4, <1>5, <2>1 DEF BytesOf
  <2>3. Len(bytes) \in Nat /\ new \in Str /\ Len(new) <= Len(bytes) + 1
    BY <2>2, ChangedIs, StrIs
  <2>4. Len(bytes) <= LongFile
    BY <1>1, <1>3, <1>4, <2>3, DamagedIsShort
  <2>5. LongFile \in Nat /\ LongFile < MaxU64 /\ MaxU64 \in Nat
    BY FormatsAssumption, MaxU64Is
  <2>6. PICK m, n : m = Len(bytes) /\ n = Len(new)
    OBVIOUS
  <2>7. m \in Nat /\ n \in Nat /\ n <= m + 1 /\ m <= LongFile
    BY <2>3, <2>4, <2>6, StrIs
  <2> QED
    BY <2>5, <2>6, <2>7
<1>9. damage' # 0 /\ damage' \in Nat
  BY <1>1, <1>3
<1>10. IsFile(FileOf(kind, of, new), damage')
  <2>1. PICK f : f = FileOf(kind, of, new)
    OBVIOUS
  <2>2. f.kind = kind /\ f.of = of /\ f.bytes = new
    BY <2>1, FileOfIs
  <2>3. f = FileOf(f.kind, f.of, f.bytes)
    BY <2>1, <2>2
  <2>4. IsFile(f, damage')
    BY <1>5, <1>7, <1>8, <1>9, <2>2, <2>3 DEF IsFile
  <2> QED
    BY <2>1, <2>4
<1>11. BuilderTyped'
  BY <1>1, <1>3 DEF BuilderTyped
<1> QED
  BY <1>6, <1>9, <1>10, <1>11 DEF FormatsInv

\* The invariant is kept by every step.
LEMMA FormatsInvStep ==
    ASSUME FormatsInv, [Next]_vars
    PROVE  FormatsInv'
<1>1. ASSUME NEW op \in Ops, WriteOp(op) PROVE FormatsInv'
  BY <1>1, FormatsInvAuthors
<1>2. ASSUME NEW entries \in Payloads, WritePayload(entries) PROVE FormatsInv'
  BY <1>2, FormatsInvAuthors
<1>3. ASSUME NEW segment \in Segments, WriteSegment(segment) PROVE FormatsInv'
  BY <1>3, FormatsInvAuthors
<1>4. ASSUME NEW c \in Commitments, WriteCommitment(c) PROVE FormatsInv'
  BY <1>4, FormatsInvAuthors
<1>5. ASSUME NEW table \in Tables, NEW row \in Rows(table), WriteRow(table, row) PROVE FormatsInv'
  BY <1>5, FormatsInvAuthors
<1>6. ASSUME AddToPack PROVE FormatsInv'
  BY <1>6, FormatsInvAdds
<1>7. ASSUME NEW t \in Times, NEW parents \in Parents, Build(t, parents) PROVE FormatsInv'
  BY <1>7, FormatsInvBuilds
<1>8. ASSUME Change PROVE FormatsInv'
  BY <1>8, FormatsInvChanges
<1>9. ASSUME UNCHANGED vars PROVE FormatsInv'
  BY <1>9 DEF vars, FormatsInv, BuilderTyped
<1> QED
  BY <1>1, <1>2, <1>3, <1>4, <1>5, <1>6, <1>7, <1>8, <1>9 DEF Next

\* The inductive invariant holds in every behaviour.
LEMMA FormatsInvAlways == Spec => []FormatsInv
<1>1. Init => FormatsInv
  BY FormatsInvInit
<1>2. FormatsInv /\ [Next]_vars => FormatsInv'
  BY FormatsInvStep
<1> QED
  BY <1>1, <1>2, PTL DEF Spec

-----------------------------------------------------------------------------
(* The properties *)

(***************************************************************************)
(* Whatever the author writes, an operation, a payload, a segment, a pack  *)
(* header, a commitment or a row, and whatever the widths: the reader      *)
(* gives back the value that was written, and all of it.                   *)
(***************************************************************************)
THEOREM FilesAreReadBack == Spec => []WrittenIsRead
<1>1. FormatsInv => WrittenIsRead
  <2> SUFFICES ASSUME FormatsInv, file # NoFile, damage = 0
               PROVE  Reads(ReadAs(file.kind, file.bytes), file.of)
    BY DEF WrittenIsRead
  <2>1. IsFile(file, damage)
    BY DEF FormatsInv
  <2>2. /\ file.kind \in Kinds /\ CanBe(file.kind, file.of)
        /\ file.bytes = WriteAs(file.kind, file.of)
    BY <2>1 DEF IsFile
  <2> QED
    BY <2>2, WritesAndReads
<1> QED
  BY <1>1, FormatsInvAlways, PTL

(***************************************************************************)
(* Whatever damage has made of the bytes: if they are read, they are the   *)
(* bytes that the value read is written as.  No value has a second form,   *)
(* but for a commitment of a later minor version, which may go on.         *)
(***************************************************************************)
THEOREM FilesHaveOneForm == Spec => []ReadIsWritten
<1>1. FormatsInv => ReadIsWritten
  <2> SUFFICES ASSUME FormatsInv, file # NoFile
               PROVE  HasOneForm(file.kind, ReadAs(file.kind, file.bytes), file.bytes)
    BY DEF ReadIsWritten
  <2>1. IsFile(file, damage)
    BY DEF FormatsInv
  <2>2. file.kind \in Kinds /\ file.bytes \in BytesOf(file.kind)
    BY <2>1 DEF IsFile
  <2> QED
    BY <2>2, FormIsOne
<1> QED
  BY <1>1, FormatsInvAlways, PTL

(***************************************************************************)
(* The signature of a pack verifies for the header it was made for, under  *)
(* the name it was made for, and for no other bytes or name: what is       *)
(* signed, name, peer, topic and header one behind the other, has one      *)
(* reading.                                                                *)
(***************************************************************************)
THEOREM PackDamageIsNoticed == Spec => []DamageIsNoticed
<1>1. FormatsInv => DamageIsNoticed
  <2> SUFFICES ASSUME FormatsInv, file.kind = "pack"
               PROVE  VerifiesOnly(ReadSigned(file.bytes))
    BY DEF DamageIsNoticed
  <2>1. file # NoFile
    BY DEF NoFile
  <2>2. IsFile(file, damage)
    BY <2>1 DEF FormatsInv
  <2>3. CanBe("pack", file.of) /\ file.bytes \in BytesOf("pack") /\ Len(file.bytes) <= MaxU64
    BY <2>2 DEF IsFile
  <2>4. file.bytes \in ByteString
    BY <2>3 DEF BytesOf, Tables, ByteString
  <2>5. PICK o : o = ReadSigned(file.bytes)
    OBVIOUS
  <2>6. ASSUME o.ok, NEW name \in {Name} \cup OtherNames, Verifies(o.val, name)
        PROVE  name = Name /\ file.bytes = SignedBytes(file.of)
    BY <2>3, <2>4, <2>5, <2>6, OnlyItself DEF Verifies
  <2> QED
    BY <2>5, <2>6 DEF VerifiesOnly
<1> QED
  BY <1>1, FormatsInvAlways, PTL

(***************************************************************************)
(* The decoder of operations and Validate() agree about whatever bytes     *)
(* damage leaves: what is decoded can be encoded again, and is refused     *)
(* only for a column that is named twice.                                  *)
(***************************************************************************)
THEOREM DecodedOpsAreValid == Spec => []OpChecksAgree
<1>1. FormatsInv => OpChecksAgree
  <2> SUFFICES ASSUME FormatsInv, file.kind = "op"
               PROVE  ChecksAgree(ReadOp(file.bytes))
    BY DEF OpChecksAgree
  <2>1. file # NoFile
    BY DEF NoFile
  <2>2. IsFile(file, damage)
    BY <2>1 DEF FormatsInv
  <2>3. file.bytes \in BytesOf("op")
    BY <2>2 DEF IsFile
  <2>4. file.bytes \in Str
    BY <2>3 DEF BytesOf, Tables
  <2> QED
    BY <2>4, ReadOpsAgree
<1> QED
  BY <1>1, FormatsInvAlways, PTL
====
