------------------------------ MODULE LogChain ------------------------------
(***************************************************************************)
(* The entries of one log, their opaque (encrypted) and plaintext forms,   *)
(* and the hash chain over them (ubiquisync-core, src/log/hash.rs,         *)
(* cipher.rs, verify.rs).                                                  *)
(*                                                                         *)
(* Cryptography is symbolic.  A chain hash is the sequence of what was     *)
(* hashed into it, so that two chains are equal exactly if their links     *)
(* are; a signature is the chain it signs; a ciphertext is a record of the *)
(* plaintext, the key and the chain the keystream was derived from.        *)
(* Decrypting it in any other way yields Noise (the code may also report   *)
(* an invalid timestamp).  Timestamp, user id and op of an entry are one   *)
(* payload.                                                                *)
(***************************************************************************)
EXTENDS Integers, Sequences

CONSTANTS
    Keys,          \* cipher suite and key fingerprint: CipherInfo
    Payloads,
    NoCipher,      \* None
    Noise

ASSUME LogChainAssumption ==
    /\ NoCipher \notin Keys
    /\ Noise \notin Payloads

Ciphers == Keys \cup {NoCipher}

EmptyChain == <<>>

\* The four kinds of entry.  An op carries a payload or a ciphertext.
Op(x) == [is |-> "op", op |-> x]
UseKey(k) == [is |-> "use_key", key |-> k]
Signature(chain) == [is |-> "signature", of |-> chain]
Expunged(h) == [is |-> "expunged", hash |-> h]

-----------------------------------------------------------------------------
\* Without a cipher the opaque form of an op is its plain bytes.
Encrypt(p, cipher, chain) ==
    [plain |-> p, key |-> cipher, at |-> IF cipher = NoCipher THEN EmptyChain ELSE chain]

Decrypt(text, cipher, chain) ==
    IF text = Encrypt(text.plain, cipher, chain) THEN text.plain ELSE Noise

ToOpaque(e, cipher, chain) ==
    IF e.is = "op" THEN Op(Encrypt(e.op, cipher, chain)) ELSE e

ToPlaintext(e, cipher, chain) ==
    IF e.is = "op" THEN Op(Decrypt(e.op, cipher, chain)) ELSE e

-----------------------------------------------------------------------------
\* EntryBody::hash().  An expunged entry is replaced by its hash.
EntryHash(e, index) ==
    IF e.is = "expunged" THEN e.hash ELSE [index |-> index, body |-> e]

\* A UseKey entry is in force from itself on.
CipherAfter(e, cipher) == IF e.is = "use_key" THEN e.key ELSE cipher

\* Mutant of AddOne: the cipher in force is not hashed.
AddOneUnbound(chain, hash, cipher) == Append(chain, [entry |-> hash, cipher |-> NoCipher])

AddOne(chain, hash, cipher) == Append(chain, [entry |-> hash, cipher |-> cipher])

\* ChainHash::next() of an opaque entry; a signature is no link.
NextChain(e, chain, cipher) ==
    IF e.is = "signature" THEN chain
    ELSE AddOne(chain, EntryHash(e, Len(chain)), CipherAfter(e, cipher))

\* What is in force at a place in the log, and what was read on the way there.
\* check_cipher_change() needs the key of each cipher that comes into force.
At(known, chain, cipher) ==
    [ok |-> cipher \in known \cup {NoCipher}, chain |-> chain, cipher |-> cipher, out |-> <<>>]

\* One entry more, whose opaque form is e and whose converted form is out.
Advance(acc, ok, e, out) ==
    [ok |-> acc.ok /\ ok,
     chain |-> NextChain(e, acc.chain, acc.cipher),
     cipher |-> CipherAfter(e, acc.cipher),
     out |-> Append(acc.out, out)]

Resolved(e, acc, known) == CipherAfter(e, acc.cipher) \in known \cup {NoCipher}

OneToOpaque(acc, known, e) ==
    LET o == ToOpaque(e, acc.cipher, acc.chain)
    IN  Advance(acc, Resolved(e, acc, known), o, o)

\* Mutant of OneToPlaintext: the chain that includes the entry decrypts it.
OneToPlaintextLate(acc, known, e) ==
    LET chain == NextChain(e, acc.chain, acc.cipher)
    IN  Advance(acc, Resolved(e, acc, known), e, ToPlaintext(e, acc.cipher, chain))

OneToPlaintext(acc, known, e) ==
    Advance(acc, Resolved(e, acc, known), e, ToPlaintext(e, acc.cipher, acc.chain))

OneVerified(acc, e) == Advance(acc, e.is = "signature" => e.of = acc.chain, e, e)

OneUnsigned(acc, e) == IF e.is = "signature" THEN acc ELSE Append(acc, e)

One(way, acc, known, e) ==
    CASE way = "to_opaque" -> OneToOpaque(acc, known, e)
      [] way = "to_plaintext" -> OneToPlaintext(acc, known, e)
      [] way = "verify" -> OneVerified(acc, e)
      [] way = "unsigned" -> OneUnsigned(acc, e)
      [] way = "cipher" -> CipherAfter(e, acc)

\* The loops over the entries of a log differ in what they do with one.
Along(way, start, known, entries) ==
    LET after[n \in 0 .. Len(entries)] ==
            IF n = 0 THEN start ELSE One(way, after[n - 1], known, entries[n])
    IN  after[Len(entries)]

-----------------------------------------------------------------------------
\* entries_to_opaque() and entries_to_plaintext(): they fail (ok is FALSE) as
\* soon as a cipher is in force whose key is not in known.
EntriesToOpaque(chain, cipher, known, entries) ==
    Along("to_opaque", At(known, chain, cipher), known, entries)

EntriesToPlaintext(chain, cipher, known, entries) ==
    Along("to_plaintext", At(known, chain, cipher), known, entries)

\* verify_opaque(): the chain, and every signature on the way.  No key needed.
VerifyOpaque(chain, cipher, entries) ==
    Along("verify", At({cipher}, chain, cipher), {}, entries)

\* verify_plaintext(): the same over the entries encrypted again.
VerifyPlaintext(chain, cipher, known, entries) ==
    LET opaque == EntriesToOpaque(chain, cipher, known, entries)
        v == VerifyOpaque(chain, cipher, opaque.out)
    IN  [ok |-> v.ok /\ opaque.ok, chain |-> v.chain, cipher |-> v.cipher]

\* What a join collects.
NoSignatures(entries) == Along("unsigned", <<>>, {}, entries)

EndCipher(cipher, entries) == Along("cipher", cipher, {}, entries)

=============================================================================
