------------------------------- MODULE Formats -------------------------------
(***************************************************************************)
(* The byte forms of keys, signatures, contexts, requests and proofs: what *)
(* to_bytes lays out and how from_bytes finds its way back through it.     *)
(* A byte is one part of an element: <<kind, form, value, k>> is the k-th  *)
(* byte of a value of that kind, so data is a sequence of bytes, and an    *)
(* offset that is wrong by one reads no element.  G1 and G2 elements carry *)
(* their form: the external SerDes checks it.                              *)
(*                                                                         *)
(* Results are Group's: "ok" with the value, "err", or "panic" where the   *)
(* code slices or unwraps past the end of the data.                        *)
(***************************************************************************)
EXTENDS PoKTicket

CONSTANTS FR_SIZE,      \* FR_COMPRESSED_SIZE: bytes of a scalar, in both forms
          G1_SIZE,      \* G1_COMPRESSED_SIZE
          LEN_SIZE,     \* bytes of a length or an index (u32)
          BITS          \* bits of a byte of a bit vector (8)

(* The uncompressed G1 and the compressed G2 are two coordinates of the size
   of one; the sizes themselves are scaled down in the checks. *)
ASSUME SizesAssumption == /\ FR_SIZE \in Nat \ {0} /\ G1_SIZE \in Nat \ {0}
                          /\ LEN_SIZE \in Nat \ {0} /\ BITS \in Nat \ {0}

Forms == {"compressed", "uncompressed"}

Size(kind, form) ==
  CASE kind = "fr" -> FR_SIZE
    [] kind = "g1" -> IF form = "compressed" THEN G1_SIZE ELSE 2 * G1_SIZE
    [] kind = "g2" -> IF form = "compressed" THEN 2 * G1_SIZE ELSE 4 * G1_SIZE
    [] kind = "u32" -> LEN_SIZE
    [] kind = "u8" -> 1

(* Scalars and lengths have one form only. *)
FormOf(kind, form) == IF kind \in {"g1", "g2"} THEN form ELSE "plain"

(* serialize: the bytes of one element. *)
Bytes(kind, form, v) ==
  [k \in 1..Size(kind, form) |-> <<kind, FormOf(kind, form), v, k>>]

Concat(seqs) == FlattenSeq(seqs)

BytesOfAll(kind, form, vs) == Concat([i \in DOMAIN vs |-> Bytes(kind, form, vs[i])])

------------------------------------------------------------------------------
(* Reading: a cursor is the data, the bytes read so far, the values found and
   the status, which stops it once it is not "ok". *)
CursorOn(data) == [data |-> data, at |-> 0, out |-> << >>, st |-> "ok"]

HoldsElement(c, kind, form) ==
  LET n == Size(kind, form)
  IN  /\ c.at + n <= Len(c.data)
      /\ \A k \in 1..n :
           c.data[c.at + k] = <<kind, FormOf(kind, form), c.data[c.at + 1][3], k>>

(* A value was found in the next n bytes. *)
Advanced(c, n, v) ==
  [data |-> c.data, at |-> c.at + n, out |-> Append(c.out, v), st |-> "ok"]

(* deserialize one element: an error when the data ends before it or it is in
   the other form. *)
Take(c, kind, form) ==
  IF c.st # "ok" THEN c
  ELSE IF HoldsElement(c, kind, form)
  THEN Advanced(c, Size(kind, form), c.data[c.at + 1][3])
  ELSE [c EXCEPT !.st = "err"]

(* read_exact(..).unwrap() and array_ref! panic where deserialize fails. *)
TakeOrPanic(c, kind, form) ==
  LET d == Take(c, kind, form)
  IN  IF c.st = "ok" /\ d.st # "ok" THEN [d EXCEPT !.st = "panic"] ELSE d

(* Mutant: the count is a limit, and the end of the data ends the list. *)
TakeManyAvailable(c, kind, form, n) ==
  FoldLeft(LAMBDA d, k : IF d.at = Len(d.data) THEN d ELSE Take(d, kind, form),
           c, [k \in 1..n |-> k])

TakeMany(c, kind, form, n) ==
  LET after[k \in Nat] == IF k = 0 THEN c ELSE Take(after[k - 1], kind, form)
  IN  after[n]

(* A length check at the head of from_bytes. *)
AtLeast(c, n) == IF c.st = "ok" /\ Len(c.data) < n THEN [c EXCEPT !.st = "err"] ELSE c

(* Go on while all is well. *)
Onward(c, next(_)) == IF c.st = "ok" THEN next(c) ELSE c

TakeResult(c, n, r) ==
  IF r.st = "ok" THEN Advanced(c, n, r.val) ELSE [c EXCEPT !.st = r.st]

(* Hand the n bytes at the cursor to a nested from_bytes; slicing past the end
   panics. *)
TakeNested(c, n, from(_)) ==
  IF c.st # "ok" THEN c
  ELSE IF c.at + n > Len(c.data) THEN [c EXCEPT !.st = "panic"]
  ELSE TakeResult(c, n, from(SubSeq(c.data, c.at + 1, c.at + n)))

(* ... the same for a part that carries its length, and for the rest. *)
LastRead(c) == c.out[Len(c.out)]
DropLast(c) == [c EXCEPT !.out = Front(@)]
TakePrefixed(c, from(_)) ==
  Onward(TakeOrPanic(c, "u32", "plain"),
         LAMBDA d : TakeNested(DropLast(d), LastRead(d), from))
TakeRest(c, from(_)) == TakeNested(c, Len(c.data) - c.at, from)

Read(c, make(_)) == IF c.st = "ok" THEN Ok(make(c.out)) ELSE [st |-> c.st, val |-> c.st]

(* Mutant: the length counts itself. *)
PrefixedTotal(bytes) == Bytes("u32", "plain", Len(bytes) + LEN_SIZE) \o bytes

Prefixed(bytes) == Bytes("u32", "plain", Len(bytes)) \o bytes

------------------------------------------------------------------------------
(* Signature and BlindSignature: try_from tells the form by the length. *)
SIGNATURE_SIZE(form) == Size("g1", form) + 2 * FR_SIZE

SignatureToBytes(sig, form) ==
  SubSeq(Bytes("g1", form, sig.a) \o BytesOfAll("fr", form, <<sig.e, sig.s>>),
         1, SIGNATURE_SIZE(form))

SignatureFromBytes(data) ==
  LET form == IF Len(data) = SIGNATURE_SIZE("compressed")
              THEN "compressed" ELSE "uncompressed"
  IN  Read(TakeMany(Take(CursorOn(data), "g1", form), "fr", form, 2),
           LAMBDA o : [a |-> o[1], e |-> o[2], s |-> o[3]])

(* The fixed-length wrappers (Commitment, ProofNonce, SecretKey, ...): one
   element; a group element's form is told by the length. *)
FixedToBytes(kind, v, form) == Bytes(kind, form, v)
FixedFromBytes(kind, data) ==
  LET form == IF Len(data) = Size(kind, "compressed")
              THEN "compressed" ELSE "uncompressed"
  IN  Read(Take(CursorOn(data), kind, form), LAMBDA o : o[1])

(* PublicKey: w, h0, the number of generators, the generators. *)
PublicKeyToBytes(vk, form) ==
  Bytes("g2", form, vk.w) \o Bytes("g1", form, vk.h0)
    \o Bytes("u32", form, MessageCount(vk))
    \o BytesOfAll("g1", form, [i \in 1..MessageCount(vk) |-> vk.h[i - 1]])

PublicKeyFromBytes(data, form) ==
  LET head == TakeOrPanic(Take(Take(CursorOn(data), "g2", form), "g1", form),
                          "u32", form)
      all == Onward(head, LAMBDA c : TakeMany(c, "g1", form, LastRead(c)))
      key == Read(all, LAMBDA o :
               [w |-> o[1], h0 |-> o[2], h |-> [i \in 0..(Len(o) - 4) |-> o[i + 4]]])
  IN  IF Len(data) < LEN_SIZE THEN Panic
      ELSE IF (Len(data) - LEN_SIZE) % Size("g1", form) # 0
      THEN Err("MalformedPublicKey")
      ELSE Try(key, PublicKeyValidate)

(* ProofG1: the commitment, the number of responses, the responses. *)
ProofG1ToBytes(p, form) ==
  Bytes("g1", form, p.commitment) \o Bytes("u32", form, Len(p.responses))
    \o BytesOfAll("fr", form, p.responses)

ProofG1FromBytes(data, form) ==
  LET head == TakeOrPanic(Take(AtLeast(CursorOn(data), Size("g1", form) + LEN_SIZE),
                               "g1", form), "u32", form)
      size(n) == Size("g1", form) + LEN_SIZE + n * FR_SIZE
      all == Onward(head, LAMBDA c :
               TakeMany(AtLeast(c, size(LastRead(c))), "fr", form, LastRead(c)))
  IN  Read(all, LAMBDA o : [commitment |-> o[1], responses |-> SubSeq(o, 3, Len(o))])

(* BlindSignatureContext: commitment, challenge, proof. *)
ContextToBytes(ctx, form) ==
  Bytes("g1", form, ctx.commitment) \o Bytes("fr", form, ctx.challenge_hash)
    \o ProofG1ToBytes(ctx.proof, form)

ContextFromBytes(data, form) ==
  LET c == AtLeast(CursorOn(data), 2 * Size("g1", form) + FR_SIZE + LEN_SIZE)
  IN  Read(TakeRest(Take(Take(c, "g1", form), "fr", form),
                    LAMBDA d : ProofG1FromBytes(d, form)),
           LAMBDA o : [commitment |-> o[1], challenge_hash |-> o[2], proof |-> o[3]])

(* PoKOfSignatureProof: three points, the first proof with its length, the
   second to the end. *)
SignaturePoKToBytes(p, form) ==
  BytesOfAll("g1", form, <<p.rz.a_prime, p.rz.a_bar, p.rz.d>>)
    \o Prefixed(ProofG1ToBytes(p.proof_vc_1, form))
    \o ProofG1ToBytes(p.proof_vc_2, form)

SignaturePoKFromBytes(data, form) ==
  LET vc(d) == ProofG1FromBytes(d, form)
      c == TakeMany(AtLeast(CursorOn(data), 3 * Size("g1", form)), "g1", form, 3)
  IN  Read(TakeRest(TakePrefixed(c, vc), vc),
           LAMBDA o : [rz |-> [a_prime |-> o[1], a_bar |-> o[2], d |-> o[3]],
                       proof_vc_1 |-> o[4], proof_vc_2 |-> o[5]])

(* PoKOfTicketProof: four points (its length check counts three), four proofs
   with their lengths, the fifth to the end. *)
TicketPoKToBytes(p, form) ==
  BytesOfAll("g1", form, <<p.rz.a_prime, p.rz.a_bar, p.rz.d, p.c>>)
    \o Prefixed(ProofG1ToBytes(p.proof_vc_1, form))
    \o Prefixed(ProofG1ToBytes(p.proof_vc_2, form))
    \o Prefixed(ProofG1ToBytes(p.proof_vc_3, form))
    \o Prefixed(ProofG1ToBytes(p.proof_vc_4, form))
    \o ProofG1ToBytes(p.proof_vc_5, form)

TicketPoKFromBytes(data, form) ==
  LET vc(d) == ProofG1FromBytes(d, form)
      c == TakeMany(AtLeast(CursorOn(data), 3 * Size("g1", form)), "g1", form, 4)
      four == TakePrefixed(TakePrefixed(TakePrefixed(TakePrefixed(c, vc), vc), vc), vc)
  IN  Read(TakeRest(four, vc),
           LAMBDA o : [rz |-> [a_prime |-> o[1], a_bar |-> o[2], d |-> o[3]], c |-> o[4],
                       proof_vc_1 |-> o[5], proof_vc_2 |-> o[6], proof_vc_3 |-> o[7],
                       proof_vc_4 |-> o[8], proof_vc_5 |-> o[9]])

(* SignatureProof: the proof with its length, the number of revealed messages,
   and index and message of each.  A message that cannot be read panics. *)
SignatureProofToBytes(sp, form) ==
  LET I == InOrder(DOMAIN sp.revealed_messages)
  IN  Prefixed(SignaturePoKToBytes(sp.proof, form)) \o Bytes("u32", form, Len(I))
        \o Concat([k \in DOMAIN I |-> Bytes("u32", form, I[k])
                                        \o Bytes("fr", form, sp.revealed_messages[I[k]])])

(* n times an index and its message: read_exact and array_ref! again. *)
TakePairs(c, form, n) ==
  LET after[k \in Nat] ==
        IF k = 0 THEN c
        ELSE TakeOrPanic(TakeOrPanic(after[k - 1], "u32", form), "fr", form)
  IN  after[n]

SignatureProofFromBytes(data, form) ==
  LET c == TakePrefixed(AtLeast(CursorOn(data), 2 * LEN_SIZE),
                        LAMBDA d : SignaturePoKFromBytes(d, form))
      head == TakeOrPanic(c, "u32", form)
      all == Onward(head, LAMBDA h : TakePairs(h, form, LastRead(h)))
      msgs(o) == [i \in {o[2 * k + 1] : k \in 1..o[2]} |->
                    o[2 * (CHOOSE k \in 1..o[2] : o[2 * k + 1] = i) + 2]]
  IN  Read(all, LAMBDA o : [proof |-> o[1], revealed_messages |-> msgs(o)])

------------------------------------------------------------------------------
(* Byte j of the bit vector of `revealed', counted from the lowest index: the
   set of its bits that are 1. *)
RevealedBits(j, revealed) == {b \in 0..(BITS - 1) : BITS * j + b \in revealed}

(* Mutant: as many bytes as the messages fill. *)
RevealedToBitvectorExact(total, revealed) ==
  LET n == (total + BITS - 1) \div BITS
  IN  [k \in 1..n |-> <<"u8", "plain", RevealedBits(n - k, revealed), 1>>]

(* The revealed indices, at most `total', as a big-endian bit vector of
   total / 8 + 1 bytes. *)
RevealedToBitvector(total, revealed) ==
  LET n == total \div BITS + 1
  IN  [k \in 1..n |-> <<"u8", "plain", RevealedBits(n - k, revealed), 1>>]

(* The loop over a byte stops when no bit is left and skips the remaining
   ones. *)
BitvectorToRevealed(data) ==
  LET n == Len(data)
  IN  {i \in 0..(BITS * n - 1) : (i % BITS) \in data[n - (i \div BITS)][3]}

ProofRequestToBytes(req, form) ==
  Prefixed(RevealedToBitvector(MessageCount(req.verification_key),
                               req.revealed_messages))
    \o PublicKeyToBytes(req.verification_key, form)

ProofRequestFromBytes(data, form) ==
  LET c == AtLeast(CursorOn(data), 2 * LEN_SIZE + Size("g1", form) + Size("g2", form))
  IN  Read(TakeRest(TakePrefixed(c, LAMBDA d : Ok(BitvectorToRevealed(d))),
                    LAMBDA d : PublicKeyFromBytes(d, form)),
           LAMBDA o : [revealed_messages |-> o[1], verification_key |-> o[2]])
==============================================================================
