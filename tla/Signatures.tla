------------------------------ MODULE Signatures ------------------------------
(***************************************************************************)
(* BBS+ keys (keys.rs) and signatures (signature.rs).  A public key is     *)
(* [w, h0, h] with one generator h[i] for each message 0..count-1; a       *)
(* signature is [a, e, s] with a = b^(1/(sk+e)).                           *)
(***************************************************************************)
EXTENDS PoKVC

MessageCount(vk) == Cardinality(DOMAIN vk.h)

SecretKeyValidate(sk) == IF sk = 0 THEN Err("MalformedSecretKey") ELSE Ok(sk)

(* No generator is the identity. *)
PublicKeyValidate(vk) ==
  IF vk.h0 = Zero \/ vk.w = Zero \/ (\E i \in DOMAIN vk.h : vk.h[i] = Zero)
  THEN Err("MalformedPublicKey") ELSE Ok(vk)

(* generate: `gens' are the count + 1 generators hashed from random seeds. *)
Generate(count, sk, gens) ==
  IF count = 0 THEN Err("KeyGenError")
  ELSE Ok([w |-> Times(One, sk), h0 |-> gens[1],
           h |-> [i \in 0..(count - 1) |-> gens[i + 2]]])

(* DeterministicPublicKey::new keeps the commitment to the secret key only. *)
ShortKey(sk) == Try(SecretKeyValidate(sk), LAMBDA k : Ok(Times(One, k)))

(* The string hashed to generator i of a deterministic key: w, a spacer, i, a
   spacer and the message count. *)
GeneratorBytes(w, i, count) == <<w, 0, i, 0, count>>

(* to_public_key; h2c is what GeneratorG1::hash makes of each string. *)
ToPublicKey(w, count, h2c) ==
  IF count = 0 THEN Err("KeyGenError")
  ELSE Ok([w |-> w, h0 |-> h2c[GeneratorBytes(w, 0, count)],
           h |-> [i \in 0..(count - 1) |-> h2c[GeneratorBytes(w, i + 1, count)]]])

(* compute_b and get_b: g1 * h0^s * prod h[i]^m[i] over the messages given. *)
ComputeB(s, messages, vk) ==
  LET I == InOrder(DOMAIN messages \intersect DOMAIN vk.h)
  IN  MultiScalarMul(<<One, vk.h0>> \o [k \in DOMAIN I |-> vk.h[I[k]]],
                     <<1, s>> \o [k \in DOMAIN I |-> messages[I[k]]])

(* Mutant: the product is not reduced. *)
SignBUnreduced(b, e, s, sk) ==
  IF Plus(sk, e) = 0 THEN Panic
  ELSE Ok([a |-> b * Inverse1(Plus(sk, e)), e |-> e, s |-> s])

(* The end of Signature::new and BlindSignature::new: the inverse of sk + e
   is unwrapped. *)
SignB(b, e, s, sk) ==
  IF Plus(sk, e) = 0 THEN Panic
  ELSE Ok([a |-> Times(b, Inverse1(Plus(sk, e))), e |-> e, s |-> s])

KeysValidate(sk, vk) == Try(SecretKeyValidate(sk), LAMBDA k : PublicKeyValidate(vk))

(* Signature::new, with the random e and s drawn: messages 0..k-1, k at most
   the key's count. *)
SignatureNew(messages, sk, vk, e, s) ==
  IF Cardinality(DOMAIN messages) > MessageCount(vk)
  THEN Err("PublicKeyGeneratorMessageCountMismatch")
  ELSE Try(KeysValidate(sk, vk), LAMBDA k : SignB(ComputeB(s, messages, vk), e, s, sk))

(* BlindSignature::new: an index of `messages' outside the key panics. *)
BlindSignatureNew(commitment, messages, sk, vk, e, s) ==
  LET I == InOrder(DOMAIN messages)
  IN  IF Len(I) > MessageCount(vk)
      THEN Err("PublicKeyGeneratorMessageCountMismatch")
      ELSE Try(KeysValidate(sk, vk), LAMBDA valid :
             IF ~ (DOMAIN messages \subseteq DOMAIN vk.h) THEN Panic
             ELSE SignB(MultiScalarMul(
                          <<commitment, One, vk.h0>> \o [k \in DOMAIN I |-> vk.h[I[k]]],
                          <<1, 1, s>> \o [k \in DOMAIN I |-> messages[I[k]]]),
                        e, s, sk))

(* Mutant: the blinding is not added. *)
ToUnblindedPlain(blind, blinding) == blind

ToUnblinded(blind, blinding) == [blind EXCEPT !.s = Plus(@, blinding)]

SignatureValidate(sig) ==
  IF sig.a = Zero \/ sig.e = 0 \/ sig.s = 0
  THEN Err("MalformedSignature") ELSE Ok(sig)

SignatureVerify(sig, messages, vk) ==
  IF Cardinality(DOMAIN messages) # MessageCount(vk)
  THEN Err("PublicKeyGeneratorMessageCountMismatch")
  ELSE Try(PublicKeyValidate(vk), LAMBDA k :
       Try(SignatureValidate(sig), LAMBDA valid :
         Ok(PairingHolds(sig.a, Plus(vk.w, sig.e), ComputeB(sig.s, messages, vk)))))

------------------------------------------------------------------------------
(* The blind signature context: a commitment to the hidden messages and the
   proof that the prover knows them (prover.rs, lib.rs). *)

HiddenBases(vk, I) == <<vk.h0>> \o [k \in DOMAIN I |-> vk.h[I[k]]]

(* An index above the key's is an error, one equal to it a panic; both are
   met in the order of the map. *)
ContextIndexError(hidden, vk) ==
  LET n == MessageCount(vk)
  IN  IF n \in hidden THEN Panic
      ELSE Err("PublicKeyGeneratorMessageCountMismatch")

ContextCommitment(vk, messages, blinding) ==
  LET I == InOrder(DOMAIN messages)
  IN  MultiScalarMul(HiddenBases(vk, I),
                     <<blinding>> \o [k \in DOMAIN I |-> messages[I[k]]])

ContextCommitted(vk, messages, draws) ==
  LET bases == HiddenBases(vk, InOrder(DOMAIN messages))
  IN  Finish(CommitAll(Committing, bases, SubSeq(draws, 1, Len(bases))))

(* gen_challenge(commitment, nonce) *)
ContextBytes(vk, messages, nonce, blinding, draws) ==
  CommittedBytes(ContextCommitted(vk, messages, draws))
    \o <<ContextCommitment(vk, messages, blinding), nonce>>

NewBlindSignatureContext(vk, messages, blinding, draws, c) ==
  LET I == InOrder(DOMAIN messages)
      secrets == <<blinding>> \o [k \in DOMAIN I |-> messages[I[k]]]
  IN  IF ~ (DOMAIN messages \subseteq DOMAIN vk.h)
      THEN ContextIndexError(DOMAIN messages, vk)
      ELSE Ok([commitment     |-> ContextCommitment(vk, messages, blinding),
               challenge_hash |-> c,
               proof          |-> GenProofVC(ContextCommitted(vk, messages, draws),
                                             c, secrets).val])

(* The bases the issuer expects: every message it was not told. *)
ContextBases(vk, revealed) == HiddenBases(vk, InOrder(DOMAIN vk.h \ revealed))

(* Mutant: the two commitments in the other order. *)
ContextVerifyBytesSwapped(ctx, vk, revealed, nonce) ==
  LET bases == ContextBases(vk, revealed)
      pr == ChallengeContribution(ctx.proof, bases, ctx.commitment, ctx.challenge_hash)
  IN  IF pr.st # "ok" THEN << >>
      ELSE bases \o <<ctx.commitment, pr.val, nonce>>

(* What verify hashes, as verify_complete_proof does. *)
ContextVerifyBytes(ctx, vk, revealed, nonce) ==
  LET bases == ContextBases(vk, revealed)
      pr == ChallengeContribution(ctx.proof, bases, ctx.commitment, ctx.challenge_hash)
  IN  IF pr.st # "ok" THEN << >>
      ELSE CompleteProofBytes(bases, pr.val, ctx.commitment, nonce)

(* Mutant: the challenge is not compared with its hash. *)
ContextVerifyUnbound(ctx, vk, revealed, hash) ==
  Try(ChallengeContribution(ctx.proof, ContextBases(vk, revealed),
                            ctx.commitment, ctx.challenge_hash),
      LAMBDA pr : Ok(pr = ctx.proof.commitment))

ContextVerify(ctx, vk, revealed, hash) ==
  Try(ChallengeContribution(ctx.proof, ContextBases(vk, revealed),
                            ctx.commitment, ctx.challenge_hash),
      LAMBDA pr : Ok(pr = ctx.proof.commitment /\ hash = ctx.challenge_hash))
------------------------------------------------------------------------------
(* What invariants say of keys and signatures. *)

(* A key for n messages that goes with sk, none of its generators the identity. *)
GoodKey(vk, sk, n) ==
  /\ n \in Nat \ {0} /\ sk \in Fr \ {0} /\ vk.w = sk
  /\ vk.h0 \in Fr \ {0}
  /\ DOMAIN vk.h = 0..(n - 1) /\ \A i \in 0..(n - 1) : vk.h[i] \in Fr \ {0}

(* A signature of the messages m made with sk. *)
SignedFor(sig, m, vk, sk) ==
  /\ sig = [a |-> sig.a, e |-> sig.e, s |-> sig.s]
  /\ sig.e \in Fr \ {0} /\ sig.s \in Fr \ {0} /\ Plus(sk, sig.e) # 0
  /\ ComputeB(sig.s, m, vk) # Zero
  /\ sig.a = Times(ComputeB(sig.s, m, vk), Inverse1(Plus(sk, sig.e)))
==============================================================================
