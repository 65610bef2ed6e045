-------------------------------- MODULE PoKSig --------------------------------
(***************************************************************************)
(* Proof of knowledge of a signature with selective disclosure             *)
(* (pok_sig.rs, messages.rs).  A proof message is [m, kind, blinding]:     *)
(* kind "revealed", "specific" (hidden, blinding drawn by the proof) or    *)
(* "external" (hidden, blinding given by the caller).                      *)
(***************************************************************************)
EXTENDS Signatures

GetMessage(pm) == pm.m

Revealed(pms) == {i \in DOMAIN pms : pms[i].kind = "revealed"}
Hidden(pms) == DOMAIN pms \ Revealed(pms)

RevealedMessages(pms) == [i \in Revealed(pms) |-> pms[i].m]

(* A', \overline{A} and d, from the draws r1 and r2. *)
Randomized(sig, vk, messages, r1, r2) ==
  LET b == ComputeB(sig.s, messages, vk)
      a_prime == Times(sig.a, r1)
  IN  [a_prime |-> a_prime,
       a_bar   |-> Minus(Times(b, r1), Times(a_prime, sig.e)),
       d       |-> Finalize(Add(Add(Builder, b, r1), vk.h0, Negate(r2)))]

(* a_bar / d == a_prime^{-e} * h_0^r2 *)
Relation1(rz, sig, vk, r2, blindings) ==
  [pok     |-> Finish(CommitAll(Committing, <<rz.a_prime, vk.h0>>, blindings)),
   secrets |-> <<Negate(sig.e), r2>>]

(* The inverse of the revealed part of b == d^-r3 * h_0^s' * the hidden part.
   The k-th hidden message uses the k-th of the blindings unless its own was
   given. *)
Relation2(rz, sig, vk, pms, r1, r2, blindings) ==
  LET I == InOrder(Hidden(pms))
      r3 == Inverse1(r1)
      blind(k) == IF pms[I[k]].kind = "external"
                  THEN pms[I[k]].blinding ELSE blindings[k + 2]
  IN  [pok     |-> Finish(CommitAll(Committing,
                     <<rz.d, vk.h0>> \o [k \in DOMAIN I |-> vk.h[I[k]]],
                     SubSeq(blindings, 1, 2) \o [k \in DOMAIN I |-> blind(k)])),
       secrets |-> <<Negate(r3), Plus(Negate(Times(r2, r3)), sig.s)>>
                     \o [k \in DOMAIN I |-> pms[I[k]].m]]

(* What init checks before it draws. *)
InitCheck(sig, vk, pms) ==
  IF Cardinality(DOMAIN pms) # MessageCount(vk)
  THEN Err("PublicKeyGeneratorMessageCountMismatch")
  ELSE Try(SignatureVerify(sig, [i \in DOMAIN pms |-> GetMessage(pms[i])], vk),
           LAMBDA good : IF good THEN Ok(TRUE) ELSE Err("PoKVCError"))

(* PoKOfSignature::init; draws are r1, r2, two blindings for the first
   relation, and the rest for the second. *)
PoKOfSignatureInit(sig, vk, pms, draws) ==
  LET rz == Randomized(sig, vk, [i \in DOMAIN pms |-> GetMessage(pms[i])],
                       draws[1], draws[2])
  IN  Try(InitCheck(sig, vk, pms), LAMBDA good :
        Ok([rz    |-> rz,
            vc_1  |-> Relation1(rz, sig, vk, draws[2], SubSeq(draws, 3, 4)),
            vc_2  |-> Relation2(rz, sig, vk, pms, draws[1], draws[2],
                                SubSeq(draws, 5, Len(draws))),
            revealed_messages |-> RevealedMessages(pms)]))

(* to_bytes: the prover's part of the challenge. *)
PoKOfSignatureBytes(pok) ==
  <<pok.rz.a_bar>> \o CommittedBytes(pok.vc_1.pok) \o CommittedBytes(pok.vc_2.pok)

PoKOfSignatureGenProof(pok, c) ==
  Try(GenProofVC(pok.vc_1.pok, c, pok.vc_1.secrets), LAMBDA p1 :
  Try(GenProofVC(pok.vc_2.pok, c, pok.vc_2.secrets), LAMBDA p2 :
    Ok([rz |-> pok.rz, proof_vc_1 |-> p1, proof_vc_2 |-> p2])))

------------------------------------------------------------------------------
(* Mutant: the generators of the revealed messages are hashed instead. *)
BytesForChallengeRevealed(proof, revealed, vk) ==
  LET I == InOrder(DOMAIN vk.h \intersect revealed)
  IN  <<proof.rz.a_bar, proof.rz.a_prime, vk.h0, proof.proof_vc_1.commitment,
        proof.rz.d, vk.h0>> \o [k \in DOMAIN I |-> vk.h[I[k]]]
        \o <<proof.proof_vc_2.commitment>>

(* get_bytes_for_challenge: the verifier's reading of the same string, with
   the indices it asked for. *)
BytesForChallenge(proof, revealed, vk) ==
  LET I == InOrder(DOMAIN vk.h \ revealed)
  IN  <<proof.rz.a_bar, proof.rz.a_prime, vk.h0, proof.proof_vc_1.commitment,
        proof.rz.d, vk.h0>> \o [k \in DOMAIN I |-> vk.h[I[k]]]
        \o <<proof.proof_vc_2.commitment>>

(* Mutant: one response is skipped where two are reserved. *)
RespForMessageOffByOne(proof, msg_idx) ==
  IF msg_idx >= Len(proof.proof_vc_2.responses) - 2
  THEN Err("GeneralError")
  ELSE Ok(proof.proof_vc_2.responses[2 + msg_idx])

(* get_resp_for_message: `msg_idx' counts the hidden messages. *)
RespForMessage(proof, msg_idx) ==
  IF msg_idx >= Len(proof.proof_vc_2.responses) - 2
  THEN Err("GeneralError")
  ELSE Ok(proof.proof_vc_2.responses[3 + msg_idx])

(* The checks both kinds of proof begin with. *)
RevealedCheck(vk, revealed_msgs) ==
  Try(PublicKeyValidate(vk), LAMBDA k :
    IF DOMAIN revealed_msgs \subseteq DOMAIN vk.h THEN Ok(TRUE) ELSE Err("GeneralError"))

(* A relation must hold for the rest to be looked at; if it does not, the
   status is the result. *)
Require(relation, status, rest) ==
  Try(relation, LAMBDA holds : IF holds THEN rest ELSE Ok(status))

VerifyRelation1(proof, vk, c) ==
  VerifyVC(proof.proof_vc_1, <<proof.rz.a_prime, vk.h0>>,
           Minus(proof.rz.a_bar, proof.rz.d), c)

VerifyRelation2(proof, vk, revealed_msgs, c) ==
  LET S == InOrder(DOMAIN revealed_msgs)
      H == InOrder(DOMAIN vk.h \ DOMAIN revealed_msgs)
      pr == Negate(MultiScalarMul(<<One>> \o [k \in DOMAIN S |-> vk.h[S[k]]],
                                  <<1>> \o [k \in DOMAIN S |-> revealed_msgs[S[k]]]))
  IN  VerifyVC(proof.proof_vc_2,
               <<proof.rz.d, vk.h0>> \o [k \in DOMAIN H |-> vk.h[H[k]]], pr, c)

(* PoKOfSignatureProof::verify; in the second relation an error of the
   sub-proof is a bad revealed message. *)
PoKOfSignatureVerify(proof, vk, revealed_msgs, c) ==
  LET v2 == VerifyRelation2(proof, vk, revealed_msgs, c)
  IN  Try(RevealedCheck(vk, revealed_msgs), LAMBDA checked :
        IF \/ proof.rz.a_prime = Zero
           \/ ~PairingHolds(proof.rz.a_prime, vk.w, proof.rz.a_bar)
        THEN Ok("BadSignature")
        ELSE Require(VerifyRelation1(proof, vk, c), "BadHiddenMessage",
               IF v2.st = "ok" /\ v2.val THEN Ok("Success") ELSE Ok("BadRevealedMessage")))
==============================================================================
