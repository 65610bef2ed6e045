------------------------------ MODULE PoKTicket ------------------------------
(***************************************************************************)
(* Proof of knowledge of a signature whose exponent e made a ticket        *)
(* t = b^e (pok_ticket.rs).  Relations 1 and 2 are those of a signature    *)
(* proof, except that the blinding of e in the first is used again in the  *)
(* fourth; 3, 4 and 5 tie e to the ticket through C = g1^rho1 * g2^rho2.   *)
(***************************************************************************)
EXTENDS PoKSig

CONSTANT G2_VALUE   \* get_g2: a generator of G1 that is different from g1

TicketRelation(bases, secrets, blindings) ==
  [pok |-> Finish(CommitAll(Committing, bases, blindings)), secrets |-> secrets]

(* PoKOfTicket::init.  Draws, in the code's order: r1, r2, the blinding of e,
   that of r2, those of the second relation, rho1, rho2, two for the third,
   two for the fourth (its first is the blinding of e), two for the fifth. *)
PoKOfTicketInit(sig, vk, pms, t, b, draws) ==
  LET n == 6 + Cardinality(Hidden(pms))
      later(k) == draws[n + k]
      rho1 == later(1)
      rho2 == later(2)
      c == Plus(Times(One, rho1), Times(G2_VALUE, rho2))
      rz == Randomized(sig, vk, [i \in DOMAIN pms |-> GetMessage(pms[i])],
                       draws[1], draws[2])
  IN  Try(InitCheck(sig, vk, pms), LAMBDA good :
          Ok([rz   |-> rz,
               c    |-> c,
               vc_1 |-> Relation1(rz, sig, vk, draws[2], SubSeq(draws, 3, 4)),
               vc_2 |-> Relation2(rz, sig, vk, pms, draws[1], draws[2],
                                  SubSeq(draws, 5, Len(draws))),
               vc_3 |-> TicketRelation(<<One, G2_VALUE>>, <<rho1, rho2>>,
                                       <<later(3), later(4)>>),
               vc_4 |-> TicketRelation(<<c, One, G2_VALUE>>,
                          <<Negate(sig.e), Times(rho1, sig.e), Times(rho2, sig.e)>>,
                          <<draws[3], later(5), later(6)>>),
               vc_5 |-> TicketRelation(<<b, t>>, <<Times(rho1, sig.e), Negate(rho1)>>,
                                       <<later(7), later(8)>>)]))

(* to_bytes: the prover's challenge string. *)
PoKOfTicketBytes(pok) ==
  <<pok.rz.a_bar>> \o CommittedBytes(pok.vc_1.pok) \o CommittedBytes(pok.vc_2.pok)
    \o CommittedBytes(pok.vc_3.pok) \o CommittedBytes(pok.vc_4.pok)
    \o CommittedBytes(pok.vc_5.pok)

PoKOfTicketGenProof(pok, ch) ==
  LET p(vc) == GenProofVC(vc.pok, ch, vc.secrets)
  IN  Try(p(pok.vc_1), LAMBDA p1 : Try(p(pok.vc_2), LAMBDA p2 :
      Try(p(pok.vc_3), LAMBDA p3 : Try(p(pok.vc_4), LAMBDA p4 :
      Try(p(pok.vc_5), LAMBDA p5 :
        Ok([rz |-> pok.rz, c |-> pok.c, proof_vc_1 |-> p1, proof_vc_2 |-> p2,
            proof_vc_3 |-> p3, proof_vc_4 |-> p4, proof_vc_5 |-> p5]))))))

(* get_bytes_for_challenge *)
TicketBytesForChallenge(proof, revealed, vk, b, t) ==
  BytesForChallenge(proof, revealed, vk)
    \o <<One, G2_VALUE, proof.proof_vc_3.commitment>>
    \o <<proof.c, One, G2_VALUE, proof.proof_vc_4.commitment>>
    \o <<b, t, proof.proof_vc_5.commitment>>

(* The responses for e in relations 1 and 4 must be equal: an assert. *)
SameExponent(proof) ==
  proof.proof_vc_1.responses[1] = proof.proof_vc_4.responses[1]

VerifyWithoutPairing(proof, vk, revealed_msgs, ch, b, t) ==
  Try(RevealedCheck(vk, revealed_msgs), LAMBDA checked :
    IF proof.rz.a_prime = Zero THEN Ok("BadSignature")
    ELSE Require(VerifyRelation1(proof, vk, ch), "BadHiddenMessage",
         Require(VerifyRelation2(proof, vk, revealed_msgs, ch), "BadHiddenMessage",
         Require(VerifyVC(proof.proof_vc_3, <<One, G2_VALUE>>, proof.c, ch), "BadTicket",
         Require(VerifyVC(proof.proof_vc_4, <<proof.c, One, G2_VALUE>>, Zero, ch), "BadTicket",
         Require(VerifyVC(proof.proof_vc_5, <<b, t>>, Zero, ch), "BadTicket",
           IF SameExponent(proof) THEN Ok("Success") ELSE Panic))))))

PoKOfTicketVerify(proof, vk, revealed_msgs, ch, b, t) ==
  Try(VerifyWithoutPairing(proof, vk, revealed_msgs, ch, b, t), LAMBDA status :
    IF status = "Success" /\ ~PairingHolds(proof.rz.a_prime, vk.w, proof.rz.a_bar)
    THEN Ok("BadSignature") ELSE Ok(status))
==============================================================================
