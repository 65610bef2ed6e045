-------------------------------- MODULE PoKVC --------------------------------
(***************************************************************************)
(* Proof of knowledge of the values in a vector commitment (pok_vc.rs): a  *)
(* prover commits to each base with a blinding factor, and answers a       *)
(* challenge c with blinding - c * secret for every base.                  *)
(***************************************************************************)
EXTENDS Group

Committing == [bases |-> << >>, blinding_factors |-> << >>]

(* commit_with for each base; commit is the same with a blinding factor drawn
   at random. *)
CommitAll(p, bases, blindings) ==
  [bases            |-> p.bases \o bases,
   blinding_factors |-> p.blinding_factors \o blindings]

Finish(p) ==
  [bases            |-> p.bases,
   blinding_factors |-> p.blinding_factors,
   commitment       |-> MultiScalarMul(p.bases, p.blinding_factors)]

(* to_bytes: what the prover hashes for this part of the challenge. *)
CommittedBytes(p) == Append(p.bases, p.commitment)

GenProofVC(p, c, secrets) ==
  IF Len(secrets) # Len(p.bases)
  THEN Err("UnequalNoOfBasesExponents")
  ELSE Ok([commitment |-> p.commitment,
           responses  |-> [i \in DOMAIN p.bases |->
                             Minus(p.blinding_factors[i], Times(c, secrets[i]))]])

(* The commitment the responses stand for, given the challenge. *)
ChallengeContribution(proof, bases, commitment, c) ==
  IF Len(bases) # Len(proof.responses)
  THEN Err("UnequalNoOfBasesExponents")
  ELSE Ok(MultiScalarMul(Append(bases, commitment), Append(proof.responses, c)))

VerifyVC(proof, bases, commitment, c) ==
  Try(ChallengeContribution(proof, bases, commitment, c),
      LAMBDA pr : Ok(pr = proof.commitment))

(* What verify_complete_proof hashes, `pr' being the contribution; `hash' is
   the challenge that the string answers to. *)
CompleteProofBytes(bases, pr, commitment, nonce) ==
  bases \o <<pr, commitment, nonce>>

VerifyCompleteProof(proof, bases, commitment, c, hash) ==
  Try(ChallengeContribution(proof, bases, commitment, c),
      LAMBDA pr : Ok(pr = proof.commitment /\ hash = c))
==============================================================================
