------------------------------ MODULE Credential ------------------------------
(***************************************************************************)
(* Issuer, prover and verifier of a credential (issuer.rs, prover.rs,      *)
(* verifier.rs).  The prover collects credentials, each signed outright or *)
(* blindly over messages it hides; then the verifier asks for some of the  *)
(* messages of one or more of them, and the prover shows proofs that share *)
(* one challenge.  Each side picks its own indices and can go on with a    *)
(* nonce the other side has replaced since.                                *)
(*                                                                         *)
(* The hash functions are oracles: the k-th new string asked gets the k-th *)
(* value of a list, so two strings never collide; nor do two generators.   *)
(***************************************************************************)
EXTENDS Formats

CONSTANTS N,            \* messages of a credential: indices 0..N-1
          Link,         \* the index of the message bound across credentials
          Seeds,        \* the runs considered: [draws, subjects], the random
                        \* scalars and the messages of each credential
          Nonces, LinkBlinding, Challenges, Generators, SecretKeys,
          HiddenSets, KnownSets, AskedSets, RevealSets, None

Idx == 0..(N - 1)

ASSUME CredentialAssumption ==
  /\ N \in Nat \ {0}
  /\ Link \in Idx /\ Nonces # {}
  /\ \A i, j \in 1..(N + 1) : Generators[i] = Generators[j] => i = j
  /\ Challenges[1] # Challenges[2]
  /\ \A S \in AskedSets : S \subseteq Nat
  /\ \A d \in Seeds : d.subjects \in Seq([Idx -> Fr])

(* What is random, a key, a generator or a challenge is a scalar, or a point,
   but not zero, and no signature of the runs considered is degenerate: with
   255-bit scalars the code meets none of these.  A blind signature draws the
   blinding second, and each signature e fourth and s fifth. *)
ASSUME RandomAssumption ==
  /\ SecretKeys \subseteq Fr \ {0}
  /\ Generators \in Seq(Fr \ {0}) /\ Len(Generators) = N + 1
  /\ Challenges[1] \in Fr \ {0} /\ Challenges[2] \in Fr /\ LinkBlinding \in Fr
  /\ \A K \in KnownSets : K \subseteq Nat /\ IsFiniteSet(K)
  /\ \A d \in Seeds :
       /\ d.draws \in Seq(Fr \ {0}) /\ Len(d.draws) >= N + 6
       /\ Len(d.subjects) <= Len(d.draws)
       /\ \A sk \in SecretKeys :
            LET vk == Generate(N, sk, Generators).val
            IN  /\ Plus(sk, d.draws[4]) # 0
                /\ \A s \in {d.draws[5], Plus(d.draws[5], d.draws[2])} :
                     /\ s # 0
                     /\ \A k \in DOMAIN d.subjects :
                          ComputeB(s, d.subjects[k], vk) # Zero

VARIABLES
  seed,          \* the random scalars, drawn one by one, and the messages
  keys,          \* the issuer's [sk, vk], or None
  issuerNonce, verifierNonce,
  oracle,        \* strings hashed to a challenge in the exchange under way
  ctx,           \* the prover's blind signing context and what it stands for
  blind,         \* the blind signature it got for it
  issue,         \* how the last blind signing went
  complete,      \* how the last completion or signing went
  wallet,        \* the credentials the prover holds
  requests,      \* the verifier's requests
  poks,          \* commitments of the prover, then
  shown,         \* the proofs made of them
  verdict        \* what the verifier found

vars == <<seed, keys, issuerNonce, verifierNonce, oracle, ctx, blind, issue, complete,
          wallet, requests, poks, shown, verdict>>

issueVars == <<ctx, blind, issue, complete, wallet, issuerNonce>>
showVars == <<requests, poks, shown, verdict, verifierNonce>>

(* Nonces are random and so interchangeable: which one comes first is no matter. *)
FirstNonce == CHOOSE n \in Nonces : TRUE

Init == /\ seed \in Seeds
        /\ keys = None
        /\ issuerNonce = FirstNonce /\ verifierNonce = FirstNonce
        /\ oracle = << >>
        /\ ctx = None /\ blind = None /\ issue = None /\ complete = None
        /\ wallet = << >> /\ requests = << >> /\ poks = << >>
        /\ shown = None /\ verdict = None

(* The strings known once q is asked, and the answer to q. *)
Asking(strings, q) == IF q \in ToSet(strings) THEN strings ELSE Append(strings, q)
Answer(strings, q) ==
  Challenges[CHOOSE i \in DOMAIN Asking(strings, q) : Asking(strings, q)[i] = q]

HashToG1(w) ==
  [q \in {GeneratorBytes(w, i, N) : i \in 0..N} |-> Generators[q[3] + 1]]

(* The draws of the k-th operation that draws: the seed from its k-th scalar on,
   and round again. *)
Drawn(k) == SubSeq(seed.draws, k + 1, Len(seed.draws)) \o SubSeq(seed.draws, 1, k)

Subjects == seed.subjects

Subject == Subjects[Len(wallet) + 1]
Issuing == keys # None /\ requests = << >> /\ Len(wallet) < Len(Subjects)
Showing == keys # None /\ wallet # << >> /\ ctx = None /\ blind = None

(* A map from indices to messages; one a caller got wrong has some value. *)
MapOn(S) == [i \in S |-> IF i \in Idx THEN Subject[i] ELSE 1]

------------------------------------------------------------------------------
(* Issuer::new_keys, or new_short_keys and to_public_key. *)
NewKeys(sk) ==
  /\ keys = None
  /\ LET long == Generate(N, sk, Generators)
         short == ToPublicKey(ShortKey(sk).val, N, HashToG1(ShortKey(sk).val))
     IN  keys' \in {[sk |-> sk, vk |-> long.val, short |-> FALSE],
                    [sk |-> sk, vk |-> short.val, short |-> TRUE]}
  /\ UNCHANGED <<seed, oracle, issueVars, showVars>>

GenerateSigningNonce(n) ==
  /\ Issuing /\ n # issuerNonce
  /\ issuerNonce' = n
  /\ UNCHANGED <<seed, keys, oracle, ctx, blind, issue, complete, wallet, showVars>>

(* Prover: commit to the messages of H, for the nonce the issuer gave. *)
ProverNewContext(H) ==
  /\ Issuing /\ ctx = None /\ blind = None
  /\ LET blinding == Drawn(1)[1]
         draws == Drawn(2)
         inRange == H \subseteq Idx
         q == ContextBytes(keys.vk, MapOn(H), issuerNonce, blinding, draws)
         c == IF inRange THEN Answer(<< >>, q) ELSE 0
         r == NewBlindSignatureContext(keys.vk, MapOn(H), blinding, draws, c)
     IN  /\ oracle' = IF inRange THEN <<q>> ELSE << >>
         /\ ctx' = IF r.st = "ok"
                   THEN [val |-> r.val, blinding |-> blinding, hidden |-> H,
                         made |-> issuerNonce]
                   ELSE None
  /\ issue' = None /\ complete' = None
  /\ UNCHANGED <<seed, keys, issuerNonce, blind, wallet, showVars>>

(* How the issuer checks a context: blind_sign verifies it, or, as the test of
   blind signatures does, verify_complete_proof is called on its proof. *)
IssuerAccepts(known, hash) ==
  LET c == ctx.val
  IN  {ContextVerify(c, keys.vk, known, hash),
       VerifyCompleteProof(c.proof, ContextBases(keys.vk, known), c.commitment,
                           c.challenge_hash, hash)}

(* Issuer::blind_sign, told the messages of K; the nonce is its current one. *)
BlindSign(K) ==
  /\ Issuing /\ ctx # None /\ blind = None
  /\ LET q == ContextVerifyBytes(ctx.val, keys.vk, K, issuerNonce)
     IN  \E v \in IssuerAccepts(K, Answer(oracle, q)) :
           LET r == IF v.st # "ok" THEN v
                    ELSE IF ~v.val THEN Err("GeneralError")
                    ELSE BlindSignatureNew(ctx.val.commitment, MapOn(K),
                                           keys.sk, keys.vk, Drawn(3)[1], Drawn(4)[1])
           IN  /\ issue' = [st |-> r.st, hidden |-> ctx.hidden, known |-> K,
                            made |-> ctx.made, now |-> issuerNonce]
               /\ IF r.st = "ok"
                  THEN blind' = [sig |-> r.val, blinding |-> ctx.blinding]
                  ELSE blind' = None
  /\ ctx' = None /\ oracle' = << >>
  /\ UNCHANGED <<seed, keys, issuerNonce, complete, wallet, showVars>>

(* Prover::complete_signature *)
CompleteSignature ==
  /\ Issuing /\ blind # None
  /\ LET sig == ToUnblinded(blind.sig, blind.blinding)
         v == SignatureVerify(sig, Subject, keys.vk)
         good == v.st = "ok" /\ v.val
     IN  /\ complete' = [ok |-> good, given |-> N]
         /\ wallet' = IF good THEN Append(wallet, sig) ELSE wallet
  /\ blind' = None /\ issue' = None
  /\ UNCHANGED <<seed, keys, issuerNonce, oracle, ctx, showVars>>

(* Issuer::sign over the first n messages, and the check of the result against
   those messages. *)
Sign(n) ==
  /\ Issuing /\ ctx = None /\ blind = None
  /\ LET given == [i \in 0..(n - 1) |-> Subject[i]]
         r == SignatureNew(given, keys.sk, keys.vk, Drawn(3)[1], Drawn(4)[1])
         v == SignatureVerify(r.val, given, keys.vk)
         good == v.st = "ok" /\ v.val
     IN  /\ r.st = "ok"
         /\ complete' = [ok |-> good, given |-> n]
         /\ wallet' = IF good THEN Append(wallet, r.val) ELSE wallet
  /\ issue' = None
  /\ UNCHANGED <<seed, keys, issuerNonce, oracle, ctx, blind, showVars>>

------------------------------------------------------------------------------
(* Verifier::new_proof_request, for the next credential: an index above the
   number of generators is refused, one equal to it is not.  The verifier may
   know the short key only.  Issuing is over, and what it left is forgotten. *)
NewProofRequest(S) ==
  /\ Showing /\ poks = << >> /\ shown = None
  /\ Len(requests) < Len(wallet)
  /\ \A i \in S : i <= N
  /\ LET vk == IF keys.short THEN ToPublicKey(keys.vk.w, N, HashToG1(keys.vk.w)).val ELSE keys.vk
     IN  requests' = Append(requests, [revealed_messages |-> S, verification_key |-> vk])
  /\ issue' = None /\ complete' = None /\ issuerNonce' = FirstNonce
  /\ UNCHANGED <<seed, keys, oracle, ctx, blind, wallet, poks, shown, verdict,
                 verifierNonce>>

GenerateProofNonce(n) ==
  /\ Showing /\ requests # << >> /\ verdict = None /\ n # verifierNonce
  /\ verifierNonce' = n
  /\ UNCHANGED <<seed, keys, oracle, issueVars, requests, poks, shown, verdict>>

(* The caller's proof messages: V revealed, the linked message hidden with the
   blinding that all credentials share, the others hidden. *)
ProofMessages(k, V) ==
  [i \in Idx |-> [m |-> Subjects[k][i], blinding |-> LinkBlinding,
                  kind |-> IF i \in V THEN "revealed"
                           ELSE IF i = Link THEN "external" ELSE "specific"]]

(* Prover::commit_signature_pok: of the request it reads the key alone. *)
CommitSignaturePok(V) ==
  /\ Showing /\ shown = None
  /\ Len(poks) < Len(requests)
  /\ LET k == Len(poks) + 1
         r == PoKOfSignatureInit(wallet[k], requests[k].verification_key,
                                 ProofMessages(k, V), Drawn(k))
     IN  /\ r.st = "ok"
         /\ poks' = Append(poks, r.val)
  /\ UNCHANGED <<seed, keys, oracle, issueVars, requests, shown, verdict, verifierNonce>>

(* Mutant: the nonce is left out. *)
ChallengeHashBytesNoNonce(parts, nonce, claims) == Concat(parts) \o claims

(* create_challenge_hash: the strings of the proofs, the nonce, the claims. *)
ChallengeHashBytes(parts, nonce, claims) == Concat(parts) \o <<nonce>> \o claims

(* Prover::create_challenge_hash and generate_signature_pok for each. *)
GenerateSignaturePok(claims) ==
  /\ Showing /\ shown = None /\ poks # << >> /\ Len(poks) = Len(requests)
  /\ LET q == ChallengeHashBytes([k \in DOMAIN poks |-> PoKOfSignatureBytes(poks[k])],
                                 verifierNonce, claims)
         proof(k) == PoKOfSignatureGenProof(poks[k], Answer(<< >>, q)).val
     IN  /\ oracle' = <<q>>
         /\ shown' = [proofs |-> [k \in DOMAIN poks |->
                        [revealed_messages |-> poks[k].revealed_messages,
                         proof |-> proof(k)]],
                      claims |-> claims, made |-> verifierNonce]
  /\ UNCHANGED <<seed, keys, issueVars, requests, poks, verdict, verifierNonce>>

(* Verifier::verify_signature_pok for one proof without claims; for several,
   Verifier::create_challenge_hash and the verify of each. *)
VerifySignaturePok(claims) ==
  /\ Showing /\ shown # None /\ verdict = None
  /\ LET part(k) == BytesForChallenge(shown.proofs[k].proof,
                                      requests[k].revealed_messages,
                                      requests[k].verification_key)
         q == ChallengeHashBytes([k \in DOMAIN requests |-> part(k)],
                                 verifierNonce, claims)
         r(k) == PoKOfSignatureVerify(shown.proofs[k].proof,
                                      requests[k].verification_key,
                                      shown.proofs[k].revealed_messages,
                                      Answer(oracle, q))
     IN  verdict' = [status |-> [k \in DOMAIN requests |-> r(k)],
                     claims |-> claims, now |-> verifierNonce]
  /\ UNCHANGED <<seed, keys, oracle, issueVars, requests, poks, shown, verifierNonce>>

Claims == {<< >>, <<"claim">>}

Next ==
  \/ \E sk \in SecretKeys : NewKeys(sk)
  \/ \E n \in Nonces : GenerateSigningNonce(n) \/ GenerateProofNonce(n)
  \/ \E H \in HiddenSets : ProverNewContext(H)
  \/ \E K \in KnownSets : BlindSign(K)
  \/ CompleteSignature
  \/ \E n \in {N - 1, N} : Sign(n)
  \/ \E S \in AskedSets : NewProofRequest(S)
  \/ \E V \in RevealSets : CommitSignaturePok(V)
  \/ \E cl \in Claims : GenerateSignaturePok(cl) \/ VerifySignaturePok(cl)

Spec == Init /\ [][Next]_vars

------------------------------------------------------------------------------
(* Type invariant: what the parties hold has the shape the calls return. *)
TypeOK ==
  /\ issuerNonce \in Nonces /\ verifierNonce \in Nonces
  /\ wallet \in Seq([a : Fr, e : Fr, s : Fr])
  /\ Len(wallet) <= Len(Subjects) /\ Len(requests) <= Len(wallet)
  /\ Len(poks) <= Len(requests)
  /\ shown # None => Len(shown.proofs) = Len(requests)
  /\ verdict # None => shown # None

(* The issuer signs a commitment only when its proof answers the nonce the    *)
(* issuer has now, and hides exactly the messages the issuer was not told: a  *)
(* context made for an earlier nonce or for other indices is refused          *)
(* (issuer.rs blind_sign, lib.rs BlindSignatureContext::verify).              *)
BlindSignIsFresh ==
  issue # None /\ issue.st = "ok" => issue.made = issue.now /\ issue.hidden = Idx \ issue.known

(* ... and it never refuses, nor panics on, a context that does both; of a     *)
(* known set with an index beyond the key only the size is checked, and what   *)
(* passes that check panics.                                                   *)
BlindSignCompletes ==
  issue # None /\ issue.made = issue.now /\ issue.hidden = Idx \ issue.known
    => issue.st = (IF issue.known \subseteq Idx THEN "ok"
                   ELSE IF Cardinality(issue.known) > N THEN "err" ELSE "panic")

(* What the issuer signed verifies for the prover: unblinding adds exactly the *)
(* blinding of the commitment.  A signature over fewer messages than the key   *)
(* has, which Signature::new allows, verifies for nobody (signature.rs).       *)
SignatureCompletes == complete # None => (complete.ok <=> complete.given = N)

Matches(k) == DOMAIN shown.proofs[k].revealed_messages
                = requests[k].revealed_messages \intersect Idx
Agreed == /\ shown.made = verdict.now /\ shown.claims = verdict.claims
          /\ \A k \in DOMAIN requests : Matches(k)
Accepted(k) == verdict.status[k] = Ok("Success")

(* Proofs made for the requests, the nonce and the claims the verifier uses   *)
(* are all accepted, whatever was hidden, whichever blindings were shared,    *)
(* with a request that names the index just past the messages, and with a key *)
(* the verifier derived itself.                                               *)
ShowCompletes == verdict # None /\ Agreed => \A k \in DOMAIN requests : Accepted(k)

(* A proof is accepted only when every proof under the challenge revealed     *)
(* what its request asks, for the verifier's current nonce and claims: nothing *)
(* but the challenge ties the prover's choice of messages to the request.     *)
ShowIsBound == verdict # None /\ (\E k \in DOMAIN requests : Accepted(k)) => Agreed

(* What the string and the first relation bind, they bind up to two            *)
(* coincidences that no check excludes: a_bar is d, and the relation does not  *)
(* depend on the challenge; or a commitment is a generator, and the string     *)
(* does not tell where the hidden generators end.  The draws of a prover meet  *)
(* them with a probability that is negligible in a group of 255 bits.          *)
NoCoincidence ==
  shown # None =>
    \A k \in DOMAIN shown.proofs :
      LET p == shown.proofs[k].proof
      IN  /\ p.rz.a_bar # p.rz.d
          /\ \A i \in Idx : keys.vk.h[i] # p.proof_vc_2.commitment

HiddenPosition(k) ==
  Cardinality({i \in Idx \ DOMAIN shown.proofs[k].revealed_messages : i < Link})
LinkHidden(k) == Link \notin DOMAIN shown.proofs[k].revealed_messages

(* Two accepted proofs answer the linked message equally exactly when the     *)
(* credentials hold the same one: get_resp_for_message at the message's       *)
(* position among the hidden ones compares messages nobody reveals.           *)
LinkIsCompared ==
  verdict # None /\ Agreed =>
    \A j, k \in DOMAIN requests : LinkHidden(j) /\ LinkHidden(k) =>
      LET resp(i) == RespForMessage(shown.proofs[i].proof, HiddenPosition(i))
      IN  /\ resp(j).st = "ok"
          /\ resp(j) = resp(k) <=> Subjects[j][Link] = Subjects[k][Link]

(* What get_resp_for_message's comment says: it is given the index of a        *)
(* message, and answers with the response made for that message.  The code     *)
(* counts hidden messages only (pok_sig.rs).  A value and an error differ in   *)
(* st, which is compared first: their val are of different kinds.              *)
RespIsForMessage ==
  shown # None =>
    \A k \in DOMAIN shown.proofs : LinkHidden(k) =>
      LET given == RespForMessage(shown.proofs[k].proof, Link)
          made == RespForMessage(shown.proofs[k].proof, HiddenPosition(k))
      IN  given.st = made.st /\ given.val = made.val

(* Every value that is in flight survives its byte form, compressed or not:   *)
(* keys, contexts, blind and unblinded signatures, requests (with the index   *)
(* just past the messages) and proofs (lib.rs, keys.rs, signature.rs,         *)
(* pok_vc.rs, pok_sig.rs to_bytes and from_bytes).  Each is looked at until   *)
(* the next call uses it; it does not change after that.                      *)
RoundTrip ==
  \A f \in Forms :
    /\ keys # None /\ wallet = << >> =>
         /\ PublicKeyFromBytes(PublicKeyToBytes(keys.vk, f), f) = Ok(keys.vk)
         /\ FixedFromBytes("fr", FixedToBytes("fr", keys.sk, f)) = Ok(keys.sk)
         /\ FixedFromBytes("g2", FixedToBytes("g2", keys.vk.w, f)) = Ok(keys.vk.w)
    /\ ctx # None => ContextFromBytes(ContextToBytes(ctx.val, f), f) = Ok(ctx.val)
    /\ blind # None => SignatureFromBytes(SignatureToBytes(blind.sig, f)) = Ok(blind.sig)
    /\ wallet # << >> /\ requests = << >> =>
         SignatureFromBytes(SignatureToBytes(Last(wallet), f)) = Ok(Last(wallet))
    /\ requests # << >> /\ poks = << >> =>
         ProofRequestFromBytes(ProofRequestToBytes(Last(requests), f), f) = Ok(Last(requests))
    /\ shown # None /\ verdict = None => \A k \in DOMAIN shown.proofs :
         SignatureProofFromBytes(SignatureProofToBytes(shown.proofs[k], f), f)
           = Ok(shown.proofs[k])

(* A value whose last bytes are missing is never taken for another one: each  *)
(* decoder finds the end of the data, by an error or a panic, and no count    *)
(* read from the data lets it stop early.                                     *)
CutIsNoticed ==
  \A f \in Forms :
    LET cutFails(data, from(_)) ==
          \A n \in 0..(Len(data) - 1) : from(SubSeq(data, 1, n)).st # "ok"
    IN  /\ keys # None /\ wallet = << >> =>
             cutFails(PublicKeyToBytes(keys.vk, f), LAMBDA d : PublicKeyFromBytes(d, f))
        /\ ctx # None =>
             cutFails(ContextToBytes(ctx.val, f), LAMBDA d : ContextFromBytes(d, f))
        /\ blind # None => cutFails(SignatureToBytes(blind.sig, f), SignatureFromBytes)
        /\ requests # << >> /\ poks = << >> =>
             cutFails(ProofRequestToBytes(Last(requests), f),
                      LAMBDA d : ProofRequestFromBytes(d, f))
        /\ shown # None /\ verdict = None => \A k \in DOMAIN shown.proofs :
             cutFails(SignatureProofToBytes(shown.proofs[k], f),
                      LAMBDA d : SignatureProofFromBytes(d, f))

------------------------------------------------------------------------------
(* The inductive invariant for BlindSignIsFresh. *)

(* The string q commits to the messages of hidden and ends with the nonce. *)
AskedFor(q, vk, hidden, nonce) ==
  LET bases == HiddenBases(vk, InOrder(hidden))
  IN  /\ Len(q) = Len(bases) + 3 /\ q[Len(q)] = nonce
      /\ \A k \in DOMAIN bases : q[k] = bases[k]

(* The generators of the key are those of N messages; the challenge of the
   context answers the one string the prover asked, and that one names what
   the prover hides and the nonce it was for. *)
FreshInv ==
  /\ keys # None => keys.vk.h = [i \in Idx |-> Generators[i + 2]]
  /\ ctx # None =>
       /\ keys # None /\ ctx.hidden \subseteq Idx
       /\ ctx.val.challenge_hash = Challenges[1]
       /\ Len(oracle) = 1 /\ oracle = <<oracle[1]>>
       /\ AskedFor(oracle[1], keys.vk, ctx.hidden, ctx.made)
  /\ BlindSignIsFresh
------------------------------------------------------------------------------
(* The inductive invariant for the other theorems. *)

Sequence(s) == Len(s) \in Nat /\ s = [k \in 1..Len(s) |-> s[k]]

TheKey(sk) == Generate(N, sk, Generators).val
Signed(sig, m) == SignedFor(sig, m, keys.vk, keys.sk)

(* Both constructors make the same key, and so the verifier's is the issuer's. *)
KeysInv ==
  /\ keys # None => keys.sk \in SecretKeys /\ keys.vk = TheKey(keys.sk)
  /\ keys = None => ctx = None /\ blind = None /\ wallet = << >>
  /\ Sequence(requests)
  /\ \A k \in DOMAIN requests : requests[k].verification_key = keys.vk

(* The context is the one made for what the prover hides, and the oracle knows
   the string it answers. *)
ContextInv ==
  ctx # None =>
    /\ requests = << >> /\ Len(wallet) < Len(Subjects) /\ blind = None
    /\ ctx.blinding = Drawn(1)[1]
    /\ ctx.val = NewBlindSignatureContext(keys.vk, MapOn(ctx.hidden), ctx.blinding,
                                          Drawn(2), Challenges[1]).val
    /\ oracle = <<ContextBytes(keys.vk, MapOn(ctx.hidden), ctx.made, ctx.blinding,
                               Drawn(2))>>

(* What the issuer has signed verifies: unblinded, for the subject of the
   credential to come; in the wallet, for its own. *)
SignedInv ==
  /\ blind # None => /\ requests = << >> /\ Len(wallet) < Len(Subjects)
                     /\ Signed(ToUnblinded(blind.sig, blind.blinding), Subject)
  /\ \A k \in DOMAIN wallet : Signed(wallet[k], Subjects[k])

(* The commitments are those init makes for some choice of the prover, and the
   proofs are made of them for the first string asked. *)
Commitment(k, V) ==
  PoKOfSignatureInit(wallet[k], keys.vk, ProofMessages(k, V), Drawn(k))

ShownInv ==
  /\ Sequence(poks)
  /\ \A k \in DOMAIN poks : \E V \in RevealSets : poks[k] = Commitment(k, V).val
  /\ shown # None =>
       /\ poks # << >> /\ Len(poks) = Len(requests) /\ shown.claims \in Claims
       /\ oracle = <<ChallengeHashBytes([k \in DOMAIN poks |-> PoKOfSignatureBytes(poks[k])],
                                        shown.made, shown.claims)>>
       /\ shown.proofs = [k \in DOMAIN poks |->
            [revealed_messages |-> poks[k].revealed_messages,
             proof |-> PoKOfSignatureGenProof(poks[k], Challenges[1]).val]]

CredentialInv ==
  /\ seed \in Seeds /\ TypeOK /\ FreshInv
  /\ KeysInv /\ ContextInv /\ SignedInv /\ ShownInv
  /\ BlindSignCompletes /\ SignatureCompletes /\ ShowCompletes

(* What is asked and what is signed blindly are whole records, and a request
   names no index beyond the one just past the messages. *)
HeldInv ==
  /\ blind # None =>
       blind.sig = [a |-> blind.sig.a, e |-> blind.sig.e, s |-> blind.sig.s]
  /\ \A k \in DOMAIN requests :
       LET x == requests[k]
       IN  /\ x = [revealed_messages |-> x.revealed_messages,
                   verification_key |-> x.verification_key]
           /\ x.revealed_messages \subseteq 0..N
==============================================================================
