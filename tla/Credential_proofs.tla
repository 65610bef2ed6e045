--------------------------- MODULE Credential_proofs ---------------------------
(***************************************************************************)
(* Proofs about Credential, for any number of messages, any messages, keys *)
(* and random scalars, any nonces, and any indices that the parties pick.  *)
(* First that blind signing is fresh, by an invariant of its own; then     *)
(* that issuing and showing complete, by the invariant CredentialInv,      *)
(* whose algebra is in Primitives_proofs; last that all that is sent       *)
(* survives its byte form, and that no part of a byte form is taken for    *)
(* another value.                                                          *)
(***************************************************************************)
EXTENDS Credential, Primitives_proofs

--------------------------------------------------------------------------------
(* The strings that are hashed in blind signing. *)

(* There are finitely many indices, and all are integers. *)
LEMMA IdxFinite ==
  /\ N \in Nat \ {0} /\ Idx \subseteq Int
  /\ \A S \in SUBSET Idx : S \subseteq Int /\ IsFiniteSet(S)
<1>1. N \in Nat \ {0}
  BY CredentialAssumption
<1>2. IsFiniteSet(Idx) /\ Idx \subseteq Int
  BY <1>1, FS_Interval DEF Idx
<1> QED
  BY <1>1, <1>2, FS_Subset

(* The bases of a commitment: h0 and the generators of what it hides. *)
LEMMA BasesOf ==
  ASSUME NEW vk, NEW S \in SUBSET Idx
  PROVE  LET bases == HiddenBases(vk, InOrder(S))
         IN  /\ \E T : bases \in Seq(T)
             /\ Cardinality(S) \in Nat /\ Len(bases) = Cardinality(S) + 1
             /\ \A k \in 1..Cardinality(S) : bases[k + 1] = vk.h[InOrder(S)[k]]
<1> DEFINE I == InOrder(S)
           n == Cardinality(S)
           first == <<vk.h0>>
           rest == [k \in DOMAIN I |-> vk.h[I[k]]]
           T == {vk.h0} \union {vk.h[I[k]] : k \in 1..n}
<1>1. n \in Nat /\ DOMAIN I = 1..n
  BY IdxFinite, InOrderEnumerates
<1> HIDE DEF n, I
<1>2. first \in Seq(T) /\ Len(first) = 1
  OBVIOUS
<1>3. rest \in Seq(T) /\ Len(rest) = n /\ \A k \in 1..n : rest[k] = vk.h[I[k]]
  BY <1>1
<1> HIDE DEF first, rest, T
<1>4. /\ first \o rest \in Seq(T) /\ Len(first \o rest) = 1 + n
      /\ \A k \in 1..n : (first \o rest)[k + 1] = rest[k]
  <2>1. \A k \in 1..n : k + 1 \in 1..(1 + n) /\ ~(k + 1 <= 1) /\ k + 1 - 1 = k
    BY <1>1
  <2>2. /\ first \o rest \in Seq(T) /\ Len(first \o rest) = 1 + n
        /\ \A i \in 1..(1 + n) : (first \o rest)[i] = IF i <= 1 THEN first[i] ELSE rest[i - 1]
    <3>1. /\ first \o rest \in Seq(T) /\ Len(first \o rest) = Len(first) + Len(rest)
          /\ \A i \in 1..(Len(first) + Len(rest)) :
               (first \o rest)[i] = IF i <= Len(first) THEN first[i] ELSE rest[i - Len(first)]
      BY <1>2, <1>3, ConcatProperties
    <3> QED
      BY <1>2, <1>3, <3>1
  <2> QED
    BY <2>1, <2>2
<1>5. HiddenBases(vk, InOrder(S)) = first \o rest
  BY DEF HiddenBases, first, rest, I
<1> QED
  BY <1>1, <1>3, <1>4, <1>5 DEF n, I

(* Both strings name the hidden messages and the nonce. *)
LEMMA BytesName ==
  ASSUME NEW vk, NEW S \in SUBSET Idx, NEW x, NEW y, NEW nonce
  PROVE  LET bases == HiddenBases(vk, InOrder(S))
         IN  /\ AskedFor(bases \o <<x, y, nonce>>, vk, S, nonce)
             /\ AskedFor(Append(bases, x) \o <<y, nonce>>, vk, S, nonce)
<1> DEFINE bases == HiddenBases(vk, InOrder(S))
<1>1. PICK T : bases \in Seq(T)
  BY BasesOf
<1>2. PICK U : U = T \union {x, y, nonce}
  OBVIOUS
<1> HIDE DEF bases
<1>3. /\ bases \in Seq(U) /\ <<x, y, nonce>> \in Seq(U) /\ <<y, nonce>> \in Seq(U)
      /\ Append(bases, x) \in Seq(U) /\ Len(bases) \in Nat
      /\ DOMAIN bases = 1..Len(bases)
      /\ Len(Append(bases, x)) = Len(bases) + 1
      /\ \A k \in 1..Len(bases) : Append(bases, x)[k] = bases[k]
  <2>1. bases \in Seq(U) /\ x \in U
    BY <1>1, <1>2
  <2>2. <<x, y, nonce>> \in Seq(U) /\ <<y, nonce>> \in Seq(U)
    BY <1>2
  <2> QED
    BY <2>1, <2>2, AppendProperties
<1>4. /\ Len(bases \o <<x, y, nonce>>) = Len(bases) + 3
      /\ \A k \in 1..Len(bases) : (bases \o <<x, y, nonce>>)[k] = bases[k]
      /\ (bases \o <<x, y, nonce>>)[Len(bases) + 3] = nonce
  <2>1. Len(<<x, y, nonce>>) = 3 /\ <<x, y, nonce>>[3] = nonce
    OBVIOUS
  <2> QED
    BY <1>3, <2>1, ConcatProperties
<1>5. /\ Len(Append(bases, x) \o <<y, nonce>>) = Len(bases) + 3
      /\ \A k \in 1..Len(bases) : (Append(bases, x) \o <<y, nonce>>)[k] = bases[k]
      /\ (Append(bases, x) \o <<y, nonce>>)[Len(bases) + 3] = nonce
  <2>1. Len(<<y, nonce>>) = 2 /\ <<y, nonce>>[2] = nonce
    OBVIOUS
  <2> QED
    BY <1>3, <2>1, ConcatProperties
<1> QED
  BY <1>3, <1>4, <1>5 DEF AskedFor, bases

(* A string is for one nonce and one set of hidden messages: the generators
   are different, and each hidden message has its own. *)
LEMMA AskedForOne ==
  ASSUME NEW vk, \A i, j \in Idx : vk.h[i] = vk.h[j] => i = j,
         NEW S \in SUBSET Idx, NEW T \in SUBSET Idx, NEW m, NEW n, NEW q,
         AskedFor(q, vk, S, m), AskedFor(q, vk, T, n)
  PROVE  m = n /\ S = T
<1> DEFINE b == HiddenBases(vk, InOrder(S))
           c == HiddenBases(vk, InOrder(T))
<1>1. /\ Len(q) = Len(b) + 3 /\ q[Len(q)] = m /\ \A k \in DOMAIN b : q[k] = b[k]
      /\ Len(q) = Len(c) + 3 /\ q[Len(q)] = n /\ \A k \in DOMAIN c : q[k] = c[k]
  BY DEF AskedFor
<1>2. /\ Cardinality(S) \in Nat /\ Len(b) = Cardinality(S) + 1
      /\ DOMAIN b = 1..(Cardinality(S) + 1)
      /\ \A k \in 1..Cardinality(S) : b[k + 1] = vk.h[InOrder(S)[k]]
  <2>1. PICK U : b \in Seq(U)
    BY BasesOf
  <2>2. /\ Cardinality(S) \in Nat /\ Len(b) = Cardinality(S) + 1
        /\ \A k \in 1..Cardinality(S) : b[k + 1] = vk.h[InOrder(S)[k]]
    BY BasesOf
  <2> HIDE DEF b
  <2>3. DOMAIN b = 1..Len(b)
    BY <2>1
  <2> QED
    BY <2>2, <2>3
<1>3. /\ Cardinality(T) \in Nat /\ Len(c) = Cardinality(T) + 1
      /\ DOMAIN c = 1..(Cardinality(T) + 1)
      /\ \A k \in 1..Cardinality(T) : c[k + 1] = vk.h[InOrder(T)[k]]
  <2>1. PICK U : c \in Seq(U)
    BY BasesOf
  <2>2. /\ Cardinality(T) \in Nat /\ Len(c) = Cardinality(T) + 1
        /\ \A k \in 1..Cardinality(T) : c[k + 1] = vk.h[InOrder(T)[k]]
    BY BasesOf
  <2> HIDE DEF c
  <2>3. DOMAIN c = 1..Len(c)
    BY <2>1
  <2> QED
    BY <2>2, <2>3
<1> HIDE DEF b, c
<1>4. Cardinality(S) = Cardinality(T)
  BY <1>1, <1>2, <1>3
<1>5. \A k \in 1..Cardinality(S) : vk.h[InOrder(S)[k]] = vk.h[InOrder(T)[k]]
  <2> TAKE k \in 1..Cardinality(S)
  <2>1. k + 1 \in DOMAIN b /\ k + 1 \in DOMAIN c
    BY <1>2, <1>3, <1>4
  <2> QED
    BY <1>1, <1>2, <1>3, <1>4, <2>1
<1>6. /\ \A k \in 1..Cardinality(S) : InOrder(S)[k] \in Idx /\ InOrder(T)[k] \in Idx
      /\ S = {InOrder(S)[k] : k \in 1..Cardinality(S)}
      /\ T = {InOrder(T)[k] : k \in 1..Cardinality(S)}
  <2>1. S \subseteq Int /\ IsFiniteSet(S) /\ T \subseteq Int /\ IsFiniteSet(T)
    BY IdxFinite
  <2>2. /\ InOrder(S) \in [1..Cardinality(S) -> S]
        /\ S = {InOrder(S)[k] : k \in 1..Cardinality(S)}
    BY <2>1, InOrderEnumerates
  <2>3. /\ InOrder(T) \in [1..Cardinality(T) -> T]
        /\ T = {InOrder(T)[k] : k \in 1..Cardinality(T)}
    BY <2>1, InOrderEnumerates
  <2>4. /\ S = {InOrder(S)[k] : k \in 1..Cardinality(S)}
        /\ T = {InOrder(T)[k] : k \in 1..Cardinality(S)}
    BY <1>4, <2>2, <2>3, Zenon
  <2>5. \A k \in 1..Cardinality(S) : InOrder(S)[k] \in Idx /\ InOrder(T)[k] \in Idx
    BY <1>4, <2>2, <2>3
  <2> QED
    BY <2>4, <2>5
<1>7. \A k \in 1..Cardinality(S) : InOrder(S)[k] = InOrder(T)[k]
  BY <1>5, <1>6
<1> QED
  BY <1>1, <1>6, <1>7

--------------------------------------------------------------------------------
(* The invariant. *)

(* Both constructors make the same key, which goes with the secret one. *)
LEMMA TheKeyIs ==
  ASSUME NEW sk \in SecretKeys
  PROVE  /\ TheKey(sk) = [w |-> sk, h0 |-> Generators[1],
                          h |-> [i \in Idx |-> Generators[i + 2]]]
         /\ GoodKey(TheKey(sk), sk, N)
<1>1. N \in Nat \ {0} /\ Idx = 0..(N - 1) /\ sk \in Fr \ {0}
  BY CredentialAssumption, RandomAssumption DEF Idx
<1>2. Times(One, sk) = sk
  BY <1>1, Neutral
<1>3. TheKey(sk) = [w |-> sk, h0 |-> Generators[1],
                    h |-> [i \in Idx |-> Generators[i + 2]]]
  BY <1>1, <1>2 DEF TheKey, Generate, Ok
<1>4. \A i \in 1..(N + 1) : Generators[i] \in Fr \ {0}
  BY RandomAssumption
<1>5. 1 \in 1..(N + 1) /\ \A i \in Idx : i + 2 \in 1..(N + 1)
  BY <1>1
<1> QED
  BY <1>1, <1>3, <1>4, <1>5 DEF GoodKey

(* What the short key of sk is expanded to is the long one. *)
LEMMA DerivedKey ==
  ASSUME NEW sk \in SecretKeys
  PROVE  ToPublicKey(sk, N, HashToG1(sk)).val = TheKey(sk)
<1> DEFINE h2c == HashToG1(sk)
<1>1. N # 0 /\ Idx = 0..(N - 1) /\ N \in Nat
  BY CredentialAssumption DEF Idx
<1>2. \A i \in 0..N : h2c[GeneratorBytes(sk, i, N)] = Generators[i + 1]
  <2> TAKE i \in 0..N
  <2>1. GeneratorBytes(sk, i, N)[3] = i
    BY DEF GeneratorBytes
  <2>2. h2c[GeneratorBytes(sk, i, N)] = Generators[GeneratorBytes(sk, i, N)[3] + 1]
    BY DEF HashToG1
  <2> QED
    BY <2>1, <2>2
<1> HIDE DEF h2c
<1>3. ToPublicKey(sk, N, h2c).val
        = [w |-> sk, h0 |-> h2c[GeneratorBytes(sk, 0, N)],
           h |-> [i \in Idx |-> h2c[GeneratorBytes(sk, i + 1, N)]]]
  BY <1>1 DEF ToPublicKey, Ok
<1>4. \A i \in Idx : h2c[GeneratorBytes(sk, i + 1, N)] = Generators[i + 2]
  <2> TAKE i \in Idx
  <2>1. i + 1 \in 0..N /\ i + 1 + 1 = i + 2
    BY <1>1
  <2> QED
    BY <1>2, <2>1
<1>5. h2c[GeneratorBytes(sk, 0, N)] = Generators[1]
  <2>1. 0 \in 0..N /\ 0 + 1 = 1
    BY <1>1
  <2> QED
    BY <1>2, <2>1
<1> QED
  BY <1>3, <1>4, <1>5, TheKeyIs DEF h2c

(* Either way the issuer has the key of its secret. *)
LEMMA NewKeysStep ==
  ASSUME NEW sk \in SecretKeys, NewKeys(sk)
  PROVE  keys'.sk = sk /\ keys'.vk = TheKey(sk)
<1> DEFINE w == ShortKey(sk).val
<1>1. w = sk
  <2>1. sk \in Fr \ {0}
    BY RandomAssumption
  <2> QED
    BY <2>1, Neutral DEF ShortKey, SecretKeyValidate, Try, Ok
<1> HIDE DEF w
<1>2. /\ keys'.vk = TheKey(sk) \/ keys'.vk = ToPublicKey(w, N, HashToG1(w)).val
      /\ keys'.sk = sk
  BY DEF NewKeys, w, TheKey
<1> QED
  BY <1>1, <1>2, DerivedKey

(* A string is hashed to the first challenge if and only if it is the one that
   was asked before. *)
LEMMA AnswerOfOne ==
  ASSUME NEW p, NEW q
  PROVE  /\ Answer(<< >>, q) = Challenges[1]
         /\ Answer(<<p>>, q) = Challenges[1] <=> q = p
         /\ Answer(<<p>>, q) \in {Challenges[1], Challenges[2]}
<1>1. Asking(<< >>, q) = <<q>>
  BY DEF Asking, ToSet
<1>2. Answer(<< >>, q) = Challenges[1]
  BY <1>1 DEF Answer
<1>3. ASSUME q # p PROVE Answer(<<p>>, q) = Challenges[2]
  <2>1. PICK s : s = Append(<<p>>, q)
    OBVIOUS
  <2>2. DOMAIN s = 1..2 /\ s[1] = p /\ s[2] = q
    <3>1. <<p>> \in Seq({p, q}) /\ Len(<<p>>) = 1 /\ <<p>>[1] = p
      OBVIOUS
    <3>2. s \in Seq({p, q}) /\ Len(s) = 2 /\ s[1] = p /\ s[2] = q
      BY <2>1, <3>1, AppendProperties
    <3> QED
      BY <3>2
  <2>3. Asking(<<p>>, q) = s
    <3>1. \A i \in DOMAIN <<p>> : <<p>>[i] = p
      OBVIOUS
    <3>2. q \notin ToSet(<<p>>)
      BY <1>3, <3>1 DEF ToSet
    <3> QED
      BY <2>1, <3>2 DEF Asking
  <2>4. (CHOOSE i \in DOMAIN s : s[i] = q) = 2
    <3>1. \A i \in DOMAIN s : s[i] = q <=> i = 2
      BY <1>3, <2>2
    <3> QED
      BY <2>2, <3>1
  <2> QED
    BY <2>3, <2>4 DEF Answer
<1>4. ASSUME q = p PROVE Answer(<<p>>, q) = Challenges[1]
  <2>1. Asking(<<p>>, q) = <<q>>
    BY <1>4 DEF Asking, ToSet
  <2> QED
    BY <2>1 DEF Answer
<1> QED
  BY <1>2, <1>3, <1>4, CredentialAssumption

(* The prover's context. *)
LEMMA ContextStep ==
  ASSUME FreshInv, NEW H, ProverNewContext(H)
  PROVE  FreshInv'
<1> DEFINE blinding == Drawn(1)[1]
           draws == Drawn(2)
<1>1. PICK q, r, c :
        /\ q = ContextBytes(keys.vk, MapOn(H), issuerNonce, blinding, draws)
        /\ c = IF H \subseteq Idx THEN Answer(<< >>, q) ELSE 0
        /\ r = NewBlindSignatureContext(keys.vk, MapOn(H), blinding, draws, c)
  OBVIOUS
<1>2. /\ keys # None /\ keys' = keys /\ issue' = None
      /\ oracle' = IF H \subseteq Idx THEN <<q>> ELSE << >>
      /\ ctx' = IF r.st = "ok"
                THEN [val |-> r.val, blinding |-> blinding, hidden |-> H,
                      made |-> issuerNonce]
                ELSE None
  BY <1>1 DEF ProverNewContext, Issuing
<1>3. /\ keys.vk.h = [i \in Idx |-> Generators[i + 2]]
      /\ DOMAIN MapOn(H) = H /\ DOMAIN keys.vk.h = Idx
  BY <1>2 DEF FreshInv, MapOn
<1>4. ASSUME r.st = "ok"
      PROVE  H \subseteq Idx /\ r.val.challenge_hash = Challenges[1]
  <2>1. H \subseteq Idx
    <3> SUFFICES ASSUME ~(H \subseteq Idx) PROVE FALSE
      OBVIOUS
    <3>1. r = ContextIndexError(H, keys.vk)
      BY <1>1, <1>3 DEF NewBlindSignatureContext
    <3> QED
      BY <1>4, <3>1 DEF ContextIndexError, Panic, Err
  <2>2. c = Challenges[1]
    BY <1>1, <2>1, AnswerOfOne
  <2>3. r.val.challenge_hash = c
    BY <1>1, <1>3, <2>1 DEF NewBlindSignatureContext, Ok
  <2> QED
    BY <2>1, <2>2, <2>3
<1>5. ASSUME H \subseteq Idx PROVE AskedFor(q, keys.vk, H, issuerNonce)
  <2> DEFINE bases == HiddenBases(keys.vk, InOrder(H))
  <2>1. PICK x, y : q = Append(<< >> \o bases, x) \o <<y, issuerNonce>>
    BY <1>1, <1>3 DEF ContextBytes, CommittedBytes, ContextCommitted, Finish, CommitAll,
                      Committing
  <2>2. << >> \o bases = bases
    <3>1. PICK T : bases \in Seq(T)
      BY <1>5, BasesOf
    <3> QED
      BY <3>1, ConcatEmptySeq
  <2> QED
    BY <1>5, <2>1, <2>2, BytesName
<1>6. ctx' # None => /\ ctx'.hidden = H /\ ctx'.made = issuerNonce /\ ctx'.val = r.val
                     /\ r.st = "ok"
  BY <1>2
<1> QED
  BY <1>2, <1>3, <1>4, <1>5, <1>6 DEF FreshInv, BlindSignIsFresh

(* The issuer's answer. *)
LEMMA BlindSignSound ==
  ASSUME FreshInv, NEW K, BlindSign(K), issue'.st = "ok"
  PROVE  ctx.made = issuerNonce /\ ctx.hidden = Idx \ K
<1> DEFINE c == ctx.val
           bases == ContextBases(keys.vk, K)
           pr == ChallengeContribution(c.proof, bases, c.commitment, c.challenge_hash)
<1>1. PICK q : q = ContextVerifyBytes(c, keys.vk, K, issuerNonce)
  OBVIOUS
<1>2. PICK v \in IssuerAccepts(K, Answer(oracle, q)) :
        /\ issue'.hidden = ctx.hidden /\ issue'.known = K
        /\ issue'.made = ctx.made /\ issue'.now = issuerNonce
        /\ issue'.st = "ok" => v.st = "ok" /\ v.val
  BY <1>1 DEF BlindSign, Err
<1>3. ctx # None /\ ctx' = None /\ keys' = keys
  BY DEF BlindSign
<1>4. /\ keys.vk.h = [i \in Idx |-> Generators[i + 2]]
      /\ ctx.hidden \subseteq Idx /\ c.challenge_hash = Challenges[1]
      /\ oracle = <<oracle[1]>>
      /\ AskedFor(oracle[1], keys.vk, ctx.hidden, ctx.made)
  BY <1>3 DEF FreshInv
<1>5. pr.st = "ok" /\ Answer(oracle, q) = c.challenge_hash
  <2>1. CASE v = ContextVerify(c, keys.vk, K, Answer(oracle, q))
    BY <1>2, <2>1 DEF ContextVerify, Try, Ok
  <2>2. CASE v = VerifyCompleteProof(c.proof, bases, c.commitment, c.challenge_hash,
                                     Answer(oracle, q))
    BY <1>2, <2>2 DEF VerifyCompleteProof, Try, Ok
  <2> QED
    BY <2>1, <2>2 DEF IssuerAccepts
<1>6. q = oracle[1]
  BY <1>4, <1>5, AnswerOfOne
<1>7. q = HiddenBases(keys.vk, InOrder(Idx \ K)) \o <<pr.val, c.commitment, issuerNonce>>
  BY <1>1, <1>4, <1>5 DEF ContextVerifyBytes, CompleteProofBytes, ContextBases
<1>8. AskedFor(q, keys.vk, Idx \ K, issuerNonce)
  BY <1>7, BytesName
<1>9. \A i, j \in Idx : keys.vk.h[i] = keys.vk.h[j] => i = j
  <2> SUFFICES ASSUME NEW i \in Idx, NEW j \in Idx, keys.vk.h[i] = keys.vk.h[j]
               PROVE  i = j
    OBVIOUS
  <2>1. i \in Int /\ j \in Int /\ i + 2 \in 1..(N + 1) /\ j + 2 \in 1..(N + 1)
    BY IdxFinite DEF Idx
  <2>2. Generators[i + 2] = Generators[j + 2]
    BY <1>4
  <2>3. i + 2 = j + 2
    BY <2>1, <2>2, CredentialAssumption
  <2> QED
    BY <2>1, <2>3
<1> QED
  BY <1>4, <1>6, <1>8, <1>9, AskedForOne

(* Blind signing keeps the freshness of the request (issuer.rs blind_sign). *)
LEMMA BlindSignStep ==
  ASSUME FreshInv, NEW K, BlindSign(K)
  PROVE  FreshInv'
<1>1. /\ issue'.hidden = ctx.hidden /\ issue'.known = K
      /\ issue'.made = ctx.made /\ issue'.now = issuerNonce
  BY DEF BlindSign
<1>2. ctx # None /\ ctx' = None /\ keys' = keys
  BY DEF BlindSign
<1> QED
  BY <1>1, <1>2, BlindSignSound DEF FreshInv, BlindSignIsFresh

(* All the other actions keep keys, context and oracle together, and what they
   leave of the last blind signing is nothing new. *)
LEMMA FreshStep == FreshInv /\ [Next]_vars => FreshInv'
<1> SUFFICES ASSUME FreshInv, [Next]_vars PROVE FreshInv'
  OBVIOUS
<1>1. ASSUME NEW sk \in SecretKeys, NewKeys(sk) PROVE FreshInv'
  <2>1. keys = None /\ UNCHANGED <<oracle, ctx, issue>>
    BY <1>1 DEF NewKeys, issueVars
  <2>2. keys'.vk.h = [i \in Idx |-> Generators[i + 2]]
    BY <1>1, NewKeysStep, TheKeyIs
  <2> QED
    BY <2>1, <2>2 DEF FreshInv, BlindSignIsFresh
<1>2. ASSUME NEW n \in Nonces, GenerateSigningNonce(n) \/ GenerateProofNonce(n)
      PROVE  FreshInv'
  <2>1. UNCHANGED <<keys, oracle, ctx, issue>>
    BY <1>2 DEF GenerateSigningNonce, GenerateProofNonce, issueVars
  <2> QED
    BY <2>1 DEF FreshInv, BlindSignIsFresh
<1>3. ASSUME NEW H \in HiddenSets, ProverNewContext(H) PROVE FreshInv'
  BY <1>3, ContextStep
<1>4. ASSUME NEW K \in KnownSets, BlindSign(K) PROVE FreshInv'
  BY <1>4, BlindSignStep
<1>5. CASE CompleteSignature \/ (\E n \in {N - 1, N} : Sign(n))
           \/ (\E S \in AskedSets : NewProofRequest(S))
  <2>1. UNCHANGED <<keys, oracle, ctx>> /\ issue' = None
    BY <1>5 DEF CompleteSignature, Sign, NewProofRequest, showVars
  <2> QED
    BY <2>1 DEF FreshInv, BlindSignIsFresh
<1>6. ASSUME NEW V \in RevealSets, CommitSignaturePok(V) PROVE FreshInv'
  <2>1. UNCHANGED <<keys, oracle, ctx, issue>>
    BY <1>6 DEF CommitSignaturePok, issueVars
  <2> QED
    BY <2>1 DEF FreshInv, BlindSignIsFresh
<1>7. ASSUME NEW cl \in Claims, GenerateSignaturePok(cl) \/ VerifySignaturePok(cl)
      PROVE  FreshInv'
  <2>1. UNCHANGED <<keys, ctx, issue>> /\ ctx = None
    BY <1>7 DEF GenerateSignaturePok, VerifySignaturePok, Showing, issueVars
  <2> QED
    BY <2>1 DEF FreshInv, BlindSignIsFresh
<1>8. CASE UNCHANGED vars
  <2>1. UNCHANGED <<keys, oracle, ctx, issue>>
    BY <1>8 DEF vars
  <2> QED
    BY <2>1 DEF FreshInv, BlindSignIsFresh
<1> QED
  BY <1>1, <1>2, <1>3, <1>4, <1>5, <1>6, <1>7, <1>8 DEF Next

(* The issuer signs a commitment only when its proof answers the nonce that the *)
(* issuer has now, and hides exactly the messages that the issuer was not told, *)
(* whichever of the two checks it uses: neither the nonce nor the indices are   *)
(* part of what the prover sends (issuer.rs blind_sign, lib.rs                  *)
(* BlindSignatureContext::verify, pok_vc.rs verify_complete_proof).             *)
THEOREM BlindSigningIsFresh == Spec => []BlindSignIsFresh
<1>1. Init => FreshInv
  BY DEF Init, FreshInv, BlindSignIsFresh
<1>2. FreshInv => BlindSignIsFresh
  BY DEF FreshInv
<1> QED
  BY <1>1, <1>2, FreshStep, PTL DEF Spec

--------------------------------------------------------------------------------
(* Random scalars, subjects and signatures. *)

(* The random scalars and the subjects of a run. *)
LEMMA SeedFacts ==
  ASSUME seed \in Seeds
  PROVE  /\ seed.draws \in Seq(Fr \ {0}) /\ Len(seed.draws) >= N + 6 /\ Len(seed.draws) \in Nat
         /\ Subjects \in Seq([Idx -> Fr]) /\ Len(Subjects) \in Nat
         /\ Len(Subjects) <= Len(seed.draws)
<1>1. seed.subjects \in Seq([Idx -> Fr])
  BY CredentialAssumption
<1>2. /\ seed.draws \in Seq(Fr \ {0}) /\ Len(seed.draws) >= N + 6
      /\ Len(seed.subjects) <= Len(seed.draws)
  BY RandomAssumption
<1> QED
  BY <1>1, <1>2 DEF Subjects

(* Going round the scalars loses none. *)
LEMMA DrawnIs ==
  ASSUME seed \in Seeds, NEW k \in 0..Len(seed.draws)
  PROVE  /\ Drawn(k) \in Seq(Fr \ {0}) /\ Len(Drawn(k)) = Len(seed.draws)
         /\ k < Len(seed.draws) => Drawn(k)[1] = seed.draws[k + 1]
<1> DEFINE n == Len(seed.draws)
           S == Fr \ {0}
           a == SubSeq(seed.draws, k + 1, n)
           b == SubSeq(seed.draws, 1, k)
<1>1. seed.draws \in Seq(S) /\ n \in Nat /\ k \in Nat /\ k <= n
  BY SeedFacts
<1>2. PICK d : d = seed.draws
  OBVIOUS
<1> HIDE DEF S
<1>3. a \in Seq(S) /\ Len(a) = n - k /\ (k < n => a[1] = d[k + 1])
  <2>1. CASE k = n
    <3>1. a = << >>
      BY <1>1, <2>1, SubSeqProperties
    <3> QED
      BY <1>1, <2>1, <3>1
  <2>2. CASE k < n
    <3>1. k + 1 \in 1..n /\ n \in (k + 1)..n /\ d \in Seq(S) /\ Len(d) = n
      BY <1>1, <1>2, <2>2
    <3>2. /\ SubSeq(d, k + 1, n) \in Seq(S) /\ Len(SubSeq(d, k + 1, n)) = n - (k + 1) + 1
          /\ \A i \in 1..(n - (k + 1) + 1) : SubSeq(d, k + 1, n)[i] = d[k + 1 + i - 1]
      BY <1>1, <2>2, <3>1, SubSeqProperties
    <3>3. n - (k + 1) + 1 = n - k /\ 1 \in 1..(n - (k + 1) + 1) /\ k + 1 + 1 - 1 = k + 1
      BY <1>1, <2>2
    <3> QED
      BY <1>2, <3>2, <3>3
  <2> QED
    BY <1>1, <2>1, <2>2
<1>4. b \in Seq(S) /\ Len(b) = k
  <2>1. CASE k = 0
    <3>1. b = << >>
      BY <1>1, <2>1, SubSeqProperties
    <3> QED
      BY <2>1, <3>1
  <2>2. CASE k > 0
    <3>1. 1 \in 1..n /\ k \in 1..n
      BY <1>1, <2>2
    <3> QED
      BY <1>1, <2>2, <3>1, SubSeqProperties
  <2> QED
    BY <1>1, <2>1, <2>2
<1>5. Drawn(k) = a \o b
  BY DEF Drawn
<1> HIDE DEF a, b, n
<1>6. a \o b \in Seq(S) /\ Len(a \o b) = Len(a) + Len(b)
      /\ \A i \in 1..(Len(a) + Len(b)) : (a \o b)[i] = IF i <= Len(a) THEN a[i] ELSE b[i - Len(a)]
  BY <1>3, <1>4, ConcatProperties
<1>7. Len(a) + Len(b) = n
  BY <1>1, <1>3, <1>4
<1>8. k < n => (a \o b)[1] = a[1]
  BY <1>1, <1>3, <1>4, <1>6
<1> QED
  BY <1>2, <1>3, <1>5, <1>6, <1>7, <1>8 DEF n, S

(* The blinding, e and s of a signature. *)
LEMMA SignatureDraws ==
  ASSUME seed \in Seeds, NEW sk \in SecretKeys
  PROVE  /\ Drawn(1)[1] \in Fr /\ Drawn(3)[1] \in Fr \ {0} /\ Drawn(4)[1] \in Fr \ {0}
         /\ Plus(sk, Drawn(3)[1]) # 0
         /\ \A s \in {Drawn(4)[1], Plus(Drawn(4)[1], Drawn(1)[1])} :
              /\ s \in Fr \ {0}
              /\ \A k \in DOMAIN Subjects : ComputeB(s, Subjects[k], TheKey(sk)) # Zero
<1>1. N \in Nat
  BY CredentialAssumption
<1>2. Drawn(1)[1] = seed.draws[2] /\ Drawn(3)[1] = seed.draws[4] /\ Drawn(4)[1] = seed.draws[5]
  <2>1. \A k \in {1, 3, 4} : k \in 0..Len(seed.draws) /\ k < Len(seed.draws)
    BY <1>1, SeedFacts
  <2>2. 1 + 1 = 2 /\ 3 + 1 = 4 /\ 4 + 1 = 5
    OBVIOUS
  <2> QED
    BY <2>1, <2>2, DrawnIs
<1>3. \A k \in {2, 4, 5} : seed.draws[k] \in Fr \ {0}
  <2>1. \A k \in {2, 4, 5} : k \in 1..Len(seed.draws)
    BY <1>1, SeedFacts
  <2> QED
    BY <2>1, SeedFacts
<1>4. /\ Plus(sk, seed.draws[4]) # 0
      /\ \A s \in {seed.draws[5], Plus(seed.draws[5], seed.draws[2])} :
           /\ s # 0
           /\ \A k \in DOMAIN Subjects : ComputeB(s, Subjects[k], TheKey(sk)) # Zero
  BY RandomAssumption DEF Subjects, TheKey
<1>5. Plus(seed.draws[5], seed.draws[2]) \in Fr
  BY <1>3, ScalarTypes
<1> QED
  BY <1>2, <1>3, <1>4, <1>5

(* The subject of the credential to come. *)
LEMMA SubjectIs ==
  ASSUME seed \in Seeds, Len(wallet) \in Nat, Len(wallet) < Len(Subjects)
  PROVE  /\ Subject \in [Idx -> Fr] /\ Len(wallet) + 1 \in DOMAIN Subjects
         /\ Subject = Subjects[Len(wallet) + 1]
BY SeedFacts DEF Subject

(* The end of signing. *)
LEMMA SignBIs ==
  ASSUME NEW sk, NEW e, NEW s, NEW b, Plus(sk, e) # 0
  PROVE  SignB(b, e, s, sk)
           = Ok([a |-> Times(b, Inverse1(Plus(sk, e))), e |-> e, s |-> s])
BY DEF SignB

(* A good key passes the checks of sign and verify. *)
LEMMA GoodKeysValidate ==
  ASSUME NEW sk, NEW vk, GoodKey(vk, sk, N)
  PROVE  KeysValidate(sk, vk) = Ok(vk) /\ KeysValidate(sk, vk).st = "ok"
<1>1. PublicKeyValidate(vk) = Ok(vk) /\ SecretKeyValidate(sk) = Ok(sk)
  BY GoodKeyFacts
<1>2. Ok(sk).st = "ok" /\ Ok(vk).st = "ok"
  BY DEF Ok
<1> QED
  BY <1>1, <1>2 DEF KeysValidate, Try

(* The invariant before a credential is signed. *)
LEMMA Issued ==
  ASSUME CredentialInv, Issuing
  PROVE  /\ keys # None /\ keys.sk \in SecretKeys /\ keys.vk = TheKey(keys.sk)
         /\ GoodKey(keys.vk, keys.sk, N) /\ seed \in Seeds
         /\ DOMAIN keys.vk.h = Idx
         /\ wallet \in Seq([a : Fr, e : Fr, s : Fr]) /\ Len(wallet) \in Nat
         /\ Len(wallet) < Len(Subjects) /\ requests = << >>
         /\ Subject \in [Idx -> Fr] /\ Len(wallet) + 1 \in DOMAIN Subjects
         /\ Subject = Subjects[Len(wallet) + 1]
<1>1. /\ keys # None /\ keys.sk \in SecretKeys /\ keys.vk = TheKey(keys.sk)
      /\ seed \in Seeds /\ wallet \in Seq([a : Fr, e : Fr, s : Fr])
      /\ Len(wallet) < Len(Subjects) /\ requests = << >>
  BY DEF CredentialInv, KeysInv, TypeOK, Issuing
<1>2. GoodKey(keys.vk, keys.sk, N)
  BY <1>1, TheKeyIs
<1>3. Len(wallet) \in Nat
  BY <1>1
<1>4. DOMAIN keys.vk.h = Idx
  BY <1>2 DEF GoodKey, Idx
<1> QED
  BY <1>1, <1>2, <1>3, <1>4, SubjectIs

(* Signing all the messages makes a signature of them; one of fewer messages is
   refused for their number. *)
LEMMA SignStep ==
  ASSUME CredentialInv, NEW n \in {N - 1, N}, Sign(n)
  PROVE  /\ SignatureCompletes'
         /\ wallet' = wallet \/ \E sig : wallet' = Append(wallet, sig) /\ Signed(sig, Subject)
<1>1. Issuing /\ UNCHANGED <<seed, keys>>
  BY DEF Sign
<1>2. /\ keys.sk \in SecretKeys /\ GoodKey(keys.vk, keys.sk, N) /\ seed \in Seeds
      /\ keys.vk = TheKey(keys.sk)
      /\ Subject \in [Idx -> Fr] /\ Len(wallet) + 1 \in DOMAIN Subjects
      /\ Subject = Subjects[Len(wallet) + 1]
  BY <1>1, Issued
<1>3. N \in Nat \ {0} /\ Idx = 0..(N - 1) /\ MessageCount(keys.vk) = N
  BY <1>2, CredentialAssumption, GoodKeyFacts DEF Idx
<1> DEFINE e == Drawn(3)[1]
           s == Drawn(4)[1]
           given == [i \in 0..(n - 1) |-> Subject[i]]
           r == SignatureNew(given, keys.sk, keys.vk, e, s)
           v == SignatureVerify(r.val, given, keys.vk)
           good == v.st = "ok" /\ v.val
<1>4. /\ complete' = [ok |-> good, given |-> n]
      /\ wallet' = IF good THEN Append(wallet, r.val) ELSE wallet
  BY DEF Sign
<1>5. Cardinality(0..(n - 1)) = n /\ n \in Nat
  <2>1. n \in Nat
    BY <1>3
  <2>2. 0 \in Int /\ n - 1 \in Int /\ (n - 1) - 0 + 1 = n /\ (0 > n - 1 <=> n = 0)
    BY <2>1
  <2>3. Cardinality(0..(n - 1)) = IF 0 > n - 1 THEN 0 ELSE (n - 1) - 0 + 1
    BY <2>2, FS_Interval
  <2> QED
    BY <2>1, <2>2, <2>3
<1>6. CASE n = N
  <2>1. given = Subject
    BY <1>2, <1>3, <1>6
  <2>2. /\ e \in Fr \ {0} /\ s \in Fr \ {0} /\ Plus(keys.sk, e) # 0
        /\ ComputeB(s, Subject, keys.vk) # Zero
    BY <1>2, SignatureDraws
  <2>3. r = SignB(ComputeB(s, given, keys.vk), e, s, keys.sk)
    <3>1. KeysValidate(keys.sk, keys.vk).st = "ok"
      BY <1>2, GoodKeysValidate
    <3>2. DOMAIN given = 0..(n - 1) /\ ~(n > N)
      BY <1>3, <1>6
    <3> HIDE DEF given, e, s
    <3> QED
      BY <1>3, <1>5, <3>1, <3>2 DEF SignatureNew, Try
  <2> HIDE DEF given, e, s
  <2>4. r = Ok([a |-> Times(ComputeB(s, Subject, keys.vk), Inverse1(Plus(keys.sk, e))),
                e |-> e, s |-> s])
    BY <2>1, <2>2, <2>3, SignBIs
  <2>5. SignedFor(r.val, Subject, keys.vk, keys.sk)
    BY <2>2, <2>4 DEF Ok, SignedFor
  <2>6. v = Ok(TRUE)
    <3>1. DOMAIN Subject = 0..(N - 1) /\ \A i \in 0..(N - 1) : Subject[i] \in Fr
      BY <1>2, <1>3
    <3> HIDE DEF r
    <3> QED
      BY <1>2, <2>1, <2>5, <3>1, SignedVerifies
  <2>7. good
    BY <2>6 DEF Ok
  <2>8. complete' = [ok |-> TRUE, given |-> N] /\ wallet' = Append(wallet, r.val)
    BY <1>4, <1>6, <2>7
  <2> QED
    BY <2>5, <2>8 DEF SignatureCompletes, Signed
<1>7. CASE n = N - 1
  <2>1. v.st = "err"
    <3>1. n # N /\ DOMAIN given = 0..(n - 1)
      BY <1>3, <1>7
    <3> HIDE DEF given, r
    <3> QED
      BY <1>3, <1>5, <3>1 DEF SignatureVerify, Err
  <2>2. ~good /\ n # N
    BY <1>3, <1>7, <2>1
  <2> HIDE DEF good
  <2>3. ~complete'.ok /\ complete'.given = n /\ wallet' = wallet
    BY <1>4, <2>2
  <2> QED
    BY <2>2, <2>3 DEF SignatureCompletes
<1> QED
  BY <1>6, <1>7

(* Unblinding a signature of the subject completes it. *)
LEMMA CompleteStep ==
  ASSUME CredentialInv, CompleteSignature
  PROVE  /\ SignatureCompletes'
         /\ \E sig : wallet' = Append(wallet, sig) /\ Signed(sig, Subject)
<1>1. Issuing /\ UNCHANGED <<seed, keys>> /\ blind # None
  BY DEF CompleteSignature
<1>2. /\ GoodKey(keys.vk, keys.sk, N) /\ Subject \in [Idx -> Fr]
      /\ Idx = 0..(N - 1)
  BY <1>1, Issued DEF Idx
<1> DEFINE sig == ToUnblinded(blind.sig, blind.blinding)
           v == SignatureVerify(sig, Subject, keys.vk)
           good == v.st = "ok" /\ v.val
<1>3. /\ complete' = [ok |-> good, given |-> N]
      /\ wallet' = IF good THEN Append(wallet, sig) ELSE wallet
  BY DEF CompleteSignature
<1>4. SignedFor(sig, Subject, keys.vk, keys.sk)
  BY <1>1 DEF CredentialInv, SignedInv, Signed
<1>5. v = Ok(TRUE)
  <2>1. DOMAIN Subject = 0..(N - 1) /\ \A i \in 0..(N - 1) : Subject[i] \in Fr
    BY <1>2
  <2> HIDE DEF sig
  <2> QED
    BY <1>2, <1>4, <2>1, SignedVerifies
<1>6. good
  BY <1>5 DEF Ok
<1>7. complete' = [ok |-> TRUE, given |-> N] /\ wallet' = Append(wallet, sig)
  BY <1>3, <1>6
<1> QED
  BY <1>4, <1>7 DEF SignatureCompletes, Signed

(* The context under way is one that ContextHolds is about. *)
LEMMA ContextIs ==
  ASSUME CredentialInv, Issuing, ctx # None
  PROVE  LET m == MapOn(ctx.hidden)
         IN  /\ Contextual(keys.vk, keys.sk, N, ctx.hidden, m, ctx.blinding, Drawn(2),
                           Challenges[1])
             /\ ctx.hidden \in SUBSET Idx /\ ctx.blinding = Drawn(1)[1]
             /\ DOMAIN m = ctx.hidden /\ DOMAIN keys.vk.h = Idx
             /\ ctx.val = NewBlindSignatureContext(keys.vk, m, ctx.blinding, Drawn(2),
                                                   Challenges[1]).val
             /\ oracle = <<ContextBytes(keys.vk, m, ctx.made, ctx.blinding, Drawn(2))>>
<1>1. /\ keys.sk \in SecretKeys /\ GoodKey(keys.vk, keys.sk, N) /\ seed \in Seeds
      /\ Subject \in [Idx -> Fr] /\ Idx = 0..(N - 1) /\ N \in Nat /\ DOMAIN keys.vk.h = Idx
  BY Issued, CredentialAssumption DEF Idx
<1> DEFINE H == ctx.hidden
           m == MapOn(H)
           draws == Drawn(2)
           made == NewBlindSignatureContext(keys.vk, m, ctx.blinding, draws, Challenges[1])
<1>2. /\ H \in SUBSET (0..(N - 1)) /\ ctx.blinding = Drawn(1)[1] /\ ctx.val = made.val
      /\ oracle = <<ContextBytes(keys.vk, m, ctx.made, ctx.blinding, draws)>>
  BY <1>1 DEF CredentialInv, FreshInv, ContextInv
<1>3. DOMAIN m = H /\ \A i \in H : m[i] \in Fr
  BY <1>1, <1>2 DEF MapOn
<1>4. ctx.blinding \in Fr /\ Challenges[1] \in Fr
  BY <1>1, <1>2, SignatureDraws, RandomAssumption
<1>5. draws \in Seq(Fr) /\ Len(draws) >= N + 1
  <2>1. 2 \in 0..Len(seed.draws) /\ Len(seed.draws) >= N + 6
    BY <1>1, SeedFacts
  <2>2. draws \in Seq(Fr \ {0}) /\ Len(draws) = Len(seed.draws)
    BY <1>1, <2>1, DrawnIs
  <2> HIDE DEF draws
  <2> QED
    BY <1>1, <2>1, <2>2
<1> HIDE DEF m, draws, made, H
<1>6. Contextual(keys.vk, keys.sk, N, H, m, ctx.blinding, draws, Challenges[1])
  BY <1>1, <1>2, <1>3, <1>4, <1>5 DEF Contextual
<1> QED
  BY <1>1, <1>2, <1>3, <1>6 DEF m, draws, made, H

(* (So it answers its challenge.) *)
LEMMA ContextUnderWay ==
  ASSUME CredentialInv, Issuing, ctx # None
  PROVE  LET c == ctx.val
             bases == HiddenBases(keys.vk, InOrder(ctx.hidden))
         IN  /\ ctx.hidden \in SUBSET Idx /\ ctx.blinding = Drawn(1)[1] /\ ctx.blinding \in Fr
             /\ c.challenge_hash = Challenges[1]
             /\ c.commitment = ContextCommitment(keys.vk, MapOn(ctx.hidden), ctx.blinding)
             /\ ChallengeContribution(c.proof, bases, c.commitment, c.challenge_hash)
                  = Ok(c.proof.commitment)
             /\ oracle = <<CompleteProofBytes(bases, c.proof.commitment, c.commitment, ctx.made)>>
<1>1. PICK m, draws, h : m = MapOn(ctx.hidden) /\ draws = Drawn(2) /\ h = Challenges[1]
  OBVIOUS
<1>2. PICK made : made = NewBlindSignatureContext(keys.vk, m, ctx.blinding, draws, h)
  OBVIOUS
<1>3. /\ Contextual(keys.vk, keys.sk, N, ctx.hidden, m, ctx.blinding, draws, h)
      /\ ctx.hidden \in SUBSET Idx /\ ctx.blinding = Drawn(1)[1] /\ ctx.val = made.val
      /\ oracle = <<ContextBytes(keys.vk, m, ctx.made, ctx.blinding, draws)>>
  BY <1>1, <1>2, ContextIs
<1>4. ctx.blinding \in Fr
  BY <1>3 DEF Contextual
<1>5. ContextAnswers(keys.vk, ctx.hidden, m, ctx.blinding, draws, h, ctx.made)
  BY <1>3, ContextHolds
<1>6. /\ made.val.challenge_hash = h
      /\ made.val.commitment = ContextCommitment(keys.vk, m, ctx.blinding)
      /\ ChallengeContribution(made.val.proof, HiddenBases(keys.vk, InOrder(ctx.hidden)),
                               made.val.commitment, h)
           = Ok(made.val.proof.commitment)
      /\ ContextBytes(keys.vk, m, ctx.made, ctx.blinding, draws)
           = CompleteProofBytes(HiddenBases(keys.vk, InOrder(ctx.hidden)),
                                made.val.proof.commitment, made.val.commitment, ctx.made)
  BY <1>2, <1>5 DEF ContextAnswers
<1> QED
  BY <1>1, <1>3, <1>4, <1>6

(* The issuer accepts it for the nonce it was made for, told the messages that
   it does not hide. *)
LEMMA ContextAccepted ==
  ASSUME CredentialInv, Issuing, ctx # None, NEW K, ctx.hidden = Idx \ K,
         ctx.made = issuerNonce,
         NEW v \in IssuerAccepts(K, Answer(oracle,
                     ContextVerifyBytes(ctx.val, keys.vk, K, issuerNonce)))
  PROVE  v = Ok(TRUE)
<1> DEFINE c == ctx.val
           bases == ContextBases(keys.vk, K)
           q == ContextVerifyBytes(c, keys.vk, K, issuerNonce)
           hash == Answer(oracle, q)
           pr == ChallengeContribution(c.proof, bases, c.commitment, c.challenge_hash)
<1>1. bases = HiddenBases(keys.vk, InOrder(ctx.hidden))
  BY Issued DEF ContextBases
<1>2. /\ c.challenge_hash = Challenges[1] /\ pr = Ok(c.proof.commitment)
      /\ oracle = <<CompleteProofBytes(bases, c.proof.commitment, c.commitment, issuerNonce)>>
  BY <1>1, ContextUnderWay
<1> HIDE DEF bases, c
<1>3. pr.st = "ok" /\ pr.val = c.proof.commitment
  BY <1>2 DEF Ok
<1>4. q = CompleteProofBytes(bases, c.proof.commitment, c.commitment, issuerNonce)
  BY <1>3 DEF ContextVerifyBytes, bases
<1>5. hash = c.challenge_hash
  <2> HIDE DEF q
  <2>1. oracle = <<q>>
    BY <1>2, <1>4
  <2> QED
    BY <1>2, <2>1, AnswerOfOne
<1>6. v = ContextVerify(c, keys.vk, K, hash)
        \/ v = VerifyCompleteProof(c.proof, bases, c.commitment, c.challenge_hash, hash)
  BY DEF IssuerAccepts, c, bases
<1> HIDE DEF hash
<1>7. ContextVerify(c, keys.vk, K, hash)
        = Ok(pr.val = c.proof.commitment /\ hash = c.challenge_hash)
  BY <1>3 DEF ContextVerify, Try, bases
<1>8. VerifyCompleteProof(c.proof, bases, c.commitment, c.challenge_hash, hash)
        = Ok(pr.val = c.proof.commitment /\ hash = c.challenge_hash)
  BY <1>3 DEF VerifyCompleteProof, Try
<1>9. (pr.val = c.proof.commitment /\ hash = c.challenge_hash) = TRUE
  BY <1>3, <1>5
<1> QED
  BY <1>6, <1>7, <1>8, <1>9

(* What the issuer then makes of the commitment. *)
LEMMA BlindSigned ==
  ASSUME CredentialInv, Issuing, ctx # None, NEW K \in KnownSets, ctx.hidden = Idx \ K,
         NEW r, r = BlindSignatureNew(ctx.val.commitment, MapOn(K), keys.sk, keys.vk,
                                      Drawn(3)[1], Drawn(4)[1])
  PROVE  /\ r.st = IF K \subseteq Idx THEN "ok"
                   ELSE IF Cardinality(K) > N THEN "err" ELSE "panic"
         /\ K \subseteq Idx => Signed(ToUnblinded(r.val, ctx.blinding), Subject)
<1>1. /\ keys.sk \in SecretKeys /\ GoodKey(keys.vk, keys.sk, N) /\ seed \in Seeds
      /\ keys.vk = TheKey(keys.sk) /\ DOMAIN keys.vk.h = Idx
      /\ Subject \in [Idx -> Fr] /\ Idx = 0..(N - 1) /\ N \in Nat
      /\ Len(wallet) + 1 \in DOMAIN Subjects /\ Subject = Subjects[Len(wallet) + 1]
  BY Issued, CredentialAssumption DEF Idx
<1>2. MessageCount(keys.vk) = N /\ KeysValidate(keys.sk, keys.vk).st = "ok"
  BY <1>1, GoodKeyFacts, GoodKeysValidate
<1>3. K \subseteq Int /\ IsFiniteSet(K)
  BY RandomAssumption
<1>4. Cardinality(K) \in Nat /\ Len(InOrder(K)) = Cardinality(K)
  <2>1. Cardinality(K) \in Nat /\ InOrder(K) \in [1..Cardinality(K) -> K]
    BY <1>3, InOrderEnumerates
  <2>2. InOrder(K) \in Seq(K)
    BY <2>1
  <2> QED
    BY <2>1, <2>2
<1>5. K \subseteq Idx => Cardinality(K) <= N
  BY <1>1, GoodKeyFacts
<1> DEFINE m == MapOn(K)
           e == Drawn(3)[1]
           s == Drawn(4)[1]
           com == ctx.val.commitment
           product == MultiScalarMul(<<com, One, keys.vk.h0>> \o Along(keys.vk.h, K),
                                     <<One, One, s>> \o Along(m, K))
<1>6. DOMAIN m = K
  BY DEF MapOn
<1>7. CASE ~(K \subseteq Idx)
  <2>1. r = IF Cardinality(K) > N THEN Err("PublicKeyGeneratorMessageCountMismatch") ELSE Panic
    <3> HIDE DEF m, e, s, com
    <3>1. r = BlindSignatureNew(com, m, keys.sk, keys.vk, e, s)
      BY DEF m, e, s, com
    <3> QED
      BY <1>1, <1>2, <1>4, <1>6, <1>7, <3>1 DEF BlindSignatureNew, Try
  <2> QED
    BY <1>7, <2>1 DEF Err, Panic
<1>8. CASE K \subseteq Idx
  <2>1. r = SignB(product, e, s, keys.sk)
    <3> HIDE DEF m, e, s, com
    <3>1. r = BlindSignatureNew(com, m, keys.sk, keys.vk, e, s)
      BY DEF m, e, s, com
    <3> QED
      BY <1>1, <1>2, <1>4, <1>5, <1>6, <1>8, <3>1 DEF BlindSignatureNew, Try, Along, One
  <2>2. /\ e \in Fr \ {0} /\ s \in Fr \ {0} /\ Plus(keys.sk, e) # 0
        /\ ctx.blinding = Drawn(1)[1]
        /\ Plus(s, ctx.blinding) \in Fr \ {0}
        /\ ComputeB(Plus(s, ctx.blinding), Subject, keys.vk) # Zero
    BY <1>1, SignatureDraws, ContextUnderWay
  <2>3. product = ComputeB(Plus(s, ctx.blinding), Subject, keys.vk)
    <3>1. PICK hidden, known : hidden = MapOn(ctx.hidden) /\ known = m
      OBVIOUS
    <3>2. Halves(Subject, hidden, known, K, N)
      <4>1. DOMAIN hidden = (0..(N - 1)) \ K /\ \A i \in DOMAIN hidden : hidden[i] = Subject[i]
        BY <1>1, <3>1 DEF MapOn
      <4>2. DOMAIN known = K /\ \A i \in K : known[i] = Subject[i]
        BY <1>8, <3>1 DEF MapOn
      <4>3. K \in SUBSET (0..(N - 1)) /\ DOMAIN Subject = 0..(N - 1)
              /\ \A i \in 0..(N - 1) : Subject[i] \in Fr
        BY <1>1, <1>8
      <4> QED
        BY <4>1, <4>2, <4>3 DEF Halves
    <3>3. com = ContextCommitment(keys.vk, hidden, ctx.blinding) /\ ctx.blinding \in Fr
      BY <3>1, ContextUnderWay
    <3> HIDE DEF m, s, com
    <3>4. MultiScalarMul(
            <<ContextCommitment(keys.vk, hidden, ctx.blinding), One, keys.vk.h0>>
               \o Along(keys.vk.h, K),
            <<One, One, s>> \o Along(known, K))
            = ComputeB(Plus(s, ctx.blinding), Subject, keys.vk)
      BY <1>1, <2>2, <3>2, <3>3, BlindSum
    <3> QED
      BY <3>1, <3>3, <3>4
  <2> HIDE DEF product, e, s
  <2>4. r = Ok([a |-> Times(product, Inverse1(Plus(keys.sk, e))), e |-> e, s |-> s])
    BY <2>1, <2>2, SignBIs
  <2>5. ToUnblinded(r.val, ctx.blinding)
          = [a |-> Times(product, Inverse1(Plus(keys.sk, e))), e |-> e,
             s |-> Plus(s, ctx.blinding)]
    BY <2>4 DEF Ok, ToUnblinded
  <2>6. SignedFor(ToUnblinded(r.val, ctx.blinding), Subject, keys.vk, keys.sk)
    BY <2>2, <2>3, <2>5 DEF SignedFor
  <2> QED
    BY <1>8, <2>4, <2>6 DEF Ok, Signed
<1> QED
  BY <1>7, <1>8

(* A context for the current nonce and for the messages that the issuer was not
   told is signed, unless the known messages are too many or beyond the key. *)
LEMMA BlindSignCompleted ==
  ASSUME CredentialInv, NEW K \in KnownSets, BlindSign(K)
  PROVE  /\ BlindSignCompletes'
         /\ blind' # None => Signed(ToUnblinded(blind'.sig, blind'.blinding), Subject)
<1>1. Issuing /\ ctx # None
  BY DEF BlindSign
<1> DEFINE hash == Answer(oracle, ContextVerifyBytes(ctx.val, keys.vk, K, issuerNonce))
           signed == BlindSignatureNew(ctx.val.commitment, MapOn(K), keys.sk, keys.vk,
                                       Drawn(3)[1], Drawn(4)[1])
<1>2. PICK v \in IssuerAccepts(K, hash) : \E r :
        /\ r = IF v.st # "ok" THEN v ELSE IF ~v.val THEN Err("GeneralError") ELSE signed
        /\ issue' = [st |-> r.st, hidden |-> ctx.hidden, known |-> K,
                     made |-> ctx.made, now |-> issuerNonce]
        /\ IF r.st = "ok" THEN blind' = [sig |-> r.val, blinding |-> ctx.blinding]
                          ELSE blind' = None
  BY DEF BlindSign
<1>6. PICK r :
        /\ r = IF v.st # "ok" THEN v ELSE IF ~v.val THEN Err("GeneralError") ELSE signed
        /\ issue' = [st |-> r.st, hidden |-> ctx.hidden, known |-> K,
                     made |-> ctx.made, now |-> issuerNonce]
        /\ IF r.st = "ok" THEN blind' = [sig |-> r.val, blinding |-> ctx.blinding]
                          ELSE blind' = None
  BY <1>2
<1> HIDE DEF signed
<1>3. ASSUME ctx.made = issuerNonce, ctx.hidden = Idx \ K
      PROVE  /\ r.st = IF K \subseteq Idx THEN "ok"
                       ELSE IF Cardinality(K) > N THEN "err" ELSE "panic"
             /\ K \subseteq Idx => Signed(ToUnblinded(r.val, ctx.blinding), Subject)
  <2>1. v = Ok(TRUE)
    BY <1>1, <1>3, ContextAccepted
  <2>2. r = signed
    BY <1>6, <2>1 DEF Ok
  <2> QED
    BY <1>1, <1>3, <2>2, BlindSigned DEF signed
<1>4. BlindSignCompletes'
  BY <1>3, <1>6 DEF BlindSignCompletes
<1>5. ASSUME blind' # None PROVE Signed(ToUnblinded(blind'.sig, blind'.blinding), Subject)
  <2>1. r.st = "ok" /\ blind' = [sig |-> r.val, blinding |-> ctx.blinding]
    BY <1>5, <1>6
  <2>2. FreshInv /\ issue'.st = "ok"
    BY <1>6, <2>1 DEF CredentialInv
  <2>3. ctx.made = issuerNonce /\ ctx.hidden = Idx \ K
    BY <2>2, BlindSignSound
  <2>4. K \subseteq Idx
    BY <1>3, <2>1, <2>3
  <2> QED
    BY <1>3, <2>1, <2>3, <2>4
<1> QED
  BY <1>4, <1>5
--------------------------------------------------------------------------------
(* Showing the credentials. *)

(* A sequence with one element more. *)
LEMMA AppendSequence ==
  ASSUME NEW s, Sequence(s), NEW x
  PROVE  /\ Sequence(Append(s, x)) /\ Len(Append(s, x)) = Len(s) + 1
         /\ DOMAIN Append(s, x) = 1..(Len(s) + 1) /\ DOMAIN s = 1..Len(s)
         /\ \A k \in 1..Len(s) : Append(s, x)[k] = s[k]
         /\ Append(s, x)[Len(s) + 1] = x
<1>1. PICK n \in Nat : n = Len(s) /\ s = [k \in 1..n |-> s[k]]
  BY DEF Sequence
<1>2. PICK T : T = {s[k] : k \in 1..n} \union {x}
  OBVIOUS
<1>3. s \in Seq(T) /\ x \in T
  <2>1. \A k \in 1..n : s[k] \in T
    BY <1>2
  <2> QED
    BY <1>1, <1>2, <2>1
<1>4. PICK t : t = Append(s, x)
  OBVIOUS
<1>5. /\ t \in Seq(T) /\ Len(t) = n + 1 /\ t[n + 1] = x /\ \A k \in 1..n : t[k] = s[k]
  <2>1. /\ Append(s, x) \in Seq(T) /\ Len(Append(s, x)) = Len(s) + 1
        /\ \A k \in 1..Len(s) : Append(s, x)[k] = s[k]
        /\ Append(s, x)[Len(s) + 1] = x
    BY ONLY <1>3, AppendProperties
  <2> QED
    BY <1>1, <1>4, <2>1
<1>6. Sequence(t) /\ DOMAIN t = 1..(n + 1)
  BY <1>5 DEF Sequence
<1>7. DOMAIN s = 1..n
  BY <1>1
<1> QED
  BY <1>1, <1>4, <1>5, <1>6, <1>7

(* The k-th credential, and whatever the prover reveals of it. *)
LEMMA ToProve ==
  ASSUME CredentialInv, keys # None, NEW k \in DOMAIN wallet, NEW V
  PROVE  /\ Provable(wallet[k], ProofMessages(k, V), Drawn(k), keys.vk, keys.sk, N)
         /\ DOMAIN keys.vk.h = Idx /\ Subjects[k] \in [Idx -> Fr]
         /\ LinkBlinding \in Fr /\ Challenges[1] \in Fr
<1>1. /\ keys.sk \in SecretKeys /\ keys.vk = TheKey(keys.sk) /\ seed \in Seeds
      /\ wallet \in Seq([a : Fr, e : Fr, s : Fr]) /\ Len(wallet) <= Len(Subjects)
      /\ Signed(wallet[k], Subjects[k])
  BY DEF CredentialInv, KeysInv, TypeOK, SignedInv
<1>2. /\ GoodKey(keys.vk, keys.sk, N) /\ N \in Nat \ {0} /\ Idx = 0..(N - 1)
      /\ LinkBlinding \in Fr /\ Challenges[1] \in Fr
  BY <1>1, TheKeyIs, CredentialAssumption, RandomAssumption DEF Idx
<1>3. k \in 1..Len(Subjects) /\ k \in 0..Len(seed.draws)
  <2>1. k \in 1..Len(wallet) /\ Len(wallet) \in Nat
    BY <1>1
  <2>2. Len(Subjects) \in Nat /\ Len(seed.draws) \in Nat /\ Len(Subjects) <= Len(seed.draws)
    BY <1>1, SeedFacts
  <2> QED
    BY <1>1, <2>1, <2>2
<1>4. Subjects[k] \in [Idx -> Fr]
  BY <1>1, <1>3, SeedFacts
<1> DEFINE pms == ProofMessages(k, V)
<1>5. /\ DOMAIN pms = 0..(N - 1)
      /\ \A i \in 0..(N - 1) : pms[i].m = Subjects[k][i] /\ pms[i].blinding = LinkBlinding
  BY <1>2 DEF ProofMessages
<1> HIDE DEF pms
<1>6. Messages(pms) = Subjects[k]
  BY <1>2, <1>4, <1>5 DEF Messages, GetMessage
<1>7. \A i \in 0..(N - 1) : pms[i].m \in Fr /\ pms[i].blinding \in Fr
  BY <1>2, <1>4, <1>5
<1>8. Drawn(k) \in Seq(Fr \ {0}) /\ Len(Drawn(k)) >= N + 6
  <2>1. Drawn(k) \in Seq(Fr \ {0}) /\ Len(Drawn(k)) = Len(seed.draws)
    BY <1>1, <1>3, DrawnIs
  <2> QED
    BY <1>1, <2>1, SeedFacts
<1>9. Provable(wallet[k], pms, Drawn(k), keys.vk, keys.sk, N)
  BY <1>1, <1>2, <1>5, <1>6, <1>7, <1>8 DEF Provable, Signed
<1> QED
  BY <1>2, <1>4, <1>9, TheKeyIs DEF GoodKey, pms

(* What a proof was made of. *)
LEMMA ProofMade ==
  ASSUME CredentialInv, shown # None, NEW k \in DOMAIN requests
  PROVE  /\ keys # None /\ DOMAIN keys.vk.h = Idx /\ DOMAIN poks = DOMAIN requests
         /\ requests[k].verification_key = keys.vk /\ Subjects[k] \in [Idx -> Fr]
         /\ Challenges[1] \in Fr
         /\ \E V \in RevealSets :
              /\ Provable(wallet[k], ProofMessages(k, V), Drawn(k), keys.vk, keys.sk, N)
              /\ Committed(poks[k], wallet[k], ProofMessages(k, V), Drawn(k), keys.vk,
                           Challenges[1])
              /\ shown.proofs[k] = [revealed_messages |-> RevealedMessages(ProofMessages(k, V)),
                     proof |-> PoKOfSignatureGenProof(poks[k], Challenges[1]).val]
<1>1. /\ Sequence(requests) /\ Sequence(poks) /\ Len(poks) = Len(requests)
      /\ requests[k].verification_key = keys.vk
      /\ Len(requests) <= Len(wallet) /\ wallet \in Seq([a : Fr, e : Fr, s : Fr])
      /\ keys = None => wallet = << >>
  BY DEF CredentialInv, KeysInv, ShownInv, TypeOK
<1>2. DOMAIN poks = DOMAIN requests /\ DOMAIN requests = 1..Len(requests) /\ Len(requests) \in Nat
  BY <1>1 DEF Sequence
<1>3. k \in DOMAIN wallet
  <2>1. k \in 1..Len(requests) /\ Len(wallet) \in Nat /\ DOMAIN wallet = 1..Len(wallet)
    BY <1>1, <1>2
  <2> QED
    BY <1>1, <1>2, <2>1
<1>4. keys # None
  BY <1>1, <1>3
<1>5. PICK V \in RevealSets : poks[k] = Commitment(k, V).val
  BY <1>2 DEF CredentialInv, ShownInv
<1> DEFINE pms == ProofMessages(k, V)
           g == PoKOfSignatureGenProof(poks[k], Challenges[1])
<1>6. /\ Provable(wallet[k], pms, Drawn(k), keys.vk, keys.sk, N)
      /\ DOMAIN keys.vk.h = Idx /\ Subjects[k] \in [Idx -> Fr] /\ Challenges[1] \in Fr
  BY <1>3, <1>4, ToProve
<1> HIDE DEF pms
<1>7. Committed(poks[k], wallet[k], pms, Drawn(k), keys.vk, Challenges[1])
  <2>1. poks[k] = PoKOfSignatureInit(wallet[k], keys.vk, pms, Drawn(k)).val
    BY <1>5 DEF Commitment, pms
  <2> QED
    BY <1>6, <2>1, InitCommits
<1>8. shown.proofs[k] = [revealed_messages |-> poks[k].revealed_messages, proof |-> g.val]
  BY <1>2 DEF CredentialInv, ShownInv
<1>9. poks[k].revealed_messages = RevealedMessages(pms)
  BY <1>7 DEF Committed
<1> HIDE DEF g
<1>10. shown.proofs[k] = [revealed_messages |-> RevealedMessages(pms), proof |-> g.val]
  BY <1>8, <1>9
<1> QED
  BY <1>1, <1>2, <1>4, <1>6, <1>7, <1>10 DEF pms, g

(* The proof that was made of a commitment. *)
LEMMA ProofOf ==
  ASSUME CredentialInv, shown # None, NEW k \in DOMAIN requests
  PROVE  /\ keys # None /\ DOMAIN keys.vk.h = Idx /\ DOMAIN poks = DOMAIN requests
         /\ requests[k].verification_key = keys.vk /\ Subjects[k] \in [Idx -> Fr]
         /\ \E V \in RevealSets : LET pms == ProofMessages(k, V)
                                      g == PoKOfSignatureGenProof(poks[k], Challenges[1])
                                  IN  /\ shown.proofs[k].revealed_messages = RevealedMessages(pms)
                                      /\ shown.proofs[k].proof = g.val
                                      /\ Shows(g, poks[k], pms, keys.vk, Challenges[1])
<1>1. PICK V \in RevealSets :
        /\ Provable(wallet[k], ProofMessages(k, V), Drawn(k), keys.vk, keys.sk, N)
        /\ Committed(poks[k], wallet[k], ProofMessages(k, V), Drawn(k), keys.vk, Challenges[1])
        /\ shown.proofs[k] = [revealed_messages |-> RevealedMessages(ProofMessages(k, V)),
                              proof |-> PoKOfSignatureGenProof(poks[k], Challenges[1]).val]
  BY ProofMade
<1>2. /\ keys # None /\ DOMAIN keys.vk.h = Idx /\ DOMAIN poks = DOMAIN requests
      /\ requests[k].verification_key = keys.vk /\ Subjects[k] \in [Idx -> Fr]
      /\ Challenges[1] \in Fr
  BY ProofMade
<1>3. PICK pms, g : pms = ProofMessages(k, V) /\ g = PoKOfSignatureGenProof(poks[k], Challenges[1])
  OBVIOUS
<1>4. Shows(g, poks[k], pms, keys.vk, Challenges[1])
  BY <1>1, <1>2, <1>3, ProofShows
<1>5. /\ shown.proofs[k].revealed_messages = RevealedMessages(pms)
      /\ shown.proofs[k].proof = g.val
  BY <1>1, <1>3
<1> QED
  BY <1>2, <1>3, <1>4, <1>5

(* The verifier accepts what was made for its requests, nonce and claims. *)
LEMMA VerifyStep ==
  ASSUME CredentialInv, NEW cl, VerifySignaturePok(cl)
  PROVE  ShowCompletes'
<1> SUFFICES ASSUME Agreed' PROVE \A k \in DOMAIN requests' : Accepted(k)'
  BY DEF ShowCompletes
<1>1. shown # None /\ UNCHANGED <<requests, poks, shown, oracle>>
  BY DEF VerifySignaturePok
<1> DEFINE part(k) == BytesForChallenge(shown.proofs[k].proof, requests[k].revealed_messages,
                                        requests[k].verification_key)
           q == ChallengeHashBytes([k \in DOMAIN requests |-> part(k)], verifierNonce, cl)
           r(k) == PoKOfSignatureVerify(shown.proofs[k].proof, requests[k].verification_key,
                                        shown.proofs[k].revealed_messages, Answer(oracle, q))
<1>2. verdict' = [status |-> [k \in DOMAIN requests |-> r(k)], claims |-> cl,
                  now |-> verifierNonce]
  BY DEF VerifySignaturePok
<1>3. /\ shown.made = verifierNonce /\ shown.claims = cl
      /\ \A k \in DOMAIN requests : DOMAIN shown.proofs[k].revealed_messages
                                      = requests[k].revealed_messages \intersect Idx
  BY <1>1, <1>2 DEF Agreed, Matches
<1>4. ASSUME NEW k \in DOMAIN requests
      PROVE  /\ part(k) = PoKOfSignatureBytes(poks[k])
             /\ PoKOfSignatureVerify(shown.proofs[k].proof, requests[k].verification_key,
                                     shown.proofs[k].revealed_messages, Challenges[1])
                  = Ok("Success")
  <2>1. /\ requests[k].verification_key = keys.vk /\ DOMAIN keys.vk.h = Idx
        /\ \E V \in RevealSets : LET pms == ProofMessages(k, V)
                                     g == PoKOfSignatureGenProof(poks[k], Challenges[1])
                                 IN  /\ shown.proofs[k].revealed_messages = RevealedMessages(pms)
                                     /\ shown.proofs[k].proof = g.val
                                     /\ Shows(g, poks[k], pms, keys.vk, Challenges[1])
    BY <1>1, <1>4, ProofOf
  <2>2. PICK proof, rev : proof = shown.proofs[k].proof /\ rev = shown.proofs[k].revealed_messages
    OBVIOUS
  <2>3. /\ PoKOfSignatureVerify(proof, keys.vk, rev, Challenges[1]) = Ok("Success")
        /\ PoKOfSignatureBytes(poks[k]) = BytesForChallenge(proof, DOMAIN rev, keys.vk)
    BY <2>1, <2>2 DEF Shows
  <2>4. Idx \ requests[k].revealed_messages = Idx \ DOMAIN rev
    BY <1>3, <2>2
  <2>5. BytesForChallenge(proof, DOMAIN rev, keys.vk)
          = BytesForChallenge(proof, requests[k].revealed_messages, keys.vk)
    BY <2>1, <2>4 DEF BytesForChallenge
  <2> QED
    BY <2>1, <2>2, <2>3, <2>5
<1> HIDE DEF part
<1>5. oracle = <<q>>
  <2>1. oracle = <<ChallengeHashBytes([k \in DOMAIN poks |-> PoKOfSignatureBytes(poks[k])],
                                      verifierNonce, cl)>>
    BY <1>1, <1>3 DEF CredentialInv, ShownInv
  <2>2. DOMAIN poks = DOMAIN requests
    BY <1>1 DEF CredentialInv, ShownInv, KeysInv, Sequence
  <2>3. [k \in DOMAIN poks |-> PoKOfSignatureBytes(poks[k])] = [k \in DOMAIN requests |-> part(k)]
    BY <1>4, <2>2
  <2> QED
    BY <2>1, <2>3
<1> HIDE DEF q
<1>6. Answer(oracle, q) = Challenges[1]
  BY <1>5, AnswerOfOne
<1>7. \A k \in DOMAIN requests : verdict'.status[k] = Ok("Success")
  BY <1>2, <1>4, <1>6
<1> QED
  BY <1>1, <1>7 DEF Accepted

(* What two proofs answer for two messages hidden by the same blinding. *)
LEMMA AnswersCompare ==
  ASSUME NEW b \in Fr, NEW c \in Fr \ {0}, NEW x \in Fr, NEW y \in Fr,
         Minus(b, Times(c, x)) = Minus(b, Times(c, y))
  PROVE  x = y
<1>1. PICK u \in Fr, v \in Fr, d \in Fr : u = Times(c, x) /\ v = Times(c, y) /\ d = Minus(b, u)
  BY ScalarTypes
<1>2. d = b - u \/ d = b - u + R
  BY <1>1, Linear
<1>3. d = b - v \/ d = b - v + R
  BY <1>1, Linear
<1>4. u = v
  <2>1. /\ R \in Int /\ b \in Int /\ u \in Int /\ v \in Int /\ 0 <= u /\ u < R
        /\ 0 <= v /\ v < R
    BY DivMod
  <2> QED
    BY ONLY <1>2, <1>3, <2>1
<1>5. PICK i \in Fr : Times(c, i) = One
  BY Inverts
<1>6. Times(i, c) = One
  BY <1>5, Commutes
<1>7. x = Times(i, u) /\ y = Times(i, v)
  <2>1. Times(Times(i, c), x) = Times(i, u) /\ Times(Times(i, c), y) = Times(i, v)
    BY <1>1, Associates
  <2> QED
    BY <1>6, <2>1, Neutral
<1> QED
  BY <1>4, <1>7

(* The response at the place of the linked message is the one made for it. *)
LEMMA LinkAnswer ==
  ASSUME CredentialInv, shown # None, NEW k \in DOMAIN requests, LinkHidden(k)
  PROVE  RespForMessage(shown.proofs[k].proof, HiddenPosition(k))
           = Ok(Minus(LinkBlinding, Times(Challenges[1], Subjects[k][Link])))
<1>1. PICK V, pms, g, proof :
        /\ pms = ProofMessages(k, V) /\ g = PoKOfSignatureGenProof(poks[k], Challenges[1])
        /\ proof = g.val /\ shown.proofs[k].proof = proof
        /\ shown.proofs[k].revealed_messages = RevealedMessages(pms)
        /\ Shows(g, poks[k], pms, keys.vk, Challenges[1])
  <2>1. \E V \in RevealSets : LET pms == ProofMessages(k, V)
                                  g == PoKOfSignatureGenProof(poks[k], Challenges[1])
                              IN  /\ shown.proofs[k].revealed_messages = RevealedMessages(pms)
                                  /\ shown.proofs[k].proof = g.val
                                  /\ Shows(g, poks[k], pms, keys.vk, Challenges[1])
    BY ProofOf
  <2> QED
    BY <2>1
<1>2. PICK T : T = Hidden(pms)
  OBVIOUS
<1>3. DOMAIN pms = Idx /\ \A i \in Idx : /\ pms[i].m = Subjects[k][i]
                                        /\ pms[i].blinding = LinkBlinding
                                        /\ pms[i].kind = IF i \in V THEN "revealed"
                                             ELSE IF i = Link THEN "external" ELSE "specific"
  BY <1>1 DEF ProofMessages
<1>4. Link \in Idx
  BY CredentialAssumption
<1>5. /\ T = Idx \ DOMAIN shown.proofs[k].revealed_messages
      /\ Link \in T /\ pms[Link].kind = "external"
  <2>1. DOMAIN shown.proofs[k].revealed_messages = Revealed(pms)
    BY <1>1 DEF RevealedMessages
  <2>2. T = Idx \ Revealed(pms) /\ Link \notin Revealed(pms)
    BY <1>2, <1>3, <2>1 DEF Hidden, LinkHidden
  <2>3. pms[Link].kind # "revealed"
    BY <1>3, <1>4, <2>2 DEF Revealed
  <2> QED
    BY <1>3, <1>4, <2>1, <2>2, <2>3
<1>6. T \subseteq Int /\ IsFiniteSet(T)
  BY <1>5, IdxFinite
<1> DEFINE below == {i \in T : i < Link}
           resp == proof.proof_vc_2.responses
<1>7. HiddenPosition(k) = Cardinality(below)
  BY <1>5 DEF HiddenPosition
<1>8. Cardinality(below) \in Nat /\ Rank(T, Link) = Cardinality(below) + 1
  <2>1. IsFiniteSet(below) /\ Link \notin below
    <3>1. below \subseteq T /\ ~(Link < Link)
      BY <1>5, <1>6
    <3> QED
      BY <1>6, <3>1, FS_Subset
  <2>2. {j \in T : j <= Link} = below \union {Link}
    BY <1>5, <1>6
  <2>3. Cardinality(below \union {Link}) = Cardinality(below) + 1
    BY <2>1, FS_AddElement
  <2> QED
    BY <2>1, <2>2, <2>3, FS_CardinalityType DEF Rank
<1>9. /\ Rank(T, Link) \in 1..Cardinality(T) /\ Cardinality(T) \in Nat
  BY <1>5, <1>6, RankIsPosition, FS_CardinalityType
<1>10. /\ Len(resp) = Cardinality(T) + 2
       /\ resp[Rank(T, Link) + 2] = Minus(LinkBlinding, Times(Challenges[1], Subjects[k][Link]))
  BY <1>1, <1>2, <1>3, <1>4, <1>5 DEF Shows
<1> HIDE DEF below, resp
<1>11. /\ ~(Cardinality(below) >= Len(resp) - 2)
       /\ 3 + Cardinality(below) = Rank(T, Link) + 2
  BY <1>8, <1>9, <1>10
<1> QED
  BY <1>1, <1>7, <1>10, <1>11 DEF RespForMessage, resp

(* (From the answers of any two proofs.) *)
LEMMA LinkCompared == CredentialInv => LinkIsCompared
<1> SUFFICES ASSUME CredentialInv, verdict # None,
                    NEW j \in DOMAIN requests, NEW k \in DOMAIN requests,
                    LinkHidden(j), LinkHidden(k)
             PROVE  LET resp(i) == RespForMessage(shown.proofs[i].proof, HiddenPosition(i))
                    IN  /\ resp(j).st = "ok"
                        /\ resp(j) = resp(k) <=> Subjects[j][Link] = Subjects[k][Link]
  BY DEF LinkIsCompared
<1>1. shown # None
  BY DEF CredentialInv, TypeOK
<1> DEFINE at(i) == Minus(LinkBlinding, Times(Challenges[1], Subjects[i][Link]))
<1>2. /\ RespForMessage(shown.proofs[j].proof, HiddenPosition(j)) = Ok(at(j))
      /\ RespForMessage(shown.proofs[k].proof, HiddenPosition(k)) = Ok(at(k))
  BY <1>1, LinkAnswer
<1>3. /\ Subjects[j][Link] \in Fr /\ Subjects[k][Link] \in Fr
      /\ LinkBlinding \in Fr /\ Challenges[1] \in Fr \ {0}
  BY <1>1, ProofOf, CredentialAssumption, RandomAssumption
<1>4. at(j) = at(k) <=> Subjects[j][Link] = Subjects[k][Link]
  BY <1>3, AnswersCompare
<1> HIDE DEF at
<1> QED
  BY <1>2, <1>4 DEF Ok

--------------------------------------------------------------------------------
(* The steps that make what the invariant speaks of. *)

(* A new context is the one for its messages, and its string the only one asked. *)
LEMMA ContextMade ==
  ASSUME CredentialInv, NEW H, ProverNewContext(H)
  PROVE  ContextInv'
<1> DEFINE blinding == Drawn(1)[1]
           draws == Drawn(2)
<1>1. PICK q, r, c :
        /\ q = ContextBytes(keys.vk, MapOn(H), issuerNonce, blinding, draws)
        /\ c = IF H \subseteq Idx THEN Answer(<< >>, q) ELSE 0
        /\ r = NewBlindSignatureContext(keys.vk, MapOn(H), blinding, draws, c)
  OBVIOUS
<1>2. /\ UNCHANGED <<seed, keys, wallet, requests>> /\ Issuing /\ blind' = None
      /\ oracle' = IF H \subseteq Idx THEN <<q>> ELSE << >>
      /\ ctx' = IF r.st = "ok"
                THEN [val |-> r.val, blinding |-> blinding, hidden |-> H,
                      made |-> issuerNonce]
                ELSE None
  BY <1>1 DEF ProverNewContext, showVars
<1> SUFFICES ASSUME ctx' # None
             PROVE  /\ requests' = << >> /\ Len(wallet') < Len(Subjects') /\ blind' = None
                    /\ ctx'.blinding = Drawn(1)'[1]
                    /\ ctx'.val = NewBlindSignatureContext(keys'.vk, MapOn(ctx.hidden)',
                                    ctx'.blinding, Drawn(2)', Challenges[1]).val
                    /\ oracle' = <<ContextBytes(keys'.vk, MapOn(ctx.hidden)', ctx'.made,
                                                ctx'.blinding, Drawn(2)')>>
  BY DEF ContextInv
<1>3. /\ r.st = "ok" /\ ctx'.val = r.val /\ ctx'.blinding = blinding
      /\ ctx'.hidden = H /\ ctx'.made = issuerNonce
  BY <1>2
<1>4. H \subseteq Idx
  <2> SUFFICES ASSUME ~(H \subseteq Idx) PROVE FALSE
    OBVIOUS
  <2>1. DOMAIN MapOn(H) = H /\ DOMAIN keys.vk.h = Idx
    BY <1>2, Issued DEF MapOn
  <2>2. r = ContextIndexError(H, keys.vk)
    BY <1>1, <2>1 DEF NewBlindSignatureContext
  <2> QED
    BY <1>3, <2>2 DEF ContextIndexError, Panic, Err
<1>5. c = Challenges[1] /\ oracle' = <<q>>
  BY <1>1, <1>2, <1>4, AnswerOfOne
<1>6. /\ Drawn(1)' = Drawn(1) /\ Drawn(2)' = Drawn(2) /\ MapOn(ctx.hidden)' = MapOn(H)
      /\ Subjects' = Subjects
  BY <1>2, <1>3 DEF Drawn, MapOn, Subject, Subjects
<1>7. requests = << >> /\ Len(wallet) < Len(Subjects)
  BY <1>2 DEF Issuing
<1> QED
  BY <1>1, <1>2, <1>3, <1>5, <1>6, <1>7

(* The verifier asks with the issuer's key. *)
LEMMA RequestMade ==
  ASSUME CredentialInv, NEW S, NewProofRequest(S)
  PROVE  /\ Sequence(requests') /\ Len(requests') = Len(requests) + 1
         /\ \A k \in DOMAIN requests' : requests'[k].verification_key = keys.vk
<1>1. keys # None /\ keys.sk \in SecretKeys /\ keys.vk = TheKey(keys.sk)
      /\ Sequence(requests) /\ \A k \in DOMAIN requests : requests[k].verification_key = keys.vk
  BY DEF NewProofRequest, Showing, CredentialInv, KeysInv
<1> DEFINE w == keys.vk.w
           derived == ToPublicKey(w, N, HashToG1(w)).val
<1>2. derived = keys.vk
  <2>1. w = keys.sk
    BY <1>1, TheKeyIs
  <2> QED
    BY <1>1, <2>1, DerivedKey
<1>3. PICK r : r.verification_key = keys.vk /\ requests' = Append(requests, r)
  <2>1. requests' = Append(requests, [revealed_messages |-> S,
                      verification_key |-> IF keys.short THEN derived ELSE keys.vk])
    BY DEF NewProofRequest
  <2> QED
    BY <1>2, <2>1
<1>4. /\ Sequence(requests') /\ Len(requests') = Len(requests) + 1
      /\ DOMAIN requests' = 1..(Len(requests) + 1) /\ DOMAIN requests = 1..Len(requests)
      /\ \A k \in 1..Len(requests) : requests'[k] = requests[k]
      /\ requests'[Len(requests) + 1] = r
  BY <1>1, <1>3, AppendSequence
<1>5. ASSUME NEW k \in DOMAIN requests' PROVE requests'[k].verification_key = keys.vk
  <2>1. Len(requests) \in Nat
    BY <1>1 DEF Sequence
  <2>2. k \in 1..Len(requests) \/ k = Len(requests) + 1
    BY <1>4, <1>5, <2>1
  <2> QED
    BY <1>1, <1>3, <1>4, <2>2
<1> QED
  BY <1>4, <1>5

(* The commitment the prover adds is one that init makes. *)
LEMMA CommitMade ==
  ASSUME CredentialInv, NEW V \in RevealSets, CommitSignaturePok(V)
  PROVE  /\ Sequence(poks') /\ Len(poks') = Len(poks) + 1
         /\ \A k \in DOMAIN poks' : \E W \in RevealSets : poks'[k] = Commitment(k, W).val
<1>1. /\ Sequence(poks) /\ Sequence(requests) /\ Len(poks) < Len(requests)
      /\ \A k \in DOMAIN poks : \E W \in RevealSets : poks[k] = Commitment(k, W).val
      /\ \A k \in DOMAIN requests : requests[k].verification_key = keys.vk
  BY DEF CredentialInv, ShownInv, KeysInv, CommitSignaturePok
<1>2. /\ Len(poks) \in Nat /\ Len(requests) \in Nat /\ DOMAIN requests = 1..Len(requests)
  BY <1>1 DEF Sequence
<1> DEFINE k == Len(poks) + 1
           r == PoKOfSignatureInit(wallet[k], requests[k].verification_key,
                                   ProofMessages(k, V), Drawn(k))
<1>3. poks' = Append(poks, r.val)
  BY DEF CommitSignaturePok
<1>4. r = Commitment(k, V)
  <2>1. k \in DOMAIN requests
    BY <1>1, <1>2
  <2> QED
    BY <1>1, <2>1 DEF Commitment
<1> HIDE DEF r
<1>5. /\ Sequence(poks') /\ Len(poks') = k
      /\ DOMAIN poks' = 1..k /\ DOMAIN poks = 1..Len(poks)
      /\ \A i \in 1..Len(poks) : poks'[i] = poks[i]
      /\ poks'[k] = r.val
  BY <1>1, <1>3, AppendSequence
<1>6. ASSUME NEW i \in DOMAIN poks'
      PROVE  \E W \in RevealSets : poks'[i] = Commitment(i, W).val
  <2>1. i \in 1..Len(poks) \/ i = k
    BY <1>2, <1>5
  <2>2. CASE i \in 1..Len(poks)
    BY <1>1, <1>5, <2>2
  <2>3. CASE i = k
    BY <1>4, <1>5, <2>3
  <2> QED
    BY <2>1, <2>2, <2>3
<1> QED
  BY <1>5, <1>6

(* The proofs are made of the commitments, for the first string asked. *)
LEMMA ProofsMade ==
  ASSUME CredentialInv, NEW cl \in Claims, GenerateSignaturePok(cl)
  PROVE  /\ ShownInv' /\ Len(shown'.proofs) = Len(requests)
<1> DEFINE q == ChallengeHashBytes([k \in DOMAIN poks |-> PoKOfSignatureBytes(poks[k])],
                                   verifierNonce, cl)
           proofs == [k \in DOMAIN poks |->
                        [revealed_messages |-> poks[k].revealed_messages,
                         proof |-> PoKOfSignatureGenProof(poks[k], Challenges[1]).val]]
<1>1. /\ UNCHANGED <<seed, keys, wallet, requests, poks>>
      /\ oracle' = <<q>> /\ poks # << >> /\ Len(poks) = Len(requests)
  BY DEF GenerateSignaturePok, issueVars
<1>2. Answer(<< >>, q) = Challenges[1]
  BY AnswerOfOne
<1>3. shown' = [proofs |-> proofs, claims |-> cl, made |-> verifierNonce]
  BY <1>2 DEF GenerateSignaturePok
<1>4. shown'.proofs = proofs /\ shown'.claims = cl /\ shown'.made = verifierNonce
  BY <1>3
<1>5. /\ Sequence(poks)
      /\ \A k \in DOMAIN poks : \E V \in RevealSets : poks[k] = Commitment(k, V).val
  BY DEF CredentialInv, ShownInv
<1>6. \A k, V : Commitment(k, V)' = Commitment(k, V)
  BY <1>1 DEF Commitment, ProofMessages, Drawn, Subjects
<1>7. ShownInv'
  BY <1>1, <1>4, <1>5, <1>6 DEF ShownInv
<1>8. Len(proofs) = Len(poks)
  BY <1>5 DEF Sequence
<1> QED
  BY <1>1, <1>4, <1>7, <1>8

--------------------------------------------------------------------------------
(* The invariant is inductive. *)

(* All of it but FreshInv. *)
RestInv ==
  /\ seed \in Seeds /\ TypeOK
  /\ KeysInv /\ ContextInv /\ SignedInv /\ ShownInv
  /\ BlindSignCompletes /\ SignatureCompletes /\ ShowCompletes

(* While credentials are issued nothing is shown. *)
LEMMA NothingShown ==
  ASSUME CredentialInv, Len(requests) = 0
  PROVE  poks = << >> /\ shown = None /\ verdict = None
<1>1. Sequence(poks) /\ Len(poks) <= Len(requests)
  BY DEF CredentialInv, ShownInv, TypeOK
<1>2. (shown # None => poks # << >>) /\ (verdict # None => shown # None)
  BY DEF CredentialInv, ShownInv, TypeOK
<1>3. Len(poks) \in Nat
  BY <1>1 DEF Sequence
<1>4. Len(poks) = 0
  BY <1>1, <1>3
<1>5. poks = [k \in 1..Len(poks) |-> poks[k]]
  BY <1>1 DEF Sequence
<1>6. poks = << >>
  BY <1>4, <1>5
<1> QED
  BY <1>2, <1>6

(* A nonce is renewed, or nothing changes. *)
LEMMA NonceStep ==
  ASSUME CredentialInv, issuerNonce' \in Nonces, verifierNonce' \in Nonces,
         UNCHANGED <<seed, keys, oracle, ctx, blind, issue, complete, wallet, requests,
                     poks, shown, verdict>>
  PROVE  RestInv'
<1>1. seed' \in Seeds /\ TypeOK'
  BY DEF CredentialInv, TypeOK, Subjects
<1>2. KeysInv'
  BY DEF CredentialInv, KeysInv
<1>3. ContextInv'
  BY DEF CredentialInv, ContextInv, Drawn, MapOn, Subject, Subjects
<1>4. SignedInv'
  BY DEF CredentialInv, SignedInv, Signed, Subject, Subjects
<1>5. ShownInv'
  BY DEF CredentialInv, ShownInv, Commitment, ProofMessages, Drawn, Subjects
<1>6. BlindSignCompletes' /\ SignatureCompletes' /\ ShowCompletes'
  BY DEF CredentialInv, BlindSignCompletes, SignatureCompletes, ShowCompletes, Agreed,
         Matches, Accepted
<1> QED
  BY <1>1, <1>2, <1>3, <1>4, <1>5, <1>6 DEF RestInv

(* The keys are made before there is anything else. *)
LEMMA KeysStep ==
  ASSUME CredentialInv, NEW sk \in SecretKeys, NewKeys(sk)
  PROVE  RestInv'
<1>1. /\ UNCHANGED <<seed, oracle, issueVars, showVars>> /\ keys = None
      /\ keys'.sk = sk /\ keys'.vk = TheKey(sk)
  BY NewKeysStep DEF NewKeys
<1>2. UNCHANGED <<ctx, blind, issue, complete, wallet, issuerNonce, requests, poks, shown,
                  verdict, verifierNonce>>
  BY <1>1 DEF issueVars, showVars
<1>3. ctx = None /\ blind = None /\ wallet = << >> /\ Sequence(requests)
      /\ Len(requests) <= Len(wallet)
  BY <1>1 DEF CredentialInv, KeysInv, TypeOK
<1>4. Len(requests) = 0 /\ DOMAIN requests = {}
  BY <1>3 DEF Sequence
<1>5. poks = << >> /\ shown = None /\ verdict = None
  BY <1>4, NothingShown
<1>6. seed' \in Seeds /\ TypeOK'
  BY <1>1, <1>2 DEF CredentialInv, TypeOK, Subjects
<1>7. KeysInv'
  BY <1>1, <1>2, <1>3, <1>4 DEF KeysInv
<1>8. ContextInv' /\ SignedInv'
  BY <1>2, <1>3 DEF ContextInv, SignedInv
<1>9. ShownInv'
  <2>1. Sequence(poks') /\ DOMAIN poks' = {}
    BY <1>2, <1>5 DEF CredentialInv, ShownInv
  <2> QED
    BY <1>2, <1>5, <2>1 DEF ShownInv
<1>10. BlindSignCompletes' /\ SignatureCompletes' /\ ShowCompletes'
  BY <1>2, <1>5 DEF CredentialInv, BlindSignCompletes, SignatureCompletes, ShowCompletes
<1> QED
  BY <1>6, <1>7, <1>8, <1>9, <1>10 DEF RestInv

(* The steps of issuing leave what is shown as it was: nothing. *)
LEMMA ShowIdle ==
  ASSUME CredentialInv, Issuing, UNCHANGED showVars
  PROVE  /\ UNCHANGED <<requests, poks, shown, verdict, verifierNonce>>
         /\ ShownInv' /\ ShowCompletes' /\ requests' = << >>
         /\ verdict' = None /\ shown' = None /\ Len(poks') = 0 /\ Len(requests') = 0
<1>1. UNCHANGED <<requests, poks, shown, verdict, verifierNonce>> /\ requests = << >>
  BY DEF showVars, Issuing
<1>2. poks = << >> /\ shown = None /\ verdict = None
  BY <1>1, NothingShown
<1>3. Sequence(poks) /\ DOMAIN poks = {} /\ Len(poks) = 0
  BY <1>2 DEF Sequence
<1>4. ShownInv' /\ ShowCompletes'
  BY <1>1, <1>2, <1>3 DEF ShownInv, ShowCompletes
<1> QED
  BY <1>1, <1>2, <1>3, <1>4

(* The other variables of issuing follow the context. *)
LEMMA NewContextStep ==
  ASSUME CredentialInv, NEW H, ProverNewContext(H)
  PROVE  RestInv'
<1>1. /\ Issuing /\ UNCHANGED <<seed, keys, issuerNonce, blind, wallet, showVars>>
      /\ issue' = None /\ complete' = None
  BY DEF ProverNewContext
<1>2. /\ ShownInv' /\ ShowCompletes' /\ verdict' = None /\ shown' = None
      /\ UNCHANGED <<requests, poks, verifierNonce>>
  BY <1>1, ShowIdle
<1>3. seed' \in Seeds /\ TypeOK'
  BY <1>1, <1>2 DEF CredentialInv, TypeOK, Subjects
<1>4. KeysInv' /\ ContextInv'
  BY <1>1, <1>2, ContextMade DEF CredentialInv, KeysInv, Issuing
<1>5. SignedInv'
  BY <1>1, <1>2 DEF CredentialInv, SignedInv, Signed, Subject, Subjects
<1>6. BlindSignCompletes' /\ SignatureCompletes'
  BY <1>1 DEF BlindSignCompletes, SignatureCompletes
<1> QED
  BY <1>2, <1>3, <1>4, <1>5, <1>6 DEF RestInv

(* A blind signature takes the place of the context. *)
LEMMA BlindStep ==
  ASSUME CredentialInv, NEW K \in KnownSets, BlindSign(K)
  PROVE  RestInv'
<1>1. /\ Issuing /\ UNCHANGED <<seed, keys, issuerNonce, complete, wallet, showVars>>
      /\ ctx' = None
  BY DEF BlindSign
<1>2. /\ ShownInv' /\ ShowCompletes' /\ verdict' = None /\ shown' = None
      /\ UNCHANGED <<requests, poks, verifierNonce>> /\ requests' = << >>
  BY <1>1, ShowIdle
<1>3. seed' \in Seeds /\ TypeOK'
  BY <1>1, <1>2 DEF CredentialInv, TypeOK, Subjects
<1>4. KeysInv' /\ ContextInv'
  BY <1>1, <1>2 DEF CredentialInv, KeysInv, ContextInv, Issuing
<1>5. /\ BlindSignCompletes'
      /\ blind' # None => Signed(ToUnblinded(blind'.sig, blind'.blinding), Subject)
  BY BlindSignCompleted
<1>6. SignedInv'
  <2>1. Len(wallet) < Len(Subjects) /\ \A k \in DOMAIN wallet : Signed(wallet[k], Subjects[k])
    BY <1>1 DEF CredentialInv, SignedInv, Issuing
  <2> QED
    BY <1>1, <1>2, <1>5, <2>1 DEF SignedInv, Signed, Subject, Subjects
<1>7. SignatureCompletes'
  BY <1>1 DEF CredentialInv, SignatureCompletes
<1> QED
  BY <1>2, <1>3, <1>4, <1>5, <1>6, <1>7 DEF RestInv

(* A credential is added to the wallet. *)
LEMMA WalletStep ==
  ASSUME CredentialInv, Issuing, NEW sig, Signed(sig, Subject), wallet' = Append(wallet, sig),
         UNCHANGED <<seed, keys, issuerNonce, showVars>>, ctx' = None, blind' = None,
         issue' = None, SignatureCompletes'
  PROVE  RestInv'
<1>1. /\ ShownInv' /\ ShowCompletes' /\ verdict' = None /\ shown' = None
      /\ UNCHANGED <<requests, poks, verifierNonce>>
      /\ requests' = << >> /\ Len(poks') = 0 /\ Len(requests') = 0
  BY ShowIdle
<1>2. /\ keys # None /\ GoodKey(keys.vk, keys.sk, N)
      /\ wallet \in Seq([a : Fr, e : Fr, s : Fr])
      /\ Len(wallet) \in Nat /\ Len(wallet) < Len(Subjects)
      /\ Subject \in [Idx -> Fr] /\ Subject = Subjects[Len(wallet) + 1] /\ Idx = 0..(N - 1)
  BY Issued DEF Idx
<1>3. sig \in [a : Fr, e : Fr, s : Fr]
  <2>1. DOMAIN Subject = 0..(N - 1) /\ \A i \in 0..(N - 1) : Subject[i] \in Fr
    BY <1>2
  <2>2. SignedFor(sig, Subject, keys.vk, keys.sk)
    BY DEF Signed
  <2>3. sig.a \in Fr \ {0}
    BY <1>2, <2>1, <2>2, SignedVerifies
  <2> QED
    BY <2>2, <2>3 DEF SignedFor
<1>4. /\ wallet' \in Seq([a : Fr, e : Fr, s : Fr]) /\ Len(wallet') = Len(wallet) + 1
      /\ wallet'[Len(wallet) + 1] = sig /\ \A k \in 1..Len(wallet) : wallet'[k] = wallet[k]
  BY <1>2, <1>3, AppendProperties
<1>5. seed' \in Seeds /\ TypeOK'
  <2>1. seed \in Seeds /\ Len(Subjects) \in Nat /\ Subjects' = Subjects
        /\ issuerNonce \in Nonces /\ verifierNonce \in Nonces
    BY SeedFacts DEF CredentialInv, TypeOK, Subjects
  <2>2. Len(wallet') <= Len(Subjects)
    BY <1>2, <1>4, <2>1
  <2> QED
    BY <1>1, <1>2, <1>4, <2>1, <2>2 DEF TypeOK
<1>6. KeysInv' /\ ContextInv'
  BY <1>1, <1>2 DEF CredentialInv, KeysInv, ContextInv
<1>7. SignedInv'
  <2>1. \A k \in 1..Len(wallet) : Signed(wallet[k], Subjects[k])
    BY <1>2 DEF CredentialInv, SignedInv
  <2>2. \A k \in DOMAIN wallet' : k \in 1..Len(wallet) \/ k = Len(wallet) + 1
    BY <1>2, <1>4
  <2>3. \A k \in DOMAIN wallet' : Signed(wallet'[k], Subjects[k])
    BY <1>2, <1>4, <2>1, <2>2
  <2> QED
    BY <2>3 DEF SignedInv, Signed, Subjects
<1>8. BlindSignCompletes'
  BY DEF BlindSignCompletes
<1> QED
  BY <1>1, <1>5, <1>6, <1>7, <1>8 DEF RestInv

(* A signature goes to the wallet only if it verifies. *)
LEMMA SignsStep ==
  ASSUME CredentialInv, NEW n \in {N - 1, N}, Sign(n)
  PROVE  RestInv'
<1>1. /\ Issuing /\ ctx = None /\ blind = None /\ issue' = None
      /\ UNCHANGED <<seed, keys, issuerNonce, oracle, ctx, blind, showVars>>
  BY DEF Sign
<1>2. /\ SignatureCompletes'
      /\ wallet' = wallet \/ \E sig : wallet' = Append(wallet, sig) /\ Signed(sig, Subject)
  BY SignStep
<1>3. CASE wallet' = wallet
  <2>1. /\ ShownInv' /\ ShowCompletes' /\ verdict' = None /\ shown' = None
        /\ UNCHANGED <<requests, poks, verifierNonce>>
    BY <1>1, ShowIdle
  <2>2. seed' \in Seeds /\ TypeOK'
    BY <1>1, <1>3, <2>1 DEF CredentialInv, TypeOK, Subjects
  <2>3. KeysInv' /\ ContextInv'
    BY <1>1, <1>3, <2>1 DEF CredentialInv, KeysInv, ContextInv
  <2>4. SignedInv'
    BY <1>1, <1>3, <2>1 DEF CredentialInv, SignedInv, Signed, Subjects
  <2>5. BlindSignCompletes'
    BY <1>1 DEF BlindSignCompletes
  <2> QED
    BY <1>2, <2>1, <2>2, <2>3, <2>4, <2>5 DEF RestInv
<1>4. ASSUME NEW sig, wallet' = Append(wallet, sig), Signed(sig, Subject) PROVE RestInv'
  BY <1>1, <1>2, <1>4, WalletStep
<1> QED
  BY <1>2, <1>3, <1>4

(* ... as does a blind one that is completed. *)
LEMMA CompletesStep ==
  ASSUME CredentialInv, CompleteSignature
  PROVE  RestInv'
<1>1. /\ Issuing /\ blind # None /\ blind' = None /\ issue' = None
      /\ UNCHANGED <<seed, keys, issuerNonce, oracle, ctx, showVars>>
  BY DEF CompleteSignature
<1>2. ctx = None
  BY <1>1 DEF CredentialInv, ContextInv
<1>3. PICK sig : wallet' = Append(wallet, sig) /\ Signed(sig, Subject)
  BY CompleteStep
<1>4. SignatureCompletes'
  BY CompleteStep
<1> QED
  BY <1>1, <1>2, <1>3, <1>4, WalletStep

(* The steps of showing leave what was issued as it was. *)
LEMMA IssueIdle ==
  ASSUME CredentialInv, Showing, UNCHANGED <<seed, keys, ctx, blind, wallet>>
  PROVE  ContextInv' /\ SignedInv'
<1>1. ctx = None /\ blind = None
  BY DEF Showing
<1> QED
  BY <1>1 DEF CredentialInv, ContextInv, SignedInv, Signed, Subjects

(* One request more, never more than there are credentials. *)
LEMMA RequestStep ==
  ASSUME CredentialInv, NEW S, NewProofRequest(S)
  PROVE  RestInv'
<1>1. /\ Showing /\ poks = << >> /\ shown = None /\ Len(requests) < Len(wallet)
      /\ issue' = None /\ complete' = None /\ issuerNonce' = FirstNonce
      /\ UNCHANGED <<seed, keys, oracle, ctx, blind, wallet, poks, shown, verdict,
                     verifierNonce>>
  BY DEF NewProofRequest
<1>2. verdict = None
  BY <1>1 DEF CredentialInv, TypeOK
<1>3. /\ Sequence(requests') /\ Len(requests') = Len(requests) + 1
      /\ \A k \in DOMAIN requests' : requests'[k].verification_key = keys.vk
  BY RequestMade
<1>4. Sequence(requests) /\ Sequence(poks) /\ Len(poks) = 0 /\ DOMAIN poks = {}
  BY <1>1 DEF CredentialInv, KeysInv, ShownInv, Sequence
<1>5. seed' \in Seeds /\ TypeOK'
  <2>1. FirstNonce \in Nonces
    BY CredentialAssumption DEF FirstNonce
  <2>2. /\ seed \in Seeds /\ verifierNonce \in Nonces
        /\ wallet \in Seq([a : Fr, e : Fr, s : Fr]) /\ Len(wallet) <= Len(Subjects)
        /\ Subjects' = Subjects
    BY <1>1 DEF CredentialInv, TypeOK, Subjects
  <2>3. Len(requests) \in Nat /\ Len(wallet) \in Nat
    BY <1>4, <2>2 DEF Sequence
  <2>4. Len(requests') <= Len(wallet) /\ Len(poks) <= Len(requests')
    BY <1>1, <1>3, <1>4, <2>3
  <2> QED
    BY <1>1, <1>2, <2>1, <2>2, <2>4 DEF TypeOK
<1>6. KeysInv'
  BY <1>1, <1>3 DEF CredentialInv, KeysInv, Showing
<1>7. ContextInv' /\ SignedInv'
  BY <1>1, IssueIdle
<1>8. ShownInv'
  BY <1>1, <1>4 DEF ShownInv
<1>9. BlindSignCompletes' /\ SignatureCompletes' /\ ShowCompletes'
  BY <1>1, <1>2 DEF BlindSignCompletes, SignatureCompletes, ShowCompletes
<1> QED
  BY <1>5, <1>6, <1>7, <1>8, <1>9 DEF RestInv

(* One commitment more, never more than there are requests. *)
LEMMA CommitStep ==
  ASSUME CredentialInv, NEW V \in RevealSets, CommitSignaturePok(V)
  PROVE  RestInv'
<1>1. /\ Showing /\ shown = None /\ Len(poks) < Len(requests)
      /\ UNCHANGED <<seed, keys, oracle, issueVars, requests, shown, verdict, verifierNonce>>
  BY DEF CommitSignaturePok
<1>2. UNCHANGED <<ctx, blind, issue, complete, wallet, issuerNonce>>
  BY <1>1 DEF issueVars
<1>3. verdict = None
  BY <1>1 DEF CredentialInv, TypeOK
<1>4. /\ Sequence(poks') /\ Len(poks') = Len(poks) + 1
      /\ \A k \in DOMAIN poks' : \E W \in RevealSets : poks'[k] = Commitment(k, W).val
  BY CommitMade
<1>5. seed' \in Seeds /\ TypeOK'
  <2>1. Len(requests) \in Nat /\ Len(poks) \in Nat
    BY DEF CredentialInv, KeysInv, ShownInv, Sequence
  <2>2. Len(poks') <= Len(requests)
    BY <1>1, <1>4, <2>1
  <2> QED
    BY <1>1, <1>2, <1>3, <2>2 DEF CredentialInv, TypeOK, Subjects
<1>6. KeysInv'
  BY <1>1, <1>2 DEF CredentialInv, KeysInv
<1>7. ContextInv' /\ SignedInv'
  BY <1>1, <1>2, IssueIdle
<1>8. ShownInv'
  <2>1. \A k, W : Commitment(k, W)' = Commitment(k, W)
    BY <1>1, <1>2 DEF Commitment, ProofMessages, Drawn, Subjects
  <2> QED
    BY <1>1, <1>4, <2>1 DEF ShownInv
<1>9. BlindSignCompletes' /\ SignatureCompletes' /\ ShowCompletes'
  BY <1>1, <1>2, <1>3 DEF CredentialInv, BlindSignCompletes, SignatureCompletes,
                          ShowCompletes
<1> QED
  BY <1>5, <1>6, <1>7, <1>8, <1>9 DEF RestInv

(* All proofs at once. *)
LEMMA ProofsStep ==
  ASSUME CredentialInv, NEW cl \in Claims, GenerateSignaturePok(cl)
  PROVE  RestInv'
<1>1. /\ Showing /\ shown = None
      /\ UNCHANGED <<seed, keys, issueVars, requests, poks, verdict, verifierNonce>>
  BY DEF GenerateSignaturePok
<1>2. UNCHANGED <<ctx, blind, issue, complete, wallet, issuerNonce>>
  BY <1>1 DEF issueVars
<1>3. verdict = None
  BY <1>1 DEF CredentialInv, TypeOK
<1>4. ShownInv' /\ Len(shown'.proofs) = Len(requests)
  BY ProofsMade
<1>5. seed' \in Seeds /\ TypeOK'
  BY <1>1, <1>2, <1>3, <1>4 DEF CredentialInv, TypeOK, Subjects
<1>6. KeysInv'
  BY <1>1, <1>2 DEF CredentialInv, KeysInv
<1>7. ContextInv' /\ SignedInv'
  BY <1>1, <1>2, IssueIdle
<1>8. BlindSignCompletes' /\ SignatureCompletes' /\ ShowCompletes'
  BY <1>1, <1>2, <1>3 DEF CredentialInv, BlindSignCompletes, SignatureCompletes,
                          ShowCompletes
<1> QED
  BY <1>4, <1>5, <1>6, <1>7, <1>8 DEF RestInv

(* The verdict, which nothing changes any more. *)
LEMMA VerdictStep ==
  ASSUME CredentialInv, NEW cl, VerifySignaturePok(cl)
  PROVE  RestInv'
<1>1. /\ Showing /\ shown # None
      /\ UNCHANGED <<seed, keys, oracle, issueVars, requests, poks, shown, verifierNonce>>
  BY DEF VerifySignaturePok
<1>2. UNCHANGED <<ctx, blind, issue, complete, wallet, issuerNonce>>
  BY <1>1 DEF issueVars
<1>3. seed' \in Seeds /\ TypeOK'
  BY <1>1, <1>2 DEF CredentialInv, TypeOK, Subjects
<1>4. KeysInv'
  BY <1>1, <1>2 DEF CredentialInv, KeysInv
<1>5. ContextInv' /\ SignedInv'
  BY <1>1, <1>2, IssueIdle
<1>6. ShownInv'
  <2>1. \A k, W : Commitment(k, W)' = Commitment(k, W)
    BY <1>1, <1>2 DEF Commitment, ProofMessages, Drawn, Subjects
  <2> QED
    BY <1>1, <2>1 DEF CredentialInv, ShownInv
<1>7. BlindSignCompletes' /\ SignatureCompletes'
  BY <1>2 DEF CredentialInv, BlindSignCompletes, SignatureCompletes
<1>8. ShowCompletes'
  BY VerifyStep
<1> QED
  BY <1>3, <1>4, <1>5, <1>6, <1>7, <1>8 DEF RestInv

(* The two actions that renew a nonce. *)
LEMMA NextNonce ==
  ASSUME CredentialInv, NEW n \in Nonces, GenerateSigningNonce(n) \/ GenerateProofNonce(n)
  PROVE  RestInv'
<1>1. issuerNonce \in Nonces /\ verifierNonce \in Nonces
  BY DEF CredentialInv, TypeOK
<1>2. /\ issuerNonce' \in Nonces /\ verifierNonce' \in Nonces
      /\ UNCHANGED <<seed, keys, oracle, ctx, blind, issue, complete, wallet, requests,
                     poks, shown, verdict>>
  BY <1>1 DEF GenerateSigningNonce, GenerateProofNonce, issueVars, showVars
<1> QED
  BY <1>2, NonceStep

(* Every action preserves the invariant. *)
LEMMA InvStep == CredentialInv /\ [Next]_vars => CredentialInv'
<1> SUFFICES ASSUME CredentialInv, [Next]_vars PROVE RestInv'
  <2>1. ASSUME CredentialInv, [Next]_vars PROVE FreshInv'
    <3>1. FreshInv
      BY <2>1 DEF CredentialInv
    <3> QED
      BY <2>1, <3>1, FreshStep
  <2>2. RestInv' /\ FreshInv' => CredentialInv'
    BY DEF CredentialInv, RestInv
  <2> QED
    BY <2>1, <2>2
<1>1. ASSUME NEW sk \in SecretKeys, NewKeys(sk) PROVE RestInv'
  BY <1>1, KeysStep
<1>2. ASSUME NEW n \in Nonces, GenerateSigningNonce(n) \/ GenerateProofNonce(n)
      PROVE  RestInv'
  BY <1>2, NextNonce
<1>3. ASSUME NEW H \in HiddenSets, ProverNewContext(H) PROVE RestInv'
  BY <1>3, NewContextStep
<1>4. ASSUME NEW K \in KnownSets, BlindSign(K) PROVE RestInv'
  BY <1>4, BlindStep
<1>5. CASE CompleteSignature
  BY <1>5, CompletesStep
<1>6. ASSUME NEW n \in {N - 1, N}, Sign(n) PROVE RestInv'
  BY <1>6, SignsStep
<1>7. ASSUME NEW S \in AskedSets, NewProofRequest(S) PROVE RestInv'
  BY <1>7, RequestStep
<1>8. ASSUME NEW V \in RevealSets, CommitSignaturePok(V) PROVE RestInv'
  BY <1>8, CommitStep
<1>9. ASSUME NEW cl \in Claims, GenerateSignaturePok(cl) \/ VerifySignaturePok(cl)
      PROVE  RestInv'
  BY <1>9, ProofsStep, VerdictStep
<1>10. CASE UNCHANGED vars
  <2>1. issuerNonce \in Nonces /\ verifierNonce \in Nonces
    BY DEF CredentialInv, TypeOK
  <2>2. /\ issuerNonce' \in Nonces /\ verifierNonce' \in Nonces
        /\ UNCHANGED <<seed, keys, oracle, ctx, blind, issue, complete, wallet, requests,
                       poks, shown, verdict>>
    BY <1>10, <2>1 DEF vars
  <2> QED
    BY <2>2, NonceStep
<1> QED
  BY <1>1, <1>2, <1>3, <1>4, <1>5, <1>6, <1>7, <1>8, <1>9, <1>10 DEF Next

(* It holds when nothing has been done. *)
LEMMA InvInit == Init => CredentialInv
<1> SUFFICES ASSUME Init PROVE CredentialInv
  OBVIOUS
<1>1. /\ seed \in Seeds /\ issuerNonce = FirstNonce /\ verifierNonce = FirstNonce
      /\ keys = None /\ ctx = None /\ blind = None /\ issue = None /\ complete = None
      /\ wallet = << >> /\ requests = << >> /\ poks = << >> /\ shown = None /\ verdict = None
  BY DEF Init
<1>2. FirstNonce \in Nonces
  BY CredentialAssumption DEF FirstNonce
<1>3. Len(Subjects) \in Nat
  BY <1>1, SeedFacts
<1>4. TypeOK
  BY <1>1, <1>2, <1>3 DEF TypeOK
<1>5. Sequence(requests) /\ Sequence(poks) /\ DOMAIN requests = {} /\ DOMAIN poks = {}
      /\ DOMAIN wallet = {}
  BY <1>1 DEF Sequence
<1>6. KeysInv /\ ContextInv /\ SignedInv /\ ShownInv
  BY <1>1, <1>5 DEF KeysInv, ContextInv, SignedInv, ShownInv
<1>7. FreshInv
  BY <1>1 DEF FreshInv, BlindSignIsFresh
<1>8. BlindSignCompletes /\ SignatureCompletes /\ ShowCompletes
  BY <1>1 DEF BlindSignCompletes, SignatureCompletes, ShowCompletes
<1> QED
  BY <1>1, <1>4, <1>6, <1>7, <1>8 DEF CredentialInv

(* The keys, contexts, signatures, requests, commitments and proofs that the     *)
(* three parties hold are, at any time, those that the calls make of one         *)
(* another, and never more of one than of what it is made of.                    *)
THEOREM CredentialInvariance == Spec => []CredentialInv
BY InvInit, InvStep, PTL DEF Spec

--------------------------------------------------------------------------------
(* What the calls promise. *)

(* There are never more requests than credentials, nor commitments than          *)
(* requests, there is a proof for each request, and no verdict without proofs.   *)
THEOREM CredentialTypes == Spec => []TypeOK
<1>1. CredentialInv => TypeOK
  BY DEF CredentialInv
<1> QED
  BY <1>1, CredentialInvariance, PTL

(* The issuer never refuses, nor panics on, a context made for its nonce and for *)
(* the messages it is not told, whichever of the two checks it uses, and         *)
(* whatever the messages are: what the prover committed to answers the           *)
(* challenge (issuer.rs blind_sign, lib.rs BlindSignatureContext::verify,        *)
(* pok_vc.rs gen_proof and verify_complete_proof).                               *)
THEOREM BlindSigningCompletes == Spec => []BlindSignCompletes
<1>1. CredentialInv => BlindSignCompletes
  BY DEF CredentialInv
<1> QED
  BY <1>1, CredentialInvariance, PTL

(* What the issuer signed, outright or blindly, verifies for the prover, and a   *)
(* signature over fewer messages than the key has verifies for nobody            *)
(* (signature.rs new, verify; prover.rs complete_signature).                     *)
THEOREM SigningCompletes == Spec => []SignatureCompletes
<1>1. CredentialInv => SignatureCompletes
  BY DEF CredentialInv
<1> QED
  BY <1>1, CredentialInvariance, PTL

(* Proofs made for the requests, the nonce and the claims that the verifier uses *)
(* are all accepted, for any credentials and any choice of what is hidden        *)
(* (prover.rs generate_signature_pok, pok_sig.rs, verifier.rs                    *)
(* verify_signature_pok).                                                        *)
THEOREM ShowingCompletes == Spec => []ShowCompletes
<1>1. CredentialInv => ShowCompletes
  BY DEF CredentialInv
<1> QED
  BY <1>1, CredentialInvariance, PTL

(* Two accepted proofs answer the linked message equally exactly when the two    *)
(* credentials hold the same one, at its position among the messages that are    *)
(* hidden (pok_sig.rs get_resp_for_message).                                     *)
THEOREM LinkComparison == Spec => []LinkIsCompared
BY LinkCompared, CredentialInvariance, PTL

--------------------------------------------------------------------------------
(* What an accepted proof is bound to. *)

(* The claims are strings of words. *)
LEMMA ClaimsAre ==
  ASSUME NEW cl \in Claims, NEW T, "claim" \in T
  PROVE  cl \in Seq(T)
<1>1. cl = << >> \/ cl = <<"claim">>
  BY DEF Claims
<1>2. << >> \in Seq(T) /\ <<"claim">> \in Seq(T)
  OBVIOUS
<1> QED
  BY <1>1, <1>2

(* What the prover and the verifier hash for one proof. *)
AskedPart(k) ==
  BytesForChallenge(shown.proofs[k].proof, requests[k].revealed_messages,
                    requests[k].verification_key)
ShownPart(k) == PoKOfSignatureBytes(poks[k])

(* They are the same only if what is hidden is what was not asked for. *)
PartBinds(k, T) ==
  /\ ShownPart(k) \in Seq(T) /\ AskedPart(k) \in Seq(T)
  /\ \A x, y \in Seq(T) : ShownPart(k) \o x = AskedPart(k) \o y
       => ShownPart(k) = AskedPart(k) /\ Matches(k)

(* Every part of an honest answer binds its statement. *)
LEMMA PartsBind ==
  ASSUME CredentialInv, NoCoincidence, shown # None, NEW k \in DOMAIN requests,
         NEW T, Fr \subseteq T
  PROVE  PartBinds(k, T)
<1>1. /\ keys # None /\ DOMAIN keys.vk.h = Idx /\ DOMAIN poks = DOMAIN requests
      /\ requests[k].verification_key = keys.vk
      /\ \E V \in RevealSets : LET pms == ProofMessages(k, V)
                                   g == PoKOfSignatureGenProof(poks[k], Challenges[1])
                               IN  /\ shown.proofs[k].revealed_messages = RevealedMessages(pms)
                                   /\ shown.proofs[k].proof = g.val
                                   /\ Shows(g, poks[k], pms, keys.vk, Challenges[1])
  BY ProofOf
<1>2. PICK proof, rev, asked, vk, A :
        /\ proof = shown.proofs[k].proof /\ rev = shown.proofs[k].revealed_messages
        /\ asked = requests[k].revealed_messages /\ vk = keys.vk /\ A = DOMAIN rev
  OBVIOUS
<1>3. PICK V : /\ rev = RevealedMessages(ProofMessages(k, V)) /\ Typed(proof)
               /\ ShownPart(k) = BytesForChallenge(proof, DOMAIN rev, vk)
  BY <1>1, <1>2 DEF Shows, ShownPart
<1>4. AskedPart(k) = BytesForChallenge(proof, asked, vk)
  BY <1>1, <1>2 DEF AskedPart
<1>5. A \subseteq Idx
  BY <1>2, <1>3 DEF RevealedMessages, Revealed, ProofMessages
<1>6. /\ GoodKey(vk, keys.sk, N) /\ Idx = 0..(N - 1)
      /\ \A i, j \in 0..(N - 1) : vk.h[i] = vk.h[j] => i = j
  <2>1. keys.sk \in SecretKeys /\ keys.vk = TheKey(keys.sk)
    BY <1>1 DEF CredentialInv, KeysInv
  <2>2. GoodKey(vk, keys.sk, N) /\ N \in Nat \ {0}
    BY <1>2, <2>1, TheKeyIs, CredentialAssumption
  <2>3. vk.h = [i \in Idx |-> Generators[i + 2]]
    BY <1>1, <1>2 DEF CredentialInv, FreshInv
  <2>4. \A i \in Idx : i + 2 \in 1..(N + 1) /\ vk.h[i] = Generators[i + 2]
    BY <2>2, <2>3 DEF Idx
  <2>5. \A i, j \in Idx : i + 2 = j + 2 => i = j
    BY <2>2 DEF Idx
  <2>6. \A i, j \in Idx : vk.h[i] = vk.h[j] => i = j
    BY <2>4, <2>5, CredentialAssumption
  <2> QED
    BY <2>2, <2>6 DEF Idx
<1>7. \A i \in 0..(N - 1) : vk.h[i] # proof.proof_vc_2.commitment
  <2>1. k \in DOMAIN shown.proofs
    BY <1>1 DEF CredentialInv, ShownInv
  <2> QED
    BY <1>2, <1>6, <2>1 DEF NoCoincidence
<1>8. Tells(proof, vk, Idx, A, asked, T) /\ Tells(proof, vk, Idx, asked, A, T)
  BY <1>3, <1>6, <1>7, PartTells
<1>9. ASSUME NEW x \in Seq(T), NEW y \in Seq(T), ShownPart(k) \o x = AskedPart(k) \o y
      PROVE  ShownPart(k) = AskedPart(k) /\ Matches(k)
  <2>1. Idx \ A = Idx \ asked
    BY <1>2, <1>3, <1>4, <1>8, <1>9 DEF Tells
  <2>2. A = asked \intersect Idx
    BY <1>5, <2>1
  <2>3. BytesForChallenge(proof, A, vk) = BytesForChallenge(proof, asked, vk)
    BY <1>1, <1>2, <2>1 DEF BytesForChallenge
  <2> QED
    BY <1>2, <1>3, <1>4, <2>2, <2>3 DEF Matches
<1>10. ShownPart(k) \in Seq(T) /\ AskedPart(k) \in Seq(T)
  BY <1>2, <1>3, <1>4, <1>8 DEF Tells
<1> QED
  BY <1>9, <1>10 DEF PartBinds

(* The verifier's string is the prover's for the same requests, nonce and claims   *)
(* only.                                                                           *)
LEMMA StringBinds ==
  ASSUME CredentialInv, NoCoincidence, shown # None, NEW cl \in Claims, NEW nonce,
         oracle = <<ChallengeHashBytes([k \in DOMAIN requests |-> AskedPart(k)], nonce, cl)>>
  PROVE  /\ shown.made = nonce /\ shown.claims = cl
         /\ \A k \in DOMAIN requests : Matches(k)
<1>1. PICK s, t : /\ s = [k \in DOMAIN poks |-> ShownPart(k)]
                  /\ t = [k \in DOMAIN requests |-> AskedPart(k)]
  OBVIOUS
<1>2. /\ poks # << >> /\ Len(poks) = Len(requests) /\ Sequence(poks) /\ Sequence(requests)
      /\ shown.claims \in Claims
      /\ oracle = <<ChallengeHashBytes(s, shown.made, shown.claims)>>
  BY <1>1 DEF CredentialInv, ShownInv, KeysInv, ShownPart
<1>3. PICK n \in Nat \ {0} : n = Len(requests) /\ DOMAIN poks = 1..n /\ DOMAIN requests = 1..n
  <2>1. /\ Len(poks) \in Nat /\ DOMAIN poks = 1..Len(poks)
        /\ DOMAIN requests = 1..Len(requests)
    BY <1>2 DEF Sequence
  <2>2. Len(poks) # 0
    <3> SUFFICES ASSUME Len(poks) = 0 PROVE FALSE
      OBVIOUS
    <3>1. poks = [k \in 1..0 |-> poks[k]]
      BY <1>2 DEF Sequence
    <3> QED
      BY <1>2, <3>1
  <2> QED
    BY <1>2, <2>1, <2>2
<1>4. PICK T : T = Fr \union {shown.made, nonce, "claim"}
  OBVIOUS
<1>5. ASSUME NEW k \in 1..n PROVE PartBinds(k, T)
  <2>1. Fr \subseteq T
    BY <1>4
  <2> QED
    BY <1>3, <2>1, PartsBind
<1>6. PICK m \in T, o \in T, c \in Seq(T), d \in Seq(T) :
        m = shown.made /\ o = nonce /\ c = shown.claims /\ d = cl
  <2>1. shown.claims \in Seq(T) /\ cl \in Seq(T) /\ shown.made \in T /\ nonce \in T
    BY <1>2, <1>4, ClaimsAre
  <2> QED
    BY <2>1
<1>7. \A k \in 1..n : s[k] = ShownPart(k) /\ t[k] = AskedPart(k)
  BY <1>1, <1>3
<1>8. Strings(T, s, n) /\ Strings(T, t, n)
  <2>1. \A k \in 1..n : s[k] \in Seq(T) /\ t[k] \in Seq(T)
    BY <1>5, <1>7 DEF PartBinds
  <2>2. s = [k \in 1..n |-> s[k]] /\ t = [k \in 1..n |-> t[k]]
    BY <1>1, <1>3
  <2> QED
    BY <2>1, <2>2 DEF Strings
<1>9. Readable(T, s, t, n)
  BY <1>5, <1>7 DEF Readable, PartBinds
<1>10. PICK a \in Seq(T), b \in Seq(T), e \in Seq(T), f \in Seq(T) :
         a = Concat(s) /\ b = Concat(t) /\ e = <<m>> /\ f = <<o>>
  <2>1. Concat(s) \in Seq(T) /\ Concat(t) \in Seq(T)
    BY <1>8, ConcatType
  <2>2. <<m>> \in Seq(T) /\ <<o>> \in Seq(T)
    OBVIOUS
  <2> QED
    BY <2>1, <2>2
<1>11. a \o (e \o c) = b \o (f \o d)
  <2>1. a \o e \o c = b \o f \o d
    <3>1. ChallengeHashBytes(s, m, c) = ChallengeHashBytes(t, o, d)
      BY <1>1, <1>2, <1>6
    <3> QED
      BY <1>10, <3>1 DEF ChallengeHashBytes
  <2>2. Associate(a, e, c) /\ Associate(b, f, d)
    BY JoinsAssociate
  <2> QED
    BY <2>1, <2>2 DEF Associate
<1>12. PICK x \in Seq(T), y \in Seq(T) : x = e \o c /\ y = f \o d
  BY ConcatProperties
<1>13. (\A k \in 1..n : s[k] = t[k]) /\ x = y
  <2>1. Joined(s, x, t, y)
    BY <1>10, <1>11, <1>12 DEF Joined
  <2> QED
    BY <1>8, <1>9, <2>1, PartsAgree
<1>14. m = o /\ c = d
  <2>1. Followed(m, c, o, d)
    BY <1>10, <1>12, <1>13 DEF Followed
  <2> QED
    BY <2>1, TailsAgree
<1>15. ASSUME NEW k \in 1..n PROVE Matches(k)
  <2>1. ShownPart(k) = AskedPart(k) /\ << >> \in Seq(T)
    BY <1>7, <1>13
  <2>2. ShownPart(k) \o << >> = AskedPart(k) \o << >>
    BY <2>1
  <2> QED
    BY <1>5, <2>1, <2>2 DEF PartBinds
<1> QED
  BY <1>3, <1>6, <1>14, <1>15

(* A proof is accepted for one challenge, and so for one string. *)
LEMMA BoundStep ==
  ASSUME CredentialInv, NEW cl \in Claims, VerifySignaturePok(cl), NoCoincidence'
  PROVE  ShowIsBound'
<1>1. /\ shown # None /\ UNCHANGED <<keys, requests, poks, shown, oracle>>
      /\ NoCoincidence
  BY DEF VerifySignaturePok, NoCoincidence
<1>2. PICK q : q = ChallengeHashBytes([k \in DOMAIN requests |-> AskedPart(k)],
                                      verifierNonce, cl)
  OBVIOUS
<1> DEFINE r(k) == PoKOfSignatureVerify(shown.proofs[k].proof, requests[k].verification_key,
                                        shown.proofs[k].revealed_messages, Answer(oracle, q))
<1>3. verdict' = [status |-> [k \in DOMAIN requests |-> r(k)], claims |-> cl,
                  now |-> verifierNonce]
  BY <1>2 DEF VerifySignaturePok, AskedPart
<1> SUFFICES ASSUME NEW k \in DOMAIN requests, Accepted(k)' PROVE Agreed'
  BY <1>1 DEF ShowIsBound
<1>4. r(k) = Ok("Success")
  BY <1>3 DEF Accepted
<1>5. PICK p : oracle = <<p>>
  BY <1>1 DEF CredentialInv, ShownInv
<1>6. Answer(oracle, q) \in {Challenges[1], Challenges[2]}
  BY <1>5, AnswerOfOne
<1>7. PICK proof, rev, vk : /\ proof = shown.proofs[k].proof /\ vk = keys.vk
                            /\ rev = shown.proofs[k].revealed_messages
  OBVIOUS
<1>8. /\ keys # None /\ requests[k].verification_key = vk /\ Typed(proof)
      /\ PoKOfSignatureVerify(proof, vk, rev, Challenges[1]) = Ok("Success")
      /\ DOMAIN poks = DOMAIN requests
  <2>1. \E V \in RevealSets : LET pms == ProofMessages(k, V)
                                  g == PoKOfSignatureGenProof(poks[k], Challenges[1])
                              IN  /\ shown.proofs[k].revealed_messages = RevealedMessages(pms)
                                  /\ shown.proofs[k].proof = g.val
                                  /\ Shows(g, poks[k], pms, keys.vk, Challenges[1])
    BY <1>1, ProofOf
  <2>2. /\ keys # None /\ DOMAIN poks = DOMAIN requests
        /\ requests[k].verification_key = keys.vk
    BY <1>1, ProofOf
  <2> QED
    BY <1>7, <2>1, <2>2 DEF Shows
<1>9. proof.rz.a_bar # proof.rz.d
  <2>1. k \in DOMAIN shown.proofs
    BY <1>1, <1>8 DEF CredentialInv, ShownInv
  <2> QED
    BY <1>1, <1>7, <2>1 DEF NoCoincidence
<1>10. vk.h0 \in Fr /\ Challenges[1] \in Fr /\ Challenges[2] \in Fr
  <2>1. keys.sk \in SecretKeys /\ keys.vk = TheKey(keys.sk)
    BY <1>8 DEF CredentialInv, KeysInv
  <2> QED
    BY <1>7, <2>1, TheKeyIs, RandomAssumption DEF GoodKey
<1>11. Answer(oracle, q) = Challenges[1]
  <2>1. PoKOfSignatureVerify(proof, vk, rev, Answer(oracle, q)) = Ok("Success")
    BY <1>4, <1>7, <1>8
  <2>2. PICK c \in Fr : c = Answer(oracle, q)
    BY <1>6, <1>10
  <2>3. c = Challenges[1]
    BY <1>8, <1>9, <1>10, <2>1, <2>2, AcceptedForOne
  <2> QED
    BY <2>2, <2>3
<1>12. oracle = <<q>>
  BY <1>5, <1>11, AnswerOfOne
<1>13. /\ shown.made = verifierNonce /\ shown.claims = cl
       /\ \A j \in DOMAIN requests : Matches(j)
  BY <1>1, <1>2, <1>12, StringBinds
<1>14. /\ verdict'.now = verifierNonce /\ verdict'.claims = cl
       /\ \A j \in DOMAIN requests : Matches(j)'
  BY <1>1, <1>3, <1>13 DEF Matches
<1> QED
  BY <1>1, <1>13, <1>14 DEF Agreed

(* No other step makes a verdict, nor touches what it is about. *)
LEMMA VerdictStays ==
  ASSUME CredentialInv, [Next]_vars, \A cl \in Claims : ~VerifySignaturePok(cl)
  PROVE  verdict' = None \/ UNCHANGED <<verdict, keys, requests, poks, shown>>
<1>1. Issuing => verdict = None
  <2> SUFFICES ASSUME Issuing PROVE verdict = None
    OBVIOUS
  <2>1. requests = << >>
    BY DEF Issuing
  <2>2. Len(requests) = 0
    BY <2>1
  <2> QED
    BY <2>2, NothingShown
<1>2. shown = None => verdict = None
  BY DEF CredentialInv, TypeOK
<1>3. keys = None => verdict = None
  <2> SUFFICES ASSUME keys = None PROVE verdict = None
    OBVIOUS
  <2>1. wallet = << >> /\ Len(requests) <= Len(wallet) /\ Sequence(requests)
    BY DEF CredentialInv, KeysInv, TypeOK
  <2>2. Len(requests) = 0
    BY <2>1 DEF Sequence
  <2> QED
    BY <2>2, NothingShown
<1>4. ASSUME NEW sk \in SecretKeys, NewKeys(sk) PROVE verdict' = None
  BY <1>3, <1>4 DEF NewKeys, showVars
<1>5. ASSUME NEW n \in Nonces, GenerateSigningNonce(n) PROVE verdict' = None
  BY <1>1, <1>5 DEF GenerateSigningNonce, showVars
<1>6. ASSUME NEW n \in Nonces, GenerateProofNonce(n)
      PROVE  UNCHANGED <<verdict, keys, requests, poks, shown>>
  BY <1>6 DEF GenerateProofNonce
<1>7. ASSUME NEW H \in HiddenSets, ProverNewContext(H) PROVE verdict' = None
  BY <1>1, <1>7 DEF ProverNewContext, showVars
<1>8. ASSUME NEW K \in KnownSets, BlindSign(K) PROVE verdict' = None
  BY <1>1, <1>8 DEF BlindSign, showVars
<1>9. CASE CompleteSignature
  BY <1>1, <1>9 DEF CompleteSignature, showVars
<1>10. ASSUME NEW n \in {N - 1, N}, Sign(n) PROVE verdict' = None
  BY <1>1, <1>10 DEF Sign, showVars
<1>11. ASSUME NEW S \in AskedSets, NewProofRequest(S) PROVE verdict' = None
  BY <1>2, <1>11 DEF NewProofRequest
<1>12. ASSUME NEW V \in RevealSets, CommitSignaturePok(V) PROVE verdict' = None
  BY <1>2, <1>12 DEF CommitSignaturePok
<1>13. ASSUME NEW cl \in Claims, GenerateSignaturePok(cl) PROVE verdict' = None
  BY <1>2, <1>13 DEF GenerateSignaturePok
<1>14. CASE UNCHANGED vars
  BY <1>14 DEF vars
<1> QED
  BY <1>4, <1>5, <1>6, <1>7, <1>8, <1>9, <1>10, <1>11, <1>12, <1>13, <1>14 DEF Next

(* A proof is accepted only if every proof under its challenge reveals what its    *)
(* request asks for, and nothing else, for the nonce and the claims that the       *)
(* verifier uses: nothing but the challenge ties what the prover chose to reveal   *)
(* to the request (pok_sig.rs get_bytes_for_challenge, verify; verifier.rs         *)
(* create_challenge_hash, verify_signature_pok).  For any keys, credentials and    *)
(* choices, but for the two coincidences.                                          *)
THEOREM ShowingIsBound == Spec => [](NoCoincidence => ShowIsBound)
<1> DEFINE Bound == NoCoincidence => ShowIsBound
<1>1. Init => Bound
  BY DEF Init, ShowIsBound
<1>2. CredentialInv /\ Bound /\ [Next]_vars => Bound'
  <2> SUFFICES ASSUME CredentialInv, Bound, [Next]_vars PROVE Bound'
    OBVIOUS
  <2>1. CASE \E cl \in Claims : VerifySignaturePok(cl)
    BY <2>1, BoundStep
  <2>2. CASE \A cl \in Claims : ~VerifySignaturePok(cl)
    <3>1. CASE verdict' = None
      BY <3>1 DEF ShowIsBound
    <3>2. CASE UNCHANGED <<verdict, keys, requests, poks, shown>>
      BY <3>2 DEF ShowIsBound, NoCoincidence, Accepted, Agreed, Matches
    <3> QED
      BY <2>2, <3>1, <3>2, VerdictStays
  <2> QED
    BY <2>1, <2>2
<1> QED
  BY <1>1, <1>2, CredentialInvariance, PTL DEF Spec

--------------------------------------------------------------------------------
(* Byte forms: keys, signatures, contexts, requests and proofs. *)

(* One element is read, by either way of reading. *)
ReadsOne(kind, form, v, data, at, out) ==
  LET c == Cursor(data, at + Size(kind, form), Append(out, v))
  IN  /\ Take(Cursor(data, at, out), kind, form) = c
      /\ TakeOrPanic(Cursor(data, at, out), kind, form) = c

LEMMA OneIsRead ==
  ASSUME NEW kind \in Kinds, NEW form \in Layouts, NEW v, NEW data, NEW at \in Nat, NEW out,
         LiesAt(data, at, Bytes(kind, form, v))
  PROVE  ReadsOne(kind, form, v, data, at, out)
<1>1. PICK c : c = Cursor(data, at + Size(kind, form), Append(out, v))
  OBVIOUS
<1>2. Take(Cursor(data, at, out), kind, form) = c /\ c.st = "ok"
  <2>1. Take(Cursor(data, at, out), kind, form) = c
    BY <1>1, TakeReads
  <2>2. c.st = "ok"
    BY <1>1 DEF Cursor
  <2> QED
    BY <2>1, <2>2
<1>3. TakeOrPanic(Cursor(data, at, out), kind, form) = c
  BY <1>2 DEF TakeOrPanic
<1> QED
  BY <1>1, <1>2, <1>3 DEF ReadsOne

(* The size of an element says its form. *)
LEMMA SizeTellsForm ==
  ASSUME NEW form \in Forms
  PROVE  /\ Size("g1", form) \in Nat \ {0} /\ Size("g2", form) = 2 * Size("g1", form)
         /\ Size("fr", form) = FR_SIZE /\ FR_SIZE \in Nat \ {0} /\ LEN_SIZE \in Nat \ {0}
         /\ Size("u32", form) = LEN_SIZE /\ Size("u32", "plain") = LEN_SIZE
         /\ form = "uncompressed" <=> Size("g1", form) # Size("g1", "compressed")
         /\ Size("g1", "uncompressed") > Size("g1", "compressed")
<1>1. G1_SIZE \in Nat \ {0} /\ FR_SIZE \in Nat \ {0} /\ LEN_SIZE \in Nat \ {0}
  BY SizesAssumption
<1>2. /\ Size("g1", "compressed") = G1_SIZE /\ Size("g1", "uncompressed") = 2 * G1_SIZE
      /\ Size("g2", "compressed") = 2 * G1_SIZE /\ Size("g2", "uncompressed") = 4 * G1_SIZE
      /\ Size("fr", form) = FR_SIZE /\ Size("u32", form) = LEN_SIZE
      /\ Size("u32", "plain") = LEN_SIZE
  BY DEF Size
<1>3. form = "compressed" \/ form = "uncompressed"
  BY DEF Forms
<1> QED
  BY <1>1, <1>2, <1>3

(* No G1 element is read in the other form (SerDes of the curve). *)
LEMMA OtherFormIsRefused ==
  ASSUME NEW form \in Forms, NEW other \in Forms, other # form,
         NEW kind \in {"g1", "g2"}, NEW v, NEW d, LiesAt(d, 0, Bytes(kind, form, v)),
         NEW n \in Nat, NEW w, CutTo(w, d, n), NEW out
  PROVE  Stuck(Take(Cursor(w, 0, out), kind, other))
<1>1. PICK z \in Nat \ {0} : z = Size(kind, other)
  BY SizesArePositive DEF Kinds, Layouts
<1>2. PICK y \in Nat \ {0} : y = Size(kind, form)
  BY SizesArePositive DEF Kinds, Layouts
<1>3. PICK c : c = Cursor(w, 0, out)
  OBVIOUS
<1>4. c.st = "ok" /\ c.at = 0 /\ c.data = w
  BY <1>3 DEF Cursor
<1>5. ~HoldsElement(c, kind, other)
  <2> SUFFICES ASSUME HoldsElement(c, kind, other) PROVE FALSE
    OBVIOUS
  <2>1. 0 + z <= Len(w) /\ w[0 + 1] = <<kind, FormOf(kind, other), w[0 + 1][3], 1>>
    BY <1>1, <1>4 DEF HoldsElement
  <2>2. Len(w) = n /\ \A k \in 1..n : w[k] = d[k]
    BY DEF CutTo
  <2>3. w[1] = d[1]
    BY <2>1, <2>2
  <2>4. d[1] = <<kind, FormOf(kind, form), v, 1>>
    <3>1. 1 \in 1..y /\ Len(Bytes(kind, form, v)) = y
          /\ Bytes(kind, form, v)[1] = <<kind, FormOf(kind, form), v, 1>>
      BY <1>2 DEF Bytes
    <3>2. d[0 + 1] = Bytes(kind, form, v)[1]
      BY <3>1 DEF LiesAt
    <3> QED
      BY <3>1, <3>2
  <2>5. FormOf(kind, form) = form /\ FormOf(kind, other) = other
    BY DEF FormOf
  <2> QED
    BY <2>1, <2>3, <2>4, <2>5
<1>6. Take(c, kind, other) = [c EXCEPT !.st = "err"]
  BY <1>4, <1>5 DEF Take
<1> QED
  BY <1>3, <1>6 DEF Cursor, Stuck

(* (Short sequences, as values of V.) *)
IsOne(o, V, z, x) == z = << >> /\ z \in Seq(V) /\ o = Append(z, x) /\ o \in Seq(V) /\ o[1] = x /\ Len(o) = 1
IsTwo(s, V, x, y) == s \in Seq(V) /\ s = <<x, y>> /\ Len(s) = 2 /\ s[1] = x /\ s[2] = y

LEMMA OneValue ==
  ASSUME NEW V, NEW x \in V
  PROVE  \E z, o : IsOne(o, V, z, x)
<1>1. PICK z \in Seq(V) : z = << >> /\ Len(z) = 0
  BY EmptySeq
<1>2. PICK o : o = Append(z, x) /\ o \in Seq(V) /\ OneMore(z, x, o)
  BY AppendTyped
<1>3. IsOne(o, V, z, x)
  BY <1>1, <1>2 DEF IsOne, OneMore
<1> QED
  BY <1>3

LEMMA ValuePair ==
  ASSUME NEW V, NEW x \in V, NEW y \in V
  PROVE  \E s : IsTwo(s, V, x, y)
<1>1. PICK s : s = <<x, y>>
  OBVIOUS
<1>2. s \in Seq(V) /\ Len(s) = 2 /\ s[1] = x /\ s[2] = y
  BY <1>1
<1> QED
  BY <1>1, <1>2 DEF IsTwo

(* Signatures and blind signatures over V, and their bytes: the point, then the
   two scalars in f. *)
PlainSignature(sig, V) ==
  sig = [a |-> sig.a, e |-> sig.e, s |-> sig.s] /\ sig.a \in V /\ sig.e \in V /\ sig.s \in V

SignatureLayout(sig, form, V, d, f, g, r) ==
  /\ g \in Nat \ {0} /\ r \in Nat \ {0} /\ g = Size("g1", form) /\ r = FR_SIZE
  /\ d = SignatureToBytes(sig, form) /\ d \in Seq(Byte(V)) /\ Len(d) = g + 2 * r
  /\ f = BytesOfAll("fr", form, <<sig.e, sig.s>>) /\ f \in Seq(Byte(V)) /\ Len(f) = 2 * r
  /\ LiesAt(d, 0, Bytes("g1", form, sig.a)) /\ LiesAt(d, g, f)

LEMMA SignatureInParts ==
  ASSUME NEW form \in Forms, NEW V, NEW sig, PlainSignature(sig, V)
  PROVE  \E d, f, g, r : SignatureLayout(sig, form, V, d, f, g, r)
<1>1. sig.a \in V /\ sig.e \in V /\ sig.s \in V
  BY DEF PlainSignature
<1>2. PICK g \in Nat \ {0}, r \in Nat \ {0} :
        g = Size("g1", form) /\ r = FR_SIZE /\ r = Size("fr", form)
  BY SizeTellsForm
<1>3. PICK a \in Seq(Byte(V)) : a = Bytes("g1", form, sig.a) /\ Len(a) = g
  BY <1>1, <1>2, BytesAre DEF Kinds, Layouts
<1>4. PICK vs \in Seq(V) : vs = <<sig.e, sig.s>> /\ Len(vs) = 2
  <2>1. PICK s : IsTwo(s, V, sig.e, sig.s)
    BY <1>1, ValuePair
  <2> QED
    BY <2>1 DEF IsTwo
<1>5. PICK f \in Seq(Byte(V)) : f = BytesOfAll("fr", form, vs) /\ Len(f) = 2 * r
  <2>1. PICK s : Stepwise(s, "fr", form, V, vs)
    BY BytesInSteps DEF Kinds, Layouts
  <2>2. /\ BytesOfAll("fr", form, vs) = s[2] /\ s[2] \in Seq(Byte(V))
        /\ Len(s[2]) = 2 * r
    BY <1>2, <1>4, <2>1 DEF Stepwise
  <2> QED
    BY <2>2
<1>6. PICK d \in Seq(Byte(V)) : d = a \o f
  BY ConcatProperties
<1>7. Len(d) = g + 2 * r
  BY <1>3, <1>5, <1>6, ConcatProperties
<1>8. SignatureToBytes(sig, form) = d
  <2>1. SIGNATURE_SIZE(form) = Len(d)
    BY <1>2, <1>7 DEF SIGNATURE_SIZE
  <2>2. SubSeq(d, 1, Len(d)) = d
    <3>1. LiesAt(d, 0, d) /\ 0 \in Nat
      <4>1. Len(d) \in Nat
        BY LenProperties
      <4> QED
        BY <4>1 DEF LiesAt
    <3>2. SubSeq(d, 0 + 1, 0 + Len(d)) = d
      BY <3>1, CutOut
    <3>3. 0 + 1 = 1 /\ 0 + Len(d) = Len(d)
      BY <1>7, <1>2
    <3> QED
      BY <3>2, <3>3
  <2> QED
    BY <1>3, <1>4, <1>5, <1>6, <2>1, <2>2 DEF SignatureToBytes
<1>9. LiesAt(d, 0, a) /\ LiesAt(d, g, f)
  <2>1. Begins(d, d, a, f)
    <3>1. Len(d) \in Nat
      BY LenProperties
    <3> QED
      BY <1>6, <3>1 DEF LiesAt, Begins
  <2>2. Parted(d, d, a, f)
    BY <2>1, BeginsInParts
  <2> QED
    BY <1>3, <2>2 DEF Parted
<1>10. SignatureLayout(sig, form, V, d, f, g, r)
  BY <1>2, <1>3, <1>4, <1>5, <1>7, <1>8, <1>9 DEF SignatureLayout
<1> QED
  BY <1>10

(* The form that SignatureFromBytes tells by the length. *)
FormOfSignature(data) ==
  IF Len(data) = SIGNATURE_SIZE("compressed") THEN "compressed" ELSE "uncompressed"

(* A signature is read back as it was written (signature.rs to_bytes_impl,
   from_bytes_impl). *)
LEMMA SignatureReads ==
  ASSUME NEW form \in Forms, NEW V, NEW sig, PlainSignature(sig, V)
  PROVE  SignatureFromBytes(SignatureToBytes(sig, form)) = Ok(sig)
<1>1. PICK d, f, g, r : SignatureLayout(sig, form, V, d, f, g, r)
  BY SignatureInParts
<1>2. /\ g \in Nat \ {0} /\ r \in Nat \ {0} /\ g = Size("g1", form) /\ r = FR_SIZE
      /\ d = SignatureToBytes(sig, form) /\ Len(d) = g + 2 * r
      /\ f = BytesOfAll("fr", form, <<sig.e, sig.s>>)
      /\ LiesAt(d, 0, Bytes("g1", form, sig.a)) /\ LiesAt(d, g, f)
  BY <1>1 DEF SignatureLayout
<1>3. FormOfSignature(d) = form
  <2>1. PICK c \in Nat : c = Size("g1", "compressed")
    BY SizesArePositive DEF Kinds, Layouts, Forms
  <2>2. Len(d) = SIGNATURE_SIZE("compressed") <=> g = c
    BY <1>2, <2>1 DEF SIGNATURE_SIZE
  <2>3. form = "uncompressed" <=> g # c
    BY <1>2, <2>1, SizeTellsForm
  <2> QED
    BY <2>2, <2>3 DEF FormOfSignature, Forms
<1>4. PICK z, o : IsOne(o, V, z, sig.a)
  BY OneValue DEF PlainSignature
<1>5. Take(CursorOn(d), "g1", form) = Cursor(d, g, o)
  <2>1. CursorOn(d) = Cursor(d, 0, z)
    BY <1>4 DEF CursorOn, Cursor, IsOne
  <2>2. Take(Cursor(d, 0, z), "g1", form) = Cursor(d, 0 + Size("g1", form), Append(z, sig.a))
    BY <1>2, TakeReads DEF Kinds, Layouts
  <2> QED
    BY <1>2, <1>4, <2>1, <2>2 DEF IsOne
<1>6. PICK vs : IsTwo(vs, V, sig.e, sig.s)
  BY ValuePair DEF PlainSignature
<1>7. PICK c : c = TakeMany(Cursor(d, g, o), "fr", form, 2)
  OBVIOUS
<1>8. c = Cursor(d, g + 2 * r, o \o vs)
  <2>1. /\ LiesAt(d, g, BytesOfAll("fr", form, vs)) /\ V \subseteq V
        /\ o \in Seq(V) /\ vs \in Seq(V) /\ Len(vs) = 2
    BY <1>2, <1>4, <1>6 DEF IsOne, IsTwo
  <2>2. TakeMany(Cursor(d, g, o), "fr", form, Len(vs))
          = Cursor(d, g + Len(vs) * Size("fr", form), o \o vs)
    <3>1. "fr" \in Kinds /\ form \in Layouts /\ g \in Nat
      BY <1>2 DEF Kinds, Layouts
    <3>2. o \in Seq(V) /\ vs \in Seq(V) /\ V \subseteq V
      BY <2>1
    <3>3. LiesAt(d, g, BytesOfAll("fr", form, vs))
      BY <2>1
    <3> QED
      BY <3>1, <3>2, <3>3, TakeManyReads
  <2> QED
    BY <1>2, <1>7, <2>1, <2>2, SizeTellsForm
<1>9. PICK q : q = o \o vs /\ q[1] = sig.a /\ q[2] = sig.e /\ q[3] = sig.s
  <2>1. /\ o \in Seq(V) /\ vs \in Seq(V) /\ Len(o) = 1 /\ Len(vs) = 2
        /\ o[1] = sig.a /\ vs[1] = sig.e /\ vs[2] = sig.s
    BY <1>4, <1>6 DEF IsOne, IsTwo
  <2>2. PICK q : q = o \o vs
    OBVIOUS
  <2>3. \A i \in 1..(1 + 2) : q[i] = IF i <= 1 THEN o[i] ELSE vs[i - 1]
    BY <2>1, <2>2, ConcatProperties
  <2>4. q[1] = o[1] /\ q[2] = vs[1] /\ q[3] = vs[2]
    BY ONLY <2>3
  <2> QED
    BY <2>1, <2>2, <2>4
<1>10. SignatureFromBytes(d)
        = Read(c, LAMBDA x : [a |-> x[1], e |-> x[2], s |-> x[3]])
  BY <1>3, <1>5, <1>7 DEF SignatureFromBytes, FormOfSignature
<1>11. c.st = "ok" /\ c.out[1] = sig.a /\ c.out[2] = sig.e /\ c.out[3] = sig.s
  BY <1>8, <1>9 DEF Cursor
<1>12. SignatureFromBytes(d) = Ok([a |-> sig.a, e |-> sig.e, s |-> sig.s])
  BY <1>10, <1>11 DEF Read
<1> QED
  BY <1>2, <1>12 DEF PlainSignature

(* The beginning of a sequence. *)
LEMMA BeginningIs ==
  ASSUME NEW T, NEW d \in Seq(T), NEW n \in Nat, n <= Len(d)
  PROVE  CutTo(SubSeq(d, 1, n), d, n)
<1>1. PICK w : w = SubSeq(d, 1, n)
  OBVIOUS
<1>2. \A i \in 1..n : d[i] \in T
  BY LenProperties, ElementOfSeq
<1>3. /\ Len(w) = IF 1 <= n THEN n - 1 + 1 ELSE 0
      /\ \A i \in 1..(n - 1 + 1) : w[i] = d[1 + i - 1]
  BY <1>1, <1>2, SubSeqProperties, 1 \in Int, n \in Int
<1>4. n - 1 + 1 = n /\ \A i \in 1..n : 1 + i - 1 = i
  OBVIOUS
<1> QED
  BY <1>1, <1>3, <1>4 DEF CutTo

(* No signature is read from a proper beginning of its bytes, although that may
   be as long as one in the other form. *)
LEMMA SignatureCut ==
  ASSUME NEW form \in Forms, NEW V, NEW sig, PlainSignature(sig, V),
         NEW n \in Nat, n < Len(SignatureToBytes(sig, form))
  PROVE  SignatureFromBytes(SubSeq(SignatureToBytes(sig, form), 1, n)).st # "ok"
<1>1. PICK d, f, g, r : SignatureLayout(sig, form, V, d, f, g, r)
  BY SignatureInParts
<1>2. /\ g \in Nat \ {0} /\ r \in Nat \ {0} /\ g = Size("g1", form) /\ r = FR_SIZE
      /\ d = SignatureToBytes(sig, form) /\ Len(d) = g + 2 * r /\ d \in Seq(Byte(V))
      /\ LiesAt(d, 0, Bytes("g1", form, sig.a))
  BY <1>1 DEF SignatureLayout
<1>3. PICK w : w = SubSeq(d, 1, n)
  OBVIOUS
<1>4. CutTo(w, d, n) /\ n < g + 2 * r /\ Len(w) = n
  <2>1. n < g + 2 * r /\ n <= Len(d)
    BY <1>2
  <2>2. CutTo(w, d, n)
    BY <1>2, <1>3, <2>1, BeginningIs
  <2> QED
    BY <2>1, <2>2 DEF CutTo
<1>5. PICK x, c, h : /\ x = FormOfSignature(w) /\ c = Take(CursorOn(w), "g1", x)
                     /\ h = TakeMany(c, "fr", x, 2)
  OBVIOUS
<1>6. PICK u : u = << >> /\ CursorOn(w) = Cursor(w, 0, u) /\ x \in Forms
  BY <1>5 DEF CursorOn, Cursor, FormOfSignature, Forms
<1>7. ASSUME x # form PROVE Stuck(h)
  <2>1. Stuck(c)
    <3>1. LiesAt(d, 0, Bytes("g1", form, sig.a)) /\ "g1" \in {"g1", "g2"}
      BY <1>2
    <3>2. Stuck(Take(Cursor(w, 0, u), "g1", x))
      BY <1>4, <1>6, <1>7, <3>1, OtherFormIsRefused
    <3> QED
      BY <1>5, <1>6, <3>2
  <2> QED
    BY <1>5, <2>1, TakeManyStuck, 2 \in Nat
<1>8. ASSUME x = form PROVE Stuck(h)
  <2>1. PICK b \in Seq(Byte(V)) : b = Bytes("g1", form, sig.a) /\ Len(b) = g
    <3>1. sig.a \in V
      BY DEF PlainSignature
    <3> QED
      BY <1>2, <3>1, BytesAre DEF Kinds, Layouts
  <2>2. LiesAt(w, 0, b) \/ EndsWithin(w, 0, b)
    <3>1. LiesAt(d, 0, b) /\ 0 \in Nat /\ 0 <= n
      BY <1>2, <2>1
    <3> QED
      BY <1>4, <3>1, CutLies
  <2>3. CASE EndsWithin(w, 0, b)
    <3>1. Stuck(Take(Cursor(w, 0, u), "g1", form))
      BY <2>1, <2>3, TakeCut DEF Kinds, Layouts
    <3>2. Stuck(c)
      BY <1>5, <1>6, <1>8, <3>1
    <3> QED
      BY <1>5, <3>2, TakeManyStuck, 2 \in Nat
  <2>4. CASE LiesAt(w, 0, b)
    <3>1. PICK o : o = Append(u, sig.a)
      OBVIOUS
    <3>2. c = Cursor(w, g, o) /\ g <= n
      <4>1. Take(Cursor(w, 0, u), "g1", form) = Cursor(w, 0 + Size("g1", form), o)
        BY <2>1, <2>4, <3>1, TakeReads DEF Kinds, Layouts
      <4>2. 0 + g = g /\ g <= n
        BY <1>2, <1>4, <2>1, <2>4 DEF LiesAt
      <4> QED
        BY <1>2, <1>5, <1>6, <1>8, <4>1, <4>2
    <3>3. ~Stuck(h) => FALSE
      <4> SUFFICES ASSUME ~Stuck(h) PROVE FALSE
        OBVIOUS
      <4>1. ~Stuck(TakeMany(Cursor(w, g, o), "fr", form, 2))
        BY <1>5, <1>8, <3>2
      <4>2. /\ Len(w) \in Nat /\ g <= Len(w) /\ 2 \in Nat /\ g \in Nat
            /\ "fr" \in Kinds /\ form \in Layouts
        BY <1>2, <1>4, <3>2 DEF Kinds, Layouts
      <4>3. g + 2 * Size("fr", form) <= Len(w)
        BY ONLY <4>1, <4>2, TakeManyFits
      <4>4. g + 2 * r <= n
        BY <1>2, <1>4, <4>3, SizeTellsForm
      <4> QED
        BY ONLY <1>4, <4>4, <1>2, n \in Nat
    <3> QED
      BY <3>3
  <2> QED
    BY <1>5, <2>2, <2>3, <2>4
<1>9. Stuck(h)
  BY <1>7, <1>8
<1>10. SignatureFromBytes(w) = Read(h, LAMBDA y : [a |-> y[1], e |-> y[2], s |-> y[3]])
  BY <1>5 DEF SignatureFromBytes, FormOfSignature
<1> QED
  BY <1>2, <1>3, <1>9, <1>10 DEF Read, Stuck

(* A single element is read back: the form is told by the length. *)
LEMMA FixedReads ==
  ASSUME NEW form \in Forms, NEW kind \in {"fr", "g1", "g2"}, NEW v
  PROVE  FixedFromBytes(kind, FixedToBytes(kind, v, form)) = Ok(v)
<1>1. PICK d : d = Bytes(kind, form, v) /\ d \in Seq(Byte({v})) /\ Len(d) = Size(kind, form)
  BY BytesAre DEF Kinds, Layouts
<1>2. PICK x : x = IF Len(d) = Size(kind, "compressed") THEN "compressed" ELSE "uncompressed"
  OBVIOUS
<1>3. d = Bytes(kind, x, v) /\ x \in Forms
  <2>1. CASE kind = "fr"
    <3>1. Size(kind, form) = Size(kind, x) /\ FormOf(kind, form) = FormOf(kind, x)
      BY <2>1 DEF Size, FormOf
    <3> QED
      BY <1>1, <1>2, <3>1 DEF Bytes, Forms
  <2>2. CASE kind = "g1"
    <3>1. x = form
      BY <1>1, <1>2, <2>2, SizeTellsForm DEF Forms
    <3> QED
      BY <1>1, <3>1
  <2>3. CASE kind = "g2"
    <3>1. PICK y, z \in Nat : y = Size("g1", form) /\ z = Size("g1", "compressed")
      BY SizesArePositive DEF Kinds, Layouts, Forms
    <3>2. Size("g2", form) = 2 * y /\ Size("g2", "compressed") = 2 * z
      BY <3>1, SizeTellsForm DEF Forms
    <3>3. x = form
      BY <1>1, <1>2, <2>3, <3>1, <3>2, SizeTellsForm DEF Forms
    <3> QED
      BY <1>1, <3>3
  <2> QED
    BY <2>1, <2>2, <2>3
<1>4. PICK c : c = Take(CursorOn(d), kind, x)
  OBVIOUS
<1>5. PICK z, o : IsOne(o, {v}, z, v)
  BY OneValue
<1>8. c = Cursor(d, 0 + Size(kind, x), o)
  <2>1. CursorOn(d) = Cursor(d, 0, z)
    BY <1>5 DEF CursorOn, Cursor, IsOne
  <2>2. LiesAt(d, 0, Bytes(kind, x, v))
    <3>1. Len(d) \in Nat
      BY <1>1, LenProperties
    <3> QED
      BY <1>3, <3>1 DEF LiesAt
  <2> QED
    <3>1. Take(Cursor(d, 0, z), kind, x) = Cursor(d, 0 + Size(kind, x), Append(z, v))
      BY <1>3, <2>2, TakeReads DEF Kinds, Layouts
    <3> QED
      BY <1>4, <1>5, <2>1, <3>1 DEF IsOne
<1>6. c.st = "ok" /\ c.out[1] = v
  BY <1>5, <1>8 DEF Cursor, IsOne
<1>7. FixedFromBytes(kind, d) = Read(c, LAMBDA y : y[1])
  BY <1>2, <1>4 DEF FixedFromBytes
<1> QED
  BY <1>1, <1>6, <1>7 DEF FixedToBytes, Read

(* A public key for n messages, over V, and its bytes: w, h0 and the number of
   generators, then the generators hs in f. *)
PlainKey(vk, n, V) ==
  /\ n \in Nat \ {0} /\ Nat \subseteq V
  /\ vk = [w |-> vk.w, h0 |-> vk.h0, h |-> [i \in 0..(n - 1) |-> vk.h[i]]]
  /\ vk.w \in V /\ vk.h0 \in V /\ \A i \in 0..(n - 1) : vk.h[i] \in V

KeyLayout(vk, n, form, V, d, hs, f, g, l) ==
  /\ g \in Nat \ {0} /\ l \in Nat \ {0} /\ g = Size("g1", form) /\ l = LEN_SIZE
  /\ n \in Nat \ {0} /\ n * g \in Nat /\ MessageCount(vk) = n
  /\ hs \in Seq(V) /\ Len(hs) = n /\ \A i \in 0..(n - 1) : hs[i + 1] = vk.h[i]
  /\ d = PublicKeyToBytes(vk, form) /\ d \in Seq(Byte(V)) /\ Len(d) = 3 * g + l + n * g
  /\ f = BytesOfAll("g1", form, hs) /\ f \in Seq(Byte(V)) /\ Len(f) = n * g
  /\ LiesAt(d, 0, Bytes("g2", form, vk.w)) /\ LiesAt(d, 2 * g, Bytes("g1", form, vk.h0))
  /\ LiesAt(d, 3 * g, Bytes("u32", form, n)) /\ LiesAt(d, 3 * g + l, f)

LEMMA KeyInParts ==
  ASSUME NEW form \in Forms, NEW V, NEW n, NEW vk, PlainKey(vk, n, V)
  PROVE  \E d, hs, f, g, l : KeyLayout(vk, n, form, V, d, hs, f, g, l)
<1>1. /\ vk.w \in V /\ vk.h0 \in V /\ n \in V /\ n \in Nat \ {0}
      /\ \A i \in 0..(n - 1) : vk.h[i] \in V
      /\ DOMAIN vk.h = 0..(n - 1)
  BY DEF PlainKey
<1>2. PICK g \in Nat \ {0}, l \in Nat \ {0} :
        /\ g = Size("g1", form) /\ l = LEN_SIZE /\ l = Size("u32", form)
        /\ 2 * g = Size("g2", form)
  BY SizeTellsForm
<1>3. PICK a \in Seq(Byte(V)) : a = Bytes("g2", form, vk.w) /\ Len(a) = 2 * g
  BY <1>1, <1>2, BytesAre DEF Kinds, Layouts
<1>4. PICK b \in Seq(Byte(V)) : b = Bytes("g1", form, vk.h0) /\ Len(b) = g
  BY <1>1, <1>2, BytesAre DEF Kinds, Layouts
<1>5. PICK c \in Seq(Byte(V)) : c = Bytes("u32", form, n) /\ Len(c) = l
  BY <1>1, <1>2, BytesAre DEF Kinds, Layouts
<1>6. MessageCount(vk) = n
  <2>1. Cardinality(0..(n - 1)) = n
    <3>1. Cardinality(0..(n - 1)) = IF 0 > n - 1 THEN 0 ELSE (n - 1) - 0 + 1
      BY <1>1, FS_Interval, 0 \in Int, n - 1 \in Int
    <3> QED
      BY <1>1, <3>1
  <2> QED
    BY <1>1, <2>1 DEF MessageCount
<1>7. PICK hs \in Seq(V) : /\ hs = [i \in 1..n |-> vk.h[i - 1]] /\ Len(hs) = n
                           /\ \A i \in 0..(n - 1) : hs[i + 1] = vk.h[i]
  <2>1. PICK s : s = [i \in 1..n |-> vk.h[i - 1]]
    OBVIOUS
  <2>2. \A i \in 1..n : i - 1 \in 0..(n - 1)
    BY <1>1
  <2>3. s \in [1..n -> V]
    BY <1>1, <2>1, <2>2
  <2>4. s \in Seq(V) /\ Len(s) = n
    <3>1. n \in Nat
      BY <1>1
    <3>2. s \in Seq(V)
      BY ONLY <2>3, <3>1
    <3>3. DOMAIN s = 1..n
      BY <2>3
    <3> QED
      BY <3>1, <3>2, <3>3, LenProperties
  <2>5. \A i \in 0..(n - 1) : i + 1 \in 1..n /\ (i + 1) - 1 = i
    BY <1>1
  <2>6. \A i \in 0..(n - 1) : s[i + 1] = vk.h[i]
    BY <2>1, <2>5
  <2> QED
    BY <2>1, <2>4, <2>6
<1>8. n * g \in Nat
  BY <1>1
<1>9. PICK f \in Seq(Byte(V)) : f = BytesOfAll("g1", form, hs) /\ Len(f) = n * g
  <2>1. PICK s : Stepwise(s, "g1", form, V, hs)
    BY BytesInSteps DEF Kinds, Layouts
  <2>2. n \in 0..Len(hs)
    BY <1>1, <1>7
  <2>3. /\ BytesOfAll("g1", form, hs) = s[n] /\ s[n] \in Seq(Byte(V))
        /\ Len(s[n]) = n * g
    BY <1>2, <1>7, <2>1, <2>2 DEF Stepwise
  <2> QED
    BY <2>3
<1>10. PICK d2 \in Seq(Byte(V)) : d2 = a \o b
  BY ConcatProperties
<1>11. PICK d3 \in Seq(Byte(V)) : d3 = d2 \o c
  BY ConcatProperties
<1>12. PICK d \in Seq(Byte(V)) : d = d3 \o f
  BY ConcatProperties
<1>13. d = PublicKeyToBytes(vk, form)
  BY <1>3, <1>4, <1>5, <1>6, <1>7, <1>9, <1>10, <1>11, <1>12 DEF PublicKeyToBytes
<1>14. LiesAt(d, 0, d3) /\ LiesAt(d, Len(d3), f) /\ Len(d) = Len(d3) + Len(f)
  <2>1. Begins(d, d, d3, f)
    <3>1. Len(d) \in Nat
      BY LenProperties
    <3> QED
      BY <1>12, <3>1 DEF LiesAt, Begins
  <2>2. Parted(d, d, d3, f)
    BY <2>1, BeginsInParts
  <2> QED
    BY <2>2 DEF Parted
<1>15. LiesAt(d, 0, d2) /\ LiesAt(d, Len(d2), c) /\ Len(d3) = Len(d2) + Len(c)
  <2>1. Begins(d, d3, d2, c)
    BY <1>11, <1>14 DEF Begins
  <2>2. Parted(d, d3, d2, c)
    BY <2>1, BeginsInParts
  <2> QED
    BY <2>2 DEF Parted
<1>16. LiesAt(d, 0, a) /\ LiesAt(d, Len(a), b) /\ Len(d2) = Len(a) + Len(b)
  <2>1. Begins(d, d2, a, b)
    BY <1>10, <1>15 DEF Begins
  <2>2. Parted(d, d2, a, b)
    BY <2>1, BeginsInParts
  <2> QED
    BY <2>2 DEF Parted
<1>17. Len(d2) = 3 * g /\ Len(d3) = 3 * g + l /\ Len(d) = 3 * g + l + n * g
  BY <1>3, <1>4, <1>5, <1>9, <1>14, <1>15, <1>16
<1>18. /\ LiesAt(d, 0, Bytes("g2", form, vk.w)) /\ LiesAt(d, 2 * g, Bytes("g1", form, vk.h0))
       /\ LiesAt(d, 3 * g, Bytes("u32", form, n)) /\ LiesAt(d, 3 * g + l, f)
  BY <1>3, <1>4, <1>5, <1>14, <1>15, <1>16, <1>17
<1>19. KeyLayout(vk, n, form, V, d, hs, f, g, l)
  BY <1>1, <1>2, <1>6, <1>7, <1>8, <1>9, <1>13, <1>17, <1>18 DEF KeyLayout
<1> QED
  BY <1>19

(* (A multiple of g leaves nothing.) *)
LEMMA MultiplesLeaveNothing ==
  ASSUME NEW g \in Nat \ {0}, NEW k \in Nat
  PROVE  (g * k) % g = 0
<1>1. PICK q \in Int, r \in Int : g * k = g * q + r /\ r = (g * k) % g /\ r >= 0 /\ r < g
  BY Euclid, g * k \in Int
<1>2. PICK t \in Int : t = k - q
  OBVIOUS
<1>3. g * t = r
  BY <1>1, <1>2
<1>4. t >= 1 => g * t >= g
  OBVIOUS
<1>5. t <= -1 => g * t <= -g
  <2> SUFFICES ASSUME t <= -1 PROVE g * t <= -g
    OBVIOUS
  <2>1. PICK u \in Nat : t = -1 - u
    <3>1. -1 - t \in Nat /\ t = -1 - (-1 - t)
      OBVIOUS
    <3> QED
      BY <3>1
  <2>2. g * t = -g - g * u /\ g * u \in Nat
    BY <2>1
  <2>3. PICK p \in Int, m \in Nat : p = g * t /\ m = g * u
    BY <2>2
  <2> QED
    BY <2>2, <2>3
<1>6. t = 0
  BY <1>1, <1>3, <1>4, <1>5
<1> QED
  BY <1>1, <1>3, <1>6

(* What is read of a key before its generators. *)
KeyHead(data, form) ==
  TakeOrPanic(Take(Take(CursorOn(data), "g2", form), "g1", form), "u32", form)
KeyRead(data, form) ==
  Onward(KeyHead(data, form), LAMBDA c : TakeMany(c, "g1", form, LastRead(c)))
KeyOf(data, form) ==
  Read(KeyRead(data, form), LAMBDA o :
    [w |-> o[1], h0 |-> o[2], h |-> [i \in 0..(Len(o) - 4) |-> o[i + 4]]])

(* A public key is read back as it was written (keys.rs PublicKey::to_bytes,
   from_bytes). *)
LEMMA KeyReads ==
  ASSUME NEW form \in Forms, NEW V, NEW n, NEW vk, PlainKey(vk, n, V),
         PublicKeyValidate(vk) = Ok(vk)
  PROVE  PublicKeyFromBytes(PublicKeyToBytes(vk, form), form) = Ok(vk)
<1>1. PICK d, hs, f, g, l : KeyLayout(vk, n, form, V, d, hs, f, g, l)
  BY KeyInParts
<1>2. /\ g \in Nat \ {0} /\ l \in Nat \ {0} /\ g = Size("g1", form) /\ l = LEN_SIZE
      /\ n \in Nat \ {0} /\ n * g \in Nat
      /\ hs \in Seq(V) /\ Len(hs) = n /\ \A i \in 0..(n - 1) : hs[i + 1] = vk.h[i]
      /\ d = PublicKeyToBytes(vk, form) /\ Len(d) = 3 * g + l + n * g
      /\ f = BytesOfAll("g1", form, hs)
      /\ LiesAt(d, 0, Bytes("g2", form, vk.w)) /\ LiesAt(d, 2 * g, Bytes("g1", form, vk.h0))
      /\ LiesAt(d, 3 * g, Bytes("u32", form, n)) /\ LiesAt(d, 3 * g + l, f)
  BY <1>1 DEF KeyLayout
<1>3. Size("g2", form) = 2 * g /\ Size("u32", form) = l
  BY <1>2, SizeTellsForm
<1>4. PICK z \in Seq(V) : z = << >>
  BY EmptySeq
<1>5. vk.w \in V /\ vk.h0 \in V /\ n \in V
  BY DEF PlainKey
<1>6. PICK o1 : o1 = Append(z, vk.w) /\ o1 \in Seq(V) /\ OneMore(z, vk.w, o1)
  BY <1>5, AppendTyped
<1>7. PICK o2 : o2 = Append(o1, vk.h0) /\ o2 \in Seq(V) /\ OneMore(o1, vk.h0, o2)
  BY <1>5, <1>6, AppendTyped
<1>8. PICK o3 : o3 = Append(o2, n) /\ o3 \in Seq(V) /\ OneMore(o2, n, o3)
  BY <1>5, <1>7, AppendTyped
<1>9. Len(o3) = 3 /\ o3[1] = vk.w /\ o3[2] = vk.h0 /\ o3[3] = n
  <2>1. Len(z) = 0
    BY <1>4
  <2>2. Len(o1) = 1 /\ o1[1] = vk.w
    BY <1>6, <2>1 DEF OneMore
  <2>3. Len(o2) = 2 /\ o2[1] = vk.w /\ o2[2] = vk.h0
    BY <1>7, <2>2 DEF OneMore
  <2> QED
    BY <1>8, <2>3 DEF OneMore
<1>10. KeyHead(d, form) = Cursor(d, 3 * g + l, o3)
  <2>0. 0 \in Nat /\ 2 * g \in Nat /\ 3 * g \in Nat
    <3>1. g \in Nat
      BY <1>2
    <3> QED
      BY ONLY <3>1
  <2>1. CursorOn(d) = Cursor(d, 0, z)
    BY <1>4 DEF CursorOn, Cursor
  <2>2. Take(Cursor(d, 0, z), "g2", form) = Cursor(d, 2 * g, o1)
    <3>1. ReadsOne("g2", form, vk.w, d, 0, z)
      <4>1. PICK p, x : p \in Nat /\ p = 0 /\ x = vk.w
        BY <2>0
      <4>2. "g2" \in Kinds /\ form \in Layouts /\ LiesAt(d, p, Bytes("g2", form, x))
        BY <1>2, <4>1 DEF Kinds, Layouts
      <4>3. ReadsOne("g2", form, x, d, p, z)
        BY ONLY <4>1, <4>2, OneIsRead
      <4> QED
        BY <4>1, <4>3
    <3>2. 0 + Size("g2", form) = 2 * g
      BY <1>2, <1>3
    <3> QED
      BY <1>6, <3>1, <3>2 DEF ReadsOne
  <2>3. Take(Cursor(d, 2 * g, o1), "g1", form) = Cursor(d, 3 * g, o2)
    <3>1. ReadsOne("g1", form, vk.h0, d, 2 * g, o1)
      <4>1. PICK p, x : p \in Nat /\ p = 2 * g /\ x = vk.h0
        BY <2>0
      <4>2. "g1" \in Kinds /\ form \in Layouts /\ LiesAt(d, p, Bytes("g1", form, x))
        BY <1>2, <4>1 DEF Kinds, Layouts
      <4>3. ReadsOne("g1", form, x, d, p, o1)
        BY ONLY <4>1, <4>2, OneIsRead
      <4> QED
        BY <4>1, <4>3
    <3>2. 2 * g + Size("g1", form) = 3 * g
      BY <1>2
    <3> QED
      BY <1>7, <3>1, <3>2 DEF ReadsOne
  <2>4. TakeOrPanic(Cursor(d, 3 * g, o2), "u32", form) = Cursor(d, 3 * g + l, o3)
    <3>1. ReadsOne("u32", form, n, d, 3 * g, o2)
      <4>1. PICK p, x : p \in Nat /\ p = 3 * g /\ x = n
        BY <2>0
      <4>2. "u32" \in Kinds /\ form \in Layouts /\ LiesAt(d, p, Bytes("u32", form, x))
        BY <1>2, <4>1 DEF Kinds, Layouts
      <4>3. ReadsOne("u32", form, x, d, p, o2)
        BY ONLY <4>1, <4>2, OneIsRead
      <4> QED
        BY <4>1, <4>3
    <3> QED
      BY <1>3, <1>8, <3>1 DEF ReadsOne
  <2> QED
    BY <2>1, <2>2, <2>3, <2>4 DEF KeyHead
<1>11. PICK q : q = o3 \o hs
  OBVIOUS
<1>12. KeyRead(d, form) = Cursor(d, 3 * g + l + n * g, q)
  <2>1. PICK c : c = Cursor(d, 3 * g + l, o3)
    OBVIOUS
  <2>2. c.st = "ok" /\ LastRead(c) = n
    BY <1>9, <2>1 DEF Cursor, LastRead
  <2>3. TakeMany(c, "g1", form, Len(hs))
          = Cursor(d, (3 * g + l) + Len(hs) * Size("g1", form), o3 \o hs)
    <3>1. "g1" \in Kinds /\ form \in Layouts /\ V \subseteq V /\ 3 * g + l \in Nat
      <4>1. g \in Nat /\ l \in Nat
        BY <1>2
      <4>2. 3 * g + l \in Nat
        BY ONLY <4>1
      <4> QED
        BY <4>2 DEF Kinds, Layouts
    <3>2. LiesAt(d, 3 * g + l, BytesOfAll("g1", form, hs)) /\ hs \in Seq(V) /\ o3 \in Seq(V)
      BY <1>2, <1>8
    <3> QED
      BY <2>1, <3>1, <3>2, TakeManyReads
  <2> QED
    BY <1>2, <1>10, <1>11, <2>1, <2>2, <2>3 DEF KeyRead, Onward
<1>13. Len(q) = 3 + n /\ q[1] = vk.w /\ q[2] = vk.h0 /\ \A i \in 0..(n - 1) : q[i + 4] = vk.h[i]
  <2>1. /\ n \in Nat \ {0} /\ Len(hs) = n /\ Len(o3) = 3 /\ o3 \in Seq(V) /\ hs \in Seq(V)
        /\ q = o3 \o hs
    BY <1>2, <1>8, <1>9, <1>11
  <2>2. /\ Len(q) = Len(o3) + Len(hs)
        /\ \A i \in 1..(Len(o3) + Len(hs)) :
             q[i] = IF i <= Len(o3) THEN o3[i] ELSE hs[i - Len(o3)]
    BY ONLY <2>1, ConcatProperties
  <2>3. Len(q) = 3 + n /\ \A i \in 1..(3 + n) : q[i] = IF i <= 3 THEN o3[i] ELSE hs[i - 3]
    BY ONLY <2>1, <2>2
  <2>4. q[1] = o3[1] /\ q[2] = o3[2]
    <3>1. 1 \in 1..(3 + n) /\ 2 \in 1..(3 + n)
      BY ONLY <2>1
    <3> QED
      BY ONLY <2>3, <3>1
  <2>5. ASSUME NEW i \in 0..(n - 1) PROVE q[i + 4] = vk.h[i]
    <3>1. i + 4 \in 1..(3 + n) /\ ~(i + 4 <= 3) /\ (i + 4) - 3 = i + 1
      BY ONLY <2>1, i \in 0..(n - 1)
    <3>2. q[i + 4] = hs[i + 1]
      BY ONLY <2>3, <3>1
    <3> QED
      BY <1>2, <3>2
  <2> QED
    BY <1>9, <2>3, <2>4, <2>5
<1>14. KeyOf(d, form) = Ok(vk)
  <2>1. PICK h : h = KeyRead(d, form)
    OBVIOUS
  <2>2. h.st = "ok" /\ h.out = q
    BY <1>12, <2>1 DEF Cursor
  <2>3. KeyOf(d, form) = Ok([w |-> q[1], h0 |-> q[2],
                             h |-> [i \in 0..(Len(q) - 4) |-> q[i + 4]]])
    BY <2>1, <2>2 DEF KeyOf, Read
  <2>4. Len(q) - 4 = n - 1
    BY <1>2, <1>13
  <2>5. [i \in 0..(Len(q) - 4) |-> q[i + 4]] = [i \in 0..(n - 1) |-> vk.h[i]]
    BY <1>13, <2>4
  <2> QED
    BY <1>13, <2>3, <2>5 DEF PlainKey
<1>15. ~(Len(d) < LEN_SIZE) /\ (Len(d) - LEN_SIZE) % Size("g1", form) = 0
  <2>1. Len(d) - l = 3 * g + n * g /\ ~(Len(d) < l)
    <3>1. PICK m \in Nat : m = n * g
      BY <1>2
    <3> QED
      BY <1>2, <3>1
  <2>2. 3 * g + n * g = g * (3 + n)
    BY <1>2
  <2>3. (g * (3 + n)) % g = 0
    BY <1>2, MultiplesLeaveNothing, 3 + n \in Nat
  <2> QED
    BY <1>2, <2>1, <2>2, <2>3
<1>16. PublicKeyFromBytes(d, form) = Try(KeyOf(d, form), PublicKeyValidate)
  BY <1>15 DEF PublicKeyFromBytes, KeyOf, KeyRead, KeyHead
<1>17. Try(Ok(vk), PublicKeyValidate) = Ok(vk)
  BY DEF Try, Ok
<1> QED
  BY <1>2, <1>14, <1>16, <1>17

(* The cursor c on the first n bytes got as far as at, or it has stopped. *)
AtOrStuck(c, w, n, at, out) == Stuck(c) \/ (c = Cursor(w, at, out) /\ at <= n)

(* The next element of what is cut. *)
LEMMA NextOrStuck ==
  ASSUME NEW kind \in Kinds, NEW form \in Layouts, NEW v, NEW d, NEW at \in Nat,
         LiesAt(d, at, Bytes(kind, form, v)), NEW n \in Nat, NEW w, CutTo(w, d, n),
         NEW c, NEW out, AtOrStuck(c, w, n, at, out)
  PROVE  /\ AtOrStuck(Take(c, kind, form), w, n, at + Size(kind, form), Append(out, v))
         /\ AtOrStuck(TakeOrPanic(c, kind, form), w, n, at + Size(kind, form), Append(out, v))
<1>1. CASE Stuck(c)
  BY <1>1, TakeStuck DEF AtOrStuck
<1>2. CASE c = Cursor(w, at, out) /\ at <= n
  <2>1. PICK b \in Seq(Byte({v})) : b = Bytes(kind, form, v) /\ Len(b) = Size(kind, form)
    BY BytesAre
  <2>2. LiesAt(w, at, b) \/ EndsWithin(w, at, b)
    BY <1>2, <2>1, CutLies
  <2>3. CASE EndsWithin(w, at, b)
    BY <1>2, <2>1, <2>3, TakeCut DEF AtOrStuck
  <2>4. CASE LiesAt(w, at, b)
    <3>1. ReadsOne(kind, form, v, w, at, out)
      BY <2>1, <2>4, OneIsRead
    <3>2. at + Size(kind, form) <= n
      BY <2>1, <2>4 DEF LiesAt, CutTo
    <3> QED
      BY <1>2, <3>1, <3>2 DEF AtOrStuck, ReadsOne
  <2> QED
    BY <2>2, <2>3, <2>4
<1> QED
  BY <1>1, <1>2 DEF AtOrStuck

(* The next elements. *)
LEMMA ManyOrStuck ==
  ASSUME NEW kind \in Kinds, NEW form \in Layouts, NEW V, NEW vs \in Seq(V),
         NEW W, V \subseteq W, NEW d, NEW at \in Nat,
         LiesAt(d, at, BytesOfAll(kind, form, vs)), NEW n \in Nat, NEW w, CutTo(w, d, n),
         NEW c, NEW out \in Seq(W), AtOrStuck(c, w, n, at, out)
  PROVE  AtOrStuck(TakeMany(c, kind, form, Len(vs)), w, n, at + Len(vs) * Size(kind, form),
                   out \o vs)
<1>1. Len(vs) \in Nat
  BY LenProperties
<1>2. CASE Stuck(c)
  BY <1>1, <1>2, TakeManyStuck DEF AtOrStuck
<1>3. CASE c = Cursor(w, at, out) /\ at <= n
  <2>1. PICK z \in Nat \ {0}, k \in Nat : z = Size(kind, form) /\ k = Len(vs)
    BY <1>1, SizesArePositive
  <2>2. PICK b \in Seq(Byte(V)) : b = BytesOfAll(kind, form, vs) /\ Len(b) = k * z
    <3>1. PICK s : Stepwise(s, kind, form, V, vs)
      BY BytesInSteps
    <3>2. k \in 0..Len(vs)
      BY <2>1
    <3>3. /\ BytesOfAll(kind, form, vs) = s[k] /\ s[k] \in Seq(Byte(V)) /\ Len(s[k]) = k * z
      BY <2>1, <3>1, <3>2 DEF Stepwise
    <3> QED
      BY <3>3
  <2>3. PICK h : h = TakeMany(Cursor(w, at, out), kind, form, k)
    OBVIOUS
  <2>4. Len(w) = n
    BY DEF CutTo
  <2>5. ASSUME ~Stuck(h)
        PROVE  h = Cursor(w, at + k * z, out \o vs) /\ at + k * z <= n
    <3>1. at + k * z <= n
      <4>1. at + k * Size(kind, form) <= Len(w)
        BY <1>3, <2>3, <2>4, <2>5, TakeManyFits
      <4> QED
        BY <2>1, <2>4, <4>1
    <3>2. LiesAt(w, at, b) \/ EndsWithin(w, at, b)
      BY <1>3, <2>2, CutLies
    <3>3. ~EndsWithin(w, at, b)
      BY <2>2, <2>4, <3>1 DEF EndsWithin
    <3>4. LiesAt(w, at, BytesOfAll(kind, form, vs))
      BY <2>2, <3>2, <3>3
    <3>5. TakeMany(Cursor(w, at, out), kind, form, Len(vs))
            = Cursor(w, at + Len(vs) * Size(kind, form), out \o vs)
      BY <3>4, TakeManyReads
    <3> QED
      BY <2>1, <2>3, <3>1, <3>5
  <2> QED
    BY <1>3, <2>1, <2>3, <2>5 DEF AtOrStuck
<1> QED
  BY <1>2, <1>3 DEF AtOrStuck

(* What ends within b is cut from it. *)
LEMMA EndsIsCut ==
  ASSUME NEW s, NEW b, EndsWithin(s, 0, b)
  PROVE  \E n \in Nat : CutTo(s, b, n) /\ n < Len(b) /\ Len(s) = n
<1>1. /\ Len(s) \in Nat /\ Len(s) < 0 + Len(b)
      /\ \A k \in 1..(Len(s) - 0) : s[0 + k] = b[k]
  BY DEF EndsWithin
<1>2. PICK n \in Nat : n = Len(s)
  BY <1>1
<1>3. n < Len(b)
  <2>1. n < 0 + Len(b)
    BY <1>1, <1>2
  <2> QED
    BY <2>1 DEF EndsWithin
<1>4. \A k \in 1..n : s[k] = b[k]
  <2>1. n - 0 = n /\ \A k \in 1..n : 0 + k = k
    OBVIOUS
  <2> QED
    BY <1>1, <1>2, <2>1
<1> QED
  BY <1>2, <1>3, <1>4 DEF CutTo

(* ... and the other way round. *)
LEMMA CutEnds ==
  ASSUME NEW s, NEW T, NEW b \in Seq(T), NEW n \in Nat, CutTo(s, b, n), n < Len(b)
  PROVE  EndsWithin(s, 0, b)
<1>1. Len(s) = n /\ \A k \in 1..n : s[k] = b[k]
  BY DEF CutTo
<1>2. PICK m \in Nat : m = Len(b)
  BY LenProperties
<1>3. n < 0 + m /\ n - 0 = n /\ 0 <= n /\ \A k \in 1..n : 0 + k = k
  BY <1>2
<1> QED
  BY <1>1, <1>2, <1>3 DEF EndsWithin

(* No key is read from a proper beginning of its bytes: it says how many
   generators there are. *)
LEMMA KeyCut ==
  ASSUME NEW form \in Forms, NEW V, NEW k, NEW vk, PlainKey(vk, k, V),
         NEW s, EndsWithin(s, 0, PublicKeyToBytes(vk, form))
  PROVE  PublicKeyFromBytes(s, form).st # "ok"
<1>1. PICK d, hs, f, g, l : KeyLayout(vk, k, form, V, d, hs, f, g, l)
  BY KeyInParts
<1>2. /\ g \in Nat \ {0} /\ l \in Nat \ {0} /\ g = Size("g1", form) /\ l = LEN_SIZE
      /\ k \in Nat \ {0} /\ k * g \in Nat /\ hs \in Seq(V) /\ Len(hs) = k
      /\ d = PublicKeyToBytes(vk, form) /\ Len(d) = 3 * g + l + k * g
      /\ f = BytesOfAll("g1", form, hs)
      /\ LiesAt(d, 0, Bytes("g2", form, vk.w)) /\ LiesAt(d, 2 * g, Bytes("g1", form, vk.h0))
      /\ LiesAt(d, 3 * g, Bytes("u32", form, k)) /\ LiesAt(d, 3 * g + l, f)
  BY <1>1 DEF KeyLayout
<1>3. Size("g2", form) = 2 * g /\ Size("u32", form) = l
  BY <1>2, SizeTellsForm
<1>4. PICK n \in Nat : CutTo(s, d, n) /\ n < Len(d) /\ Len(s) = n
  BY <1>2, EndsIsCut
<1>5. PICK z \in Seq(V) : z = << >>
  BY EmptySeq
<1>6. vk.w \in V /\ vk.h0 \in V /\ k \in V
  BY DEF PlainKey
<1>7. PICK o1 : o1 = Append(z, vk.w) /\ o1 \in Seq(V)
  BY <1>6, AppendTyped
<1>8. PICK o2 : o2 = Append(o1, vk.h0) /\ o2 \in Seq(V)
  BY <1>6, <1>7, AppendTyped
<1>9. PICK o3 : o3 = Append(o2, k) /\ o3 \in Seq(V) /\ OneMore(o2, k, o3)
  BY <1>6, <1>8, AppendTyped
<1>10. PICK c0, c1, c2, c3 :
         /\ c0 = CursorOn(s) /\ c1 = Take(c0, "g2", form) /\ c2 = Take(c1, "g1", form)
         /\ c3 = TakeOrPanic(c2, "u32", form)
  OBVIOUS
<1>11. 2 * g \in Nat /\ 3 * g \in Nat /\ 3 * g + l \in Nat /\ 0 \in Nat
  <2>1. g \in Nat /\ l \in Nat
    BY <1>2
  <2> QED
    BY ONLY <2>1
<1>12. AtOrStuck(c0, s, n, 0, z)
  BY <1>5, <1>10 DEF CursorOn, Cursor, AtOrStuck
<1>13. AtOrStuck(c1, s, n, 2 * g, o1)
  <2>1. AtOrStuck(c1, s, n, 0 + Size("g2", form), o1)
    BY <1>2, <1>4, <1>7, <1>10, <1>11, <1>12, NextOrStuck DEF Kinds, Layouts
  <2> QED
    BY <1>3, <1>11, <2>1
<1>14. AtOrStuck(c2, s, n, 3 * g, o2)
  <2>1. AtOrStuck(c2, s, n, 2 * g + Size("g1", form), o2)
    BY <1>2, <1>4, <1>8, <1>10, <1>11, <1>13, NextOrStuck DEF Kinds, Layouts
  <2>2. 2 * g + g = 3 * g
    BY <1>2
  <2> QED
    BY <1>2, <2>1, <2>2
<1>15. AtOrStuck(c3, s, n, 3 * g + l, o3)
  <2>1. AtOrStuck(c3, s, n, 3 * g + Size("u32", form), o3)
    BY <1>2, <1>4, <1>9, <1>10, <1>11, <1>14, NextOrStuck DEF Kinds, Layouts
  <2> QED
    BY <1>3, <2>1
<1>16. PICK h : h = KeyRead(s, form)
  OBVIOUS
<1>17. KeyHead(s, form) = c3
  BY <1>10 DEF KeyHead
<1>18. Stuck(h)
  <2>1. CASE Stuck(c3)
    BY <1>16, <1>17, <2>1 DEF KeyRead, Onward, Stuck
  <2>2. CASE ~Stuck(c3)
    <3>1. c3 = Cursor(s, 3 * g + l, o3)
      BY <1>15, <2>2 DEF AtOrStuck
    <3>2. c3.st = "ok" /\ LastRead(c3) = k
      <4>1. o3[Len(o3)] = k
        BY <1>9 DEF OneMore
      <4> QED
        BY <3>1, <4>1 DEF Cursor, LastRead
    <3>3. h = TakeMany(c3, "g1", form, Len(hs))
      BY <1>2, <1>16, <1>17, <3>2 DEF KeyRead, Onward
    <3>4. AtOrStuck(h, s, n, (3 * g + l) + Len(hs) * Size("g1", form), o3 \o hs)
      <4>1. "g1" \in Kinds /\ form \in Layouts /\ V \subseteq V
        BY DEF Kinds, Layouts
      <4>2. LiesAt(d, 3 * g + l, BytesOfAll("g1", form, hs)) /\ hs \in Seq(V)
        BY <1>2
      <4> QED
        BY <1>4, <1>9, <1>11, <1>15, <3>3, <4>1, <4>2, ManyOrStuck
    <3>5. ~((3 * g + l) + Len(hs) * Size("g1", form) <= n)
      <4>1. PICK m \in Nat : m = k * g
        BY <1>2
      <4>2. n < (3 * g + l) + m
        BY <1>2, <1>4, <4>1
      <4>3. Len(hs) * Size("g1", form) = m
        BY <1>2, <4>1
      <4> QED
        BY <1>11, <4>2, <4>3
    <3> QED
      BY <3>4, <3>5 DEF AtOrStuck
  <2> QED
    BY <2>1, <2>2
<1>19. KeyOf(s, form).st # "ok"
  BY <1>16, <1>18 DEF KeyOf, Read, Stuck
<1>20. PublicKeyFromBytes(s, form)
         = IF Len(s) < LEN_SIZE THEN Panic
           ELSE IF (Len(s) - LEN_SIZE) % Size("g1", form) # 0
           THEN Err("MalformedPublicKey")
           ELSE Try(KeyOf(s, form), PublicKeyValidate)
  BY DEF PublicKeyFromBytes, KeyOf, KeyRead, KeyHead
<1>21. Panic.st # "ok" /\ Err("MalformedPublicKey").st # "ok"
  BY DEF Panic, Err
<1>22. Try(KeyOf(s, form), PublicKeyValidate).st # "ok"
  BY <1>19 DEF Try
<1> QED
  BY <1>20, <1>21, <1>22

(* A length check at the head, of cut data or not. *)
LEMMA HeadOrStuck ==
  ASSUME NEW w, NEW n \in Nat, NEW z, z = << >>, NEW k
  PROVE  AtOrStuck(AtLeast(CursorOn(w), k), w, n, 0, z)
<1>1. PICK c : c = CursorOn(w)
  OBVIOUS
<1>2. c = Cursor(w, 0, z)
  BY <1>1 DEF CursorOn, Cursor
<1>3. Stuck([c EXCEPT !.st = "err"])
  BY <1>1 DEF CursorOn, Stuck
<1> QED
  BY <1>1, <1>2, <1>3 DEF AtLeast, AtOrStuck

LEMMA HeadReads ==
  ASSUME NEW d, NEW z, z = << >>, NEW k, ~(Len(d) < k)
  PROVE  AtLeast(CursorOn(d), k) = Cursor(d, 0, z)
<1>1. PICK c : c = CursorOn(d)
  OBVIOUS
<1>2. c = Cursor(d, 0, z) /\ c.data = d
  BY <1>1 DEF CursorOn, Cursor
<1> QED
  BY <1>1, <1>2 DEF AtLeast

(* A proof with its length before it, and one at the end, of what is cut. *)
LEMMA PrefixOrStuck ==
  ASSUME NEW form \in Forms, NEW V, Nat \subseteq V, NEW p, CommittedProof(p, V),
         NEW d, NEW at \in Nat, LiesAt(d, at, Prefixed(ProofG1ToBytes(p, form))),
         NEW n \in Nat, NEW w, CutTo(w, d, n), NEW W, Nat \subseteq W, NEW out \in Seq(W),
         NEW c, AtOrStuck(c, w, n, at, out)
  PROVE  AtOrStuck(TakeProof(c, form), w, n, at + Len(Prefixed(ProofG1ToBytes(p, form))),
                   Append(out, p))
<1>1. CASE Stuck(c)
  BY <1>1, ProofStuck DEF AtOrStuck
<1>2. CASE c = Cursor(w, at, out) /\ at <= n
  <2>1. PICK y \in Seq(Byte(V)) : y = Prefixed(ProofG1ToBytes(p, form))
    BY ProofBytesAre
  <2>2. LiesAt(w, at, y) \/ EndsWithin(w, at, y)
    BY <1>2, <2>1, CutLies
  <2>3. ASSUME LiesAt(w, at, y)
        PROVE  TakeProof(c, form) = Cursor(w, at + Len(y), Append(out, p)) /\ at + Len(y) <= n
    <3>1. AtCursor(w, at, Prefixed(ProofG1ToBytes(p, form)), p, V, W, out)
      BY <2>1, <2>3 DEF AtCursor
    <3>2. TakeProof(Cursor(w, at, out), form)
            = Cursor(w, at + Len(Prefixed(ProofG1ToBytes(p, form))), Append(out, p))
      BY <3>1, PrefixedReads
    <3>3. at + Len(y) <= n
      BY <2>3 DEF LiesAt, CutTo
    <3> QED
      BY <1>2, <2>1, <3>2, <3>3
  <2>4. ASSUME EndsWithin(w, at, y) PROVE Stuck(TakeProof(c, form))
    BY <1>2, <2>1, <2>4, PrefixedCut
  <2> QED
    BY <2>1, <2>2, <2>3, <2>4 DEF AtOrStuck
<1> QED
  BY <1>1, <1>2 DEF AtOrStuck

LEMMA LastIsStuck ==
  ASSUME NEW form \in Forms, NEW V, Nat \subseteq V, NEW p, CommittedProof(p, V),
         NEW d, NEW at \in Nat, LiesAt(d, at, ProofG1ToBytes(p, form)),
         Len(d) = at + Len(ProofG1ToBytes(p, form)),
         NEW n \in Nat, n < Len(d), NEW w, CutTo(w, d, n), NEW out,
         NEW c, AtOrStuck(c, w, n, at, out)
  PROVE  Stuck(TakeLast(c, form))
<1>1. CASE Stuck(c)
  BY <1>1, ProofStuck
<1>2. CASE c = Cursor(w, at, out) /\ at <= n
  <2>1. PICK y \in Seq(Byte(V)) : y = ProofG1ToBytes(p, form)
    BY ProofBytesAre
  <2>2. LiesAt(w, at, y) \/ EndsWithin(w, at, y)
    BY <1>2, <2>1, CutLies
  <2>3. ~LiesAt(w, at, y)
    <3>1. PICK m \in Nat : m = Len(y)
      BY LenProperties
    <3>2. Len(w) = n /\ n < at + m
      BY <2>1, <3>1 DEF CutTo
    <3> QED
      BY <3>1, <3>2 DEF LiesAt
  <2> QED
    BY <1>2, <2>1, <2>2, <2>3, RestCut
<1> QED
  BY <1>1, <1>2 DEF AtOrStuck

(* The head of a proof's bytes. *)
LEMMA ProofIsLong ==
  ASSUME NEW form \in Forms, NEW V, Nat \subseteq V, NEW p, CommittedProof(p, V)
  PROVE  /\ Len(ProofG1ToBytes(p, form)) \in Nat
         /\ Len(ProofG1ToBytes(p, form)) >= Size("g1", form) + LEN_SIZE
<1>1. p.commitment \in V /\ Len(p.responses) \in V /\ p.responses \in Seq(V)
  BY LenProperties DEF CommittedProof
<1>2. PICK g \in Nat \ {0}, l \in Nat \ {0} :
        g = Size("g1", form) /\ l = LEN_SIZE /\ l = Size("u32", form)
  BY SizeTellsForm
<1>3. PICK a \in Seq(Byte(V)) : a = Bytes("g1", form, p.commitment) /\ Len(a) = g
  BY <1>1, <1>2, BytesAre DEF Kinds, Layouts
<1>4. PICK b \in Seq(Byte(V)) : b = Bytes("u32", form, Len(p.responses)) /\ Len(b) = l
  BY <1>1, <1>2, BytesAre DEF Kinds, Layouts
<1>5. PICK f \in Seq(Byte(V)) : f = BytesOfAll("fr", form, p.responses)
  <2>1. PICK s : Stepwise(s, "fr", form, V, p.responses)
    BY <1>1, BytesInSteps DEF Kinds, Layouts
  <2>2. Len(p.responses) \in 0..Len(p.responses)
    BY <1>1, LenProperties
  <2> QED
    BY <2>1, <2>2 DEF Stepwise
<1>6. PICK e \in Seq(Byte(V)) : e = a \o b /\ Len(e) = g + l
  BY <1>3, <1>4, ConcatProperties
<1>7. PICK d \in Seq(Byte(V)) : d = e \o f /\ Len(d) = Len(e) + Len(f)
  BY ConcatProperties
<1>8. d = ProofG1ToBytes(p, form)
  BY <1>3, <1>4, <1>5, <1>6, <1>7 DEF ProofG1ToBytes
<1>9. Len(f) \in Nat /\ Len(d) \in Nat
  BY LenProperties
<1> QED
  BY <1>2, <1>6, <1>7, <1>8, <1>9

(* A blind signing context over V, and its bytes: the commitment, the challenge
   and the proof b. *)
PlainContext(x, V) ==
  /\ x = [commitment |-> x.commitment, challenge_hash |-> x.challenge_hash, proof |-> x.proof]
  /\ x.commitment \in V /\ x.challenge_hash \in V /\ CommittedProof(x.proof, V)

ContextLayout(x, form, V, d, b, g, r, l) ==
  /\ g \in Nat \ {0} /\ r \in Nat \ {0} /\ l \in Nat \ {0}
  /\ g = Size("g1", form) /\ r = FR_SIZE /\ r = Size("fr", form) /\ l = LEN_SIZE
  /\ d = ContextToBytes(x, form) /\ d \in Seq(Byte(V)) /\ Len(d) = (g + r) + Len(b)
  /\ b = ProofG1ToBytes(x.proof, form) /\ b \in Seq(Byte(V)) /\ Len(b) \in Nat
  /\ Len(b) >= g + l
  /\ LiesAt(d, 0, Bytes("g1", form, x.commitment))
  /\ LiesAt(d, g, Bytes("fr", form, x.challenge_hash)) /\ LiesAt(d, g + r, b)

LEMMA ContextInParts ==
  ASSUME NEW form \in Forms, NEW V, Nat \subseteq V, NEW x, PlainContext(x, V)
  PROVE  \E d, b, g, r, l : ContextLayout(x, form, V, d, b, g, r, l)
<1>1. x.commitment \in V /\ x.challenge_hash \in V /\ CommittedProof(x.proof, V)
  BY DEF PlainContext
<1>2. PICK g \in Nat \ {0}, r \in Nat \ {0}, l \in Nat \ {0} :
        g = Size("g1", form) /\ r = FR_SIZE /\ r = Size("fr", form) /\ l = LEN_SIZE
  BY SizeTellsForm
<1>3. PICK a \in Seq(Byte(V)) : a = Bytes("g1", form, x.commitment) /\ Len(a) = g
  BY <1>1, <1>2, BytesAre DEF Kinds, Layouts
<1>4. PICK c \in Seq(Byte(V)) : c = Bytes("fr", form, x.challenge_hash) /\ Len(c) = r
  BY <1>1, <1>2, BytesAre DEF Kinds, Layouts
<1>5. PICK b \in Seq(Byte(V)) : b = ProofG1ToBytes(x.proof, form)
  BY <1>1, ProofBytesAre
<1>6. Len(b) \in Nat /\ Len(b) >= g + l
  BY <1>1, <1>2, <1>5, ProofIsLong
<1>7. PICK e \in Seq(Byte(V)) : e = a \o c
  BY ConcatProperties
<1>8. PICK d \in Seq(Byte(V)) : d = e \o b
  BY ConcatProperties
<1>9. d = ContextToBytes(x, form)
  BY <1>3, <1>4, <1>5, <1>7, <1>8 DEF ContextToBytes
<1>10. LiesAt(d, 0, e) /\ LiesAt(d, Len(e), b) /\ Len(d) = Len(e) + Len(b)
  <2>1. Begins(d, d, e, b)
    <3>1. Len(d) \in Nat
      BY LenProperties
    <3> QED
      BY <1>8, <3>1 DEF LiesAt, Begins
  <2>2. Parted(d, d, e, b)
    BY <2>1, BeginsInParts
  <2> QED
    BY <2>2 DEF Parted
<1>11. LiesAt(d, 0, a) /\ LiesAt(d, g, c) /\ Len(e) = g + r
  <2>1. Begins(d, e, a, c)
    BY <1>7, <1>10 DEF Begins
  <2>2. Parted(d, e, a, c)
    BY <2>1, BeginsInParts
  <2> QED
    BY <1>3, <1>4, <2>2 DEF Parted
<1>12. ContextLayout(x, form, V, d, b, g, r, l)
  BY <1>2, <1>3, <1>4, <1>5, <1>6, <1>9, <1>10, <1>11 DEF ContextLayout
<1> QED
  BY <1>12

(* What is read of a context before its proof. *)
ContextHead(data, form) ==
  Take(Take(AtLeast(CursorOn(data), 2 * Size("g1", form) + FR_SIZE + LEN_SIZE), "g1", form),
       "fr", form)

(* A context is read back as it was written (lib.rs BlindSignatureContext). *)
LEMMA ContextReads ==
  ASSUME NEW form \in Forms, NEW V, Nat \subseteq V, NEW x, PlainContext(x, V)
  PROVE  ContextFromBytes(ContextToBytes(x, form), form) = Ok(x)
<1>1. PICK d, b, g, r, l : ContextLayout(x, form, V, d, b, g, r, l)
  BY ContextInParts
<1>2. /\ g \in Nat \ {0} /\ r \in Nat \ {0} /\ l \in Nat \ {0}
      /\ g = Size("g1", form) /\ r = FR_SIZE /\ r = Size("fr", form) /\ l = LEN_SIZE
      /\ d = ContextToBytes(x, form) /\ Len(d) = (g + r) + Len(b)
      /\ b = ProofG1ToBytes(x.proof, form) /\ Len(b) \in Nat /\ Len(b) >= g + l
      /\ LiesAt(d, 0, Bytes("g1", form, x.commitment))
      /\ LiesAt(d, g, Bytes("fr", form, x.challenge_hash)) /\ LiesAt(d, g + r, b)
  BY <1>1 DEF ContextLayout
<1>3. PICK z \in Seq(V) : z = << >> /\ Len(z) = 0
  BY EmptySeq
<1>4. x.commitment \in V /\ x.challenge_hash \in V /\ CommittedProof(x.proof, V)
  BY DEF PlainContext
<1>5. PICK o1 : o1 = Append(z, x.commitment) /\ o1 \in Seq(V) /\ OneMore(z, x.commitment, o1)
  BY <1>4, AppendTyped
<1>6. PICK o2 : /\ o2 = Append(o1, x.challenge_hash) /\ o2 \in Seq(V)
                /\ OneMore(o1, x.challenge_hash, o2)
  BY <1>4, <1>5, AppendTyped
<1>7. PICK W : W = V \union {x.proof}
  OBVIOUS
<1>8. o2 \in Seq(W) /\ x.proof \in W /\ Nat \subseteq W
  <2>1. V \subseteq W
    BY <1>7
  <2> QED
    BY <1>6, <1>7, <2>1, SeqMonotonic
<1>9. PICK o3 : o3 = Append(o2, x.proof) /\ OneMore(o2, x.proof, o3)
  BY <1>8, AppendTyped
<1>10. o3[1] = x.commitment /\ o3[2] = x.challenge_hash /\ o3[3] = x.proof
  <2>1. Len(o1) = 1 /\ o1[1] = x.commitment
    BY <1>3, <1>5 DEF OneMore
  <2>2. Len(o2) = 2 /\ o2[1] = x.commitment /\ o2[2] = x.challenge_hash
    BY <1>6, <2>1 DEF OneMore
  <2> QED
    BY <1>9, <2>2 DEF OneMore
<1>11. ContextHead(d, form) = Cursor(d, g + r, o2)
  <2>1. ~(Len(d) < 2 * g + r + l)
    BY <1>2
  <2>2. AtLeast(CursorOn(d), 2 * g + r + l) = Cursor(d, 0, z)
    BY <1>3, <2>1, HeadReads
  <2>3. Take(Cursor(d, 0, z), "g1", form) = Cursor(d, g, o1)
    <3>1. ReadsOne("g1", form, x.commitment, d, 0, z)
      BY <1>2, OneIsRead, 0 \in Nat DEF Kinds, Layouts
    <3>2. 0 + Size("g1", form) = g
      BY <1>2
    <3> QED
      BY <1>5, <3>1, <3>2 DEF ReadsOne
  <2>4. Take(Cursor(d, g, o1), "fr", form) = Cursor(d, g + r, o2)
    <3>1. ReadsOne("fr", form, x.challenge_hash, d, g, o1)
      BY <1>2, OneIsRead DEF Kinds, Layouts
    <3> QED
      BY <1>2, <1>6, <3>1 DEF ReadsOne
  <2> QED
    BY <1>2, <2>2, <2>3, <2>4 DEF ContextHead
<1>12. PICK h : h = TakeLast(ContextHead(d, form), form)
  OBVIOUS
<1>13. h = Cursor(d, Len(d), o3)
  <2>1. AtCursor(d, g + r, ProofG1ToBytes(x.proof, form), x.proof, V, W, o2)
    BY <1>2, <1>4, <1>8 DEF AtCursor
  <2>2. Len(d) = (g + r) + Len(ProofG1ToBytes(x.proof, form))
    BY <1>2
  <2> QED
    BY <1>9, <1>11, <1>12, <2>1, <2>2, RestReads
<1>14. ContextFromBytes(d, form)
         = Read(h, LAMBDA o : [commitment |-> o[1], challenge_hash |-> o[2], proof |-> o[3]])
  BY <1>12 DEF ContextFromBytes, ContextHead, TakeLast
<1>15. h.st = "ok" /\ h.out = o3
  BY <1>13 DEF Cursor
<1>16. ContextFromBytes(d, form)
         = Ok([commitment |-> x.commitment, challenge_hash |-> x.challenge_hash,
               proof |-> x.proof])
  BY <1>10, <1>14, <1>15 DEF Read
<1> QED
  BY <1>2, <1>16 DEF PlainContext

(* No context is read from a proper beginning of its bytes. *)
LEMMA ContextCut ==
  ASSUME NEW form \in Forms, NEW V, Nat \subseteq V, NEW x, PlainContext(x, V),
         NEW n \in Nat, n < Len(ContextToBytes(x, form))
  PROVE  ContextFromBytes(SubSeq(ContextToBytes(x, form), 1, n), form).st # "ok"
<1>1. PICK d, b, g, r, l : ContextLayout(x, form, V, d, b, g, r, l)
  BY ContextInParts
<1>2. /\ g \in Nat \ {0} /\ r \in Nat \ {0}
      /\ g = Size("g1", form) /\ r = Size("fr", form)
      /\ d = ContextToBytes(x, form) /\ Len(d) = (g + r) + Len(b) /\ d \in Seq(Byte(V))
      /\ b = ProofG1ToBytes(x.proof, form)
      /\ LiesAt(d, 0, Bytes("g1", form, x.commitment))
      /\ LiesAt(d, g, Bytes("fr", form, x.challenge_hash)) /\ LiesAt(d, g + r, b)
  BY <1>1 DEF ContextLayout
<1>3. PICK w : w = SubSeq(d, 1, n)
  OBVIOUS
<1>4. CutTo(w, d, n) /\ n < Len(d)
  <2>1. n < Len(d) /\ n <= Len(d)
    BY <1>2, LenProperties
  <2> QED
    BY <1>2, <1>3, <2>1, BeginningIs
<1>5. PICK z : z = << >>
  OBVIOUS
<1>6. PICK c0, c1, c2, h :
        /\ c0 = AtLeast(CursorOn(w), 2 * Size("g1", form) + FR_SIZE + LEN_SIZE)
        /\ c1 = Take(c0, "g1", form) /\ c2 = Take(c1, "fr", form) /\ h = TakeLast(c2, form)
  OBVIOUS
<1>7. PICK o1, o2 : o1 = Append(z, x.commitment) /\ o2 = Append(o1, x.challenge_hash)
  OBVIOUS
<1>8. AtOrStuck(c0, w, n, 0, z)
  BY <1>5, <1>6, HeadOrStuck
<1>9. AtOrStuck(c1, w, n, g, o1)
  <2>1. AtOrStuck(c1, w, n, 0 + Size("g1", form), o1)
    BY <1>2, <1>4, <1>6, <1>7, <1>8, NextOrStuck, 0 \in Nat DEF Kinds, Layouts
  <2> QED
    BY <1>2, <2>1
<1>10. AtOrStuck(c2, w, n, g + r, o2)
  BY <1>2, <1>4, <1>6, <1>7, <1>9, NextOrStuck DEF Kinds, Layouts
<1>11. Stuck(h)
  <2>1. CommittedProof(x.proof, V)
    BY DEF PlainContext
  <2> QED
    BY <1>2, <1>4, <1>6, <1>10, <2>1, LastIsStuck
<1>12. ContextFromBytes(w, form)
         = Read(h, LAMBDA o : [commitment |-> o[1], challenge_hash |-> o[2], proof |-> o[3]])
  BY <1>6 DEF ContextFromBytes, TakeLast
<1> QED
  BY <1>2, <1>3, <1>11, <1>12 DEF Read, Stuck

(* A proof of knowledge of a signature over V, and its bytes: three points in a,
   the first proof with its length in b, the second in e. *)
PlainPoK(p, V) ==
  /\ p = [rz |-> [a_prime |-> p.rz.a_prime, a_bar |-> p.rz.a_bar, d |-> p.rz.d],
          proof_vc_1 |-> p.proof_vc_1, proof_vc_2 |-> p.proof_vc_2]
  /\ p.rz.a_prime \in V /\ p.rz.a_bar \in V /\ p.rz.d \in V
  /\ CommittedProof(p.proof_vc_1, V) /\ CommittedProof(p.proof_vc_2, V)

PoKLayout(p, form, V, d, vs, b, e, g) ==
  /\ g \in Nat \ {0} /\ g = Size("g1", form)
  /\ vs \in Seq(V) /\ Len(vs) = 3
  /\ vs[1] = p.rz.a_prime /\ vs[2] = p.rz.a_bar /\ vs[3] = p.rz.d
  /\ d = SignaturePoKToBytes(p, form) /\ d \in Seq(Byte(V)) /\ Len(d) = (3 * g + Len(b)) + Len(e)
  /\ b = Prefixed(ProofG1ToBytes(p.proof_vc_1, form)) /\ b \in Seq(Byte(V)) /\ Len(b) \in Nat
  /\ e = ProofG1ToBytes(p.proof_vc_2, form) /\ e \in Seq(Byte(V)) /\ Len(e) \in Nat
  /\ LiesAt(d, 0, BytesOfAll("g1", form, vs))
  /\ LiesAt(d, 3 * g, b) /\ LiesAt(d, 3 * g + Len(b), e)

LEMMA PoKInParts ==
  ASSUME NEW form \in Forms, NEW V, Nat \subseteq V, NEW p, PlainPoK(p, V)
  PROVE  \E d, vs, b, e, g : PoKLayout(p, form, V, d, vs, b, e, g)
<1>1. /\ p.rz.a_prime \in V /\ p.rz.a_bar \in V /\ p.rz.d \in V
      /\ CommittedProof(p.proof_vc_1, V) /\ CommittedProof(p.proof_vc_2, V)
  BY DEF PlainPoK
<1>2. PICK g \in Nat \ {0} : g = Size("g1", form)
  BY SizeTellsForm
<1>3. PICK vs \in Seq(V) : /\ vs = <<p.rz.a_prime, p.rz.a_bar, p.rz.d>> /\ Len(vs) = 3
                           /\ vs[1] = p.rz.a_prime /\ vs[2] = p.rz.a_bar /\ vs[3] = p.rz.d
  <2>1. PICK x \in V, y \in V, z \in V : x = p.rz.a_prime /\ y = p.rz.a_bar /\ z = p.rz.d
    BY <1>1
  <2>2. <<x, y, z>> \in Seq(V) /\ Len(<<x, y, z>>) = 3
    OBVIOUS
  <2>3. <<x, y, z>>[1] = x /\ <<x, y, z>>[2] = y /\ <<x, y, z>>[3] = z
    OBVIOUS
  <2> QED
    BY <2>1, <2>2, <2>3
<1>4. PICK a \in Seq(Byte(V)) : a = BytesOfAll("g1", form, vs) /\ Len(a) = 3 * g
  <2>1. PICK s : Stepwise(s, "g1", form, V, vs)
    BY BytesInSteps DEF Kinds, Layouts
  <2>2. /\ BytesOfAll("g1", form, vs) = s[3] /\ s[3] \in Seq(Byte(V)) /\ Len(s[3]) = 3 * g
    BY <1>2, <1>3, <2>1 DEF Stepwise
  <2> QED
    BY <2>2
<1>5. PICK b \in Seq(Byte(V)) : b = Prefixed(ProofG1ToBytes(p.proof_vc_1, form))
  BY <1>1, ProofBytesAre
<1>6. PICK e \in Seq(Byte(V)) : e = ProofG1ToBytes(p.proof_vc_2, form)
  BY <1>1, ProofBytesAre
<1>7. PICK f \in Seq(Byte(V)) : f = a \o b
  BY ConcatProperties
<1>8. PICK d \in Seq(Byte(V)) : d = f \o e
  BY ConcatProperties
<1>9. d = SignaturePoKToBytes(p, form)
  BY <1>3, <1>4, <1>5, <1>6, <1>7, <1>8 DEF SignaturePoKToBytes
<1>10. LiesAt(d, 0, f) /\ LiesAt(d, Len(f), e) /\ Len(d) = Len(f) + Len(e)
  <2>1. Begins(d, d, f, e)
    <3>1. Len(d) \in Nat
      BY LenProperties
    <3> QED
      BY <1>8, <3>1 DEF LiesAt, Begins
  <2>2. Parted(d, d, f, e)
    BY <2>1, BeginsInParts
  <2> QED
    BY <2>2 DEF Parted
<1>11. LiesAt(d, 0, a) /\ LiesAt(d, 3 * g, b) /\ Len(f) = 3 * g + Len(b)
  <2>1. Begins(d, f, a, b)
    BY <1>7, <1>10 DEF Begins
  <2>2. Parted(d, f, a, b)
    BY <2>1, BeginsInParts
  <2> QED
    BY <1>4, <2>2 DEF Parted
<1>12. Len(b) \in Nat /\ Len(e) \in Nat
  BY LenProperties
<1>13. PoKLayout(p, form, V, d, vs, b, e, g)
  BY <1>2, <1>3, <1>4, <1>5, <1>6, <1>9, <1>10, <1>11, <1>12 DEF PoKLayout
<1> QED
  BY <1>13

(* What is read of it before its proofs. *)
PoKHead(data, form) ==
  TakeMany(AtLeast(CursorOn(data), 3 * Size("g1", form)), "g1", form, 3)

(* It is read back as it was written (pok_sig.rs PoKOfSignatureProof). *)
LEMMA PoKReads ==
  ASSUME NEW form \in Forms, NEW V, Nat \subseteq V, NEW p, PlainPoK(p, V)
  PROVE  /\ SignaturePoKFromBytes(SignaturePoKToBytes(p, form), form) = Ok(p)
         /\ SignaturePoKToBytes(p, form) \in Seq(Byte(V))
<1>1. PICK d, vs, b, e, g : PoKLayout(p, form, V, d, vs, b, e, g)
  BY PoKInParts
<1>2. /\ g \in Nat \ {0} /\ g = Size("g1", form) /\ vs \in Seq(V) /\ Len(vs) = 3
      /\ vs[1] = p.rz.a_prime /\ vs[2] = p.rz.a_bar /\ vs[3] = p.rz.d
      /\ d = SignaturePoKToBytes(p, form) /\ d \in Seq(Byte(V))
      /\ Len(d) = (3 * g + Len(b)) + Len(e)
      /\ b = Prefixed(ProofG1ToBytes(p.proof_vc_1, form)) /\ Len(b) \in Nat
      /\ e = ProofG1ToBytes(p.proof_vc_2, form) /\ Len(e) \in Nat
      /\ LiesAt(d, 0, BytesOfAll("g1", form, vs))
      /\ LiesAt(d, 3 * g, b) /\ LiesAt(d, 3 * g + Len(b), e)
  BY <1>1 DEF PoKLayout
<1>3. CommittedProof(p.proof_vc_1, V) /\ CommittedProof(p.proof_vc_2, V)
  BY DEF PlainPoK
<1>4. PICK z \in Seq(V) : z = << >>
  BY EmptySeq
<1>5. PoKHead(d, form) = Cursor(d, 3 * g, vs)
  <2>1. ~(Len(d) < 3 * g)
    BY <1>2
  <2>2. AtLeast(CursorOn(d), 3 * g) = Cursor(d, 0, z)
    BY <1>4, <2>1, HeadReads
  <2>3. TakeMany(Cursor(d, 0, z), "g1", form, Len(vs))
          = Cursor(d, 0 + Len(vs) * Size("g1", form), z \o vs)
    <3>1. LiesAt(d, 0, BytesOfAll("g1", form, vs)) /\ 0 \in Nat
      BY <1>2
    <3>2. "g1" \in Kinds /\ form \in Layouts /\ V \subseteq V /\ vs \in Seq(V)
      BY <1>2 DEF Kinds, Layouts
    <3> QED
      BY <3>1, <3>2, TakeManyReads
  <2>4. z \o vs = vs /\ 0 + 3 * g = 3 * g
    BY <1>2, <1>4, ConcatEmptySeq
  <2> QED
    BY <1>2, <2>2, <2>3, <2>4 DEF PoKHead
<1>6. PICK W : W = V \union {p.proof_vc_1, p.proof_vc_2}
  OBVIOUS
<1>7. vs \in Seq(W) /\ p.proof_vc_1 \in W /\ p.proof_vc_2 \in W /\ Nat \subseteq W
  <2>1. V \subseteq W
    BY <1>6
  <2> QED
    BY <1>2, <1>6, <2>1, SeqMonotonic
<1>8. PICK o1 : /\ o1 = Append(vs, p.proof_vc_1) /\ o1 \in Seq(W)
                /\ OneMore(vs, p.proof_vc_1, o1)
  BY <1>7, AppendTyped
<1>9. PICK o2 : o2 = Append(o1, p.proof_vc_2) /\ OneMore(o1, p.proof_vc_2, o2)
  BY <1>7, <1>8, AppendTyped
<1>10. /\ o2[1] = vs[1] /\ o2[2] = vs[2] /\ o2[3] = vs[3]
       /\ o2[4] = p.proof_vc_1 /\ o2[5] = p.proof_vc_2
  <2>1. /\ Len(o1) = 4 /\ o1[1] = vs[1] /\ o1[2] = vs[2] /\ o1[3] = vs[3]
        /\ o1[4] = p.proof_vc_1
    BY <1>2, <1>8 DEF OneMore
  <2> QED
    BY <1>9, <2>1 DEF OneMore
<1>11. TakeProof(Cursor(d, 3 * g, vs), form) = Cursor(d, 3 * g + Len(b), o1)
  <2>1. 3 * g \in Nat
    BY <1>2
  <2>2. AtCursor(d, 3 * g, Prefixed(ProofG1ToBytes(p.proof_vc_1, form)), p.proof_vc_1, V, W, vs)
    BY <1>2, <1>3, <1>7, <2>1 DEF AtCursor
  <2> QED
    BY <1>2, <1>8, <2>2, PrefixedReads
<1>12. PICK h : h = TakeLast(TakeProof(PoKHead(d, form), form), form)
  OBVIOUS
<1>13. h = Cursor(d, Len(d), o2)
  <2>1. 3 * g + Len(b) \in Nat
    BY <1>2
  <2>2. AtCursor(d, 3 * g + Len(b), ProofG1ToBytes(p.proof_vc_2, form), p.proof_vc_2, V, W, o1)
    BY <1>2, <1>3, <1>7, <1>8, <2>1 DEF AtCursor
  <2>3. Len(d) = (3 * g + Len(b)) + Len(ProofG1ToBytes(p.proof_vc_2, form))
    BY <1>2
  <2> QED
    BY <1>5, <1>9, <1>11, <1>12, <2>2, <2>3, RestReads
<1>14. SignaturePoKFromBytes(d, form)
         = Read(h, LAMBDA o : [rz |-> [a_prime |-> o[1], a_bar |-> o[2], d |-> o[3]],
                               proof_vc_1 |-> o[4], proof_vc_2 |-> o[5]])
  BY <1>12 DEF SignaturePoKFromBytes, PoKHead, TakeProof, TakeLast
<1>15. h.st = "ok" /\ h.out = o2
  BY <1>13 DEF Cursor
<1>16. SignaturePoKFromBytes(d, form)
         = Ok([rz |-> [a_prime |-> vs[1], a_bar |-> vs[2], d |-> vs[3]],
               proof_vc_1 |-> p.proof_vc_1, proof_vc_2 |-> p.proof_vc_2])
  BY <1>10, <1>14, <1>15 DEF Read
<1> QED
  BY <1>2, <1>16 DEF PlainPoK
(* The length before b, and what is then found: h is the cursor after it. *)
LengthFound(c, h, n, data, at, b, out) ==
  /\ c.st = "ok" /\ LastRead(c) = n /\ n \in Nat /\ n = Len(b)
  /\ DropLast(c) = h /\ h.st = "ok" /\ h.out = out /\ h.data = data
  /\ h.at \in Nat /\ h.at + n = at + Len(Prefixed(b)) /\ ~(h.at + n > Len(data))
  /\ SubSeq(data, h.at + 1, h.at + n) = b

LEMMA LengthReads ==
  ASSUME NEW V, Nat \subseteq V, NEW b \in Seq(Byte(V)), NEW data, NEW at \in Nat,
         NEW W, Nat \subseteq W, NEW out \in Seq(W), LiesAt(data, at, Prefixed(b))
  PROVE  /\ \E h, n : LengthFound(TakeOrPanic(Cursor(data, at, out), "u32", "plain"), h, n,
                                  data, at, b, out)
         /\ Prefixed(b) \in Seq(Byte(V)) /\ Len(Prefixed(b)) \in Nat
<1>2. PICK n \in Nat, l \in Nat \ {0} : n = Len(b) /\ l = Size("u32", "plain")
  <2>1. Len(b) \in Nat
    BY LenProperties
  <2> QED
    BY <2>1, SizesArePositive DEF Kinds, Layouts
<1>3. PICK a \in Seq(Byte(V)) : a = Bytes("u32", "plain", n) /\ Len(a) = l
  BY <1>2, BytesAre DEF Kinds, Layouts
<1>4. Prefixed(b) = a \o b
  BY <1>2, <1>3 DEF Prefixed
<1>5. /\ LiesAt(data, at, a) /\ LiesAt(data, at + l, b) /\ Len(a \o b) = l + n
      /\ a \o b \in Seq(Byte(V))
  <2>1. LiesAt(data, at, a \o b)
    BY <1>4
  <2>2. /\ LiesAt(data, at, a) /\ LiesAt(data, at + Len(a), b)
        /\ Len(a \o b) = Len(a) + Len(b)
    BY <2>1, LiesInParts
  <2>3. a \o b \in Seq(Byte(V))
    BY ConcatProperties
  <2> QED
    BY <1>2, <1>3, <2>2, <2>3
<1>6. PICK c, o, h : /\ c = Cursor(data, at + l, o) /\ o = Append(out, n)
                     /\ h = Cursor(data, at + l, out)
  OBVIOUS
<1>8. o \in Seq(W) /\ o[Len(o)] = n /\ Front(o) = out
  <2>1. n \in W
    OBVIOUS
  <2>2. /\ o \in Seq(W) /\ Len(o) = Len(out) + 1 /\ o[Len(out) + 1] = n
        /\ \A i \in 1..Len(out) : o[i] = out[i]
    BY <1>6, <2>1, AppendProperties
  <2>3. PICK m \in Nat : m = Len(out)
    BY LenProperties
  <2>4. SubSeq(o, 1, m) = out
    <3>1. LiesAt(o, 0, out)
      BY <2>2, <2>3 DEF LiesAt
    <3>2. SubSeq(o, 0 + 1, 0 + m) = out
      BY <2>3, <3>1, CutOut, 0 \in Nat
    <3> QED
      BY <3>2
  <2>5. Len(o) - 1 = m
    BY <2>2, <2>3
  <2> QED
    BY <2>2, <2>4, <2>5 DEF Front
<1>9. TakeOrPanic(Cursor(data, at, out), "u32", "plain") = c
  <2>1. ReadsOne("u32", "plain", n, data, at, out)
    BY <1>3, <1>5, OneIsRead DEF Kinds, Layouts
  <2> QED
    BY <1>2, <1>6, <2>1 DEF ReadsOne
<1>11. /\ h.st = "ok" /\ h.out = out /\ h.at = at + l /\ h.data = data
       /\ c.st = "ok" /\ DropLast(c) = h /\ LastRead(c) = n
  <2>1. /\ h.st = "ok" /\ h.out = out /\ h.at = at + l /\ h.data = data
        /\ c.st = "ok"
    BY ONLY <1>6 DEF Cursor
  <2>2. LastRead(c) = n
    BY ONLY <1>6, <1>8 DEF Cursor, LastRead
  <2>3. DropLast(c) = h
    <3>1. PICK f : f = Front(o) /\ f = out
      BY ONLY <1>8
    <3>2. c.out = o
      BY ONLY <1>6 DEF Cursor
    <3>3. DropLast(c) = [c EXCEPT !.out = f]
      BY ONLY <3>1, <3>2 DEF DropLast
    <3>4. [c EXCEPT !.out = f] = h
      <4>1. PICK p : /\ c = [data |-> data, at |-> p, out |-> o, st |-> "ok"]
                     /\ h = [data |-> data, at |-> p, out |-> f, st |-> "ok"]
        BY ONLY <1>6, <3>1 DEF Cursor
      <4> QED
        BY ONLY <4>1
    <3> QED
      BY ONLY <3>3, <3>4
  <2> QED
    BY ONLY <2>1, <2>2, <2>3
<1>12. SubSeq(data, (at + l) + 1, (at + l) + n) = b /\ ~((at + l) + n > Len(data))
  <2>1. at + l \in Nat
    OBVIOUS
  <2>2. (at + l) + n <= Len(data)
    BY <1>2, <1>5 DEF LiesAt
  <2>3. SubSeq(data, (at + l) + 1, (at + l) + n) = b
    <3>1. LiesAt(data, at + l, b) /\ b \in Seq(Byte(V)) /\ Len(b) = n
      BY <1>2, <1>5
    <3> QED
      BY ONLY <2>1, <3>1, CutOut
  <2> QED
    BY <2>1, <2>2, <2>3
<1>13. /\ at + l \in Nat /\ (at + l) + n = at + Len(Prefixed(b))
       /\ Len(Prefixed(b)) \in Nat /\ Prefixed(b) \in Seq(Byte(V))
  <2>1. Len(Prefixed(b)) = l + n /\ Prefixed(b) \in Seq(Byte(V))
    BY <1>4, <1>5
  <2>2. at + l \in Nat /\ l + n \in Nat /\ (at + l) + n = at + (l + n)
    OBVIOUS
  <2> QED
    BY <2>1, <2>2
<1>14. LengthFound(c, h, n, data, at, b, out)
  BY <1>2, <1>11, <1>12, <1>13 DEF LengthFound
<1> QED
  BY <1>9, <1>13, <1>14

(* ... and when the data ends before b does: the length is not there, or what
   follows it is too short. *)
LengthShort(c) ==
  \/ Stuck(c)
  \/ /\ c.st = "ok" /\ DropLast(c).st = "ok" /\ DropLast(c).at + LastRead(c) > Len(DropLast(c).data)
     /\ DropLast(c) = [data |-> DropLast(c).data, at |-> DropLast(c).at,
                       out |-> DropLast(c).out, st |-> "ok"]

LEMMA LengthCut ==
  ASSUME NEW V, Nat \subseteq V, NEW b \in Seq(Byte(V)), NEW data, NEW at,
         NEW W, Nat \subseteq W, NEW out \in Seq(W), EndsWithin(data, at, Prefixed(b))
  PROVE  LengthShort(TakeOrPanic(Cursor(data, at, out), "u32", "plain"))
<1>2. PICK n \in Nat, l \in Nat \ {0} : n = Len(b) /\ l = Size("u32", "plain")
  <2>1. Len(b) \in Nat
    BY LenProperties
  <2> QED
    BY <2>1, SizesArePositive DEF Kinds, Layouts
<1>3. PICK a \in Seq(Byte(V)) : a = Bytes("u32", "plain", n) /\ Len(a) = l
  BY <1>2, BytesAre DEF Kinds, Layouts
<1>4. EndsWithin(data, at, a \o b) /\ Len(a \o b) = l + n /\ at \in Nat
  <2>1. Len(a \o b) = Len(a) + Len(b)
    BY ConcatProperties
  <2>2. EndsWithin(data, at, a \o b)
    BY <1>2, <1>3 DEF Prefixed
  <2> QED
    BY <1>2, <1>3, <2>1, <2>2 DEF EndsWithin
<1>5. PICK h : h = TakeOrPanic(Cursor(data, at, out), "u32", "plain")
  OBVIOUS
<1>7. CASE EndsWithin(data, at, a)
  <2>1. EndsWithin(data, at, Bytes("u32", "plain", n))
    BY <1>3, <1>7
  <2>2. Stuck(h)
    BY <1>5, <2>1, TakeCut DEF Kinds, Layouts
  <2> QED
    BY <1>5, <2>2 DEF LengthShort
<1>8. CASE LiesAt(data, at, a)
  <2>1. PICK c, o : c = Cursor(data, at + l, o) /\ o = Append(out, n)
    OBVIOUS
  <2>2. h = c
    <3>1. ReadsOne("u32", "plain", n, data, at, out)
      BY <1>3, <1>4, <1>8, OneIsRead DEF Kinds, Layouts
    <3> QED
      BY <1>2, <1>5, <2>1, <3>1 DEF ReadsOne
  <2>3. PICK k : k = DropLast(c)
    OBVIOUS
  <2>4. /\ k.st = "ok" /\ k.at = at + l /\ k.data = data
        /\ k = [data |-> k.data, at |-> k.at, out |-> k.out, st |-> "ok"]
    BY <2>1, <2>3 DEF Cursor, DropLast
  <2>5. c.st = "ok" /\ LastRead(c) = n
    <3>1. n \in W
      OBVIOUS
    <3>2. OneMore(out, n, o)
      BY <2>1, <3>1, AppendIsOneMore
    <3>3. o[Len(o)] = n
      BY <3>2 DEF OneMore
    <3> QED
      BY <2>1, <3>3 DEF Cursor, LastRead
  <2>6. (at + l) + n > Len(data)
    <3>1. Len(data) \in Nat /\ Len(data) < at + (l + n)
      BY <1>4 DEF EndsWithin
    <3>2. PICK m : m = Len(data)
      OBVIOUS
    <3>3. at \in Nat /\ m \in Nat /\ m < at + (l + n)
      BY <1>4, <3>1, <3>2
    <3>4. (at + l) + n > m
      BY ONLY <3>3, n \in Nat, l \in Nat
    <3> QED
      BY <3>2, <3>4
  <2> QED
    BY <1>5, <2>2, <2>3, <2>4, <2>5, <2>6 DEF LengthShort
<1> QED
  BY <1>4, <1>7, <1>8, HeadEndsToo

(* (With its type.) *)
LEMMA PrefixedTyped ==
  ASSUME NEW V, Nat \subseteq V, NEW b \in Seq(Byte(V))
  PROVE  Prefixed(b) \in Seq(Byte(V)) /\ Len(Prefixed(b)) \in Nat
<1>1. Len(b) \in V
  BY LenProperties
<1>2. Bytes("u32", "plain", Len(b)) \in Seq(Byte(V))
  BY <1>1, BytesAre DEF Kinds, Layouts
<1>3. Prefixed(b) \in Seq(Byte(V))
  BY <1>2, ConcatProperties DEF Prefixed
<1> QED
  BY <1>3, LenProperties

(* What is read with its length before it: a proof of knowledge, or the indices
   that a request asks for. *)
Nested(part, d, form) ==
  IF part = "pok" THEN SignaturePoKFromBytes(d, form) ELSE Ok(BitvectorToRevealed(d))
TakeLong(part, c, form) == TakePrefixed(c, LAMBDA d : Nested(part, d, form))
TakePoK(c, form) == TakePrefixed(c, LAMBDA d : SignaturePoKFromBytes(d, form))
TakeBits(c) == TakePrefixed(c, LAMBDA d : Ok(BitvectorToRevealed(d)))

LEMMA LongParts ==
  ASSUME NEW c, NEW form
  PROVE  TakePoK(c, form) = TakeLong("pok", c, form) /\ TakeBits(c) = TakeLong("bits", c, form)
<1>1. TakePoK(c, form) = TakeLong("pok", c, form)
  BY DEF TakePoK, TakeLong, Nested
<1>2. TakeBits(c) = TakeLong("bits", c, form)
  BY DEF TakeBits, TakeLong, Nested
<1> QED
  BY <1>1, <1>2

(* It is read where it lies ... *)
LEMMA LongReads ==
  ASSUME NEW part, NEW form, NEW V, Nat \subseteq V, NEW b \in Seq(Byte(V)), NEW v,
         Nested(part, b, form) = Ok(v), NEW data, NEW at \in Nat,
         NEW W, Nat \subseteq W, NEW out \in Seq(W), LiesAt(data, at, Prefixed(b))
  PROVE  TakeLong(part, Cursor(data, at, out), form)
           = Cursor(data, at + Len(Prefixed(b)), Append(out, v))
<1>1. PICK c : c = TakeOrPanic(Cursor(data, at, out), "u32", "plain")
  OBVIOUS
<1>2. PICK h, n : LengthFound(c, h, n, data, at, b, out)
  BY <1>1, LengthReads
<1>3. /\ c.st = "ok" /\ LastRead(c) = n /\ DropLast(c) = h
      /\ h.st = "ok" /\ h.out = out /\ h.data = data
      /\ h.at + n = at + Len(Prefixed(b)) /\ ~(h.at + n > Len(data))
      /\ SubSeq(data, h.at + 1, h.at + n) = b
  BY <1>2 DEF LengthFound
<1>4. PICK t : t = TakeNested(h, n, LAMBDA d : Nested(part, d, form))
  OBVIOUS
<1>5. t = TakeResult(h, n, Nested(part, b, form))
  BY <1>3, <1>4 DEF TakeNested
<1>6. t = Cursor(data, at + Len(Prefixed(b)), Append(out, v))
  <2>1. Ok(v).st = "ok" /\ Ok(v).val = v
    BY DEF Ok
  <2>2. t = Advanced(h, n, v)
    BY <1>5, <2>1 DEF TakeResult
  <2> QED
    BY <1>3, <2>2 DEF Advanced, Cursor
<1> QED
  BY <1>1, <1>3, <1>4, <1>6 DEF TakeLong, TakePrefixed, Onward

(* ... and of what is cut only if all of it is there. *)
LEMMA LongOrStuck ==
  ASSUME NEW part, NEW form, NEW V, Nat \subseteq V, NEW b \in Seq(Byte(V)), NEW v,
         Nested(part, b, form) = Ok(v), NEW d, NEW at \in Nat, LiesAt(d, at, Prefixed(b)),
         NEW n \in Nat, NEW w, CutTo(w, d, n), NEW W, Nat \subseteq W, NEW out \in Seq(W),
         NEW c, AtOrStuck(c, w, n, at, out)
  PROVE  AtOrStuck(TakeLong(part, c, form), w, n, at + Len(Prefixed(b)), Append(out, v))
<1>1. CASE Stuck(c)
  <2>1. TakeOrPanic(c, "u32", "plain") = c
    BY <1>1, TakeStuck
  <2>2. TakeLong(part, c, form) = c
    BY <1>1, <2>1 DEF Stuck, TakeLong, TakePrefixed, Onward
  <2> QED
    BY <1>1, <2>2 DEF AtOrStuck
<1>2. CASE c = Cursor(w, at, out) /\ at <= n
  <2>1. PICK y \in Seq(Byte(V)) : y = Prefixed(b)
    BY PrefixedTyped
  <2>2. LiesAt(w, at, y) \/ EndsWithin(w, at, y)
    BY <1>2, <2>1, CutLies
  <2>3. ASSUME LiesAt(w, at, y)
        PROVE  /\ TakeLong(part, c, form) = Cursor(w, at + Len(y), Append(out, v))
               /\ at + Len(y) <= n
    <3>1. TakeLong(part, Cursor(w, at, out), form)
            = Cursor(w, at + Len(Prefixed(b)), Append(out, v))
      BY <2>1, <2>3, LongReads
    <3>2. at + Len(y) <= n
      BY <2>3 DEF LiesAt, CutTo
    <3> QED
      BY <1>2, <2>1, <3>1, <3>2
  <2>4. ASSUME EndsWithin(w, at, y) PROVE Stuck(TakeLong(part, c, form))
    <3>1. PICK h : h = TakeOrPanic(Cursor(w, at, out), "u32", "plain")
      OBVIOUS
    <3>2. LengthShort(h)
      BY <2>1, <2>4, <3>1, LengthCut
    <3>3. PICK k : k = DropLast(h)
      OBVIOUS
    <3>4. PICK t : t = TakeNested(k, LastRead(h), LAMBDA x : Nested(part, x, form))
      OBVIOUS
    <3>5. TakeLong(part, c, form) = IF h.st = "ok" THEN t ELSE h
      BY <1>2, <3>1, <3>3, <3>4 DEF TakeLong, TakePrefixed, Onward
    <3>6. h.st = "ok" => Stuck(t)
      <4> SUFFICES ASSUME h.st = "ok" PROVE Stuck(t)
        OBVIOUS
      <4>1. /\ k.st = "ok" /\ k.at + LastRead(h) > Len(k.data)
            /\ k = [data |-> k.data, at |-> k.at, out |-> k.out, st |-> "ok"]
        BY <3>2, <3>3 DEF LengthShort, Stuck
      <4>2. t = [k EXCEPT !.st = "panic"]
        BY <3>4, <4>1 DEF TakeNested
      <4> QED
        BY <4>1, <4>2 DEF Stuck
    <3> QED
      BY <3>5, <3>6 DEF Stuck
  <2> QED
    BY <2>1, <2>2, <2>3, <2>4 DEF AtOrStuck
<1> QED
  BY <1>1, <1>2 DEF AtOrStuck

(* An index and its message. *)
OnePair(c, form) == TakeOrPanic(TakeOrPanic(c, "u32", form), "fr", form)

PairByPair(c, form) ==
  /\ TakePairs(c, form, 0) = c
  /\ \A k \in Nat : TakePairs(c, form, k + 1) = OnePair(TakePairs(c, form, k), form)

(* (The function that TakePairs is defined by exists.) *)
LEMMA PairSteps ==
  ASSUME NEW c, NEW form
  PROVE  PairByPair(c, form)
<1> DEFINE Step(g, n) == [k \in 0..n |-> IF k = 0 THEN c ELSE OnePair(g[k - 1], form)]
           P == {n \in Nat : \E g : g = Step(g, n)}
<1>1. 0 \in P
  <2>1. [k \in 0..0 |-> c] = Step([k \in 0..0 |-> c], 0)
    OBVIOUS
  <2> QED
    BY <2>1
<1>2. ASSUME NEW n \in Nat, n \in P PROVE n + 1 \in P
  <2>1. PICK g : g = Step(g, n)
    BY <1>2
  <2> DEFINE h == [k \in 0..(n + 1) |-> IF k = n + 1 THEN OnePair(g[n], form) ELSE g[k]]
  <2>2. h = Step(h, n + 1)
    <3>1. \A k \in 0..(n + 1) : h[k] = IF k = 0 THEN c ELSE OnePair(h[k - 1], form)
      <4> SUFFICES ASSUME NEW k \in 0..(n + 1)
                   PROVE  h[k] = IF k = 0 THEN c ELSE OnePair(h[k - 1], form)
        OBVIOUS
      <4>1. CASE k = n + 1
        <5>1. h[k] = OnePair(g[n], form) /\ k # 0 /\ k - 1 = n /\ h[n] = g[n]
          BY <4>1
        <5> QED
          BY <4>1, <5>1
      <4>2. CASE k # n + 1
        <5>1. k \in 0..n /\ h[k] = g[k]
          BY <4>2
        <5>2. k # 0 => k - 1 \in 0..(n + 1) /\ k - 1 # n + 1 /\ h[k - 1] = g[k - 1]
          BY <5>1
        <5>3. g[k] = IF k = 0 THEN c ELSE OnePair(g[k - 1], form)
          BY <2>1, <5>1
        <5> QED
          BY <5>1, <5>2, <5>3
      <4> QED
        BY <4>1, <4>2
    <3> QED
      BY <3>1
  <2>3. n + 1 \in Nat
    OBVIOUS
  <2> HIDE DEF h
  <2> QED
    BY <2>2, <2>3
<1>3. \A n \in Nat : \E g : g = Step(g, n)
  <2> HIDE DEF P
  <2>1. Nat \subseteq P
    BY <1>1, <1>2, SetInduction
  <2> QED
    BY <2>1 DEF P
<1>4. \A n, m \in Nat : \A g, h : n <= m /\ g = Step(g, n) /\ h = Step(h, m) => g[n] = h[n]
  <2> TAKE n, m \in Nat
  <2> TAKE g, h
  <2> HAVE n <= m /\ g = Step(g, n) /\ h = Step(h, m)
  <2>1. \A k \in 0..n : g[k] = IF k = 0 THEN c ELSE OnePair(g[k - 1], form)
    OBVIOUS
  <2>2. \A k \in 0..n : h[k] = IF k = 0 THEN c ELSE OnePair(h[k - 1], form)
    OBVIOUS
  <2> DEFINE Q == {k \in Nat : k <= n => g[k] = h[k]}
  <2>3. 0 \in Q
    BY <2>1, <2>2
  <2>4. ASSUME NEW k \in Nat, k \in Q PROVE k + 1 \in Q
    <3> SUFFICES ASSUME k + 1 <= n PROVE g[k + 1] = h[k + 1]
      OBVIOUS
    <3>1. k + 1 \in 0..n /\ k + 1 # 0 /\ (k + 1) - 1 = k /\ g[k] = h[k]
      BY <2>4
    <3> QED
      BY <2>1, <2>2, <3>1
  <2> HIDE DEF Q
  <2>5. Nat \subseteq Q
    BY <2>3, <2>4, SetInduction
  <2> QED
    <3>1. n \in Q
      BY <2>5
    <3> QED
      BY <3>1 DEF Q
<1> DEFINE G(n) == CHOOSE g : g = Step(g, n)
           s == [k \in Nat |-> G(k)[k]]
           after == CHOOSE g : g = [k \in Nat |-> IF k = 0 THEN c ELSE OnePair(g[k - 1], form)]
<1>5. \A n \in Nat : G(n) = Step(G(n), n)
  BY <1>3
<1> HIDE DEF G
<1>6. \A k \in Nat : s[k] = IF k = 0 THEN c ELSE OnePair(s[k - 1], form)
  <2> SUFFICES ASSUME NEW k \in Nat PROVE s[k] = IF k = 0 THEN c ELSE OnePair(s[k - 1], form)
    OBVIOUS
  <2>1. G(k)[k] = IF k = 0 THEN c ELSE OnePair(G(k)[k - 1], form)
    <3>1. G(k) = Step(G(k), k)
      BY <1>5
    <3>2. k \in 0..k
      OBVIOUS
    <3> HIDE DEF Step
    <3>3. Step(G(k), k)[k] = IF k = 0 THEN c ELSE OnePair(G(k)[k - 1], form)
      BY <3>2 DEF Step
    <3> QED
      BY <3>1, <3>3
  <2>2. k # 0 => k - 1 \in Nat /\ k - 1 <= k
    OBVIOUS
  <2>3. k # 0 => G(k - 1)[k - 1] = G(k)[k - 1]
    <3> HIDE DEF Step
    <3> QED
      BY <1>4, <1>5, <2>2
  <2> QED
    BY <2>1, <2>2, <2>3
<1>7. s = [k \in Nat |-> IF k = 0 THEN c ELSE OnePair(s[k - 1], form)]
  BY <1>6
<1> HIDE DEF s
<1>8. after = [k \in Nat |-> IF k = 0 THEN c ELSE OnePair(after[k - 1], form)]
  BY <1>7
<1>9. \A n : TakePairs(c, form, n) = after[n]
  BY DEF TakePairs, OnePair
<1> HIDE DEF after
<1>10. \A k \in Nat : after[k] = IF k = 0 THEN c ELSE OnePair(after[k - 1], form)
  BY <1>8
<1>11. \A k \in Nat : k + 1 \in Nat /\ k + 1 # 0 /\ (k + 1) - 1 = k
  OBVIOUS
<1>12. /\ TakePairs(c, form, 0) = c
       /\ \A k \in Nat : TakePairs(c, form, k + 1)
                           = OnePair(TakePairs(c, form, k), form)
  BY <1>9, <1>10, <1>11
<1> QED
  BY <1>12 DEF PairByPair

(* The strings s, each of length z, joined one by one. *)
PairsJoined(g, T, s, n, z) ==
  /\ g[0] = << >> /\ Concat(s) = g[n]
  /\ \A k \in 0..n : g[k] \in Seq(T) /\ Len(g[k]) = k * z
  /\ \A k \in 0..(n - 1) : g[k + 1] = g[k] \o s[k + 1]

LEMMA JoinInSteps ==
  ASSUME NEW T, NEW z \in Nat, NEW n \in Nat, NEW s, s = [k \in 1..n |-> s[k]],
         \A k \in 1..n : s[k] \in Seq(T) /\ Len(s[k]) = z
  PROVE  \E g : PairsJoined(g, T, s, n, z)
<1>5. CASE n = 0
  <2>1. Concat(s) = << >>
    <3>1. s = << >> /\ Len(s) = 0
      BY <1>5
    <3> QED
      BY <3>1 DEF Concat, FlattenSeq
  <2>2. PICK g : g = [k \in 0..0 |-> << >>]
    OBVIOUS
  <2>3. g[0] = << >> /\ << >> \in Seq(T) /\ Len(<< >>) = 0 * z
    BY <2>2
  <2>4. \A k \in 0..n : k = 0
    BY <1>5
  <2>5. \A k \in 0..(n - 1) : FALSE
    BY <1>5
  <2> QED
    BY <1>5, <2>1, <2>3, <2>4, <2>5 DEF PairsJoined
<1>6. CASE n # 0
  <2>1. n \in Nat \ {0} /\ Strings(T, s, n)
    BY <1>6 DEF Strings
  <2>2. PICK f : Joining(s, f, n) /\ Concat(s) = f[n]
    BY <2>1, ConcatIs
  <2>3. \A i \in 1..n : f[i] = IF i = 1 THEN s[i] ELSE f[i - 1] \o s[i]
    <3>1. f = [i \in 1..n |-> IF i = 1 THEN s[i] ELSE f[i - 1] \o s[i]]
      BY <2>2 DEF Joining
    <3> QED
      BY ONLY <3>1
  <2>4. PICK g : g = [k \in 0..n |-> IF k = 0 THEN << >> ELSE f[k]]
    OBVIOUS
  <2>5. ASSUME NEW k \in 0..(n - 1)
        PROVE  /\ k \in 0..n /\ k + 1 \in 0..n /\ s[k + 1] \in Seq(T)
               /\ Len(s[k + 1]) = z /\ g[k + 1] = g[k] \o s[k + 1]
    <3>1. k \in 0..n /\ k + 1 \in 0..n /\ k + 1 \in 1..n /\ k + 1 # 0 /\ (k + 1) - 1 = k
      OBVIOUS
    <3>2. s[k + 1] \in Seq(T) /\ Len(s[k + 1]) = z
      BY <3>1
    <3>3. g[k + 1] = IF k + 1 = 1 THEN s[k + 1] ELSE f[k] \o s[k + 1]
      BY <2>3, <2>4, <3>1
    <3>4. k # 0 => g[k] = f[k] /\ k + 1 # 1
      BY <2>4, <3>1
    <3>5. k = 0 => g[k] = << >> /\ k + 1 = 1
      BY <2>4, <3>1
    <3>6. << >> \o s[k + 1] = s[k + 1]
      BY <3>2, ConcatEmptySeq
    <3>7. g[k + 1] = g[k] \o s[k + 1]
      BY <3>3, <3>4, <3>5, <3>6
    <3> QED
      BY <3>1, <3>2, <3>7
  <2> DEFINE P == {k \in Nat : k <= n => g[k] \in Seq(T) /\ Len(g[k]) = k * z}
  <2>6. 0 \in P
    <3>1. g[0] = << >> /\ << >> \in Seq(T) /\ Len(<< >>) = 0 /\ 0 * z = 0
      BY <2>4
    <3> QED
      BY <3>1
  <2>7. ASSUME NEW k \in Nat, k \in P PROVE k + 1 \in P
    <3> SUFFICES ASSUME k + 1 <= n
                 PROVE  g[k + 1] \in Seq(T) /\ Len(g[k + 1]) = (k + 1) * z
      OBVIOUS
    <3>1. k \in 0..(n - 1) /\ g[k] \in Seq(T) /\ Len(g[k]) = k * z
      BY <2>7
    <3>2. PICK a \in Seq(T), b \in Seq(T) :
            a = g[k] /\ b = s[k + 1] /\ Len(b) = z /\ g[k + 1] = a \o b
      BY <2>5, <3>1
    <3>3. a \o b \in Seq(T) /\ Len(a \o b) = Len(a) + Len(b)
      BY ConcatProperties
    <3>4. k * z + z = (k + 1) * z
      OBVIOUS
    <3> QED
      BY <3>1, <3>2, <3>3, <3>4
  <2> HIDE DEF P
  <2>8. Nat \subseteq P
    BY <2>6, <2>7, SetInduction
  <2>9. \A k \in 0..n : g[k] \in Seq(T) /\ Len(g[k]) = k * z
    BY <2>8 DEF P
  <2>11. g[0] = << >> /\ Concat(s) = g[n]
    BY <1>6, <2>2, <2>4
  <2> QED
    BY <2>5, <2>9, <2>11 DEF PairsJoined
<1> QED
  BY <1>5, <1>6

(* The bytes of the pairs of J and M: each where it lies. *)
PairBytes(J, M, form) ==
  Concat([k \in DOMAIN J |-> Bytes("u32", form, J[k]) \o Bytes("fr", form, M[k])])

(* Where a part of them lies in the data. *)
PairAt(data, at, k, form, J, M, l, z) ==
  /\ LiesAt(data, at + k * z, Bytes("u32", form, J[k + 1]))
  /\ LiesAt(data, (at + k * z) + l, Bytes("fr", form, M[k + 1]))

PairsLayout(f, form, V, J, M, n, l, r, z) ==
  /\ l \in Nat \ {0} /\ r \in Nat \ {0} /\ z = l + r /\ l = LEN_SIZE /\ r = FR_SIZE
  /\ f = PairBytes(J, M, form) /\ f \in Seq(Byte(V)) /\ Len(f) = n * z /\ n * z \in Nat
  /\ \A data : \A at \in Nat :
       LiesAt(data, at, f) => \A k \in 0..(n - 1) : PairAt(data, at, k, form, J, M, l, z)

LEMMA PairsInParts ==
  ASSUME NEW form \in Forms, NEW V, NEW n \in Nat, NEW J \in [1..n -> V], NEW M \in [1..n -> V]
  PROVE  \E f, l, r, z : PairsLayout(f, form, V, J, M, n, l, r, z)
<1>1. PICK l \in Nat \ {0}, r \in Nat \ {0}, z \in Nat \ {0} :
        /\ z = l + r /\ l = LEN_SIZE /\ r = FR_SIZE
        /\ l = Size("u32", form) /\ r = Size("fr", form)
  <2>1. PICK l \in Nat \ {0}, r \in Nat \ {0} :
          l = LEN_SIZE /\ r = FR_SIZE /\ l = Size("u32", form) /\ r = Size("fr", form)
    BY SizeTellsForm
  <2>2. l + r \in Nat \ {0}
    OBVIOUS
  <2> QED
    BY <2>1, <2>2
<1>2. PICK s : s = [k \in 1..n |-> Bytes("u32", form, J[k]) \o Bytes("fr", form, M[k])]
  OBVIOUS
<1>3. PairBytes(J, M, form) = Concat(s)
  BY <1>2 DEF PairBytes
<1>4. ASSUME NEW k \in 1..n
      PROVE  \E a, b \in Seq(Byte(V)) :
               /\ a = Bytes("u32", form, J[k]) /\ b = Bytes("fr", form, M[k])
               /\ Len(a) = l /\ Len(b) = r /\ s[k] = a \o b
               /\ s[k] \in Seq(Byte(V)) /\ Len(s[k]) = z
  <2>1. PICK a \in Seq(Byte(V)) : a = Bytes("u32", form, J[k]) /\ Len(a) = l
    BY <1>1, BytesAre DEF Kinds, Layouts
  <2>2. PICK b \in Seq(Byte(V)) : b = Bytes("fr", form, M[k]) /\ Len(b) = r
    BY <1>1, BytesAre DEF Kinds, Layouts
  <2>3. s[k] = a \o b
    BY <1>2, <2>1, <2>2
  <2>4. a \o b \in Seq(Byte(V)) /\ Len(a \o b) = Len(a) + Len(b)
    BY ConcatProperties
  <2> QED
    BY <1>1, <2>1, <2>2, <2>3, <2>4
<1>5. PICK g : PairsJoined(g, Byte(V), s, n, z)
  <2>1. s = [k \in 1..n |-> s[k]]
    BY <1>2
  <2>2. \A k \in 1..n : s[k] \in Seq(Byte(V)) /\ Len(s[k]) = z
    BY <1>4
  <2> QED
    BY <2>1, <2>2, JoinInSteps
<1>6. /\ Concat(s) = g[n]
      /\ \A k \in 0..n : g[k] \in Seq(Byte(V)) /\ Len(g[k]) = k * z
      /\ \A k \in 0..(n - 1) : g[k + 1] = g[k] \o s[k + 1]
  BY <1>5 DEF PairsJoined
<1>7. n \in 0..n /\ n * z \in Nat
  OBVIOUS
<1>8. ASSUME NEW data, NEW at \in Nat, LiesAt(data, at, g[n])
      PROVE  \A k \in 0..(n - 1) : PairAt(data, at, k, form, J, M, l, z)
  <2>1. ASSUME NEW k \in 0..(n - 1)
        PROVE  LiesAt(data, at, g[k + 1]) =>
                 LiesAt(data, at, g[k]) /\ PairAt(data, at, k, form, J, M, l, z)
    <3> SUFFICES ASSUME LiesAt(data, at, g[k + 1])
                 PROVE  LiesAt(data, at, g[k]) /\ PairAt(data, at, k, form, J, M, l, z)
      OBVIOUS
    <3>1. k \in 0..n /\ k + 1 \in 1..n
      OBVIOUS
    <3>2. PICK a, b \in Seq(Byte(V)) :
            /\ a = Bytes("u32", form, J[k + 1]) /\ b = Bytes("fr", form, M[k + 1])
            /\ Len(a) = l /\ s[k + 1] = a \o b /\ s[k + 1] \in Seq(Byte(V))
      BY <1>4, <3>1
    <3>3. PICK x \in Seq(Byte(V)), y \in Seq(Byte(V)) :
            x = g[k] /\ y = s[k + 1] /\ Len(x) = k * z /\ g[k + 1] = x \o y
      BY <1>6, <3>1, <3>2
    <3>4. LiesAt(data, at, x) /\ LiesAt(data, at + Len(x), y)
      <4>1. LiesAt(data, at, x \o y)
        BY <3>3
      <4> QED
        BY ONLY <4>1, at \in Nat, x \in Seq(Byte(V)), y \in Seq(Byte(V)), LiesInParts
    <3>5. PICK p \in Nat : p = at + k * z
      <4>1. k \in Nat /\ z \in Nat /\ at \in Nat
        BY <3>1
      <4>2. PICK q \in Nat : q = k * z
        <5>1. k * z \in Nat
          BY ONLY <4>1
        <5> QED
          BY <5>1
      <4>3. at + q \in Nat
        BY ONLY at \in Nat, q \in Nat
      <4> QED
        BY <4>2, <4>3
    <3>6. LiesAt(data, p, a \o b)
      BY <3>2, <3>3, <3>4, <3>5
    <3>7. LiesAt(data, p, a) /\ LiesAt(data, p + Len(a), b)
      BY <3>6, LiesInParts
    <3> QED
      BY <3>2, <3>3, <3>4, <3>5, <3>7 DEF PairAt
  <2> DEFINE P == {j \in Nat : j <= n => LiesAt(data, at, g[n - j])}
  <2>2. 0 \in P
    BY <1>8
  <2>3. ASSUME NEW j \in Nat, j \in P PROVE j + 1 \in P
    <3> SUFFICES ASSUME j + 1 <= n PROVE LiesAt(data, at, g[n - (j + 1)])
      OBVIOUS
    <3>1. PICK k \in 0..(n - 1) : k = n - (j + 1) /\ k + 1 = n - j
      OBVIOUS
    <3>2. LiesAt(data, at, g[k + 1])
      BY <2>3, <3>1
    <3> QED
      BY <2>1, <3>1, <3>2
  <2> HIDE DEF P
  <2>4. Nat \subseteq P
    BY <2>2, <2>3, SetInduction
  <2>5. \A k \in 0..(n - 1) : LiesAt(data, at, g[k + 1])
    <3> SUFFICES ASSUME NEW k \in 0..(n - 1) PROVE LiesAt(data, at, g[k + 1])
      OBVIOUS
    <3>1. PICK j \in Nat : j = n - (k + 1) /\ j <= n /\ n - j = k + 1
      OBVIOUS
    <3>2. j \in P
      BY <2>4
    <3> QED
      BY <3>1, <3>2 DEF P
  <2> QED
    BY <2>1, <2>5
<1>9. PICK f : f = g[n]
  OBVIOUS
<1>10. PairsLayout(f, form, V, J, M, n, l, r, z)
  BY <1>1, <1>3, <1>6, <1>7, <1>8, <1>9 DEF PairsLayout
<1> QED
  BY <1>10

(* What has been found: two values, and k pairs after them. *)
Paired(q, W, out, J, M, k) ==
  /\ q \in Seq(W) /\ Len(q) = 2 + 2 * k /\ q[1] = out[1] /\ q[2] = out[2]
  /\ \A i \in 1..k : q[2 * i + 1] = J[i] /\ q[2 * i + 2] = M[i]

LEMMA PairedMore ==
  ASSUME NEW W, NEW out, NEW J, NEW M, NEW k \in Nat, NEW q, Paired(q, W, out, J, M, k),
         J[k + 1] \in W, M[k + 1] \in W
  PROVE  Paired(Append(Append(q, J[k + 1]), M[k + 1]), W, out, J, M, k + 1)
<1>1. PICK x \in W, y \in W : x = J[k + 1] /\ y = M[k + 1]
  OBVIOUS
<1>2. /\ q \in Seq(W) /\ Len(q) = 2 + 2 * k /\ q[1] = out[1] /\ q[2] = out[2]
      /\ \A i \in 1..k : q[2 * i + 1] = J[i] /\ q[2 * i + 2] = M[i]
  BY DEF Paired
<1>3. PICK o : o = Append(q, x) /\ o \in Seq(W) /\ OneMore(q, x, o)
  BY <1>2, AppendTyped
<1>4. PICK s : s = Append(o, y) /\ s \in Seq(W) /\ OneMore(o, y, s)
  BY <1>3, AppendTyped
<1>5. /\ Len(o) = 3 + 2 * k /\ o[3 + 2 * k] = x
      /\ \A i \in 1..(2 + 2 * k) : o[i] = q[i]
  BY <1>2, <1>3 DEF OneMore
<1>6. /\ Len(s) = 4 + 2 * k /\ s[4 + 2 * k] = y
      /\ \A i \in 1..(3 + 2 * k) : s[i] = o[i]
  BY <1>4, <1>5 DEF OneMore
<1>7. s[1] = out[1] /\ s[2] = out[2]
  BY <1>2, <1>5, <1>6
<1>8. \A i \in 1..(k + 1) : s[2 * i + 1] = J[i] /\ s[2 * i + 2] = M[i]
  <2> SUFFICES ASSUME NEW i \in 1..(k + 1)
               PROVE  s[2 * i + 1] = J[i] /\ s[2 * i + 2] = M[i]
    OBVIOUS
  <2>1. CASE i = k + 1
    <3>1. 2 * i + 1 = 3 + 2 * k /\ 2 * i + 2 = 4 + 2 * k /\ 3 + 2 * k \in 1..(3 + 2 * k)
      BY <2>1
    <3> QED
      BY <1>1, <1>5, <1>6, <2>1, <3>1
  <2>2. CASE i # k + 1
    <3>1. /\ i \in 1..k /\ 2 * i + 1 \in 1..(2 + 2 * k) /\ 2 * i + 2 \in 1..(2 + 2 * k)
          /\ 2 * i + 1 \in 1..(3 + 2 * k) /\ 2 * i + 2 \in 1..(3 + 2 * k)
      BY <2>2
    <3> QED
      BY <1>2, <1>5, <1>6, <3>1
  <2> QED
    BY <2>1, <2>2
<1>9. Len(s) = 2 + 2 * (k + 1)
  BY <1>6
<1>10. Paired(s, W, out, J, M, k + 1)
  BY <1>4, <1>7, <1>8, <1>9 DEF Paired
<1> QED
  BY <1>1, <1>3, <1>4, <1>10

(* (The place of the next pair.) *)
IsPlace(p, at, k, l, r, z) ==
  p \in Nat /\ p = at + k * z /\ p + l \in Nat /\ (p + l) + r = at + (k + 1) * z

LEMMA NextPlace ==
  ASSUME NEW at \in Nat, NEW k \in Nat, NEW l \in Nat, NEW r \in Nat, NEW z, z = l + r
  PROVE  \E p : IsPlace(p, at, k, l, r, z)
<1>1. PICK q \in Nat : q = k * z
  <2>1. k * z \in Nat
    OBVIOUS
  <2> QED
    BY <2>1
<1>2. (k + 1) * z = q + z
  BY <1>1
<1>3. PICK p \in Nat : p = at + q
  BY at \in Nat, q \in Nat
<1>4. p + l \in Nat /\ (p + l) + r = at + (q + z)
  BY <1>3
<1> QED
  BY <1>1, <1>2, <1>3, <1>4 DEF IsPlace

PairsFound(data, at, form, f, W, out, J, M, n) ==
  \E q : /\ TakePairs(Cursor(data, at, out), form, n) = Cursor(data, at + Len(f), q)
         /\ Paired(q, W, out, J, M, n)

(* All pairs are read where they lie ... *)
LEMMA PairsRead ==
  ASSUME NEW form \in Forms, NEW V, NEW n \in Nat, NEW J \in [1..n -> V], NEW M \in [1..n -> V],
         NEW f, NEW l, NEW r, NEW z, PairsLayout(f, form, V, J, M, n, l, r, z),
         NEW data, NEW at \in Nat, LiesAt(data, at, f),
         NEW W, V \subseteq W, NEW out \in Seq(W), Len(out) = 2
  PROVE  PairsFound(data, at, form, f, W, out, J, M, n)
<1>1. /\ l \in Nat \ {0} /\ r \in Nat \ {0} /\ z = l + r /\ l = LEN_SIZE /\ r = FR_SIZE
      /\ Len(f) = n * z
      /\ \A k \in 0..(n - 1) : PairAt(data, at, k, form, J, M, l, z)
  BY DEF PairsLayout
<1>2. Size("u32", form) = l /\ Size("fr", form) = r
  BY <1>1, SizeTellsForm
<1>3. PICK c : c = Cursor(data, at, out)
  OBVIOUS
<1>4. /\ TakePairs(c, form, 0) = c
      /\ \A k \in Nat : TakePairs(c, form, k + 1) = OnePair(TakePairs(c, form, k), form)
  <2>1. PairByPair(c, form)
    BY PairSteps
  <2> QED
    BY ONLY <2>1 DEF PairByPair
<1> DEFINE P == {k \in Nat : k <= n =>
                   \E q : /\ TakePairs(c, form, k) = Cursor(data, at + k * z, q)
                          /\ Paired(q, W, out, J, M, k)}
<1>5. 0 \in P
  <2>1. at + 0 * z = at
    BY <1>1
  <2>2. Paired(out, W, out, J, M, 0)
    BY DEF Paired
  <2> QED
    BY <1>3, <1>4, <2>1, <2>2
<1>6. ASSUME NEW k \in Nat, k \in P PROVE k + 1 \in P
  <2> SUFFICES ASSUME k + 1 <= n
               PROVE  \E q : /\ TakePairs(c, form, k + 1) = Cursor(data, at + (k + 1) * z, q)
                             /\ Paired(q, W, out, J, M, k + 1)
    OBVIOUS
  <2>1. k \in 0..(n - 1) /\ k + 1 \in 1..n /\ k <= n
    OBVIOUS
  <2>2. PICK q : TakePairs(c, form, k) = Cursor(data, at + k * z, q) /\ Paired(q, W, out, J, M, k)
    BY <1>6, <2>1
  <2>3. PICK p \in Nat : /\ p = at + k * z /\ p + l \in Nat
                         /\ (p + l) + r = at + (k + 1) * z
    <3>1. l \in Nat /\ r \in Nat /\ z = l + r
      BY <1>1
    <3>2. PICK p : IsPlace(p, at, k, l, r, z)
      BY ONLY <3>1, at \in Nat, k \in Nat, NextPlace
    <3> QED
      BY ONLY <3>2 DEF IsPlace
  <2>4. PICK x, y : x = J[k + 1] /\ y = M[k + 1] /\ x \in W /\ y \in W
    BY <2>1
  <2>5. LiesAt(data, p, Bytes("u32", form, x)) /\ LiesAt(data, p + l, Bytes("fr", form, y))
    BY <1>1, <2>1, <2>3, <2>4 DEF PairAt
  <2>6. PICK o, s : o = Append(q, x) /\ s = Append(o, y)
    OBVIOUS
  <2>7. TakeOrPanic(Cursor(data, p, q), "u32", form) = Cursor(data, p + l, o)
    <3>1. ReadsOne("u32", form, x, data, p, q)
      BY <2>5, OneIsRead DEF Kinds, Layouts
    <3> QED
      BY <1>2, <2>6, <3>1 DEF ReadsOne
  <2>8. TakeOrPanic(Cursor(data, p + l, o), "fr", form) = Cursor(data, (p + l) + r, s)
    <3>1. ReadsOne("fr", form, y, data, p + l, o)
      BY <2>3, <2>5, OneIsRead DEF Kinds, Layouts
    <3> QED
      BY <1>2, <2>6, <3>1 DEF ReadsOne
  <2>9. TakePairs(c, form, k + 1) = Cursor(data, (p + l) + r, s)
    <3>1. TakePairs(c, form, k + 1) = OnePair(TakePairs(c, form, k), form)
      BY ONLY <1>4, k \in Nat
    <3> QED
      BY <2>2, <2>3, <2>7, <2>8, <3>1 DEF OnePair
  <2>10. Paired(s, W, out, J, M, k + 1)
    BY <2>2, <2>4, <2>6, PairedMore
  <2> QED
    BY <2>3, <2>9, <2>10
<1> HIDE DEF P
<1>7. n \in P
  BY <1>5, <1>6, SetInduction
<1>8. PICK q : TakePairs(c, form, n) = Cursor(data, at + n * z, q) /\ Paired(q, W, out, J, M, n)
  BY <1>7 DEF P
<1> QED
  BY <1>1, <1>3, <1>8 DEF PairsFound

(* ... and of what is cut only if all of them are there. *)
LEMMA PairsOrStuck ==
  ASSUME NEW form \in Forms, NEW V, NEW n \in Nat, NEW J \in [1..n -> V], NEW M \in [1..n -> V],
         NEW f, NEW l, NEW r, NEW z, PairsLayout(f, form, V, J, M, n, l, r, z),
         NEW d, NEW at \in Nat, LiesAt(d, at, f), NEW m \in Nat, NEW w, CutTo(w, d, m),
         NEW c, NEW out, AtOrStuck(c, w, m, at, out)
  PROVE  \E q : AtOrStuck(TakePairs(c, form, n), w, m, at + Len(f), q)
<1>1. /\ l \in Nat \ {0} /\ r \in Nat \ {0} /\ z = l + r /\ l = LEN_SIZE /\ r = FR_SIZE
      /\ Len(f) = n * z
      /\ \A k \in 0..(n - 1) : PairAt(d, at, k, form, J, M, l, z)
  BY DEF PairsLayout
<1>2. Size("u32", form) = l /\ Size("fr", form) = r
  BY <1>1, SizeTellsForm
<1>4. /\ TakePairs(c, form, 0) = c
      /\ \A k \in Nat : TakePairs(c, form, k + 1) = OnePair(TakePairs(c, form, k), form)
  <2>1. PairByPair(c, form)
    BY PairSteps
  <2> QED
    BY ONLY <2>1 DEF PairByPair
<1> DEFINE P == {k \in Nat : k <= n =>
                   \E q : AtOrStuck(TakePairs(c, form, k), w, m, at + k * z, q)}
<1>5. 0 \in P
  <2>1. at + 0 * z = at
    BY <1>1
  <2> QED
    BY <1>4, <2>1
<1>6. ASSUME NEW k \in Nat, k \in P PROVE k + 1 \in P
  <2> SUFFICES ASSUME k + 1 <= n
               PROVE  \E q : AtOrStuck(TakePairs(c, form, k + 1), w, m, at + (k + 1) * z, q)
    OBVIOUS
  <2>1. k \in 0..(n - 1) /\ k + 1 \in 1..n /\ k <= n
    OBVIOUS
  <2>2. PICK t, q : t = TakePairs(c, form, k) /\ AtOrStuck(t, w, m, at + k * z, q)
    BY <1>6, <2>1
  <2>3. PICK p \in Nat : /\ p = at + k * z /\ p + l \in Nat
                         /\ (p + l) + r = at + (k + 1) * z
    <3>1. l \in Nat /\ r \in Nat /\ z = l + r
      BY <1>1
    <3>2. PICK p : IsPlace(p, at, k, l, r, z)
      BY ONLY <3>1, at \in Nat, k \in Nat, NextPlace
    <3> QED
      BY ONLY <3>2 DEF IsPlace
  <2>4. PICK x, y : x = J[k + 1] /\ y = M[k + 1]
    OBVIOUS
  <2>5. LiesAt(d, p, Bytes("u32", form, x)) /\ LiesAt(d, p + l, Bytes("fr", form, y))
    BY <1>1, <2>1, <2>3, <2>4 DEF PairAt
  <2>6. PICK o, s, u, v : /\ o = Append(q, x) /\ s = Append(o, y)
                          /\ u = TakeOrPanic(t, "u32", form) /\ v = TakeOrPanic(u, "fr", form)
    OBVIOUS
  <2>7. AtOrStuck(u, w, m, p + l, o)
    <3>1. AtOrStuck(t, w, m, p, q)
      BY <2>2, <2>3
    <3>2. AtOrStuck(u, w, m, p + Size("u32", form), o)
      BY <2>5, <2>6, <3>1, NextOrStuck DEF Kinds, Layouts
    <3> QED
      BY <1>2, <3>2
  <2>8. AtOrStuck(v, w, m, (p + l) + r, s)
    <3>2. AtOrStuck(v, w, m, (p + l) + Size("fr", form), s)
      BY <2>3, <2>5, <2>6, <2>7, NextOrStuck DEF Kinds, Layouts
    <3> QED
      BY <1>2, <3>2
  <2>9. TakePairs(c, form, k + 1) = v
    <3>1. TakePairs(c, form, k + 1) = OnePair(TakePairs(c, form, k), form)
      BY ONLY <1>4, k \in Nat
    <3> QED
      BY <2>2, <2>6, <3>1 DEF OnePair
  <2> QED
    BY <2>3, <2>8, <2>9
<1> HIDE DEF P
<1>7. n \in P
  BY <1>5, <1>6, SetInduction
<1>8. PICK q : AtOrStuck(TakePairs(c, form, n), w, m, at + n * z, q)
  BY <1>7 DEF P
<1> QED
  BY <1>1, <1>8

(* A signature proof with the messages it reveals, over V, and its bytes: the
   proof with its length in b, the number of messages in u, the messages in f. *)
PlainShown(x, V) ==
  /\ x = [revealed_messages |-> x.revealed_messages, proof |-> x.proof]
  /\ PlainPoK(x.proof, V)
  /\ x.revealed_messages = [i \in DOMAIN x.revealed_messages |-> x.revealed_messages[i]]
  /\ DOMAIN x.revealed_messages \subseteq Nat /\ IsFiniteSet(DOMAIN x.revealed_messages)
  /\ \A i \in DOMAIN x.revealed_messages : x.revealed_messages[i] \in V

(* The indices J in their order, and the messages M. *)
Listed(m, V, J, M, n) ==
  /\ n \in Nat /\ J \in [1..n -> V] /\ M \in [1..n -> V] /\ Len(J) = n
  /\ J = InOrder(DOMAIN m) /\ DOMAIN m = {J[k] : k \in 1..n}
  /\ \A k \in 1..n : M[k] = m[J[k]]
  /\ \A form : PairBytes(J, M, form)
       = Concat([k \in DOMAIN J |-> Bytes("u32", form, J[k]) \o Bytes("fr", form, m[J[k]])])

LEMMA MessagesListed ==
  ASSUME NEW V, Nat \subseteq V, NEW m, DOMAIN m \subseteq Nat, IsFiniteSet(DOMAIN m),
         \A i \in DOMAIN m : m[i] \in V
  PROVE  \E J, M, n : Listed(m, V, J, M, n)
<1>1. PICK S, n : S = DOMAIN m /\ n = Cardinality(S)
  OBVIOUS
<1>2. PICK J : J = InOrder(S)
  OBVIOUS
<1>3. n \in Nat /\ J \in [1..n -> S] /\ S = {J[k] : k \in 1..n}
  <2>1. S \subseteq Int /\ IsFiniteSet(S)
    BY <1>1
  <2> QED
    <3>1. /\ Cardinality(S) \in Nat /\ InOrder(S) \in [1..Cardinality(S) -> S]
          /\ S = {InOrder(S)[k] : k \in 1..Cardinality(S)}
      BY ONLY <2>1, InOrderEnumerates
    <3> QED
      BY <1>1, <1>2, <3>1
<1>4. PICK M : M = [k \in 1..n |-> m[J[k]]]
  OBVIOUS
<1>5. \A k \in 1..n : J[k] \in S /\ M[k] = m[J[k]] /\ J[k] \in V /\ M[k] \in V
  BY <1>1, <1>3, <1>4
<1>6. J \in [1..n -> V] /\ M \in [1..n -> V] /\ DOMAIN J = 1..n
  BY <1>3, <1>4, <1>5
<1>7. Len(J) = n
  <2>1. J \in Seq(V)
    BY <1>3, <1>6
  <2> QED
    BY <1>3, <1>6, <2>1, LenProperties
<1>8. ASSUME NEW form
      PROVE  PairBytes(J, M, form)
               = Concat([k \in DOMAIN J |-> Bytes("u32", form, J[k]) \o Bytes("fr", form, m[J[k]])])
  BY <1>5, <1>6 DEF PairBytes
<1>9. Listed(m, V, J, M, n)
  BY <1>1, <1>2, <1>3, <1>5, <1>6, <1>7, <1>8 DEF Listed
<1> QED
  BY <1>9

ShownLayout(x, form, V, d, y, b, f, J, M, n, l, r, z) ==
  /\ l \in Nat \ {0} /\ l = LEN_SIZE /\ l = Size("u32", form)
  /\ Listed(x.revealed_messages, V, J, M, n)
  /\ PairsLayout(f, form, V, J, M, n, l, r, z)
  /\ y = SignaturePoKToBytes(x.proof, form) /\ y \in Seq(Byte(V))
  /\ Nested("pok", y, form) = Ok(x.proof)
  /\ b = Prefixed(y) /\ Len(b) \in Nat /\ Len(b) >= l
  /\ d = SignatureProofToBytes(x, form) /\ d \in Seq(Byte(V))
  /\ Len(d) = (Len(b) + l) + Len(f) /\ Len(f) \in Nat
  /\ LiesAt(d, 0, b) /\ LiesAt(d, Len(b), Bytes("u32", form, n)) /\ LiesAt(d, Len(b) + l, f)

LEMMA ShownInParts ==
  ASSUME NEW form \in Forms, NEW V, Nat \subseteq V, NEW x, PlainShown(x, V)
  PROVE  \E d, y, b, f, J, M, n, l, r, z : ShownLayout(x, form, V, d, y, b, f, J, M, n, l, r, z)
<1>1. PICK m : m = x.revealed_messages
  OBVIOUS
<1>2. PICK J, M, n : Listed(m, V, J, M, n)
  BY <1>1, MessagesListed DEF PlainShown
<1>3. /\ n \in Nat /\ J \in [1..n -> V] /\ M \in [1..n -> V] /\ Len(J) = n
      /\ J = InOrder(DOMAIN m)
      /\ PairBytes(J, M, form)
           = Concat([k \in DOMAIN J |-> Bytes("u32", form, J[k]) \o Bytes("fr", form, m[J[k]])])
  BY <1>2 DEF Listed
<1>4. PICK f, l, r, z : PairsLayout(f, form, V, J, M, n, l, r, z)
  BY <1>3, PairsInParts
<1>5. /\ l \in Nat \ {0} /\ l = LEN_SIZE /\ l = Size("u32", form)
      /\ f = PairBytes(J, M, form) /\ f \in Seq(Byte(V)) /\ Len(f) \in Nat
  BY <1>4, SizeTellsForm DEF PairsLayout
<1>6. PICK y \in Seq(Byte(V)) : /\ y = SignaturePoKToBytes(x.proof, form)
                                /\ Nested("pok", y, form) = Ok(x.proof)
  <2>1. PlainPoK(x.proof, V)
    BY DEF PlainShown
  <2>2. /\ SignaturePoKFromBytes(SignaturePoKToBytes(x.proof, form), form) = Ok(x.proof)
        /\ SignaturePoKToBytes(x.proof, form) \in Seq(Byte(V))
    BY <2>1, PoKReads
  <2> QED
    BY <2>2 DEF Nested
<1>7. PICK b \in Seq(Byte(V)) : b = Prefixed(y) /\ Len(b) \in Nat
  BY PrefixedTyped
<1>8. Len(b) >= l
  <2>1. PICK k \in Nat : k = Len(y)
    BY LenProperties
  <2>2. PICK a \in Seq(Byte(V)) : a = Bytes("u32", "plain", k) /\ Len(a) = l
    <3>1. Size("u32", "plain") = l /\ k \in V
      BY <1>5, SizeTellsForm
    <3> QED
      BY <3>1, BytesAre DEF Kinds, Layouts
  <2>3. b = a \o y /\ Len(a \o y) = Len(a) + Len(y)
    BY <1>7, <2>1, <2>2, ConcatProperties DEF Prefixed
  <2> QED
    BY <1>5, <2>1, <2>2, <2>3
<1>9. PICK u \in Seq(Byte(V)) : u = Bytes("u32", form, n) /\ Len(u) = l
  <2>1. n \in V
    BY <1>3
  <2> QED
    BY <1>5, <2>1, BytesAre DEF Kinds, Layouts
<1>10. PICK e \in Seq(Byte(V)) : e = b \o u
  BY ConcatProperties
<1>11. PICK d \in Seq(Byte(V)) : d = e \o f
  BY <1>5, ConcatProperties
<1>12. d = SignatureProofToBytes(x, form)
  BY <1>1, <1>3, <1>5, <1>6, <1>7, <1>9, <1>10, <1>11 DEF SignatureProofToBytes
<1>13. LiesAt(d, 0, e) /\ LiesAt(d, Len(e), f) /\ Len(d) = Len(e) + Len(f)
  <2>1. Begins(d, d, e, f)
    <3>1. Len(d) \in Nat
      BY LenProperties
    <3> QED
      BY <1>11, <3>1 DEF LiesAt, Begins
  <2>2. Parted(d, d, e, f)
    BY <1>5, <2>1, BeginsInParts
  <2> QED
    BY <2>2 DEF Parted
<1>14. LiesAt(d, 0, b) /\ LiesAt(d, Len(b), u) /\ Len(e) = Len(b) + l
  <2>1. Begins(d, e, b, u)
    BY <1>10, <1>13 DEF Begins
  <2>2. Parted(d, e, b, u)
    BY <2>1, BeginsInParts
  <2> QED
    BY <1>9, <2>2 DEF Parted
<1>15. ShownLayout(x, form, V, d, y, b, f, J, M, n, l, r, z)
  BY <1>1, <1>2, <1>4, <1>5, <1>6, <1>7, <1>8, <1>9, <1>12, <1>13, <1>14 DEF ShownLayout
<1> QED
  BY <1>15

(* What is read of it before its messages. *)
ShownHead(data, form) ==
  TakeOrPanic(TakePoK(AtLeast(CursorOn(data), 2 * LEN_SIZE), form), "u32", form)
ShownRead(data, form) ==
  Onward(ShownHead(data, form), LAMBDA h : TakePairs(h, form, LastRead(h)))
ShownMessages(o) ==
  [i \in {o[2 * k + 1] : k \in 1..o[2]} |->
     o[2 * (CHOOSE k \in 1..o[2] : o[2 * k + 1] = i) + 2]]

(* What the pairs say is what they were made of. *)
LEMMA MessagesAre ==
  ASSUME NEW V, NEW m, m = [i \in DOMAIN m |-> m[i]], NEW J, NEW M, NEW n,
         Listed(m, V, J, M, n), NEW q, NEW W, NEW out, Paired(q, W, out, J, M, n), out[2] = n
  PROVE  ShownMessages(q) = m
<1>1. /\ n \in Nat /\ DOMAIN m = {J[k] : k \in 1..n} /\ \A k \in 1..n : M[k] = m[J[k]]
  BY DEF Listed
<1>2. q[2] = n /\ \A k \in 1..n : q[2 * k + 1] = J[k] /\ q[2 * k + 2] = M[k]
  BY DEF Paired
<1>3. {q[2 * k + 1] : k \in 1..q[2]} = DOMAIN m
  BY <1>1, <1>2
<1>4. ASSUME NEW i \in DOMAIN m
      PROVE  q[2 * (CHOOSE k \in 1..q[2] : q[2 * k + 1] = i) + 2] = m[i]
  <2>1. \E k \in 1..q[2] : q[2 * k + 1] = i
    BY <1>3
  <2>2. PICK j : j = CHOOSE k \in 1..q[2] : q[2 * k + 1] = i
    OBVIOUS
  <2>3. j \in 1..q[2] /\ q[2 * j + 1] = i
    BY <2>1, <2>2
  <2>4. q[2 * j + 2] = m[i]
    BY <1>1, <1>2, <2>3
  <2> QED
    BY <2>2, <2>4
<1> QED
  BY <1>3, <1>4 DEF ShownMessages

(* It is read back as it was written (lib.rs SignatureProof). *)
LEMMA ShownReads ==
  ASSUME NEW form \in Forms, NEW V, Nat \subseteq V, NEW x, PlainShown(x, V)
  PROVE  SignatureProofFromBytes(SignatureProofToBytes(x, form), form) = Ok(x)
<1>1. PICK d, y, b, f, J, M, n, l, r, z : ShownLayout(x, form, V, d, y, b, f, J, M, n, l, r, z)
  BY ShownInParts
<1>2. /\ l \in Nat \ {0} /\ l = LEN_SIZE /\ l = Size("u32", form)
      /\ Listed(x.revealed_messages, V, J, M, n)
      /\ PairsLayout(f, form, V, J, M, n, l, r, z)
      /\ y \in Seq(Byte(V)) /\ Nested("pok", y, form) = Ok(x.proof)
      /\ b = Prefixed(y) /\ Len(b) \in Nat /\ Len(b) >= l
      /\ d = SignatureProofToBytes(x, form) /\ d \in Seq(Byte(V))
      /\ Len(d) = (Len(b) + l) + Len(f) /\ Len(f) \in Nat
      /\ LiesAt(d, 0, b) /\ LiesAt(d, Len(b), Bytes("u32", form, n)) /\ LiesAt(d, Len(b) + l, f)
  BY <1>1 DEF ShownLayout
<1>3. n \in Nat /\ J \in [1..n -> V] /\ M \in [1..n -> V]
  BY <1>2 DEF Listed
<1>4. PICK W : W = V \union {x.proof}
  OBVIOUS
<1>5. V \subseteq W /\ Nat \subseteq W /\ x.proof \in W /\ n \in W
  BY <1>3, <1>4
<1>6. PICK s \in Seq(W) : s = << >> /\ Len(s) = 0
  BY EmptySeq
<1>7. PICK o1 : o1 = Append(s, x.proof) /\ o1 \in Seq(W) /\ OneMore(s, x.proof, o1)
  BY <1>5, AppendTyped
<1>8. PICK o2 : o2 = Append(o1, n) /\ o2 \in Seq(W) /\ OneMore(o1, n, o2)
  BY <1>5, <1>7, AppendTyped
<1>9. Len(o2) = 2 /\ o2[1] = x.proof /\ o2[2] = n
  <2>1. Len(o1) = 1 /\ o1[1] = x.proof
    BY <1>6, <1>7 DEF OneMore
  <2> QED
    BY <1>8, <2>1 DEF OneMore
<1>10. ShownHead(d, form) = Cursor(d, Len(b) + l, o2)
  <2>1. ~(Len(d) < 2 * l)
    BY <1>2
  <2>2. AtLeast(CursorOn(d), 2 * l) = Cursor(d, 0, s)
    BY <1>6, <2>1, HeadReads
  <2>3. TakePoK(Cursor(d, 0, s), form) = Cursor(d, Len(b), o1)
    <3>1. TakeLong("pok", Cursor(d, 0, s), form)
            = Cursor(d, 0 + Len(Prefixed(y)), Append(s, x.proof))
      <4>1. LiesAt(d, 0, Prefixed(y)) /\ 0 \in Nat
        BY <1>2
      <4>2. PICK p, v : p = 0 /\ v = x.proof
        OBVIOUS
      <4>3. /\ y \in Seq(Byte(V)) /\ Nested("pok", y, form) = Ok(v)
            /\ Nat \subseteq V /\ Nat \subseteq W /\ s \in Seq(W)
            /\ LiesAt(d, p, Prefixed(y)) /\ p \in Nat
        BY <1>2, <1>5, <4>1, <4>2
      <4>4. TakeLong("pok", Cursor(d, p, s), form)
              = Cursor(d, p + Len(Prefixed(y)), Append(s, v))
        BY ONLY <4>3, LongReads
      <4> QED
        BY <4>2, <4>4
    <3>2. 0 + Len(Prefixed(y)) = Len(b)
      BY <1>2
    <3> QED
      BY <1>7, <3>1, <3>2, LongParts
  <2>4. TakeOrPanic(Cursor(d, Len(b), o1), "u32", form) = Cursor(d, Len(b) + l, o2)
    <3>1. ReadsOne("u32", form, n, d, Len(b), o1)
      BY <1>2, OneIsRead DEF Kinds, Layouts
    <3> QED
      BY <1>2, <1>8, <3>1 DEF ReadsOne
  <2> QED
    BY <1>2, <2>2, <2>3, <2>4 DEF ShownHead
<1>11. PICK q : /\ TakePairs(Cursor(d, Len(b) + l, o2), form, n)
                     = Cursor(d, (Len(b) + l) + Len(f), q)
                /\ Paired(q, W, o2, J, M, n)
  <2>1. PICK p \in Nat : p = Len(b) + l
    BY <1>2
  <2> QED
    <3>1. /\ PairsLayout(f, form, V, J, M, n, l, r, z) /\ LiesAt(d, p, f)
          /\ V \subseteq W /\ o2 \in Seq(W) /\ Len(o2) = 2 /\ form \in Forms
          /\ n \in Nat /\ J \in [1..n -> V] /\ M \in [1..n -> V]
      BY <1>2, <1>3, <1>5, <1>8, <1>9, <2>1
    <3>2. PairsFound(d, p, form, f, W, o2, J, M, n)
      BY ONLY <3>1, p \in Nat, PairsRead
    <3> QED
      BY <2>1, <3>2 DEF PairsFound
<1>12. PICK h : h = ShownRead(d, form)
  OBVIOUS
<1>13. h.st = "ok" /\ h.out = q
  <2>1. PICK c : c = Cursor(d, Len(b) + l, o2)
    OBVIOUS
  <2>2. c.st = "ok" /\ LastRead(c) = n
    BY <1>9, <2>1 DEF Cursor, LastRead
  <2>3. h = Cursor(d, (Len(b) + l) + Len(f), q)
    BY <1>10, <1>11, <1>12, <2>1, <2>2 DEF ShownRead, Onward
  <2> QED
    BY <2>3 DEF Cursor
<1>14. SignatureProofFromBytes(d, form)
         = Read(h, LAMBDA o : [proof |-> o[1], revealed_messages |-> ShownMessages(o)])
  BY <1>12 DEF SignatureProofFromBytes, ShownRead, ShownHead, TakePoK, ShownMessages
<1>15. SignatureProofFromBytes(d, form) = Ok([proof |-> q[1], revealed_messages |-> ShownMessages(q)])
  BY <1>13, <1>14 DEF Read
<1>16. q[1] = x.proof /\ ShownMessages(q) = x.revealed_messages
  <2>1. q[1] = o2[1]
    BY <1>11 DEF Paired
  <2>2. PICK m : m = x.revealed_messages /\ m = [i \in DOMAIN m |-> m[i]]
    BY DEF PlainShown
  <2>3. ShownMessages(q) = m
    BY <1>2, <1>9, <1>11, <2>2, MessagesAre
  <2> QED
    BY <1>9, <2>1, <2>2, <2>3
<1>17. [proof |-> q[1], revealed_messages |-> ShownMessages(q)] = x
  BY <1>16 DEF PlainShown
<1> QED
  BY <1>2, <1>15, <1>17

(* ... and never from a proper beginning of its bytes: it says how many messages
   there are. *)
LEMMA ShownCut ==
  ASSUME NEW form \in Forms, NEW V, Nat \subseteq V, NEW x, PlainShown(x, V),
         NEW m \in Nat, m < Len(SignatureProofToBytes(x, form))
  PROVE  SignatureProofFromBytes(SubSeq(SignatureProofToBytes(x, form), 1, m), form).st # "ok"
<1>1. PICK d, y, b, f, J, M, n, l, r, z : ShownLayout(x, form, V, d, y, b, f, J, M, n, l, r, z)
  BY ShownInParts
<1>2. /\ l \in Nat \ {0} /\ l = LEN_SIZE /\ l = Size("u32", form)
      /\ Listed(x.revealed_messages, V, J, M, n)
      /\ PairsLayout(f, form, V, J, M, n, l, r, z)
      /\ y \in Seq(Byte(V)) /\ Nested("pok", y, form) = Ok(x.proof)
      /\ b = Prefixed(y) /\ Len(b) \in Nat
      /\ d = SignatureProofToBytes(x, form) /\ d \in Seq(Byte(V))
      /\ Len(d) = (Len(b) + l) + Len(f) /\ Len(f) \in Nat
      /\ LiesAt(d, 0, b) /\ LiesAt(d, Len(b), Bytes("u32", form, n)) /\ LiesAt(d, Len(b) + l, f)
  BY <1>1 DEF ShownLayout
<1>3. n \in Nat /\ J \in [1..n -> V] /\ M \in [1..n -> V]
  BY <1>2 DEF Listed
<1>4. PICK W : W = V \union {x.proof}
  OBVIOUS
<1>5. Nat \subseteq W /\ x.proof \in W /\ n \in W
  BY <1>3, <1>4
<1>6. PICK s \in Seq(W) : s = << >>
  BY EmptySeq
<1>7. PICK o1 : o1 = Append(s, x.proof) /\ o1 \in Seq(W)
  BY <1>5, AppendTyped
<1>8. PICK o2 : o2 = Append(o1, n) /\ o2 \in Seq(W) /\ OneMore(o1, n, o2)
  BY <1>5, <1>7, AppendTyped
<1>9. PICK w : w = SubSeq(d, 1, m)
  OBVIOUS
<1>10. CutTo(w, d, m) /\ m < Len(d)
  <2>1. m < Len(d) /\ m <= Len(d)
    BY <1>2
  <2> QED
    BY <1>2, <1>9, <2>1, BeginningIs
<1>11. PICK c0, c1, c2 : /\ c0 = AtLeast(CursorOn(w), 2 * LEN_SIZE) /\ c1 = TakePoK(c0, form)
                         /\ c2 = TakeOrPanic(c1, "u32", form)
  OBVIOUS
<1>12. AtOrStuck(c0, w, m, 0, s)
  BY <1>6, <1>11, HeadOrStuck
<1>13. AtOrStuck(c1, w, m, Len(b), o1)
  <2>1. AtOrStuck(TakeLong("pok", c0, form), w, m, 0 + Len(Prefixed(y)), Append(s, x.proof))
    <3>1. LiesAt(d, 0, Prefixed(y)) /\ 0 \in Nat
      BY <1>2
    <3> QED
      BY <1>2, <1>5, <1>10, <1>12, <3>1, LongOrStuck
  <2>2. 0 + Len(Prefixed(y)) = Len(b)
    BY <1>2
  <2> QED
    BY <1>7, <1>11, <2>1, <2>2, LongParts
<1>14. AtOrStuck(c2, w, m, Len(b) + l, o2)
  BY <1>2, <1>8, <1>10, <1>11, <1>13, NextOrStuck DEF Kinds, Layouts
<1>15. PICK h : h = ShownRead(w, form)
  OBVIOUS
<1>16. ShownHead(w, form) = c2
  BY <1>11 DEF ShownHead
<1>17. Stuck(h)
  <2>1. CASE Stuck(c2)
    BY <1>15, <1>16, <2>1 DEF ShownRead, Onward, Stuck
  <2>2. CASE ~Stuck(c2)
    <3>1. c2 = Cursor(w, Len(b) + l, o2)
      BY <1>14, <2>2 DEF AtOrStuck
    <3>2. c2.st = "ok" /\ LastRead(c2) = n
      <4>1. o2[Len(o2)] = n
        BY <1>8 DEF OneMore
      <4> QED
        BY <3>1, <4>1 DEF Cursor, LastRead
    <3>3. h = TakePairs(c2, form, n)
      BY <1>15, <1>16, <3>2 DEF ShownRead, Onward
    <3>4. PICK q : AtOrStuck(h, w, m, (Len(b) + l) + Len(f), q)
      <4>1. Len(b) + l \in Nat
        BY <1>2
      <4>2. \E q : AtOrStuck(TakePairs(c2, form, n), w, m, (Len(b) + l) + Len(f), q)
        BY <1>2, <1>3, <1>10, <1>14, <4>1, PairsOrStuck
      <4> QED
        BY <3>3, <4>2
    <3>5. ~((Len(b) + l) + Len(f) <= m)
      BY <1>2, <1>10
    <3> QED
      BY <3>4, <3>5 DEF AtOrStuck
  <2> QED
    BY <2>1, <2>2
<1>18. SignatureProofFromBytes(w, form)
         = Read(h, LAMBDA o : [proof |-> o[1], revealed_messages |-> ShownMessages(o)])
  BY <1>15 DEF SignatureProofFromBytes, ShownRead, ShownHead, TakePoK, ShownMessages
<1> QED
  BY <1>2, <1>9, <1>17, <1>18 DEF Read, Stuck

(* (The byte of a bit.) *)
LEMMA ByteOfBit ==
  ASSUME NEW B \in Nat \ {0}, NEW n \in Nat, NEW i \in Nat, i < B * n
  PROVE  \E q \in 0..(n - 1), r \in 0..(B - 1) : q = i \div B /\ r = i % B /\ i = B * q + r
<1>1. PICK q \in Int, r \in 0..(B - 1) : q = i \div B /\ r = i % B /\ i = B * q + r
  <2>1. i = B * (i \div B) + (i % B) /\ i \div B \in Int /\ i % B \in 0..(B - 1)
    OBVIOUS
  <2> QED
    BY <2>1
<1>2. PICK p \in Int, m \in Int : p = B * q /\ m = B * n
  <2>1. B * q \in Int /\ B * n \in Int
    OBVIOUS
  <2> QED
    BY <2>1
<1>3. q >= 0
  <2> SUFFICES ASSUME ~(q >= 0) PROVE FALSE
    OBVIOUS
  <2>1. PICK u \in Nat : q = -1 - u
    <3>1. -1 - q \in Nat /\ q = -1 - (-1 - q)
      OBVIOUS
    <3> QED
      BY <3>1
  <2>2. PICK k \in Nat : k = B * u
    <3>1. B * u \in Nat
      OBVIOUS
    <3> QED
      BY <3>1
  <2>3. p = -B - k
    BY <1>2, <2>1, <2>2
  <2>4. i = p + r
    BY <1>1, <1>2
  <2> QED
    BY ONLY <2>3, <2>4, i \in Nat, k \in Nat, B \in Nat \ {0}, r \in 0..(B - 1)
<1>4. q <= n - 1
  <2> SUFFICES ASSUME ~(q <= n - 1) PROVE FALSE
    OBVIOUS
  <2>1. PICK u \in Nat : q = n + u
    <3>1. q - n \in Nat /\ q = n + (q - n)
      OBVIOUS
    <3> QED
      BY <3>1
  <2>2. PICK k \in Nat : k = B * u
    <3>1. B * u \in Nat
      OBVIOUS
    <3> QED
      BY <3>1
  <2>3. p = m + k
    BY <1>2, <2>1, <2>2
  <2>4. i = p + r /\ i < m
    BY <1>1, <1>2
  <2> QED
    BY ONLY <2>3, <2>4, k \in Nat, m \in Int, r \in 0..(B - 1), B \in Nat
<1>5. q \in 0..(n - 1)
  BY <1>3, <1>4
<1> QED
  BY <1>1, <1>5

(* The bit vector, over V. *)
BitsLayout(v, total, asked, V) ==
  /\ v = RevealedToBitvector(total, asked) /\ v \in Seq(Byte(V))
  /\ Nested("bits", v, "plain") = Ok(asked)

(* It is read as the indices it was made of, the one just past the last byte's
   worth too (lib.rs revealed_to_bitvector, bitvector_to_revealed). *)
LEMMA BitsRead ==
  ASSUME NEW total \in Nat, NEW asked, asked \subseteq 0..total, NEW V, Nat \subseteq V,
         \A S \in SUBSET Nat : S \in V
  PROVE  \E v : BitsLayout(v, total, asked, V)
<1>1. PICK B \in Nat \ {0} : B = BITS
  BY SizesAssumption
<1>2. PICK n \in Nat \ {0} : n = total \div B + 1 /\ total < B * n
  <2>1. PICK q \in Int, r \in Int : total = B * q + r /\ r = total % B /\ r >= 0 /\ r < B
                                    /\ q = total \div B
    <3>1. total = B * (total \div B) + (total % B) /\ total \div B \in Int /\ total % B \in 0..(B - 1)
      OBVIOUS
    <3> QED
      BY <3>1
  <2>2. PICK p \in Int : p = B * q
    <3>1. B * q \in Int
      OBVIOUS
    <3> QED
      BY <3>1
  <2>3. B * (q + 1) = p + B
    BY <2>2
  <2>4. total < B * (q + 1)
    <3>1. total = p + r /\ r < B /\ r \in Int /\ p \in Int
      BY <2>1, <2>2
    <3>2. total < p + B
      BY ONLY <3>1, B \in Nat, total \in Nat
    <3> QED
      BY <2>3, <3>2
  <2>5. q + 1 \in Nat \ {0}
    <3>1. ASSUME q <= -1 PROVE FALSE
      <4>1. PICK u \in Nat : q = -1 - u
        <5>1. -1 - q \in Nat /\ q = -1 - (-1 - q)
          BY <3>1
        <5> QED
          BY <5>1
      <4>2. PICK k \in Nat : k = B * u
        <5>1. B * u \in Nat
          OBVIOUS
        <5> QED
          BY <5>1
      <4>3. p = -B - k
        BY <2>2, <4>1, <4>2
      <4>4. total = p + r
        BY <2>1, <2>2
      <4> QED
        BY ONLY <2>1, <4>3, <4>4, total \in Nat, k \in Nat, B \in Nat \ {0}
    <3> QED
      BY <3>1
  <2> QED
    BY <2>1, <2>4, <2>5
<1>3. PICK v : v = [k \in 1..n |-> <<"u8", "plain", RevealedBits(n - k, asked), 1>>]
  OBVIOUS
<1>4. v = RevealedToBitvector(total, asked)
  BY <1>1, <1>2, <1>3 DEF RevealedToBitvector
<1>5. v \in Seq(Byte(V)) /\ Len(v) = n
  <2>1. \A k \in 1..n : RevealedBits(n - k, asked) \in V
    <3> SUFFICES ASSUME NEW k \in 1..n PROVE RevealedBits(n - k, asked) \in V
      OBVIOUS
    <3>1. RevealedBits(n - k, asked) \in SUBSET Nat
      BY <1>1 DEF RevealedBits
    <3> QED
      BY <3>1
  <2>2. \A k \in 1..n : <<"u8", "plain", RevealedBits(n - k, asked), 1>> \in Byte(V)
    BY <2>1 DEF Byte, Kinds, Layouts
  <2>3. v \in [1..n -> Byte(V)]
    BY <1>3, <2>2
  <2>4. v \in Seq(Byte(V))
    BY <2>3
  <2>5. DOMAIN v = 1..n /\ n \in Nat
    BY <2>3
  <2>6. Len(v) = n
    BY ONLY <2>4, <2>5, LenProperties
  <2> QED
    BY <2>4, <2>6
<1>6. BitvectorToRevealed(v) = {i \in 0..(B * n - 1) : (i % B) \in v[n - (i \div B)][3]}
  BY <1>1, <1>5 DEF BitvectorToRevealed
<1>7. ASSUME NEW i \in 0..(B * n - 1)
      PROVE  (i % B) \in v[n - (i \div B)][3] <=> i \in asked
  <2>1. i \in Nat /\ i < B * n
    <3>1. PICK m \in Int : m = B * n
      <4>1. B * n \in Int
        OBVIOUS
      <4> QED
        BY <4>1
    <3> QED
      BY <3>1
  <2>2. PICK q \in 0..(n - 1), r \in 0..(B - 1) : q = i \div B /\ r = i % B /\ i = B * q + r
    BY <2>1, ByteOfBit
  <2>3. n - q \in 1..n /\ n - (n - q) = q
    OBVIOUS
  <2>4. v[n - q][3] = RevealedBits(q, asked)
    BY <1>3, <2>3
  <2>5. r \in RevealedBits(q, asked) <=> i \in asked
    BY <1>1, <2>2 DEF RevealedBits
  <2> QED
    BY <2>2, <2>4, <2>5
<1>8. asked \subseteq 0..(B * n - 1)
  <2> SUFFICES ASSUME NEW i \in asked PROVE i \in 0..(B * n - 1)
    OBVIOUS
  <2>1. PICK m \in Int : m = B * n
    <3>1. B * n \in Int
      OBVIOUS
    <3> QED
      BY <3>1
  <2>2. i \in 0..total /\ total < m
    BY <1>2, <2>1
  <2>3. i \in 0..(m - 1)
    BY ONLY <2>2, m \in Int, total \in Nat
  <2> QED
    BY <2>1, <2>3
<1>9. BitvectorToRevealed(v) = asked
  BY <1>6, <1>7, <1>8
<1>10. BitsLayout(v, total, asked, V)
  BY <1>4, <1>5, <1>9 DEF BitsLayout, Nested
<1> QED
  BY <1>10

(* A key at the end is read ... *)
TakeKey(c, form) == TakeRest(c, LAMBDA d : PublicKeyFromBytes(d, form))

LEMMA KeyAtEndReads ==
  ASSUME NEW form \in Forms, NEW T, NEW e \in Seq(T), NEW vk,
         PublicKeyFromBytes(e, form) = Ok(vk),
         NEW data, NEW at \in Nat, NEW out, LiesAt(data, at, e), Len(data) = at + Len(e)
  PROVE  TakeKey(Cursor(data, at, out), form) = Cursor(data, Len(data), Append(out, vk))
<1>1. PICK n \in Nat : n = Len(e)
  BY LenProperties
<1>2. Len(data) - at = n /\ ~(at + n > Len(data)) /\ at + n = Len(data)
  BY <1>1
<1>3. SubSeq(data, at + 1, at + n) = e
  BY <1>1, CutOut
<1>4. PICK h : h = Cursor(data, at, out)
  OBVIOUS
<1>5. h.st = "ok" /\ h.out = out /\ h.at = at /\ h.data = data
  BY <1>4 DEF Cursor
<1>6. PICK x : x = PublicKeyFromBytes(e, form) /\ x = Ok(vk)
  OBVIOUS
<1>7. x.st = "ok" /\ x.val = vk
  BY <1>6 DEF Ok
<1>8. TakeNested(h, n, LAMBDA d : PublicKeyFromBytes(d, form)) = TakeResult(h, n, x)
  BY <1>2, <1>3, <1>5, <1>6 DEF TakeNested
<1>9. TakeResult(h, n, x) = Cursor(data, Len(data), Append(out, vk))
  BY <1>2, <1>5, <1>7 DEF TakeResult, Advanced, Cursor
<1>10. TakeKey(h, form) = TakeNested(h, n, LAMBDA d : PublicKeyFromBytes(d, form))
  BY <1>2, <1>5 DEF TakeKey, TakeRest
<1> QED
  BY <1>4, <1>8, <1>9, <1>10

(* (The end of cut data, as a nested decoder gets it.) *)
LEMMA EndIsCut ==
  ASSUME NEW T, NEW e \in Seq(T), NEW d, NEW at \in Nat, LiesAt(d, at, e),
         Len(d) = at + Len(e), NEW n \in Nat, n < Len(d), at <= n, NEW w, CutTo(w, d, n)
  PROVE  \E k \in Nat : /\ Len(w) - at = k /\ ~(at + k > Len(w))
                        /\ EndsWithin(SubSeq(w, at + 1, at + k), 0, e)
<1>1. Len(w) = n /\ \A i \in 1..n : w[i] = d[i]
  BY DEF CutTo
<1>2. PICK m \in Nat : m = Len(e)
  BY LenProperties
<1>3. PICK k \in Nat : k = n - at /\ at + k = n /\ k < m
  <2>1. n < at + m
    BY <1>2
  <2>2. n - at \in Nat /\ at + (n - at) = n /\ n - at < m
    BY ONLY <2>1, n \in Nat, at \in Nat, m \in Nat, at <= n
  <2> QED
    BY <2>2
<1>4. \A i \in 1..k : w[at + i] = e[i] /\ e[i] \in T
  <2> SUFFICES ASSUME NEW i \in 1..k PROVE w[at + i] = e[i] /\ e[i] \in T
    OBVIOUS
  <2>1. i \in 1..m /\ at + i \in 1..n
    BY ONLY <1>3, i \in 1..k, at \in Nat, m \in Nat, n \in Nat, k \in Nat
  <2>2. d[at + i] = e[i]
    BY <1>2, <2>1 DEF LiesAt
  <2>3. e[i] \in T
    BY <1>2, <2>1, ElementOfSeq
  <2> QED
    BY <1>1, <2>1, <2>2, <2>3
<1>5. PICK s : s = SubSeq(w, at + 1, at + k)
  OBVIOUS
<1>6. Len(s) = k /\ \A i \in 1..k : s[i] = w[at + i]
  <2>1. \A i \in (at + 1)..(at + k) : w[i] \in T
    <3> SUFFICES ASSUME NEW i \in (at + 1)..(at + k) PROVE w[i] \in T
      OBVIOUS
    <3>1. i - at \in 1..k /\ at + (i - at) = i
      OBVIOUS
    <3> QED
      BY <1>4, <3>1
  <2>2. at + 1 \in Int /\ at + k \in Int
    OBVIOUS
  <2>3. /\ Len(s) = IF at + 1 <= at + k THEN (at + k) - (at + 1) + 1 ELSE 0
        /\ \A i \in 1..((at + k) - (at + 1) + 1) : s[i] = w[at + 1 + i - 1]
    BY <1>5, <2>1, <2>2, SubSeqProperties
  <2>4. (at + k) - (at + 1) + 1 = k /\ (~(at + 1 <= at + k) => k = 0)
        /\ \A i \in 1..k : at + 1 + i - 1 = at + i
    OBVIOUS
  <2> QED
    BY <2>3, <2>4
<1>7. EndsWithin(s, 0, e)
  <2>1. \A i \in 1..k : s[i] = e[i]
    BY <1>4, <1>6
  <2>2. CutTo(s, e, k) /\ k < Len(e)
    BY <1>2, <1>3, <1>6, <2>1 DEF CutTo
  <2> QED
    BY <2>2, CutEnds
<1> QED
  BY <1>1, <1>3, <1>5, <1>7

(* ... and not when its end is cut. *)
LEMMA KeyAtEndIsStuck ==
  ASSUME NEW form \in Forms, NEW V, NEW m, NEW vk, PlainKey(vk, m, V),
         NEW T, NEW e \in Seq(T), e = PublicKeyToBytes(vk, form),
         NEW d, NEW at \in Nat, LiesAt(d, at, e), Len(d) = at + Len(e),
         NEW n \in Nat, n < Len(d), NEW w, CutTo(w, d, n), NEW out,
         NEW c, AtOrStuck(c, w, n, at, out)
  PROVE  Stuck(TakeKey(c, form))
<1>1. CASE Stuck(c)
  BY <1>1 DEF Stuck, TakeKey, TakeRest, TakeNested
<1>2. CASE c = Cursor(w, at, out) /\ at <= n
  <2>1. PICK k \in Nat : /\ Len(w) - at = k /\ ~(at + k > Len(w))
                         /\ EndsWithin(SubSeq(w, at + 1, at + k), 0, e)
    BY <1>2, EndIsCut
  <2>2. PICK s, x : s = SubSeq(w, at + 1, at + k) /\ x = PublicKeyFromBytes(s, form)
    OBVIOUS
  <2>3. x.st # "ok"
    BY <2>1, <2>2, KeyCut
  <2>4. c.st = "ok" /\ c.at = at /\ c.data = w
    BY <1>2 DEF Cursor
  <2>5. TakeNested(c, k, LAMBDA y : PublicKeyFromBytes(y, form)) = TakeResult(c, k, x)
    BY <2>1, <2>2, <2>4 DEF TakeNested
  <2>6. TakeResult(c, k, x) = [c EXCEPT !.st = x.st]
    BY <2>3 DEF TakeResult
  <2>7. [c EXCEPT !.st = x.st].st = x.st
    BY <1>2 DEF Cursor
  <2>8. TakeKey(c, form) = TakeNested(c, k, LAMBDA y : PublicKeyFromBytes(y, form))
    BY <2>1, <2>4 DEF TakeKey, TakeRest
  <2> QED
    BY <2>3, <2>5, <2>6, <2>7, <2>8 DEF Stuck
<1> QED
  BY <1>1, <1>2 DEF AtOrStuck

(* A request over V, and its bytes: the bit vector v with its length in b, the
   key in e. *)
PlainRequest(x, n, V) ==
  /\ x = [revealed_messages |-> x.revealed_messages, verification_key |-> x.verification_key]
  /\ PlainKey(x.verification_key, n, V) /\ \A S \in SUBSET Nat : S \in V
  /\ PublicKeyValidate(x.verification_key) = Ok(x.verification_key)
  /\ x.revealed_messages \subseteq 0..n

RequestLayout(x, n, form, V, d, v, b, e, g, l) ==
  /\ g \in Nat \ {0} /\ l \in Nat \ {0} /\ g = Size("g1", form) /\ l = LEN_SIZE
  /\ Size("g2", form) = 2 * g
  /\ v \in Seq(Byte(V)) /\ Nested("bits", v, form) = Ok(x.revealed_messages)
  /\ b = Prefixed(v) /\ b \in Seq(Byte(V)) /\ Len(b) \in Nat /\ Len(b) >= l
  /\ e = PublicKeyToBytes(x.verification_key, form) /\ e \in Seq(Byte(V))
  /\ Len(e) \in Nat /\ Len(e) >= 3 * g + l
  /\ PublicKeyFromBytes(e, form) = Ok(x.verification_key)
  /\ d = ProofRequestToBytes(x, form) /\ d \in Seq(Byte(V)) /\ Len(d) = Len(b) + Len(e)
  /\ LiesAt(d, 0, b) /\ LiesAt(d, Len(b), e)

LEMMA RequestInParts ==
  ASSUME NEW form \in Forms, NEW V, NEW n, NEW x, PlainRequest(x, n, V)
  PROVE  \E d, v, b, e, g, l : RequestLayout(x, n, form, V, d, v, b, e, g, l)
<1>1. PICK vk, asked : vk = x.verification_key /\ asked = x.revealed_messages
  OBVIOUS
<1>2. /\ PlainKey(vk, n, V) /\ \A S \in SUBSET Nat : S \in V
      /\ PublicKeyValidate(vk) = Ok(vk) /\ asked \subseteq 0..n
  BY <1>1 DEF PlainRequest
<1>3. n \in Nat \ {0} /\ Nat \subseteq V
  BY <1>2 DEF PlainKey
<1>4. PICK c, hs, f, g, l : KeyLayout(vk, n, form, V, c, hs, f, g, l)
  BY <1>2, KeyInParts
<1>5. /\ g \in Nat \ {0} /\ l \in Nat \ {0} /\ g = Size("g1", form) /\ l = LEN_SIZE
      /\ n * g \in Nat /\ MessageCount(vk) = n
      /\ c = PublicKeyToBytes(vk, form) /\ c \in Seq(Byte(V)) /\ Len(c) = 3 * g + l + n * g
  BY <1>4 DEF KeyLayout
<1>6. Size("g2", form) = 2 * g /\ Size("u32", "plain") = l
  BY <1>5, SizeTellsForm DEF Size
<1>7. PICK v : BitsLayout(v, n, asked, V)
  BY <1>2, <1>3, BitsRead
<1>8. /\ v = RevealedToBitvector(n, asked) /\ v \in Seq(Byte(V))
      /\ Nested("bits", v, form) = Ok(asked)
  BY <1>7 DEF BitsLayout, Nested
<1>9. PICK b \in Seq(Byte(V)) : b = Prefixed(v) /\ Len(b) \in Nat
  BY <1>3, <1>8, PrefixedTyped
<1>10. Len(b) >= l
  <2>1. Len(v) \in V /\ Len(v) \in Nat
    BY <1>3, <1>8, LenProperties
  <2>2. PICK a \in Seq(Byte(V)) : a = Bytes("u32", "plain", Len(v)) /\ Len(a) = l
    BY <1>6, <2>1, BytesAre DEF Kinds, Layouts
  <2>3. b = a \o v
    BY <1>9, <2>2 DEF Prefixed
  <2>4. Len(b) = Len(a) + Len(v)
    BY <1>8, <2>3, ConcatProperties
  <2> QED
    BY <1>5, <2>1, <2>2, <2>4
<1>11. PICK d \in Seq(Byte(V)) : d = b \o c
  BY <1>5, ConcatProperties
<1>12. d = ProofRequestToBytes(x, form)
  BY <1>1, <1>5, <1>8, <1>9, <1>11 DEF ProofRequestToBytes
<1>13. LiesAt(d, 0, b) /\ LiesAt(d, Len(b), c) /\ Len(d) = Len(b) + Len(c)
  <2>1. Begins(d, d, b, c)
    <3>1. Len(d) \in Nat
      BY LenProperties
    <3> QED
      BY <1>11, <3>1 DEF LiesAt, Begins
  <2>2. Parted(d, d, b, c)
    BY <1>5, <2>1, BeginsInParts
  <2> QED
    BY <2>2 DEF Parted
<1>14. PublicKeyFromBytes(c, form) = Ok(vk)
  BY <1>2, <1>5, KeyReads
<1>15. Len(c) \in Nat /\ Len(c) >= 3 * g + l
  <2>1. PICK m \in Nat : m = n * g
    BY <1>5
  <2> QED
    BY <1>5, <2>1
<1>16. RequestLayout(x, n, form, V, d, v, b, c, g, l)
  BY <1>1, <1>5, <1>6, <1>8, <1>9, <1>10, <1>11, <1>12, <1>13, <1>14, <1>15 DEF RequestLayout
<1> QED
  BY <1>16

(* What is read of a request before its key. *)
RequestHead(data, form) ==
  TakeBits(AtLeast(CursorOn(data), 2 * LEN_SIZE + Size("g1", form) + Size("g2", form)))
RequestOf(data, form) == TakeKey(RequestHead(data, form), form)

(* (Which the decoder goes through.) *)
LEMMA RequestSteps ==
  ASSUME NEW data, NEW form
  PROVE  ProofRequestFromBytes(data, form)
           = Read(RequestOf(data, form),
                  LAMBDA o : [revealed_messages |-> o[1], verification_key |-> o[2]])
BY DEF ProofRequestFromBytes, RequestOf, RequestHead, TakeKey, TakeBits

(* A request is read back as it was written (lib.rs ProofRequest). *)
LEMMA RequestReads ==
  ASSUME NEW form \in Forms, NEW V, NEW n, NEW x, PlainRequest(x, n, V)
  PROVE  ProofRequestFromBytes(ProofRequestToBytes(x, form), form) = Ok(x)
<1>1. PICK d, v, b, e, g, l : RequestLayout(x, n, form, V, d, v, b, e, g, l)
  BY RequestInParts
<1>2. PICK vk, asked : vk = x.verification_key /\ asked = x.revealed_messages
  OBVIOUS
<1>3. /\ g \in Nat \ {0} /\ l \in Nat \ {0} /\ g = Size("g1", form) /\ l = LEN_SIZE
      /\ Size("g2", form) = 2 * g
      /\ v \in Seq(Byte(V)) /\ Nested("bits", v, form) = Ok(asked)
      /\ b = Prefixed(v) /\ Len(b) \in Nat /\ Len(b) >= l
      /\ e \in Seq(Byte(V)) /\ Len(e) \in Nat /\ Len(e) >= 3 * g + l
      /\ PublicKeyFromBytes(e, form) = Ok(vk)
      /\ d = ProofRequestToBytes(x, form) /\ Len(d) = Len(b) + Len(e)
      /\ LiesAt(d, 0, b) /\ LiesAt(d, Len(b), e)
  BY <1>1, <1>2 DEF RequestLayout
<1>4. Nat \subseteq V /\ asked \in V
  <2>1. n \in Nat /\ Nat \subseteq V /\ asked \subseteq 0..n /\ \A S \in SUBSET Nat : S \in V
    BY <1>2 DEF PlainRequest, PlainKey
  <2>2. asked \in SUBSET Nat
    BY <2>1
  <2> QED
    BY <2>1, <2>2
<1>5. PICK z \in Seq(V) : z = << >> /\ Len(z) = 0
  BY EmptySeq
<1>6. PICK o1 : o1 = Append(z, asked) /\ o1 \in Seq(V) /\ OneMore(z, asked, o1)
  BY <1>4, <1>5, AppendTyped
<1>7. PICK W : W = V \union {vk}
  OBVIOUS
<1>8. o1 \in Seq(W) /\ vk \in W
  <2>1. V \subseteq W
    BY <1>7
  <2> QED
    BY <1>6, <1>7, <2>1, SeqMonotonic
<1>9. PICK o2 : o2 = Append(o1, vk) /\ OneMore(o1, vk, o2)
  BY <1>8, AppendTyped
<1>10. o2[1] = asked /\ o2[2] = vk
  <2>1. Len(o1) = 1 /\ o1[1] = asked
    BY <1>5, <1>6 DEF OneMore
  <2> QED
    BY <1>9, <2>1 DEF OneMore
<1>11. RequestHead(d, form) = Cursor(d, Len(b), o1)
  <2>1. PICK k : k = 2 * LEN_SIZE + Size("g1", form) + Size("g2", form)
    OBVIOUS
  <2>2. ~(Len(d) < k)
    <3>1. k = 2 * l + g + 2 * g
      BY <1>3, <2>1
    <3>2. PICK p \in Nat, q \in Nat : p = Len(b) /\ q = Len(e)
      BY <1>3
    <3>3. Len(d) = p + q /\ p >= l /\ q >= 3 * g + l /\ g \in Nat /\ l \in Nat
      BY <1>3, <3>2
    <3>4. ~(p + q < 2 * l + g + 2 * g)
      BY ONLY <3>3, p \in Nat, q \in Nat
    <3> QED
      BY <3>1, <3>3, <3>4
  <2>3. AtLeast(CursorOn(d), k) = Cursor(d, 0, z)
    BY <1>5, <2>2, HeadReads
  <2>4. TakeLong("bits", Cursor(d, 0, z), form) = Cursor(d, 0 + Len(Prefixed(v)), Append(z, asked))
    <3>1. LiesAt(d, 0, Prefixed(v)) /\ 0 \in Nat
      BY <1>3
    <3>2. PICK p : p = 0
      OBVIOUS
    <3>3. /\ v \in Seq(Byte(V)) /\ Nested("bits", v, form) = Ok(asked)
          /\ Nat \subseteq V /\ z \in Seq(V) /\ LiesAt(d, p, Prefixed(v)) /\ p \in Nat
      BY <1>3, <1>4, <1>5, <3>1, <3>2
    <3>4. TakeLong("bits", Cursor(d, p, z), form)
            = Cursor(d, p + Len(Prefixed(v)), Append(z, asked))
      BY ONLY <3>3, LongReads
    <3> QED
      BY <3>2, <3>4
  <2>5. 0 + Len(Prefixed(v)) = Len(b)
    BY <1>3
  <2> QED
    BY <1>6, <2>1, <2>3, <2>4, <2>5, LongParts DEF RequestHead
<1>12. PICK h : h = RequestOf(d, form)
  OBVIOUS
<1>13. h = Cursor(d, Len(d), o2)
  <2>1. TakeKey(Cursor(d, Len(b), o1), form) = Cursor(d, Len(d), Append(o1, vk))
    <3>1. PICK p, T : p \in Nat /\ p = Len(b) /\ T = Byte(V)
      BY <1>3
    <3>2. /\ e \in Seq(T) /\ PublicKeyFromBytes(e, form) = Ok(vk)
          /\ LiesAt(d, p, e) /\ Len(d) = p + Len(e)
      BY <1>3, <3>1
    <3>3. TakeKey(Cursor(d, p, o1), form) = Cursor(d, Len(d), Append(o1, vk))
      BY ONLY form \in Forms, <3>1, <3>2, KeyAtEndReads
    <3> QED
      BY <3>1, <3>3
  <2> QED
    BY <1>9, <1>11, <1>12, <2>1 DEF RequestOf
<1>14. h.st = "ok" /\ h.out = o2
  BY <1>13 DEF Cursor
<1>15. ProofRequestFromBytes(d, form)
         = Read(h, LAMBDA o : [revealed_messages |-> o[1], verification_key |-> o[2]])
  BY <1>12, RequestSteps
<1>16. ProofRequestFromBytes(d, form) = Ok([revealed_messages |-> asked, verification_key |-> vk])
  BY <1>10, <1>14, <1>15 DEF Read
<1> QED
  BY <1>2, <1>3, <1>16 DEF PlainRequest

(* No request is read from a proper beginning of its bytes. *)
LEMMA RequestCut ==
  ASSUME NEW form \in Forms, NEW V, NEW n, NEW x, PlainRequest(x, n, V),
         NEW m \in Nat, m < Len(ProofRequestToBytes(x, form))
  PROVE  ProofRequestFromBytes(SubSeq(ProofRequestToBytes(x, form), 1, m), form).st # "ok"
<1>1. PICK d, v, b, e, g, l : RequestLayout(x, n, form, V, d, v, b, e, g, l)
  BY RequestInParts
<1>2. PICK vk, asked : vk = x.verification_key /\ asked = x.revealed_messages
  OBVIOUS
<1>3. /\ v \in Seq(Byte(V)) /\ Nested("bits", v, form) = Ok(asked)
      /\ b = Prefixed(v) /\ Len(b) \in Nat
      /\ e = PublicKeyToBytes(vk, form) /\ e \in Seq(Byte(V))
      /\ d = ProofRequestToBytes(x, form) /\ d \in Seq(Byte(V)) /\ Len(d) = Len(b) + Len(e)
      /\ LiesAt(d, 0, b) /\ LiesAt(d, Len(b), e)
  BY <1>1, <1>2 DEF RequestLayout
<1>4. PlainKey(vk, n, V)
  BY <1>2 DEF PlainRequest
<1>5. Nat \subseteq V
  BY <1>4 DEF PlainKey
<1>6. PICK s \in Seq(V) : s = << >>
  BY EmptySeq
<1>7. PICK w : w = SubSeq(d, 1, m)
  OBVIOUS
<1>8. CutTo(w, d, m) /\ m < Len(d)
  <2>1. m < Len(d) /\ m <= Len(d)
    BY <1>3, LenProperties
  <2> QED
    BY <1>3, <1>7, <2>1, BeginningIs
<1>9. PICK k : k = 2 * LEN_SIZE + Size("g1", form) + Size("g2", form)
  OBVIOUS
<1>10. PICK c0, c1 : c0 = AtLeast(CursorOn(w), k) /\ c1 = TakeBits(c0)
  OBVIOUS
<1>11. AtOrStuck(c0, w, m, 0, s)
  BY <1>6, <1>10, HeadOrStuck
<1>12. AtOrStuck(c1, w, m, Len(b), Append(s, asked))
  <2>1. AtOrStuck(TakeLong("bits", c0, form), w, m, 0 + Len(Prefixed(v)), Append(s, asked))
    <3>1. LiesAt(d, 0, Prefixed(v)) /\ 0 \in Nat
      BY <1>3
    <3> QED
      BY <1>3, <1>5, <1>6, <1>8, <1>11, <3>1, LongOrStuck
  <2>2. 0 + Len(Prefixed(v)) = Len(b)
    BY <1>3
  <2> QED
    BY <1>10, <2>1, <2>2, LongParts
<1>13. PICK h : h = TakeKey(c1, form)
  OBVIOUS
<1>14. Stuck(h)
  BY <1>3, <1>4, <1>8, <1>12, <1>13, KeyAtEndIsStuck
<1>15. h = RequestOf(w, form)
  BY <1>9, <1>10, <1>13 DEF RequestOf, RequestHead
<1>16. ProofRequestFromBytes(w, form)
         = Read(h, LAMBDA o : [revealed_messages |-> o[1], verification_key |-> o[2]])
  BY <1>15, RequestSteps
<1> QED
  BY <1>3, <1>7, <1>14, <1>16 DEF Read, Stuck

(* No key is, either. *)
LEMMA KeyBeginningCut ==
  ASSUME NEW form \in Forms, NEW V, NEW k, NEW vk, PlainKey(vk, k, V),
         NEW n \in Nat, n < Len(PublicKeyToBytes(vk, form))
  PROVE  PublicKeyFromBytes(SubSeq(PublicKeyToBytes(vk, form), 1, n), form).st # "ok"
<1>1. PICK d, hs, f, g, l : KeyLayout(vk, k, form, V, d, hs, f, g, l)
  BY KeyInParts
<1>2. d = PublicKeyToBytes(vk, form) /\ d \in Seq(Byte(V))
  BY <1>1 DEF KeyLayout
<1>3. n < Len(d) /\ n <= Len(d)
  BY <1>2, LenProperties
<1>4. CutTo(SubSeq(d, 1, n), d, n)
  BY <1>2, <1>3, BeginningIs
<1>5. EndsWithin(SubSeq(d, 1, n), 0, PublicKeyToBytes(vk, form))
  BY <1>2, <1>3, <1>4, CutEnds
<1> QED
  BY <1>2, <1>5, KeyCut

--------------------------------------------------------------------------------
(* What the parties hold survives its byte form, and no beginning of it does. *)

(* A blind signature that was made is whole. *)
LEMMA BlindShape ==
  ASSUME NEW commitment, NEW m, NEW sk, NEW vk, NEW e, NEW s, NEW r,
         r = BlindSignatureNew(commitment, m, sk, vk, e, s), r.st = "ok"
  PROVE  r.val = [a |-> r.val.a, e |-> r.val.e, s |-> r.val.s]
<1>1. PICK b : r = SignB(b, e, s, sk)
  <2>1. PICK I, b : /\ I = InOrder(DOMAIN m)
                    /\ b = MultiScalarMul(<<commitment, One, vk.h0>> \o [k \in DOMAIN I |-> vk.h[I[k]]],
                                          <<1, 1, s>> \o [k \in DOMAIN I |-> m[I[k]]])
    OBVIOUS
  <2>2. PICK v : v = KeysValidate(sk, vk)
    OBVIOUS
  <2>3. PICK z : z = SignB(b, e, s, sk)
    OBVIOUS
  <2>4. r = IF Len(I) > MessageCount(vk) THEN Err("PublicKeyGeneratorMessageCountMismatch")
            ELSE IF v.st = "ok"
                 THEN IF ~(DOMAIN m \subseteq DOMAIN vk.h) THEN Panic ELSE z
                 ELSE v
    BY <2>1, <2>2, <2>3 DEF BlindSignatureNew, Try
  <2>5. r = z
    BY <2>4 DEF Err, Panic
  <2> QED
    BY <2>3, <2>5
<1>2. r = Ok([a |-> Times(b, Inverse1(Plus(sk, e))), e |-> e, s |-> s])
  BY <1>1 DEF SignB, Panic
<1> QED
  BY <1>2 DEF Ok

(* What a request says is what was asked. *)
LEMMA RequestHeld ==
  ASSUME CredentialInv, HeldInv, NEW S, S \subseteq Nat, NewProofRequest(S)
  PROVE  HeldInv'
<1>1. PICK x : /\ requests' = Append(requests, x)
               /\ x = [revealed_messages |-> S, verification_key |-> x.verification_key]
  <2>1. PICK vk : requests' = Append(requests, [revealed_messages |-> S, verification_key |-> vk])
    BY DEF NewProofRequest
  <2> QED
    BY <2>1
<1>2. blind' = blind /\ S \subseteq 0..N
  <2>1. N \in Nat /\ \A i \in S : i <= N
    BY CredentialAssumption DEF NewProofRequest
  <2> QED
    BY <2>1 DEF NewProofRequest
<1>3. Sequence(requests) /\ Len(requests) \in Nat
  BY DEF CredentialInv, KeysInv, Sequence
<1>4. /\ DOMAIN requests' = 1..(Len(requests) + 1) /\ DOMAIN requests = 1..Len(requests)
      /\ \A k \in 1..Len(requests) : requests'[k] = requests[k]
      /\ requests'[Len(requests) + 1] = x
  BY <1>1, <1>3, AppendSequence
<1>5. ASSUME NEW k \in DOMAIN requests'
      PROVE  LET y == requests'[k]
             IN  /\ y = [revealed_messages |-> y.revealed_messages,
                         verification_key |-> y.verification_key]
                 /\ y.revealed_messages \subseteq 0..N
  <2>1. k \in 1..Len(requests) \/ k = Len(requests) + 1
    BY <1>3, <1>4, <1>5
  <2>2. CASE k \in 1..Len(requests)
    BY <1>4, <2>2 DEF HeldInv
  <2>3. CASE k = Len(requests) + 1
    BY <1>1, <1>2, <1>4, <2>3
  <2> QED
    BY <2>1, <2>2, <2>3
<1> QED
  BY <1>2, <1>5 DEF HeldInv

LEMMA BlindHeld ==
  ASSUME HeldInv, NEW K, BlindSign(K)
  PROVE  HeldInv'
<1>1. requests' = requests
  BY DEF BlindSign, showVars
<1>2. PICK v, new :
        /\ new = BlindSignatureNew(ctx.val.commitment, MapOn(K), keys.sk, keys.vk,
                                   Drawn(3)[1], Drawn(4)[1])
        /\ LET r == IF v.st # "ok" THEN v ELSE IF ~v.val THEN Err("GeneralError") ELSE new
           IN  IF r.st = "ok" THEN blind' = [sig |-> r.val, blinding |-> ctx.blinding]
               ELSE blind' = None
  BY DEF BlindSign
<1>3. ASSUME blind' # None
      PROVE  blind'.sig = [a |-> blind'.sig.a, e |-> blind'.sig.e, s |-> blind'.sig.s]
  <2>1. new.st = "ok" /\ blind'.sig = new.val
    BY <1>2, <1>3 DEF Err
  <2>2. new.val = [a |-> new.val.a, e |-> new.val.e, s |-> new.val.s]
    BY <1>2, <2>1, BlindShape
  <2> QED
    BY <2>1, <2>2
<1> QED
  BY <1>1, <1>3 DEF HeldInv

LEMMA HeldStep == CredentialInv /\ HeldInv /\ [Next]_vars => HeldInv'
<1> SUFFICES ASSUME CredentialInv, HeldInv, [Next]_vars PROVE HeldInv'
  OBVIOUS
<1>1. ASSUME (blind' = blind \/ blind' = None) /\ requests' = requests PROVE HeldInv'
  BY <1>1 DEF HeldInv
<1>2. ASSUME NEW sk \in SecretKeys, NewKeys(sk) PROVE HeldInv'
  BY <1>1, <1>2 DEF NewKeys, issueVars, showVars
<1>3. ASSUME NEW n \in Nonces, GenerateSigningNonce(n) \/ GenerateProofNonce(n)
      PROVE  HeldInv'
  BY <1>1, <1>3 DEF GenerateSigningNonce, GenerateProofNonce, issueVars, showVars
<1>4. ASSUME NEW H \in HiddenSets, ProverNewContext(H) PROVE HeldInv'
  BY <1>1, <1>4 DEF ProverNewContext, showVars
<1>5. ASSUME NEW K \in KnownSets, BlindSign(K) PROVE HeldInv'
  BY <1>5, BlindHeld
<1>6. CASE CompleteSignature
  BY <1>1, <1>6 DEF CompleteSignature, showVars
<1>7. ASSUME NEW n \in {N - 1, N}, Sign(n) PROVE HeldInv'
  BY <1>1, <1>7 DEF Sign, showVars
<1>8. ASSUME NEW S \in AskedSets, NewProofRequest(S) PROVE HeldInv'
  BY <1>8, CredentialAssumption, RequestHeld
<1>9. ASSUME NEW V \in RevealSets, CommitSignaturePok(V) PROVE HeldInv'
  BY <1>1, <1>9 DEF CommitSignaturePok, issueVars
<1>10. ASSUME NEW cl \in Claims, GenerateSignaturePok(cl) \/ VerifySignaturePok(cl)
       PROVE  HeldInv'
  BY <1>1, <1>10 DEF GenerateSignaturePok, VerifySignaturePok, issueVars
<1>11. CASE UNCHANGED vars
  BY <1>1, <1>11 DEF vars
<1> QED
  BY <1>2, <1>3, <1>4, <1>5, <1>6, <1>7, <1>8, <1>9, <1>10, <1>11 DEF Next

(* A request and a blind signature are always whole. *)
LEMMA HeldAlways == Spec => []HeldInv
<1>1. Init => HeldInv
  <2> SUFFICES ASSUME Init PROVE HeldInv
    OBVIOUS
  <2>1. blind = None /\ requests = << >>
    BY DEF Init
  <2>2. DOMAIN requests = {}
    BY <2>1
  <2> QED
    BY <2>1, <2>2 DEF HeldInv
<1> QED
  BY <1>1, HeldStep, CredentialInvariance, PTL DEF Spec

(* Scalars are numbers. *)
LEMMA ScalarsAreNumbers == Fr \subseteq Nat
BY RAssumption DEF Fr

(* What a proof of committed values is made of. *)
LEMMA ProofShape ==
  ASSUME NEW p, NEW c, NEW secrets, NEW g, g = GenProofVC(p, c, secrets), g.st = "ok",
         g.val.commitment \in Fr, g.val.responses \in Seq(Fr)
  PROVE  CommittedProof(g.val, Nat)
<1>1. g.val = [commitment |-> g.val.commitment, responses |-> g.val.responses]
  BY DEF GenProofVC, Ok, Err
<1>2. g.val.responses \in Seq(Nat) /\ g.val.commitment \in Nat
  BY ScalarsAreNumbers, SeqMonotonic
<1> QED
  BY <1>1, <1>2 DEF CommittedProof

(* The key. *)
LEMMA KeyHeld ==
  ASSUME CredentialInv, keys # None, NEW V, Nat \subseteq V
  PROVE  PlainKey(keys.vk, N, V) /\ PublicKeyValidate(keys.vk) = Ok(keys.vk)
<1>1. keys.sk \in SecretKeys /\ keys.vk = TheKey(keys.sk)
  BY DEF CredentialInv, KeysInv
<1>2. /\ keys.vk = [w |-> keys.sk, h0 |-> Generators[1], h |-> [i \in Idx |-> Generators[i + 2]]]
      /\ GoodKey(keys.vk, keys.sk, N)
  BY <1>1, TheKeyIs
<1>3. /\ N \in Nat \ {0} /\ keys.vk.w = keys.sk /\ keys.sk \in Fr /\ keys.vk.h0 \in Fr
      /\ \A i \in 0..(N - 1) : keys.vk.h[i] \in Fr
  BY <1>2 DEF GoodKey
<1>4. PICK h : h = [i \in Idx |-> Generators[i + 2]]
  OBVIOUS
<1>5. keys.vk = [w |-> keys.vk.w, h0 |-> keys.vk.h0, h |-> [i \in 0..(N - 1) |-> keys.vk.h[i]]]
  <2>1. keys.vk.h = h /\ h = [i \in 0..(N - 1) |-> h[i]]
    BY <1>2, <1>4 DEF Idx
  <2> QED
    BY <1>2, <1>4, <2>1
<1>6. Fr \subseteq V
  BY ScalarsAreNumbers
<1> QED
  BY <1>2, <1>3, <1>5, <1>6, GoodKeyFacts DEF PlainKey

(* The context. *)
LEMMA ContextHeld ==
  ASSUME CredentialInv, ctx # None
  PROVE  PlainContext(ctx.val, Nat)
<1>1. Issuing
  BY DEF CredentialInv, FreshInv, ContextInv, Issuing
<1>2. PICK m, draws, h : m = MapOn(ctx.hidden) /\ draws = Drawn(2) /\ h = Challenges[1]
  OBVIOUS
<1>3. PICK made : made = NewBlindSignatureContext(keys.vk, m, ctx.blinding, draws, h)
  OBVIOUS
<1>4. /\ Contextual(keys.vk, keys.sk, N, ctx.hidden, m, ctx.blinding, draws, h)
      /\ DOMAIN m = ctx.hidden /\ ctx.hidden \in SUBSET Idx /\ DOMAIN keys.vk.h = Idx
      /\ ctx.val = made.val
  BY <1>1, <1>2, <1>3, ContextIs
<1>5. ContextAnswers(keys.vk, ctx.hidden, m, ctx.blinding, draws, h, ctx.made)
  BY <1>4, ContextHolds
<1>6. /\ made.val.challenge_hash = h /\ made.val.commitment \in Fr
      /\ made.val.proof.commitment \in Fr /\ made.val.proof.responses \in Seq(Fr)
      /\ made.val.proof = [commitment |-> made.val.proof.commitment,
                           responses |-> made.val.proof.responses]
  BY <1>3, <1>5 DEF ContextAnswers
<1>7. PICK com, proof : made = Ok([commitment |-> com, challenge_hash |-> h, proof |-> proof])
  BY <1>3, <1>4 DEF NewBlindSignatureContext
<1>8. made.val = [commitment |-> made.val.commitment,
                  challenge_hash |-> made.val.challenge_hash, proof |-> made.val.proof]
  BY <1>7 DEF Ok
<1>9. made.val.proof.responses \in Seq(Nat) /\ made.val.proof.commitment \in Nat
  BY <1>6, ScalarsAreNumbers, SeqMonotonic
<1>10. CommittedProof(made.val.proof, Nat)
  BY <1>6, <1>9 DEF CommittedProof
<1>11. made.val.commitment \in Nat /\ made.val.challenge_hash \in Nat
  BY <1>4, <1>6, ScalarsAreNumbers DEF Contextual
<1> QED
  BY <1>4, <1>8, <1>10, <1>11 DEF PlainContext

(* A proof of a signature is made of two of these. *)
LEMMA PoKShape ==
  ASSUME NEW pok, NEW sig, NEW pms, NEW draws, NEW vk, NEW c,
         Committed(pok, sig, pms, draws, vk, c),
         NEW g, g = PoKOfSignatureGenProof(pok, c), g.st = "ok", Typed(g.val)
  PROVE  PlainPoK(g.val, Nat)
<1>1. PICK g1, g2 : /\ g1 = GenProofVC(pok.vc_1.pok, c, pok.vc_1.secrets)
                    /\ g2 = GenProofVC(pok.vc_2.pok, c, pok.vc_2.secrets)
  OBVIOUS
<1>2. /\ g1.st = "ok" /\ g2.st = "ok"
      /\ g = Ok([rz |-> pok.rz, proof_vc_1 |-> g1.val, proof_vc_2 |-> g2.val])
  BY <1>1 DEF PoKOfSignatureGenProof, Try
<1>3. /\ g.val.rz = pok.rz /\ g.val.proof_vc_1 = g1.val /\ g.val.proof_vc_2 = g2.val
      /\ g.val = [rz |-> g.val.rz, proof_vc_1 |-> g.val.proof_vc_1,
                  proof_vc_2 |-> g.val.proof_vc_2]
  BY <1>2 DEF Ok
<1>4. /\ g.val.rz.a_bar \in Fr /\ g.val.rz.a_prime \in Fr /\ g.val.rz.d \in Fr
      /\ g.val.proof_vc_1.responses \in Seq(Fr)
      /\ g.val.proof_vc_1.commitment \in Fr /\ g.val.proof_vc_2.commitment \in Fr
  BY DEF Typed
<1>5. g.val.proof_vc_2.responses \in Seq(Fr)
  <2>1. PICK b, u, v : /\ pok.vc_2 = [pok |-> Finish(CommitAll(Committing, b, u)), secrets |-> v]
                       /\ Proven(b, u, v, c)
    BY DEF Committed
  <2>2. g2 = GenProofVC(Finish(CommitAll(Committing, b, u)), c, v)
    BY <1>1, <2>1
  <2> QED
    BY <1>3, <2>1, <2>2 DEF Proven
<1>6. CommittedProof(g1.val, Nat) /\ CommittedProof(g2.val, Nat)
  BY <1>1, <1>2, <1>3, <1>4, <1>5, ProofShape
<1>7. PICK rz : rz = pok.rz /\ rz = [a_prime |-> rz.a_prime, a_bar |-> rz.a_bar, d |-> rz.d]
  BY DEF Committed, Randomized
<1>8. Fr \subseteq Nat
  BY ScalarsAreNumbers
<1> QED
  BY <1>3, <1>4, <1>6, <1>7, <1>8 DEF PlainPoK

(* The proofs. *)
LEMMA ShownHeld ==
  ASSUME CredentialInv, shown # None, NEW k \in DOMAIN shown.proofs
  PROVE  PlainShown(shown.proofs[k], Nat)
<1>1. k \in DOMAIN requests
  <2>1. DOMAIN shown.proofs = DOMAIN poks /\ Len(poks) = Len(requests)
        /\ Sequence(poks) /\ Sequence(requests)
    BY DEF CredentialInv, ShownInv, KeysInv
  <2> QED
    BY <2>1 DEF Sequence
<1>2. PICK V \in RevealSets :
        /\ Provable(wallet[k], ProofMessages(k, V), Drawn(k), keys.vk, keys.sk, N)
        /\ Committed(poks[k], wallet[k], ProofMessages(k, V), Drawn(k), keys.vk, Challenges[1])
        /\ shown.proofs[k] = [revealed_messages |-> RevealedMessages(ProofMessages(k, V)),
                              proof |-> PoKOfSignatureGenProof(poks[k], Challenges[1]).val]
  BY <1>1, ProofMade
<1>3. Subjects[k] \in [Idx -> Fr] /\ Challenges[1] \in Fr
  BY <1>1, ProofMade
<1>4. PICK pms, g, c, draws : /\ pms = ProofMessages(k, V) /\ c = Challenges[1]
                              /\ g = PoKOfSignatureGenProof(poks[k], c) /\ draws = Drawn(k)
  OBVIOUS
<1>5. /\ Provable(wallet[k], pms, draws, keys.vk, keys.sk, N)
      /\ Committed(poks[k], wallet[k], pms, draws, keys.vk, c)
      /\ shown.proofs[k] = [revealed_messages |-> RevealedMessages(pms), proof |-> g.val]
  BY <1>2, <1>4
<1>6. g.st = "ok" /\ Typed(g.val)
  <2>1. Shows(g, poks[k], pms, keys.vk, c)
    BY <1>3, <1>4, <1>5, ProofShows
  <2> QED
    BY <2>1 DEF Shows
<1>7. PlainPoK(g.val, Nat)
  BY <1>4, <1>5, <1>6, PoKShape
<1>8. PICK rev : rev = RevealedMessages(pms)
  OBVIOUS
<1>9. rev = [i \in DOMAIN rev |-> rev[i]] /\ \A i \in DOMAIN rev : rev[i] = pms[i].m
  BY <1>8 DEF RevealedMessages
<1>10. DOMAIN rev \subseteq 0..(N - 1) /\ \A i \in 0..(N - 1) : pms[i].m \in Fr
  BY <1>5, <1>8 DEF RevealedMessages, Revealed, Provable
<1>11. N \in Nat /\ IsFiniteSet(DOMAIN rev) /\ DOMAIN rev \subseteq Nat
  <2>1. N \in Nat /\ IsFiniteSet(0..(N - 1)) /\ 0..(N - 1) \subseteq Nat
    BY CredentialAssumption, FS_Interval
  <2> QED
    BY <1>10, <2>1, FS_Subset
<1>12. \A i \in DOMAIN rev : rev[i] \in Nat
  BY <1>9, <1>10, ScalarsAreNumbers
<1>13. shown.proofs[k] = [revealed_messages |-> rev, proof |-> g.val]
  BY <1>5, <1>8
<1> HIDE DEF PlainPoK
<1> QED
  BY <1>7, <1>9, <1>11, <1>12, <1>13 DEF PlainShown

--------------------------------------------------------------------------------
(* The two properties of the byte forms. *)

(* However much of a key is missing ... *)
LEMMA KeyCuts ==
  ASSUME NEW form \in Forms, NEW V, NEW k, NEW vk, PlainKey(vk, k, V)
  PROVE  \A n \in 0..(Len(PublicKeyToBytes(vk, form)) - 1) :
           PublicKeyFromBytes(SubSeq(PublicKeyToBytes(vk, form), 1, n), form).st # "ok"
<1>1. PICK d, hs, f, g, l : KeyLayout(vk, k, form, V, d, hs, f, g, l)
  BY KeyInParts
<1>2. PICK V1 : d \in Seq(V1) /\ d = PublicKeyToBytes(vk, form)
  BY <1>1 DEF KeyLayout
<1>3. PICK z \in Nat : z = Len(d)
  BY <1>2, LenProperties
<1>4. ASSUME NEW n \in 0..(Len(PublicKeyToBytes(vk, form)) - 1)
      PROVE  PublicKeyFromBytes(SubSeq(PublicKeyToBytes(vk, form), 1, n), form).st # "ok"
  <2>1. n \in Nat /\ n < z
    BY <1>2, <1>3, <1>4
  <2>2. n < Len(PublicKeyToBytes(vk, form))
    BY <1>2, <1>3, <2>1
  <2> QED
    BY <2>1, <2>2, KeyBeginningCut
<1> QED
  BY <1>4

(* ... of a context, ... *)
LEMMA ContextCuts ==
  ASSUME NEW form \in Forms, NEW x, PlainContext(x, Nat)
  PROVE  \A n \in 0..(Len(ContextToBytes(x, form)) - 1) :
           ContextFromBytes(SubSeq(ContextToBytes(x, form), 1, n), form).st # "ok"
<1>1. PICK d, b, g, r, l : ContextLayout(x, form, Nat, d, b, g, r, l)
  BY ContextInParts
<1>2. PICK V1 : d \in Seq(V1) /\ d = ContextToBytes(x, form)
  BY <1>1 DEF ContextLayout
<1>3. PICK z \in Nat : z = Len(d)
  BY <1>2, LenProperties
<1>4. ASSUME NEW n \in 0..(Len(ContextToBytes(x, form)) - 1)
      PROVE  ContextFromBytes(SubSeq(ContextToBytes(x, form), 1, n), form).st # "ok"
  <2>1. n \in Nat /\ n < z
    BY <1>2, <1>3, <1>4
  <2>2. n < Len(ContextToBytes(x, form))
    BY <1>2, <1>3, <2>1
  <2> QED
    BY <2>1, <2>2, ContextCut
<1> QED
  BY <1>4

(* ... of a signature, ... *)
LEMMA SignatureCuts ==
  ASSUME NEW form \in Forms, NEW V, NEW sig, PlainSignature(sig, V)
  PROVE  \A n \in 0..(Len(SignatureToBytes(sig, form)) - 1) :
           SignatureFromBytes(SubSeq(SignatureToBytes(sig, form), 1, n)).st # "ok"
<1>1. PICK d, f, g, r : SignatureLayout(sig, form, V, d, f, g, r)
  BY SignatureInParts
<1>2. PICK V1 : d \in Seq(V1) /\ d = SignatureToBytes(sig, form)
  BY <1>1 DEF SignatureLayout
<1>3. PICK z \in Nat : z = Len(d)
  BY <1>2, LenProperties
<1>4. ASSUME NEW n \in 0..(Len(SignatureToBytes(sig, form)) - 1)
      PROVE  SignatureFromBytes(SubSeq(SignatureToBytes(sig, form), 1, n)).st # "ok"
  <2>1. n \in Nat /\ n < z
    BY <1>2, <1>3, <1>4
  <2>2. n < Len(SignatureToBytes(sig, form))
    BY <1>2, <1>3, <2>1
  <2> QED
    BY <2>1, <2>2, SignatureCut
<1> QED
  BY <1>4

(* ... of a request ... *)
LEMMA RequestCuts ==
  ASSUME NEW form \in Forms, NEW V, NEW k, NEW x, PlainRequest(x, k, V)
  PROVE  \A n \in 0..(Len(ProofRequestToBytes(x, form)) - 1) :
           ProofRequestFromBytes(SubSeq(ProofRequestToBytes(x, form), 1, n), form).st # "ok"
<1>1. PICK d, v, b, e, g, l : RequestLayout(x, k, form, V, d, v, b, e, g, l)
  BY RequestInParts
<1>2. PICK V1 : d \in Seq(V1) /\ d = ProofRequestToBytes(x, form)
  BY <1>1 DEF RequestLayout
<1>3. PICK z \in Nat : z = Len(d)
  BY <1>2, LenProperties
<1>4. ASSUME NEW n \in 0..(Len(ProofRequestToBytes(x, form)) - 1)
      PROVE  ProofRequestFromBytes(SubSeq(ProofRequestToBytes(x, form), 1, n), form).st # "ok"
  <2>1. n \in Nat /\ n < z
    BY <1>2, <1>3, <1>4
  <2>2. n < Len(ProofRequestToBytes(x, form))
    BY <1>2, <1>3, <2>1
  <2> QED
    BY <2>1, <2>2, RequestCut
<1> QED
  BY <1>4

(* ... or of a proof, it is noticed. *)
LEMMA ShownCuts ==
  ASSUME NEW form \in Forms, NEW x, PlainShown(x, Nat)
  PROVE  \A n \in 0..(Len(SignatureProofToBytes(x, form)) - 1) :
           SignatureProofFromBytes(SubSeq(SignatureProofToBytes(x, form), 1, n), form).st # "ok"
<1>1. PICK d, y, b, f, J, M, m, l, r, z : ShownLayout(x, form, Nat, d, y, b, f, J, M, m, l, r, z)
  BY ShownInParts
<1>2. PICK V1 : d \in Seq(V1) /\ d = SignatureProofToBytes(x, form)
  BY <1>1 DEF ShownLayout
<1>3. PICK len \in Nat : len = Len(d)
  BY <1>2, LenProperties
<1>4. ASSUME NEW n \in 0..(Len(SignatureProofToBytes(x, form)) - 1)
      PROVE  SignatureProofFromBytes(SubSeq(SignatureProofToBytes(x, form), 1, n), form).st # "ok"
  <2>1. n \in Nat /\ n < len
    BY <1>2, <1>3, <1>4
  <2>2. n < Len(SignatureProofToBytes(x, form))
    BY <1>2, <1>3, <2>1
  <2> QED
    BY <2>1, <2>2, ShownCut
<1> QED
  BY <1>4

(* The last signature of a wallet is whole, *)
LEMMA WalletHeld ==
  ASSUME CredentialInv, wallet # << >>
  PROVE  PlainSignature(Last(wallet), Fr)
<1>1. wallet \in Seq([a : Fr, e : Fr, s : Fr])
  BY DEF CredentialInv, TypeOK
<1>2. PICK x : x = Last(wallet)
  OBVIOUS
<1>3. x \in [a : Fr, e : Fr, s : Fr]
  <2>1. PICK k, T : k = Len(wallet) /\ T = [a : Fr, e : Fr, s : Fr]
    OBVIOUS
  <2>2. wallet \in Seq(T) /\ k \in Nat /\ wallet = [i \in 1..k |-> wallet[i]]
        /\ \A i \in 1..k : wallet[i] \in T
    BY <1>1, <2>1, LenProperties
  <2>3. ASSUME k = 0 PROVE FALSE
    BY <2>1, <2>2, <2>3, EmptySeq
  <2>4. k \in 1..k /\ x = wallet[k]
    BY <1>2, <2>1, <2>2, <2>3 DEF Last
  <2> QED
    BY <2>1, <2>2, <2>4
<1>4. PlainSignature(x, Fr)
  BY <1>3 DEF PlainSignature
<1> QED
  BY <1>2, <1>4

(* ... as is one that was signed blindly. *)
LEMMA SignedHeld ==
  ASSUME HeldInv, blind # None
  PROVE  \E V : PlainSignature(blind.sig, V)
<1>1. PICK V : V = {blind.sig.a, blind.sig.e, blind.sig.s}
  OBVIOUS
<1>2. PlainSignature(blind.sig, V)
  BY <1>1 DEF HeldInv, PlainSignature
<1> QED
  BY <1>2

(* The last request asks with the key of the issuer. *)
LEMMA LastRequestHeld ==
  ASSUME CredentialInv, HeldInv, requests # << >>
  PROVE  \E V : PlainRequest(Last(requests), N, V)
<1>1. PICK V : V = Nat \union SUBSET Nat
  OBVIOUS
<1>2. PICK n : n = Len(requests)
  OBVIOUS
<1>3. n \in Nat /\ requests = [k \in 1..n |-> requests[k]]
  BY <1>2 DEF CredentialInv, KeysInv, Sequence
<1>4. n # 0
  <2>1. ASSUME n = 0 PROVE FALSE
    BY <1>3, <2>1
  <2> QED
    BY <2>1
<1>5. n \in DOMAIN requests
  BY <1>3, <1>4
<1>6. keys # None
  <2>1. Len(requests) <= Len(wallet) /\ wallet \in Seq([a : Fr, e : Fr, s : Fr])
        /\ (keys = None => wallet = << >>)
    BY DEF CredentialInv, TypeOK, KeysInv
  <2>2. ASSUME wallet = << >> PROVE FALSE
    <3>1. Len(wallet) = 0
      BY <2>2
    <3> QED
      BY <1>2, <1>3, <1>4, <2>1, <3>1
  <2> QED
    BY <2>1, <2>2
<1>7. PICK x : x = requests[n] /\ x = Last(requests)
  BY <1>2 DEF Last
<1>8. /\ x = [revealed_messages |-> x.revealed_messages, verification_key |-> x.verification_key]
      /\ x.revealed_messages \subseteq 0..N /\ x.verification_key = keys.vk
  BY <1>5, <1>7 DEF HeldInv, CredentialInv, KeysInv
<1>9. PlainKey(keys.vk, N, V) /\ PublicKeyValidate(keys.vk) = Ok(keys.vk)
  <2>1. Nat \subseteq V
    BY <1>1
  <2> QED
    BY <1>6, <2>1, KeyHeld
<1>10. \A S \in SUBSET Nat : S \in V
  BY <1>1
<1>11. PlainRequest(x, N, V)
  BY <1>8, <1>9, <1>10 DEF PlainRequest
<1> QED
  BY <1>7, <1>11

LEMMA HeldRoundTrip == CredentialInv /\ HeldInv => RoundTrip
<1> SUFFICES ASSUME CredentialInv, HeldInv, NEW f \in Forms
             PROVE  /\ keys # None /\ wallet = << >> =>
                         /\ PublicKeyFromBytes(PublicKeyToBytes(keys.vk, f), f) = Ok(keys.vk)
                         /\ FixedFromBytes("fr", FixedToBytes("fr", keys.sk, f)) = Ok(keys.sk)
                         /\ FixedFromBytes("g2", FixedToBytes("g2", keys.vk.w, f))
                              = Ok(keys.vk.w)
                    /\ ctx # None => ContextFromBytes(ContextToBytes(ctx.val, f), f) = Ok(ctx.val)
                    /\ blind # None =>
                         SignatureFromBytes(SignatureToBytes(blind.sig, f)) = Ok(blind.sig)
                    /\ wallet # << >> /\ requests = << >> =>
                         SignatureFromBytes(SignatureToBytes(Last(wallet), f)) = Ok(Last(wallet))
                    /\ requests # << >> /\ poks = << >> =>
                         ProofRequestFromBytes(ProofRequestToBytes(Last(requests), f), f)
                           = Ok(Last(requests))
                    /\ shown # None /\ verdict = None => \A k \in DOMAIN shown.proofs :
                         SignatureProofFromBytes(SignatureProofToBytes(shown.proofs[k], f), f)
                           = Ok(shown.proofs[k])
  BY DEF RoundTrip
<1>1. ASSUME keys # None
      PROVE  /\ PublicKeyFromBytes(PublicKeyToBytes(keys.vk, f), f) = Ok(keys.vk)
             /\ FixedFromBytes("fr", FixedToBytes("fr", keys.sk, f)) = Ok(keys.sk)
             /\ FixedFromBytes("g2", FixedToBytes("g2", keys.vk.w, f)) = Ok(keys.vk.w)
  <2>1. PlainKey(keys.vk, N, Nat) /\ PublicKeyValidate(keys.vk) = Ok(keys.vk)
    BY <1>1, KeyHeld
  <2>2. PublicKeyFromBytes(PublicKeyToBytes(keys.vk, f), f) = Ok(keys.vk)
    BY <2>1, KeyReads
  <2> QED
    BY <2>2, FixedReads
<1>2. ASSUME ctx # None PROVE ContextFromBytes(ContextToBytes(ctx.val, f), f) = Ok(ctx.val)
  <2>1. PlainContext(ctx.val, Nat)
    BY <1>2, ContextHeld
  <2> QED
    BY <2>1, ContextReads
<1>3. ASSUME blind # None PROVE SignatureFromBytes(SignatureToBytes(blind.sig, f)) = Ok(blind.sig)
  BY <1>3, SignedHeld, SignatureReads
<1>4. ASSUME wallet # << >>
      PROVE  SignatureFromBytes(SignatureToBytes(Last(wallet), f)) = Ok(Last(wallet))
  BY <1>4, WalletHeld, SignatureReads
<1>5. ASSUME requests # << >>
      PROVE  ProofRequestFromBytes(ProofRequestToBytes(Last(requests), f), f) = Ok(Last(requests))
  <2>1. PICK V : PlainRequest(Last(requests), N, V)
    BY <1>5, LastRequestHeld
  <2> QED
    BY <2>1, RequestReads
<1>6. ASSUME shown # None, NEW k \in DOMAIN shown.proofs
      PROVE  SignatureProofFromBytes(SignatureProofToBytes(shown.proofs[k], f), f)
               = Ok(shown.proofs[k])
  <2>1. PlainShown(shown.proofs[k], Nat)
    BY <1>6, ShownHeld
  <2> QED
    BY <2>1, ShownReads
<1> QED
  BY <1>1, <1>2, <1>3, <1>4, <1>5, <1>6

LEMMA HeldCutNoticed == CredentialInv /\ HeldInv => CutIsNoticed
<1> SUFFICES ASSUME CredentialInv, HeldInv PROVE CutIsNoticed
  OBVIOUS
<1>1. ASSUME NEW f \in Forms, keys # None
      PROVE  \A n \in 0..(Len(PublicKeyToBytes(keys.vk, f)) - 1) :
               PublicKeyFromBytes(SubSeq(PublicKeyToBytes(keys.vk, f), 1, n), f).st # "ok"
  <2>1. PlainKey(keys.vk, N, Nat)
    BY <1>1, KeyHeld
  <2> QED
    BY <2>1, KeyCuts
<1>2. ASSUME NEW f \in Forms, ctx # None
      PROVE  \A n \in 0..(Len(ContextToBytes(ctx.val, f)) - 1) :
               ContextFromBytes(SubSeq(ContextToBytes(ctx.val, f), 1, n), f).st # "ok"
  <2>1. PlainContext(ctx.val, Nat)
    BY <1>2, ContextHeld
  <2> QED
    BY <2>1, ContextCuts
<1>3. ASSUME NEW f \in Forms, blind # None
      PROVE  \A n \in 0..(Len(SignatureToBytes(blind.sig, f)) - 1) :
               SignatureFromBytes(SubSeq(SignatureToBytes(blind.sig, f), 1, n)).st # "ok"
  <2>1. PICK V : PlainSignature(blind.sig, V)
    BY <1>3, SignedHeld
  <2> QED
    BY <2>1, SignatureCuts
<1>4. ASSUME NEW f \in Forms, requests # << >>
      PROVE  \A n \in 0..(Len(ProofRequestToBytes(Last(requests), f)) - 1) :
               ProofRequestFromBytes(SubSeq(ProofRequestToBytes(Last(requests), f), 1, n),
                                     f).st # "ok"
  <2>1. PICK V : PlainRequest(Last(requests), N, V)
    BY <1>4, LastRequestHeld
  <2> QED
    BY <2>1, RequestCuts
<1>5. ASSUME NEW f \in Forms, shown # None, NEW k \in DOMAIN shown.proofs
      PROVE  \A n \in 0..(Len(SignatureProofToBytes(shown.proofs[k], f)) - 1) :
               SignatureProofFromBytes(SubSeq(SignatureProofToBytes(shown.proofs[k], f), 1, n),
                                       f).st # "ok"
  <2>1. PlainShown(shown.proofs[k], Nat)
    BY <1>5, ShownHeld
  <2> QED
    BY <2>1, ShownCuts
<1> QED
  BY <1>1, <1>2, <1>3, <1>4, <1>5 DEF CutIsNoticed

(* Every key, context, signature, request and proof that is in flight is read
   back from its bytes as it was, in both forms, whatever the number of
   messages, the sizes of the elements and the indices that are asked
   (to_bytes and from_bytes of lib.rs, keys.rs, signature.rs, pok_vc.rs,
   pok_sig.rs). *)
THEOREM RoundTrips == Spec => []RoundTrip
BY HeldRoundTrip, HeldAlways, CredentialInvariance, PTL

(* ... and no proper beginning of its bytes is ever read as a value: each
   from_bytes ends with an error or a panic there, even where the beginning has
   the length of the other form. *)
THEOREM CutsAreNoticed == Spec => []CutIsNoticed
BY HeldCutNoticed, HeldAlways, CredentialInvariance, PTL

================================================================================
