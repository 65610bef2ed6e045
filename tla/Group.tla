-------------------------------- MODULE Group --------------------------------
(***************************************************************************)
(* The arithmetic the signatures and proofs are built from.  An element of *)
(* G1 or G2 is its discrete logarithm to the generator, so a group is Fr   *)
(* under addition, `mul_assign' by a scalar is a product, and the pairing  *)
(* equation e(a, x) = e(b, 1) is a * x = b.  A byte string that is only    *)
(* hashed is the sequence of the elements serialized into it.              *)
(***************************************************************************)
EXTENDS Integers, Sequences, SequencesExt, FiniteSetsExt

CONSTANT R      \* the order of the groups (pairing_plus: a 255-bit prime)

(* R is prime: every non-zero scalar has an inverse. *)
ASSUME RAssumption == /\ R \in Nat /\ R > 1
                      /\ \A d \in 2..(R - 1) : R % d # 0

Fr == 0..(R - 1)

(* The generator of G1 and of G2, and the identity. *)
One == 1
Zero == 0

Plus(x, y) == (x + y) % R
Minus(x, y) == (x - y) % R
Times(x, y) == (x * y) % R
Negate(x) == (-x) % R
Inverse1(x) == CHOOSE y \in Fr : Times(x, y) = 1

(* e(a, x) * e(-b, 1) = 1 *)
PairingHolds(a, x, b) == Times(a, x) = b

(* f[1] + ... + f[n] *)
SumTo(f, n) ==
  LET sum[k \in Nat] == IF k = 0 THEN 0 ELSE sum[k - 1] + f[k]
  IN  sum[n]

(* sum_of_products: the pairs up to the shorter of the two lists. *)
MultiScalarMul(bases, scalars) ==
  LET n == Min({Len(bases), Len(scalars)})
  IN  SumTo([i \in 1..n |-> bases[i] * scalars[i]], n) % R

(* CommitmentBuilder: the pairs that were added, and their product. *)
Builder == [bases |-> << >>, scalars |-> << >>]
Add(bd, base, scalar) == [bases   |-> Append(bd.bases, base),
                          scalars |-> Append(bd.scalars, scalar)]
Finalize(bd) == MultiScalarMul(bd.bases, bd.scalars)

(* BTreeSet and BTreeMap iterate in the order of their indices: the k-th of S
   has k elements up to it. *)
InOrder(S) ==
  [k \in 1..Cardinality(S) |-> CHOOSE i \in S : Cardinality({j \in S : j <= i}) = k]

(* What a call ends with: Ok(value), Err(error), or a panic. *)
Ok(v) == [st |-> "ok", val |-> v]
Err(e) == [st |-> "err", val |-> e]
Panic == [st |-> "panic", val |-> "panic"]

(* The ? operator: a value goes on to the next call, all else is the result. *)
Try(r, next(_)) == IF r.st = "ok" THEN next(r.val) ELSE r
==============================================================================
