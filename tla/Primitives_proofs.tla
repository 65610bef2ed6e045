--------------------------- MODULE Primitives_proofs ---------------------------
(***************************************************************************)
(* Lemmas about the algebra of Group and the operations of PoKVC,          *)
(* Signatures and PoKSig, for any prime modulus, any number of messages,   *)
(* any messages, keys and random scalars, and any challenge: the scalars   *)
(* are a field, products over the generators are linear, what the issuer   *)
(* signs verifies, and a proof made for a challenge is accepted for it.    *)
(***************************************************************************)
EXTENDS Formats, FiniteSetTheorems, SequenceTheorems, WellFoundedInduction, TLAPS

--------------------------------------------------------------------------------
(* Induction over the naturals, with a set for the property. *)

LEMMA SetInduction ==
  ASSUME NEW P, 0 \in P, \A k \in Nat : k \in P => k + 1 \in P
  PROVE  Nat \subseteq P
<1> SUFFICES ASSUME Nat \ P # {} PROVE FALSE
  OBVIOUS
<1> DEFINE T == Nat \ P
<1>1. \E x \in T : \A y \in T : ~(y < x)
  <2>1. PICK x \in T : \A y \in T : <<y, x>> \notin OpToRel(<, Nat)
    BY NatLessThanWellFounded, WFMin
  <2>2. OpToRel(<, Nat) = {ss \in Nat \X Nat : ss[1] < ss[2]}
    BY DEF OpToRel
  <2> QED
    BY <2>1, <2>2
<1>2. PICK x \in T : \A y \in T : ~(y < x)
  BY <1>1
<1>3. x # 0 /\ x - 1 \in Nat /\ x - 1 < x
  BY <1>2
<1>4. x - 1 \in P
  BY <1>2, <1>3
<1>5. (x - 1) + 1 \in P /\ (x - 1) + 1 = x
  BY <1>3, <1>4
<1> QED
  BY <1>2, <1>5

(* The partial sums exist. *)
LEMMA SumSteps ==
  ASSUME NEW f
  PROVE  /\ SumTo(f, 0) = 0
         /\ \A k \in Nat : SumTo(f, k + 1) = SumTo(f, k) + f[k + 1]
<1> DEFINE Step(g, n) == [k \in 0..n |-> IF k = 0 THEN 0 ELSE g[k - 1] + f[k]]
           P == {n \in Nat : \E g : g = Step(g, n)}
<1>1. 0 \in P
  <2>1. [k \in 0..0 |-> 0] = Step([k \in 0..0 |-> 0], 0)
    OBVIOUS
  <2> QED
    BY <2>1
<1>2. ASSUME NEW n \in Nat, n \in P PROVE n + 1 \in P
  <2>1. PICK g : g = Step(g, n)
    BY <1>2
  <2> DEFINE h == [k \in 0..(n + 1) |-> IF k = n + 1 THEN g[n] + f[n + 1] ELSE g[k]]
  <2>2. h = Step(h, n + 1)
    <3>1. \A k \in 0..(n + 1) : h[k] = IF k = 0 THEN 0 ELSE h[k - 1] + f[k]
      <4> SUFFICES ASSUME NEW k \in 0..(n + 1)
                   PROVE  h[k] = IF k = 0 THEN 0 ELSE h[k - 1] + f[k]
        OBVIOUS
      <4>1. CASE k = n + 1
        <5>1. h[k] = g[n] + f[n + 1] /\ k # 0 /\ k - 1 = n /\ h[n] = g[n]
          BY <4>1
        <5> QED
          BY <4>1, <5>1
      <4>2. CASE k # n + 1
        <5>1. k \in 0..n /\ h[k] = g[k]
          BY <4>2
        <5>2. k # 0 => k - 1 \in 0..(n + 1) /\ k - 1 # n + 1 /\ h[k - 1] = g[k - 1]
          BY <5>1
        <5>3. g[k] = IF k = 0 THEN 0 ELSE g[k - 1] + f[k]
          BY <2>1, <5>1
        <5> QED
          BY <5>1, <5>2, <5>3
      <4> QED
        BY <4>1, <4>2
    <3> QED
      BY <3>1
  <2>3. n + 1 \in Nat
    OBVIOUS
  <2> HIDE DEF h
  <2> QED
    BY <2>2, <2>3
<1>3. \A n \in Nat : \E g : g = Step(g, n)
  <2> HIDE DEF P
  <2>1. Nat \subseteq P
    BY <1>1, <1>2, SetInduction
  <2> QED
    BY <2>1 DEF P
<1>4. \A n, m \in Nat : \A g, h : n <= m /\ g = Step(g, n) /\ h = Step(h, m) => g[n] = h[n]
  <2> TAKE n, m \in Nat
  <2> TAKE g, h
  <2> HAVE n <= m /\ g = Step(g, n) /\ h = Step(h, m)
  <2>1. \A k \in 0..n : g[k] = IF k = 0 THEN 0 ELSE g[k - 1] + f[k]
    OBVIOUS
  <2>2. \A k \in 0..n : h[k] = IF k = 0 THEN 0 ELSE h[k - 1] + f[k]
    OBVIOUS
  <2> DEFINE Q == {k \in Nat : k <= n => g[k] = h[k]}
  <2>3. 0 \in Q
    BY <2>1, <2>2
  <2>4. ASSUME NEW k \in Nat, k \in Q PROVE k + 1 \in Q
    <3> SUFFICES ASSUME k + 1 <= n PROVE g[k + 1] = h[k + 1]
      OBVIOUS
    <3>1. k + 1 \in 0..n /\ k + 1 # 0 /\ (k + 1) - 1 = k /\ g[k] = h[k]
      BY <2>4
    <3> QED
      BY <2>1, <2>2, <3>1
  <2> HIDE DEF Q
  <2>5. Nat \subseteq Q
    BY <2>3, <2>4, SetInduction
  <2> QED
    <3>1. n \in Q
      BY <2>5
    <3> QED
      BY <3>1 DEF Q
<1> DEFINE G(n) == CHOOSE g : g = Step(g, n)
           s == [k \in Nat |-> G(k)[k]]
           sum == CHOOSE g : g = [k \in Nat |-> IF k = 0 THEN 0 ELSE g[k - 1] + f[k]]
<1>5. \A n \in Nat : G(n) = Step(G(n), n)
  BY <1>3
<1> HIDE DEF G
<1>6. \A k \in Nat : s[k] = IF k = 0 THEN 0 ELSE s[k - 1] + f[k]
  <2> SUFFICES ASSUME NEW k \in Nat PROVE s[k] = IF k = 0 THEN 0 ELSE s[k - 1] + f[k]
    OBVIOUS
  <2>1. G(k)[k] = IF k = 0 THEN 0 ELSE G(k)[k - 1] + f[k]
    <3>1. G(k) = Step(G(k), k)
      BY <1>5
    <3>2. k \in 0..k
      OBVIOUS
    <3> HIDE DEF Step
    <3>3. Step(G(k), k)[k] = IF k = 0 THEN 0 ELSE G(k)[k - 1] + f[k]
      BY <3>2 DEF Step
    <3> QED
      BY <3>1, <3>3
  <2>2. k # 0 => k - 1 \in Nat /\ k - 1 <= k
    OBVIOUS
  <2>3. k # 0 => G(k - 1)[k - 1] = G(k)[k - 1]
    <3> HIDE DEF Step
    <3> QED
      BY <1>4, <1>5, <2>2
  <2> QED
    BY <2>1, <2>2, <2>3
<1>7. s = [k \in Nat |-> IF k = 0 THEN 0 ELSE s[k - 1] + f[k]]
  BY <1>6
<1> HIDE DEF s
<1>8. sum = [k \in Nat |-> IF k = 0 THEN 0 ELSE sum[k - 1] + f[k]]
  BY <1>7
<1>9. \A n : SumTo(f, n) = sum[n]
  BY DEF SumTo
<1> HIDE DEF sum
<1>10. \A k \in Nat : sum[k] = IF k = 0 THEN 0 ELSE sum[k - 1] + f[k]
  BY <1>8
<1>11. \A k \in Nat : k + 1 \in Nat /\ k + 1 # 0 /\ (k + 1) - 1 = k
  OBVIOUS
<1> QED
  BY <1>9, <1>10, <1>11
--------------------------------------------------------------------------------
(* The scalars are a ring, and a field. *)

(* A scalar is what remains of a number divided by R. *)
LEMMA DivMod ==
  /\ R \in Nat \ {0, 1} /\ Fr = {x \in Nat : x < R}
  /\ \A x \in Int : x % R \in Fr /\ x \div R \in Int /\ x = R * (x \div R) + (x % R)
  /\ \A x \in Fr : x % R = x /\ x \in Int
<1>1. R \in Nat /\ R > 1
  BY RAssumption
<1> QED
  BY <1>1 DEF Fr

(* Division with remainder. *)
LEMMA Euclid ==
  ASSUME NEW x \in Int, NEW d \in Nat \ {0}
  PROVE  \E q \in Int, r \in Int : x = d * q + r /\ r = x % d /\ r >= 0 /\ r < d
<1>1. x = d * (x \div d) + (x % d) /\ x \div d \in Int /\ x % d \in 0..(d - 1)
  OBVIOUS
<1> QED
  BY <1>1

(* The remainder is the only one. *)
LEMMA ModUnique ==
  ASSUME NEW q \in Int, NEW r \in Fr
  PROVE  (R * q + r) % R = r
BY DivMod

(* Multiples of R do not count. *)
LEMMA ModShift ==
  ASSUME NEW x \in Int, NEW k \in Int
  PROVE  (x + R * k) % R = x % R
<1>1. /\ x = R * (x \div R) + (x % R) /\ x \div R \in Int /\ x % R \in Fr
      /\ R \in Int /\ Fr \subseteq Int
  BY DivMod
<1>2. PICK q \in Int, r \in Fr : q = x \div R /\ r = x % R /\ x = R * q + r
  BY <1>1
<1>3. x + R * k = R * (q + k) + r
  BY <1>1, <1>2
<1> QED
  BY <1>2, <1>3, ModUnique

(* A sum or product may be reduced before or after. *)
LEMMA ModOnce ==
  ASSUME NEW x \in Int, NEW y \in Int
  PROVE  /\ ((x % R) + y) % R = (x + y) % R
         /\ (x - (y % R)) % R = (x - y) % R
         /\ ((x % R) * y) % R = (x * y) % R
<1>1. PICK q \in Int, r \in Int : r = x % R /\ x = R * q + r
  BY DivMod
<1>2. PICK p \in Int, s \in Int : s = y % R /\ y = R * p + s
  BY DivMod
<1>3. R \in Int
  BY DivMod
<1>4. x + y = (r + y) + R * q
  BY <1>1, <1>3
<1>5. x - s = (x - y) + R * p
  BY <1>2, <1>3
<1>6. x * y = r * y + R * (q * y)
  <2>1. x * y = (R * q) * y + r * y
    BY <1>1, <1>3
  <2>2. (R * q) * y = R * (q * y)
    BY <1>3
  <2> QED
    BY <2>1, <2>2, <1>3
<1>7. (x + y) % R = (r + y) % R
  BY <1>4, ModShift
<1>8. (x - s) % R = (x - y) % R
  BY <1>5, ModShift
<1>9. (x * y) % R = (r * y) % R
  <2>1. r * y \in Int /\ q * y \in Int
    OBVIOUS
  <2> QED
    BY <1>6, <2>1, ModShift
<1> QED
  BY <1>1, <1>2, <1>7, <1>8, <1>9

(* The scalars are closed under their operations. *)
LEMMA ScalarTypes ==
  /\ \A x, y \in Fr : /\ Plus(x, y) \in Fr /\ Minus(x, y) \in Fr
                      /\ Times(x, y) \in Fr /\ Negate(x) \in Fr
  /\ One \in Fr /\ Zero \in Fr /\ One # Zero /\ Fr \subseteq Int
<1>1. \A x, y \in Fr : x \in Int /\ y \in Int /\ x + y \in Int /\ x - y \in Int
                         /\ x * y \in Int /\ -x \in Int
  BY DivMod
<1> QED
  BY <1>1, DivMod DEF Plus, Minus, Times, Negate, One, Zero

(* Addition and multiplication commute. *)
LEMMA Commutes ==
  ASSUME NEW x \in Fr, NEW y \in Fr
  PROVE  Plus(x, y) = Plus(y, x) /\ Times(x, y) = Times(y, x)
<1>1. x \in Int /\ y \in Int
  BY DivMod
<1>2. x + y = y + x /\ x * y = y * x
  BY <1>1
<1> QED
  BY <1>2 DEF Plus, Times

(* ... and associate. *)
LEMMA Associates ==
  ASSUME NEW x \in Fr, NEW y \in Fr, NEW z \in Fr
  PROVE  /\ Plus(Plus(x, y), z) = Plus(x, Plus(y, z))
         /\ Times(Times(x, y), z) = Times(x, Times(y, z))
<1>1. x \in Int /\ y \in Int /\ z \in Int
  BY DivMod
<1>2. Plus(Plus(x, y), z) = ((x + y) + z) % R
  BY <1>1, ModOnce DEF Plus
<1>3. Plus(x, Plus(y, z)) = ((y + z) + x) % R
  <2>1. (y + z) % R \in Int /\ y + z \in Int
    BY <1>1, DivMod
  <2>2. x + ((y + z) % R) = ((y + z) % R) + x
    BY <1>1, <2>1
  <2> QED
    BY <1>1, <2>1, <2>2, ModOnce DEF Plus
<1>4. Times(Times(x, y), z) = ((x * y) * z) % R
  <2>1. x * y \in Int
    BY <1>1
  <2> QED
    BY <1>1, <2>1, ModOnce DEF Times
<1>5. Times(x, Times(y, z)) = ((y * z) * x) % R
  <2>1. (y * z) % R \in Int /\ y * z \in Int
    <3>1. y * z \in Int
      BY <1>1
    <3> QED
      BY <3>1, DivMod
  <2>2. x * ((y * z) % R) = ((y * z) % R) * x
    BY <1>1, <2>1
  <2> QED
    BY <1>1, <2>1, <2>2, ModOnce DEF Times
<1>6. (x + y) + z = (y + z) + x /\ (x * y) * z = (y * z) * x
  BY <1>1
<1> QED
  BY <1>2, <1>3, <1>4, <1>5, <1>6

(* ... and distribute. *)
LEMMA Distributes ==
  ASSUME NEW x \in Fr, NEW y \in Fr, NEW z \in Fr
  PROVE  /\ Times(x, Plus(y, z)) = Plus(Times(x, y), Times(x, z))
         /\ Times(x, Minus(y, z)) = Minus(Times(x, y), Times(x, z))
         /\ Times(x, Negate(y)) = Negate(Times(x, y))
<1>1. x \in Int /\ y \in Int /\ z \in Int
  BY DivMod
<1>2. PICK s \in Int, d \in Int, n \in Int, p \in Int, q \in Int :
        s = y + z /\ d = y - z /\ n = -y /\ p = x * y /\ q = x * z
  BY <1>1
<1>3. x * s = p + q /\ x * d = p - q /\ x * n = -p
  BY <1>1, <1>2
<1>4. \A t \in Int : x * (t % R) = (t % R) * x /\ x * t = t * x
  BY <1>1, DivMod
<1>5. \A t \in Int : (x * (t % R)) % R = (x * t) % R
  BY <1>1, <1>4, ModOnce
<1>6. Times(x, Plus(y, z)) = (p + q) % R /\ Times(x, Minus(y, z)) = (p - q) % R
        /\ Times(x, Negate(y)) = (-p) % R
  BY <1>2, <1>3, <1>5 DEF Times, Plus, Minus, Negate
<1>7. ((p % R) + (q % R)) % R = (p + q) % R
  <2>1. /\ p % R \in Int /\ q % R \in Int
        /\ p + (q % R) = (q % R) + p /\ p + q = q + p
    BY DivMod
  <2>2. ((p % R) + (q % R)) % R = (p + (q % R)) % R
    BY <1>2, <2>1, ModOnce
  <2>3. ((q % R) + p) % R = (q + p) % R
    BY <1>2, <2>1, ModOnce
  <2> QED
    BY <2>1, <2>2, <2>3
<1>8. ((p % R) - (q % R)) % R = (p - q) % R
  <2>1. p % R \in Int /\ -q \in Int /\ (p % R) - q = (p % R) + (-q) /\ p - q = p + (-q)
    BY DivMod
  <2>2. ((p % R) - (q % R)) % R = ((p % R) - q) % R
    BY <1>2, <2>1, ModOnce
  <2>3. ((p % R) + (-q)) % R = (p + (-q)) % R
    BY <1>2, <2>1, ModOnce
  <2> QED
    BY <2>1, <2>2, <2>3
<1>9. (-(p % R)) % R = (-p) % R
  <2>1. p % R \in Int /\ 0 - (p % R) = -(p % R) /\ 0 - p = -p
    BY DivMod
  <2> QED
    BY <2>1, ModOnce
<1> QED
  BY <1>2, <1>6, <1>7, <1>8, <1>9 DEF Times, Plus, Minus, Negate
(* Zero, One and double negation. *)
LEMMA Neutral ==
  ASSUME NEW x \in Fr
  PROVE  /\ Plus(x, Zero) = x /\ Plus(Zero, x) = x /\ Minus(x, x) = Zero
         /\ Times(x, One) = x /\ Times(One, x) = x
         /\ Times(x, Zero) = Zero /\ Times(Zero, x) = Zero
         /\ Negate(Negate(x)) = x /\ Negate(Zero) = Zero
<1>1. x \in Int /\ x % R = x /\ 0 % R = 0
  BY DivMod
<1>2. /\ x + 0 = x /\ 0 + x = x /\ x - x = 0 /\ x * 1 = x /\ 1 * x = x
      /\ x * 0 = 0 /\ 0 * x = 0
  BY <1>1
<1>4. -Zero = 0
  <2>1. \A z \in Int : -z = 0 - z
    OBVIOUS
  <2>2. 0 \in Int /\ 0 - 0 = 0
    OBVIOUS
  <2> QED
    BY <2>1, <2>2 DEF Zero
<1>3. (-((-x) % R)) % R = x
  <2>1. PICK n \in Int : n = -x /\ 0 - n = x /\ -(n % R) = 0 - (n % R)
    BY <1>1, DivMod
  <2>2. (0 - (n % R)) % R = (0 - n) % R
    BY ModOnce
  <2> QED
    BY <1>1, <2>1, <2>2
<1> QED
  BY <1>1, <1>2, <1>3, <1>4 DEF Plus, Minus, Times, Negate, One, Zero

(* Subtraction adds the negation. *)
LEMMA MinusIsPlus ==
  ASSUME NEW x \in Fr, NEW y \in Fr
  PROVE  Minus(x, y) = Plus(x, Negate(y)) /\ Minus(Plus(x, y), y) = x
         /\ Plus(Minus(x, y), y) = x /\ Negate(y) = Minus(Zero, y)
<1>1. /\ x \in Int /\ y \in Int /\ -y \in Int /\ x + y \in Int /\ x - y \in Int
      /\ x % R = x /\ y % R = y
  BY DivMod
<1>2. Plus(x, Negate(y)) = (x - y) % R
  <2>1. (-y) % R \in Int /\ x + ((-y) % R) = ((-y) % R) + x /\ (-y) + x = x - y
    BY <1>1, DivMod
  <2> QED
    BY <1>1, <2>1, ModOnce DEF Plus, Negate
<1>3. Minus(Plus(x, y), y) = ((x + y) - y) % R
  <2>1. /\ (x + y) % R \in Int /\ ((x + y) % R) - y = ((x + y) % R) + (-y)
        /\ (x + y) - y = (x + y) + (-y)
    BY <1>1, DivMod
  <2> QED
    BY <1>1, <2>1, ModOnce DEF Plus, Minus
<1>4. Plus(Minus(x, y), y) = ((x - y) + y) % R
  BY <1>1, ModOnce DEF Plus, Minus
<1>5. (x + y) - y = x /\ (x - y) + y = x /\ 0 - y = -y
  BY <1>1
<1> QED
  BY <1>1, <1>2, <1>3, <1>4, <1>5 DEF Minus, Negate, Zero

(* R is prime: what x generates is generated by 1. *)
LEMMA Inverts ==
  ASSUME NEW x \in Fr, x # 0
  PROVE  Inverse1(x) \in Fr /\ Times(x, Inverse1(x)) = One
<1> DEFINE V == {v \in Nat \ {0} : \E y \in Int : (x * y) % R = v}
<1>1. x \in V
  <2>1. x * 1 = x /\ x % R = x /\ x \in Nat \ {0}
    BY DivMod
  <2> QED
    BY <2>1
<1>2. PICK d \in V : \A v \in V : ~(v < d)
  <2>1. V \subseteq Nat /\ V # {}
    BY <1>1
  <2> HIDE DEF V
  <2>2. PICK d \in V : \A v \in V : <<v, d>> \notin OpToRel(<, Nat)
    BY <2>1, NatLessThanWellFounded, WFMin
  <2>3. OpToRel(<, Nat) = {ss \in Nat \X Nat : ss[1] < ss[2]}
    BY DEF OpToRel
  <2> QED
    BY <2>1, <2>2, <2>3
<1>3. PICK y \in Int : (x * y) % R = d /\ d \in Nat \ {0}
  BY <1>2
<1>4. x \in Int /\ x * y \in Int /\ d < R
  <2>1. x \in Int
    BY DivMod
  <2>2. x * y \in Int
    BY <2>1
  <2> QED
    BY <1>3, <2>1, <2>2, DivMod
<1>5. R % d = 0
  <2>1. PICK q \in Int, r \in Int : R = d * q + r /\ r = R % d /\ r >= 0 /\ r < d
    <3>1. R \in Int /\ d \in Nat \ {0}
      BY <1>3, DivMod
    <3> QED
      BY <3>1, Euclid
  <2>2. PICK p \in Int : x * y = R * p + d
    BY <1>3, <1>4, DivMod
  <2>3. r = x * (-(y * q)) + R * (1 + p * q)
    <3>1. PICK u \in Int, v \in Int, w \in Int :
             u = x * y /\ v = R * p /\ w = y * q /\ u = v + d
      BY <1>4, <2>2, DivMod
    <3>2. u * q = v * q + d * q
      BY <1>3, <3>1
    <3>3. u * q = x * w /\ v * q = R * (p * q)
      BY <1>4, <2>2, <3>1, DivMod
    <3>4. x * (-w) = -(x * w) /\ x * w \in Int
      BY <1>4, <3>1
    <3>5. R * (1 + p * q) = R + R * (p * q) /\ R * (p * q) \in Int /\ d * q \in Int
      BY <1>3, <2>2, DivMod
    <3>6. R = d * q + r /\ R \in Int
      BY <2>1, DivMod
    <3>7. x * (-w) + R * (1 + p * q) = R - d * q
      BY <3>2, <3>3, <3>4, <3>5, <3>6
    <3> QED
      BY <2>1, <3>1, <3>5, <3>6, <3>7
  <2>4. PICK z \in Int, k \in Int : z = -(y * q) /\ k = 1 + p * q /\ x * z \in Int
    BY <1>4
  <2>5. (x * z + R * k) % R = (x * z) % R
    BY <2>4, ModShift
  <2>6. (x * z) % R = r
    <3>1. r \in Fr
      <4>1. R \in Int /\ d \in Int /\ Fr = {i \in Nat : i < R}
        BY <1>3, DivMod
      <4>2. r \in Nat /\ r < R
        BY <1>4, <2>1, <4>1
      <4> QED
        BY <4>1, <4>2
    <3>2. r % R = r
      BY <3>1, DivMod
    <3> QED
      BY <2>3, <2>4, <2>5, <3>2
  <2>7. r \notin V
    BY <1>2, <1>3, <2>1
  <2> QED
    BY <2>1, <2>4, <2>6, <2>7
<1>6. d = 1
  <2>1. d \in 2..(R - 1) => R % d # 0
    BY RAssumption
  <2> QED
    BY <1>3, <1>4, <1>5, <2>1, DivMod
<1>7. \E i \in Fr : Times(x, i) = 1
  <2>1. y % R \in Fr /\ y % R \in Int
    BY DivMod
  <2>2. (x * (y % R)) % R = (x * y) % R
    <3>1. x * (y % R) = (y % R) * x /\ x * y = y * x
      BY <1>4, <2>1
    <3> QED
      BY <1>4, <3>1, ModOnce
  <2> QED
    BY <1>3, <1>6, <2>1, <2>2 DEF Times
<1> QED
  BY <1>7 DEF Inverse1, One

(* A product is zero only with one of its factors. *)
LEMMA NoZeroDivisors ==
  ASSUME NEW x \in Fr, NEW y \in Fr, x # Zero, Times(x, y) = Zero
  PROVE  y = Zero
<1> DEFINE z == Inverse1(x)
<1>1. z \in Fr /\ Times(x, z) = One
  BY Inverts DEF Zero
<1> HIDE DEF z
<1>2. Times(Times(z, x), y) = Times(z, Times(x, y))
  BY <1>1, Associates
<1>3. Times(z, x) = One
  BY <1>1, Commutes
<1> QED
  BY <1>1, <1>2, <1>3, Neutral
--------------------------------------------------------------------------------
(* Sums. *)

(* A sum of integers is one. *)
LEMMA SumType ==
  ASSUME NEW n \in Nat, NEW f, \A k \in 1..n : f[k] \in Int
  PROVE  SumTo(f, n) \in Int
<1> DEFINE P == {k \in Nat : k <= n => SumTo(f, k) \in Int}
<1>1. 0 \in P
  BY SumSteps
<1>2. ASSUME NEW k \in Nat, k \in P PROVE k + 1 \in P
  <2> SUFFICES ASSUME k + 1 <= n PROVE SumTo(f, k + 1) \in Int
    OBVIOUS
  <2>1. SumTo(f, k) \in Int /\ f[k + 1] \in Int
    BY <1>2
  <2>2. SumTo(f, k + 1) = SumTo(f, k) + f[k + 1]
    BY SumSteps
  <2> QED
    BY <2>1, <2>2
<1> HIDE DEF P
<1>3. n \in P
  BY <1>1, <1>2, SetInduction
<1> QED
  BY <1>3 DEF P

(* A sum depends on its terms only. *)
LEMMA SumSame ==
  ASSUME NEW n \in Nat, NEW f, NEW g, \A k \in 1..n : f[k] = g[k]
  PROVE  SumTo(f, n) = SumTo(g, n)
<1> DEFINE P == {k \in Nat : k <= n => SumTo(f, k) = SumTo(g, k)}
<1>1. 0 \in P
  BY SumSteps
<1>2. ASSUME NEW k \in Nat, k \in P PROVE k + 1 \in P
  <2> SUFFICES ASSUME k + 1 <= n PROVE SumTo(f, k + 1) = SumTo(g, k + 1)
    OBVIOUS
  <2>1. SumTo(f, k) = SumTo(g, k) /\ f[k + 1] = g[k + 1]
    BY <1>2
  <2>2. SumTo(f, k + 1) = SumTo(f, k) + f[k + 1] /\ SumTo(g, k + 1) = SumTo(g, k) + g[k + 1]
    BY SumSteps
  <2> QED
    BY <2>1, <2>2
<1> HIDE DEF P
<1>3. n \in P
  BY <1>1, <1>2, SetInduction
<1> QED
  BY <1>3 DEF P

(* A sum can be cut in two. *)
LEMMA SumSplit ==
  ASSUME NEW n \in Nat, NEW m \in Nat, NEW f, NEW g,
         \A k \in 1..(n + m) : f[k] \in Int, \A k \in 1..m : g[k] = f[n + k]
  PROVE  SumTo(f, n + m) = SumTo(f, n) + SumTo(g, m)
<1> DEFINE P == {k \in Nat : k <= m => SumTo(f, n + k) = SumTo(f, n) + SumTo(g, k)}
<1>1. 0 \in P
  <2>1. SumTo(f, n) \in Int
    BY SumType
  <2> QED
    BY <2>1, SumSteps
<1>2. ASSUME NEW k \in Nat, k \in P PROVE k + 1 \in P
  <2> SUFFICES ASSUME k + 1 <= m
               PROVE  SumTo(f, n + (k + 1)) = SumTo(f, n) + SumTo(g, k + 1)
    OBVIOUS
  <2>1. SumTo(f, n + k) = SumTo(f, n) + SumTo(g, k) /\ g[k + 1] = f[n + (k + 1)]
    BY <1>2
  <2>2. n + k \in Nat /\ n + (k + 1) = (n + k) + 1
    OBVIOUS
  <2>3. /\ SumTo(f, n + (k + 1)) = SumTo(f, n + k) + f[n + (k + 1)]
        /\ SumTo(g, k + 1) = SumTo(g, k) + g[k + 1]
    BY <2>2, SumSteps
  <2>4. SumTo(f, n) \in Int /\ SumTo(g, k) \in Int /\ f[n + (k + 1)] \in Int
    <3>1. SumTo(f, n) \in Int
      BY SumType
    <3>2. \A j \in 1..k : j \in 1..m /\ n + j \in 1..(n + m)
      OBVIOUS
    <3>3. SumTo(g, k) \in Int
      BY <3>2, SumType
    <3>4. n + (k + 1) \in 1..(n + m)
      OBVIOUS
    <3> QED
      BY <3>1, <3>3, <3>4
  <2> QED
    BY <2>1, <2>3, <2>4
<1> HIDE DEF P
<1>3. m \in P
  BY <1>1, <1>2, SetInduction
<1> QED
  BY <1>3 DEF P

(* A sum of products is linear, up to multiples of R. *)
Congruent(f, g, h, c, n) ==
  \A k \in 1..n : /\ f[k] \in Int /\ g[k] \in Int /\ h[k] \in Int
                  /\ f[k] % R = (g[k] - c * h[k]) % R

(* Congruent terms have congruent sums. *)
LEMMA SumLinear ==
  ASSUME NEW n \in Nat, NEW c \in Int, NEW f, NEW g, NEW h,
         Congruent(f, g, h, c, n)
  PROVE  SumTo(f, n) % R = (SumTo(g, n) - c * SumTo(h, n)) % R
<1> \A k \in 1..n : /\ f[k] \in Int /\ g[k] \in Int /\ h[k] \in Int
                    /\ f[k] % R = (g[k] - c * h[k]) % R
  BY DEF Congruent
<1> DEFINE P == {k \in Nat : k <= n => SumTo(f, k) % R = (SumTo(g, k) - c * SumTo(h, k)) % R}
<1>1. 0 \in P
  <2>1. 0 - c * 0 = 0
    OBVIOUS
  <2> QED
    BY <2>1, SumSteps
<1>2. ASSUME NEW k \in Nat, k \in P PROVE k + 1 \in P
  <2> SUFFICES ASSUME k + 1 <= n
               PROVE  SumTo(f, k + 1) % R = (SumTo(g, k + 1) - c * SumTo(h, k + 1)) % R
    OBVIOUS
  <2>1. \A j \in 1..k : j \in 1..n
    OBVIOUS
  <2>2. k + 1 \in 1..n
    OBVIOUS
  <2>3. PICK x \in Int, y \in Int, z \in Int :
          x = SumTo(f, k) /\ y = SumTo(g, k) /\ z = SumTo(h, k)
    BY <2>1, SumType
  <2>4. PICK u \in Int, v \in Int, w \in Int :
          u = f[k + 1] /\ v = g[k + 1] /\ w = h[k + 1] /\ u % R = (v - c * w) % R
    BY <2>2
  <2>5. /\ SumTo(f, k + 1) = x + u /\ SumTo(g, k + 1) = y + v /\ SumTo(h, k + 1) = z + w
    BY <2>3, <2>4, SumSteps
  <2>6. x % R = (y - c * z) % R
    BY <1>2, <2>3
  <2>7. PICK p \in Int, q \in Int : p = y - c * z /\ q = v - c * w
    BY <2>3, <2>4
  <2>8. (x + u) % R = (p + q) % R
    <3>1. \A a, b \in Int : (a + b) % R = ((a % R) + (b % R)) % R
      <4> TAKE a \in Int, b \in Int
      <4>1. a % R \in Int /\ b % R \in Int
        BY DivMod
      <4>2. (a + b) % R = ((a % R) + b) % R
        BY ModOnce
      <4>3. (a % R) + b = b + (a % R) /\ (b % R) + (a % R) = (a % R) + (b % R)
        BY <4>1
      <4>4. ((b % R) + (a % R)) % R = (b + (a % R)) % R
        BY <4>1, ModOnce
      <4> QED
        BY <4>2, <4>3, <4>4
    <3>2. x % R = p % R /\ u % R = q % R
      BY <2>4, <2>6, <2>7
    <3> QED
      BY <3>1, <3>2
  <2>9. (y + v) - c * (z + w) = p + q
    BY <2>7
  <2> QED
    BY <2>5, <2>8, <2>9
<1> HIDE DEF P
<1>3. n \in P
  BY <1>1, <1>2, SetInduction
<1> QED
  BY <1>3 DEF P
--------------------------------------------------------------------------------
(* Products of bases and scalars. *)

(* What is known of a sequence of scalars. *)
LEMMA ScalarSeq ==
  ASSUME NEW b \in Seq(Fr)
  PROVE  /\ Len(b) \in Nat /\ DOMAIN b = 1..Len(b)
         /\ \A k \in 1..Len(b) : b[k] \in Fr /\ b[k] \in Int
BY DivMod

(* The product of bases and scalars is a sum reduced at the end. *)
LEMMA ProductOf ==
  ASSUME NEW b \in Seq(Fr), NEW s \in Seq(Fr), Len(b) = Len(s)
  PROVE  LET f == [k \in 1..Len(b) |-> b[k] * s[k]]
         IN  /\ MultiScalarMul(b, s) = SumTo(f, Len(b)) % R
             /\ \A k \in 1..Len(b) : f[k] \in Int
             /\ SumTo(f, Len(b)) \in Int
             /\ MultiScalarMul(b, s) \in Fr
<1> DEFINE f == [k \in 1..Len(b) |-> b[k] * s[k]]
<1>1. Len(b) \in Nat
  BY ScalarSeq
<1>2. Min({Len(b), Len(s)}) = Len(b)
  <2>1. {Len(b), Len(s)} = {Len(b)}
    OBVIOUS
  <2>2. \A x \in {Len(b)} : (\A y \in {Len(b)} : x <= y) <=> x = Len(b)
    BY <1>1
  <2> QED
    BY <2>1, <2>2 DEF Min
<1>3. MultiScalarMul(b, s) = SumTo(f, Len(b)) % R
  BY <1>2 DEF MultiScalarMul
<1>4. \A k \in 1..Len(b) : f[k] \in Int
  <2> TAKE k \in 1..Len(b)
  <2>1. b[k] \in Int /\ s[k] \in Int
    BY ScalarSeq
  <2> QED
    BY <2>1
<1> HIDE DEF f
<1>5. SumTo(f, Len(b)) \in Int
  BY <1>1, <1>4, SumType
<1> QED
  BY <1>3, <1>4, <1>5, DivMod DEF f

(* One base and one scalar. *)
LEMMA ProductOfOne ==
  ASSUME NEW x \in Fr, NEW y \in Fr
  PROVE  MultiScalarMul(<<x>>, <<y>>) = Times(x, y)
<1> DEFINE f == [k \in 1..1 |-> <<x>>[k] * <<y>>[k]]
<1>1. <<x>> \in Seq(Fr) /\ <<y>> \in Seq(Fr) /\ Len(<<x>>) = 1 /\ Len(<<y>>) = 1
  OBVIOUS
<1>2. MultiScalarMul(<<x>>, <<y>>) = SumTo(f, 1) % R
  BY <1>1, ProductOf
<1>3. f[0 + 1] = x * y /\ x * y \in Int
  BY DivMod
<1> HIDE DEF f
<1>4. SumTo(f, 0 + 1) = SumTo(f, 0) + f[0 + 1] /\ SumTo(f, 0) = 0
  BY SumSteps
<1>5. SumTo(f, 1) = x * y
  BY <1>3, <1>4
<1> QED
  BY <1>2, <1>5 DEF Times

(* No base. *)
LEMMA ProductOfNone == MultiScalarMul(<< >>, << >>) = Zero
<1>1. << >> \in Seq(Fr) /\ Len(<< >>) = 0
  OBVIOUS
<1>2. MultiScalarMul(<< >>, << >>) = 0 % R
  BY <1>1, ProductOf, SumSteps
<1> QED
  BY <1>2, DivMod DEF Zero, Fr

(* The product over two lists, one after the other, is the sum of both. *)
LEMMA ProductOfConcat ==
  ASSUME NEW b \in Seq(Fr), NEW s \in Seq(Fr), Len(b) = Len(s),
         NEW c \in Seq(Fr), NEW t \in Seq(Fr), Len(c) = Len(t)
  PROVE  /\ b \o c \in Seq(Fr) /\ s \o t \in Seq(Fr)
         /\ Len(b \o c) = Len(b) + Len(c) /\ Len(s \o t) = Len(b) + Len(c)
         /\ MultiScalarMul(b \o c, s \o t)
              = Plus(MultiScalarMul(b, s), MultiScalarMul(c, t))
<1>1. PICK n \in Nat, m \in Nat : n = Len(b) /\ m = Len(c)
  BY ScalarSeq
<1>2. /\ b \o c \in Seq(Fr) /\ s \o t \in Seq(Fr)
      /\ Len(b \o c) = n + m /\ Len(s \o t) = n + m
      /\ \A k \in 1..(n + m) : /\ (b \o c)[k] = IF k <= n THEN b[k] ELSE c[k - n]
                              /\ (s \o t)[k] = IF k <= n THEN s[k] ELSE t[k - n]
  <2>1. /\ b \o c \in Seq(Fr) /\ Len(b \o c) = Len(b) + Len(c)
        /\ \A k \in 1..(Len(b) + Len(c)) :
             (b \o c)[k] = IF k <= Len(b) THEN b[k] ELSE c[k - Len(b)]
    BY ConcatProperties
  <2>2. /\ s \o t \in Seq(Fr) /\ Len(s \o t) = Len(s) + Len(t)
        /\ \A k \in 1..(Len(s) + Len(t)) :
             (s \o t)[k] = IF k <= Len(s) THEN s[k] ELSE t[k - Len(s)]
    BY ConcatProperties
  <2>3. Len(s) = n /\ Len(t) = m
    BY <1>1
  <2> QED
    BY <1>1, <2>1, <2>2, <2>3
<1> DEFINE f == [k \in 1..n |-> b[k] * s[k]]
           g == [k \in 1..m |-> c[k] * t[k]]
           h == [k \in 1..(n + m) |-> (b \o c)[k] * (s \o t)[k]]
<1>3. /\ MultiScalarMul(b, s) = SumTo(f, n) % R /\ SumTo(f, n) \in Int
      /\ MultiScalarMul(c, t) = SumTo(g, m) % R /\ SumTo(g, m) \in Int
  BY <1>1, ProductOf
<1>4. /\ MultiScalarMul(b \o c, s \o t) = SumTo(h, n + m) % R
      /\ \A k \in 1..(n + m) : h[k] \in Int
  BY <1>2, ProductOf
<1>5. \A k \in 1..n : f[k] = h[k]
  <2> TAKE k \in 1..n
  <2>1. k \in 1..(n + m) /\ k <= n
    OBVIOUS
  <2> QED
    BY <1>2, <2>1
<1>6. \A k \in 1..m : g[k] = h[n + k]
  <2> TAKE k \in 1..m
  <2>1. n + k \in 1..(n + m) /\ ~(n + k <= n) /\ (n + k) - n = k
    OBVIOUS
  <2> QED
    BY <1>2, <2>1
<1> HIDE DEF f, g, h
<1>7. SumTo(h, n + m) = SumTo(h, n) + SumTo(g, m)
  BY <1>4, <1>6, SumSplit
<1>8. SumTo(h, n) = SumTo(f, n)
  BY <1>5, SumSame
<1>9. PICK x \in Int, y \in Int : x = SumTo(f, n) /\ y = SumTo(g, m)
  BY <1>3
<1>10. ((x % R) + (y % R)) % R = (x + y) % R
  <2>1. x % R \in Int /\ y % R \in Int
    BY DivMod
  <2>2. ((x % R) + (y % R)) % R = (x + (y % R)) % R
    BY <2>1, ModOnce
  <2>3. x + (y % R) = (y % R) + x /\ x + y = y + x
    BY <2>1
  <2>4. ((y % R) + x) % R = (y + x) % R
    BY ModOnce
  <2> QED
    BY <2>2, <2>3, <2>4
<1> QED
  BY <1>1, <1>2, <1>3, <1>4, <1>7, <1>8, <1>9, <1>10 DEF Plus

(* One pair more. *)
LEMMA ProductAppend ==
  ASSUME NEW b \in Seq(Fr), NEW s \in Seq(Fr), Len(b) = Len(s), NEW x \in Fr, NEW y \in Fr
  PROVE  /\ Append(b, x) \in Seq(Fr) /\ Append(s, y) \in Seq(Fr)
         /\ Len(Append(b, x)) = Len(b) + 1 /\ Len(Append(s, y)) = Len(b) + 1
         /\ MultiScalarMul(Append(b, x), Append(s, y))
              = Plus(MultiScalarMul(b, s), Times(x, y))
<1>1. Append(b, x) = b \o <<x>> /\ Append(s, y) = s \o <<y>>
  BY AppendIsConcat
<1>2. <<x>> \in Seq(Fr) /\ <<y>> \in Seq(Fr) /\ Len(<<x>>) = 1 /\ Len(<<y>>) = 1
  OBVIOUS
<1> QED
  <2>1. PICK c, t : c = <<x>> /\ t = <<y>>
    OBVIOUS
  <2>2. c \in Seq(Fr) /\ t \in Seq(Fr) /\ Len(c) = 1 /\ Len(t) = 1
    BY <1>2, <2>1
  <2>3. MultiScalarMul(c, t) = Times(x, y)
    BY <2>1, ProductOfOne
  <2>4. Append(b, x) = b \o c /\ Append(s, y) = s \o t
    BY <1>1, <2>1
  <2> QED
    BY <2>2, <2>3, <2>4, ProductOfConcat

(* Two facts of arithmetic that ProductOfResponses uses. *)
Swapped(x, c, z) == x * (c * z) = c * (x * z)
Reduced(y, p) == (y - (p % R)) % R = (y - p) % R

(* The factor c moves out of a term. *)
LEMMA FactorsSwap ==
  ASSUME NEW x \in Int, NEW c \in Int, NEW z \in Int
  PROVE  Swapped(x, c, z)
BY DEF Swapped

(* A product need not be reduced before it is subtracted. *)
LEMMA ReducedOnce ==
  ASSUME NEW y \in Int, NEW p \in Int
  PROVE  Reduced(y, p)
BY ModOnce DEF Reduced

(* What the responses of a proof amount to. *)
LEMMA ProductOfResponses ==
  ASSUME NEW b \in Seq(Fr), NEW u \in Seq(Fr), NEW v \in Seq(Fr), NEW r \in Seq(Fr),
         Len(u) = Len(b), Len(v) = Len(b), Len(r) = Len(b), NEW c \in Fr,
         \A k \in 1..Len(b) : r[k] = Minus(u[k], Times(c, v[k]))
  PROVE  MultiScalarMul(b, r) = Minus(MultiScalarMul(b, u), Times(c, MultiScalarMul(b, v)))
<1>1. PICK n \in Nat : n = Len(b)
  BY ScalarSeq
<1>2. c \in Int
  BY DivMod
<1> DEFINE f == [k \in 1..n |-> b[k] * r[k]]
           g == [k \in 1..n |-> b[k] * u[k]]
           h == [k \in 1..n |-> b[k] * v[k]]
<1>3. /\ MultiScalarMul(b, r) = SumTo(f, n) % R /\ \A k \in 1..n : f[k] \in Int
      /\ MultiScalarMul(b, u) = SumTo(g, n) % R /\ \A k \in 1..n : g[k] \in Int
      /\ MultiScalarMul(b, v) = SumTo(h, n) % R /\ \A k \in 1..n : h[k] \in Int
      /\ SumTo(g, n) \in Int /\ SumTo(h, n) \in Int
  BY <1>1, ProductOf
<1>4. \A k \in 1..n : f[k] % R = (g[k] - c * h[k]) % R
  <2> TAKE k \in 1..n
  <2>1. PICK x \in Int, y \in Int, z \in Int : x = b[k] /\ y = u[k] /\ z = v[k]
    BY <1>1, ScalarSeq
  <2>2. r[k] = (y - ((c * z) % R)) % R
    BY <1>1, <2>1 DEF Minus, Times
  <2>3. PICK p \in Int, q \in Int : p = c * z /\ q = y - p
    BY <1>2, <2>1
  <2>4. r[k] = q % R
    <3>1. r[k] = (y - (p % R)) % R
      BY <2>2, <2>3
    <3>2. (y - (p % R)) % R = (y - p) % R
      <4>1. Reduced(y, p)
        BY <2>1, <2>3, ReducedOnce
      <4> QED
        BY <4>1 DEF Reduced
    <3> QED
      BY <2>3, <3>1, <3>2
  <2>5. PICK e \in Int : e = q % R
    BY <2>3, DivMod
  <2>6. f[k] = e * x /\ x * q = q * x
    BY <1>1, <2>1, <2>4, <2>5
  <2>7. f[k] % R = (x * q) % R
    <3>1. ((q % R) * x) % R = (q * x) % R
      BY <2>1, <2>3, ModOnce
    <3> QED
      BY <2>5, <2>6, <3>1
  <2>8. x * q = x * y - c * (x * z)
    <3>1. x * q = x * y - x * p
      BY <2>1, <2>3
    <3>2. x * p = c * (x * z)
      <4>1. Swapped(x, c, z)
        BY <1>2, <2>1, FactorsSwap
      <4> QED
        BY <2>3, <4>1 DEF Swapped
    <3> QED
      BY <3>1, <3>2
  <2>9. g[k] = x * y /\ h[k] = x * z
    BY <1>1, <2>1
  <2> QED
    BY <2>7, <2>8, <2>9
<1> HIDE DEF f, g, h
<1>5. SumTo(f, n) % R = (SumTo(g, n) - c * SumTo(h, n)) % R
  <2>1. Congruent(f, g, h, c, n)
    BY <1>3, <1>4 DEF Congruent
  <2> QED
    BY <1>2, <2>1, SumLinear
<1>6. PICK x \in Int, y \in Int : x = SumTo(g, n) /\ y = SumTo(h, n)
  BY <1>3
<1>7. ((x % R) - ((c * (y % R)) % R)) % R = (x - c * y) % R
  <2>1. x % R \in Int /\ y % R \in Int /\ c * y \in Int /\ c * (y % R) \in Int
        /\ c * (y % R) = (y % R) * c /\ c * y = y * c
    <3>1. x % R \in Int /\ y % R \in Int
      BY DivMod
    <3> QED
      BY <1>2, <3>1
  <2>2. (c * (y % R)) % R = (c * y) % R
    BY <1>2, <2>1, ModOnce
  <2>3. PICK w \in Int, z \in Int : w = c * y /\ z = -w
    BY <2>1
  <2>4. ((x % R) - (w % R)) % R = ((x % R) - w) % R
    BY <2>1, ModOnce
  <2>5. (x % R) - w = (x % R) + z /\ x - w = x + z
    BY <2>1, <2>3
  <2>6. ((x % R) + z) % R = (x + z) % R
    BY ModOnce
  <2> QED
    BY <2>2, <2>3, <2>4, <2>5, <2>6
<1> QED
  BY <1>3, <1>5, <1>6, <1>7 DEF Minus, Times
--------------------------------------------------------------------------------
(* Iteration in the order of the indices meets every index once. *)

(* The position of an index. *)
Rank(S, i) == Cardinality({j \in S : j <= i})

(* Positions number the members from 1 without a gap. *)
LEMMA RankIsPosition ==
  ASSUME NEW S, S \subseteq Int, IsFiniteSet(S)
  PROVE  /\ \A i \in S : Rank(S, i) \in 1..Cardinality(S)
         /\ \A i, j \in S : Rank(S, i) = Rank(S, j) => i = j
         /\ \A k \in 1..Cardinality(S) : \E i \in S : Rank(S, i) = k
<1> DEFINE UpTo(i) == {j \in S : j <= i}
           n == Cardinality(S)
<1>1. n \in Nat
  BY FS_CardinalityType
<1>2. \A i : IsFiniteSet(UpTo(i)) /\ Cardinality(UpTo(i)) \in Nat /\ Cardinality(UpTo(i)) <= n
  BY FS_Subset, FS_CardinalityType
<1>3. \A i \in S : Rank(S, i) \in 1..n
  <2> TAKE i \in S
  <2>1. i \in UpTo(i)
    OBVIOUS
  <2>2. Cardinality(UpTo(i)) # 0
    BY <1>2, <2>1, FS_EmptySet
  <2> QED
    BY <1>1, <1>2, <2>2 DEF Rank
<1>4. \A i, j \in S : i < j => Rank(S, i) # Rank(S, j)
  <2> SUFFICES ASSUME NEW i \in S, NEW j \in S, i < j
               PROVE  Cardinality(UpTo(i)) # Cardinality(UpTo(j))
    BY DEF Rank
  <2>1. \A k \in S : k <= i => k <= j
    OBVIOUS
  <2>2. UpTo(i) \in SUBSET UpTo(j)
    BY <2>1
  <2>3. j \in UpTo(j) /\ j \notin UpTo(i)
    OBVIOUS
  <2> QED
    BY <1>2, <2>2, <2>3, FS_Subset
<1>5. \A i, j \in S : Rank(S, i) = Rank(S, j) => i = j
  <2> SUFFICES ASSUME NEW i \in S, NEW j \in S, i # j
               PROVE  Rank(S, i) # Rank(S, j)
    OBVIOUS
  <2>1. i < j \/ j < i
    OBVIOUS
  <2> QED
    BY <1>4, <2>1
<1> DEFINE f == [i \in S |-> Rank(S, i)]
<1>6. f \in Injection(S, 1..n)
  BY <1>3, <1>5 DEF Injection, IsInjective
<1>7. IsFiniteSet(1..n) /\ Cardinality(1..n) = n
  BY <1>1, FS_Interval
<1>8. f \in Surjection(S, 1..n)
  BY <1>6, <1>7, FS_Injection
<1>9. \A k \in 1..n : \E i \in S : Rank(S, i) = k
  BY <1>8 DEF Surjection
<1> QED
  BY <1>3, <1>5, <1>9

(* InOrder is the sequence of the members of S. *)
LEMMA InOrderEnumerates ==
  ASSUME NEW S, S \subseteq Int, IsFiniteSet(S)
  PROVE  /\ Cardinality(S) \in Nat
         /\ InOrder(S) \in [1..Cardinality(S) -> S]
         /\ S = {InOrder(S)[k] : k \in 1..Cardinality(S)}
         /\ \A i \in S : Rank(S, i) \in 1..Cardinality(S) /\ InOrder(S)[Rank(S, i)] = i
<1>1. Cardinality(S) \in Nat
  BY FS_CardinalityType
<1>2. InOrder(S) = [k \in 1..Cardinality(S) |-> CHOOSE i \in S : Rank(S, i) = k]
  BY DEF InOrder, Rank
<1>3. /\ \A i \in S : Rank(S, i) \in 1..Cardinality(S)
      /\ \A i, j \in S : Rank(S, i) = Rank(S, j) => i = j
      /\ \A k \in 1..Cardinality(S) : \E i \in S : Rank(S, i) = k
  BY RankIsPosition
<1> DEFINE f == InOrder(S)
<1>4. \A k \in 1..Cardinality(S) : f[k] \in S /\ Rank(S, f[k]) = k
  <2> SUFFICES ASSUME NEW k \in 1..Cardinality(S)
               PROVE  f[k] \in S /\ Rank(S, f[k]) = k
    OBVIOUS
  <2>1. \E i \in S : Rank(S, i) = k
    BY <1>3
  <2>2. f[k] = CHOOSE i \in S : Rank(S, i) = k
    BY <1>2
  <2> QED
    BY <2>1, <2>2
<1>5. f = [k \in 1..Cardinality(S) |-> f[k]]
  BY <1>2
<1> HIDE DEF f
<1>6. \A i \in S : Rank(S, i) \in 1..Cardinality(S) /\ f[Rank(S, i)] = i
  BY <1>3, <1>4
<1> QED
  BY <1>1, <1>4, <1>5, <1>6 DEF f

(* The values of h in the order of the indices. *)
Along(h, S) == LET I == InOrder(S) IN [k \in DOMAIN I |-> h[I[k]]]

(* In order, the values h of S are where the positions of S say. *)
Scalars(h, S) == \A i \in S : h[i] \in Fr
Aligned(h, S) ==
  /\ Along(h, S) \in Seq(Fr) /\ Len(Along(h, S)) = Cardinality(S)
  /\ Cardinality(S) \in Nat
  /\ \A i \in S : Along(h, S)[Rank(S, i)] = h[i]
  /\ \A k \in 1..Cardinality(S) : InOrder(S)[k] \in S /\ Along(h, S)[k] = h[InOrder(S)[k]]

(* Along is aligned with the positions, whatever scalars it lists. *)
LEMMA AlongAligned ==
  ASSUME NEW S, S \subseteq Int, IsFiniteSet(S), NEW h, Scalars(h, S)
  PROVE  Aligned(h, S)
<1>1. /\ Cardinality(S) \in Nat /\ DOMAIN InOrder(S) = 1..Cardinality(S)
      /\ \A k \in 1..Cardinality(S) : InOrder(S)[k] \in S
      /\ \A i \in S : Rank(S, i) \in 1..Cardinality(S) /\ InOrder(S)[Rank(S, i)] = i
  BY InOrderEnumerates
<1>2. PICK c, I, a : c \in Nat /\ c = Cardinality(S) /\ I = InOrder(S) /\ a = Along(h, S)
  BY <1>1
<1>3. a = [k \in 1..c |-> h[I[k]]]
  BY <1>1, <1>2 DEF Along
<1>4. a \in Seq(Fr) /\ Len(a) = c
  <2>1. \A k \in 1..c : h[I[k]] \in Fr
    BY <1>1, <1>2 DEF Scalars
  <2>2. c \in Nat
    BY <1>2
  <2> QED
    BY ONLY <1>3, <2>1, <2>2
<1>5. \A i \in S : a[Rank(S, i)] = h[i]
  BY <1>1, <1>2, <1>3
<1>6. \A k \in 1..c : I[k] \in S /\ a[k] = h[I[k]]
  BY <1>1, <1>2, <1>3
<1> QED
  BY <1>2, <1>4, <1>5, <1>6 DEF Aligned

(* The same, as the facts it stands for. *)
LEMMA AlongType ==
  ASSUME NEW S, S \subseteq Int, IsFiniteSet(S), NEW h, \A i \in S : h[i] \in Fr
  PROVE  /\ Along(h, S) \in Seq(Fr) /\ Len(Along(h, S)) = Cardinality(S)
         /\ Cardinality(S) \in Nat
         /\ \A i \in S : Along(h, S)[Rank(S, i)] = h[i]
         /\ \A k \in 1..Cardinality(S) : InOrder(S)[k] \in S /\ Along(h, S)[k] = h[InOrder(S)[k]]
<1>1. Scalars(h, S)
  BY DEF Scalars
<1>2. Aligned(h, S)
  BY <1>1, AlongAligned
<1> QED
  BY <1>2 DEF Aligned

(* They depend on the values of the members only. *)
LEMMA AlongSame ==
  ASSUME NEW S, S \subseteq Int, IsFiniteSet(S), NEW h, NEW g, \A i \in S : h[i] = g[i]
  PROVE  Along(h, S) = Along(g, S)
<1>1. /\ DOMAIN InOrder(S) = 1..Cardinality(S)
      /\ \A k \in 1..Cardinality(S) : InOrder(S)[k] \in S
  BY InOrderEnumerates
<1> QED
  BY <1>1 DEF Along

(* The sum in order is the sum over all indices of what is in S. *)
Masked(h, m, S, n) == [i \in 1..n |-> IF i - 1 \in S THEN h[i - 1] * m[i - 1] ELSE 0]

(* (Indices outside S count as zero.) *)
LEMMA SumAlong ==
  ASSUME NEW n \in Nat, NEW S \in SUBSET (0..(n - 1)), NEW h, NEW m,
         \A i \in S : h[i] \in Fr /\ m[i] \in Fr
  PROVE  /\ S \subseteq Int /\ IsFiniteSet(S)
         /\ \A i \in 1..n : Masked(h, m, S, n)[i] \in Int
         /\ MultiScalarMul(Along(h, S), Along(m, S)) = SumTo(Masked(h, m, S, n), n) % R
<1>1. S \subseteq Int /\ IsFiniteSet(S)
  <2>1. IsFiniteSet(0..(n - 1))
    BY FS_Interval
  <2> QED
    BY <2>1, FS_Subset
<1>2. \A i \in 1..n : Masked(h, m, S, n)[i] \in Int
  <2> TAKE i \in 1..n
  <2>1. i - 1 \in S => h[i - 1] \in Int /\ m[i - 1] \in Int
    BY DivMod
  <2> QED
    BY <2>1 DEF Masked
<1>3. PICK c \in Nat : c = Cardinality(S)
  BY <1>1, FS_CardinalityType
<1> DEFINE b == Along(h, S)
           s == Along(m, S)
           f == [k \in 1..c |-> b[k] * s[k]]
           g == Masked(h, m, S, n)
           UpTo(i) == {j \in S : j <= i - 1}
           P == {i \in Nat : i <= n => SumTo(f, Cardinality(UpTo(i))) = SumTo(g, i)}
<1>4. /\ b \in Seq(Fr) /\ Len(b) = c /\ \A i \in S : b[Rank(S, i)] = h[i]
      /\ s \in Seq(Fr) /\ Len(s) = c /\ \A i \in S : s[Rank(S, i)] = m[i]
  <2>1. (\A i \in S : h[i] \in Fr) /\ (\A i \in S : m[i] \in Fr)
    OBVIOUS
  <2>2. Aligned(h, S) /\ Aligned(m, S)
    BY <1>1, <2>1, AlongAligned DEF Scalars
  <2>3. b \in Seq(Fr) /\ Len(b) = c /\ \A i \in S : b[Rank(S, i)] = h[i]
    BY <1>3, <2>2 DEF Aligned
  <2>4. s \in Seq(Fr) /\ Len(s) = c /\ \A i \in S : s[Rank(S, i)] = m[i]
    BY <1>3, <2>2 DEF Aligned
  <2> QED
    BY <2>3, <2>4
<1>5. \A i \in S : Rank(S, i) \in 1..c
  BY <1>1, <1>3, RankIsPosition
<1>6. \A i \in S : f[Rank(S, i)] = h[i] * m[i]
  BY <1>4, <1>5
<1>7. MultiScalarMul(b, s) = SumTo(f, c) % R
  BY <1>4, ProductOf
<1>8. 0 \in P
  <2>1. UpTo(0) = {}
    <3>1. \A j \in S : ~(j <= 0 - 1)
      OBVIOUS
    <3> QED
      BY <3>1
  <2>2. Cardinality(UpTo(0)) = 0
    BY <2>1, FS_EmptySet
  <2>3. SumTo(f, 0) = 0 /\ SumTo(g, 0) = 0
    BY SumSteps
  <2> QED
    BY <2>2, <2>3
<1>9. ASSUME NEW i \in Nat, i \in P PROVE i + 1 \in P
  <2> SUFFICES ASSUME i + 1 <= n PROVE SumTo(f, Cardinality(UpTo(i + 1))) = SumTo(g, i + 1)
    OBVIOUS
  <2>1. SumTo(f, Cardinality(UpTo(i))) = SumTo(g, i)
    BY <1>9
  <2>2. SumTo(g, i + 1) = SumTo(g, i) + g[i + 1]
    BY SumSteps
  <2>3. /\ (i + 1) - 1 = i /\ i + 1 \in 1..n
        /\ g[i + 1] = IF i \in S THEN h[i] * m[i] ELSE 0
    BY DEF Masked
  <2>4. \A j \in S : j \in Int /\ (j <= (i + 1) - 1 <=> j <= i - 1 \/ j = i)
    OBVIOUS
  <2>5. SumTo(g, i) \in Int
    <3>1. \A k \in 1..i : k \in 1..n
      OBVIOUS
    <3> QED
      BY <1>2, <3>1, SumType
  <2>6. CASE i \notin S
    <3>1. UpTo(i + 1) = UpTo(i)
      BY <2>4, <2>6
    <3>2. g[i + 1] = 0
      BY <2>3, <2>6
    <3>3. SumTo(g, i + 1) = SumTo(g, i)
      BY <2>2, <2>5, <3>2
    <3> HIDE DEF UpTo, f, g
    <3> QED
      BY <2>1, <3>1, <3>3
  <2>7. CASE i \in S
    <3>1. UpTo(i + 1) = UpTo(i) \union {i} /\ i \notin UpTo(i)
      <4>1. ~(i <= i - 1)
        OBVIOUS
      <4> QED
        BY <2>4, <2>7, <4>1
    <3>2. IsFiniteSet(UpTo(i))
      BY <1>1, FS_Subset
    <3>3. Cardinality(UpTo(i)) \in Nat /\ Cardinality(UpTo(i + 1)) = Cardinality(UpTo(i)) + 1
      <4> HIDE DEF UpTo
      <4> QED
        BY <3>1, <3>2, FS_AddElement, FS_CardinalityType
    <3>4. Cardinality(UpTo(i + 1)) = Rank(S, i)
      BY <2>3 DEF Rank
    <3>5. SumTo(f, Cardinality(UpTo(i)) + 1)
            = SumTo(f, Cardinality(UpTo(i))) + f[Cardinality(UpTo(i)) + 1]
      BY <3>3, SumSteps
    <3>6. f[Cardinality(UpTo(i)) + 1] = h[i] * m[i]
      BY <1>6, <2>7, <3>3, <3>4
    <3> QED
      BY <2>1, <2>2, <2>3, <2>7, <3>3, <3>5, <3>6
  <2> QED
    BY <2>6, <2>7
<1>10. n \in P
  <2> HIDE DEF P
  <2> QED
    BY <1>8, <1>9, SetInduction
<1>11. UpTo(n) = S
  <2>1. \A j \in S : j \in Int /\ j <= n - 1
    OBVIOUS
  <2> QED
    BY <2>1
<1>12. SumTo(f, c) = SumTo(g, n)
  <2>1. SumTo(f, Cardinality(UpTo(n))) = SumTo(g, n)
    BY <1>10
  <2> HIDE DEF UpTo, f, g
  <2> QED
    BY <1>3, <1>11, <2>1
<1> QED
  BY <1>1, <1>2, <1>7, <1>12

(* The sum over all the indices is that over some and that over the others. *)
Parts(n, S, T, D) ==
  /\ S \in SUBSET (0..(n - 1)) /\ T \in SUBSET (0..(n - 1))
  /\ S \intersect T = {} /\ D = S \union T

(* ... for a set in two parts. *)
LEMMA SumOfParts ==
  ASSUME NEW n \in Nat, NEW S, NEW T, NEW D, Parts(n, S, T, D), NEW h, NEW m,
         \A i \in D : h[i] \in Fr /\ m[i] \in Fr
  PROVE  MultiScalarMul(Along(h, D), Along(m, D))
           = Plus(MultiScalarMul(Along(h, S), Along(m, S)),
                  MultiScalarMul(Along(h, T), Along(m, T)))
<1>0. /\ S \in SUBSET (0..(n - 1)) /\ T \in SUBSET (0..(n - 1)) /\ D \in SUBSET (0..(n - 1))
      /\ S \intersect T = {} /\ D = S \union T /\ S \subseteq D /\ T \subseteq D
  BY DEF Parts
<1> DEFINE f == Masked(h, m, S, n)
           g == Masked(h, m, T, n)
           e == Masked(h, m, D, n)
<1>1. /\ \A i \in 1..n : f[i] \in Int
      /\ MultiScalarMul(Along(h, S), Along(m, S)) = SumTo(f, n) % R
  BY <1>0, SumAlong
<1>2. /\ \A i \in 1..n : g[i] \in Int
      /\ MultiScalarMul(Along(h, T), Along(m, T)) = SumTo(g, n) % R
  BY <1>0, SumAlong
<1>3. /\ \A i \in 1..n : e[i] \in Int
      /\ MultiScalarMul(Along(h, D), Along(m, D)) = SumTo(e, n) % R
  BY <1>0, SumAlong
<1>4. \A i \in 1..n : e[i] = f[i] - (-1) * g[i]
  <2> TAKE i \in 1..n
  <2>1. CASE i - 1 \in S
    <3>1. e[i] = f[i] /\ g[i] = 0 /\ f[i] \in Int
      BY <1>0, <1>1, <2>1 DEF Masked
    <3> QED
      BY <3>1
  <2>2. CASE i - 1 \in T
    <3>1. e[i] = g[i] /\ f[i] = 0 /\ g[i] \in Int
      BY <1>0, <1>2, <2>2 DEF Masked
    <3> QED
      BY <3>1
  <2>3. CASE i - 1 \notin S \union T
    BY <1>0, <2>3 DEF Masked
  <2> QED
    BY <1>0, <2>1, <2>2, <2>3
<1> HIDE DEF e, f, g
<1>5. SumTo(e, n) % R = (SumTo(f, n) - (-1) * SumTo(g, n)) % R
  <2>1. Congruent(e, f, g, -1, n) /\ -1 \in Int
    BY <1>1, <1>2, <1>3, <1>4 DEF Congruent
  <2> QED
    BY <2>1, SumLinear
<1>6. PICK x \in Int, y \in Int : x = SumTo(f, n) /\ y = SumTo(g, n)
  BY <1>1, <1>2, SumType
<1>7. x - (-1) * y = x + y
  OBVIOUS
<1>8. ((x % R) + (y % R)) % R = (x + y) % R
  <2>1. x % R \in Int /\ y % R \in Int
    BY DivMod
  <2>2. ((x % R) + (y % R)) % R = (x + (y % R)) % R
    BY <2>1, ModOnce
  <2>3. x + (y % R) = (y % R) + x /\ x + y = y + x
    BY <2>1
  <2>4. ((y % R) + x) % R = (y + x) % R
    BY ModOnce
  <2> QED
    BY <2>2, <2>3, <2>4
<1> QED
  BY <1>1, <1>2, <1>3, <1>5, <1>6, <1>7, <1>8 DEF Plus
--------------------------------------------------------------------------------
(* Commitments and their proofs. *)

(* Bases, blinding factors and secrets that go together. *)
Together(b, u, v) ==
  /\ b \in Seq(Fr) /\ u \in Seq(Fr) /\ v \in Seq(Fr)
  /\ Len(u) = Len(b) /\ Len(v) = Len(b)

(* A proof of values that the commitment is made of is accepted. *)
Proven(b, u, v, c) ==
  LET p == Finish(CommitAll(Committing, b, u))
      made == GenProofVC(p, c, v)
      com == MultiScalarMul(b, v)
  IN  /\ p.bases = b /\ p.commitment = MultiScalarMul(b, u)
      /\ made.st = "ok" /\ made.val.responses \in Seq(Fr)
      /\ Len(made.val.responses) = Len(b)
      /\ \A k \in 1..Len(b) : made.val.responses[k] = Minus(u[k], Times(c, v[k]))
      /\ made.val.commitment = MultiScalarMul(b, u)
      /\ ChallengeContribution(made.val, b, com, c) = Ok(made.val.commitment)
      /\ VerifyVC(made.val, b, com, c) = Ok(TRUE)

(* (pok_vc.rs gen_proof, verify; the commitment cancels.) *)
LEMMA ProofHolds ==
  ASSUME NEW b, NEW u, NEW v, Together(b, u, v), NEW c \in Fr
  PROVE  Proven(b, u, v, c)
<1> SUFFICES ASSUME NEW p, p = Finish(CommitAll(Committing, b, u)),
                    NEW made, made = GenProofVC(p, c, v),
                    NEW com, com = MultiScalarMul(b, v)
             PROVE  /\ p.bases = b /\ p.commitment = MultiScalarMul(b, u)
                    /\ made.st = "ok" /\ made.val.responses \in Seq(Fr)
                    /\ Len(made.val.responses) = Len(b)
                    /\ \A k \in 1..Len(b) :
                         made.val.responses[k] = Minus(u[k], Times(c, v[k]))
                    /\ made.val.commitment = MultiScalarMul(b, u)
                    /\ ChallengeContribution(made.val, b, com, c) = Ok(made.val.commitment)
                    /\ VerifyVC(made.val, b, com, c) = Ok(TRUE)
  BY DEF Proven
<1> b \in Seq(Fr) /\ u \in Seq(Fr) /\ v \in Seq(Fr) /\ Len(u) = Len(b) /\ Len(v) = Len(b)
  BY DEF Together
<1> DEFINE r == [i \in DOMAIN b |-> Minus(u[i], Times(c, v[i]))]
<1>1. p.bases = b /\ p.blinding_factors = u /\ p.commitment = MultiScalarMul(b, u)
  <2>1. << >> \o b = b /\ << >> \o u = u
    BY ConcatEmptySeq
  <2> QED
    BY <2>1 DEF Finish, CommitAll, Committing
<1>2. made.st = "ok" /\ made.val = [commitment |-> MultiScalarMul(b, u), responses |-> r]
  BY <1>1 DEF GenProofVC, Ok
<1>3. DOMAIN b = 1..Len(b) /\ Len(b) \in Nat
  BY ScalarSeq
<1>4. \A k \in 1..Len(b) : u[k] \in Fr /\ v[k] \in Fr
  BY ScalarSeq
<1>5. \A k \in 1..Len(b) : r[k] = Minus(u[k], Times(c, v[k])) /\ r[k] \in Fr
  BY <1>3, <1>4, ScalarTypes
<1>6. r \in Seq(Fr) /\ Len(r) = Len(b)
  BY <1>3, <1>5
<1> HIDE DEF r
<1>7. PICK x \in Fr, y \in Fr, z \in Fr :
        x = MultiScalarMul(b, u) /\ y = MultiScalarMul(b, v) /\ z = Times(c, y)
  BY ProductOf, ScalarTypes
<1>8. MultiScalarMul(b, r) = Minus(x, z)
  BY <1>5, <1>6, <1>7, ProductOfResponses
<1>9. MultiScalarMul(Append(b, y), Append(r, c)) = Plus(Minus(x, z), Times(y, c))
  BY <1>6, <1>7, <1>8, ProductAppend
<1>10. Plus(Minus(x, z), Times(y, c)) = x
  BY <1>7, Commutes, MinusIsPlus
<1>11. ChallengeContribution(made.val, b, y, c) = Ok(x)
  BY <1>2, <1>6, <1>9, <1>10 DEF ChallengeContribution
<1>12. VerifyVC(made.val, b, y, c) = Ok(TRUE)
  <2>1. ChallengeContribution(made.val, b, y, c).st = "ok"
          /\ ChallengeContribution(made.val, b, y, c).val = x
    BY <1>11 DEF Ok
  <2>2. VerifyVC(made.val, b, y, c) = Ok(x = made.val.commitment)
    BY <2>1 DEF VerifyVC, Try
  <2>3. (x = made.val.commitment) = TRUE
    BY <1>2, <1>7
  <2> QED
    BY <2>2, <2>3
<1> QED
  BY <1>1, <1>2, <1>5, <1>6, <1>7, <1>11, <1>12

(* Products that begin with single pairs. *)
LEMMA ProductHead ==
  ASSUME NEW x \in Fr, NEW y \in Fr,
         NEW b \in Seq(Fr), NEW s \in Seq(Fr), Len(b) = Len(s)
  PROVE  /\ <<x>> \o b \in Seq(Fr) /\ <<y>> \o s \in Seq(Fr)
         /\ Len(<<x>> \o b) = Len(b) + 1 /\ Len(<<y>> \o s) = Len(b) + 1
         /\ MultiScalarMul(<<x>> \o b, <<y>> \o s) = Plus(Times(x, y), MultiScalarMul(b, s))
<1>1. PICK c, t : c = <<x>> /\ t = <<y>>
  OBVIOUS
<1>2. c \in Seq(Fr) /\ t \in Seq(Fr) /\ Len(c) = 1 /\ Len(t) = 1
  BY <1>1
<1>3. MultiScalarMul(c, t) = Times(x, y)
  BY <1>1, ProductOfOne
<1>4. Len(b) \in Nat /\ 1 + Len(b) = Len(b) + 1
  BY ScalarSeq
<1>5. /\ c \o b \in Seq(Fr) /\ t \o s \in Seq(Fr)
      /\ Len(c \o b) = 1 + Len(b) /\ Len(t \o s) = 1 + Len(b)
      /\ MultiScalarMul(c \o b, t \o s) = Plus(MultiScalarMul(c, t), MultiScalarMul(b, s))
  <2>1. Len(c) = Len(t) /\ Len(b) = Len(s) /\ Len(c) = 1
    BY <1>2
  <2>2. /\ c \o b \in Seq(Fr) /\ t \o s \in Seq(Fr)
        /\ Len(c \o b) = Len(c) + Len(b) /\ Len(t \o s) = Len(t) + Len(s)
    BY <1>2, ConcatProperties
  <2>3. MultiScalarMul(c \o b, t \o s) = Plus(MultiScalarMul(c, t), MultiScalarMul(b, s))
    BY <1>2, <2>1, ProductOfConcat
  <2> QED
    BY <2>1, <2>2, <2>3
<1> QED
  BY <1>1, <1>3, <1>4, <1>5

(* A pair, one element at a time. *)
LEMMA Pair ==
  ASSUME NEW x, NEW y
  PROVE  <<x>> \o <<y>> = <<x, y>>
<1>1. PICK s, t, T : s = <<x>> /\ t = <<y>> /\ T = {x, y}
  OBVIOUS
<1>2. s \in Seq(T) /\ t \in Seq(T) /\ Len(s) = 1 /\ Len(t) = 1 /\ s[1] = x /\ t[1] = y
  BY <1>1
<1>3. /\ s \o t \in Seq(T) /\ Len(s \o t) = 2
      /\ (s \o t)[1] = x /\ (s \o t)[2] = y
  BY <1>2, ConcatProperties
<1>4. /\ <<x, y>> \in Seq(T) /\ Len(<<x, y>>) = 2 /\ <<x, y>>[1] = x /\ <<x, y>>[2] = y
  BY <1>1
<1>5. \A i \in 1..2 : (s \o t)[i] = <<x, y>>[i]
  <2>1. \A i \in 1..2 : i = 1 \/ i = 2
    OBVIOUS
  <2> QED
    BY <1>3, <1>4, <2>1
<1>6. s \o t = <<x, y>>
  BY <1>3, <1>4, <1>5, SeqEqual
<1> QED
  BY <1>1, <1>6

(* The product of two pairs. *)
LEMMA ProductPair ==
  ASSUME NEW x \in Fr, NEW y \in Fr, NEW u \in Fr, NEW v \in Fr
  PROVE  MultiScalarMul(<<x, y>>, <<u, v>>) = Plus(Times(x, u), Times(y, v))
<1>1. <<y>> \in Seq(Fr) /\ <<v>> \in Seq(Fr) /\ Len(<<y>>) = 1 /\ Len(<<v>>) = 1
  OBVIOUS
<1>2. <<x>> \o <<y>> = <<x, y>> /\ <<u>> \o <<v>> = <<u, v>>
  BY Pair
<1>3. PICK c, t : c = <<y>> /\ t = <<v>>
  OBVIOUS
<1>4. MultiScalarMul(c, t) = Times(y, v)
  BY <1>3, ProductOfOne
<1>5. MultiScalarMul(<<x>> \o c, <<u>> \o t) = Plus(Times(x, u), MultiScalarMul(c, t))
  <2>1. c \in Seq(Fr) /\ t \in Seq(Fr) /\ Len(c) = Len(t)
    BY <1>1, <1>3
  <2> QED
    BY <2>1, ProductHead
<1> QED
  BY <1>2, <1>3, <1>4, <1>5

(* The product of two pairs and a rest. *)
LEMMA ProductTwoHeads ==
  ASSUME NEW x \in Fr, NEW y \in Fr, NEW u \in Fr, NEW v \in Fr,
         NEW b \in Seq(Fr), NEW s \in Seq(Fr), Len(b) = Len(s)
  PROVE  /\ <<x, y>> \o b \in Seq(Fr) /\ <<u, v>> \o s \in Seq(Fr)
         /\ Len(<<x, y>> \o b) = Len(b) + 2 /\ Len(<<u, v>> \o s) = Len(b) + 2
         /\ MultiScalarMul(<<x, y>> \o b, <<u, v>> \o s)
              = Plus(Plus(Times(x, u), Times(y, v)), MultiScalarMul(b, s))
<1>1. PICK c, t : c = <<x, y>> /\ t = <<u, v>>
  OBVIOUS
<1>2. c \in Seq(Fr) /\ t \in Seq(Fr) /\ Len(c) = 2 /\ Len(t) = 2
  BY <1>1
<1>3. MultiScalarMul(c, t) = Plus(Times(x, u), Times(y, v))
  BY <1>1, ProductPair
<1>4. Len(b) \in Nat /\ 2 + Len(b) = Len(b) + 2
  BY ScalarSeq
<1>5. /\ c \o b \in Seq(Fr) /\ t \o s \in Seq(Fr)
      /\ Len(c \o b) = 2 + Len(b) /\ Len(t \o s) = 2 + Len(b)
      /\ MultiScalarMul(c \o b, t \o s) = Plus(MultiScalarMul(c, t), MultiScalarMul(b, s))
  <2>1. Len(c) = Len(t) /\ Len(b) = Len(s) /\ Len(c) = 2
    BY <1>2
  <2>2. /\ c \o b \in Seq(Fr) /\ t \o s \in Seq(Fr)
        /\ Len(c \o b) = Len(c) + Len(b) /\ Len(t \o s) = Len(t) + Len(s)
    BY <1>2, ConcatProperties
  <2>3. MultiScalarMul(c \o b, t \o s) = Plus(MultiScalarMul(c, t), MultiScalarMul(b, s))
    BY <1>2, <2>1, ProductOfConcat
  <2> QED
    BY <2>1, <2>2, <2>3
<1> QED
  BY <1>1, <1>3, <1>4, <1>5
--------------------------------------------------------------------------------
(* Signatures. *)

(* The product over the generators and messages of S. *)
Dot(vk, m, S) == MultiScalarMul(Along(vk.h, S), Along(m, S))

(* A good key validates, and has a scalar for every index. *)
LEMMA GoodKeyFacts ==
  ASSUME NEW vk, NEW sk, NEW n, GoodKey(vk, sk, n)
  PROVE  /\ PublicKeyValidate(vk) = Ok(vk) /\ MessageCount(vk) = n
         /\ SecretKeyValidate(sk) = Ok(sk)
         /\ \A S \in SUBSET (0..(n - 1)) :
              /\ S \subseteq Int /\ IsFiniteSet(S) /\ Cardinality(S) \in Nat
              /\ Cardinality(S) <= n
              /\ Along(vk.h, S) \in Seq(Fr) /\ Len(Along(vk.h, S)) = Cardinality(S)
              /\ \A m : (\A i \in S : m[i] \in Fr) =>
                   /\ Along(m, S) \in Seq(Fr) /\ Len(Along(m, S)) = Cardinality(S)
                   /\ Dot(vk, m, S) \in Fr
<1>1. n \in Nat /\ IsFiniteSet(0..(n - 1)) /\ Cardinality(0..(n - 1)) = n
        /\ 0..(n - 1) \subseteq Int
  <2>1. n \in Nat
    BY DEF GoodKey
  <2> QED
    BY <2>1, FS_Interval
<1>2. PublicKeyValidate(vk) = Ok(vk)
  BY DEF GoodKey, PublicKeyValidate, Zero
<1>3. MessageCount(vk) = n /\ SecretKeyValidate(sk) = Ok(sk)
  BY <1>1 DEF GoodKey, MessageCount, SecretKeyValidate
<1>4. ASSUME NEW S \in SUBSET (0..(n - 1))
      PROVE  /\ S \subseteq Int /\ IsFiniteSet(S) /\ Cardinality(S) \in Nat
             /\ Cardinality(S) <= n
             /\ Along(vk.h, S) \in Seq(Fr) /\ Len(Along(vk.h, S)) = Cardinality(S)
             /\ \A m : (\A i \in S : m[i] \in Fr) =>
                  /\ Along(m, S) \in Seq(Fr) /\ Len(Along(m, S)) = Cardinality(S)
                  /\ Dot(vk, m, S) \in Fr
  <2>1. S \subseteq Int /\ IsFiniteSet(S) /\ Cardinality(S) \in Nat /\ Cardinality(S) <= n
    BY <1>1, FS_Subset, FS_CardinalityType
  <2>2. \A i \in S : vk.h[i] \in Fr
    BY DEF GoodKey
  <2>3. Along(vk.h, S) \in Seq(Fr) /\ Len(Along(vk.h, S)) = Cardinality(S)
    BY <2>1, <2>2, AlongType
  <2>4. ASSUME NEW m, \A i \in S : m[i] \in Fr
        PROVE  /\ Along(m, S) \in Seq(Fr) /\ Len(Along(m, S)) = Cardinality(S)
               /\ Dot(vk, m, S) \in Fr
    <3>1. Along(m, S) \in Seq(Fr) /\ Len(Along(m, S)) = Cardinality(S)
      BY <2>1, <2>4, AlongType
    <3> QED
      BY <2>3, <3>1, ProductOf DEF Dot
  <2> QED
    BY <2>1, <2>3, <2>4
<1> QED
  BY <1>2, <1>3, <1>4

(* b = g1 * h0^s * prod h[i]^m[i] *)
LEMMA ComputeBIs ==
  ASSUME NEW vk, NEW sk, NEW n, GoodKey(vk, sk, n), NEW s \in Fr, NEW m,
         DOMAIN m = 0..(n - 1), \A i \in 0..(n - 1) : m[i] \in Fr
  PROVE  /\ ComputeB(s, m, vk) = Plus(Plus(One, Times(vk.h0, s)), Dot(vk, m, 0..(n - 1)))
         /\ ComputeB(s, m, vk) \in Fr
<1> DEFINE D == 0..(n - 1)
<1>1. /\ vk.h0 \in Fr /\ One \in Fr /\ DOMAIN m \intersect DOMAIN vk.h = D
      /\ One = 1
  BY ScalarTypes DEF GoodKey, One
<1>2. /\ Along(vk.h, D) \in Seq(Fr) /\ Along(m, D) \in Seq(Fr)
      /\ Len(Along(vk.h, D)) = Len(Along(m, D)) /\ Dot(vk, m, D) \in Fr
  BY GoodKeyFacts
<1>3. ComputeB(s, m, vk)
        = MultiScalarMul(<<One, vk.h0>> \o Along(vk.h, D), <<One, s>> \o Along(m, D))
  BY <1>1 DEF ComputeB, Along
<1>4. ComputeB(s, m, vk) = Plus(Plus(Times(One, One), Times(vk.h0, s)), Dot(vk, m, D))
  <2>1. PICK h0 \in Fr, one \in Fr, b \in Seq(Fr), t \in Seq(Fr) :
           h0 = vk.h0 /\ one = One /\ b = Along(vk.h, D) /\ t = Along(m, D)
    BY <1>1, <1>2
  <2>2. b \in Seq(Fr) /\ t \in Seq(Fr) /\ Len(b) = Len(t)
    BY <1>2, <2>1
  <2>3. MultiScalarMul(<<one, h0>> \o b, <<one, s>> \o t)
          = Plus(Plus(Times(one, one), Times(h0, s)), MultiScalarMul(b, t))
    BY <2>2, ProductTwoHeads
  <2> QED
    BY <1>3, <2>1, <2>3 DEF Dot
<1>5. Times(One, One) = One /\ Times(vk.h0, s) \in Fr
  BY <1>1, Neutral, ScalarTypes
<1>6. Plus(One, Times(vk.h0, s)) \in Fr
  BY <1>1, <1>5, ScalarTypes
<1>7. ComputeB(s, m, vk) = Plus(Plus(One, Times(vk.h0, s)), Dot(vk, m, D))
  BY <1>4, <1>5
<1>8. Plus(Plus(One, Times(vk.h0, s)), Dot(vk, m, D)) \in Fr
  BY <1>2, <1>6, ScalarTypes
<1> QED
  BY <1>7, <1>8

(* Dividing and multiplying again. *)
LEMMA Divides ==
  ASSUME NEW x \in Fr, NEW b \in Fr, x # 0
  PROVE  /\ Times(b, Inverse1(x)) \in Fr
         /\ Times(Times(b, Inverse1(x)), x) = b
         /\ b # Zero => Times(b, Inverse1(x)) # Zero
<1>1. PICK y \in Fr : y = Inverse1(x) /\ Times(x, y) = One
  BY Inverts
<1>2. Times(b, y) \in Fr /\ Times(y, x) = One
  BY <1>1, ScalarTypes, Commutes
<1>3. Times(Times(b, y), x) = b
  BY <1>1, <1>2, Associates, Neutral
<1>4. Times(Zero, x) = Zero
  BY Neutral
<1> QED
  BY <1>1, <1>2, <1>3, <1>4

(* What is signed with sk verifies. *)
LEMMA SignedVerifies ==
  ASSUME NEW vk, NEW sk, NEW n, GoodKey(vk, sk, n), NEW m,
         DOMAIN m = 0..(n - 1), \A i \in 0..(n - 1) : m[i] \in Fr,
         NEW sig, SignedFor(sig, m, vk, sk)
  PROVE  /\ SignatureVerify(sig, m, vk) = Ok(TRUE)
         /\ sig.a \in Fr \ {0}
         /\ Times(sig.a, Plus(sk, sig.e)) = ComputeB(sig.s, m, vk)
<1>1. PICK b \in Fr : b = ComputeB(sig.s, m, vk) /\ b # Zero
  BY ComputeBIs DEF SignedFor
<1>2. PICK x \in Fr : x = Plus(sk, sig.e) /\ x # 0
  BY ScalarTypes DEF SignedFor, GoodKey
<1>3. sig.a = Times(b, Inverse1(x))
  BY <1>1, <1>2 DEF SignedFor
<1>4. sig.a \in Fr /\ sig.a # Zero /\ Times(sig.a, x) = b
  BY <1>1, <1>2, <1>3, Divides
<1>5. SignatureValidate(sig) = Ok(sig)
  BY <1>4 DEF SignatureValidate, SignedFor, Zero
<1>6. /\ MessageCount(vk) = n /\ Cardinality(DOMAIN m) = n
      /\ PublicKeyValidate(vk) = Ok(vk) /\ vk.w = sk
  <2>1. n \in Nat
    BY DEF GoodKey
  <2>2. Cardinality(0..(n - 1)) = n
    BY <2>1, FS_Interval
  <2> QED
    BY <2>2, GoodKeyFacts DEF GoodKey
<1>7. PairingHolds(sig.a, Plus(vk.w, sig.e), ComputeB(sig.s, m, vk)) = TRUE
  BY <1>1, <1>2, <1>4, <1>6 DEF PairingHolds
<1>8. Ok(vk).st = "ok" /\ Ok(sig).st = "ok"
  BY DEF Ok
<1>9. SignatureVerify(sig, m, vk)
        = Ok(PairingHolds(sig.a, Plus(vk.w, sig.e), ComputeB(sig.s, m, vk)))
  BY <1>5, <1>6, <1>8 DEF SignatureVerify, Try
<1> QED
  BY <1>1, <1>2, <1>4, <1>7, <1>9 DEF Zero
(* The first of three elements, put before the other two. *)
LEMMA HeadOfThree ==
  ASSUME NEW x \in Fr, NEW y \in Fr, NEW z \in Fr, NEW b \in Seq(Fr),
         NEW p, p = <<y, z>> \o b, NEW q, q = <<x, y, z>> \o b
  PROVE  <<x>> \o p = q
<1>1. PICK s, t, r : s = <<x>> /\ t = <<y, z>> /\ r = <<x, y, z>>
  OBVIOUS
<1>2. /\ s \in Seq(Fr) /\ Len(s) = 1 /\ s[1] = x
      /\ t \in Seq(Fr) /\ Len(t) = 2 /\ t[1] = y /\ t[2] = z
      /\ r \in Seq(Fr) /\ Len(r) = 3 /\ r[1] = x /\ r[2] = y /\ r[3] = z
  BY <1>1
<1>3. /\ s \o t \in Seq(Fr) /\ Len(s \o t) = 3
      /\ (s \o t)[1] = x /\ (s \o t)[2] = y /\ (s \o t)[3] = z
  <2>1. /\ s \o t \in Seq(Fr) /\ Len(s \o t) = 1 + 2
        /\ \A i \in 1..(1 + 2) : (s \o t)[i] = IF i <= 1 THEN s[i] ELSE t[i - 1]
    <3>1. /\ s \o t \in Seq(Fr) /\ Len(s \o t) = Len(s) + Len(t)
          /\ \A i \in 1..(Len(s) + Len(t)) :
               (s \o t)[i] = IF i <= Len(s) THEN s[i] ELSE t[i - Len(s)]
      BY <1>2, ConcatProperties
    <3> QED
      BY <1>2, <3>1
  <2>2. (s \o t)[1] = s[1] /\ (s \o t)[2] = t[2 - 1] /\ (s \o t)[3] = t[3 - 1]
    <3>1. 1 \in 1..(1 + 2) /\ 2 \in 1..(1 + 2) /\ 3 \in 1..(1 + 2)
      OBVIOUS
    <3>2. (s \o t)[1] = s[1]
      BY <2>1, <3>1
    <3>3. (s \o t)[2] = t[2 - 1]
      BY <2>1, <3>1
    <3>4. (s \o t)[3] = t[3 - 1]
      BY <2>1, <3>1
    <3> QED
      BY <3>2, <3>3, <3>4
  <2>3. 2 - 1 = 1 /\ 3 - 1 = 2 /\ 1 + 2 = 3
    OBVIOUS
  <2> QED
    BY <1>2, <2>1, <2>2, <2>3
<1>4. \A i \in 1..3 : (s \o t)[i] = r[i]
  <2>1. \A i \in 1..3 : i = 1 \/ i = 2 \/ i = 3
    OBVIOUS
  <2> QED
    BY <1>2, <1>3, <2>1
<1>5. s \o t = r
  BY <1>2, <1>3, <1>4, SeqEqual
<1>6. (s \o t) \o b = s \o (t \o b)
  <2>1. s \in Seq(Fr) /\ t \in Seq(Fr) /\ b \in Seq(Fr)
    BY <1>2
  <2> QED
    BY ONLY <2>1, ConcatAssociative
<1> QED
  BY <1>1, <1>5, <1>6

(* The order in which blind signing adds what it commits to. *)
LEMMA SumOfFive ==
  ASSUME NEW u \in Fr, NEW v \in Fr, NEW w \in Fr, NEW x \in Fr, NEW y \in Fr
  PROVE  Plus(Plus(u, x), Plus(Plus(w, v), y)) = Plus(Plus(w, Plus(v, u)), Plus(x, y))
<1>1. PICK p \in Fr : p = Plus(w, v)
  BY ScalarTypes
<1>2. Plus(w, Plus(v, u)) = Plus(p, u)
  BY <1>1, Associates
<1>3. Plus(Plus(p, u), Plus(x, y)) = Plus(p, Plus(u, Plus(x, y)))
  <2>1. Plus(x, y) \in Fr
    BY ScalarTypes
  <2> QED
    BY <2>1, Associates
<1>4. Plus(u, Plus(x, y)) = Plus(Plus(u, x), y)
  BY Associates
<1>5. PICK q \in Fr : q = Plus(u, x)
  BY ScalarTypes
<1>6. Plus(p, Plus(q, y)) = Plus(Plus(p, q), y) /\ Plus(p, q) = Plus(q, p)
  BY Associates, Commutes
<1>7. Plus(Plus(q, p), y) = Plus(q, Plus(p, y))
  BY Associates
<1> QED
  BY <1>1, <1>2, <1>3, <1>4, <1>5, <1>6, <1>7

(* The commitment to the messages of S, with the blinding added. *)
LEMMA CommitmentIs ==
  ASSUME NEW vk, NEW sk, NEW n, GoodKey(vk, sk, n), NEW S \in SUBSET (0..(n - 1)),
         NEW m, DOMAIN m = S, \A i \in S : m[i] \in Fr, NEW blinding \in Fr
  PROVE  LET bases == HiddenBases(vk, InOrder(S))
             secrets == <<blinding>> \o Along(m, S)
         IN  /\ bases \in Seq(Fr) /\ secrets \in Seq(Fr)
             /\ Len(bases) = Cardinality(S) + 1 /\ Len(secrets) = Len(bases)
             /\ ContextCommitment(vk, m, blinding) = MultiScalarMul(bases, secrets)
             /\ ContextCommitment(vk, m, blinding)
                  = Plus(Times(vk.h0, blinding), Dot(vk, m, S))
             /\ ContextCommitment(vk, m, blinding) \in Fr
<1>1. /\ vk.h0 \in Fr
      /\ Along(vk.h, S) \in Seq(Fr) /\ Along(m, S) \in Seq(Fr)
      /\ Len(Along(vk.h, S)) = Cardinality(S) /\ Len(Along(m, S)) = Cardinality(S)
      /\ Dot(vk, m, S) \in Fr
  BY GoodKeyFacts DEF GoodKey
<1>2. HiddenBases(vk, InOrder(S)) = <<vk.h0>> \o Along(vk.h, S)
  BY DEF HiddenBases, Along
<1>3. ContextCommitment(vk, m, blinding)
        = MultiScalarMul(<<vk.h0>> \o Along(vk.h, S), <<blinding>> \o Along(m, S))
  BY DEF ContextCommitment, HiddenBases, Along
<1>4. /\ <<vk.h0>> \o Along(vk.h, S) \in Seq(Fr) /\ <<blinding>> \o Along(m, S) \in Seq(Fr)
      /\ Len(<<vk.h0>> \o Along(vk.h, S)) = Cardinality(S) + 1
      /\ Len(<<blinding>> \o Along(m, S)) = Cardinality(S) + 1
      /\ MultiScalarMul(<<vk.h0>> \o Along(vk.h, S), <<blinding>> \o Along(m, S))
           = Plus(Times(vk.h0, blinding), Dot(vk, m, S))
  BY <1>1, ProductHead DEF Dot
<1>5. Plus(Times(vk.h0, blinding), Dot(vk, m, S)) \in Fr
  BY <1>1, ScalarTypes
<1> QED
  BY <1>2, <1>3, <1>4, <1>5

(* The n messages m, of which the issuer knows those of K. *)
Halves(m, hidden, known, K, n) ==
  /\ K \in SUBSET (0..(n - 1))
  /\ DOMAIN m = 0..(n - 1) /\ \A i \in 0..(n - 1) : m[i] \in Fr
  /\ DOMAIN hidden = (0..(n - 1)) \ K /\ \A i \in DOMAIN hidden : hidden[i] = m[i]
  /\ DOMAIN known = K /\ \A i \in K : known[i] = m[i]

(* The issuer adds what it knows to the commitment and gets b for the sum of
   the two blindings. *)
LEMMA BlindSum ==
  ASSUME NEW vk, NEW sk, NEW n, GoodKey(vk, sk, n),
         NEW m, NEW hidden, NEW known, NEW K, Halves(m, hidden, known, K, n),
         NEW blinding \in Fr, NEW s \in Fr
  PROVE  MultiScalarMul(
           <<ContextCommitment(vk, hidden, blinding), One, vk.h0>> \o Along(vk.h, K),
           <<One, One, s>> \o Along(known, K))
           = ComputeB(Plus(s, blinding), m, vk)
<1> /\ K \in SUBSET (0..(n - 1))
    /\ DOMAIN m = 0..(n - 1) /\ \A i \in 0..(n - 1) : m[i] \in Fr
    /\ DOMAIN hidden = (0..(n - 1)) \ K /\ \A i \in DOMAIN hidden : hidden[i] = m[i]
    /\ DOMAIN known = K /\ \A i \in K : known[i] = m[i]
  BY DEF Halves
<1> DEFINE D == 0..(n - 1)
           H == D \ K
           commitment == ContextCommitment(vk, hidden, blinding)
<1>1. /\ H \in SUBSET D /\ DOMAIN hidden = H /\ H \union K = D /\ H \intersect K = {}
      /\ vk.h0 \in Fr /\ One \in Fr /\ n \in Nat
      /\ \A i \in D : vk.h[i] \in Fr /\ m[i] \in Fr
  BY ScalarTypes DEF GoodKey
<1>2. PICK x \in Fr : x = Dot(vk, m, H)
  BY <1>1, GoodKeyFacts
<1>3. PICK y \in Fr : y = Dot(vk, m, K)
  BY GoodKeyFacts
<1>4. Along(hidden, H) = Along(m, H) /\ Along(known, K) = Along(m, K)
  <2>1. H \subseteq Int /\ IsFiniteSet(H) /\ K \subseteq Int /\ IsFiniteSet(K)
    BY <1>1, GoodKeyFacts
  <2> QED
    BY <1>1, <2>1, AlongSame
<1>5. /\ Along(vk.h, K) \in Seq(Fr) /\ Along(m, K) \in Seq(Fr)
      /\ Len(Along(vk.h, K)) = Len(Along(m, K))
  BY GoodKeyFacts
<1>6. PICK u \in Fr, v \in Fr : u = Times(vk.h0, blinding) /\ v = Times(vk.h0, s)
  BY <1>1, ScalarTypes
<1>7. commitment = Plus(u, x) /\ commitment \in Fr
  <2>1. \A i \in H : hidden[i] \in Fr
    BY <1>1
  <2>2. commitment = Plus(Times(vk.h0, blinding), Dot(vk, hidden, H)) /\ commitment \in Fr
    <3>1. PICK S \in SUBSET (0..(n - 1)) : S = H /\ DOMAIN hidden = S /\ \A i \in S : hidden[i] \in Fr
      BY <1>1, <2>1
    <3>2. GoodKey(vk, sk, n) /\ blinding \in Fr
      OBVIOUS
    <3>3. /\ ContextCommitment(vk, hidden, blinding)
               = Plus(Times(vk.h0, blinding), Dot(vk, hidden, S))
          /\ ContextCommitment(vk, hidden, blinding) \in Fr
      BY ONLY <3>1, <3>2, CommitmentIs
    <3> QED
      BY <3>1, <3>3
  <2> QED
    BY <1>2, <1>4, <1>6, <2>2 DEF Dot
<1>8. Dot(vk, m, D) = Plus(x, y)
  <2>1. PICK h : h = vk.h
    OBVIOUS
  <2>2. Parts(n, H, K, D) /\ n \in Nat /\ \A i \in D : h[i] \in Fr /\ m[i] \in Fr
    BY <1>1, <2>1 DEF Parts
  <2> HIDE DEF H, D
  <2>3. MultiScalarMul(Along(h, D), Along(m, D))
          = Plus(MultiScalarMul(Along(h, H), Along(m, H)),
                 MultiScalarMul(Along(h, K), Along(m, K)))
    BY <2>2, SumOfParts
  <2> QED
    BY <1>2, <1>3, <2>1, <2>3 DEF Dot
<1>9. ComputeB(Plus(s, blinding), m, vk) = Plus(Plus(One, Plus(v, u)), Plus(x, y))
  <2>1. Plus(s, blinding) \in Fr
    BY ScalarTypes
  <2>2. Times(vk.h0, Plus(s, blinding)) = Plus(v, u)
    BY <1>1, <1>6, Distributes
  <2>3. ComputeB(Plus(s, blinding), m, vk)
          = Plus(Plus(One, Times(vk.h0, Plus(s, blinding))), Dot(vk, m, D))
    BY <2>1, ComputeBIs
  <2> QED
    BY <1>8, <2>2, <2>3
<1> HIDE DEF commitment
<1>10. MultiScalarMul(<<commitment, One, vk.h0>> \o Along(vk.h, K),
                      <<One, One, s>> \o Along(m, K))
         = Plus(commitment, Plus(Plus(One, v), y))
  <2>1. PICK b, t : b = Along(vk.h, K) /\ t = Along(m, K)
    OBVIOUS
  <2>2. /\ <<commitment>> \o (<<One, vk.h0>> \o b) = <<commitment, One, vk.h0>> \o b
        /\ <<One>> \o (<<One, s>> \o t) = <<One, One, s>> \o t
    <3>1. b \in Seq(Fr) /\ t \in Seq(Fr)
      BY <1>5, <2>1
    <3>2. PICK h0 \in Fr, one \in Fr : h0 = vk.h0 /\ one = One
      BY <1>1
    <3>3. PICK p, q : p = <<one, h0>> \o b /\ q = <<commitment, one, h0>> \o b
      OBVIOUS
    <3>4. <<commitment>> \o p = q
      BY <1>7, <3>1, <3>2, <3>3, HeadOfThree
    <3>5. PICK p1, q1 : p1 = <<one, s>> \o t /\ q1 = <<one, one, s>> \o t
      OBVIOUS
    <3>6. <<one>> \o p1 = q1
      BY <3>1, <3>2, <3>5, HeadOfThree
    <3> QED
      BY <3>2, <3>3, <3>4, <3>5, <3>6
  <2>3. /\ <<One, vk.h0>> \o b \in Seq(Fr) /\ <<One, s>> \o t \in Seq(Fr)
        /\ Len(<<One, vk.h0>> \o b) = Len(<<One, s>> \o t)
        /\ MultiScalarMul(<<One, vk.h0>> \o b, <<One, s>> \o t)
             = Plus(Plus(Times(One, One), Times(vk.h0, s)), MultiScalarMul(b, t))
    BY <1>1, <1>5, <2>1, ProductTwoHeads
  <2>4. MultiScalarMul(b, t) = y
    BY <1>3, <2>1 DEF Dot
  <2>5. Times(One, One) = One /\ Times(commitment, One) = commitment
    BY <1>1, <1>7, Neutral
  <2>6. MultiScalarMul(<<commitment>> \o (<<One, vk.h0>> \o b), <<One>> \o (<<One, s>> \o t))
          = Plus(Times(commitment, One), MultiScalarMul(<<One, vk.h0>> \o b, <<One, s>> \o t))
    <3>1. PICK bb, tt : bb = <<One, vk.h0>> \o b /\ tt = <<One, s>> \o t
      OBVIOUS
    <3>2. bb \in Seq(Fr) /\ tt \in Seq(Fr) /\ Len(bb) = Len(tt)
      BY <2>3, <3>1
    <3>3. MultiScalarMul(<<commitment>> \o bb, <<One>> \o tt)
            = Plus(Times(commitment, One), MultiScalarMul(bb, tt))
      BY <1>1, <1>7, <3>2, ProductHead
    <3> QED
      BY <3>1, <3>3
  <2> QED
    BY <1>6, <2>1, <2>2, <2>3, <2>4, <2>5, <2>6
<1>11. Plus(Plus(u, x), Plus(Plus(One, v), y)) = Plus(Plus(One, Plus(v, u)), Plus(x, y))
  <2>1. u \in Fr /\ v \in Fr /\ One \in Fr /\ x \in Fr /\ y \in Fr
    BY <1>1, <1>2, <1>3, <1>6
  <2> QED
    BY ONLY <2>1, SumOfFive
<1> QED
  BY <1>4, <1>7, <1>9, <1>10, <1>11 DEF commitment

(* Three elements at the end, one by one or at once. *)
LEMMA AppendThree ==
  ASSUME NEW T, NEW b \in Seq(T), NEW x \in T, NEW y \in T, NEW z \in T,
         NEW s, s = <<y, z>>, NEW t, t = <<x, y, z>>
  PROVE  Append(b, x) \o s = b \o t
<1>1. PICK p : p = Append(b, x)
  OBVIOUS
<1>2. /\ s \in Seq(T) /\ Len(s) = 2 /\ s[1] = y /\ s[2] = z
      /\ t \in Seq(T) /\ Len(t) = 3 /\ t[1] = x /\ t[2] = y /\ t[3] = z
  BY <1>1
<1>3. PICK n \in Nat : n = Len(b)
  OBVIOUS
<1>4. /\ p \in Seq(T) /\ Len(p) = n + 1 /\ p[n + 1] = x
      /\ \A i \in 1..n : p[i] = b[i]
  BY <1>1, <1>3, AppendProperties
<1>5. /\ p \o s \in Seq(T) /\ Len(p \o s) = n + 3
      /\ \A i \in 1..(n + 3) : (p \o s)[i] = IF i <= n + 1 THEN p[i] ELSE s[i - (n + 1)]
  <2>1. /\ p \o s \in Seq(T) /\ Len(p \o s) = Len(p) + Len(s)
        /\ \A i \in 1..(Len(p) + Len(s)) :
             (p \o s)[i] = IF i <= Len(p) THEN p[i] ELSE s[i - Len(p)]
    BY <1>2, <1>4, ConcatProperties
  <2>2. Len(p) + Len(s) = n + 3
    BY <1>2, <1>4
  <2> QED
    BY <1>4, <2>1, <2>2
<1>6. /\ b \o t \in Seq(T) /\ Len(b \o t) = n + 3
      /\ \A i \in 1..(n + 3) : (b \o t)[i] = IF i <= n THEN b[i] ELSE t[i - n]
  <2>1. /\ b \o t \in Seq(T) /\ Len(b \o t) = Len(b) + Len(t)
        /\ \A i \in 1..(Len(b) + Len(t)) :
             (b \o t)[i] = IF i <= Len(b) THEN b[i] ELSE t[i - Len(b)]
    BY <1>2, ConcatProperties
  <2> QED
    BY <1>2, <1>3, <2>1
<1>7. \A i \in 1..(n + 3) : (p \o s)[i] = (b \o t)[i]
  <2> TAKE i \in 1..(n + 3)
  <2>1. i \in 1..n \/ i = n + 1 \/ i = n + 2 \/ i = n + 3
    OBVIOUS
  <2>2. CASE i \in 1..n
    BY <1>4, <1>5, <1>6, <2>2
  <2>3. CASE i = n + 1
    <3>1. i <= n + 1 /\ ~(i <= n) /\ i - n = 1
      BY <2>3
    <3> QED
      BY <1>2, <1>4, <1>5, <1>6, <2>3, <3>1
  <2>4. CASE i = n + 2
    <3>1. ~(i <= n + 1) /\ ~(i <= n) /\ i - n = 2 /\ i - (n + 1) = 1
      BY <2>4
    <3> QED
      BY <1>2, <1>5, <1>6, <3>1
  <2>5. CASE i = n + 3
    <3>1. ~(i <= n + 1) /\ ~(i <= n) /\ i - n = 3 /\ i - (n + 1) = 2
      BY <2>5
    <3> QED
      BY <1>2, <1>5, <1>6, <3>1
  <2> QED
    BY <2>1, <2>2, <2>3, <2>4, <2>5
<1>8. p \o s = b \o t
  BY <1>5, <1>6, <1>7, SeqEqual
<1> QED
  BY <1>1, <1>8

(* A context answers its challenge for the messages it hides, and the string
   that the prover asks is the one that the issuer will. *)
Contextual(vk, sk, n, S, m, blinding, draws, c) ==
  /\ GoodKey(vk, sk, n) /\ S \in SUBSET (0..(n - 1))
  /\ DOMAIN m = S /\ \A i \in S : m[i] \in Fr
  /\ blinding \in Fr /\ draws \in Seq(Fr) /\ Len(draws) >= n + 1 /\ c \in Fr

ContextAnswers(vk, S, m, blinding, draws, c, nonce) ==
  LET bases == HiddenBases(vk, InOrder(S))
      made == NewBlindSignatureContext(vk, m, blinding, draws, c)
      ctx == made.val
  IN  /\ made.st = "ok" /\ ctx.challenge_hash = c
      /\ ctx.commitment = ContextCommitment(vk, m, blinding) /\ ctx.commitment \in Fr
      /\ ctx.proof.commitment \in Fr /\ ctx.proof.responses \in Seq(Fr)
      /\ ctx.proof = [commitment |-> ctx.proof.commitment, responses |-> ctx.proof.responses]
      /\ ChallengeContribution(ctx.proof, bases, ctx.commitment, c)
           = Ok(ctx.proof.commitment)
      /\ ContextBytes(vk, m, nonce, blinding, draws)
           = CompleteProofBytes(bases, ctx.proof.commitment, ctx.commitment, nonce)

(* A context an honest user makes answers its challenge (signature.rs). *)
LEMMA ContextHolds ==
  ASSUME NEW vk, NEW sk, NEW n, NEW S, NEW m, NEW blinding, NEW draws, NEW c, NEW nonce,
         Contextual(vk, sk, n, S, m, blinding, draws, c)
  PROVE  ContextAnswers(vk, S, m, blinding, draws, c, nonce)
<1> /\ GoodKey(vk, sk, n) /\ S \in SUBSET (0..(n - 1))
    /\ DOMAIN m = S /\ \A i \in S : m[i] \in Fr
    /\ blinding \in Fr /\ draws \in Seq(Fr) /\ Len(draws) >= n + 1 /\ c \in Fr
  BY DEF Contextual
<1> DEFINE b == HiddenBases(vk, InOrder(S))
           v == <<blinding>> \o Along(m, S)
           u == SubSeq(draws, 1, Len(b))
           com == ContextCommitment(vk, m, blinding)
           p == Finish(CommitAll(Committing, b, u))
           made == NewBlindSignatureContext(vk, m, blinding, draws, c)
<1>1. n \in Nat /\ DOMAIN vk.h = 0..(n - 1) /\ Cardinality(S) \in Nat /\ Cardinality(S) <= n
  BY GoodKeyFacts DEF GoodKey
<1>2. /\ b \in Seq(Fr) /\ v \in Seq(Fr) /\ Len(b) = Cardinality(S) + 1 /\ Len(v) = Len(b)
      /\ com = MultiScalarMul(b, v) /\ com \in Fr
  BY CommitmentIs
<1>3. ContextCommitted(vk, m, draws) = p
  BY DEF ContextCommitted
<1>4. made = Ok([commitment |-> com, challenge_hash |-> c, proof |-> GenProofVC(p, c, v).val])
  <2>1. DOMAIN m \subseteq DOMAIN vk.h
    BY <1>1
  <2> HIDE DEF p, com
  <2> QED
    BY <1>3, <2>1 DEF NewBlindSignatureContext, Along, com
<1>5. ContextBytes(vk, m, nonce, blinding, draws)
        = Append(p.bases, p.commitment) \o <<com, nonce>>
  BY <1>3 DEF ContextBytes, CommittedBytes
<1> HIDE DEF b, v, com
<1>6. u \in Seq(Fr) /\ Len(u) = Len(b)
  <2>1. 1 \in 1..Len(draws) /\ Len(b) \in 1..Len(draws) /\ Len(draws) \in Nat
    BY <1>1, <1>2
  <2> QED
    BY <1>1, <1>2, <2>1, SubSeqProperties
<1> HIDE DEF u
<1>7. PICK g : g = GenProofVC(p, c, v)
  OBVIOUS
<1>8. /\ p.bases = b /\ p.commitment = MultiScalarMul(b, u)
      /\ g.val.commitment = MultiScalarMul(b, u) /\ g.val.commitment \in Fr
      /\ g.val.responses \in Seq(Fr)
      /\ g.val = [commitment |-> g.val.commitment, responses |-> g.val.responses]
      /\ ChallengeContribution(g.val, b, com, c) = Ok(g.val.commitment)
  <2>1. Together(b, u, v)
    BY <1>2, <1>6 DEF Together
  <2>2. Proven(b, u, v, c)
    BY <2>1, ProofHolds
  <2>3. MultiScalarMul(b, u) \in Fr
    BY <1>2, <1>6, ProductOf
  <2>4. g.st = "ok"
    BY <1>7, <2>2 DEF Proven
  <2> HIDE DEF p
  <2>5. g.val = [commitment |-> g.val.commitment, responses |-> g.val.responses]
    BY <1>7, <2>4 DEF GenProofVC, Ok, Err
  <2> QED
    BY <1>2, <1>7, <2>2, <2>3, <2>5 DEF Proven, p
<1> HIDE DEF p
<1>9. PICK x : x = MultiScalarMul(b, u)
  OBVIOUS
<1>10. Append(b, x) \o <<com, nonce>> = b \o <<x, com, nonce>>
  <2>1. PICK T : T = Fr \union {x, com, nonce}
    OBVIOUS
  <2>2. b \in Seq(T) /\ x \in T /\ com \in T /\ nonce \in T
    BY <1>2, <2>1
  <2>3. PICK s, t : s = <<com, nonce>> /\ t = <<x, com, nonce>>
    OBVIOUS
  <2>4. Append(b, x) \o s = b \o t
    BY <2>2, <2>3, AppendThree
  <2> QED
    BY <2>3, <2>4
<1>11. made.st = "ok" /\ made.val.commitment = com /\ made.val.challenge_hash = c
       /\ made.val.proof = g.val
  BY <1>4, <1>7 DEF Ok
<1>12. ContextBytes(vk, m, nonce, blinding, draws)
         = CompleteProofBytes(b, made.val.proof.commitment, com, nonce)
  BY <1>5, <1>8, <1>9, <1>10, <1>11 DEF CompleteProofBytes
<1> HIDE DEF made
<1>13. ChallengeContribution(made.val.proof, b, made.val.commitment, c)
         = Ok(made.val.proof.commitment)
  BY <1>8, <1>11
<1>14. /\ made.val.commitment \in Fr /\ made.val.proof.commitment \in Fr
       /\ made.val.proof.responses \in Seq(Fr)
       /\ made.val.proof = [commitment |-> made.val.proof.commitment,
                            responses |-> made.val.proof.responses]
  BY <1>2, <1>8, <1>11
<1> QED
  BY <1>11, <1>12, <1>13, <1>14 DEF b, com, made, ContextAnswers
--------------------------------------------------------------------------------
(* Proofs of a signature. *)

(* Sums of scalars are reduced once at most. *)
LEMMA Linear ==
  ASSUME NEW x \in Fr, NEW y \in Fr
  PROVE  /\ Plus(x, y) = x + y \/ Plus(x, y) = x + y - R
         /\ Minus(x, y) = x - y \/ Minus(x, y) = x - y + R
         /\ Negate(x) = -x \/ Negate(x) = R - x
<1>1. R \in Int /\ x \in Int /\ y \in Int /\ 0 <= x /\ x < R /\ 0 <= y /\ y < R
  BY DivMod
<1>2. /\ x + y = (x + y - R) + R * 1 /\ x - y = (x - y + R) + R * (-1)
      /\ -x = (R - x) + R * (-1)
  BY <1>1
<1>3. \A z \in Int : 0 <= z /\ z < R => z % R = z
  BY <1>1, DivMod
<1>4. Plus(x, y) = x + y \/ Plus(x, y) = x + y - R
  <2>1. (x + y) % R = (x + y - R) % R
    <3>1. x + y - R \in Int /\ 1 \in Int
      BY <1>1
    <3> QED
      BY <1>2, <3>1, ModShift
  <2>2. CASE x + y < R
    <3>1. x + y \in Int /\ 0 <= x + y
      BY <1>1
    <3> QED
      BY <1>3, <2>2, <3>1 DEF Plus
  <2>3. CASE ~ (x + y < R)
    <3>1. x + y - R \in Int /\ 0 <= x + y - R /\ x + y - R < R
      BY <1>1, <2>3
    <3> QED
      BY <1>3, <2>1, <3>1 DEF Plus
  <2> QED
    BY <2>2, <2>3
<1>5. Minus(x, y) = x - y \/ Minus(x, y) = x - y + R
  <2>1. (x - y) % R = (x - y + R) % R
    <3>1. x - y + R \in Int /\ -1 \in Int
      BY <1>1
    <3> QED
      BY <1>2, <3>1, ModShift
  <2>2. CASE x < y
    <3>1. x - y + R \in Int /\ 0 <= x - y + R /\ x - y + R < R
      BY <1>1, <2>2
    <3> QED
      BY <1>3, <2>1, <3>1 DEF Minus
  <2>3. CASE ~ (x < y)
    <3>1. x - y \in Int /\ 0 <= x - y /\ x - y < R
      BY <1>1, <2>3
    <3> QED
      BY <1>3, <3>1 DEF Minus
  <2> QED
    BY <2>2, <2>3
<1>6. Negate(x) = -x \/ Negate(x) = R - x
  <2>1. (-x) % R = (R - x) % R
    <3>1. R - x \in Int /\ -1 \in Int
      BY <1>1
    <3> QED
      BY <1>2, <3>1, ModShift
  <2>2. CASE x = 0
    <3>1. -x \in Int /\ 0 <= -x /\ -x < R
      BY <1>1, <2>2
    <3> QED
      BY <1>3, <3>1 DEF Negate
  <2>3. CASE x # 0
    <3>1. R - x \in Int /\ 0 <= R - x /\ R - x < R
      BY <1>1, <2>3
    <3> QED
      BY <1>3, <2>1, <3>1 DEF Negate
  <2> QED
    BY <2>2, <2>3
<1> QED
  BY <1>4, <1>5, <1>6

(* d and a_bar differ by what the first relation commits to. *)
LEMMA FirstSum ==
  ASSUME NEW u \in Fr, NEW p \in Fr, NEW q \in Fr
  PROVE  Plus(Negate(p), q) = Minus(Minus(u, p), Plus(u, Negate(q)))
<1>1. PICK a \in Fr, b \in Fr : a = Negate(p) /\ b = Negate(q)
  BY ScalarTypes
<1>2. PICK e \in Fr, f \in Fr : e = Minus(u, p) /\ f = Plus(u, b)
  BY ScalarTypes
<1>3. PICK g \in Fr, h \in Fr : g = Plus(a, q) /\ h = Minus(e, f)
  BY ScalarTypes
<1>4. /\ a = -p \/ a = R - p
      /\ b = -q \/ b = R - q
      /\ e = u - p \/ e = u - p + R
      /\ f = u + b \/ f = u + b - R
      /\ g = a + q \/ g = a + q - R
      /\ h = e - f \/ h = e - f + R
  BY <1>1, <1>2, <1>3, Linear
<1>5. /\ R \in Int
      /\ u \in Int /\ p \in Int /\ q \in Int /\ a \in Int /\ b \in Int /\ e \in Int
      /\ f \in Int /\ g \in Int /\ h \in Int /\ 0 <= g /\ g < R /\ 0 <= h /\ h < R
  BY DivMod
<1>6. g = h
  BY ONLY <1>4, <1>5
<1> QED
  BY <1>1, <1>2, <1>3, <1>6

(* What d answers for cancels: the sum of the revealed part is left. *)
LEMMA SecondSum ==
  ASSUME NEW b \in Fr, NEW q \in Fr, NEW x \in Fr, NEW y \in Fr, NEW z \in Fr,
         b = Plus(Plus(One, x), Plus(y, z))
  PROVE  Plus(Plus(Negate(Minus(b, q)), Plus(Negate(q), x)), y) = Negate(Plus(One, z))
<1>1. PICK a \in Fr, d \in Fr : a = Minus(b, q) /\ d = Negate(q)
  BY ScalarTypes
<1>2. PICK e \in Fr, f \in Fr : e = Negate(a) /\ f = Plus(d, x)
  BY ScalarTypes
<1>3. PICK g \in Fr : g = Plus(e, f)
  BY ScalarTypes
<1>4. PICK h \in Fr : h = Plus(g, y)
  BY ScalarTypes
<1>5. One \in Fr /\ One = 1
  BY ScalarTypes DEF One
<1>6. PICK k \in Fr, l \in Fr, m \in Fr :
        k = Plus(One, x) /\ l = Plus(y, z) /\ m = Plus(One, z)
  BY <1>5, ScalarTypes
<1>7. PICK o \in Fr : o = Negate(m)
  BY ScalarTypes
<1>8. b = Plus(k, l)
  BY <1>6
<1>9. /\ a = b - q \/ a = b - q + R
      /\ d = -q \/ d = R - q
      /\ e = -a \/ e = R - a
      /\ f = d + x \/ f = d + x - R
      /\ g = e + f \/ g = e + f - R
      /\ h = g + y \/ h = g + y - R
  BY <1>1, <1>2, <1>3, <1>4, Linear
<1>10. /\ k = 1 + x \/ k = 1 + x - R
       /\ l = y + z \/ l = y + z - R
       /\ m = 1 + z \/ m = 1 + z - R
       /\ o = -m \/ o = R - m
       /\ b = k + l \/ b = k + l - R
  BY <1>5, <1>6, <1>7, <1>8, Linear
<1>11. /\ R \in Int
       /\ b \in Int /\ q \in Int /\ x \in Int /\ y \in Int /\ z \in Int /\ a \in Int
       /\ d \in Int /\ e \in Int /\ f \in Int /\ g \in Int /\ k \in Int /\ l \in Int
       /\ m \in Int /\ h \in Int /\ o \in Int /\ 0 <= h /\ h < R /\ 0 <= o /\ o < R
  BY DivMod
<1>12. h = o
  <2>1. PICK i \in {-3, -2, -1, 0, 1, 2, 3}, j \in {-2, -1, 0, 1, 2} :
           h = i * R - b + x + y /\ o = j * R - 1 - z
    BY ONLY <1>9, <1>10, <1>11
  <2>2. PICK t \in {-3, -2, -1, 0} : b = 1 + x + y + z + t * R
    BY ONLY <1>10, <1>11
  <2> QED
    BY ONLY <1>11, <2>1, <2>2
<1> QED
  BY <1>1, <1>2, <1>3, <1>4, <1>6, <1>7, <1>12

(* a' is to the secret key what a_bar is to the generator. *)
LEMMA PairingPart ==
  ASSUME NEW a \in Fr, NEW x \in Fr, NEW e \in Fr, NEW r \in Fr, NEW b \in Fr,
         Times(a, Plus(x, e)) = b
  PROVE  Times(Times(a, r), x) = Minus(Times(b, r), Times(Times(a, r), e))
<1>1. PICK p \in Fr, y \in Fr : p = Times(a, r) /\ y = Plus(x, e)
  BY ScalarTypes
<1>2. PICK u \in Fr, v \in Fr : u = Times(p, x) /\ v = Times(p, e)
  BY ScalarTypes
<1>3. Times(p, y) = Plus(u, v)
  BY <1>1, <1>2, Distributes
<1>4. Times(p, y) = Times(b, r)
  <2>1. p = Times(r, a)
    BY <1>1, Commutes
  <2>2. Times(Times(r, a), y) = Times(r, Times(a, y))
    BY Associates
  <2> QED
    BY <1>1, <2>1, <2>2, Commutes
<1>5. Minus(Plus(u, v), v) = u
  BY MinusIsPlus
<1> QED
  BY <1>1, <1>2, <1>3, <1>4, <1>5

(* d divided by r is b less what hides it. *)
LEMMA DividesBack ==
  ASSUME NEW b \in Fr, NEW r \in Fr, r # 0, NEW h \in Fr, NEW g \in Fr
  PROVE  LET i == Inverse1(r)
             q == Times(h, Times(g, i))
         IN  /\ i \in Fr /\ q \in Fr
             /\ Times(Plus(Times(b, r), Negate(Times(h, g))), Negate(i)) = Negate(Minus(b, q))
<1>1. PICK i \in Fr : i = Inverse1(r) /\ Times(r, i) = One
  BY Inverts
<1>2. PICK u \in Fr, v \in Fr : u = Times(b, r) /\ v = Times(h, g)
  BY ScalarTypes
<1>3. PICK f \in Fr, q \in Fr : f = Times(g, i) /\ q = Times(h, f)
  BY ScalarTypes
<1>4. Times(u, i) = b
  BY <1>1, <1>2, Associates, Neutral
<1>5. Times(v, i) = q
  BY <1>2, <1>3, Associates
<1>6. Plus(u, Negate(v)) = Minus(u, v)
  BY MinusIsPlus
<1>7. PICK d \in Fr : d = Minus(u, v)
  BY ScalarTypes
<1>8. Times(d, i) = Minus(b, q)
  <2>1. Times(i, d) = Minus(Times(i, u), Times(i, v))
    BY <1>7, Distributes
  <2>2. Times(i, u) = b /\ Times(i, v) = q /\ Times(i, d) = Times(d, i)
    BY <1>4, <1>5, Commutes
  <2> QED
    BY <2>1, <2>2
<1>9. Times(d, Negate(i)) = Negate(Times(d, i))
  BY Distributes
<1> QED
  BY <1>1, <1>2, <1>3, <1>6, <1>7, <1>8, <1>9

Messages(pms) == [i \in DOMAIN pms |-> GetMessage(pms[i])]

(* A signature of the messages pms, and draws enough for a proof of it. *)
Provable(sig, pms, draws, vk, sk, n) ==
  /\ GoodKey(vk, sk, n)
  /\ DOMAIN pms = 0..(n - 1)
  /\ \A i \in 0..(n - 1) : pms[i].m \in Fr /\ pms[i].blinding \in Fr
  /\ SignedFor(sig, Messages(pms), vk, sk)
  /\ draws \in Seq(Fr \ {0}) /\ Len(draws) >= n + 6

(* The randomized signature pairs, and satisfies the first relation. *)
LEMMA Randomizes ==
  ASSUME NEW sig, NEW pms, NEW draws, NEW vk, NEW sk, NEW n,
         Provable(sig, pms, draws, vk, sk, n)
  PROVE  LET b == ComputeB(sig.s, Messages(pms), vk)
             rz == Randomized(sig, vk, Messages(pms), draws[1], draws[2])
         IN  /\ b \in Fr /\ rz.a_prime \in Fr \ {0} /\ rz.a_bar \in Fr /\ rz.d \in Fr
             /\ PairingHolds(rz.a_prime, vk.w, rz.a_bar)
             /\ Plus(Times(rz.a_prime, Negate(sig.e)), Times(vk.h0, draws[2]))
                  = Minus(rz.a_bar, rz.d)
             /\ rz.d = Plus(Times(b, draws[1]), Negate(Times(vk.h0, draws[2])))
<1> DEFINE m == Messages(pms)
           rz == Randomized(sig, vk, m, draws[1], draws[2])
<1>1. /\ GoodKey(vk, sk, n) /\ SignedFor(sig, m, vk, sk)
      /\ DOMAIN m = 0..(n - 1) /\ \A i \in 0..(n - 1) : m[i] \in Fr
  BY DEF Provable, Messages, GetMessage
<1>2. PICK b \in Fr : b = ComputeB(sig.s, m, vk)
  <2>1. sig.s \in Fr
    BY <1>1 DEF SignedFor
  <2> QED
    BY <1>1, <2>1, ComputeBIs
<1>3. PICK x \in Fr, h \in Fr, e \in Fr : x = sk /\ vk.w = x /\ h = vk.h0 /\ e = sig.e
  BY <1>1 DEF GoodKey, SignedFor
<1>4. PICK a \in Fr : a = sig.a /\ a # 0 /\ Times(a, Plus(x, e)) = b
  <2>1. sig.a \in Fr \ {0} /\ Times(sig.a, Plus(sk, sig.e)) = ComputeB(sig.s, m, vk)
    BY ONLY <1>1, SignedVerifies
  <2> QED
    BY <1>2, <1>3, <2>1
<1>5. PICK r \in Fr, g \in Fr : r = draws[1] /\ g = draws[2] /\ r # 0
  <2>1. n \in Nat /\ draws \in Seq(Fr \ {0}) /\ Len(draws) >= n + 6
    BY DEF Provable, GoodKey
  <2>2. 1 \in 1..Len(draws) /\ 2 \in 1..Len(draws)
    BY <2>1
  <2> QED
    BY <2>1, <2>2
<1>6. PICK p \in Fr : p = Times(a, r)
  BY ScalarTypes
<1>7. p # 0
  <2>1. Times(r, a) = p
    BY <1>6, Commutes
  <2> QED
    BY <1>4, <1>5, <2>1, NoZeroDivisors DEF Zero
<1>8. PICK u \in Fr, v \in Fr, w \in Fr :
         u = Times(b, r) /\ v = Times(p, e) /\ w = Times(h, g)
  BY ScalarTypes
<1>9. PICK d \in Fr : d = Plus(u, Negate(w))
  BY ScalarTypes
<1>10. PICK l \in Fr : l = Minus(u, v)
  BY ScalarTypes
<1>11. rz.a_prime = p /\ rz.a_bar = l /\ rz.d = d
  <2>1. Finalize(Add(Add(Builder, b, r), h, Negate(g))) = d
    <3>1. PICK k \in Fr : k = Negate(g)
      BY ScalarTypes
    <3>2. Append(Append(<< >>, b), h) = <<b, h>> /\ Append(Append(<< >>, r), k) = <<r, k>>
      <4>1. Append(<< >>, b) = <<b>> /\ Append(<< >>, r) = <<r>>
        OBVIOUS
      <4>2. /\ <<b>> \in Seq(Fr) /\ <<r>> \in Seq(Fr)
        OBVIOUS
      <4>3. Append(<<b>>, h) = <<b>> \o <<h>> /\ Append(<<r>>, k) = <<r>> \o <<k>>
        BY <4>2, AppendIsConcat
      <4> QED
        BY <4>1, <4>3, Pair
    <3>3. Finalize(Add(Add(Builder, b, r), h, k)) = MultiScalarMul(<<b, h>>, <<r, k>>)
      BY <3>2 DEF Finalize, Add, Builder
    <3>4. MultiScalarMul(<<b, h>>, <<r, k>>) = Plus(u, Times(h, k))
      BY <1>8, ProductPair
    <3>5. Times(h, k) = Negate(w)
      BY <1>8, <3>1, Distributes
    <3> QED
      BY <1>9, <3>1, <3>3, <3>4, <3>5
  <2>2. rz = [a_prime |-> p, a_bar |-> l, d |-> d]
    BY <1>2, <1>3, <1>4, <1>5, <1>6, <1>8, <1>10, <2>1 DEF Randomized
  <2> QED
    BY <2>2
<1> HIDE DEF rz
<1>12. Times(p, x) = l
  BY <1>4, <1>6, <1>8, <1>10, PairingPart
<1>13. Plus(Times(p, Negate(e)), w) = Minus(l, d)
  <2>1. Times(p, Negate(e)) = Negate(v)
    BY <1>8, Distributes
  <2>2. Plus(Negate(v), w) = Minus(Minus(u, v), Plus(u, Negate(w)))
    BY FirstSum
  <2> QED
    BY <1>9, <1>10, <2>1, <2>2
<1> QED
  BY <1>2, <1>3, <1>5, <1>7, <1>8, <1>9, <1>11, <1>12, <1>13 DEF PairingHolds, rz

(* A sum with a pair put before the rest is what the second relation needs. *)
LEMMA RelationSum ==
  ASSUME NEW b \in Fr, NEW r \in Fr, r # 0, NEW h \in Fr, NEW g \in Fr, NEW s \in Fr,
         NEW y \in Fr, NEW z \in Fr,
         b = Plus(Plus(One, Times(h, s)), Plus(y, z)),
         NEW d, d = Plus(Times(b, r), Negate(Times(h, g))),
         NEW i, i = Inverse1(r)
  PROVE  /\ i \in Fr /\ Negate(i) \in Fr /\ Plus(Negate(Times(g, i)), s) \in Fr
         /\ Plus(Plus(Times(d, Negate(i)), Times(h, Plus(Negate(Times(g, i)), s))), y)
              = Negate(Plus(One, z))
<1>1. i \in Fr /\ Times(d, Negate(i)) = Negate(Minus(b, Times(h, Times(g, i))))
  BY DividesBack
<1>2. PICK f \in Fr : f = Times(g, i)
  BY <1>1, ScalarTypes
<1>3. PICK q \in Fr, x \in Fr : q = Times(h, f) /\ x = Times(h, s)
  BY ScalarTypes
<1>4. PICK k \in Fr : k = Negate(f)
  BY ScalarTypes
<1>5. Times(h, Plus(k, s)) = Plus(Negate(q), x)
  <2>1. Times(h, Plus(k, s)) = Plus(Times(h, k), Times(h, s))
    BY Distributes
  <2>2. Times(h, k) = Negate(Times(h, f))
    BY <1>4, Distributes
  <2> QED
    BY <1>3, <2>1, <2>2
<1>6. Plus(Plus(Negate(Minus(b, q)), Plus(Negate(q), x)), y) = Negate(Plus(One, z))
  BY <1>3, SecondSum
<1>7. Negate(i) \in Fr /\ Plus(k, s) \in Fr
  BY <1>1, ScalarTypes
<1> QED
  BY <1>1, <1>2, <1>3, <1>4, <1>5, <1>6, <1>7

(* What the proof of the first relation is made of. *)
LEMMA FirstRelation ==
  ASSUME NEW sig, NEW pms, NEW draws, NEW vk, NEW sk, NEW n,
         Provable(sig, pms, draws, vk, sk, n),
         NEW rz, rz = Randomized(sig, vk, Messages(pms), draws[1], draws[2])
  PROVE  LET b == <<rz.a_prime, vk.h0>>
             v == <<Negate(sig.e), draws[2]>>
         IN  /\ Together(b, SubSeq(draws, 3, 4), v)
             /\ MultiScalarMul(b, v) = Minus(rz.a_bar, rz.d)
<1>1. /\ rz.a_prime \in Fr
      /\ Plus(Times(rz.a_prime, Negate(sig.e)), Times(vk.h0, draws[2])) = Minus(rz.a_bar, rz.d)
  BY Randomizes
<1>2. vk.h0 \in Fr /\ sig.e \in Fr /\ n \in Nat /\ draws \in Seq(Fr) /\ Len(draws) >= n + 6
  <2>1. Fr \ {0} \subseteq Fr
    OBVIOUS
  <2> QED
    BY <2>1 DEF Provable, GoodKey, SignedFor
<1>3. PICK a \in Fr, h \in Fr, e \in Fr : a = rz.a_prime /\ h = vk.h0 /\ e = Negate(sig.e)
  BY <1>1, <1>2, ScalarTypes
<1>4. 2 \in 1..Len(draws) /\ 3 \in 1..Len(draws) /\ 4 \in 1..Len(draws)
  BY <1>2
<1>5. PICK g \in Fr : g = draws[2]
  BY <1>2, <1>4
<1>6. SubSeq(draws, 3, 4) \in Seq(Fr) /\ Len(SubSeq(draws, 3, 4)) = 2
  BY <1>2, <1>4, SubSeqProperties
<1>7. <<a, h>> \in Seq(Fr) /\ <<e, g>> \in Seq(Fr) /\ Len(<<a, h>>) = 2 /\ Len(<<e, g>>) = 2
  OBVIOUS
<1>8. MultiScalarMul(<<a, h>>, <<e, g>>) = Plus(Times(a, e), Times(h, g))
  BY ProductPair
<1> QED
  BY <1>1, <1>3, <1>5, <1>6, <1>7, <1>8 DEF Together

(* The blinding factors of the hidden messages. *)
Blind(pms, blindings) ==
  LET I == InOrder(Hidden(pms))
  IN  [k \in DOMAIN I |-> IF pms[I[k]].kind = "external"
                          THEN pms[I[k]].blinding ELSE blindings[k + 2]]

(* Each hidden message has its blinding at its position. *)
LEMMA BlindType ==
  ASSUME NEW sig, NEW pms, NEW draws, NEW vk, NEW sk, NEW n,
         Provable(sig, pms, draws, vk, sk, n)
  PROVE  LET T == Hidden(pms)
             blindings == SubSeq(draws, 5, Len(draws))
         IN  /\ T \in SUBSET (0..(n - 1)) /\ Revealed(pms) \in SUBSET (0..(n - 1))
             /\ Parts(n, Revealed(pms), T, 0..(n - 1))
             /\ T \subseteq Int /\ IsFiniteSet(T) /\ Cardinality(T) \in Nat
             /\ SubSeq(blindings, 1, 2) \in Seq(Fr) /\ Len(SubSeq(blindings, 1, 2)) = 2
             /\ Blind(pms, blindings) \in Seq(Fr) /\ Len(Blind(pms, blindings)) = Cardinality(T)
             /\ \A i \in T : /\ Rank(T, i) \in 1..Cardinality(T)
                             /\ pms[i].kind = "external" =>
                                  Blind(pms, blindings)[Rank(T, i)] = pms[i].blinding
<1> DEFINE T == Hidden(pms)
           w == SubSeq(draws, 5, Len(draws))
<1>1. /\ n \in Nat /\ GoodKey(vk, sk, n) /\ DOMAIN pms = 0..(n - 1)
      /\ \A i \in 0..(n - 1) : pms[i].blinding \in Fr
      /\ draws \in Seq(Fr \ {0}) /\ Len(draws) >= n + 6
  BY DEF Provable, GoodKey
<1>2. draws \in Seq(Fr) /\ Len(draws) \in Nat
  BY <1>1
<1>3. /\ T \in SUBSET (0..(n - 1)) /\ Revealed(pms) \in SUBSET (0..(n - 1))
      /\ Parts(n, Revealed(pms), T, 0..(n - 1))
  BY <1>1 DEF Parts, Hidden, Revealed
<1>4. PICK c \in Nat : /\ T \subseteq Int /\ IsFiniteSet(T) /\ c = Cardinality(T) /\ c <= n
  BY <1>1, <1>3, GoodKeyFacts
<1>5. /\ w \in Seq(Fr) /\ Len(w) = Len(draws) - 4
  <2>1. 5 \in 1..(Len(draws) + 1) /\ Len(draws) \in 4..Len(draws)
    BY <1>1, <1>2
  <2> QED
    BY <1>1, <1>2, <2>1, SubSeqProperties
<1> HIDE DEF w
<1>6. SubSeq(w, 1, 2) \in Seq(Fr) /\ Len(SubSeq(w, 1, 2)) = 2
  <2>1. 1 \in 1..(Len(w) + 1) /\ 2 \in 0..Len(w)
    BY <1>1, <1>2, <1>5
  <2> QED
    BY <1>5, <2>1, SubSeqProperties
<1>7. /\ DOMAIN InOrder(T) = 1..c /\ \A k \in 1..c : InOrder(T)[k] \in T
      /\ \A i \in T : Rank(T, i) \in 1..c /\ InOrder(T)[Rank(T, i)] = i
  BY <1>4, InOrderEnumerates
<1>8. \A k \in 1..c : w[k + 2] \in Fr
  <2>1. \A k \in 1..c : k + 2 \in 1..Len(w)
    BY <1>1, <1>2, <1>4, <1>5
  <2> QED
    BY <1>5, <2>1
<1> HIDE DEF T
<1>9. Blind(pms, w) = [k \in 1..c |-> IF pms[InOrder(T)[k]].kind = "external"
                                      THEN pms[InOrder(T)[k]].blinding ELSE w[k + 2]]
  BY <1>7 DEF Blind, T
<1>10. \A k \in 1..c : Blind(pms, w)[k] \in Fr
  <2> TAKE k \in 1..c
  <2>1. pms[InOrder(T)[k]].blinding \in Fr /\ w[k + 2] \in Fr
    BY <1>1, <1>3, <1>7, <1>8
  <2> QED
    BY <1>9, <2>1
<1>11. Blind(pms, w) \in Seq(Fr) /\ Len(Blind(pms, w)) = c
  <2>1. Blind(pms, w) = [k \in 1..c |-> Blind(pms, w)[k]]
    BY <1>9
  <2> QED
    BY <1>10, <2>1
<1>12. \A i \in T : Rank(T, i) \in 1..c
                    /\ (pms[i].kind = "external" => Blind(pms, w)[Rank(T, i)] = pms[i].blinding)
  <2> TAKE i \in T
  <2>1. Rank(T, i) \in 1..c /\ InOrder(T)[Rank(T, i)] = i
    BY <1>7
  <2> QED
    BY <1>9, <2>1
<1> QED
  BY <1>3, <1>4, <1>6, <1>11, <1>12 DEF T, w

(* Two pairs, and what they are put before. *)
Two(x, y, u, v, b, s) ==
  /\ x \in Fr /\ y \in Fr /\ u \in Fr /\ v \in Fr
  /\ b \in Seq(Fr) /\ s \in Seq(Fr) /\ Len(b) = Len(s)

TwoHead(x, y, u, v, b, s) ==
  /\ <<x, y>> \o b \in Seq(Fr) /\ <<u, v>> \o s \in Seq(Fr)
  /\ Len(<<x, y>> \o b) = Len(b) + 2 /\ Len(<<u, v>> \o s) = Len(b) + 2
  /\ MultiScalarMul(<<x, y>> \o b, <<u, v>> \o s)
       = Plus(Plus(Times(x, u), Times(y, v)), MultiScalarMul(b, s))

(* (By ProductTwoHeads, as one fact.) *)
LEMMA TwoHeads ==
  ASSUME NEW x, NEW y, NEW u, NEW v, NEW b, NEW s, Two(x, y, u, v, b, s)
  PROVE  TwoHead(x, y, u, v, b, s)
BY ProductTwoHeads DEF Two, TwoHead

(* What the proof of the second relation is made of: its bases, blinding factors
   and secrets. *)
SecondParts(sig, pms, draws, vk, rz, w, i, bases, factors, secrets) ==
  /\ rz = Randomized(sig, vk, Messages(pms), draws[1], draws[2])
  /\ w = SubSeq(draws, 5, Len(draws)) /\ i = Inverse1(draws[1])
  /\ bases = <<rz.d, vk.h0>> \o Along(vk.h, Hidden(pms))
  /\ factors = SubSeq(w, 1, 2) \o Blind(pms, w)
  /\ secrets = <<Negate(i), Plus(Negate(Times(draws[2], i)), sig.s)>>
                  \o Along(Messages(pms), Hidden(pms))

SecondProduct(pms, vk, bases, factors, secrets) ==
  /\ Together(bases, factors, secrets) /\ Len(bases) = Cardinality(Hidden(pms)) + 2
  /\ MultiScalarMul(bases, secrets)
       = Negate(MultiScalarMul(<<One>> \o Along(vk.h, Revealed(pms)),
                               <<One>> \o Along(Messages(pms), Revealed(pms))))

(* The product is the one the verifier computes from the messages revealed. *)
LEMMA SecondRelation ==
  ASSUME NEW sig, NEW pms, NEW draws, NEW vk, NEW sk, NEW n,
         Provable(sig, pms, draws, vk, sk, n),
         NEW rz, NEW w, NEW i, NEW bases, NEW factors, NEW secrets,
         SecondParts(sig, pms, draws, vk, rz, w, i, bases, factors, secrets)
  PROVE  SecondProduct(pms, vk, bases, factors, secrets)
<1> PICK S, T : S = Revealed(pms) /\ T = Hidden(pms)
  OBVIOUS
<1> /\ rz = Randomized(sig, vk, Messages(pms), draws[1], draws[2])
    /\ w = SubSeq(draws, 5, Len(draws)) /\ i = Inverse1(draws[1])
    /\ bases = <<rz.d, vk.h0>> \o Along(vk.h, T)
    /\ factors = SubSeq(w, 1, 2) \o Blind(pms, w)
    /\ secrets = <<Negate(i), Plus(Negate(Times(draws[2], i)), sig.s)>>
                    \o Along(Messages(pms), T)
  BY DEF SecondParts
<1> DEFINE m == Messages(pms)
<1>1. /\ GoodKey(vk, sk, n) /\ n \in Nat /\ DOMAIN m = 0..(n - 1)
      /\ \A j \in 0..(n - 1) : m[j] \in Fr /\ vk.h[j] \in Fr
  BY DEF Provable, Messages, GetMessage, GoodKey
<1>2. /\ S \in SUBSET (0..(n - 1)) /\ T \in SUBSET (0..(n - 1))
      /\ Parts(n, S, T, 0..(n - 1))
      /\ SubSeq(w, 1, 2) \in Seq(Fr) /\ Len(SubSeq(w, 1, 2)) = 2
      /\ Blind(pms, w) \in Seq(Fr) /\ Len(Blind(pms, w)) = Cardinality(T)
      /\ Cardinality(T) \in Nat
  BY BlindType
<1>3. PICK b \in Fr, d \in Fr :
        /\ b = ComputeB(sig.s, m, vk) /\ d = rz.d
        /\ d = Plus(Times(b, draws[1]), Negate(Times(vk.h0, draws[2])))
  BY Randomizes
<1>4. PICK h \in Fr, s \in Fr : h = vk.h0 /\ s = sig.s
  BY DEF Provable, GoodKey, SignedFor
<1>5. PICK r \in Fr, g \in Fr : r = draws[1] /\ g = draws[2] /\ r # 0
  <2>1. draws \in Seq(Fr \ {0}) /\ Len(draws) >= n + 6
    BY DEF Provable
  <2>2. 1 \in 1..Len(draws) /\ 2 \in 1..Len(draws)
    BY <1>1, <2>1
  <2> QED
    BY <2>1, <2>2
<1>6. /\ Along(vk.h, T) \in Seq(Fr) /\ Along(m, T) \in Seq(Fr)
      /\ Len(Along(vk.h, T)) = Cardinality(T) /\ Len(Along(m, T)) = Cardinality(T)
      /\ Along(vk.h, S) \in Seq(Fr) /\ Along(m, S) \in Seq(Fr)
      /\ Len(Along(vk.h, S)) = Len(Along(m, S))
  <2>1. (\A j \in T : m[j] \in Fr) /\ (\A j \in S : m[j] \in Fr)
    BY <1>1, <1>2
  <2> HIDE DEF m
  <2> QED
    BY <1>1, <1>2, <2>1, GoodKeyFacts
<1> HIDE DEF m
<1>7. PICK y \in Fr, z \in Fr : y = Dot(vk, m, T) /\ z = Dot(vk, m, S)
  <2>1. (\A j \in T : m[j] \in Fr) /\ (\A j \in S : m[j] \in Fr)
    BY <1>1, <1>2
  <2> QED
    BY <1>1, <1>2, <2>1, GoodKeyFacts
<1>8. b = Plus(Plus(One, Times(h, s)), Plus(y, z))
  <2>1. b = Plus(Plus(One, Times(h, s)), Dot(vk, m, 0..(n - 1)))
    BY <1>1, <1>3, <1>4, ComputeBIs
  <2>2. Dot(vk, m, 0..(n - 1)) = Plus(z, y)
    <3>1. n \in Nat /\ Parts(n, S, T, 0..(n - 1))
          /\ \A j \in 0..(n - 1) : vk.h[j] \in Fr /\ m[j] \in Fr
      BY <1>1, <1>2
    <3>2. MultiScalarMul(Along(vk.h, 0..(n - 1)), Along(m, 0..(n - 1)))
            = Plus(MultiScalarMul(Along(vk.h, S), Along(m, S)),
                   MultiScalarMul(Along(vk.h, T), Along(m, T)))
      BY ONLY <3>1, SumOfParts
    <3> QED
      BY <1>7, <3>2 DEF Dot
  <2>3. Plus(z, y) = Plus(y, z)
    BY Commutes
  <2> QED
    BY <2>1, <2>2, <2>3
<1>9. PICK k \in Fr, l \in Fr :
        /\ k = Negate(i) /\ l = Plus(Negate(Times(g, i)), s)
        /\ Plus(Plus(Times(d, k), Times(h, l)), y) = Negate(Plus(One, z))
  <2>1. d = Plus(Times(b, r), Negate(Times(h, g))) /\ i = Inverse1(r)
    BY <1>3, <1>4, <1>5
  <2>2. /\ i \in Fr /\ Negate(i) \in Fr /\ Plus(Negate(Times(g, i)), s) \in Fr
        /\ Plus(Plus(Times(d, Negate(i)), Times(h, Plus(Negate(Times(g, i)), s))), y)
             = Negate(Plus(One, z))
    <3>1. /\ b \in Fr /\ r \in Fr /\ h \in Fr /\ g \in Fr /\ s \in Fr /\ y \in Fr /\ z \in Fr
          /\ r # 0
      BY <1>5
    <3> QED
      BY ONLY <1>8, <2>1, <3>1, RelationSum
  <2> QED
    BY <2>2
<1>10. PICK p, q : p = Along(vk.h, T) /\ q = Along(m, T)
  OBVIOUS
<1>11. /\ <<d, h>> \o p \in Seq(Fr) /\ <<k, l>> \o q \in Seq(Fr)
       /\ Len(<<d, h>> \o p) = Cardinality(T) + 2 /\ Len(<<k, l>> \o q) = Cardinality(T) + 2
       /\ MultiScalarMul(<<d, h>> \o p, <<k, l>> \o q)
            = Plus(Plus(Times(d, k), Times(h, l)), MultiScalarMul(p, q))
  <2>1. p \in Seq(Fr) /\ q \in Seq(Fr) /\ Len(p) = Len(q) /\ Len(p) = Cardinality(T)
    BY <1>6, <1>10
  <2>2. Two(d, h, k, l, p, q)
    BY <2>1 DEF Two
  <2>3. /\ <<d, h>> \o p \in Seq(Fr) /\ <<k, l>> \o q \in Seq(Fr)
        /\ Len(<<d, h>> \o p) = Len(p) + 2 /\ Len(<<k, l>> \o q) = Len(p) + 2
        /\ MultiScalarMul(<<d, h>> \o p, <<k, l>> \o q)
             = Plus(Plus(Times(d, k), Times(h, l)), MultiScalarMul(p, q))
    BY <2>2, TwoHeads DEF TwoHead
  <2> QED
    BY <2>1, <2>3
<1>12. MultiScalarMul(p, q) = y
  BY <1>7, <1>10 DEF Dot
<1>13. MultiScalarMul(<<One>> \o Along(vk.h, S), <<One>> \o Along(m, S)) = Plus(One, z)
  <2>1. One \in Fr /\ Times(One, One) = One
    BY ScalarTypes, Neutral
  <2> QED
    BY <1>6, <1>7, <2>1, ProductHead DEF Dot
<1>14. /\ SubSeq(w, 1, 2) \o Blind(pms, w) \in Seq(Fr)
       /\ Len(SubSeq(w, 1, 2) \o Blind(pms, w)) = Cardinality(T) + 2
  <2>1. PICK e \in Seq(Fr), f \in Seq(Fr) : e = SubSeq(w, 1, 2) /\ f = Blind(pms, w)
    BY <1>2
  <2>2. e \o f \in Seq(Fr) /\ Len(e \o f) = Len(e) + Len(f)
    BY ONLY <2>1, ConcatProperties
  <2>3. Len(e) = 2 /\ Len(f) = Cardinality(T) /\ Cardinality(T) \in Int
    BY <1>2, <2>1
  <2>4. Len(e) + Len(f) = Cardinality(T) + 2
    BY <2>3
  <2> QED
    BY <2>1, <2>2, <2>4
<1> QED
  BY <1>3, <1>4, <1>5, <1>9, <1>10, <1>11, <1>12, <1>13, <1>14
     DEF Together, SecondProduct, m

(* Prover and verifier spell the same string in different pieces. *)
Spelled(a, b, h, x, d, y, p, q) ==
  <<a>> \o Append(<<b, h>>, x) \o Append(q, y) = <<a, b, h, x, d, h>> \o p \o <<y>>

(* (The concatenations associate.) *)
LEMMA SameBytes ==
  ASSUME NEW a \in Fr, NEW b \in Fr, NEW h \in Fr, NEW x \in Fr, NEW d \in Fr, NEW y \in Fr,
         NEW p \in Seq(Fr), NEW q, q = <<d, h>> \o p
  PROVE  Spelled(a, b, h, x, d, y, p, q)
<1> SUFFICES <<a>> \o Append(<<b, h>>, x) \o Append(q, y) = <<a, b, h, x, d, h>> \o p \o <<y>>
  BY DEF Spelled
<1>1. PICK r, s, t, z, f :
        /\ r = <<a>> /\ s = Append(<<b, h>>, x) /\ t = <<d, h>> /\ z = <<y>>
        /\ f = <<a, b, h, x, d, h>>
  OBVIOUS
<1>2. /\ r \in Seq(Fr) /\ Len(r) = 1 /\ r[1] = a
      /\ t \in Seq(Fr) /\ Len(t) = 2 /\ t[1] = d /\ t[2] = h
      /\ z \in Seq(Fr)
      /\ f \in Seq(Fr) /\ Len(f) = 6
      /\ f[1] = a /\ f[2] = b /\ f[3] = h /\ f[4] = x /\ f[5] = d /\ f[6] = h
  BY <1>1
<1>3. s \in Seq(Fr) /\ Len(s) = 3 /\ s[1] = b /\ s[2] = h /\ s[3] = x
  <2>1. PICK g : g = <<b, h>>
    OBVIOUS
  <2>2. g \in Seq(Fr) /\ Len(g) = 2 /\ g[1] = b /\ g[2] = h /\ s = Append(g, x)
    BY <1>1, <2>1
  <2>3. /\ s \in Seq(Fr) /\ Len(s) = Len(g) + 1 /\ s[Len(g) + 1] = x
        /\ \A k \in 1..Len(g) : s[k] = g[k]
    <3>1. g \in Seq(Fr) /\ x \in Fr
      BY <2>2
    <3>2. /\ Append(g, x) \in Seq(Fr) /\ Len(Append(g, x)) = Len(g) + 1
          /\ Append(g, x)[Len(g) + 1] = x
          /\ \A k \in 1..Len(g) : Append(g, x)[k] = g[k]
      BY ONLY <3>1, AppendProperties
    <3> QED
      BY <2>2, <3>2
  <2> QED
    BY <2>2, <2>3
<1>4. PICK e : e = r \o s
  OBVIOUS
<1>5. /\ e \in Seq(Fr) /\ Len(e) = 4
      /\ e[1] = a /\ e[2] = b /\ e[3] = h /\ e[4] = x
  <2>1. /\ e \in Seq(Fr) /\ Len(e) = Len(r) + Len(s)
        /\ \A k \in 1..(Len(r) + Len(s)) : e[k] = IF k <= Len(r) THEN r[k] ELSE s[k - Len(r)]
    BY <1>2, <1>3, <1>4, ConcatProperties
  <2>2. Len(e) = 4 /\ \A k \in 1..4 : e[k] = IF k <= 1 THEN r[k] ELSE s[k - 1]
    BY <1>2, <1>3, <2>1
  <2>3. e[1] = r[1] /\ e[2] = s[2 - 1] /\ e[3] = s[3 - 1] /\ e[4] = s[4 - 1]
    BY <2>2
  <2>4. 2 - 1 = 1 /\ 3 - 1 = 2 /\ 4 - 1 = 3
    OBVIOUS
  <2> QED
    BY <1>2, <1>3, <2>1, <2>2, <2>3, <2>4
<1>6. e \o t = f
  <2>1. PICK g : g = e \o t
    OBVIOUS
  <2>2. /\ g \in Seq(Fr) /\ Len(g) = Len(e) + Len(t)
        /\ \A k \in 1..(Len(e) + Len(t)) : g[k] = IF k <= Len(e) THEN e[k] ELSE t[k - Len(e)]
    BY <1>2, <1>5, <2>1, ConcatProperties
  <2>3. Len(g) = 6 /\ \A k \in 1..6 : g[k] = IF k <= 4 THEN e[k] ELSE t[k - 4]
    BY <1>2, <1>5, <2>2
  <2>4. /\ g[1] = e[1] /\ g[2] = e[2] /\ g[3] = e[3] /\ g[4] = e[4]
        /\ g[5] = t[5 - 4] /\ g[6] = t[6 - 4]
    BY <2>3
  <2>5. 5 - 4 = 1 /\ 6 - 4 = 2
    OBVIOUS
  <2>6. \A k \in 1..6 : k = 1 \/ k = 2 \/ k = 3 \/ k = 4 \/ k = 5 \/ k = 6
    OBVIOUS
  <2>7. \A k \in 1..6 : g[k] = f[k]
    BY <1>2, <1>5, <2>4, <2>5, <2>6
  <2> QED
    BY <1>2, <2>1, <2>2, <2>3, <2>7, SeqEqual
<1>7. q \in Seq(Fr) /\ q = t \o p
  <2>1. t \o p \in Seq(Fr)
    BY <1>2, ConcatProperties
  <2> QED
    BY <1>1, <2>1
<1>8. Append(q, y) = q \o z
  BY <1>1, <1>7, AppendIsConcat
<1>9. (e \o q) \o z = e \o (q \o z)
  <2>1. e \in Seq(Fr) /\ q \in Seq(Fr) /\ z \in Seq(Fr)
    BY <1>2, <1>5, <1>7
  <2> QED
    BY ONLY <2>1, ConcatAssociative
<1>10. (e \o t) \o p = e \o (t \o p)
  <2>1. e \in Seq(Fr) /\ t \in Seq(Fr) /\ p \in Seq(Fr)
    BY <1>2, <1>5
  <2> QED
    BY ONLY <2>1, ConcatAssociative
<1> QED
  BY <1>1, <1>4, <1>6, <1>7, <1>8, <1>9, <1>10

Second(sig, pms, draws, vk) ==
  LET m == Messages(pms)
      i == Inverse1(draws[1])
      w == SubSeq(draws, 5, Len(draws))
      S == Revealed(pms)
      T == Hidden(pms)
      rz == Randomized(sig, vk, m, draws[1], draws[2])
      b == <<rz.d, vk.h0>> \o Along(vk.h, T)
      u == SubSeq(w, 1, 2) \o Blind(pms, w)
      v == <<Negate(i), Plus(Negate(Times(draws[2], i)), sig.s)>> \o Along(m, T)
  IN  /\ Together(b, u, v) /\ Len(b) = Cardinality(T) + 2
      /\ MultiScalarMul(b, v)
           = Negate(MultiScalarMul(<<One>> \o Along(vk.h, S), <<One>> \o Along(m, S)))

(* (From its parts and its product.) *)
LEMMA SecondHolds ==
  ASSUME NEW sig, NEW pms, NEW draws, NEW vk, NEW sk, NEW n,
         Provable(sig, pms, draws, vk, sk, n)
  PROVE  Second(sig, pms, draws, vk)
<1>1. PICK i, w, rz :
        /\ i = Inverse1(draws[1]) /\ w = SubSeq(draws, 5, Len(draws))
        /\ rz = Randomized(sig, vk, Messages(pms), draws[1], draws[2])
  OBVIOUS
<1>2. PICK b, u, v :
        /\ b = <<rz.d, vk.h0>> \o Along(vk.h, Hidden(pms))
        /\ u = SubSeq(w, 1, 2) \o Blind(pms, w)
        /\ v = <<Negate(i), Plus(Negate(Times(draws[2], i)), sig.s)>>
                 \o Along(Messages(pms), Hidden(pms))
  OBVIOUS
<1>3. SecondParts(sig, pms, draws, vk, rz, w, i, b, u, v)
  BY <1>1, <1>2 DEF SecondParts
<1>4. SecondProduct(pms, vk, b, u, v)
  BY <1>3, SecondRelation
<1> QED
  BY <1>1, <1>2, <1>4 DEF Second, SecondProduct

(* A commitment to a signature: its parts, and the proofs made of them. *)
Committed(pok, sig, pms, draws, vk, c) ==
  LET m == Messages(pms)
      i == Inverse1(draws[1])
      w == SubSeq(draws, 5, Len(draws))
      T == Hidden(pms)
      rz == Randomized(sig, vk, m, draws[1], draws[2])
      b1 == <<rz.a_prime, vk.h0>>
      u1 == SubSeq(draws, 3, 4)
      v1 == <<Negate(sig.e), draws[2]>>
      b2 == <<rz.d, vk.h0>> \o Along(vk.h, T)
      u2 == SubSeq(w, 1, 2) \o Blind(pms, w)
      v2 == <<Negate(i), Plus(Negate(Times(draws[2], i)), sig.s)>> \o Along(m, T)
  IN  /\ pok.rz = rz /\ pok.revealed_messages = RevealedMessages(pms)
      /\ pok.vc_1 = [pok |-> Finish(CommitAll(Committing, b1, u1)), secrets |-> v1]
      /\ pok.vc_2 = [pok |-> Finish(CommitAll(Committing, b2, u2)), secrets |-> v2]
      /\ Proven(b1, u1, v1, c) /\ Proven(b2, u2, v2, c)

(* init accepts a signature that verifies, and commits to these parts. *)
LEMMA InitCommits ==
  ASSUME NEW sig, NEW pms, NEW draws, NEW vk, NEW sk, NEW n,
         Provable(sig, pms, draws, vk, sk, n), NEW c \in Fr
  PROVE  LET made == PoKOfSignatureInit(sig, vk, pms, draws)
         IN  made.st = "ok" /\ Committed(made.val, sig, pms, draws, vk, c)
<1> DEFINE m == Messages(pms)
           i == Inverse1(draws[1])
           w == SubSeq(draws, 5, Len(draws))
           T == Hidden(pms)
           rz == Randomized(sig, vk, m, draws[1], draws[2])
           r1 == Relation1(rz, sig, vk, draws[2], SubSeq(draws, 3, 4))
           r2 == Relation2(rz, sig, vk, pms, draws[1], draws[2], w)
           made == PoKOfSignatureInit(sig, vk, pms, draws)
           b1 == <<rz.a_prime, vk.h0>>
           u1 == SubSeq(draws, 3, 4)
           v1 == <<Negate(sig.e), draws[2]>>
           b2 == <<rz.d, vk.h0>> \o Along(vk.h, T)
           u2 == SubSeq(w, 1, 2) \o Blind(pms, w)
           v2 == <<Negate(i), Plus(Negate(Times(draws[2], i)), sig.s)>> \o Along(m, T)
<1>1. InitCheck(sig, vk, pms) = Ok(TRUE)
  <2>1. /\ GoodKey(vk, sk, n) /\ SignedFor(sig, m, vk, sk) /\ DOMAIN pms = 0..(n - 1)
        /\ DOMAIN m = 0..(n - 1) /\ \A k \in 0..(n - 1) : m[k] \in Fr
    BY DEF Provable, Messages, GetMessage
  <2>2. SignatureVerify(sig, m, vk) = Ok(TRUE)
    <3> HIDE DEF m
    <3> QED
      BY <2>1, SignedVerifies
  <2>3. Cardinality(DOMAIN pms) = MessageCount(vk)
    BY <2>1 DEF MessageCount, GoodKey
  <2> QED
    BY <2>2, <2>3 DEF InitCheck, Try, Ok, Messages
<1>2. made = Ok([rz |-> rz, vc_1 |-> r1, vc_2 |-> r2, revealed_messages |-> RevealedMessages(pms)])
  <2> HIDE DEF r1, r2, rz
  <2> QED
    BY <1>1 DEF PoKOfSignatureInit, Try, Ok, Messages, r1, r2, rz
<1>3. r1 = [pok |-> Finish(CommitAll(Committing, b1, u1)), secrets |-> v1]
  BY DEF Relation1
<1>4. r2 = [pok |-> Finish(CommitAll(Committing, b2, u2)), secrets |-> v2]
  <2>1. [k \in DOMAIN InOrder(T) |-> pms[InOrder(T)[k]].m] = Along(m, T)
    <3>1. /\ T \in SUBSET (0..(n - 1)) /\ T \subseteq Int /\ IsFiniteSet(T)
          /\ DOMAIN pms = 0..(n - 1)
      BY BlindType DEF Provable
    <3>2. \A k \in DOMAIN InOrder(T) : InOrder(T)[k] \in DOMAIN pms
      <4> HIDE DEF T
      <4>1. InOrder(T) \in [1..Cardinality(T) -> T] /\ T \subseteq DOMAIN pms
        BY <3>1, InOrderEnumerates
      <4> QED
        BY <4>1
    <3>3. \A k \in DOMAIN InOrder(T) : m[InOrder(T)[k]] = pms[InOrder(T)[k]].m
      BY <3>2 DEF Messages, GetMessage
    <3> HIDE DEF T, m
    <3> QED
      BY <3>3 DEF Along
  <2> HIDE DEF rz, m, w
  <2> QED
    BY <2>1 DEF Relation2, Along, Blind
<1>5. Proven(b1, u1, v1, c)
  <2>1. Together(b1, u1, v1)
    BY FirstRelation
  <2> HIDE DEF b1, u1, v1
  <2> QED
    BY <2>1, ProofHolds
<1>6. Proven(b2, u2, v2, c)
  <2>1. Together(b2, u2, v2)
    BY SecondHolds DEF Second
  <2> HIDE DEF b2, u2, v2
  <2> QED
    BY <2>1, ProofHolds
<1> HIDE DEF r1, r2, rz, b1, u1, v1, b2, u2, v2, made
<1>7. /\ made.st = "ok"
      /\ made.val.rz = rz /\ made.val.vc_1 = r1 /\ made.val.vc_2 = r2
      /\ made.val.revealed_messages = RevealedMessages(pms)
  BY <1>2 DEF Ok
<1> QED
  BY <1>3, <1>4, <1>5, <1>6, <1>7 DEF Committed, r1, r2, rz, b1, u1, v1, b2, u2, v2, made

(* The proof made of a commitment is accepted, for the messages it reveals; the
   string asked by its prover is the one its verifier asks; and it answers for
   each hidden message. *)
Typed(proof) ==
  /\ proof.rz.a_bar \in Fr /\ proof.rz.a_prime \in Fr /\ proof.rz.d \in Fr
  /\ proof.proof_vc_1.responses \in Seq(Fr) /\ Len(proof.proof_vc_1.responses) = 2
  /\ proof.proof_vc_1.commitment \in Fr /\ proof.proof_vc_2.commitment \in Fr

Shows(g, pok, pms, vk, c) ==
  LET rev == RevealedMessages(pms)
      T == Hidden(pms)
      resp == g.val.proof_vc_2.responses
  IN  /\ g.st = "ok"
      /\ PoKOfSignatureVerify(g.val, vk, rev, c) = Ok("Success")
      /\ PoKOfSignatureBytes(pok) = BytesForChallenge(g.val, DOMAIN rev, vk)
      /\ Len(resp) = Cardinality(T) + 2
      /\ \A i \in T : pms[i].kind = "external" =>
           resp[Rank(T, i) + 2] = Minus(pms[i].blinding, Times(c, pms[i].m))
      /\ Typed(g.val)

(* (pok_sig.rs gen_proof, verify, get_bytes_for_challenge.) *)
LEMMA ProofShows ==
  ASSUME NEW sig, NEW pms, NEW draws, NEW vk, NEW sk, NEW n,
         Provable(sig, pms, draws, vk, sk, n), NEW c \in Fr,
         NEW pok, Committed(pok, sig, pms, draws, vk, c)
  PROVE  Shows(PoKOfSignatureGenProof(pok, c), pok, pms, vk, c)
<1> DEFINE m == Messages(pms)
           rev == RevealedMessages(pms)
           g == PoKOfSignatureGenProof(pok, c)
<1>1. PICK S, T, D : S = Revealed(pms) /\ T = Hidden(pms) /\ D = 0..(n - 1)
  OBVIOUS
<1>2. /\ S \in SUBSET D /\ T \in SUBSET D /\ D \ S = T /\ DOMAIN rev = S
      /\ S \subseteq Int /\ IsFiniteSet(S) /\ T \subseteq Int /\ IsFiniteSet(T)
      /\ Cardinality(T) \in Nat
      /\ DOMAIN vk.h = D /\ DOMAIN m = D
      /\ \A k \in S : rev[k] = m[k] /\ m[k] \in Fr
  <2>1. DOMAIN pms = D /\ GoodKey(vk, sk, n) /\ \A k \in D : pms[k].m \in Fr
    BY <1>1 DEF Provable
  <2>2. S \in SUBSET D /\ T \in SUBSET D /\ D \ S = T
    BY <1>1, <2>1 DEF Revealed, Hidden
  <2>3. DOMAIN rev = S /\ \A k \in S : rev[k] = pms[k].m
    BY <1>1 DEF RevealedMessages
  <2>4. DOMAIN m = D /\ \A k \in D : m[k] = pms[k].m
    BY <2>1 DEF Messages, GetMessage
  <2>5. /\ S \subseteq Int /\ IsFiniteSet(S) /\ T \subseteq Int /\ IsFiniteSet(T)
        /\ Cardinality(T) \in Nat
    BY <1>1, <2>1, <2>2, GoodKeyFacts
  <2>6. DOMAIN vk.h = D
    BY <1>1, <2>1 DEF GoodKey
  <2> HIDE DEF m, rev
  <2> QED
    BY <2>1, <2>2, <2>3, <2>4, <2>5, <2>6
<1>3. PICK i, w, rz : /\ i = Inverse1(draws[1]) /\ w = SubSeq(draws, 5, Len(draws))
                      /\ rz = Randomized(sig, vk, m, draws[1], draws[2])
  OBVIOUS
<1>4. PICK b1, u1, v1, b2, u2, v2 :
        /\ b1 = <<rz.a_prime, vk.h0>> /\ u1 = SubSeq(draws, 3, 4)
        /\ v1 = <<Negate(sig.e), draws[2]>>
        /\ b2 = <<rz.d, vk.h0>> \o Along(vk.h, T) /\ u2 = SubSeq(w, 1, 2) \o Blind(pms, w)
        /\ v2 = <<Negate(i), Plus(Negate(Times(draws[2], i)), sig.s)>> \o Along(m, T)
  OBVIOUS
<1>5. PICK p1, p2 : /\ p1 = Finish(CommitAll(Committing, b1, u1))
                    /\ p2 = Finish(CommitAll(Committing, b2, u2))
  OBVIOUS
<1>6. /\ pok.rz = rz /\ pok.revealed_messages = rev
      /\ pok.vc_1 = [pok |-> p1, secrets |-> v1] /\ pok.vc_2 = [pok |-> p2, secrets |-> v2]
      /\ Proven(b1, u1, v1, c) /\ Proven(b2, u2, v2, c)
  BY <1>1, <1>3, <1>4, <1>5 DEF Committed
<1>7. /\ rz.a_prime \in Fr \ {0} /\ rz.a_bar \in Fr /\ rz.d \in Fr /\ vk.h0 \in Fr
      /\ PairingHolds(rz.a_prime, vk.w, rz.a_bar)
  BY <1>3, Randomizes DEF Provable, GoodKey
<1>8. Together(b1, u1, v1) /\ MultiScalarMul(b1, v1) = Minus(rz.a_bar, rz.d)
  BY <1>3, <1>4, FirstRelation
<1>9. /\ Together(b2, u2, v2) /\ Len(b2) = Cardinality(T) + 2
      /\ MultiScalarMul(b2, v2)
           = Negate(MultiScalarMul(<<One>> \o Along(vk.h, S), <<One>> \o Along(m, S)))
  BY <1>1, <1>3, <1>4, SecondHolds DEF Second
<1> HIDE DEF m, rev
<1>10. PICK g1, g2 : g1 = GenProofVC(p1, c, v1) /\ g2 = GenProofVC(p2, c, v2)
  OBVIOUS
<1>11. /\ p1.bases = b1 /\ p1.commitment = MultiScalarMul(b1, u1)
       /\ g1.st = "ok" /\ g1.val.commitment = MultiScalarMul(b1, u1)
       /\ VerifyVC(g1.val, b1, Minus(rz.a_bar, rz.d), c) = Ok(TRUE)
  BY <1>5, <1>6, <1>8, <1>10 DEF Proven
<1>12. /\ p2.bases = b2 /\ p2.commitment = MultiScalarMul(b2, u2)
       /\ g2.st = "ok" /\ g2.val.commitment = MultiScalarMul(b2, u2)
       /\ Len(g2.val.responses) = Len(b2)
       /\ \A k \in 1..Len(b2) : g2.val.responses[k] = Minus(u2[k], Times(c, v2[k]))
       /\ VerifyVC(g2.val, b2, MultiScalarMul(b2, v2), c) = Ok(TRUE)
  BY <1>5, <1>6, <1>10 DEF Proven
<1>13. g = Ok([rz |-> rz, proof_vc_1 |-> g1.val, proof_vc_2 |-> g2.val])
  BY <1>6, <1>10, <1>11, <1>12 DEF PoKOfSignatureGenProof, Try
<1>14. PICK proof : proof = g.val
  OBVIOUS
<1>15. /\ g.st = "ok" /\ proof.rz = rz /\ proof.proof_vc_1 = g1.val /\ proof.proof_vc_2 = g2.val
  BY <1>13, <1>14 DEF Ok
<1> HIDE DEF g
<1>16. VerifyRelation1(proof, vk, c) = Ok(TRUE)
  BY <1>4, <1>11, <1>15 DEF VerifyRelation1
<1>17. VerifyRelation2(proof, vk, rev, c) = Ok(TRUE)
  <2>1. Along(rev, S) = Along(m, S)
    BY <1>2, AlongSame
  <2>2. MultiScalarMul(<<One>> \o Along(vk.h, S), <<1>> \o Along(rev, S))
          = MultiScalarMul(<<One>> \o Along(vk.h, S), <<One>> \o Along(m, S))
    BY <2>1 DEF One
  <2>3. VerifyRelation2(proof, vk, rev, c)
          = VerifyVC(proof.proof_vc_2, <<proof.rz.d, vk.h0>> \o Along(vk.h, T),
              Negate(MultiScalarMul(<<One>> \o Along(vk.h, S), <<1>> \o Along(rev, S))), c)
    BY <1>2 DEF VerifyRelation2, Along
  <2> QED
    BY <1>4, <1>9, <1>12, <1>15, <2>2, <2>3
<1>18. PoKOfSignatureVerify(proof, vk, rev, c) = Ok("Success")
  <2>1. RevealedCheck(vk, rev) = Ok(TRUE)
    <3>1. PublicKeyValidate(vk) = Ok(vk)
      BY GoodKeyFacts DEF Provable
    <3>2. DOMAIN rev \subseteq DOMAIN vk.h
      BY <1>2
    <3> QED
      BY <3>1, <3>2 DEF RevealedCheck, Try, Ok
  <2>2. proof.rz.a_prime # Zero /\ PairingHolds(proof.rz.a_prime, vk.w, proof.rz.a_bar)
    BY <1>7, <1>15 DEF Zero
  <2> QED
    BY <1>16, <1>17, <2>1, <2>2 DEF PoKOfSignatureVerify, Try, Require, Ok
<1>19. PoKOfSignatureBytes(pok) = BytesForChallenge(proof, DOMAIN rev, vk)
  <2>1. PICK a \in Fr, b \in Fr, h \in Fr, d \in Fr :
          a = rz.a_bar /\ b = rz.a_prime /\ h = vk.h0 /\ d = rz.d
    BY <1>7
  <2>2. PICK x \in Fr, y \in Fr : x = MultiScalarMul(b1, u1) /\ y = MultiScalarMul(b2, u2)
    BY <1>8, <1>9, ProductOf DEF Together
  <2>3. PICK p \in Seq(Fr) : p = Along(vk.h, T)
    <3>1. GoodKey(vk, sk, n)
      BY DEF Provable
    <3> QED
      BY <1>1, <1>2, <3>1, GoodKeyFacts
  <2>4. PoKOfSignatureBytes(pok) = <<a>> \o Append(<<b, h>>, x) \o Append(b2, y)
    <3>1. pok.rz.a_bar = a /\ b1 = <<b, h>>
      BY <1>4, <1>6, <2>1
    <3>2. CommittedBytes(pok.vc_1.pok) = Append(b1, x)
      BY <1>6, <1>11, <2>2 DEF CommittedBytes
    <3>3. CommittedBytes(pok.vc_2.pok) = Append(b2, y)
      BY <1>6, <1>12, <2>2 DEF CommittedBytes
    <3> QED
      BY <3>1, <3>2, <3>3 DEF PoKOfSignatureBytes
  <2>5. BytesForChallenge(proof, DOMAIN rev, vk) = <<a, b, h, x, d, h>> \o p \o <<y>>
    BY <1>2, <1>11, <1>12, <1>15, <2>1, <2>2, <2>3 DEF BytesForChallenge, Along
  <2>6. b2 = <<d, h>> \o p
    BY <1>4, <2>1, <2>3
  <2>7. Spelled(a, b, h, x, d, y, p, b2)
    BY <2>6, SameBytes
  <2> QED
    BY <2>4, <2>5, <2>7 DEF Spelled
<1>20. \A k \in T : pms[k].kind = "external" =>
         proof.proof_vc_2.responses[Rank(T, k) + 2]
           = Minus(pms[k].blinding, Times(c, pms[k].m))
  <2> SUFFICES ASSUME NEW k \in T, pms[k].kind = "external"
               PROVE  proof.proof_vc_2.responses[Rank(T, k) + 2]
                        = Minus(pms[k].blinding, Times(c, pms[k].m))
    OBVIOUS
  <2>1. PICK j \in 1..Cardinality(T) :
          j = Rank(T, k) /\ Blind(pms, w)[j] = pms[k].blinding
    BY <1>1, <1>3, BlindType
  <2>2. /\ SubSeq(w, 1, 2) \in Seq(Fr) /\ Len(SubSeq(w, 1, 2)) = 2
        /\ Blind(pms, w) \in Seq(Fr) /\ Len(Blind(pms, w)) = Cardinality(T)
    BY <1>1, <1>3, BlindType
  <2>3. u2[j + 2] = pms[k].blinding
    <3>1. PICK e \in Seq(Fr), f \in Seq(Fr) : e = SubSeq(w, 1, 2) /\ f = Blind(pms, w)
      BY <2>2
    <3>2. /\ Len(e) = 2 /\ Len(f) = Cardinality(T) /\ u2 = e \o f
      BY <1>4, <2>2, <3>1
    <3>3. \A l \in 1..(Len(e) + Len(f)) : (e \o f)[l] = IF l <= Len(e) THEN e[l] ELSE f[l - Len(e)]
      BY ConcatProperties
    <3>4. j + 2 \in 1..(Len(e) + Len(f)) /\ ~(j + 2 <= Len(e)) /\ (j + 2) - Len(e) = j
      BY <1>2, <3>2
    <3> QED
      BY <2>1, <3>1, <3>2, <3>3, <3>4
  <2>4. v2[j + 2] = pms[k].m
    <3>1. m[k] = pms[k].m /\ \A l \in T : m[l] \in Fr
      BY <1>1, <1>2 DEF m, Messages, GetMessage, Provable
    <3>2. PICK q \in Seq(Fr) : q = Along(m, T) /\ Len(q) = Cardinality(T) /\ q[j] = m[k]
      <4>1. /\ Along(m, T) \in Seq(Fr) /\ Len(Along(m, T)) = Cardinality(T)
            /\ \A l \in T : Along(m, T)[Rank(T, l)] = m[l]
        <5>1. Scalars(m, T)
          BY <3>1 DEF Scalars
        <5>2. Aligned(m, T)
          BY <1>2, <5>1, AlongAligned
        <5> QED
          BY <5>2 DEF Aligned
      <4> QED
        BY <2>1, <4>1
    <3>3. PICK x, y : x = Negate(i) /\ y = Plus(Negate(Times(draws[2], i)), sig.s)
      OBVIOUS
    <3>4. PICK U : U = Fr \union {x, y}
      OBVIOUS
    <3>7. PICK e \in Seq(U) : e = <<x, y>>
      <4>1. x \in U /\ y \in U
        BY <3>4
      <4>2. <<x, y>> \in Seq(U)
        BY <4>1
      <4> QED
        BY <4>2
    <3>8. q \in Seq(U)
      BY <3>4
    <3>9. Len(e) = 2 /\ Len(q) = Cardinality(T) /\ v2 = e \o q
      BY <1>4, <3>2, <3>3, <3>7
    <3>5. j + 2 \in 1..(2 + Cardinality(T)) /\ ~(j + 2 <= 2) /\ (j + 2) - 2 = j
      BY <1>2
    <3>6. \A l \in 1..(Len(e) + Len(q)) :
            (e \o q)[l] = IF l <= Len(e) THEN e[l] ELSE q[l - Len(e)]
      BY <3>8, ConcatProperties
    <3>10. (e \o q)[j + 2] = q[(j + 2) - 2]
      BY <3>5, <3>6, <3>9
    <3> QED
      BY <3>1, <3>2, <3>5, <3>9, <3>10
  <2>5. j + 2 \in 1..Len(b2)
    BY <1>2, <1>9
  <2> QED
    BY <1>12, <1>15, <2>1, <2>3, <2>4, <2>5
<1>21. Len(proof.proof_vc_2.responses) = Cardinality(T) + 2
  BY <1>9, <1>12, <1>15
<1>22. Typed(proof)
  <2>1. /\ MultiScalarMul(b1, u1) \in Fr /\ MultiScalarMul(b2, u2) \in Fr
        /\ Len(b1) = 2
    BY <1>4, <1>8, <1>9, ProductOf DEF Together
  <2>2. g1.val.responses \in Seq(Fr) /\ Len(g1.val.responses) = Len(b1)
    BY <1>5, <1>6, <1>10 DEF Proven
  <2> QED
    BY <1>7, <1>11, <1>12, <1>15, <2>1, <2>2 DEF Typed
<1> QED
  BY <1>1, <1>14, <1>15, <1>18, <1>19, <1>20, <1>21, <1>22 DEF Shows, g, rev

--------------------------------------------------------------------------------
(* Strings of several parts. *)

Associate(a, b, c) == (a \o b) \o c = a \o (b \o c)

(* (Whatever the strings are made of.) *)
LEMMA JoinsAssociate ==
  ASSUME NEW T, NEW a \in Seq(T), NEW b \in Seq(T), NEW c \in Seq(T)
  PROVE  Associate(a, b, c)
BY ConcatAssociative DEF Associate

(* What one gets by joining the parts one by one. *)
Joining(s, f, n) == f = [i \in 1..n |-> IF i = 1 THEN s[i] ELSE f[i - 1] \o s[i]]

(* (One part more at a time.) *)
LEMMA JoiningExists ==
  ASSUME NEW s, NEW n \in Nat
  PROVE  \E f : Joining(s, f, n)
<1> DEFINE P == {m \in Nat : \E f : Joining(s, f, m)}
<1>1. 0 \in P
  <2>1. PICK f : f = [i \in 1..0 |-> s[i]]
    OBVIOUS
  <2>2. f = [i \in 1..0 |-> IF i = 1 THEN s[i] ELSE f[i - 1] \o s[i]]
    BY <2>1
  <2> QED
    BY <2>2 DEF Joining
<1>2. ASSUME NEW m \in Nat, m \in P PROVE m + 1 \in P
  <2>1. PICK f : f = [i \in 1..m |-> IF i = 1 THEN s[i] ELSE f[i - 1] \o s[i]]
    BY <1>2 DEF Joining
  <2>2. PICK x : x = IF m = 0 THEN s[m + 1] ELSE f[m] \o s[m + 1]
    OBVIOUS
  <2>3. PICK h : h = [i \in 1..(m + 1) |-> IF i = m + 1 THEN x ELSE f[i]]
    OBVIOUS
  <2>4. ASSUME NEW i \in 1..(m + 1)
        PROVE  h[i] = IF i = 1 THEN s[i] ELSE h[i - 1] \o s[i]
    <3>1. CASE i = m + 1
      <4>1. h[i] = x
        BY <2>3, <3>1
      <4>2. i # 1 => m # 0 /\ i - 1 = m /\ m \in 1..(m + 1) /\ m # m + 1
        BY <3>1
      <4>3. i # 1 => h[m] = f[m]
        BY <2>3, <4>2
      <4>4. i = 1 => m = 0
        BY <3>1
      <4> QED
        BY <2>2, <3>1, <4>1, <4>2, <4>3, <4>4
    <3>2. CASE i # m + 1
      <4>1. i \in 1..m /\ h[i] = f[i]
        BY <2>3, <3>2
      <4>2. i # 1 => i - 1 \in 1..(m + 1) /\ i - 1 # m + 1
        BY <4>1
      <4>3. i # 1 => h[i - 1] = f[i - 1]
        BY <2>3, <4>2
      <4>4. f[i] = IF i = 1 THEN s[i] ELSE f[i - 1] \o s[i]
        BY <2>1, <4>1
      <4> QED
        BY <4>1, <4>3, <4>4
    <3> QED
      BY <3>1, <3>2
  <2>5. h = [i \in 1..(m + 1) |-> IF i = 1 THEN s[i] ELSE h[i - 1] \o s[i]]
    BY <2>3, <2>4
  <2>6. Joining(s, h, m + 1)
    BY ONLY <2>5 DEF Joining
  <2>7. m + 1 \in Nat
    OBVIOUS
  <2> QED
    BY <2>6, <2>7
<1> HIDE DEF P
<1>3. Nat \subseteq P
  BY <1>1, <1>2, SetInduction
<1> QED
  BY <1>3 DEF P

(* Parts of a string, and so the string; none is in doubt where it ends. *)
Strings(T, s, n) == s = [k \in 1..n |-> s[k]] /\ \A k \in 1..n : s[k] \in Seq(T)
Readable(T, s, t, n) ==
  \A k \in 1..n : \A x, y \in Seq(T) : s[k] \o x = t[k] \o y => s[k] = t[k]

(* The whole string is what one has after the last part. *)
LEMMA ConcatIs ==
  ASSUME NEW T, NEW n \in Nat \ {0}, NEW s, Strings(T, s, n)
  PROVE  \E f : Joining(s, f, n) /\ Concat(s) = f[n]
<1>1. n \in Nat /\ Len(s) = n
  BY DEF Strings
<1>2. PICK g : g = CHOOSE f : Joining(s, f, n)
  OBVIOUS
<1>3. Joining(s, g, n)
  BY <1>1, <1>2, JoiningExists
<1>4. Concat(s) = g[n]
  <2>1. g = CHOOSE f : f = [i \in 1..n |-> IF i = 1 THEN s[i] ELSE f[i - 1] \o s[i]]
    BY <1>2 DEF Joining
  <2> QED
    BY <1>1, <2>1 DEF Concat, FlattenSeq
<1> QED
  BY <1>3, <1>4

(* (... and a string of the same letters.) *)
LEMMA ConcatType ==
  ASSUME NEW T, NEW n \in Nat \ {0}, NEW s, Strings(T, s, n)
  PROVE  Concat(s) \in Seq(T)
<1>1. PICK f : Joining(s, f, n) /\ Concat(s) = f[n]
  BY ConcatIs
<1>2. ASSUME NEW i \in 1..n PROVE f[i] = IF i = 1 THEN s[i] ELSE f[i - 1] \o s[i]
  <2>1. f = [j \in 1..n |-> IF j = 1 THEN s[j] ELSE f[j - 1] \o s[j]]
    BY <1>1 DEF Joining
  <2> QED
    BY ONLY <2>1, i \in 1..n
<1> DEFINE Q == {m \in Nat : m + 1 \in 1..n => f[m + 1] \in Seq(T)}
<1>3. 0 \in Q
  <2> SUFFICES ASSUME 0 + 1 \in 1..n PROVE f[0 + 1] \in Seq(T)
    OBVIOUS
  <2>1. 0 + 1 = 1 /\ 1 \in 1..n
    OBVIOUS
  <2>2. f[1] = s[1] /\ s[1] \in Seq(T)
    BY <1>2, <2>1 DEF Strings
  <2> QED
    BY <2>1, <2>2
<1>4. ASSUME NEW m \in Nat, m \in Q PROVE m + 1 \in Q
  <2>1. PICK i \in Nat, j \in Nat : i = m + 1 /\ j = i + 1
    OBVIOUS
  <2> SUFFICES ASSUME j \in 1..n PROVE f[j] \in Seq(T)
    BY <2>1
  <2>2. i \in 1..n /\ j # 1 /\ j - 1 = i
    BY <2>1
  <2>3. f[i] \in Seq(T)
    BY <1>4, <2>1, <2>2
  <2>4. f[j] = f[i] \o s[j] /\ s[j] \in Seq(T)
    BY <1>2, <2>2 DEF Strings
  <2> QED
    BY <2>3, <2>4, ConcatProperties
<1>5. n - 1 \in Q
  <2> HIDE DEF Q
  <2>1. Nat \subseteq Q
    BY <1>3, <1>4, SetInduction
  <2>2. n - 1 \in Nat
    OBVIOUS
  <2> QED
    BY <2>1, <2>2
<1>6. (n - 1) + 1 = n /\ n \in 1..n
  OBVIOUS
<1> QED
  BY <1>1, <1>5, <1>6

(* What comes before the claims, and the claims. *)
Followed(m, c, n, d) == <<m>> \o c = <<n>> \o d

(* (The first letter tells.) *)
LEMMA TailsAgree ==
  ASSUME NEW T, NEW m \in T, NEW n \in T, NEW c \in Seq(T), NEW d \in Seq(T),
         Followed(m, c, n, d)
  PROVE  m = n /\ c = d
<1> <<m>> \o c = <<n>> \o d
  BY DEF Followed
<1>1. PICK a \in Seq(T), b \in Seq(T) :
        /\ a = <<m>> /\ b = <<n>> /\ Len(a) = 1 /\ Len(b) = 1 /\ a[1] = m /\ b[1] = n
  <2>1. /\ <<m>> \in Seq(T) /\ Len(<<m>>) = 1 /\ <<m>>[1] = m
        /\ <<n>> \in Seq(T) /\ Len(<<n>>) = 1 /\ <<n>>[1] = n
    OBVIOUS
  <2> QED
    BY <2>1
<1>2. a \o c = b \o d
  BY <1>1
<1>3. (a \o c)[1] = m /\ (b \o d)[1] = n
  <2>1. /\ \A i \in 1..(Len(a) + Len(c)) : (a \o c)[i] = IF i <= Len(a) THEN a[i] ELSE c[i - Len(a)]
        /\ \A i \in 1..(Len(b) + Len(d)) : (b \o d)[i] = IF i <= Len(b) THEN b[i] ELSE d[i - Len(b)]
    BY ConcatProperties
  <2>2. Len(c) \in Nat /\ Len(d) \in Nat
    BY LenProperties
  <2>3. 1 \in 1..(Len(a) + Len(c)) /\ 1 \in 1..(Len(b) + Len(d)) /\ 1 <= Len(a) /\ 1 <= Len(b)
    BY <1>1, <2>2
  <2> QED
    BY <1>1, <2>1, <2>3
<1>4. a = b
  BY <1>1, <1>2, <1>3
<1>5. a \o c = a \o d
  BY <1>2, <1>4
<1>6. c = d
  BY <1>5, ConcatSimplifications
<1> QED
  BY <1>2, <1>3, <1>6

(* Two strings are equal only if their parts are and what follows them is. *)
Joined(s, x, t, y) == Concat(s) \o x = Concat(t) \o y

(* (From the last part back to the first.) *)
LEMMA PartsAgree ==
  ASSUME NEW T, NEW n \in Nat \ {0}, NEW s, NEW t, Strings(T, s, n), Strings(T, t, n),
         Readable(T, s, t, n), NEW x \in Seq(T), NEW y \in Seq(T), Joined(s, x, t, y)
  PROVE  (\A k \in 1..n : s[k] = t[k]) /\ x = y
<1> Concat(s) \o x = Concat(t) \o y
  BY DEF Joined
<1>1. PICK f, g : /\ Joining(s, f, n) /\ Concat(s) = f[n]
                  /\ Joining(t, g, n) /\ Concat(t) = g[n]
  BY ConcatIs
<1>2. ASSUME NEW i \in 1..n
      PROVE  /\ i = 1 => f[i] = s[i] /\ g[i] = t[i]
             /\ i # 1 => f[i] = f[i - 1] \o s[i] /\ g[i] = g[i - 1] \o t[i]
  <2>1. f = [j \in 1..n |-> IF j = 1 THEN s[j] ELSE f[j - 1] \o s[j]]
    BY <1>1 DEF Joining
  <2>2. g = [j \in 1..n |-> IF j = 1 THEN t[j] ELSE g[j - 1] \o t[j]]
    BY <1>1 DEF Joining
  <2>3. f[i] = IF i = 1 THEN s[i] ELSE f[i - 1] \o s[i]
    BY ONLY <2>1, i \in 1..n
  <2>4. g[i] = IF i = 1 THEN t[i] ELSE g[i - 1] \o t[i]
    BY ONLY <2>2, i \in 1..n
  <2> QED
    BY <2>3, <2>4
<1> DEFINE Told(m) == \A u, v \in Seq(T) : f[m] \o u = g[m] \o v
                        => (\A k \in 1..m : s[k] = t[k]) /\ u = v
           Q == {m \in Nat : m + 1 \in 1..n =>
                   f[m + 1] \in Seq(T) /\ g[m + 1] \in Seq(T) /\ Told(m + 1)}
<1>3. \A k \in 1..n : s[k] \in Seq(T) /\ t[k] \in Seq(T)
  BY DEF Strings
<1>4. ASSUME NEW k \in 1..n, NEW u \in Seq(T), NEW v \in Seq(T), s[k] \o u = t[k] \o v
      PROVE  s[k] = t[k] /\ u = v
  <2>1. s[k] = t[k]
    BY <1>4 DEF Readable
  <2>2. s[k] \in Seq(T) /\ s[k] \o u = s[k] \o v
    BY <1>3, <1>4, <2>1
  <2>3. u = v
    BY <2>2, ConcatSimplifications
  <2> QED
    BY <2>1, <2>3
<1>5. 0 \in Q
  <2> SUFFICES ASSUME 0 + 1 \in 1..n
               PROVE  f[0 + 1] \in Seq(T) /\ g[0 + 1] \in Seq(T) /\ Told(0 + 1)
    OBVIOUS
  <2>1. 1 \in 1..n /\ f[1] = s[1] /\ g[1] = t[1] /\ 0 + 1 = 1
    <3>1. 1 \in 1..n
      OBVIOUS
    <3>2. f[1] = s[1] /\ g[1] = t[1]
      BY <1>2, <3>1
    <3> QED
      BY <3>1, <3>2
  <2>2. \A k \in 1..1 : k = 1
    OBVIOUS
  <2>3. Told(1)
    <3> TAKE u \in Seq(T), v \in Seq(T)
    <3> HAVE f[1] \o u = g[1] \o v
    <3>1. PICK k \in 1..n : k = 1
      BY <2>1
    <3>2. s[k] \o u = t[k] \o v
      BY <2>1, <3>1
    <3>3. s[k] = t[k] /\ u = v
      BY ONLY <1>4, <3>2, k \in 1..n, u \in Seq(T), v \in Seq(T)
    <3> QED
      BY <2>2, <3>1, <3>3
  <2> QED
    BY <1>3, <2>1, <2>3
<1>6. ASSUME NEW m \in Nat, m \in Q PROVE m + 1 \in Q
  <2>0. PICK i \in Nat, j \in Nat : i = m + 1 /\ j = i + 1
    OBVIOUS
  <2> SUFFICES ASSUME j \in 1..n PROVE f[j] \in Seq(T) /\ g[j] \in Seq(T) /\ Told(j)
    BY <2>0
  <2>1. i \in 1..n /\ j # 1 /\ j - 1 = i
    BY <2>0
  <2>2. f[i] \in Seq(T) /\ g[i] \in Seq(T) /\ Told(i)
    <3> HIDE DEF Told
    <3> QED
      BY <1>6, <2>0, <2>1
  <2>3. \A k \in 1..j : k \in 1..i \/ k = j
    BY <2>0
  <2>4. f[j] = f[i] \o s[j] /\ g[j] = g[i] \o t[j] /\ s[j] \in Seq(T) /\ t[j] \in Seq(T)
    <3>1. f[j] = f[j - 1] \o s[j] /\ g[j] = g[j - 1] \o t[j]
      BY <1>2, <2>1
    <3> QED
      BY <1>3, <2>1, <3>1
  <2>5. f[j] \in Seq(T) /\ g[j] \in Seq(T)
    BY <2>2, <2>4, ConcatProperties
  <2>6. Told(j)
    <3> SUFFICES ASSUME NEW u \in Seq(T), NEW v \in Seq(T), f[j] \o u = g[j] \o v
                 PROVE  (\A k \in 1..j : s[k] = t[k]) /\ u = v
      OBVIOUS
    <3>1. f[i] \o (s[j] \o u) = g[i] \o (t[j] \o v)
      <4>1. (f[i] \o s[j]) \o u = f[i] \o (s[j] \o u)
        <5>1. PICK a \in Seq(T), b \in Seq(T), c \in Seq(T) :
                a = f[i] /\ b = s[j] /\ c = u
          BY <2>2, <2>4
        <5>2. Associate(a, b, c)
          BY JoinsAssociate
        <5> QED
          BY <5>1, <5>2 DEF Associate
      <4>2. (g[i] \o t[j]) \o v = g[i] \o (t[j] \o v)
        <5>1. PICK a \in Seq(T), b \in Seq(T), c \in Seq(T) :
                a = g[i] /\ b = t[j] /\ c = v
          BY <2>2, <2>4
        <5>2. Associate(a, b, c)
          BY JoinsAssociate
        <5> QED
          BY <5>1, <5>2 DEF Associate
      <4> QED
        BY <2>4, <4>1, <4>2
    <3>2. s[j] \o u \in Seq(T) /\ t[j] \o v \in Seq(T)
      BY <2>4, ConcatProperties
    <3>3. (\A k \in 1..i : s[k] = t[k]) /\ s[j] \o u = t[j] \o v
      BY <2>2, <3>1, <3>2
    <3>4. s[j] = t[j] /\ u = v
      BY <1>4, <3>3
    <3> QED
      BY <2>3, <3>3, <3>4
  <2> QED
    BY <2>5, <2>6
<1>7. n - 1 \in Q
  <2> HIDE DEF Q
  <2>1. Nat \subseteq Q
    BY <1>5, <1>6, SetInduction
  <2>2. n - 1 \in Nat
    OBVIOUS
  <2> QED
    BY <2>1, <2>2
<1>8. Told(n)
  <2>1. (n - 1) + 1 = n /\ n \in 1..n
    OBVIOUS
  <2> HIDE DEF Told
  <2> QED
    BY <1>7, <2>1
<1> QED
  BY <1>1, <1>8

(* Where the generators of a part end: at a commitment that is none of them. *)
ReadsAs(z, w, a, y) ==
  /\ \A i \in 1..Len(a) : z[Len(w) + i] = a[i]
  /\ z[Len(w) + Len(a) + 1] = y

(* (By the positions in the string.) *)
LEMMA ReadAt ==
  ASSUME NEW T, NEW w \in Seq(T), NEW a \in Seq(T), NEW y \in T, NEW x \in Seq(T),
         NEW z, z = w \o a \o <<y>> \o x
  PROVE  ReadsAs(z, w, a, y)
<1>1. PICK e \in Seq(T), n \in Nat, m \in Nat : e = w \o a /\ n = Len(w) /\ m = Len(a)
  <2>1. w \o a \in Seq(T)
    BY ConcatProperties
  <2>2. Len(w) \in Nat /\ Len(a) \in Nat
    BY LenProperties
  <2> QED
    BY <2>1, <2>2
<1>2. /\ Len(e) = n + m /\ \A i \in 1..(n + m) : e[i] = IF i <= n THEN w[i] ELSE a[i - n]
  BY <1>1, ConcatProperties
<1>3. PICK l \in Seq(T) : l = <<y>> /\ Len(l) = 1 /\ l[1] = y
  <2>1. <<y>> \in Seq(T) /\ Len(<<y>>) = 1 /\ <<y>>[1] = y
    OBVIOUS
  <2> QED
    BY <2>1
<1>4. PICK f \in Seq(T) : f = e \o l
  BY ConcatProperties
<1>5. /\ Len(f) = n + m + 1
      /\ \A i \in 1..(n + m + 1) : f[i] = IF i <= n + m THEN e[i] ELSE l[i - (n + m)]
  BY <1>2, <1>3, <1>4, ConcatProperties
<1>6. z = f \o x
  BY <1>1, <1>3, <1>4
<1>7. \A i \in 1..(n + m + 1) : z[i] = f[i]
  <2>1. /\ Len(f) \in Nat /\ Len(x) \in Nat
        /\ \A i \in 1..(Len(f) + Len(x)) : (f \o x)[i] = IF i <= Len(f) THEN f[i] ELSE x[i - Len(f)]
    BY ConcatProperties
  <2>2. PICK j \in Nat, k \in Nat : j = Len(f) /\ k = Len(x) /\ j = n + m + 1
    BY <1>5, <2>1
  <2>3. \A i \in 1..(j + k) : z[i] = IF i <= j THEN f[i] ELSE x[i - j]
    BY ONLY <1>6, <2>1, <2>2
  <2>4. \A i \in 1..j : i \in 1..(j + k) /\ i <= j
    OBVIOUS
  <2>5. \A i \in 1..j : z[i] = f[i]
    BY ONLY <2>3, <2>4
  <2> QED
    BY ONLY <2>2, <2>5
<1>8. ASSUME NEW i \in 1..m PROVE z[n + i] = a[i]
  <2>1. n + i \in 1..(n + m) /\ n + i \in 1..(n + m + 1) /\ n + i <= n + m /\ ~(n + i <= n)
        /\ (n + i) - n = i
    OBVIOUS
  <2> QED
    BY <1>2, <1>5, <1>7, <2>1
<1>9. z[n + m + 1] = y
  <2>1. n + m + 1 \in 1..(n + m + 1) /\ ~(n + m + 1 <= n + m) /\ (n + m + 1) - (n + m) = 1
    OBVIOUS
  <2> QED
    BY <1>3, <1>5, <1>7, <2>1
<1> QED
  BY <1>1, <1>8, <1>9 DEF ReadsAs

(* Two lists without y, each followed by y, in strings that are the same. *)
SameString(w, a, b, y, x, v) ==
  /\ \A i \in 1..Len(a) : a[i] # y
  /\ \A i \in 1..Len(b) : b[i] # y
  /\ w \o a \o <<y>> \o x = w \o b \o <<y>> \o v

(* Then the lists are the same: y would be in the longer one. *)
LEMMA GeneratorsEnd ==
  ASSUME NEW T, NEW w \in Seq(T), NEW a \in Seq(T), NEW b \in Seq(T), NEW y \in T,
         NEW x \in Seq(T), NEW v \in Seq(T), SameString(w, a, b, y, x, v)
  PROVE  a = b
<1> /\ \A i \in 1..Len(a) : a[i] # y
    /\ \A i \in 1..Len(b) : b[i] # y
    /\ w \o a \o <<y>> \o x = w \o b \o <<y>> \o v
  BY DEF SameString
<1>1. PICK z : z = w \o a \o <<y>> \o x
  OBVIOUS
<1>2. ReadsAs(z, w, a, y)
  BY <1>1, ReadAt
<1>3. ReadsAs(z, w, b, y)
  BY <1>1, ReadAt
<1>4. PICK l \in Nat, m \in Nat, n \in Nat : l = Len(w) /\ m = Len(a) /\ n = Len(b)
  <2>1. Len(w) \in Nat /\ Len(a) \in Nat /\ Len(b) \in Nat
    BY LenProperties
  <2> QED
    BY <2>1
<1>5. /\ \A i \in 1..m : z[l + i] = a[i] /\ a[i] # y
      /\ \A i \in 1..n : z[l + i] = b[i] /\ b[i] # y
      /\ z[l + m + 1] = y /\ z[l + n + 1] = y
  BY <1>2, <1>3, <1>4 DEF ReadsAs
<1>6. ~(m < n)
  <2> SUFFICES ASSUME m < n PROVE FALSE
    OBVIOUS
  <2>1. PICK k \in 1..n : k = m + 1 /\ l + k = l + m + 1
    OBVIOUS
  <2>2. z[l + k] = b[k] /\ b[k] # y
    BY ONLY <1>5, k \in 1..n
  <2>3. z[l + k] = y
    BY <1>5, <2>1
  <2> QED
    BY ONLY <2>2, <2>3
<1>7. ~(n < m)
  <2> SUFFICES ASSUME n < m PROVE FALSE
    OBVIOUS
  <2>1. PICK k \in 1..m : k = n + 1 /\ l + k = l + n + 1
    OBVIOUS
  <2>2. z[l + k] = a[k] /\ a[k] # y
    BY ONLY <1>5, k \in 1..m
  <2>3. z[l + k] = y
    BY <1>5, <2>1
  <2> QED
    BY ONLY <2>2, <2>3
<1>8. m = n
  BY <1>6, <1>7
<1>9. \A i \in 1..Len(a) : a[i] = b[i]
  BY <1>4, <1>5, <1>8
<1> QED
  BY <1>4, <1>8, <1>9, SeqEqual

(* The first relation of a proof holds for one challenge only, unless a_bar = d:   *)
(* then every challenge would do.                                                  *)
LEMMA OneChallenge ==
  ASSUME NEW x \in Fr, NEW y \in Fr, x # y, NEW s \in Fr, NEW c \in Fr, NEW e \in Fr,
         Plus(s, Times(Minus(x, y), c)) = Plus(s, Times(Minus(x, y), e))
  PROVE  c = e
<1>1. PICK d \in Fr, u \in Fr, v \in Fr :
        d = Minus(x, y) /\ u = Times(d, c) /\ v = Times(d, e)
  BY ScalarTypes
<1>2. d # Zero
  <2>1. Plus(d, y) = x /\ Plus(Zero, y) = y
    BY <1>1, MinusIsPlus, Neutral
  <2> QED
    BY <2>1
<1>3. u = v
  <2>1. Minus(Plus(s, u), s) = u /\ Minus(Plus(s, v), s) = v
    <3>1. Plus(s, u) = Plus(u, s) /\ Plus(s, v) = Plus(v, s)
      BY Commutes
    <3>2. Minus(Plus(u, s), s) = u /\ Minus(Plus(v, s), s) = v
      BY MinusIsPlus
    <3> QED
      BY <3>1, <3>2
  <2> QED
    BY <1>1, <2>1
<1>4. Times(d, Minus(c, e)) = Zero
  <2>1. Times(d, Minus(c, e)) = Minus(u, v)
    BY <1>1, Distributes
  <2>2. Minus(u, v) = Zero
    BY <1>3, Neutral
  <2> QED
    BY <2>1, <2>2
<1>5. PICK f \in Fr : f = Minus(c, e)
  BY ScalarTypes
<1>6. f = Zero
  BY <1>2, <1>4, <1>5, NoZeroDivisors
<1>7. Plus(f, e) = c /\ Plus(Zero, e) = e
  BY <1>5, MinusIsPlus, Neutral
<1> QED
  BY <1>6, <1>7

(* (pok_sig.rs verify.) *)
LEMMA AcceptedForOne ==
  ASSUME NEW proof, Typed(proof), proof.rz.a_bar # proof.rz.d,
         NEW vk, vk.h0 \in Fr, NEW rev, NEW c \in Fr, NEW e \in Fr,
         PoKOfSignatureVerify(proof, vk, rev, c) = Ok("Success"),
         PoKOfSignatureVerify(proof, vk, rev, e) = Ok("Success")
  PROVE  c = e
<1> DEFINE bases == <<proof.rz.a_prime, vk.h0>>
           resp == proof.proof_vc_1.responses
           dif == Minus(proof.rz.a_bar, proof.rz.d)
           Holds(f) == MultiScalarMul(Append(bases, dif), Append(resp, f))
                         = proof.proof_vc_1.commitment
<1>1. Len(bases) = Len(resp) /\ bases \in Seq(Fr) /\ resp \in Seq(Fr) /\ dif \in Fr
  <2>1. /\ proof.rz.a_bar \in Fr /\ proof.rz.a_prime \in Fr /\ proof.rz.d \in Fr
        /\ resp \in Seq(Fr) /\ Len(resp) = 2
    BY DEF Typed
  <2>2. dif \in Fr
    BY <2>1, ScalarTypes
  <2>3. bases \in Seq(Fr) /\ Len(bases) = 2
    BY <2>1
  <2> QED
    BY <2>1, <2>2, <2>3
<1>2. ASSUME NEW f PROVE VerifyRelation1(proof, vk, f) = Ok(Holds(f))
  <2> HIDE DEF bases, resp, dif
  <2>1. ChallengeContribution(proof.proof_vc_1, bases, dif, f)
          = Ok(MultiScalarMul(Append(bases, dif), Append(resp, f)))
    BY <1>1 DEF ChallengeContribution, resp
  <2>2. VerifyRelation1(proof, vk, f) = VerifyVC(proof.proof_vc_1, bases, dif, f)
    BY DEF VerifyRelation1, bases, dif
  <2> QED
    BY <2>1, <2>2 DEF VerifyVC, Try, Ok
<1> HIDE DEF bases, resp, dif
<1>3. ASSUME NEW f, PoKOfSignatureVerify(proof, vk, rev, f) = Ok("Success") PROVE Holds(f)
  <2>1. RevealedCheck(vk, rev).st = "ok"
    BY <1>3 DEF PoKOfSignatureVerify, Try, Ok
  <2>2. PICK rest : Require(VerifyRelation1(proof, vk, f), "BadHiddenMessage", rest) = Ok("Success")
    BY <1>3, <2>1 DEF PoKOfSignatureVerify, Try, Ok
  <2>3. PICK b : b = Holds(f)
    OBVIOUS
  <2>4. VerifyRelation1(proof, vk, f) = Ok(b)
    BY <1>2, <2>3
  <2> HIDE DEF Holds
  <2>5. Require(Ok(b), "BadHiddenMessage", rest) = IF b THEN rest ELSE Ok("BadHiddenMessage")
    BY DEF Require, Try, Ok
  <2>6. Ok("BadHiddenMessage") # Ok("Success")
    BY DEF Ok
  <2>7. b
    BY <2>2, <2>4, <2>5, <2>6
  <2> QED
    BY <2>3, <2>7
<1>4. PICK s \in Fr : s = MultiScalarMul(bases, resp)
  BY <1>1, ProductOf
<1>5. ASSUME NEW f \in Fr
      PROVE  MultiScalarMul(Append(bases, dif), Append(resp, f)) = Plus(s, Times(dif, f))
  BY <1>1, <1>4, ProductAppend
<1>6. Plus(s, Times(dif, c)) = Plus(s, Times(dif, e))
  BY <1>3, <1>5
<1>7. proof.rz.a_bar \in Fr /\ proof.rz.d \in Fr
  BY DEF Typed
<1> QED
  BY <1>6, <1>7, OneChallenge DEF dif

(* The generators of a part, in the order of their messages. *)
Names(a, h, H) ==
  /\ a = Along(h, H) /\ Len(a) = Cardinality(H) /\ Cardinality(H) \in Nat
  /\ H = {InOrder(H)[k] : k \in 1..Cardinality(H)}
  /\ \A k \in 1..Cardinality(H) : InOrder(H)[k] \in H /\ a[k] = h[InOrder(H)[k]]

(* (Each once, from InOrderEnumerates.) *)
LEMMA AlongNames ==
  ASSUME NEW vk, NEW sk, NEW n, GoodKey(vk, sk, n), NEW H \in SUBSET (0..(n - 1))
  PROVE  \E a \in Seq(Fr) : Names(a, vk.h, H)
<1>1. PICK h : h = vk.h
  OBVIOUS
<1>2. /\ H \subseteq Int /\ IsFiniteSet(H) /\ Cardinality(H) \in Nat
      /\ Along(h, H) \in Seq(Fr) /\ Len(Along(h, H)) = Cardinality(H)
  BY <1>1, GoodKeyFacts
<1>3. PICK a \in Seq(Fr) : a = Along(h, H)
  BY <1>2
<1>4. DOMAIN InOrder(H) = 1..Cardinality(H)
  BY <1>2, InOrderEnumerates
<1>5. \A k \in 1..Cardinality(H) : InOrder(H)[k] \in H
  BY <1>2, InOrderEnumerates
<1>6. H = {InOrder(H)[k] : k \in 1..Cardinality(H)}
  BY <1>2, InOrderEnumerates
<1>7. \A k \in 1..Cardinality(H) : a[k] = h[InOrder(H)[k]]
  BY <1>3, <1>4 DEF Along
<1> QED
  BY <1>1, <1>2, <1>3, <1>5, <1>6, <1>7 DEF Names

(* Equal lists of generators name the same messages. *)
LEMMA NamesOne ==
  ASSUME NEW h, NEW D, \A i, j \in D : h[i] = h[j] => i = j,
         NEW F \in SUBSET D, NEW G \in SUBSET D, NEW a, Names(a, h, F), Names(a, h, G)
  PROVE  F = G
<1>1. PICK c : c = Cardinality(F)
  OBVIOUS
<1>2. Cardinality(G) = c
  BY <1>1 DEF Names
<1>3. /\ F = {InOrder(F)[k] : k \in 1..c} /\ G = {InOrder(G)[k] : k \in 1..c}
  BY <1>1, <1>2, Zenon DEF Names
<1>4. \A k \in 1..c : InOrder(F)[k] \in D /\ a[k] = h[InOrder(F)[k]]
  BY <1>1 DEF Names
<1>5. \A k \in 1..c : InOrder(G)[k] \in D /\ a[k] = h[InOrder(G)[k]]
  BY <1>2 DEF Names
<1>6. \A k \in 1..c : InOrder(F)[k] = InOrder(G)[k]
  BY <1>4, <1>5
<1>7. \A i : i \in F <=> i \in G
  BY <1>3, <1>6
<1> QED
  BY <1>7

(* A part of the string tells which messages are hidden: each has a generator of   *)
(* its own, and the commitment after them is none.                                 *)
Tells(proof, vk, D, A, B, T) ==
  /\ BytesForChallenge(proof, A, vk) \in Seq(T)
  /\ \A x, v \in Seq(T) :
       BytesForChallenge(proof, A, vk) \o x = BytesForChallenge(proof, B, vk) \o v
         => D \ A = D \ B

(* (pok_sig.rs get_bytes_for_challenge.) *)
LEMMA PartTells ==
  ASSUME NEW vk, NEW sk, NEW n, GoodKey(vk, sk, n), NEW proof, Typed(proof),
         \A i, j \in 0..(n - 1) : vk.h[i] = vk.h[j] => i = j,
         \A i \in 0..(n - 1) : vk.h[i] # proof.proof_vc_2.commitment,
         NEW A, NEW B, NEW T, Fr \subseteq T
  PROVE  Tells(proof, vk, 0..(n - 1), A, B, T)
<1>1. PICK D, y, w, h : /\ D = 0..(n - 1) /\ y = proof.proof_vc_2.commitment
                        /\ w = <<proof.rz.a_bar, proof.rz.a_prime, vk.h0,
                                 proof.proof_vc_1.commitment, proof.rz.d, vk.h0>>
                        /\ h = vk.h
  OBVIOUS
<1>2. /\ DOMAIN vk.h = D /\ y \in T /\ w \in Seq(T)
      /\ \A i, j \in D : h[i] = h[j] => i = j
      /\ \A i \in D : h[i] # y
  <2>1. /\ proof.rz.a_bar \in T /\ proof.rz.a_prime \in T /\ vk.h0 \in T
        /\ proof.proof_vc_1.commitment \in T /\ proof.rz.d \in T /\ y \in T
    BY <1>1 DEF Typed, GoodKey
  <2>2. w \in Seq(T)
    BY <1>1, <2>1
  <2>3. DOMAIN vk.h = D
    BY <1>1 DEF GoodKey
  <2> QED
    BY <1>1, <2>1, <2>2, <2>3
<1>3. PICK F, G : F = D \ A /\ G = D \ B /\ F \in SUBSET D /\ G \in SUBSET D
  <2>1. D \ A \in SUBSET D /\ D \ B \in SUBSET D
    OBVIOUS
  <2> QED
    BY <2>1
<1>4. PICK a \in Seq(Fr), b \in Seq(Fr) : Names(a, h, F) /\ Names(b, h, G)
  BY <1>1, <1>3, AlongNames
<1>5. /\ BytesForChallenge(proof, A, vk) = w \o a \o <<y>>
      /\ BytesForChallenge(proof, B, vk) = w \o b \o <<y>>
  BY <1>1, <1>2, <1>3, <1>4 DEF BytesForChallenge, Along, Names
<1>6. a \in Seq(T) /\ b \in Seq(T)
  BY <1>4
<1>7. w \o a \o <<y>> \in Seq(T)
  <2>1. w \o a \in Seq(T)
    BY <1>2, <1>6, ConcatProperties
  <2>2. <<y>> \in Seq(T)
    BY <1>2
  <2> QED
    BY <2>1, <2>2, ConcatProperties
<1>8. ASSUME NEW x \in Seq(T), NEW v \in Seq(T),
             w \o a \o <<y>> \o x = w \o b \o <<y>> \o v
      PROVE  F = G
  <2>1. \A k \in 1..Len(a) : a[k] # y
    <3>1. Len(a) = Cardinality(F)
      BY <1>4 DEF Names
    <3>2. \A k \in 1..Cardinality(F) : InOrder(F)[k] \in D /\ a[k] = h[InOrder(F)[k]]
      BY <1>3, <1>4 DEF Names
    <3> SUFFICES ASSUME NEW k \in 1..Len(a) PROVE a[k] # y
      OBVIOUS
    <3>3. PICK i \in D : a[k] = h[i]
      BY <3>1, <3>2
    <3> QED
      BY <1>2, <3>3
  <2>2. \A k \in 1..Len(b) : b[k] # y
    <3>1. Len(b) = Cardinality(G)
      BY <1>4 DEF Names
    <3>2. \A k \in 1..Cardinality(G) : InOrder(G)[k] \in D /\ b[k] = h[InOrder(G)[k]]
      BY <1>3, <1>4 DEF Names
    <3> SUFFICES ASSUME NEW k \in 1..Len(b) PROVE b[k] # y
      OBVIOUS
    <3>3. PICK i \in D : b[k] = h[i]
      BY <3>1, <3>2
    <3> QED
      BY <1>2, <3>3
  <2>3. w \in Seq(T) /\ y \in T
    BY <1>2
  <2>4. SameString(w, a, b, y, x, v)
    BY <1>8, <2>1, <2>2 DEF SameString
  <2>5. a = b
    BY <1>6, <2>3, <2>4, GeneratorsEnd
  <2> QED
    BY <1>2, <1>3, <1>4, <2>5, NamesOne
<1> QED
  BY <1>1, <1>3, <1>5, <1>7, <1>8 DEF Tells
--------------------------------------------------------------------------------
(* Reading bytes back as they were written. *)

(* Elements are taken one by one. *)
OneByOne(c, kind, form) ==
  /\ TakeMany(c, kind, form, 0) = c
  /\ \A k \in Nat : TakeMany(c, kind, form, k + 1)
                      = Take(TakeMany(c, kind, form, k), kind, form)

(* (The function that TakeMany is defined by exists.) *)
LEMMA TakeSteps ==
  ASSUME NEW c, NEW kind, NEW form
  PROVE  OneByOne(c, kind, form)
<1> DEFINE Step(g, n) == [k \in 0..n |-> IF k = 0 THEN c ELSE Take(g[k - 1], kind, form)]
           P == {n \in Nat : \E g : g = Step(g, n)}
<1>1. 0 \in P
  <2>1. [k \in 0..0 |-> c] = Step([k \in 0..0 |-> c], 0)
    OBVIOUS
  <2> QED
    BY <2>1
<1>2. ASSUME NEW n \in Nat, n \in P PROVE n + 1 \in P
  <2>1. PICK g : g = Step(g, n)
    BY <1>2
  <2> DEFINE h == [k \in 0..(n + 1) |-> IF k = n + 1 THEN Take(g[n], kind, form) ELSE g[k]]
  <2>2. h = Step(h, n + 1)
    <3>1. \A k \in 0..(n + 1) : h[k] = IF k = 0 THEN c ELSE Take(h[k - 1], kind, form)
      <4> SUFFICES ASSUME NEW k \in 0..(n + 1)
                   PROVE  h[k] = IF k = 0 THEN c ELSE Take(h[k - 1], kind, form)
        OBVIOUS
      <4>1. CASE k = n + 1
        <5>1. h[k] = Take(g[n], kind, form) /\ k # 0 /\ k - 1 = n /\ h[n] = g[n]
          BY <4>1
        <5> QED
          BY <4>1, <5>1
      <4>2. CASE k # n + 1
        <5>1. k \in 0..n /\ h[k] = g[k]
          BY <4>2
        <5>2. k # 0 => k - 1 \in 0..(n + 1) /\ k - 1 # n + 1 /\ h[k - 1] = g[k - 1]
          BY <5>1
        <5>3. g[k] = IF k = 0 THEN c ELSE Take(g[k - 1], kind, form)
          BY <2>1, <5>1
        <5> QED
          BY <5>1, <5>2, <5>3
      <4> QED
        BY <4>1, <4>2
    <3> QED
      BY <3>1
  <2>3. n + 1 \in Nat
    OBVIOUS
  <2> HIDE DEF h
  <2> QED
    BY <2>2, <2>3
<1>3. \A n \in Nat : \E g : g = Step(g, n)
  <2> HIDE DEF P
  <2>1. Nat \subseteq P
    BY <1>1, <1>2, SetInduction
  <2> QED
    BY <2>1 DEF P
<1>4. \A n, m \in Nat : \A g, h : n <= m /\ g = Step(g, n) /\ h = Step(h, m) => g[n] = h[n]
  <2> TAKE n, m \in Nat
  <2> TAKE g, h
  <2> HAVE n <= m /\ g = Step(g, n) /\ h = Step(h, m)
  <2>1. \A k \in 0..n : g[k] = IF k = 0 THEN c ELSE Take(g[k - 1], kind, form)
    OBVIOUS
  <2>2. \A k \in 0..n : h[k] = IF k = 0 THEN c ELSE Take(h[k - 1], kind, form)
    OBVIOUS
  <2> DEFINE Q == {k \in Nat : k <= n => g[k] = h[k]}
  <2>3. 0 \in Q
    BY <2>1, <2>2
  <2>4. ASSUME NEW k \in Nat, k \in Q PROVE k + 1 \in Q
    <3> SUFFICES ASSUME k + 1 <= n PROVE g[k + 1] = h[k + 1]
      OBVIOUS
    <3>1. k + 1 \in 0..n /\ k + 1 # 0 /\ (k + 1) - 1 = k /\ g[k] = h[k]
      BY <2>4
    <3> QED
      BY <2>1, <2>2, <3>1
  <2> HIDE DEF Q
  <2>5. Nat \subseteq Q
    BY <2>3, <2>4, SetInduction
  <2> QED
    <3>1. n \in Q
      BY <2>5
    <3> QED
      BY <3>1 DEF Q
<1> DEFINE G(n) == CHOOSE g : g = Step(g, n)
           s == [k \in Nat |-> G(k)[k]]
           after == CHOOSE g : g = [k \in Nat |-> IF k = 0 THEN c ELSE Take(g[k - 1], kind, form)]
<1>5. \A n \in Nat : G(n) = Step(G(n), n)
  BY <1>3
<1> HIDE DEF G
<1>6. \A k \in Nat : s[k] = IF k = 0 THEN c ELSE Take(s[k - 1], kind, form)
  <2> SUFFICES ASSUME NEW k \in Nat PROVE s[k] = IF k = 0 THEN c ELSE Take(s[k - 1], kind, form)
    OBVIOUS
  <2>1. G(k)[k] = IF k = 0 THEN c ELSE Take(G(k)[k - 1], kind, form)
    <3>1. G(k) = Step(G(k), k)
      BY <1>5
    <3>2. k \in 0..k
      OBVIOUS
    <3> HIDE DEF Step
    <3>3. Step(G(k), k)[k] = IF k = 0 THEN c ELSE Take(G(k)[k - 1], kind, form)
      BY <3>2 DEF Step
    <3> QED
      BY <3>1, <3>3
  <2>2. k # 0 => k - 1 \in Nat /\ k - 1 <= k
    OBVIOUS
  <2>3. k # 0 => G(k - 1)[k - 1] = G(k)[k - 1]
    <3> HIDE DEF Step
    <3> QED
      BY <1>4, <1>5, <2>2
  <2> QED
    BY <2>1, <2>2, <2>3
<1>7. s = [k \in Nat |-> IF k = 0 THEN c ELSE Take(s[k - 1], kind, form)]
  BY <1>6
<1> HIDE DEF s
<1>8. after = [k \in Nat |-> IF k = 0 THEN c ELSE Take(after[k - 1], kind, form)]
  BY <1>7
<1>9. \A n : TakeMany(c, kind, form, n) = after[n]
  BY DEF TakeMany
<1> HIDE DEF after
<1>10. \A k \in Nat : after[k] = IF k = 0 THEN c ELSE Take(after[k - 1], kind, form)
  BY <1>8
<1>11. \A k \in Nat : k + 1 \in Nat /\ k + 1 # 0 /\ (k + 1) - 1 = k
  OBVIOUS
<1>12. /\ TakeMany(c, kind, form, 0) = c
       /\ \A k \in Nat : TakeMany(c, kind, form, k + 1)
                           = Take(TakeMany(c, kind, form, k), kind, form)
  BY <1>9, <1>10, <1>11
<1> QED
  BY <1>12 DEF OneByOne

(* The bytes of values of V; and a cursor at a place in the data, all well. *)
Kinds == {"fr", "g1", "g2", "u32", "u8"}
Layouts == Forms \union {"plain"}
Byte(V) == Kinds \X Layouts \X V \X Nat
Cursor(data, at, out) == [data |-> data, at |-> at, out |-> out, st |-> "ok"]

(* The bytes b are in the data, from at + 1 on. *)
LiesAt(data, at, b) ==
  at + Len(b) <= Len(data) /\ \A k \in 1..Len(b) : data[at + k] = b[k]

(* Every element has bytes. *)
LEMMA SizesArePositive ==
  ASSUME NEW kind \in Kinds, NEW form \in Layouts
  PROVE  Size(kind, form) \in Nat \ {0}
BY SizesAssumption DEF Size, Kinds

(* As many as its size says. *)
LEMMA BytesAre ==
  ASSUME NEW kind \in Kinds, NEW form \in Layouts, NEW V, NEW v \in V
  PROVE  /\ Bytes(kind, form, v) \in Seq(Byte(V))
         /\ Len(Bytes(kind, form, v)) = Size(kind, form)
         /\ \A k \in 1..Size(kind, form) :
              Bytes(kind, form, v)[k] = <<kind, FormOf(kind, form), v, k>>
<1>1. PICK n \in Nat \ {0} : n = Size(kind, form)
  BY SizesArePositive
<1>2. PICK f : f = FormOf(kind, form) /\ f \in Layouts
  BY DEF FormOf, Layouts
<1>3. Bytes(kind, form, v) = [k \in 1..n |-> <<kind, f, v, k>>]
  BY <1>1, <1>2 DEF Bytes
<1>4. \A k \in 1..n : <<kind, f, v, k>> \in Byte(V)
  BY <1>2 DEF Byte
<1>5. [k \in 1..n |-> <<kind, f, v, k>>] \in Seq(Byte(V))
  BY <1>4
<1> QED
  BY <1>1, <1>2, <1>3, <1>5

(* What lies somewhere lies there in parts. *)
LEMMA LiesInParts ==
  ASSUME NEW T, NEW data, NEW at \in Nat, NEW a \in Seq(T), NEW b \in Seq(T),
         LiesAt(data, at, a \o b)
  PROVE  /\ LiesAt(data, at, a) /\ LiesAt(data, at + Len(a), b)
         /\ Len(a \o b) = Len(a) + Len(b) /\ Len(a) \in Nat /\ Len(b) \in Nat
<1> DEFINE ab == a \o b
<1>1. PICK m \in Nat, n \in Nat : m = Len(a) /\ n = Len(b)
  BY LenProperties
<1>2. Len(ab) = m + n /\ \A k \in 1..(m + n) : ab[k] = IF k <= m THEN a[k] ELSE b[k - m]
  BY <1>1, ConcatProperties
<1>3. at + (m + n) <= Len(data) /\ \A k \in 1..(m + n) : data[at + k] = ab[k]
  BY <1>2 DEF LiesAt
<1> HIDE DEF ab
<1>5. \A k \in 1..m : data[at + k] = a[k]
  BY <1>2, <1>3
<1>6. \A k \in 1..n : data[(at + m) + k] = b[k]
  <2> SUFFICES ASSUME NEW k \in 1..n PROVE data[(at + m) + k] = b[k]
    OBVIOUS
  <2>1. PICK j \in 1..(m + n) : j = m + k /\ ~(j <= m) /\ j - m = k /\ at + j = (at + m) + k
    OBVIOUS
  <2>2. data[at + j] = ab[j] /\ ab[j] = b[j - m]
    BY <1>2, <1>3, <2>1
  <2> QED
    BY <2>1, <2>2
<1>7. (at + m) + n <= Len(data)
  <2>1. (at + m) + n = at + (m + n)
    OBVIOUS
  <2> QED
    BY <1>3, <2>1
<1> QED
  BY <1>1, <1>2, <1>3, <1>5, <1>6, <1>7 DEF LiesAt, ab

(* What is cut out of the data where b lies is b. *)
LEMMA CutOut ==
  ASSUME NEW T, NEW data, NEW at \in Nat, NEW b \in Seq(T), LiesAt(data, at, b)
  PROVE  SubSeq(data, at + 1, at + Len(b)) = b
<1>1. PICK n \in Nat : n = Len(b)
  BY LenProperties
<1>2. \A k \in 1..n : data[at + k] = b[k] /\ b[k] \in T
  BY <1>1, ElementOfSeq DEF LiesAt
<1>3. PICK s : s = SubSeq(data, at + 1, at + n)
  OBVIOUS
<1>4. \A i \in (at + 1)..(at + n) : data[i] \in T
  <2> SUFFICES ASSUME NEW i \in (at + 1)..(at + n) PROVE data[i] \in T
    OBVIOUS
  <2>1. PICK k \in 1..n : k = i - at /\ at + k = i
    OBVIOUS
  <2> QED
    BY <1>2, <2>1
<1>5. /\ s \in Seq(T)
      /\ Len(s) = IF at + 1 <= at + n THEN (at + n) - (at + 1) + 1 ELSE 0
      /\ \A i \in 1..((at + n) - (at + 1) + 1) : s[i] = data[at + 1 + i - 1]
  <2>1. at + 1 \in Int /\ at + n \in Int
    OBVIOUS
  <2> QED
    BY <1>3, <1>4, <2>1, SubSeqProperties
<1>6. Len(s) = n /\ \A i \in 1..n : s[i] = data[at + i]
  <2>1. (at + n) - (at + 1) + 1 = n /\ \A i \in 1..n : at + 1 + i - 1 = at + i
    OBVIOUS
  <2> QED
    BY <1>5, <2>1
<1>7. \A i \in 1..Len(s) : s[i] = b[i]
  BY <1>2, <1>6
<1> QED
  BY <1>1, <1>3, <1>5, <1>6, <1>7, SeqEqual

(* deserialize reads the element that lies at the cursor. *)
LEMMA TakeReads ==
  ASSUME NEW kind \in Kinds, NEW form \in Layouts, NEW v, NEW data, NEW at \in Nat, NEW out,
         LiesAt(data, at, Bytes(kind, form, v))
  PROVE  Take(Cursor(data, at, out), kind, form)
           = Cursor(data, at + Size(kind, form), Append(out, v))
<1> DEFINE c == Cursor(data, at, out)
           b == Bytes(kind, form, v)
<1>0. PICK f : f = FormOf(kind, form)
  OBVIOUS
<1>1. PICK n \in Nat \ {0} : n = Size(kind, form)
  BY SizesArePositive
<1>2. Len(b) = n /\ \A k \in 1..n : b[k] = <<kind, f, v, k>>
  <2>1. v \in {v}
    OBVIOUS
  <2> QED
    BY <1>0, <1>1, <2>1, BytesAre
<1>3. at + n <= Len(data) /\ \A k \in 1..n : data[at + k] = <<kind, f, v, k>>
  BY <1>2 DEF LiesAt
<1> HIDE DEF b
<1>4. data[at + 1][3] = v
  BY <1>3
<1>5. c.st = "ok" /\ c.at = at /\ c.data = data /\ c.out = out
  BY DEF Cursor
<1> HIDE DEF c
<1>6. HoldsElement(c, kind, form)
  BY <1>0, <1>1, <1>3, <1>4, <1>5 DEF HoldsElement
<1>7. Take(c, kind, form) = Advanced(c, n, v)
  BY <1>1, <1>4, <1>5, <1>6 DEF Take
<1> QED
  BY <1>1, <1>5, <1>7 DEF Advanced, Cursor, c

(* The bytes of values vs, one value more at a time. *)
Stepwise(g, kind, form, V, vs) ==
  /\ g[0] = << >> /\ BytesOfAll(kind, form, vs) = g[Len(vs)]
  /\ \A k \in 0..Len(vs) :
       g[k] \in Seq(Byte(V)) /\ Len(g[k]) = k * Size(kind, form)
  /\ \A k \in 0..(Len(vs) - 1) : g[k + 1] = g[k] \o Bytes(kind, form, vs[k + 1])

(* (They are joined one by one.) *)
LEMMA BytesInSteps ==
  ASSUME NEW kind \in Kinds, NEW form \in Layouts, NEW V, NEW vs \in Seq(V)
  PROVE  \E g : Stepwise(g, kind, form, V, vs)
<1>1. PICK n \in Nat, z \in Nat \ {0} : n = Len(vs) /\ z = Size(kind, form)
  <2>1. Len(vs) \in Nat
    BY LenProperties
  <2> QED
    BY <2>1, SizesArePositive
<1>2. PICK s : s = [k \in 1..n |-> Bytes(kind, form, vs[k])]
  OBVIOUS
<1>3. BytesOfAll(kind, form, vs) = Concat(s)
  <2>1. DOMAIN vs = 1..n
    BY <1>1, LenProperties
  <2> QED
    BY <1>2, <2>1 DEF BytesOfAll
<1>4. \A k \in 1..n : s[k] \in Seq(Byte(V)) /\ Len(s[k]) = z
  <2> SUFFICES ASSUME NEW k \in 1..n PROVE s[k] \in Seq(Byte(V)) /\ Len(s[k]) = z
    OBVIOUS
  <2>1. vs[k] \in V
    BY <1>1, ElementOfSeq
  <2> QED
    BY <1>1, <1>2, <2>1, BytesAre
<1>5. CASE n = 0
  <2>1. Concat(s) = << >>
    <3>1. s = << >> /\ Len(s) = 0
      BY <1>2, <1>5
    <3> QED
      BY <3>1 DEF Concat, FlattenSeq
  <2>2. PICK g : g = [k \in 0..0 |-> << >>]
    OBVIOUS
  <2>3. g[0] = << >> /\ << >> \in Seq(Byte(V)) /\ Len(<< >>) = 0 * z
    BY <1>1, <2>2
  <2>4. \A k \in 0..n : k = 0
    BY <1>5
  <2>5. \A k \in 0..(n - 1) : FALSE
    BY <1>5
  <2> QED
    BY <1>1, <1>3, <1>5, <2>1, <2>3, <2>4, <2>5 DEF Stepwise
<1>6. CASE n # 0
  <2>1. n \in Nat \ {0} /\ Strings(Byte(V), s, n)
    BY <1>2, <1>4, <1>6 DEF Strings
  <2>2. PICK f : Joining(s, f, n) /\ Concat(s) = f[n]
    BY <2>1, ConcatIs
  <2>3. \A i \in 1..n : f[i] = IF i = 1 THEN s[i] ELSE f[i - 1] \o s[i]
    <3>1. f = [i \in 1..n |-> IF i = 1 THEN s[i] ELSE f[i - 1] \o s[i]]
      BY <2>2 DEF Joining
    <3> QED
      BY ONLY <3>1
  <2>4. PICK g : g = [k \in 0..n |-> IF k = 0 THEN << >> ELSE f[k]]
    OBVIOUS
  <2>5. ASSUME NEW k \in 0..(n - 1)
        PROVE  /\ k \in 0..n /\ k + 1 \in 0..n /\ s[k + 1] \in Seq(Byte(V))
               /\ Len(s[k + 1]) = z /\ s[k + 1] = Bytes(kind, form, vs[k + 1])
               /\ g[k] \in Seq(Byte(V)) => g[k + 1] = g[k] \o s[k + 1]
    <3>1. k \in 0..n /\ k + 1 \in 0..n /\ k + 1 \in 1..n /\ k + 1 # 0 /\ (k + 1) - 1 = k
      OBVIOUS
    <3>2. /\ s[k + 1] \in Seq(Byte(V)) /\ Len(s[k + 1]) = z
          /\ s[k + 1] = Bytes(kind, form, vs[k + 1])
      BY <1>2, <1>4, <3>1
    <3>3. g[k + 1] = IF k + 1 = 1 THEN s[k + 1] ELSE f[k] \o s[k + 1]
      BY <2>3, <2>4, <3>1
    <3>4. k # 0 => g[k] = f[k] /\ k + 1 # 1
      BY <2>4, <3>1
    <3>5. k = 0 => g[k] = << >> /\ k + 1 = 1
      BY <2>4, <3>1
    <3>6. << >> \o s[k + 1] = s[k + 1]
      BY <3>2, ConcatEmptySeq
    <3>7. g[k + 1] = g[k] \o s[k + 1]
      BY <3>3, <3>4, <3>5, <3>6
    <3> QED
      BY <3>1, <3>2, <3>7
  <2> DEFINE P == {k \in Nat : k <= n => g[k] \in Seq(Byte(V)) /\ Len(g[k]) = k * z}
  <2>6. 0 \in P
    <3>1. g[0] = << >> /\ << >> \in Seq(Byte(V)) /\ Len(<< >>) = 0 /\ 0 * z = 0
      BY <2>4
    <3> QED
      BY <3>1
  <2>7. ASSUME NEW k \in Nat, k \in P PROVE k + 1 \in P
    <3> SUFFICES ASSUME k + 1 <= n
                 PROVE  g[k + 1] \in Seq(Byte(V)) /\ Len(g[k + 1]) = (k + 1) * z
      OBVIOUS
    <3>1. k \in 0..(n - 1) /\ g[k] \in Seq(Byte(V)) /\ Len(g[k]) = k * z
      BY <2>7
    <3>2. PICK a \in Seq(Byte(V)), b \in Seq(Byte(V)) :
            a = g[k] /\ b = s[k + 1] /\ Len(b) = z /\ g[k + 1] = a \o b
      BY <2>5, <3>1
    <3>3. a \o b \in Seq(Byte(V)) /\ Len(a \o b) = Len(a) + Len(b)
      BY ConcatProperties
    <3>4. k * z + z = (k + 1) * z
      OBVIOUS
    <3> QED
      BY <3>1, <3>2, <3>3, <3>4
  <2> HIDE DEF P
  <2>8. Nat \subseteq P
    BY <2>6, <2>7, SetInduction
  <2>9. \A k \in 0..n : g[k] \in Seq(Byte(V)) /\ Len(g[k]) = k * z
    BY <2>8 DEF P
  <2>10. \A k \in 0..(n - 1) : g[k + 1] = g[k] \o Bytes(kind, form, vs[k + 1])
    BY <2>5, <2>9
  <2>11. g[0] = << >> /\ Concat(s) = g[n]
    BY <1>6, <2>2, <2>4
  <2> QED
    BY <1>1, <1>3, <2>9, <2>10, <2>11 DEF Stepwise
<1> QED
  BY <1>5, <1>6

(* Reading many elements where the bytes of vs lie gives vs. *)
LEMMA TakeManyReads ==
  ASSUME NEW kind \in Kinds, NEW form \in Layouts, NEW V, NEW vs \in Seq(V),
         NEW W, V \subseteq W, NEW data, NEW at \in Nat, NEW out \in Seq(W),
         LiesAt(data, at, BytesOfAll(kind, form, vs))
  PROVE  TakeMany(Cursor(data, at, out), kind, form, Len(vs))
           = Cursor(data, at + Len(vs) * Size(kind, form), out \o vs)
<1>1. PICK n \in Nat, z \in Nat \ {0} : n = Len(vs) /\ z = Size(kind, form)
  <2>1. Len(vs) \in Nat
    BY LenProperties
  <2> QED
    BY <2>1, SizesArePositive
<1>2. PICK g : Stepwise(g, kind, form, V, vs)
  BY BytesInSteps
<1>3. /\ g[0] = << >> /\ BytesOfAll(kind, form, vs) = g[n]
      /\ \A k \in 0..n : g[k] \in Seq(Byte(V)) /\ Len(g[k]) = k * z
      /\ \A k \in 0..(n - 1) : g[k + 1] = g[k] \o Bytes(kind, form, vs[k + 1])
  BY <1>1, <1>2 DEF Stepwise
<1>4. ASSUME NEW k \in 0..(n - 1)
      PROVE  /\ k \in 0..n /\ k + 1 \in 1..n /\ k + 1 \in 0..n /\ vs[k + 1] \in V
             /\ LiesAt(data, at, g[k + 1]) =>
                  /\ LiesAt(data, at, g[k])
                  /\ LiesAt(data, at + k * z, Bytes(kind, form, vs[k + 1]))
  <2>1. k \in 0..n /\ k + 1 \in 1..n /\ k + 1 \in 0..n
    OBVIOUS
  <2>2. vs[k + 1] \in V
    BY <1>1, <2>1, ElementOfSeq
  <2>3. PICK a \in Seq(Byte(V)), b \in Seq(Byte(V)) :
          a = g[k] /\ b = Bytes(kind, form, vs[k + 1])
    BY <1>3, <2>1, <2>2, BytesAre
  <2>4. LiesAt(data, at, a \o b) => LiesAt(data, at, a) /\ LiesAt(data, at + Len(a), b)
    BY LiesInParts
  <2> QED
    BY <1>3, <2>1, <2>2, <2>3, <2>4
<1> DEFINE P == {j \in Nat : j <= n => LiesAt(data, at, g[n - j])}
<1>5. 0 \in P
  BY <1>3
<1>6. ASSUME NEW j \in Nat, j \in P PROVE j + 1 \in P
  <2> SUFFICES ASSUME j + 1 <= n PROVE LiesAt(data, at, g[n - (j + 1)])
    OBVIOUS
  <2>1. PICK k \in 0..(n - 1) : k = n - (j + 1) /\ k + 1 = n - j
    OBVIOUS
  <2>2. LiesAt(data, at, g[k + 1])
    BY <1>6, <2>1
  <2> QED
    BY <1>4, <2>1, <2>2
<1> HIDE DEF P
<1>7. Nat \subseteq P
  BY <1>5, <1>6, SetInduction
<1>8. \A k \in 0..n : LiesAt(data, at, g[k])
  <2> SUFFICES ASSUME NEW k \in 0..n PROVE LiesAt(data, at, g[k])
    OBVIOUS
  <2>1. PICK j \in Nat : j = n - k /\ j <= n /\ n - j = k
    OBVIOUS
  <2>2. j \in P
    BY <1>7
  <2> QED
    BY <2>1, <2>2 DEF P
<1>0. PICK c : c = Cursor(data, at, out)
  OBVIOUS
<1>14. /\ TakeMany(c, kind, form, 0) = c
       /\ \A k \in Nat : TakeMany(c, kind, form, k + 1)
                           = Take(TakeMany(c, kind, form, k), kind, form)
  <2>1. OneByOne(c, kind, form)
    BY TakeSteps
  <2> QED
    BY ONLY <2>1 DEF OneByOne
<1> DEFINE upto(k) == SubSeq(vs, 1, k)
           Q == {k \in Nat : k <= n =>
                   TakeMany(c, kind, form, k) = Cursor(data, at + k * z, out \o upto(k))}
<1>9. 0 \in Q
  <2>1. upto(0) = << >>
    BY SubSeqEmpty
  <2>2. out \o << >> = out
    BY ConcatEmptySeq
  <2>3. at + 0 * z = at
    OBVIOUS
  <2>4. TakeMany(c, kind, form, 0) = c
    BY <1>14
  <2> QED
    BY <1>0, <2>1, <2>2, <2>3, <2>4
<1>10. ASSUME NEW k \in Nat, k \in Q PROVE k + 1 \in Q
  <2> SUFFICES ASSUME k + 1 <= n
               PROVE  TakeMany(c, kind, form, k + 1)
                        = Cursor(data, at + (k + 1) * z, out \o upto(k + 1))
    OBVIOUS
  <2>1. k \in 0..(n - 1) /\ k \in 0..n /\ k + 1 \in 0..n /\ k + 1 \in 1..n
    OBVIOUS
  <2>2. LiesAt(data, at + k * z, Bytes(kind, form, vs[k + 1])) /\ vs[k + 1] \in V
    BY <1>4, <1>8, <2>1
  <2>3. PICK o, p : /\ o = out \o upto(k) /\ p = at + k * z
                    /\ p \in Nat /\ p + z = at + (k + 1) * z
    <3>1. at + k * z \in Nat /\ (at + k * z) + z = at + (k + 1) * z
      OBVIOUS
    <3> QED
      BY <3>1
  <2>4. TakeMany(c, kind, form, k) = Cursor(data, p, o)
    BY <1>10, <2>1, <2>3
  <2>5. Take(Cursor(data, p, o), kind, form) = Cursor(data, p + z, Append(o, vs[k + 1]))
    <3>1. /\ LiesAt(data, p, Bytes(kind, form, vs[k + 1])) /\ p \in Nat
          /\ kind \in Kinds /\ form \in Layouts /\ z = Size(kind, form)
      BY <1>1, <2>2, <2>3
    <3> QED
      BY ONLY <3>1, TakeReads
  <2>6. TakeMany(c, kind, form, k + 1) = Take(TakeMany(c, kind, form, k), kind, form)
    BY ONLY <1>14, k \in Nat
  <2>7. Append(o, vs[k + 1]) = out \o upto(k + 1)
    <3>1. PICK a \in Seq(W), b \in Seq(W) : a = upto(k) /\ b = <<vs[k + 1]>>
      <4>1. \A i \in 1..k : vs[i] \in V
        BY <1>1, <2>1, ElementOfSeq
      <4>2. upto(k) \in Seq(W)
        <5>1. \A i \in 1..k : vs[i] \in W
          BY <4>1
        <5> QED
          BY <5>1, SubSeqProperties
      <4>3. <<vs[k + 1]>> \in Seq(W)
        BY <2>2
      <4> QED
        BY <4>2, <4>3
    <3>2. upto(k + 1) = a \o b
      <4>1. 1 \in 1..Len(vs) /\ k + 1 \in 1..Len(vs) /\ (k + 1) - 1 = k
        BY <1>1, <2>1
      <4>2. SubSeq(vs, 1, k + 1) = SubSeq(vs, 1, (k + 1) - 1) \o <<vs[k + 1]>>
        BY <4>1, SubSeqRecursiveSecond
      <4> QED
        BY <3>1, <4>1, <4>2
    <3>3. o \in Seq(W) /\ o = out \o a
      BY <2>3, <3>1, ConcatProperties
    <3>4. Append(o, vs[k + 1]) = o \o b
      <4>1. vs[k + 1] \in W
        BY <2>2
      <4> QED
        BY <3>1, <3>3, <4>1, AppendIsConcat
    <3>5. (out \o a) \o b = out \o (a \o b)
      <4>1. out \in Seq(W) /\ a \in Seq(W) /\ b \in Seq(W)
        BY <3>1
      <4>2. Associate(out, a, b)
        BY ONLY <4>1, JoinsAssociate
      <4> QED
        BY ONLY <4>2 DEF Associate
    <3> QED
      BY <3>2, <3>3, <3>4, <3>5
  <2> QED
    BY <2>3, <2>4, <2>5, <2>6, <2>7
<1> HIDE DEF Q
<1>11. n \in Q
  BY <1>9, <1>10, SetInduction
<1>12. upto(n) = vs
  BY <1>1, SubSeqFull
<1>13. TakeMany(c, kind, form, n) = Cursor(data, at + n * z, out \o upto(n))
  BY <1>11 DEF Q
<1> QED
  BY <1>1, <1>0, <1>12, <1>13

(* Two values, one after the other. *)
OneThenTwo(V, x, y, a, b, c) ==
  /\ a \in Seq(V) /\ b \in Seq(V) /\ c \in Seq(V)
  /\ a = << >> /\ b = Append(a, x) /\ c = Append(b, y)
  /\ c[1] = x /\ Len(c) = 2 /\ c[2] = y

(* (As a cursor finds them.) *)
LEMMA TwoValues ==
  ASSUME NEW V, NEW x \in V, NEW y \in V
  PROVE  \E a, b, c : OneThenTwo(V, x, y, a, b, c)
<1>1. PICK a \in Seq(V) : a = << >>
  BY EmptySeq
<1>2. PICK b \in Seq(V) : b = Append(a, x)
  BY <1>1, AppendProperties
<1>3. Len(b) = 1 /\ b[1] = x
  BY <1>1, <1>2
<1>4. PICK c \in Seq(V) : c = Append(b, y)
  BY <1>2, AppendProperties
<1>5. /\ Len(c) = Len(b) + 1 /\ c[Len(b) + 1] = y
      /\ \A i \in 1..Len(b) : c[i] = b[i]
  BY <1>4, AppendProperties
<1>6. Len(c) = 2 /\ c[2] = y /\ c[1] = x
  BY <1>3, <1>5
<1> QED
  BY <1>1, <1>2, <1>4, <1>6 DEF OneThenTwo

(* A proof of committed values, made of values of V. *)
CommittedProof(p, V) ==
  /\ p = [commitment |-> p.commitment, responses |-> p.responses]
  /\ p.commitment \in V /\ p.responses \in Seq(V)
ProofReadsBack(p, form, V) ==
  /\ ProofG1ToBytes(p, form) \in Seq(Byte(V))
  /\ ProofG1FromBytes(ProofG1ToBytes(p, form), form) = Ok(p)

(* It is read back, however many responses it has (pok_vc.rs to_bytes, from_bytes). *)
LEMMA ProofG1Reads ==
  ASSUME NEW form \in Forms, NEW V, Nat \subseteq V, NEW p, CommittedProof(p, V)
  PROVE  ProofReadsBack(p, form, V)
<1>1. PICK x \in V, r \in Seq(V) : /\ p = [commitment |-> x, responses |-> r]
                                   /\ p.commitment = x /\ p.responses = r
  BY DEF CommittedProof
<1>2. PICK n \in Nat : n = Len(r) /\ n \in V
  <2>1. Len(r) \in Nat
    BY LenProperties
  <2> QED
    BY <2>1
<1>3. PICK g \in Nat \ {0}, l \in Nat \ {0}, z \in Nat \ {0} :
        g = Size("g1", form) /\ l = Size("u32", form) /\ z = Size("fr", form)
  BY SizesArePositive DEF Kinds, Layouts
<1>4. LEN_SIZE = l /\ FR_SIZE = z
  BY <1>3 DEF Size
<1>5. PICK a \in Seq(Byte(V)), b \in Seq(Byte(V)), e \in Seq(Byte(V)) :
        /\ a = Bytes("g1", form, x) /\ b = Bytes("u32", form, n)
        /\ e = BytesOfAll("fr", form, r)
        /\ Len(a) = g /\ Len(b) = l /\ Len(e) = n * z
  <2>1. /\ Bytes("g1", form, x) \in Seq(Byte(V)) /\ Len(Bytes("g1", form, x)) = g
        /\ Bytes("u32", form, n) \in Seq(Byte(V)) /\ Len(Bytes("u32", form, n)) = l
    BY <1>2, <1>3, BytesAre DEF Kinds, Layouts
  <2>2. PICK s : Stepwise(s, "fr", form, V, r)
    BY BytesInSteps DEF Kinds, Layouts
  <2>3. BytesOfAll("fr", form, r) = s[n] /\ s[n] \in Seq(Byte(V)) /\ Len(s[n]) = n * z
    BY <1>2, <1>3, <2>2 DEF Stepwise
  <2> QED
    BY <2>1, <2>3
<1>6. PICK d \in Seq(Byte(V)) : d = ProofG1ToBytes(p, form) /\ d = (a \o b) \o e
  <2>1. a \o b \in Seq(Byte(V))
    BY ConcatProperties
  <2>2. (a \o b) \o e \in Seq(Byte(V))
    BY <2>1, ConcatProperties
  <2> QED
    BY <1>1, <1>2, <1>5, <2>2 DEF ProofG1ToBytes
<1>7. /\ LiesAt(d, 0, a) /\ LiesAt(d, g, b) /\ LiesAt(d, g + l, e)
      /\ Len(d) = g + l + n * z
  <2>1. PICK ab \in Seq(Byte(V)) : ab = a \o b
    BY ConcatProperties
  <2>2. LiesAt(d, 0, ab \o e)
    <3>1. Len(d) \in Nat
      BY LenProperties
    <3> QED
      BY <1>6, <2>1, <3>1 DEF LiesAt
  <2>3. LiesAt(d, 0, ab) /\ LiesAt(d, 0 + Len(ab), e) /\ Len(ab \o e) = Len(ab) + Len(e)
    BY <2>2, LiesInParts, 0 \in Nat
  <2>4. LiesAt(d, 0, a) /\ LiesAt(d, 0 + Len(a), b) /\ Len(a \o b) = Len(a) + Len(b)
    BY <2>1, <2>3, LiesInParts, 0 \in Nat
  <2>5. 0 + Len(a) = g /\ Len(ab) = g + l /\ 0 + Len(ab) = g + l /\ Len(ab \o e) = g + l + n * z
    <3>1. Len(ab) = g + l
      BY <1>5, <2>1, <2>4
    <3>2. Len(ab \o e) = (g + l) + n * z
      BY <1>5, <2>3, <3>1
    <3>3. 0 + g = g /\ 0 + (g + l) = g + l
      OBVIOUS
    <3> QED
      BY <1>5, <3>1, <3>2, <3>3
  <2> QED
    BY <1>6, <2>1, <2>3, <2>4, <2>5
<1>8. PICK o0 \in Seq(V), o1 \in Seq(V), o2 \in Seq(V) :
        /\ o0 = << >> /\ o1 = Append(o0, x) /\ o2 = Append(o1, n)
        /\ o2[1] = x /\ Len(o2) = 2 /\ o2[2] = n
  <2>1. PICK o0, o1, o2 : OneThenTwo(V, x, n, o0, o1, o2)
    BY <1>2, TwoValues
  <2> QED
    BY <2>1 DEF OneThenTwo
<1>9. CursorOn(d) = Cursor(d, 0, o0)
  BY <1>8 DEF CursorOn, Cursor
<1>10. AtLeast(Cursor(d, 0, o0), g + l) = Cursor(d, 0, o0)
  <2>1. ~(Len(d) < g + l)
    <3>1. n * z >= 0
      OBVIOUS
    <3> QED
      BY <1>7, <3>1
  <2> QED
    BY <2>1 DEF AtLeast, Cursor
<1>11. Take(Cursor(d, 0, o0), "g1", form) = Cursor(d, g, o1)
  <2>1. Take(Cursor(d, 0, o0), "g1", form) = Cursor(d, 0 + Size("g1", form), Append(o0, x))
    BY <1>5, <1>7, TakeReads, 0 \in Nat DEF Kinds, Layouts
  <2>2. 0 + g = g
    OBVIOUS
  <2> QED
    BY <1>3, <1>8, <2>1, <2>2
<1>12. TakeOrPanic(Cursor(d, g, o1), "u32", form) = Cursor(d, g + l, o2)
  <2>1. Take(Cursor(d, g, o1), "u32", form) = Cursor(d, g + l, o2)
    <3>1. /\ "u32" \in Kinds /\ form \in Layouts /\ g \in Nat
          /\ LiesAt(d, g, Bytes("u32", form, n))
      BY <1>3, <1>5, <1>7 DEF Kinds, Layouts
    <3>2. Take(Cursor(d, g, o1), "u32", form) = Cursor(d, g + Size("u32", form), Append(o1, n))
      BY ONLY <3>1, TakeReads
    <3>3. Append(o1, n) = o2 /\ Size("u32", form) = l
      BY <1>3, <1>8
    <3> QED
      BY ONLY <3>2, <3>3
  <2>2. Cursor(d, g + l, o2).st = "ok"
    BY DEF Cursor
  <2> QED
    BY <2>1, <2>2 DEF TakeOrPanic
<1>13. PICK c : c = Cursor(d, g + l, o2)
  OBVIOUS
<1>14. c.st = "ok" /\ LastRead(c) = n /\ Len(c.data) = g + l + n * z
  BY <1>7, <1>8, <1>13 DEF Cursor, LastRead
<1>15. AtLeast(c, g + l + n * z) = c
  <2>1. ~(g + l + n * z < g + l + n * z)
    OBVIOUS
  <2> QED
    BY <1>14, <2>1 DEF AtLeast
<1>16. TakeMany(c, "fr", form, n) = Cursor(d, g + l + n * z, o2 \o r)
  <2>1. g + l \in Nat /\ LiesAt(d, g + l, BytesOfAll("fr", form, r))
    BY <1>5, <1>7
  <2>2. TakeMany(Cursor(d, g + l, o2), "fr", form, Len(r))
          = Cursor(d, (g + l) + Len(r) * Size("fr", form), o2 \o r)
    BY <2>1, TakeManyReads, V \subseteq V DEF Kinds, Layouts
  <2> QED
    BY <1>2, <1>3, <1>13, <2>2
<1>17. (o2 \o r)[1] = x /\ SubSeq(o2 \o r, 3, Len(o2 \o r)) = r
  <2>1. /\ o2 \o r \in Seq(V) /\ Len(o2 \o r) = 2 + n
        /\ \A i \in 1..(2 + n) : (o2 \o r)[i] = IF i <= 2 THEN o2[i] ELSE r[i - 2]
    BY <1>2, <1>8, ConcatProperties
  <2>2. PICK q \in Seq(V) : q = o2 \o r
    BY <2>1
  <2>3. q[1] = x
    BY <1>8, <2>1, <2>2
  <2>4. LiesAt(q, 2, r)
    <3>1. \A k \in 1..n : 2 + k \in 1..(2 + n) /\ ~(2 + k <= 2) /\ (2 + k) - 2 = k
      OBVIOUS
    <3>2. \A k \in 1..n : q[2 + k] = r[k]
      BY <2>1, <2>2, <3>1
    <3> QED
      BY <1>2, <2>1, <2>2, <3>2 DEF LiesAt
  <2>5. SubSeq(q, 2 + 1, 2 + n) = r
    BY <1>2, <2>4, CutOut
  <2> QED
    BY <2>1, <2>2, <2>3, <2>5
<1>18. Onward(c, LAMBDA h : TakeMany(AtLeast(h, Size("g1", form) + LEN_SIZE
                                                 + LastRead(h) * FR_SIZE),
                                     "fr", form, LastRead(h)))
         = Cursor(d, g + l + n * z, o2 \o r)
  BY <1>3, <1>4, <1>14, <1>15, <1>16 DEF Onward
<1>19. TakeOrPanic(Take(AtLeast(CursorOn(d), Size("g1", form) + LEN_SIZE), "g1", form),
                   "u32", form) = c
  BY <1>3, <1>4, <1>9, <1>10, <1>11, <1>12, <1>13
<1>20. ProofG1FromBytes(d, form) = Ok(p)
  <2>0. PICK h : h = Cursor(d, g + l + n * z, o2 \o r)
    OBVIOUS
  <2>1. h = Cursor(d, g + l + n * z, o2 \o r) /\ h.st = "ok" /\ h.out = o2 \o r
    BY <2>0 DEF Cursor
  <2>2. ProofG1FromBytes(d, form)
          = Read(h, LAMBDA o : [commitment |-> o[1], responses |-> SubSeq(o, 3, Len(o))])
    BY <1>18, <1>19, <2>1 DEF ProofG1FromBytes
  <2> QED
    BY <1>1, <1>17, <2>1, <2>2 DEF Read
<1> QED
  BY <1>6, <1>20 DEF ProofReadsBack

(* The proof p lies at the cursor, among values of V and W. *)
AtCursor(data, at, b, p, V, W, out) ==
  /\ Nat \subseteq V /\ CommittedProof(p, V) /\ at \in Nat
  /\ Nat \subseteq W /\ out \in Seq(W) /\ LiesAt(data, at, b)

TakeProof(c, form) == TakePrefixed(c, LAMBDA d : ProofG1FromBytes(d, form))
TakeLast(c, form) == TakeRest(c, LAMBDA d : ProofG1FromBytes(d, form))

(* A proof with its length before it is read where it lies. *)
LEMMA PrefixedReads ==
  ASSUME NEW form \in Forms, NEW V, NEW p, NEW data, NEW at, NEW W, NEW out,
         AtCursor(data, at, Prefixed(ProofG1ToBytes(p, form)), p, V, W, out)
  PROVE  /\ TakeProof(Cursor(data, at, out), form)
              = Cursor(data, at + Len(Prefixed(ProofG1ToBytes(p, form))), Append(out, p))
         /\ Prefixed(ProofG1ToBytes(p, form)) \in Seq(Byte(V))
<1> /\ Nat \subseteq V /\ CommittedProof(p, V) /\ at \in Nat /\ Nat \subseteq W
    /\ out \in Seq(W) /\ LiesAt(data, at, Prefixed(ProofG1ToBytes(p, form)))
  BY DEF AtCursor
<1>1. PICK b \in Seq(Byte(V)) :
        b = ProofG1ToBytes(p, form) /\ ProofG1FromBytes(b, form) = Ok(p)
  BY ProofG1Reads DEF ProofReadsBack
<1>2. PICK n \in Nat, l \in Nat \ {0} : n = Len(b) /\ l = Size("u32", "plain")
  <2>1. Len(b) \in Nat
    BY LenProperties
  <2> QED
    BY <2>1, SizesArePositive DEF Kinds, Layouts
<1>3. PICK a \in Seq(Byte(V)) : a = Bytes("u32", "plain", n) /\ Len(a) = l
  BY <1>2, BytesAre DEF Kinds, Layouts
<1>4. Prefixed(b) = a \o b
  BY <1>2, <1>3 DEF Prefixed
<1>5. /\ LiesAt(data, at, a) /\ LiesAt(data, at + l, b) /\ Len(a \o b) = l + n
      /\ a \o b \in Seq(Byte(V))
  <2>1. LiesAt(data, at, a \o b)
    BY <1>1, <1>4
  <2>2. /\ LiesAt(data, at, a) /\ LiesAt(data, at + Len(a), b)
        /\ Len(a \o b) = Len(a) + Len(b)
    BY <2>1, LiesInParts
  <2>3. a \o b \in Seq(Byte(V))
    BY ConcatProperties
  <2> QED
    BY <1>2, <1>3, <2>2, <2>3
<1>6. PICK c, o : c = Cursor(data, at + l, o) /\ o = Append(out, n)
  OBVIOUS
<1>7. c.st = "ok" /\ c.out = o /\ c.at = at + l /\ c.data = data
  BY <1>6 DEF Cursor
<1>8. o \in Seq(W) /\ o[Len(o)] = n /\ Front(o) = out
  <2>1. n \in W
    OBVIOUS
  <2>2. /\ o \in Seq(W) /\ Len(o) = Len(out) + 1 /\ o[Len(out) + 1] = n
        /\ \A i \in 1..Len(out) : o[i] = out[i]
    BY <1>6, <2>1, AppendProperties
  <2>3. PICK m \in Nat : m = Len(out)
    BY LenProperties
  <2>4. SubSeq(o, 1, m) = out
    <3>1. LiesAt(o, 0, out)
      BY <2>2, <2>3 DEF LiesAt
    <3>2. SubSeq(o, 0 + 1, 0 + m) = out
      BY <2>3, <3>1, CutOut, 0 \in Nat
    <3> QED
      BY <3>2
  <2>5. Len(o) - 1 = m
    BY <2>2, <2>3
  <2> QED
    BY <2>2, <2>4, <2>5 DEF Front
<1>9. TakeOrPanic(Cursor(data, at, out), "u32", "plain") = c
  <2>1. Take(Cursor(data, at, out), "u32", "plain") = c
    BY <1>2, <1>3, <1>5, <1>6, TakeReads DEF Kinds, Layouts
  <2> QED
    BY <1>7, <2>1 DEF TakeOrPanic
<1>10. PICK h : h = Cursor(data, at + l, out)
  OBVIOUS
<1>11. /\ h.st = "ok" /\ h.out = out /\ h.at = at + l /\ h.data = data
       /\ DropLast(c) = h /\ LastRead(c) = n
  <2>1. h.st = "ok" /\ h.out = out /\ h.at = at + l /\ h.data = data
    BY ONLY <1>10 DEF Cursor
  <2>2. LastRead(c) = n
    BY ONLY <1>6, <1>8 DEF Cursor, LastRead
  <2>3. DropLast(c) = h
    BY ONLY <1>6, <1>8, <1>10 DEF Cursor, DropLast
  <2> QED
    BY ONLY <2>1, <2>2, <2>3
<1>12. SubSeq(data, (at + l) + 1, (at + l) + n) = b /\ ~((at + l) + n > Len(data))
  <2>1. at + l \in Nat
    OBVIOUS
  <2>2. (at + l) + n <= Len(data)
    BY <1>2, <1>5 DEF LiesAt
  <2>3. SubSeq(data, (at + l) + 1, (at + l) + n) = b
    <3>1. LiesAt(data, at + l, b) /\ b \in Seq(Byte(V)) /\ Len(b) = n
      BY <1>2, <1>5
    <3> QED
      BY ONLY <2>1, <3>1, CutOut
  <2> QED
    BY <2>1, <2>2, <2>3
<1>13. TakeNested(h, n, LAMBDA d : ProofG1FromBytes(d, form)) = TakeResult(h, n, Ok(p))
  BY <1>1, <1>11, <1>12 DEF TakeNested
<1>14. TakeResult(h, n, Ok(p)) = Cursor(data, at + (l + n), Append(out, p))
  <2>1. (at + l) + n = at + (l + n)
    OBVIOUS
  <2> QED
    BY <1>11, <2>1 DEF TakeResult, Ok, Advanced, Cursor
<1>15. TakePrefixed(Cursor(data, at, out), LAMBDA d : ProofG1FromBytes(d, form))
         = TakeNested(h, n, LAMBDA d : ProofG1FromBytes(d, form))
  BY <1>7, <1>9, <1>11 DEF TakePrefixed, Onward
<1>16. TakeProof(Cursor(data, at, out), form)
         = Cursor(data, at + Len(Prefixed(b)), Append(out, p))
  BY <1>4, <1>5, <1>13, <1>14, <1>15 DEF TakeProof
<1> QED
  BY <1>1, <1>4, <1>5, <1>16

(* So is one that lies at the end. *)
LEMMA RestReads ==
  ASSUME NEW form \in Forms, NEW V, NEW p, NEW data, NEW at, NEW W, NEW out,
         AtCursor(data, at, ProofG1ToBytes(p, form), p, V, W, out),
         Len(data) = at + Len(ProofG1ToBytes(p, form))
  PROVE  TakeLast(Cursor(data, at, out), form)
           = Cursor(data, Len(data), Append(out, p))
<1> /\ Nat \subseteq V /\ CommittedProof(p, V) /\ at \in Nat
    /\ LiesAt(data, at, ProofG1ToBytes(p, form))
  BY DEF AtCursor
<1>1. PICK b \in Seq(Byte(V)) :
        b = ProofG1ToBytes(p, form) /\ ProofG1FromBytes(b, form) = Ok(p)
  BY ProofG1Reads DEF ProofReadsBack
<1>2. PICK n \in Nat : n = Len(b)
  BY LenProperties
<1>3. Len(data) - at = n /\ ~(at + n > Len(data)) /\ at + n = Len(data)
  BY <1>1, <1>2
<1>4. SubSeq(data, at + 1, at + n) = b
  BY <1>1, <1>2, CutOut
<1>5. PICK h : h = Cursor(data, at, out)
  OBVIOUS
<1>6. h.st = "ok" /\ h.out = out /\ h.at = at /\ h.data = data
  BY <1>5 DEF Cursor
<1>7. TakeNested(h, n, LAMBDA d : ProofG1FromBytes(d, form)) = TakeResult(h, n, Ok(p))
  BY <1>1, <1>3, <1>4, <1>6 DEF TakeNested
<1>8. TakeResult(h, n, Ok(p)) = Cursor(data, Len(data), Append(out, p))
  BY <1>3, <1>6 DEF TakeResult, Ok, Advanced, Cursor
<1> QED
  BY <1>3, <1>5, <1>6, <1>7, <1>8 DEF TakeRest, TakeLast

(* A sequence with one element more. *)
OneMore(o, x, q) ==
  /\ Len(q) = Len(o) + 1 /\ q[Len(o) + 1] = x
  /\ \A i \in 1..Len(o) : q[i] = o[i]

(* (As Append makes it.) *)
LEMMA AppendIsOneMore ==
  ASSUME NEW S, NEW o \in Seq(S), NEW x \in S
  PROVE  OneMore(o, x, Append(o, x))
BY AppendProperties DEF OneMore

(* (With the type of what is appended.) *)
LEMMA AppendTyped ==
  ASSUME NEW S, NEW o \in Seq(S), NEW x \in S
  PROVE  \E q : q = Append(o, x) /\ q \in Seq(S) /\ OneMore(o, x, q)
BY AppendProperties, AppendIsOneMore

(* The bytes of a proof, and these behind their number. *)
LEMMA ProofBytesAre ==
  ASSUME NEW form \in Forms, NEW V, Nat \subseteq V, NEW q, CommittedProof(q, V)
  PROVE  /\ Prefixed(ProofG1ToBytes(q, form)) \in Seq(Byte(V))
         /\ ProofG1ToBytes(q, form) \in Seq(Byte(V))
<1>1. ProofG1ToBytes(q, form) \in Seq(Byte(V))
  BY ProofG1Reads DEF ProofReadsBack
<1>2. Len(ProofG1ToBytes(q, form)) \in V
  BY <1>1, LenProperties
<1>3. Bytes("u32", "plain", Len(ProofG1ToBytes(q, form))) \in Seq(Byte(V))
  BY <1>2, BytesAre DEF Kinds, Layouts
<1>4. Prefixed(ProofG1ToBytes(q, form)) \in Seq(Byte(V))
  BY <1>1, <1>3, ConcatProperties DEF Prefixed
<1> QED
  BY <1>1, <1>4

(* z is x and then y, and lies at the beginning of data. *)
Begins(data, z, x, y) == z = x \o y /\ LiesAt(data, 0, z)

(* Each part where it should be. *)
Parted(data, z, x, y) ==
  LiesAt(data, 0, x) /\ LiesAt(data, Len(x), y) /\ Len(z) = Len(x) + Len(y)

(* (What begins the data does so in parts.) *)
LEMMA BeginsInParts ==
  ASSUME NEW T, NEW data, NEW x \in Seq(T), NEW y \in Seq(T), NEW z,
         Begins(data, z, x, y)
  PROVE  Parted(data, z, x, y)
<1>1. z = x \o y /\ LiesAt(data, 0, x \o y)
  BY DEF Begins
<1>2. LiesAt(data, 0, x) /\ LiesAt(data, 0 + Len(x), y) /\ Len(x \o y) = Len(x) + Len(y)
  BY <1>1, LiesInParts, 0 \in Nat
<1>3. Len(x) \in Nat
  BY LenProperties
<1> QED
  BY <1>1, <1>2, <1>3 DEF Parted

(* Four values as a sequence. *)
IsFour(s, V, w, x, y, z) ==
  /\ s \in Seq(V) /\ s = <<w, x, y, z>> /\ Len(s) = 4
  /\ s[1] = w /\ s[2] = x /\ s[3] = y /\ s[4] = z

(* (Which there is.) *)
LEMMA FourValues ==
  ASSUME NEW V, NEW w \in V, NEW x \in V, NEW y \in V, NEW z \in V
  PROVE  \E s : IsFour(s, V, w, x, y, z)
<1>1. <<w, x, y, z>> \in Seq(V)
  OBVIOUS
<1>2. Len(<<w, x, y, z>>) = 4
  OBVIOUS
<1>3. /\ <<w, x, y, z>>[1] = w /\ <<w, x, y, z>>[2] = x
      /\ <<w, x, y, z>>[3] = y /\ <<w, x, y, z>>[4] = z
  OBVIOUS
<1> QED
  BY <1>1, <1>2, <1>3 DEF IsFour

(* A ticket proof whose scalars and points are values of V. *)
TicketProof(p, V) ==
  /\ p = [rz |-> [a_prime |-> p.rz.a_prime, a_bar |-> p.rz.a_bar, d |-> p.rz.d], c |-> p.c,
          proof_vc_1 |-> p.proof_vc_1, proof_vc_2 |-> p.proof_vc_2,
          proof_vc_3 |-> p.proof_vc_3, proof_vc_4 |-> p.proof_vc_4,
          proof_vc_5 |-> p.proof_vc_5]
  /\ p.rz.a_prime \in V /\ p.rz.a_bar \in V /\ p.rz.d \in V /\ p.c \in V
  /\ CommittedProof(p.proof_vc_1, V) /\ CommittedProof(p.proof_vc_2, V)
  /\ CommittedProof(p.proof_vc_3, V) /\ CommittedProof(p.proof_vc_4, V)
  /\ CommittedProof(p.proof_vc_5, V)

(* The bytes d of the ticket proof p in their parts: four points, which give the
   values o[0], and then the proofs q[1] to q[5], whose bytes b[i] lie from
   at[i - 1] to at[i]; o[i] is what was read up to there. *)
TicketLayout(p, form, V, W, d, q, b, o, at) ==
  /\ Nat \subseteq W /\ d = TicketPoKToBytes(p, form) /\ d \in Seq(Byte(V))
  /\ q = <<p.proof_vc_1, p.proof_vc_2, p.proof_vc_3, p.proof_vc_4, p.proof_vc_5>>
  /\ o[0] \in Seq(V) /\ o[0] = <<p.rz.a_prime, p.rz.a_bar, p.rz.d, p.c>> /\ Len(o[0]) = 4
  /\ at[0] = 4 * Size("g1", form) /\ at[5] = Len(d)
  /\ \A i \in 0..5 : at[i] \in Nat /\ o[i] \in Seq(W)
  /\ BytesOfAll("g1", form, o[0]) \in Seq(Byte(V))
  /\ Len(BytesOfAll("g1", form, o[0])) = at[0]
  /\ LiesAt(d, 0, BytesOfAll("g1", form, o[0]))
  /\ \A i \in 1..5 :
       /\ CommittedProof(q[i], V) /\ q[i] \in W /\ o[i] = Append(o[i - 1], q[i])
       /\ b[i] \in Seq(Byte(V)) /\ LiesAt(d, at[i - 1], b[i])
       /\ at[i] = at[i - 1] + Len(b[i])
       /\ b[i] = IF i < 5 THEN Prefixed(ProofG1ToBytes(q[i], form))
                 ELSE ProofG1ToBytes(q[i], form)

(* (There are such parts.) *)
LEMMA TicketInParts ==
  ASSUME NEW form \in Forms, NEW V, Nat \subseteq V, NEW p, TicketProof(p, V)
  PROVE  \E W, d, q, b, o, at : TicketLayout(p, form, V, W, d, q, b, o, at)
<1>1. PICK q : q = <<p.proof_vc_1, p.proof_vc_2, p.proof_vc_3, p.proof_vc_4, p.proof_vc_5>>
  OBVIOUS
<1>2. \A i \in 1..5 : CommittedProof(q[i], V)
  BY <1>1 DEF TicketProof
<1>3. PICK vs \in Seq(V) :
        vs = <<p.rz.a_prime, p.rz.a_bar, p.rz.d, p.c>> /\ Len(vs) = 4
  <2>1. p.rz.a_prime \in V /\ p.rz.a_bar \in V /\ p.rz.d \in V /\ p.c \in V
    BY DEF TicketProof
  <2>2. PICK w, x, y, z : w = p.rz.a_prime /\ x = p.rz.a_bar /\ y = p.rz.d /\ z = p.c
    OBVIOUS
  <2>3. w \in V /\ x \in V /\ y \in V /\ z \in V
    BY <2>1, <2>2
  <2>4. PICK s : IsFour(s, V, w, x, y, z)
    BY ONLY <2>3, FourValues
  <2>5. s \in Seq(V) /\ Len(s) = 4 /\ s = <<w, x, y, z>>
    BY ONLY <2>4 DEF IsFour
  <2> QED
    BY <2>2, <2>5
<1>4. PICK g \in Nat \ {0} : g = Size("g1", form)
  BY SizesArePositive DEF Kinds, Layouts
<1>5. PICK a \in Seq(Byte(V)) : a = BytesOfAll("g1", form, vs) /\ Len(a) = 4 * g
  <2>1. PICK s : Stepwise(s, "g1", form, V, vs)
    BY BytesInSteps DEF Kinds, Layouts
  <2>2. /\ BytesOfAll("g1", form, vs) = s[4] /\ s[4] \in Seq(Byte(V))
        /\ Len(s[4]) = 4 * g
    BY <1>3, <1>4, <2>1 DEF Stepwise
  <2> QED
    BY <2>2
<1>6. PICK b : b = [i \in 1..5 |-> IF i < 5 THEN Prefixed(ProofG1ToBytes(q[i], form))
                                   ELSE ProofG1ToBytes(q[i], form)]
  OBVIOUS
<1>7. \A i \in 1..5 : b[i] \in Seq(Byte(V))
  BY <1>2, <1>6, ProofBytesAre
<1>8. /\ b[1] \in Seq(Byte(V)) /\ b[2] \in Seq(Byte(V)) /\ b[3] \in Seq(Byte(V))
       /\ b[4] \in Seq(Byte(V)) /\ b[5] \in Seq(Byte(V))
  BY <1>7
<1>9. PICK d1 : d1 \in Seq(Byte(V)) /\ d1 = a \o b[1]
  BY <1>8, ConcatProperties
<1>10. PICK d2 : d2 \in Seq(Byte(V)) /\ d2 = d1 \o b[2]
  BY <1>8, <1>9, ConcatProperties
<1>11. PICK d3 : d3 \in Seq(Byte(V)) /\ d3 = d2 \o b[3]
  BY <1>8, <1>10, ConcatProperties
<1>12. PICK d4 : d4 \in Seq(Byte(V)) /\ d4 = d3 \o b[4]
  BY <1>8, <1>11, ConcatProperties
<1>13. PICK d : d \in Seq(Byte(V)) /\ d = d4 \o b[5]
  BY <1>8, <1>12, ConcatProperties
<1>14. /\ d1 \in Seq(Byte(V)) /\ d2 \in Seq(Byte(V)) /\ d3 \in Seq(Byte(V))
      /\ d4 \in Seq(Byte(V)) /\ d \in Seq(Byte(V))
      /\ d1 = a \o b[1] /\ d2 = d1 \o b[2] /\ d3 = d2 \o b[3] /\ d4 = d3 \o b[4]
      /\ d = d4 \o b[5]
  BY ONLY <1>9, <1>10, <1>11, <1>12, <1>13
<1>15. TicketPoKToBytes(p, form) = d
  <2>1. /\ b[1] = Prefixed(ProofG1ToBytes(p.proof_vc_1, form))
        /\ b[2] = Prefixed(ProofG1ToBytes(p.proof_vc_2, form))
        /\ b[3] = Prefixed(ProofG1ToBytes(p.proof_vc_3, form))
        /\ b[4] = Prefixed(ProofG1ToBytes(p.proof_vc_4, form))
        /\ b[5] = ProofG1ToBytes(p.proof_vc_5, form)
    BY <1>1, <1>6
  <2> QED
    BY <1>3, <1>5, <1>14, <2>1 DEF TicketPoKToBytes
<1>16. /\ LiesAt(d, 0, a) /\ LiesAt(d, Len(a), b[1]) /\ LiesAt(d, Len(d1), b[2])
       /\ LiesAt(d, Len(d2), b[3]) /\ LiesAt(d, Len(d3), b[4]) /\ LiesAt(d, Len(d4), b[5])
       /\ Len(d1) = Len(a) + Len(b[1]) /\ Len(d2) = Len(d1) + Len(b[2])
       /\ Len(d3) = Len(d2) + Len(b[3]) /\ Len(d4) = Len(d3) + Len(b[4])
       /\ Len(d) = Len(d4) + Len(b[5])
  <2>1. Begins(d, d, d4, b[5])
    <3>1. Len(d) \in Nat
      BY <1>14, LenProperties
    <3> QED
      BY <1>14, <3>1 DEF LiesAt, Begins
  <2>2. LiesAt(d, 0, d4) /\ LiesAt(d, Len(d4), b[5]) /\ Len(d) = Len(d4) + Len(b[5])
    <3>1. d4 \in Seq(Byte(V)) /\ b[5] \in Seq(Byte(V))
      BY <1>7, <1>14
    <3>2. Parted(d, d, d4, b[5])
      BY <2>1, <3>1, BeginsInParts
    <3> QED
      BY ONLY <3>2 DEF Parted
  <2>3. LiesAt(d, 0, d3) /\ LiesAt(d, Len(d3), b[4]) /\ Len(d4) = Len(d3) + Len(b[4])
    <3>1. d3 \in Seq(Byte(V)) /\ b[4] \in Seq(Byte(V))
      BY <1>7, <1>14
    <3>2. Begins(d, d4, d3, b[4])
      BY <1>14, <2>2 DEF Begins
    <3>3. Parted(d, d4, d3, b[4])
      BY <3>1, <3>2, BeginsInParts
    <3> QED
      BY ONLY <3>3 DEF Parted
  <2>4. LiesAt(d, 0, d2) /\ LiesAt(d, Len(d2), b[3]) /\ Len(d3) = Len(d2) + Len(b[3])
    <3>1. d2 \in Seq(Byte(V)) /\ b[3] \in Seq(Byte(V))
      BY <1>7, <1>14
    <3>2. Begins(d, d3, d2, b[3])
      BY <1>14, <2>3 DEF Begins
    <3>3. Parted(d, d3, d2, b[3])
      BY <3>1, <3>2, BeginsInParts
    <3> QED
      BY ONLY <3>3 DEF Parted
  <2>5. LiesAt(d, 0, d1) /\ LiesAt(d, Len(d1), b[2]) /\ Len(d2) = Len(d1) + Len(b[2])
    <3>1. d1 \in Seq(Byte(V)) /\ b[2] \in Seq(Byte(V))
      BY <1>7, <1>14
    <3>2. Begins(d, d2, d1, b[2])
      BY <1>14, <2>4 DEF Begins
    <3>3. Parted(d, d2, d1, b[2])
      BY <3>1, <3>2, BeginsInParts
    <3> QED
      BY ONLY <3>3 DEF Parted
  <2>6. LiesAt(d, 0, a) /\ LiesAt(d, Len(a), b[1]) /\ Len(d1) = Len(a) + Len(b[1])
    <3>1. a \in Seq(Byte(V)) /\ b[1] \in Seq(Byte(V))
      BY <1>5, <1>7
    <3>2. Begins(d, d1, a, b[1])
      BY <1>14, <2>5 DEF Begins
    <3>3. Parted(d, d1, a, b[1])
      BY <3>1, <3>2, BeginsInParts
    <3> QED
      BY ONLY <3>3 DEF Parted
  <2> QED
    BY <2>2, <2>3, <2>4, <2>5, <2>6
<1>17. PICK at : at = [i \in 0..5 |-> <<Len(a), Len(d1), Len(d2), Len(d3), Len(d4), Len(d)>>[i + 1]]
  OBVIOUS
<1>18. /\ at[0] = Len(a) /\ at[1] = Len(d1) /\ at[2] = Len(d2) /\ at[3] = Len(d3)
       /\ at[4] = Len(d4) /\ at[5] = Len(d)
  BY <1>17
<1>19. \A i \in 0..5 : at[i] \in Nat
  <2>1. /\ Len(a) \in Nat /\ Len(d1) \in Nat /\ Len(d2) \in Nat /\ Len(d3) \in Nat
        /\ Len(d4) \in Nat /\ Len(d) \in Nat
    BY <1>14, LenProperties
  <2>2. /\ at[0] \in Nat /\ at[1] \in Nat /\ at[2] \in Nat /\ at[3] \in Nat
        /\ at[4] \in Nat /\ at[5] \in Nat
    BY <1>18, <2>1
  <2>3. \A i \in 0..5 : i = 0 \/ i = 1 \/ i = 2 \/ i = 3 \/ i = 4 \/ i = 5
    OBVIOUS
  <2> QED
    BY ONLY <2>2, <2>3
<1>20. \A i \in 1..5 : LiesAt(d, at[i - 1], b[i]) /\ at[i] = at[i - 1] + Len(b[i])
  <2>1. /\ LiesAt(d, at[0], b[1]) /\ at[1] = at[0] + Len(b[1])
        /\ LiesAt(d, at[1], b[2]) /\ at[2] = at[1] + Len(b[2])
        /\ LiesAt(d, at[2], b[3]) /\ at[3] = at[2] + Len(b[3])
        /\ LiesAt(d, at[3], b[4]) /\ at[4] = at[3] + Len(b[4])
        /\ LiesAt(d, at[4], b[5]) /\ at[5] = at[4] + Len(b[5])
    BY ONLY <1>16, <1>18
  <2>2. \A i \in 1..5 : \/ i = 1 /\ i - 1 = 0
                        \/ i = 2 /\ i - 1 = 1
                        \/ i = 3 /\ i - 1 = 2
                        \/ i = 4 /\ i - 1 = 3
                        \/ i = 5 /\ i - 1 = 4
    OBVIOUS
  <2> QED
    BY ONLY <2>1, <2>2
<1>21. PICK W : W = V \union {q[1], q[2], q[3], q[4], q[5]}
  OBVIOUS
<1>22. vs \in Seq(W) /\ Nat \subseteq W /\ \A i \in 1..5 : q[i] \in W
  <2>1. V \subseteq W
    BY <1>21
  <2>2. \A i \in 1..5 : i = 1 \/ i = 2 \/ i = 3 \/ i = 4 \/ i = 5
    OBVIOUS
  <2> QED
    BY <1>21, <2>1, <2>2, SeqMonotonic
<1>23. q[1] \in W /\ q[2] \in W /\ q[3] \in W /\ q[4] \in W /\ q[5] \in W
  BY <1>22
<1>24. PICK o1 : o1 = Append(vs, q[1]) /\ o1 \in Seq(W)
  BY <1>22, <1>23, AppendTyped
<1>25. PICK o2 : o2 = Append(o1, q[2]) /\ o2 \in Seq(W)
  BY <1>23, <1>24, AppendTyped
<1>26. PICK o3 : o3 = Append(o2, q[3]) /\ o3 \in Seq(W)
  BY <1>23, <1>25, AppendTyped
<1>27. PICK o4 : o4 = Append(o3, q[4]) /\ o4 \in Seq(W)
  BY <1>23, <1>26, AppendTyped
<1>28. PICK o5 : o5 = Append(o4, q[5]) /\ o5 \in Seq(W)
  BY <1>23, <1>27, AppendTyped
<1>29. /\ o1 \in Seq(W) /\ o2 \in Seq(W) /\ o3 \in Seq(W) /\ o4 \in Seq(W) /\ o5 \in Seq(W)
       /\ o1 = Append(vs, q[1]) /\ o2 = Append(o1, q[2]) /\ o3 = Append(o2, q[3])
       /\ o4 = Append(o3, q[4]) /\ o5 = Append(o4, q[5])
  BY ONLY <1>24, <1>25, <1>26, <1>27, <1>28
<1>30. PICK o : o = [i \in 0..5 |-> <<vs, o1, o2, o3, o4, o5>>[i + 1]]
  OBVIOUS
<1>31. o[0] = vs /\ o[1] = o1 /\ o[2] = o2 /\ o[3] = o3 /\ o[4] = o4 /\ o[5] = o5
  BY <1>30
<1>32. \A i \in 0..5 : o[i] \in Seq(W)
  <2>1. /\ o[0] \in Seq(W) /\ o[1] \in Seq(W) /\ o[2] \in Seq(W) /\ o[3] \in Seq(W)
        /\ o[4] \in Seq(W) /\ o[5] \in Seq(W)
    BY ONLY <1>22, <1>29, <1>31
  <2>2. \A i \in 0..5 : i = 0 \/ i = 1 \/ i = 2 \/ i = 3 \/ i = 4 \/ i = 5
    OBVIOUS
  <2> QED
    BY ONLY <2>1, <2>2
<1>33. \A i \in 1..5 : o[i] = Append(o[i - 1], q[i])
  <2>1. /\ o[1] = Append(o[0], q[1]) /\ o[2] = Append(o[1], q[2])
        /\ o[3] = Append(o[2], q[3]) /\ o[4] = Append(o[3], q[4])
        /\ o[5] = Append(o[4], q[5])
    BY ONLY <1>29, <1>31
  <2>2. \A i \in 1..5 : \/ i = 1 /\ i - 1 = 0
                        \/ i = 2 /\ i - 1 = 1
                        \/ i = 3 /\ i - 1 = 2
                        \/ i = 4 /\ i - 1 = 3
                        \/ i = 5 /\ i - 1 = 4
    OBVIOUS
  <2> QED
    BY ONLY <2>1, <2>2
<1>34. \A i \in 1..5 : b[i] = IF i < 5 THEN Prefixed(ProofG1ToBytes(q[i], form))
                              ELSE ProofG1ToBytes(q[i], form)
  BY <1>6
<1>35. /\ o[0] = vs /\ at[0] = 4 * Size("g1", form) /\ at[5] = Len(d)
       /\ BytesOfAll("g1", form, o[0]) = a /\ Len(a) = at[0] /\ LiesAt(d, 0, a)
       /\ d \in Seq(Byte(V)) /\ a \in Seq(Byte(V)) /\ vs \in Seq(V)
  BY <1>4, <1>5, <1>14, <1>16, <1>18, <1>31
<1>36. TicketLayout(p, form, V, W, d, q, b, o, at)
  BY ONLY <1>1, <1>2, <1>3, <1>7, <1>15, <1>19, <1>20, <1>22, <1>32, <1>33, <1>34, <1>35
     DEF TicketLayout
<1> QED
  BY <1>36

(* (Its bytes.) *)
LEMMA TicketBytesTyped ==
  ASSUME NEW form \in Forms, NEW V, Nat \subseteq V, NEW p, TicketProof(p, V)
  PROVE  TicketPoKToBytes(p, form) \in Seq(Byte(V))
BY TicketInParts DEF TicketLayout

(* It is read back as it was written (pok_ticket.rs to_bytes, from_bytes). *)
LEMMA TicketProofReads ==
  ASSUME NEW form \in Forms, NEW V, Nat \subseteq V, NEW p, TicketProof(p, V)
  PROVE  TicketPoKFromBytes(TicketPoKToBytes(p, form), form) = Ok(p)
<1>1. PICK W, d, q, b, o, at : TicketLayout(p, form, V, W, d, q, b, o, at)
  BY TicketInParts
<1>2. /\ d = TicketPoKToBytes(p, form) /\ d \in Seq(Byte(V)) /\ Nat \subseteq W
      /\ at[5] = Len(d)
  BY <1>1 DEF TicketLayout
<1>3. TakeMany(AtLeast(CursorOn(d), 3 * Size("g1", form)), "g1", form, 4)
        = Cursor(d, at[0], o[0])
  <2>1. PICK g \in Nat \ {0} : g = Size("g1", form)
    BY SizesArePositive DEF Kinds, Layouts
  <2>2. PICK a \in Seq(Byte(V)), vs \in Seq(V) :
          /\ vs = o[0] /\ Len(vs) = 4 /\ a = BytesOfAll("g1", form, vs) /\ LiesAt(d, 0, a)
          /\ Len(a) = 4 * g /\ at[0] = 4 * g
    BY <1>1, <2>1 DEF TicketLayout
  <2>3. PICK z \in Seq(V) : z = << >>
    BY EmptySeq
  <2>4. ~(Len(d) < 3 * g)
    <3>1. 0 + Len(a) <= Len(d) /\ Len(d) \in Nat
      BY <1>2, <2>2, LenProperties DEF LiesAt
    <3> QED
      BY <2>2, <3>1
  <2>5. AtLeast(CursorOn(d), 3 * g) = Cursor(d, 0, z)
    BY <2>3, <2>4 DEF AtLeast, CursorOn, Cursor
  <2>6. TakeMany(Cursor(d, 0, z), "g1", form, Len(vs))
          = Cursor(d, 0 + Len(vs) * Size("g1", form), z \o vs)
    <3>1. LiesAt(d, 0, BytesOfAll("g1", form, vs)) /\ 0 \in Nat
      BY <2>2
    <3>2. "g1" \in Kinds /\ form \in Layouts /\ V \subseteq V
      BY DEF Kinds, Layouts
    <3> QED
      BY <3>1, <3>2, TakeManyReads
  <2>7. z \o vs = vs /\ 0 + 4 * g = 4 * g
    BY <2>3, ConcatEmptySeq
  <2> QED
    BY <2>1, <2>2, <2>5, <2>6, <2>7
<1>4. ASSUME NEW i \in 1..4
      PROVE  TakeProof(Cursor(d, at[i - 1], o[i - 1]), form) = Cursor(d, at[i], o[i])
  <2>1. i \in 1..5 /\ i - 1 \in 0..5 /\ i < 5
    OBVIOUS
  <2>2. PICK x, k, f : x = q[i] /\ k = at[i - 1] /\ f = o[i - 1]
    OBVIOUS
  <2>3. /\ CommittedProof(x, V) /\ o[i] = Append(f, x) /\ k \in Nat /\ f \in Seq(W)
        /\ LiesAt(d, k, Prefixed(ProofG1ToBytes(x, form)))
        /\ at[i] = k + Len(Prefixed(ProofG1ToBytes(x, form)))
    BY <1>1, <2>1, <2>2 DEF TicketLayout
  <2>4. AtCursor(d, k, Prefixed(ProofG1ToBytes(x, form)), x, V, W, f)
    BY <1>2, <2>3 DEF AtCursor
  <2>5. TakeProof(Cursor(d, k, f), form)
          = Cursor(d, k + Len(Prefixed(ProofG1ToBytes(x, form))), Append(f, x))
    BY <2>4, PrefixedReads
  <2> QED
    BY <2>2, <2>3, <2>5
<1>5. TakeLast(Cursor(d, at[4], o[4]), form) = Cursor(d, at[5], o[5])
  <2>1. 5 \in 1..5 /\ 5 - 1 = 4 /\ 4 \in 0..5 /\ ~(5 < 5)
    OBVIOUS
  <2>2. PICK x, k, f : x = q[5] /\ k = at[4] /\ f = o[4]
    OBVIOUS
  <2>3. /\ CommittedProof(x, V) /\ o[5] = Append(f, x) /\ k \in Nat /\ f \in Seq(W)
        /\ LiesAt(d, k, ProofG1ToBytes(x, form))
        /\ Len(d) = k + Len(ProofG1ToBytes(x, form))
    BY <1>1, <2>1, <2>2 DEF TicketLayout
  <2>4. AtCursor(d, k, ProofG1ToBytes(x, form), x, V, W, f)
    BY <1>2, <2>3 DEF AtCursor
  <2>5. TakeLast(Cursor(d, k, f), form) = Cursor(d, Len(d), Append(f, x))
    BY <2>3, <2>4, RestReads
  <2> QED
    BY <1>2, <2>2, <2>3, <2>5
<1>6. PICK h : h = Cursor(d, at[5], o[5])
  OBVIOUS
<1>7. TicketPoKFromBytes(d, form)
        = Read(h, LAMBDA x : [rz |-> [a_prime |-> x[1], a_bar |-> x[2], d |-> x[3]], c |-> x[4],
                       proof_vc_1 |-> x[5], proof_vc_2 |-> x[6], proof_vc_3 |-> x[7],
                       proof_vc_4 |-> x[8], proof_vc_5 |-> x[9]])
  <2>1. /\ TakeProof(Cursor(d, at[0], o[0]), form) = Cursor(d, at[1], o[1])
        /\ TakeProof(Cursor(d, at[1], o[1]), form) = Cursor(d, at[2], o[2])
        /\ TakeProof(Cursor(d, at[2], o[2]), form) = Cursor(d, at[3], o[3])
        /\ TakeProof(Cursor(d, at[3], o[3]), form) = Cursor(d, at[4], o[4])
    <3>1. /\ 1 \in 1..4 /\ 2 \in 1..4 /\ 3 \in 1..4 /\ 4 \in 1..4
          /\ 1 - 1 = 0 /\ 2 - 1 = 1 /\ 3 - 1 = 2 /\ 4 - 1 = 3
      OBVIOUS
    <3> QED
      BY <1>4, <3>1
  <2> QED
    BY <1>3, <1>5, <1>6, <2>1 DEF TicketPoKFromBytes, TakeProof, TakeLast
<1>8. PICK vs : vs = o[0] /\ vs = <<p.rz.a_prime, p.rz.a_bar, p.rz.d, p.c>> /\ Len(vs) = 4
  BY <1>1 DEF TicketLayout
<1>9. \A i \in 1..5 : OneMore(o[i - 1], q[i], o[i])
  <2> SUFFICES ASSUME NEW i \in 1..5 PROVE OneMore(o[i - 1], q[i], o[i])
    OBVIOUS
  <2>1. PICK f, x : f = o[i - 1] /\ x = q[i]
    OBVIOUS
  <2>2. i - 1 \in 0..5
    OBVIOUS
  <2>3. f \in Seq(W) /\ x \in W /\ o[i] = Append(f, x)
    BY <1>1, <2>1, <2>2 DEF TicketLayout
  <2> QED
    BY <2>1, <2>3, AppendIsOneMore
<1>10. PICK r : r = o[5]
  OBVIOUS
<1>11. /\ r[1] = vs[1] /\ r[2] = vs[2] /\ r[3] = vs[3] /\ r[4] = vs[4]
       /\ r[5] = q[1] /\ r[6] = q[2] /\ r[7] = q[3] /\ r[8] = q[4] /\ r[9] = q[5]
  <2>1. /\ OneMore(vs, q[1], o[1]) /\ OneMore(o[1], q[2], o[2]) /\ OneMore(o[2], q[3], o[3])
        /\ OneMore(o[3], q[4], o[4]) /\ OneMore(o[4], q[5], r)
    <3>1. /\ 1 \in 1..5 /\ 2 \in 1..5 /\ 3 \in 1..5 /\ 4 \in 1..5 /\ 5 \in 1..5
          /\ 1 - 1 = 0 /\ 2 - 1 = 1 /\ 3 - 1 = 2 /\ 4 - 1 = 3 /\ 5 - 1 = 4
      OBVIOUS
    <3> QED
      BY <1>8, <1>9, <1>10, <3>1
  <2>2. PICK o1, o2, o3, o4 : o1 = o[1] /\ o2 = o[2] /\ o3 = o[3] /\ o4 = o[4]
    OBVIOUS
  <2>3. Len(o1) = 5 /\ o1[5] = q[1] /\ \A i \in 1..4 : o1[i] = vs[i]
    <3>1. OneMore(vs, q[1], o1) /\ Len(vs) = 4
      BY <1>8, <2>1, <2>2
    <3> QED
      BY ONLY <3>1 DEF OneMore
  <2>4. Len(o2) = 6 /\ o2[6] = q[2] /\ \A i \in 1..5 : o2[i] = o1[i]
    <3>1. OneMore(o1, q[2], o2) /\ Len(o1) = 5
      BY <2>1, <2>2, <2>3
    <3> QED
      BY ONLY <3>1 DEF OneMore
  <2>5. Len(o3) = 7 /\ o3[7] = q[3] /\ \A i \in 1..6 : o3[i] = o2[i]
    <3>1. OneMore(o2, q[3], o3) /\ Len(o2) = 6
      BY <2>1, <2>2, <2>4
    <3> QED
      BY ONLY <3>1 DEF OneMore
  <2>6. Len(o4) = 8 /\ o4[8] = q[4] /\ \A i \in 1..7 : o4[i] = o3[i]
    <3>1. OneMore(o3, q[4], o4) /\ Len(o3) = 7
      BY <2>1, <2>2, <2>5
    <3> QED
      BY ONLY <3>1 DEF OneMore
  <2>7. r[9] = q[5] /\ \A i \in 1..8 : r[i] = o4[i]
    <3>1. OneMore(o4, q[5], r) /\ Len(o4) = 8
      BY <2>1, <2>2, <2>6
    <3> QED
      BY ONLY <3>1 DEF OneMore
  <2>8. \A i \in 1..5 : r[i] = o1[i]
    <3> SUFFICES ASSUME NEW i \in 1..5 PROVE r[i] = o1[i]
      OBVIOUS
    <3>1. i \in 1..6 /\ i \in 1..7 /\ i \in 1..8
      OBVIOUS
    <3> QED
      BY ONLY i \in 1..5, <2>4, <2>5, <2>6, <2>7, <3>1
  <2>9. r[1] = vs[1] /\ r[2] = vs[2] /\ r[3] = vs[3] /\ r[4] = vs[4] /\ r[5] = q[1]
    BY ONLY <2>3, <2>8
  <2>10. r[6] = q[2] /\ r[7] = q[3] /\ r[8] = q[4]
    BY ONLY <2>4, <2>5, <2>6, <2>7
  <2> QED
    BY ONLY <2>7, <2>9, <2>10
<1>12. /\ q[1] = p.proof_vc_1 /\ q[2] = p.proof_vc_2 /\ q[3] = p.proof_vc_3
       /\ q[4] = p.proof_vc_4 /\ q[5] = p.proof_vc_5
  BY <1>1 DEF TicketLayout
<1>13. h.st = "ok" /\ h.out = r
  BY <1>6, <1>10 DEF Cursor
<1>14. TicketPoKFromBytes(d, form)
         = Ok([rz |-> [a_prime |-> vs[1], a_bar |-> vs[2], d |-> vs[3]], c |-> vs[4],
               proof_vc_1 |-> q[1], proof_vc_2 |-> q[2], proof_vc_3 |-> q[3],
               proof_vc_4 |-> q[4], proof_vc_5 |-> q[5]])
  BY <1>7, <1>11, <1>13 DEF Read
<1>15. p = [rz |-> [a_prime |-> vs[1], a_bar |-> vs[2], d |-> vs[3]], c |-> vs[4],
            proof_vc_1 |-> q[1], proof_vc_2 |-> q[2], proof_vc_3 |-> q[3],
            proof_vc_4 |-> q[4], proof_vc_5 |-> q[5]]
  BY <1>8, <1>12 DEF TicketProof
<1> QED
  BY <1>2, <1>14, <1>15
--------------------------------------------------------------------------------
(* Bytes whose end is missing. *)

(* A cursor that has stopped. *)
Stuck(c) == c.st # "ok"

(* It stays where it is. *)
LEMMA TakeStuck ==
  ASSUME NEW c, Stuck(c), NEW kind, NEW form
  PROVE  Take(c, kind, form) = c /\ TakeOrPanic(c, kind, form) = c
BY DEF Stuck, Take, TakeOrPanic

(* (However often.) *)
LEMMA TakeManyStuck ==
  ASSUME NEW c, Stuck(c), NEW kind, NEW form, NEW n \in Nat
  PROVE  Stuck(TakeMany(c, kind, form, n))
<1>1. /\ TakeMany(c, kind, form, 0) = c
      /\ \A k \in Nat : TakeMany(c, kind, form, k + 1)
                          = Take(TakeMany(c, kind, form, k), kind, form)
  <2>1. OneByOne(c, kind, form)
    BY TakeSteps
  <2> QED
    BY ONLY <2>1 DEF OneByOne
<1> DEFINE P == {k \in Nat : TakeMany(c, kind, form, k) = c}
<1>2. 0 \in P
  BY <1>1
<1>3. ASSUME NEW k \in Nat, k \in P PROVE k + 1 \in P
  <2>1. TakeMany(c, kind, form, k) = c
    BY <1>3
  <2>2. TakeMany(c, kind, form, k + 1) = Take(c, kind, form)
    BY <1>1, <2>1
  <2>3. Take(c, kind, form) = c
    BY TakeStuck
  <2> QED
    BY <2>2, <2>3
<1> HIDE DEF P
<1>4. n \in P
  BY <1>2, <1>3, SetInduction
<1> QED
  BY <1>4 DEF P

(* (For a proof too.) *)
LEMMA ProofStuck ==
  ASSUME NEW c, Stuck(c), NEW form
  PROVE  Stuck(TakeProof(c, form)) /\ Stuck(TakeLast(c, form))
<1>1. TakeOrPanic(c, "u32", "plain") = c
  BY TakeStuck
<1>2. TakeProof(c, form) = c
  BY <1>1 DEF Stuck, TakeProof, TakePrefixed, Onward
<1>3. TakeLast(c, form) = c
  BY DEF Stuck, TakeLast, TakeRest, TakeNested
<1> QED
  BY <1>2, <1>3

(* What a cursor reads, it finds in the data. *)
LEMMA TakeManyFits ==
  ASSUME NEW kind \in Kinds, NEW form \in Layouts, NEW data, Len(data) \in Nat,
         NEW at \in Nat, at <= Len(data), NEW out, NEW n \in Nat,
         ~Stuck(TakeMany(Cursor(data, at, out), kind, form, n))
  PROVE  at + n * Size(kind, form) <= Len(data)
<1>1. PICK z \in Nat \ {0}, m \in Nat : z = Size(kind, form) /\ m = Len(data)
  BY SizesArePositive
<1>2. PICK c : c = Cursor(data, at, out)
  OBVIOUS
<1>3. /\ TakeMany(c, kind, form, 0) = c
      /\ \A k \in Nat : TakeMany(c, kind, form, k + 1)
                          = Take(TakeMany(c, kind, form, k), kind, form)
  <2>1. OneByOne(c, kind, form)
    BY TakeSteps
  <2> QED
    BY ONLY <2>1 DEF OneByOne
<1> DEFINE Fits(r, k) == ~Stuck(r) => r.data = data /\ r.at = at + k * z /\ at + k * z <= m
           P == {k \in Nat : Fits(TakeMany(c, kind, form, k), k)}
<1>4. 0 \in P
  <2>1. at + 0 * z = at
    OBVIOUS
  <2> QED
    BY <1>1, <1>2, <1>3, <2>1 DEF Cursor
<1>5. ASSUME NEW k \in Nat, k \in P PROVE k + 1 \in P
  <2>1. PICK r, q : r = TakeMany(c, kind, form, k) /\ q = TakeMany(c, kind, form, k + 1)
    OBVIOUS
  <2>2. Fits(r, k) /\ q = Take(r, kind, form)
    BY <1>3, <1>5, <2>1
  <2>3. ASSUME ~Stuck(q) PROVE q.data = data /\ q.at = at + (k + 1) * z /\ at + (k + 1) * z <= m
    <3>1. r.st = "ok"
      BY <2>2, <2>3, TakeStuck DEF Stuck
    <3>2. r.data = data /\ r.at = at + k * z
      BY <2>2, <3>1 DEF Stuck
    <3>3. HoldsElement(r, kind, form)
      BY <2>2, <2>3, <3>1 DEF Take, Stuck
    <3>4. q = Advanced(r, z, r.data[r.at + 1][3]) /\ r.at + z <= m
      BY <1>1, <2>2, <3>1, <3>2, <3>3 DEF Take, HoldsElement
    <3>5. (at + k * z) + z = at + (k + 1) * z
      OBVIOUS
    <3> QED
      BY <3>2, <3>4, <3>5 DEF Advanced
  <2> QED
    BY <2>1, <2>3
<1> HIDE DEF P
<1>6. n \in P
  BY <1>4, <1>5, SetInduction
<1> QED
  BY <1>1, <1>2, <1>6 DEF P

(* The data ends within what would lie at the cursor. *)
EndsWithin(data, at, b) ==
  /\ at \in Nat /\ Len(data) \in Nat /\ at <= Len(data) /\ Len(data) < at + Len(b)
  /\ \A k \in 1..(Len(data) - at) : data[at + k] = b[k]

(* What is at the head of b then lies there or ends the data too. *)
LEMMA HeadEndsToo ==
  ASSUME NEW T, NEW a \in Seq(T), NEW b \in Seq(T), NEW data, NEW at,
         EndsWithin(data, at, a \o b)
  PROVE  LiesAt(data, at, a) \/ EndsWithin(data, at, a)
<1>1. PICK m \in Nat, n \in Nat : m = Len(a) /\ n = Len(b)
  BY LenProperties
<1>2. PICK ab : ab = a \o b
  OBVIOUS
<1>3. Len(ab) = m + n /\ \A k \in 1..(m + n) : ab[k] = IF k <= m THEN a[k] ELSE b[k - m]
  BY <1>1, <1>2, ConcatProperties
<1>4. /\ at \in Nat /\ Len(data) \in Nat /\ at <= Len(data) /\ Len(data) < at + (m + n)
      /\ \A k \in 1..(Len(data) - at) : data[at + k] = ab[k]
  BY <1>2, <1>3 DEF EndsWithin
<1>5. PICK l \in Nat : l = Len(data) - at /\ at + l = Len(data)
  <2>1. PICK j, i : j = Len(data) /\ i = at
    OBVIOUS
  <2>2. j \in Nat /\ i \in Nat /\ i <= j
    BY <1>4, <2>1
  <2>3. j - i \in Nat /\ i + (j - i) = j
    BY ONLY <2>2
  <2> QED
    BY <2>1, <2>3
<1>6. \A k \in 1..l : k <= m => data[at + k] = a[k]
  <2> SUFFICES ASSUME NEW k \in 1..l, k <= m PROVE data[at + k] = a[k]
    OBVIOUS
  <2>1. k \in 1..(m + n) /\ k \in 1..(Len(data) - at)
    BY <1>5
  <2> QED
    BY <1>3, <1>4, <2>1
<1>7. CASE m <= l
  <2>1. at + m <= Len(data) /\ \A k \in 1..m : data[at + k] = a[k]
    BY <1>4, <1>5, <1>6, <1>7
  <2> QED
    BY <1>1, <2>1 DEF LiesAt
<1>8. CASE l < m
  <2>1. Len(data) < at + m /\ \A k \in 1..(Len(data) - at) : data[at + k] = a[k]
    BY <1>4, <1>5, <1>6, <1>8
  <2> QED
    BY <1>1, <1>4, <2>1 DEF EndsWithin
<1> QED
  BY <1>7, <1>8

(* Data that ends within an element does not have it. *)
LEMMA TakeCut ==
  ASSUME NEW kind \in Kinds, NEW form \in Layouts, NEW v, NEW data, NEW at, NEW out,
         EndsWithin(data, at, Bytes(kind, form, v))
  PROVE  /\ Stuck(Take(Cursor(data, at, out), kind, form))
         /\ Stuck(TakeOrPanic(Cursor(data, at, out), kind, form))
<1>1. PICK z \in Nat \ {0} : z = Size(kind, form)
  BY SizesArePositive
<1>2. Len(Bytes(kind, form, v)) = z
  <2>1. v \in {v}
    OBVIOUS
  <2> QED
    BY <1>1, <2>1, BytesAre
<1>3. at \in Nat /\ Len(data) \in Nat /\ Len(data) < at + z
  BY <1>2 DEF EndsWithin
<1>4. PICK c : c = Cursor(data, at, out)
  OBVIOUS
<1>5. c.st = "ok" /\ c.at = at /\ c.data = data
  BY <1>4 DEF Cursor
<1>6. ~HoldsElement(c, kind, form)
  <2>1. ~(at + z <= Len(data))
    BY <1>3
  <2> QED
    BY <1>1, <1>5, <2>1 DEF HoldsElement
<1>7. PICK d : d = [c EXCEPT !.st = "err"]
  OBVIOUS
<1>8. Take(c, kind, form) = d
  BY <1>5, <1>6, <1>7 DEF Take
<1>9. d.st = "err"
  BY <1>4, <1>7 DEF Cursor
<1>10. TakeOrPanic(c, kind, form) = [d EXCEPT !.st = "panic"]
  BY <1>5, <1>8, <1>9 DEF TakeOrPanic
<1>11. [d EXCEPT !.st = "panic"].st = "panic"
  BY <1>4, <1>7 DEF Cursor
<1> QED
  BY <1>4, <1>8, <1>9, <1>10, <1>11 DEF Stuck

(* A committed proof is not read from the beginning of its bytes: where the
   number of responses can be read, the check of the length fails. *)
LEMMA ProofG1Cut ==
  ASSUME NEW form \in Forms, NEW V, Nat \subseteq V, NEW p, CommittedProof(p, V),
         NEW s, EndsWithin(s, 0, ProofG1ToBytes(p, form))
  PROVE  ProofG1FromBytes(s, form).st # "ok"
<1>1. PICK x \in V, r \in Seq(V) : p.commitment = x /\ p.responses = r
  BY DEF CommittedProof
<1>2. PICK n \in Nat : n = Len(r)
  BY LenProperties
<1>3. PICK g \in Nat \ {0}, l \in Nat \ {0}, z \in Nat \ {0} :
        g = Size("g1", form) /\ l = Size("u32", form) /\ z = Size("fr", form)
  BY SizesArePositive DEF Kinds, Layouts
<1>4. LEN_SIZE = l /\ FR_SIZE = z
  BY <1>3 DEF Size
<1>5. PICK a \in Seq(Byte(V)), b \in Seq(Byte(V)), e \in Seq(Byte(V)) :
        /\ a = Bytes("g1", form, x) /\ b = Bytes("u32", form, n)
        /\ e = BytesOfAll("fr", form, r)
        /\ Len(a) = g /\ Len(b) = l /\ Len(e) = n * z
  <2>0. n \in V
    OBVIOUS
  <2>1. /\ Bytes("g1", form, x) \in Seq(Byte(V)) /\ Len(Bytes("g1", form, x)) = g
        /\ Bytes("u32", form, n) \in Seq(Byte(V)) /\ Len(Bytes("u32", form, n)) = l
    BY <2>0, <1>3, BytesAre DEF Kinds, Layouts
  <2>2. PICK t : Stepwise(t, "fr", form, V, r)
    BY BytesInSteps DEF Kinds, Layouts
  <2>3. BytesOfAll("fr", form, r) = t[n] /\ t[n] \in Seq(Byte(V)) /\ Len(t[n]) = n * z
    BY <1>2, <1>3, <2>2 DEF Stepwise
  <2> QED
    BY <2>1, <2>3
<1>6. PICK ab \in Seq(Byte(V)) : ab = a \o b
  BY ConcatProperties
<1>7. ProofG1ToBytes(p, form) = ab \o e
  BY <1>1, <1>2, <1>5, <1>6 DEF ProofG1ToBytes
<1>8. EndsWithin(s, 0, ab \o e) /\ Len(ab \o e) = Len(ab) + Len(e) /\ Len(ab) = g + l
  <2>1. Len(a \o b) = Len(a) + Len(b) /\ Len(ab \o e) = Len(ab) + Len(e)
    BY ConcatProperties
  <2> QED
    BY <1>5, <1>6, <1>7, <2>1
<1>9. PICK m \in Nat : m = Len(s) /\ m < g + l + n * z
  <2>1. Len(s) \in Nat /\ Len(s) < 0 + Len(ab \o e)
    BY <1>8 DEF EndsWithin
  <2>2. Len(ab \o e) = (g + l) + n * z
    BY <1>5, <1>8
  <2>3. PICK m : m = Len(s)
    OBVIOUS
  <2>4. m \in Nat /\ m < 0 + ((g + l) + n * z)
    BY <2>1, <2>2, <2>3
  <2>5. PICK w \in Nat : w = n * z
    OBVIOUS
  <2> QED
    BY <2>3, <2>4, <2>5
<1>10. PICK c0, c1, c2 :
         /\ c0 = AtLeast(CursorOn(s), g + l)
         /\ c1 = Take(c0, "g1", form) /\ c2 = TakeOrPanic(c1, "u32", form)
  OBVIOUS
<1>11. PICK c3 : c3 = Onward(c2, LAMBDA h : TakeMany(AtLeast(h, Size("g1", form) + LEN_SIZE
                                                 + LastRead(h) * FR_SIZE),
                                     "fr", form, LastRead(h)))
  OBVIOUS
<1>12. ProofG1FromBytes(s, form)
         = Read(c3, LAMBDA o : [commitment |-> o[1], responses |-> SubSeq(o, 3, Len(o))])
  BY <1>3, <1>4, <1>10, <1>11 DEF ProofG1FromBytes
<1>13. CASE m < g + l
  <2>1. CursorOn(s).st = "ok" /\ CursorOn(s).data = s
    BY DEF CursorOn
  <2>2. c0 = [CursorOn(s) EXCEPT !.st = "err"]
    BY <1>9, <1>10, <1>13, <2>1 DEF AtLeast
  <2>3. Stuck(c0)
    BY <2>2 DEF CursorOn, Stuck
  <2>4. Stuck(c1)
    BY <1>10, <2>3, TakeStuck
  <2>5. Stuck(c2)
    BY <1>10, <2>4, TakeStuck
  <2>6. Stuck(c3)
    BY <1>11, <2>5 DEF Onward, Stuck
  <2> QED
    BY <1>12, <2>6 DEF Read, Stuck
<1>14. CASE ~(m < g + l)
  <2>1. PICK o0 \in Seq(V), o1 \in Seq(V), o2 \in Seq(V) :
          /\ o0 = << >> /\ o1 = Append(o0, x) /\ o2 = Append(o1, n)
          /\ Len(o2) = 2 /\ o2[2] = n
    <3>1. n \in V
      OBVIOUS
    <3>2. PICK o0, o1, o2 : OneThenTwo(V, x, n, o0, o1, o2)
      BY <3>1, TwoValues
    <3> QED
      BY <3>2 DEF OneThenTwo
  <2>2. CursorOn(s) = Cursor(s, 0, o0)
    BY <2>1 DEF CursorOn, Cursor
  <2>3. c0 = Cursor(s, 0, o0)
    BY <1>9, <1>10, <1>14, <2>2 DEF AtLeast, Cursor
  <2>4. LiesAt(s, 0, ab)
    <3>1. LiesAt(s, 0, ab) \/ EndsWithin(s, 0, ab)
      BY <1>8, HeadEndsToo
    <3>2. ~(EndsWithin(s, 0, ab))
      BY <1>8, <1>9, <1>14 DEF EndsWithin
    <3> QED
      BY <3>1, <3>2
  <2>5. LiesAt(s, 0, a) /\ LiesAt(s, g, b)
    <3>1. LiesAt(s, 0, a) /\ LiesAt(s, 0 + Len(a), b)
      BY <1>6, <2>4, LiesInParts, 0 \in Nat
    <3>2. 0 + Len(a) = g
      BY <1>5
    <3> QED
      BY <3>1, <3>2
  <2>6. c1 = Cursor(s, g, o1)
    <3>1. Take(Cursor(s, 0, o0), "g1", form) = Cursor(s, 0 + Size("g1", form), Append(o0, x))
      BY <1>5, <2>5, TakeReads, 0 \in Nat DEF Kinds, Layouts
    <3>2. 0 + g = g
      OBVIOUS
    <3> QED
      BY <1>3, <1>10, <2>1, <2>3, <3>1, <3>2
  <2>7. c2 = Cursor(s, g + l, o2)
    <3>1. Take(Cursor(s, g, o1), "u32", form) = Cursor(s, g + l, o2)
      BY <1>3, <1>5, <2>1, <2>5, TakeReads DEF Kinds, Layouts
    <3>2. Cursor(s, g + l, o2).st = "ok"
      BY DEF Cursor
    <3> QED
      BY <1>10, <2>6, <3>1, <3>2 DEF TakeOrPanic
  <2>8. c2.st = "ok" /\ LastRead(c2) = n /\ c2.data = s
    BY <2>1, <2>7 DEF Cursor, LastRead
  <2>9. PICK c : c = AtLeast(c2, g + l + n * z)
    OBVIOUS
  <2>10. Stuck(c)
    <3>1. c = [c2 EXCEPT !.st = "err"]
      BY <1>9, <2>8, <2>9 DEF AtLeast
    <3> QED
      BY <2>7, <3>1 DEF Cursor, Stuck
  <2>11. c3 = TakeMany(c, "fr", form, n)
    BY <1>3, <1>4, <1>11, <2>8, <2>9 DEF Onward
  <2>12. Stuck(c3)
    BY <2>10, <2>11, TakeManyStuck
  <2> QED
    BY <1>12, <2>12 DEF Read, Stuck
<1> QED
  BY <1>13, <1>14

(* Nor is one that carries its length. *)
LEMMA PrefixedCut ==
  ASSUME NEW form \in Forms, NEW V, Nat \subseteq V, NEW p, CommittedProof(p, V),
         NEW data, NEW at, NEW W, Nat \subseteq W, NEW out \in Seq(W),
         EndsWithin(data, at, Prefixed(ProofG1ToBytes(p, form)))
  PROVE  Stuck(TakeProof(Cursor(data, at, out), form))
<1>1. PICK b \in Seq(Byte(V)) : b = ProofG1ToBytes(p, form)
  BY ProofBytesAre
<1>2. PICK n \in Nat, l \in Nat \ {0} : n = Len(b) /\ l = Size("u32", "plain")
  <2>1. Len(b) \in Nat
    BY LenProperties
  <2> QED
    BY <2>1, SizesArePositive DEF Kinds, Layouts
<1>3. PICK a \in Seq(Byte(V)) : a = Bytes("u32", "plain", n) /\ Len(a) = l
  BY <1>2, BytesAre DEF Kinds, Layouts
<1>4. EndsWithin(data, at, a \o b) /\ Len(a \o b) = l + n /\ at \in Nat
  <2>1. Len(a \o b) = Len(a) + Len(b)
    BY ConcatProperties
  <2>2. EndsWithin(data, at, a \o b)
    BY <1>1, <1>2, <1>3 DEF Prefixed
  <2> QED
    BY <1>2, <1>3, <2>1, <2>2 DEF EndsWithin
<1>5. PICK h : h = TakeOrPanic(Cursor(data, at, out), "u32", "plain")
  OBVIOUS
<1>6. TakeProof(Cursor(data, at, out), form)
        = Onward(h, LAMBDA d : TakeNested(DropLast(d), LastRead(d),
                                          LAMBDA e : ProofG1FromBytes(e, form)))
  BY <1>5 DEF TakeProof, TakePrefixed
<1>7. CASE EndsWithin(data, at, a)
  <2>1. Stuck(h)
    <3>1. EndsWithin(data, at, Bytes("u32", "plain", n))
      BY <1>3, <1>7
    <3> QED
      BY <1>5, <3>1, TakeCut DEF Kinds, Layouts
  <2> QED
    BY <1>6, <2>1 DEF Onward, Stuck
<1>8. CASE LiesAt(data, at, a)
  <2>1. PICK c, o : c = Cursor(data, at + l, o) /\ o = Append(out, n)
    OBVIOUS
  <2>2. h = c
    <3>1. Take(Cursor(data, at, out), "u32", "plain") = c
      BY <1>2, <1>3, <1>4, <1>8, <2>1, TakeReads DEF Kinds, Layouts
    <3>2. c.st = "ok"
      BY <2>1 DEF Cursor
    <3> QED
      BY <1>5, <3>1, <3>2 DEF TakeOrPanic
  <2>3. PICK k : k = DropLast(c)
    OBVIOUS
  <2>4. k.st = "ok" /\ k.at = at + l /\ k.data = data
    BY <2>1, <2>3 DEF Cursor, DropLast
  <2>5. c.st = "ok" /\ LastRead(c) = n
    <3>1. n \in W
      OBVIOUS
    <3>2. OneMore(out, n, o)
      BY <2>1, <3>1, AppendIsOneMore
    <3>3. o[Len(o)] = n
      BY <3>2 DEF OneMore
    <3> QED
      BY <2>1, <3>3 DEF Cursor, LastRead
  <2>6. (at + l) + n > Len(data)
    <3>1. Len(data) \in Nat /\ Len(data) < at + (l + n)
      BY <1>4 DEF EndsWithin
    <3>2. PICK m : m = Len(data)
      OBVIOUS
    <3>3. at \in Nat /\ m \in Nat /\ m < at + (l + n)
      BY <1>4, <3>1, <3>2
    <3>4. (at + l) + n > m
      BY ONLY <3>3, n \in Nat, l \in Nat
    <3> QED
      BY <3>2, <3>4
  <2>7. PICK j : j = TakeNested(k, n, LAMBDA e : ProofG1FromBytes(e, form))
    OBVIOUS
  <2>8. j = [k EXCEPT !.st = "panic"]
    BY <2>4, <2>6, <2>7 DEF TakeNested
  <2>9. Stuck(j)
    BY <2>1, <2>3, <2>8 DEF Cursor, DropLast, Stuck
  <2>10. TakeProof(Cursor(data, at, out), form) = j
    BY <1>6, <2>2, <2>3, <2>5, <2>7 DEF Onward
  <2> QED
    BY <2>9, <2>10
<1> QED
  BY <1>4, <1>7, <1>8, HeadEndsToo

(* Nor is one at the end. *)
LEMMA RestCut ==
  ASSUME NEW form \in Forms, NEW V, Nat \subseteq V, NEW p, CommittedProof(p, V),
         NEW data, NEW at, NEW out, EndsWithin(data, at, ProofG1ToBytes(p, form))
  PROVE  Stuck(TakeLast(Cursor(data, at, out), form))
<1>1. PICK b \in Seq(Byte(V)) : b = ProofG1ToBytes(p, form)
  BY ProofBytesAre
<1>2. /\ at \in Nat /\ Len(data) \in Nat /\ at <= Len(data) /\ Len(data) < at + Len(b)
      /\ \A k \in 1..(Len(data) - at) : data[at + k] = b[k]
  BY <1>1 DEF EndsWithin
<1>3. PICK m, n : m = Len(data) /\ n = m - at
  OBVIOUS
<1>4. n \in Nat /\ at + n = m /\ m \in Nat
  <2>1. at \in Nat /\ m \in Nat /\ at <= m
    BY <1>2, <1>3
  <2>2. m - at \in Nat /\ at + (m - at) = m
    BY ONLY <2>1
  <2> QED
    BY <1>3, <2>1, <2>2
<1>5. PICK s : s = SubSeq(data, at + 1, at + n)
  OBVIOUS
<1>6. PICK l \in Nat : l = Len(b) /\ n < l
  <2>1. Len(b) \in Nat
    BY LenProperties
  <2>2. PICK l \in Nat : l = Len(b)
    BY <2>1
  <2>3. at + n < at + l
    BY <1>2, <1>3, <1>4, <2>2
  <2>4. at \in Nat
    BY <1>2
  <2>5. n < l
    BY ONLY <1>4, <2>3, <2>4, l \in Nat
  <2> QED
    BY <2>2, <2>5
<1>7. \A k \in 1..n : data[at + k] = b[k] /\ b[k] \in Byte(V)
  <2>1. \A k \in 1..n : data[at + k] = b[k]
    BY <1>2, <1>3
  <2>2. \A k \in 1..n : k \in 1..l
    BY <1>4, <1>6
  <2> QED
    BY <1>6, <2>1, <2>2, ElementOfSeq
<1>8. Len(s) = n /\ \A k \in 1..n : s[k] = data[at + k]
  <2>1. \A i \in (at + 1)..(at + n) : data[i] \in Byte(V)
    <3> SUFFICES ASSUME NEW i \in (at + 1)..(at + n) PROVE data[i] \in Byte(V)
      OBVIOUS
    <3>1. at \in Nat
      BY <1>2
    <3>2. i - at \in 1..n /\ at + (i - at) = i
      BY ONLY <1>4, <3>1, i \in (at + 1)..(at + n)
    <3> QED
      BY <1>7, <3>2
  <2>2. at + 1 \in Int /\ at + n \in Int
    BY <1>2, <1>4
  <2>3. /\ Len(s) = IF at + 1 <= at + n THEN (at + n) - (at + 1) + 1 ELSE 0
        /\ \A i \in 1..((at + n) - (at + 1) + 1) : s[i] = data[at + 1 + i - 1]
    BY <1>5, <2>1, <2>2, SubSeqProperties
  <2>4. (at + n) - (at + 1) + 1 = n /\ (~(at + 1 <= at + n) => n = 0)
        /\ \A i \in 1..n : at + 1 + i - 1 = at + i
    BY <1>2, <1>4
  <2> QED
    BY <2>3, <2>4
<1>9. EndsWithin(s, 0, b)
  <2>1. \A k \in 1..n : s[k] = b[k]
    BY <1>7, <1>8
  <2>2. n - 0 = n /\ 0 <= n /\ n < 0 + l /\ \A k \in 1..n : 0 + k = k
    BY <1>4, <1>6
  <2> QED
    BY <1>4, <1>6, <1>8, <2>1, <2>2 DEF EndsWithin
<1>10. ProofG1FromBytes(s, form).st # "ok"
  BY <1>1, <1>9, ProofG1Cut
<1>11. PICK h : h = Cursor(data, at, out)
  OBVIOUS
<1>12. h.st = "ok" /\ h.at = at /\ h.data = data
  BY <1>11 DEF Cursor
<1>13. ~(at + n > Len(data))
  BY <1>3, <1>4
<1>14. PICK x : x = ProofG1FromBytes(s, form)
  OBVIOUS
<1>15. TakeNested(h, n, LAMBDA d : ProofG1FromBytes(d, form)) = TakeResult(h, n, x)
  BY <1>5, <1>12, <1>13, <1>14 DEF TakeNested
<1>16. TakeResult(h, n, x) = [h EXCEPT !.st = x.st]
  BY <1>10, <1>14 DEF TakeResult
<1>17. TakeLast(h, form) = TakeNested(h, n, LAMBDA d : ProofG1FromBytes(d, form))
  BY <1>3, <1>12 DEF TakeLast, TakeRest
<1>18. [h EXCEPT !.st = x.st].st = x.st
  BY <1>11 DEF Cursor
<1> QED
  BY <1>10, <1>11, <1>14, <1>15, <1>16, <1>17, <1>18 DEF Stuck

(* w is the beginning of data. *)
CutTo(w, data, n) == Len(w) = n /\ \A k \in 1..n : w[k] = data[k]

(* What lies in the data lies in its beginning or ends it. *)
LEMMA CutLies ==
  ASSUME NEW T, NEW b \in Seq(T), NEW data, NEW at \in Nat, LiesAt(data, at, b),
         NEW n \in Nat, at <= n, NEW w, CutTo(w, data, n)
  PROVE  LiesAt(w, at, b) \/ EndsWithin(w, at, b)
<1>1. PICK l \in Nat : l = Len(b)
  BY LenProperties
<1>2. \A k \in 1..l : data[at + k] = b[k]
  BY <1>1 DEF LiesAt
<1>3. Len(w) = n /\ \A k \in 1..n : w[k] = data[k]
  BY DEF CutTo
<1>4. \A k \in 1..l : at + k <= n => w[at + k] = b[k]
  <2> SUFFICES ASSUME NEW k \in 1..l, at + k <= n PROVE w[at + k] = b[k]
    OBVIOUS
  <2>1. at + k \in 1..n
    OBVIOUS
  <2> QED
    BY <1>2, <1>3, <2>1
<1>5. CASE at + l <= n
  <2>1. \A k \in 1..l : at + k <= n
    BY <1>5
  <2> QED
    BY <1>1, <1>3, <1>4, <1>5, <2>1 DEF LiesAt
<1>6. CASE ~(at + l <= n)
  <2>1. \A k \in 1..(n - at) : k \in 1..l /\ at + k <= n
    BY <1>6
  <2>2. n < at + l
    BY <1>6
  <2> QED
    BY <1>1, <1>3, <1>4, <2>1, <2>2 DEF EndsWithin
<1> QED
  BY <1>5, <1>6

(* The cursor c on the first n bytes read i proofs, or it has stopped. *)
ReadOrStuck(c, w, n, o, at, i) ==
  Stuck(c) \/ (c = Cursor(w, at[i], o[i]) /\ at[i] <= n)

(* The four points of a ticket proof. *)
LEMMA PointsOrStuck ==
  ASSUME NEW form \in Forms, NEW V, NEW p, NEW W, NEW d, NEW q, NEW b, NEW o, NEW at,
         TicketLayout(p, form, V, W, d, q, b, o, at),
         NEW n \in Nat, NEW w, CutTo(w, d, n)
  PROVE  ReadOrStuck(TakeMany(AtLeast(CursorOn(w), 3 * Size("g1", form)), "g1", form, 4),
                     w, n, o, at, 0)
<1>1. PICK g \in Nat \ {0} : g = Size("g1", form)
  BY SizesArePositive DEF Kinds, Layouts
<1>2. PICK a \in Seq(Byte(V)), vs \in Seq(V) :
        /\ vs = o[0] /\ Len(vs) = 4 /\ a = BytesOfAll("g1", form, vs) /\ LiesAt(d, 0, a)
        /\ Len(a) = 4 * g /\ at[0] = 4 * g
  BY <1>1 DEF TicketLayout
<1>3. Len(w) = n
  BY DEF CutTo
<1>4. PICK e, c : e = AtLeast(CursorOn(w), 3 * g) /\ c = TakeMany(e, "g1", form, 4)
  OBVIOUS
<1>5. CASE n < 3 * g
  <2>1. CursorOn(w).st = "ok" /\ CursorOn(w).data = w
    BY DEF CursorOn
  <2>2. e = [CursorOn(w) EXCEPT !.st = "err"]
    BY <1>3, <1>4, <1>5, <2>1 DEF AtLeast
  <2>3. Stuck(e)
    BY <2>2 DEF CursorOn, Stuck
  <2>4. Stuck(c)
    BY <1>4, <2>3, TakeManyStuck, 4 \in Nat
  <2> QED
    BY <1>1, <1>4, <2>4 DEF ReadOrStuck
<1>6. CASE ~(n < 3 * g)
  <2>1. PICK z \in Seq(V) : z = << >>
    BY EmptySeq
  <2>2. e = Cursor(w, 0, z)
    BY <1>3, <1>4, <1>6, <2>1 DEF CursorOn, Cursor, AtLeast
  <2>3. ASSUME ~Stuck(c) PROVE c = Cursor(w, at[0], o[0]) /\ at[0] <= n
    <3>1. 4 * g <= n
      <4>1. ~Stuck(TakeMany(Cursor(w, 0, z), "g1", form, 4))
        BY <1>4, <2>2, <2>3
      <4>2. 0 + 4 * Size("g1", form) <= Len(w)
        <5>1. Len(w) \in Nat /\ 0 <= Len(w) /\ 4 \in Nat /\ 0 \in Nat
          BY <1>3
        <5>2. "g1" \in Kinds /\ form \in Layouts
          BY DEF Kinds, Layouts
        <5> QED
          BY ONLY <4>1, <5>1, <5>2, TakeManyFits
      <4> QED
        BY <1>1, <1>3, <4>2
    <3>2. LiesAt(w, 0, a)
      <4>1. LiesAt(w, 0, a) \/ EndsWithin(w, 0, a)
        BY <1>2, CutLies, 0 \in Nat, 0 <= n
      <4>2. ~EndsWithin(w, 0, a)
        BY <1>2, <1>3, <3>1 DEF EndsWithin
      <4> QED
        BY <4>1, <4>2
    <3>3. TakeMany(Cursor(w, 0, z), "g1", form, Len(vs))
            = Cursor(w, 0 + Len(vs) * Size("g1", form), z \o vs)
      <4>1. LiesAt(w, 0, BytesOfAll("g1", form, vs)) /\ 0 \in Nat
        BY <1>2, <3>2
      <4>2. "g1" \in Kinds /\ form \in Layouts /\ V \subseteq V
        BY DEF Kinds, Layouts
      <4> QED
        BY <4>1, <4>2, TakeManyReads
    <3>4. z \o vs = vs
      BY <2>1, ConcatEmptySeq
    <3>5. c = Cursor(w, 0 + 4 * g, vs)
      BY <1>1, <1>2, <1>4, <2>2, <3>3, <3>4
    <3>6. 0 + 4 * g = 4 * g
      OBVIOUS
    <3> QED
      BY <1>2, <3>1, <3>5, <3>6
  <2> QED
    BY <1>1, <1>4, <2>3 DEF ReadOrStuck
<1> QED
  BY <1>5, <1>6

(* The next proof. *)
LEMMA ProofOrStuck ==
  ASSUME NEW form \in Forms, NEW V, Nat \subseteq V, NEW p,
         NEW W, NEW d, NEW q, NEW b, NEW o, NEW at,
         TicketLayout(p, form, V, W, d, q, b, o, at),
         NEW n \in Nat, NEW w, CutTo(w, d, n), NEW i \in 1..4,
         NEW c, ReadOrStuck(c, w, n, o, at, i - 1)
  PROVE  ReadOrStuck(TakeProof(c, form), w, n, o, at, i)
<1>1. CASE Stuck(c)
  BY <1>1, ProofStuck DEF ReadOrStuck
<1>2. CASE c = Cursor(w, at[i - 1], o[i - 1]) /\ at[i - 1] <= n
  <2>1. i \in 1..5 /\ i - 1 \in 0..5 /\ i < 5
    OBVIOUS
  <2>2. PICK x, y, k, f :
          x = q[i] /\ y = b[i] /\ k = at[i - 1] /\ f = o[i - 1]
    OBVIOUS
  <2>3. /\ CommittedProof(x, V) /\ o[i] = Append(f, x) /\ y \in Seq(Byte(V))
        /\ LiesAt(d, k, y) /\ at[i] = k + Len(y) /\ k \in Nat /\ f \in Seq(W)
        /\ y = Prefixed(ProofG1ToBytes(x, form)) /\ Nat \subseteq W
    BY <2>1, <2>2 DEF TicketLayout
  <2>4. c = Cursor(w, k, f) /\ k <= n
    BY <1>2, <2>2
  <2>5. LiesAt(w, k, y) \/ EndsWithin(w, k, y)
    BY <2>3, <2>4, CutLies
  <2>6. ASSUME LiesAt(w, k, y) PROVE TakeProof(c, form) = Cursor(w, at[i], o[i]) /\ at[i] <= n
    <3>1. AtCursor(w, k, Prefixed(ProofG1ToBytes(x, form)), x, V, W, f)
      BY <2>3, <2>6 DEF AtCursor
    <3>2. TakeProof(Cursor(w, k, f), form)
            = Cursor(w, k + Len(Prefixed(ProofG1ToBytes(x, form))), Append(f, x))
      BY <3>1, PrefixedReads
    <3>3. k + Len(y) <= n
      BY <2>6 DEF LiesAt, CutTo
    <3> QED
      BY <2>3, <2>4, <3>2, <3>3
  <2>7. ASSUME EndsWithin(w, k, y) PROVE Stuck(TakeProof(c, form))
    BY <2>3, <2>4, <2>7, PrefixedCut
  <2> QED
    BY <2>5, <2>6, <2>7 DEF ReadOrStuck
<1> QED
  BY <1>1, <1>2 DEF ReadOrStuck

(* No ticket proof is read from a proper beginning of its bytes
   (pok_ticket.rs from_bytes). *)
LEMMA TicketProofCut ==
  ASSUME NEW form \in Forms, NEW V, Nat \subseteq V, NEW p, TicketProof(p, V),
         NEW n \in Nat, n < Len(TicketPoKToBytes(p, form))
  PROVE  TicketPoKFromBytes(SubSeq(TicketPoKToBytes(p, form), 1, n), form).st # "ok"
<1>1. PICK W, d, q, b, o, at : TicketLayout(p, form, V, W, d, q, b, o, at)
  BY TicketInParts
<1>2. d = TicketPoKToBytes(p, form) /\ d \in Seq(Byte(V)) /\ n < Len(d)
  BY <1>1 DEF TicketLayout
<1>3. PICK w : w = SubSeq(d, 1, n)
  OBVIOUS
<1>4. CutTo(w, d, n)
  <2>1. Len(d) \in Nat /\ \A i \in 1..Len(d) : d[i] \in Byte(V)
    BY <1>2, LenProperties, ElementOfSeq
  <2>2. \A i \in 1..n : d[i] \in Byte(V)
    BY <1>2, <2>1
  <2>3. /\ Len(w) = IF 1 <= n THEN n - 1 + 1 ELSE 0
        /\ \A i \in 1..(n - 1 + 1) : w[i] = d[1 + i - 1]
    BY <1>3, <2>2, SubSeqProperties, 1 \in Int, n \in Int
  <2>4. n - 1 + 1 = n /\ \A i \in 1..n : 1 + i - 1 = i
    OBVIOUS
  <2> QED
    BY <2>3, <2>4 DEF CutTo
<1>5. PICK c0, c1, c2, c3, c4, h :
        /\ c0 = TakeMany(AtLeast(CursorOn(w), 3 * Size("g1", form)), "g1", form, 4)
        /\ c1 = TakeProof(c0, form) /\ c2 = TakeProof(c1, form)
        /\ c3 = TakeProof(c2, form) /\ c4 = TakeProof(c3, form) /\ h = TakeLast(c4, form)
  OBVIOUS
<1>6. ReadOrStuck(c0, w, n, o, at, 0)
  BY <1>1, <1>4, <1>5, PointsOrStuck
<1>7. ReadOrStuck(c1, w, n, o, at, 1)
  <2>1. 1 \in 1..4 /\ 1 - 1 = 0
    OBVIOUS
  <2> QED
    BY <1>1, <1>4, <1>5, <1>6, <2>1, ProofOrStuck
<1>8. ReadOrStuck(c2, w, n, o, at, 2)
  <2>1. 2 \in 1..4 /\ 2 - 1 = 1
    OBVIOUS
  <2> QED
    BY <1>1, <1>4, <1>5, <1>7, <2>1, ProofOrStuck
<1>9. ReadOrStuck(c3, w, n, o, at, 3)
  <2>1. 3 \in 1..4 /\ 3 - 1 = 2
    OBVIOUS
  <2> QED
    BY <1>1, <1>4, <1>5, <1>8, <2>1, ProofOrStuck
<1>10. ReadOrStuck(c4, w, n, o, at, 4)
  <2>1. 4 \in 1..4 /\ 4 - 1 = 3
    OBVIOUS
  <2> QED
    BY <1>1, <1>4, <1>5, <1>9, <2>1, ProofOrStuck
<1>11. Stuck(h)
  <2>1. CASE Stuck(c4)
    BY <1>5, <2>1, ProofStuck
  <2>2. CASE c4 = Cursor(w, at[4], o[4]) /\ at[4] <= n
    <3>1. PICK x, y, k : x = q[5] /\ y = b[5] /\ k = at[4]
      OBVIOUS
    <3>2. 5 \in 1..5 /\ 5 - 1 = 4 /\ 4 \in 0..5 /\ ~(5 < 5)
      OBVIOUS
    <3>3. /\ CommittedProof(x, V) /\ y \in Seq(Byte(V)) /\ LiesAt(d, k, y) /\ k \in Nat
          /\ y = ProofG1ToBytes(x, form) /\ Len(d) = k + Len(y)
      BY <1>1, <3>1, <3>2 DEF TicketLayout
    <3>4. LiesAt(w, k, y) \/ EndsWithin(w, k, y)
      BY <1>4, <2>2, <3>1, <3>3, CutLies
    <3>5. ~LiesAt(w, k, y)
      <4>1. Len(w) = n /\ ~(Len(d) <= n)
        BY <1>2, <1>4, LenProperties DEF CutTo
      <4> QED
        BY <3>3, <4>1 DEF LiesAt
    <3> QED
      BY <1>5, <2>2, <3>1, <3>3, <3>4, <3>5, RestCut
  <2> QED
    BY <1>10, <2>1, <2>2 DEF ReadOrStuck
<1>12. TicketPoKFromBytes(w, form)
         = Read(h, LAMBDA x : [rz |-> [a_prime |-> x[1], a_bar |-> x[2], d |-> x[3]], c |-> x[4],
                       proof_vc_1 |-> x[5], proof_vc_2 |-> x[6], proof_vc_3 |-> x[7],
                       proof_vc_4 |-> x[8], proof_vc_5 |-> x[9]])
  BY <1>5 DEF TicketPoKFromBytes, TakeProof, TakeLast
<1> QED
  BY <1>2, <1>3, <1>11, <1>12 DEF Read, Stuck
--------------------------------------------------------------------------------
(* Proofs of knowledge for a ticket. *)

(* The scalars that are drawn for the relations of a ticket: what blinds e, and
   eight more. *)
TicketDraws(d, k) ==
  /\ d \in Seq(Fr) /\ k \in Nat /\ k >= 6 /\ Len(d) >= k + 8

(* Relations 3, 4 and 5 of a ticket's proof, for the exponent e. *)
Extended(pok, sp, k, e, d, b, t) ==
  LET rho1 == d[k + 1]
      rho2 == d[k + 2]
      c == Plus(Times(One, rho1), Times(G2_VALUE, rho2))
  IN  /\ pok.rz = sp.rz /\ pok.vc_1 = sp.vc_1 /\ pok.vc_2 = sp.vc_2 /\ pok.c = c
      /\ pok.vc_3 = TicketRelation(<<One, G2_VALUE>>, <<rho1, rho2>>, <<d[k + 3], d[k + 4]>>)
      /\ pok.vc_4 = TicketRelation(<<c, One, G2_VALUE>>,
                      <<Negate(e), Times(rho1, e), Times(rho2, e)>>,
                      <<d[3], d[k + 5], d[k + 6]>>)
      /\ pok.vc_5 = TicketRelation(<<b, t>>, <<Times(rho1, e), Negate(rho1)>>,
                                   <<d[k + 7], d[k + 8]>>)

(* init for a ticket accepts what init for a signature does, and adds three
   relations (pok_ticket.rs init). *)
LEMMA TicketInit ==
  ASSUME NEW sig, NEW vk, NEW pms, NEW d, NEW b, NEW t,
         PoKOfSignatureInit(sig, vk, pms, d).st = "ok"
  PROVE  LET made == PoKOfTicketInit(sig, vk, pms, t, b, d)
         IN  /\ made.st = "ok"
             /\ Extended(made.val, PoKOfSignatureInit(sig, vk, pms, d).val,
                         6 + Cardinality(Hidden(pms)), sig.e, d, b, t)
<1> DEFINE k == 6 + Cardinality(Hidden(pms))
           m == [i \in DOMAIN pms |-> GetMessage(pms[i])]
           rz == Randomized(sig, vk, m, d[1], d[2])
           r1 == Relation1(rz, sig, vk, d[2], SubSeq(d, 3, 4))
           r2 == Relation2(rz, sig, vk, pms, d[1], d[2], SubSeq(d, 5, Len(d)))
           c == Plus(Times(One, d[k + 1]), Times(G2_VALUE, d[k + 2]))
           r3 == TicketRelation(<<One, G2_VALUE>>, <<d[k + 1], d[k + 2]>>, <<d[k + 3], d[k + 4]>>)
           r4 == TicketRelation(<<c, One, G2_VALUE>>,
                   <<Negate(sig.e), Times(d[k + 1], sig.e), Times(d[k + 2], sig.e)>>,
                   <<d[3], d[k + 5], d[k + 6]>>)
           r5 == TicketRelation(<<b, t>>, <<Times(d[k + 1], sig.e), Negate(d[k + 1])>>,
                                <<d[k + 7], d[k + 8]>>)
           sp == [rz |-> rz, vc_1 |-> r1, vc_2 |-> r2,
                  revealed_messages |-> RevealedMessages(pms)]
           tp == [rz |-> rz, c |-> c, vc_1 |-> r1, vc_2 |-> r2,
                  vc_3 |-> r3, vc_4 |-> r4, vc_5 |-> r5]
<1>1. PoKOfSignatureInit(sig, vk, pms, d) = Try(InitCheck(sig, vk, pms), LAMBDA good : Ok(sp))
  BY DEF PoKOfSignatureInit
<1>2. PoKOfTicketInit(sig, vk, pms, t, b, d)
        = Try(InitCheck(sig, vk, pms), LAMBDA good : Ok(tp))
  BY DEF PoKOfTicketInit
<1> HIDE DEF sp, tp
<1>3. InitCheck(sig, vk, pms).st = "ok"
  BY <1>1 DEF Try
<1>4. /\ PoKOfSignatureInit(sig, vk, pms, d) = Ok(sp)
      /\ PoKOfTicketInit(sig, vk, pms, t, b, d) = Ok(tp)
  BY <1>1, <1>2, <1>3 DEF Try
<1>5. Extended(tp, sp, k, sig.e, d, b, t)
  <2> HIDE DEF rz, k, r1, r2
  <2> QED
    BY DEF Extended, tp, sp
<1> QED
  BY <1>4, <1>5 DEF Ok

(* What a proof of a relation is: made of scalars, the first response is for
   the first secret, and it is accepted for the product of the secrets. *)
Answered(x, r, b, u, v, c) ==
  /\ GenProofVC(r, c, v) = Ok(x) /\ CommittedProof(x, Nat)
  /\ Len(b) >= 1 => x.responses[1] = Minus(u[1], Times(c, v[1]))
  /\ x.responses \in Seq(Fr) /\ Len(x.responses) = Len(b)
  /\ VerifyVC(x, b, MultiScalarMul(b, v), c) = Ok(TRUE)
  /\ CommittedBytes(r) = Append(b, x.commitment)

LEMMA RelationAnswered ==
  ASSUME NEW b, NEW u, NEW v, Together(b, u, v), NEW c \in Fr
  PROVE  \E x : Answered(x, Finish(CommitAll(Committing, b, u)), b, u, v, c)
<1>1. Proven(b, u, v, c)
  BY ProofHolds
<1>2. PICK r, made : r = Finish(CommitAll(Committing, b, u)) /\ made = GenProofVC(r, c, v)
  OBVIOUS
<1>3. /\ r.bases = b /\ r.commitment = MultiScalarMul(b, u)
      /\ made.st = "ok" /\ made.val.responses \in Seq(Fr)
      /\ Len(made.val.responses) = Len(b)
      /\ \A k \in 1..Len(b) : made.val.responses[k] = Minus(u[k], Times(c, v[k]))
      /\ made.val.commitment = MultiScalarMul(b, u)
      /\ VerifyVC(made.val, b, MultiScalarMul(b, v), c) = Ok(TRUE)
  BY <1>1, <1>2 DEF Proven
<1>4. PICK x : x = made.val
  OBVIOUS
<1>5. made = Ok(x) /\ x = [commitment |-> x.commitment, responses |-> x.responses]
  BY <1>2, <1>3, <1>4 DEF GenProofVC, Ok, Err
<1>6. x.commitment \in Nat /\ x.responses \in Seq(Nat)
  <2>1. MultiScalarMul(b, u) \in Fr
    BY ProductOf DEF Together
  <2>2. Fr \subseteq Nat
    BY RAssumption DEF Fr
  <2> QED
    BY <1>3, <1>4, <2>1, <2>2, SeqMonotonic
<1>7. Len(b) >= 1 => 1 \in 1..Len(b)
  <2>1. Len(b) \in Nat
    BY LenProperties DEF Together
  <2> QED
    BY <2>1
<1>8. CommittedBytes(r) = Append(b, x.commitment)
  BY <1>3, <1>4 DEF CommittedBytes
<1> QED
  BY <1>2, <1>3, <1>4, <1>5, <1>6, <1>7, <1>8 DEF Answered, CommittedProof

(* Three values are one and then two. *)
LEMMA HeadAndTwo ==
  ASSUME NEW x, NEW y, NEW z
  PROVE  <<x, y, z>> = <<x>> \o <<y, z>>
<1>1. PICK s, t, r, T : s = <<x>> /\ t = <<y, z>> /\ r = <<x, y, z>> /\ T = {x, y, z}
  OBVIOUS
<1>2. /\ s \in Seq(T) /\ t \in Seq(T) /\ r \in Seq(T)
      /\ Len(s) = 1 /\ Len(t) = 2 /\ Len(r) = 3 /\ s[1] = x /\ t[1] = y /\ t[2] = z
      /\ r[1] = x /\ r[2] = y /\ r[3] = z
  BY <1>1
<1>3. /\ s \o t \in Seq(T) /\ Len(s \o t) = 3
      /\ \A k \in 1..3 : (s \o t)[k] = IF k <= 1 THEN s[k] ELSE t[k - 1]
  <2>1. s \in Seq(T) /\ t \in Seq(T) /\ Len(s) = 1 /\ Len(t) = 2
    BY <1>2
  <2>2. /\ s \o t \in Seq(T) /\ Len(s \o t) = Len(s) + Len(t)
        /\ \A k \in 1..(Len(s) + Len(t)) :
             (s \o t)[k] = IF k <= Len(s) THEN s[k] ELSE t[k - Len(s)]
    BY ONLY <2>1, ConcatProperties
  <2>3. Len(s) + Len(t) = 3
    BY ONLY <2>1
  <2> QED
    BY ONLY <2>1, <2>2, <2>3
<1>4. \A k \in 1..3 : (s \o t)[k] = r[k]
  <2>1. PICK q : q = s \o t
    OBVIOUS
  <2>2. q[1] = r[1] /\ q[2] = r[2] /\ q[3] = r[3]
    BY <1>2, <1>3, <2>1
  <2>3. \A k \in 1..3 : q[k] = r[k]
    BY ONLY <2>2
  <2> QED
    BY <2>1, <2>3
<1>5. s \o t = r
  BY <1>2, <1>3, <1>4, SeqEqual
<1> QED
  BY <1>1, <1>5

(* What is added to its opposite. *)
LEMMA Opposites ==
  ASSUME NEW x \in Fr
  PROVE  Plus(Negate(x), x) = Zero /\ Plus(x, Negate(x)) = Zero
<1>1. Minus(x, x) = Zero /\ Minus(x, x) = Plus(x, Negate(x))
  BY Neutral, MinusIsPlus
<1>2. Plus(Negate(x), x) = Plus(x, Negate(x))
  BY ScalarTypes, Commutes
<1> QED
  BY <1>1, <1>2

(* A relation that a proof can be made of, and the product of its secrets. *)
Holds(b, u, v, product) == Together(b, u, v) /\ MultiScalarMul(b, v) = product

(* (Of two bases.) *)
LEMMA HoldsForTwo ==
  ASSUME NEW x \in Fr, NEW y \in Fr, NEW u1 \in Fr, NEW u2 \in Fr,
         NEW v1 \in Fr, NEW v2 \in Fr
  PROVE  Holds(<<x, y>>, <<u1, u2>>, <<v1, v2>>, Plus(Times(x, v1), Times(y, v2)))
<1>1. /\ <<x, y>> \in Seq(Fr) /\ <<u1, u2>> \in Seq(Fr) /\ <<v1, v2>> \in Seq(Fr)
      /\ Len(<<x, y>>) = 2 /\ Len(<<u1, u2>>) = 2 /\ Len(<<v1, v2>>) = 2
  OBVIOUS
<1>2. MultiScalarMul(<<x, y>>, <<v1, v2>>) = Plus(Times(x, v1), Times(y, v2))
  BY ProductPair
<1> QED
  BY <1>1, <1>2 DEF Holds, Together

(* (Of three.) *)
LEMMA HoldsForThree ==
  ASSUME NEW x \in Fr, NEW y \in Fr, NEW z \in Fr,
         NEW u1 \in Fr, NEW u2 \in Fr, NEW u3 \in Fr,
         NEW v1 \in Fr, NEW v2 \in Fr, NEW v3 \in Fr
  PROVE  Holds(<<x, y, z>>, <<u1, u2, u3>>, <<v1, v2, v3>>,
               Plus(Times(x, v1), Plus(Times(y, v2), Times(z, v3))))
<1>1. /\ <<x, y, z>> \in Seq(Fr) /\ <<u1, u2, u3>> \in Seq(Fr) /\ <<v1, v2, v3>> \in Seq(Fr)
      /\ Len(<<x, y, z>>) = 3 /\ Len(<<u1, u2, u3>>) = 3 /\ Len(<<v1, v2, v3>>) = 3
  OBVIOUS
<1>2. <<x, y, z>> = <<x>> \o <<y, z>> /\ <<v1, v2, v3>> = <<v1>> \o <<v2, v3>>
  BY HeadAndTwo
<1>3. /\ <<y, z>> \in Seq(Fr) /\ <<v2, v3>> \in Seq(Fr)
      /\ Len(<<y, z>>) = Len(<<v2, v3>>)
  OBVIOUS
<1>4. MultiScalarMul(<<x>> \o <<y, z>>, <<v1>> \o <<v2, v3>>)
        = Plus(Times(x, v1), MultiScalarMul(<<y, z>>, <<v2, v3>>))
  <2>1. PICK b \in Seq(Fr), s \in Seq(Fr) : b = <<y, z>> /\ s = <<v2, v3>> /\ Len(b) = Len(s)
    BY <1>3
  <2>2. MultiScalarMul(<<x>> \o b, <<v1>> \o s) = Plus(Times(x, v1), MultiScalarMul(b, s))
    <3>1. x \in Fr /\ v1 \in Fr /\ b \in Seq(Fr) /\ s \in Seq(Fr) /\ Len(b) = Len(s)
      BY <2>1
    <3> QED
      BY ONLY <3>1, ProductHead
  <2> QED
    BY <2>1, <2>2
<1>5. MultiScalarMul(<<y, z>>, <<v2, v3>>) = Plus(Times(y, v2), Times(z, v3))
  BY ProductPair
<1> QED
  BY <1>1, <1>2, <1>4, <1>5 DEF Holds, Together

(* Relation 4: C = g1^rho1 * g2^rho2 to the -e, and back again. *)
LEMMA FourthCancels ==
  ASSUME NEW g \in Fr, NEW x \in Fr, NEW y \in Fr, NEW e \in Fr, NEW c,
         c = Plus(Times(One, x), Times(g, y))
  PROVE  /\ c \in Fr
         /\ Plus(Times(c, Negate(e)),
                 Plus(Times(One, Times(x, e)), Times(g, Times(y, e)))) = Zero
<1>1. PICK p \in Fr : p = Times(g, y)
  BY ScalarTypes
<1>2. c = Plus(x, p) /\ c \in Fr
  BY <1>1, Neutral, ScalarTypes
<1>3. PICK xe \in Fr, pe \in Fr : xe = Times(x, e) /\ pe = Times(p, e)
  BY <1>1, ScalarTypes
<1>4. Times(One, Times(x, e)) = xe
  BY <1>3, Neutral
<1>5. Times(g, Times(y, e)) = pe
  BY <1>1, <1>3, Associates
<1>6. PICK ce \in Fr : ce = Plus(xe, pe)
  BY ScalarTypes
<1>7. Times(c, e) = ce
  <2>1. Times(c, e) = Times(e, Plus(x, p))
    BY <1>1, <1>2, Commutes
  <2>2. Times(e, Plus(x, p)) = Plus(Times(e, x), Times(e, p))
    BY <1>1, Distributes
  <2>3. Times(e, x) = xe /\ Times(e, p) = pe
    BY <1>1, <1>3, Commutes
  <2> QED
    BY <1>6, <2>1, <2>2, <2>3
<1>8. Times(c, Negate(e)) = Negate(ce)
  BY <1>2, <1>7, Distributes
<1>9. Plus(Negate(ce), ce) = Zero
  BY Opposites
<1> QED
  BY <1>2, <1>4, <1>5, <1>6, <1>8, <1>9

(* Relation 5: b to the rho1 * e, and t = b^e to the -rho1. *)
LEMMA FifthCancels ==
  ASSUME NEW b \in Fr, NEW x \in Fr, NEW e \in Fr
  PROVE  Plus(Times(b, Times(x, e)), Times(Times(b, e), Negate(x))) = Zero
<1>1. PICK be \in Fr : be = Times(b, e)
  BY ScalarTypes
<1>2. Times(b, Times(x, e)) = Times(be, x)
  <2>1. Times(x, e) = Times(e, x)
    BY Commutes
  <2>2. Times(b, Times(e, x)) = Times(Times(b, e), x)
    BY Associates
  <2> QED
    BY <1>1, <2>1, <2>2
<1>3. PICK q \in Fr : q = Times(be, x)
  BY ScalarTypes
<1>4. Times(be, Negate(x)) = Negate(q)
  BY <1>3, Distributes
<1>5. Plus(q, Negate(q)) = Zero
  BY Opposites
<1> QED
  BY <1>1, <1>2, <1>3, <1>4, <1>5

(* What the success of a signature's proof says. *)
Passes(proof, vk, rev, c) ==
  /\ RevealedCheck(vk, rev).st = "ok" /\ proof.rz.a_prime # Zero
  /\ PairingHolds(proof.rz.a_prime, vk.w, proof.rz.a_bar)
  /\ VerifyRelation1(proof, vk, c) = Ok(TRUE)
  /\ VerifyRelation2(proof, vk, rev, c) = Ok(TRUE)

(* (What a relation is checked for is true or false, or an error.) *)
LEMMA VCResult ==
  ASSUME NEW x, NEW b, NEW com, NEW c
  PROVE  \/ VerifyVC(x, b, com, c) = Ok(TRUE) \/ VerifyVC(x, b, com, c) = Ok(FALSE)
         \/ VerifyVC(x, b, com, c) = Err("UnequalNoOfBasesExponents")
<1>1. CASE Len(b) # Len(x.responses)
  BY <1>1 DEF VerifyVC, ChallengeContribution, Try, Ok, Err
<1>2. CASE Len(b) = Len(x.responses)
  <2>1. PICK pr : pr = MultiScalarMul(Append(b, com), Append(x.responses, c))
    OBVIOUS
  <2>2. VerifyVC(x, b, com, c) = Ok(pr = x.commitment)
    BY <1>2, <2>1 DEF VerifyVC, ChallengeContribution, Try, Ok, Err
  <2>3. (pr = x.commitment) \in BOOLEAN
    OBVIOUS
  <2> QED
    BY <2>2, <2>3
<1> QED
  BY <1>1, <1>2

LEMMA SuccessPasses ==
  ASSUME NEW proof, NEW vk, NEW rev, NEW c,
         PoKOfSignatureVerify(proof, vk, rev, c) = Ok("Success")
  PROVE  Passes(proof, vk, rev, c)
<1>1. PICK k, v1, v2 : /\ k = RevealedCheck(vk, rev) /\ v1 = VerifyRelation1(proof, vk, c)
                       /\ v2 = VerifyRelation2(proof, vk, rev, c)
  OBVIOUS
<1>2. /\ v1 = Ok(TRUE) \/ v1 = Ok(FALSE) \/ v1 = Err("UnequalNoOfBasesExponents")
      /\ v2 = Ok(TRUE) \/ v2 = Ok(FALSE) \/ v2 = Err("UnequalNoOfBasesExponents")
  BY <1>1, VCResult DEF VerifyRelation1, VerifyRelation2
<1>3. k.st = "ok"
  BY <1>1 DEF PoKOfSignatureVerify, Try, RevealedCheck, PublicKeyValidate, Ok, Err
<1>4. /\ proof.rz.a_prime # Zero /\ PairingHolds(proof.rz.a_prime, vk.w, proof.rz.a_bar)
      /\ Require(v1, "BadHiddenMessage",
           IF v2.st = "ok" /\ v2.val THEN Ok("Success") ELSE Ok("BadRevealedMessage"))
           = Ok("Success")
  BY <1>1, <1>3 DEF PoKOfSignatureVerify, Try, Ok
<1>5. v1 = Ok(TRUE)
  BY <1>2, <1>4 DEF Require, Try, Ok, Err
<1>6. v2 = Ok(TRUE)
  BY <1>2, <1>4, <1>5 DEF Require, Try, Ok, Err
<1> QED
  BY <1>1, <1>3, <1>4, <1>5, <1>6 DEF Passes

(* The proof that the commitment to a ticket gives: it is made of scalars, it
   has the same response for e twice, its verifier hashes what its prover did,
   and it is accepted when t is b^e. *)
TicketAnswer(p, pok, rev, vk, b, t, e, c) ==
  /\ PoKOfTicketGenProof(pok, c) = Ok(p) /\ TicketProof(p, Nat) /\ SameExponent(p)
  /\ p.proof_vc_5.responses \in Seq(Fr) /\ Len(p.proof_vc_5.responses) = 2
  /\ PoKOfTicketBytes(pok) = TicketBytesForChallenge(p, DOMAIN rev, vk, b, t)
  /\ t = Times(b, e) => PoKOfTicketVerify(p, vk, rev, c, b, t) = Ok("Success")

(* A value more. *)
LEMMA AppendToTwo ==
  ASSUME NEW x, NEW y, NEW z
  PROVE  Append(<<x, y>>, z) = <<x, y, z>>
<1>1. PICK s, r, T : s = <<x, y>> /\ r = <<x, y, z>> /\ T = {x, y, z}
  OBVIOUS
<1>2. /\ s \in Seq(T) /\ r \in Seq(T) /\ z \in T /\ Len(s) = 2 /\ Len(r) = 3
      /\ s[1] = x /\ s[2] = y
      /\ r[1] = x /\ r[2] = y /\ r[3] = z
  BY <1>1
<1>3. PICK q : q = Append(s, z) /\ q \in Seq(T) /\ OneMore(s, z, q)
  BY <1>2, AppendTyped
<1>4. Len(q) = 3 /\ q[1] = x /\ q[2] = y /\ q[3] = z
  BY <1>2, <1>3 DEF OneMore
<1>5. \A k \in 1..3 : q[k] = r[k]
  BY ONLY <1>2, <1>4
<1>6. q = r
  BY <1>2, <1>3, <1>4, <1>5, SeqEqual
<1> QED
  BY <1>1, <1>3, <1>6

LEMMA AppendToThree ==
  ASSUME NEW w, NEW x, NEW y, NEW z
  PROVE  Append(<<w, x, y>>, z) = <<w, x, y, z>>
<1>1. PICK s, r, T : s = <<w, x, y>> /\ r = <<w, x, y, z>> /\ T = {w, x, y, z}
  OBVIOUS
<1>2. /\ s \in Seq(T) /\ r \in Seq(T) /\ z \in T /\ Len(s) = 3 /\ Len(r) = 4
      /\ s[1] = w /\ s[2] = x /\ s[3] = y
      /\ r[1] = w /\ r[2] = x /\ r[3] = y /\ r[4] = z
  BY <1>1
<1>3. PICK q : q = Append(s, z) /\ q \in Seq(T) /\ OneMore(s, z, q)
  BY <1>2, AppendTyped
<1>4. Len(q) = 4 /\ q[1] = w /\ q[2] = x /\ q[3] = y /\ q[4] = z
  BY <1>2, <1>3 DEF OneMore
<1>5. \A k \in 1..4 : q[k] = r[k]
  BY ONLY <1>2, <1>4
<1>6. q = r
  BY <1>2, <1>3, <1>4, <1>5, SeqEqual
<1> QED
  BY <1>1, <1>3, <1>6

(* (pok_ticket.rs gen_proof, verify, get_bytes_for_challenge.) *)
LEMMA TicketAnswers ==
  ASSUME NEW sig, NEW pms, NEW d, NEW vk, NEW sk, NEW n,
         Provable(sig, pms, d, vk, sk, n), Len(d) >= 14 + Cardinality(Hidden(pms)),
         G2_VALUE \in Fr, NEW b \in Fr, NEW t \in Fr, NEW c \in Fr,
         NEW pok, pok = PoKOfTicketInit(sig, vk, pms, t, b, d).val
  PROVE  \E p : TicketAnswer(p, pok, RevealedMessages(pms), vk, b, t, sig.e, c)
<1>1. PICK sp, rev : /\ sp = PoKOfSignatureInit(sig, vk, pms, d).val
                     /\ rev = RevealedMessages(pms)
  OBVIOUS
<1>2. PoKOfSignatureInit(sig, vk, pms, d).st = "ok" /\ Committed(sp, sig, pms, d, vk, c)
  BY <1>1, InitCommits
<1>3. PICK k \in Nat : k = 6 + Cardinality(Hidden(pms)) /\ TicketDraws(d, k)
  <2>1. Cardinality(Hidden(pms)) \in Nat
    <3>1. Hidden(pms) \in SUBSET (0..(n - 1))
      BY DEF Provable, Hidden
    <3>2. GoodKey(vk, sk, n)
      BY DEF Provable
    <3> QED
      BY <3>1, <3>2, GoodKeyFacts
  <2>2. d \in Seq(Fr)
    BY SeqMonotonic DEF Provable
  <2> QED
    BY <2>1, <2>2 DEF TicketDraws
<1>4. Extended(pok, sp, k, sig.e, d, b, t)
  BY <1>1, <1>2, <1>3, TicketInit
<1>5. PICK g : g = PoKOfSignatureGenProof(sp, c)
  OBVIOUS
<1>6. Shows(g, sp, pms, vk, c)
  BY <1>2, <1>5, ProofShows
(* The first two relations. *)
<1>7. PICK rz, b1, u1, v1, b2, u2, v2 :
        /\ sp.rz = rz /\ sp.vc_1 = [pok |-> Finish(CommitAll(Committing, b1, u1)), secrets |-> v1]
        /\ sp.vc_2 = [pok |-> Finish(CommitAll(Committing, b2, u2)), secrets |-> v2]
        /\ Together(b1, u1, v1) /\ Together(b2, u2, v2) /\ Len(b1) = 2
        /\ u1[1] = d[3] /\ v1[1] = Negate(sig.e)
        /\ rz.a_prime \in Nat /\ rz.a_bar \in Nat /\ rz.d \in Nat
  <2>1. PICK i, w, rz : /\ i = Inverse1(d[1]) /\ w = SubSeq(d, 5, Len(d))
                        /\ rz = Randomized(sig, vk, Messages(pms), d[1], d[2])
    OBVIOUS
  <2>2. PICK b1, u1, v1, b2, u2, v2 :
          /\ b1 = <<rz.a_prime, vk.h0>> /\ u1 = SubSeq(d, 3, 4)
          /\ v1 = <<Negate(sig.e), d[2]>>
          /\ b2 = <<rz.d, vk.h0>> \o Along(vk.h, Hidden(pms))
          /\ u2 = SubSeq(w, 1, 2) \o Blind(pms, w)
          /\ v2 = <<Negate(i), Plus(Negate(Times(d[2], i)), sig.s)>>
                    \o Along(Messages(pms), Hidden(pms))
    OBVIOUS
  <2>3. /\ sp.rz = rz
        /\ sp.vc_1 = [pok |-> Finish(CommitAll(Committing, b1, u1)), secrets |-> v1]
        /\ sp.vc_2 = [pok |-> Finish(CommitAll(Committing, b2, u2)), secrets |-> v2]
    BY <1>2, <2>1, <2>2 DEF Committed
  <2>4. Together(b1, u1, v1)
    BY <2>1, <2>2, FirstRelation
  <2>5. Together(b2, u2, v2)
    BY <2>1, <2>2, SecondHolds DEF Second
  <2>6. Len(b1) = 2 /\ v1[1] = Negate(sig.e)
    BY <2>2
  <2>7. u1[1] = d[3]
    <3>1. d \in Seq(Fr) /\ Len(d) >= 14 /\ Len(d) \in Nat
      BY <1>3, LenProperties DEF TicketDraws
    <3> QED
      BY <2>2, <3>1
  <2>8. rz.a_prime \in Fr /\ rz.a_bar \in Fr /\ rz.d \in Fr
    BY <2>1, Randomizes
  <2>9. Fr \subseteq Nat
    BY RAssumption DEF Fr
  <2> QED
    BY <2>3, <2>4, <2>5, <2>6, <2>7, <2>8, <2>9
<1>8. PICK r1, r2 : /\ r1 = Finish(CommitAll(Committing, b1, u1))
                    /\ r2 = Finish(CommitAll(Committing, b2, u2))
  OBVIOUS
<1>9. PICK p1 : Answered(p1, r1, b1, u1, v1, c)
  BY <1>7, <1>8, RelationAnswered
<1>10. PICK p2 : Answered(p2, r2, b2, u2, v2, c)
  BY <1>7, <1>8, RelationAnswered
<1>11. /\ sp.vc_1.pok = r1 /\ sp.vc_1.secrets = v1 /\ sp.vc_2.pok = r2 /\ sp.vc_2.secrets = v2
       /\ GenProofVC(r1, c, v1) = Ok(p1) /\ GenProofVC(r2, c, v2) = Ok(p2)
  BY <1>7, <1>8, <1>9, <1>10 DEF Answered
<1>12. g = Ok([rz |-> rz, proof_vc_1 |-> p1, proof_vc_2 |-> p2])
  BY <1>5, <1>7, <1>11 DEF PoKOfSignatureGenProof, Try, Ok
<1>13. PICK x1, x2, x3, x4, x5, x6, x7, x8 :
         /\ x1 = d[k + 1] /\ x2 = d[k + 2] /\ x3 = d[k + 3] /\ x4 = d[k + 4]
         /\ x5 = d[k + 5] /\ x6 = d[k + 6] /\ x7 = d[k + 7] /\ x8 = d[k + 8]
  OBVIOUS
<1>14. PICK e, x0, gg : e = sig.e /\ x0 = d[3] /\ gg = G2_VALUE
  OBVIOUS
<1>15. /\ x1 \in Fr /\ x2 \in Fr /\ x3 \in Fr /\ x4 \in Fr /\ x5 \in Fr /\ x6 \in Fr
       /\ x7 \in Fr /\ x8 \in Fr /\ x0 \in Fr /\ e \in Fr /\ gg \in Fr
  <2>1. d \in Seq(Fr) /\ Len(d) >= k + 8 /\ k >= 6 /\ Len(d) \in Nat
    BY <1>3, LenProperties DEF TicketDraws
  <2>2. \A j \in 1..Len(d) : d[j] \in Fr
    BY <2>1
  <2>3. \A j \in 1..8 : k + j \in 1..Len(d)
    BY <2>1
  <2>4. /\ k + 1 \in 1..Len(d) /\ k + 2 \in 1..Len(d) /\ k + 3 \in 1..Len(d)
        /\ k + 4 \in 1..Len(d) /\ k + 5 \in 1..Len(d) /\ k + 6 \in 1..Len(d)
        /\ k + 7 \in 1..Len(d) /\ k + 8 \in 1..Len(d) /\ 3 \in 1..Len(d)
    BY ONLY <2>1, <2>3
  <2>5. sig.e \in Fr
    BY DEF Provable, SignedFor
  <2> QED
    BY <1>13, <1>14, <2>2, <2>4, <2>5
(* The other three. *)
<1>16. PICK cc : cc = Plus(Times(One, x1), Times(gg, x2))
  OBVIOUS
<1>17. PICK b3, u3, v3, b4, u4, v4, b5, u5, v5 :
         /\ b3 = <<One, gg>> /\ v3 = <<x1, x2>> /\ u3 = <<x3, x4>>
         /\ b4 = <<cc, One, gg>> /\ v4 = <<Negate(e), Times(x1, e), Times(x2, e)>>
         /\ u4 = <<x0, x5, x6>>
         /\ b5 = <<b, t>> /\ v5 = <<Times(x1, e), Negate(x1)>> /\ u5 = <<x7, x8>>
  OBVIOUS
<1>18. /\ pok.rz = sp.rz /\ pok.vc_1 = sp.vc_1 /\ pok.vc_2 = sp.vc_2 /\ pok.c = cc
       /\ pok.vc_3 = TicketRelation(b3, v3, u3) /\ pok.vc_4 = TicketRelation(b4, v4, u4)
       /\ pok.vc_5 = TicketRelation(b5, v5, u5)
  BY <1>4, <1>13, <1>14, <1>16, <1>17 DEF Extended
<1>19. PICK r3, r4, r5 :
         /\ r3 = Finish(CommitAll(Committing, b3, u3))
         /\ r4 = Finish(CommitAll(Committing, b4, u4))
         /\ r5 = Finish(CommitAll(Committing, b5, u5))
  OBVIOUS
<1>20. /\ pok.vc_3.pok = r3 /\ pok.vc_3.secrets = v3 /\ pok.vc_4.pok = r4
       /\ pok.vc_4.secrets = v4 /\ pok.vc_5.pok = r5 /\ pok.vc_5.secrets = v5
  BY <1>18, <1>19 DEF TicketRelation
<1>21. Holds(b3, u3, v3, cc)
  BY <1>15, <1>16, <1>17, HoldsForTwo, ScalarTypes
<1>22. Holds(b4, u4, v4, Zero)
  <2>1. /\ cc \in Fr
        /\ Plus(Times(cc, Negate(e)),
                Plus(Times(One, Times(x1, e)), Times(gg, Times(x2, e)))) = Zero
    BY <1>15, <1>16, FourthCancels
  <2>2. PICK y1 \in Fr, y2 \in Fr, y3 \in Fr :
          y1 = Negate(e) /\ y2 = Times(x1, e) /\ y3 = Times(x2, e)
    BY <1>15, ScalarTypes
  <2>3. Holds(<<cc, One, gg>>, <<x0, x5, x6>>, <<y1, y2, y3>>,
              Plus(Times(cc, y1), Plus(Times(One, y2), Times(gg, y3))))
    BY <1>15, <2>1, <2>2, HoldsForThree, ScalarTypes
  <2> QED
    BY <1>17, <2>1, <2>2, <2>3
<1>23. /\ Together(b5, u5, v5)
       /\ t = Times(b, e) => MultiScalarMul(b5, v5) = Zero
  <2>1. PICK y1 \in Fr, y2 \in Fr : y1 = Times(x1, e) /\ y2 = Negate(x1)
    BY <1>15, ScalarTypes
  <2>2. Holds(<<b, t>>, <<x7, x8>>, <<y1, y2>>, Plus(Times(b, y1), Times(t, y2)))
    BY <1>15, <2>1, HoldsForTwo
  <2>3. t = Times(b, e) => Plus(Times(b, y1), Times(t, y2)) = Zero
    BY <1>15, <2>1, FifthCancels
  <2> QED
    BY <1>17, <2>1, <2>2, <2>3 DEF Holds
<1>24. PICK p3 : Answered(p3, r3, b3, u3, v3, c)
  BY <1>19, <1>21, RelationAnswered DEF Holds
<1>25. PICK p4 : Answered(p4, r4, b4, u4, v4, c)
  BY <1>19, <1>22, RelationAnswered DEF Holds
<1>26. PICK p5 : Answered(p5, r5, b5, u5, v5, c)
  BY <1>19, <1>23, RelationAnswered DEF Holds
<1>27. /\ GenProofVC(r3, c, v3) = Ok(p3) /\ GenProofVC(r4, c, v4) = Ok(p4)
       /\ GenProofVC(r5, c, v5) = Ok(p5)
  BY <1>24, <1>25, <1>26 DEF Answered
<1>28. PICK p : p = [rz |-> rz, c |-> cc, proof_vc_1 |-> p1, proof_vc_2 |-> p2,
                     proof_vc_3 |-> p3, proof_vc_4 |-> p4, proof_vc_5 |-> p5]
  OBVIOUS
<1>29. /\ p.rz = rz /\ p.c = cc /\ p.proof_vc_1 = p1 /\ p.proof_vc_2 = p2
       /\ p.proof_vc_3 = p3 /\ p.proof_vc_4 = p4 /\ p.proof_vc_5 = p5
  BY <1>28
<1>30. PoKOfTicketGenProof(pok, c) = Ok(p)
  <2>1. /\ pok.rz = rz /\ pok.c = cc
        /\ GenProofVC(pok.vc_1.pok, c, pok.vc_1.secrets) = Ok(p1)
        /\ GenProofVC(pok.vc_2.pok, c, pok.vc_2.secrets) = Ok(p2)
        /\ GenProofVC(pok.vc_3.pok, c, pok.vc_3.secrets) = Ok(p3)
        /\ GenProofVC(pok.vc_4.pok, c, pok.vc_4.secrets) = Ok(p4)
        /\ GenProofVC(pok.vc_5.pok, c, pok.vc_5.secrets) = Ok(p5)
    BY <1>7, <1>11, <1>18, <1>20, <1>27
  <2> QED
    BY <1>28, <2>1 DEF PoKOfTicketGenProof, Try, Ok
<1>31. TicketProof(p, Nat)
  <2>1. /\ CommittedProof(p1, Nat) /\ CommittedProof(p2, Nat) /\ CommittedProof(p3, Nat)
        /\ CommittedProof(p4, Nat) /\ CommittedProof(p5, Nat)
    BY <1>9, <1>10, <1>24, <1>25, <1>26 DEF Answered
  <2>2. cc \in Nat
    BY <1>15, <1>16, FourthCancels, RAssumption DEF Fr
  <2>3. rz = [a_prime |-> rz.a_prime, a_bar |-> rz.a_bar, d |-> rz.d]
    BY <1>2, <1>7 DEF Committed, Randomized
  <2> QED
    BY <1>7, <1>28, <1>29, <2>1, <2>2, <2>3 DEF TicketProof
<1>32. SameExponent(p)
  <2>1. p1.responses[1] = Minus(u1[1], Times(c, v1[1]))
    BY <1>7, <1>9 DEF Answered
  <2>2. p4.responses[1] = Minus(u4[1], Times(c, v4[1]))
    BY <1>17, <1>25 DEF Answered
  <2>3. u4[1] = u1[1] /\ v4[1] = v1[1]
    BY <1>7, <1>14, <1>17
  <2> QED
    BY <1>29, <2>1, <2>2, <2>3 DEF SameExponent
<1>33. PICK gv : gv = [rz |-> rz, proof_vc_1 |-> p1, proof_vc_2 |-> p2]
  OBVIOUS
<1>34. /\ gv.rz = p.rz /\ gv.proof_vc_1 = p.proof_vc_1 /\ gv.proof_vc_2 = p.proof_vc_2
       /\ g.val = gv
  BY <1>12, <1>29, <1>33 DEF Ok
<1>35. /\ PoKOfSignatureVerify(gv, vk, rev, c) = Ok("Success")
       /\ PoKOfSignatureBytes(sp) = BytesForChallenge(gv, DOMAIN rev, vk)
  BY <1>1, <1>6, <1>34 DEF Shows
<1>36. PoKOfTicketBytes(pok) = TicketBytesForChallenge(p, DOMAIN rev, vk, b, t)
  <2>1. BytesForChallenge(p, DOMAIN rev, vk) = BytesForChallenge(gv, DOMAIN rev, vk)
    BY <1>34 DEF BytesForChallenge
  <2>2. PICK s : s = PoKOfSignatureBytes(sp)
    OBVIOUS
  <2>3. PoKOfTicketBytes(pok) = s \o CommittedBytes(r3) \o CommittedBytes(r4) \o CommittedBytes(r5)
    BY <1>18, <1>20, <2>2 DEF PoKOfTicketBytes, PoKOfSignatureBytes
  <2>4. /\ CommittedBytes(r3) = <<One, gg, p3.commitment>>
        /\ CommittedBytes(r4) = <<cc, One, gg, p4.commitment>>
        /\ CommittedBytes(r5) = <<b, t, p5.commitment>>
    <3>1. /\ CommittedBytes(r3) = Append(b3, p3.commitment)
          /\ CommittedBytes(r4) = Append(b4, p4.commitment)
          /\ CommittedBytes(r5) = Append(b5, p5.commitment)
      BY <1>24, <1>25, <1>26 DEF Answered
    <3>2. /\ Append(b3, p3.commitment) = <<One, gg, p3.commitment>>
          /\ Append(b5, p5.commitment) = <<b, t, p5.commitment>>
      BY <1>17, AppendToTwo
    <3>3. Append(b4, p4.commitment) = <<cc, One, gg, p4.commitment>>
      BY <1>17, AppendToThree
    <3> QED
      BY <3>1, <3>2, <3>3
  <2>5. TicketBytesForChallenge(p, DOMAIN rev, vk, b, t)
          = s \o <<One, gg, p3.commitment>> \o <<cc, One, gg, p4.commitment>>
              \o <<b, t, p5.commitment>>
    BY <1>14, <1>29, <1>35, <2>1, <2>2 DEF TicketBytesForChallenge
  <2> QED
    BY <2>3, <2>4, <2>5
<1>37. ASSUME t = Times(b, e)
       PROVE  PoKOfTicketVerify(p, vk, rev, c, b, t) = Ok("Success")
  <2>1. Passes(gv, vk, rev, c)
    BY <1>35, SuccessPasses
  <2>2. /\ RevealedCheck(vk, rev).st = "ok" /\ p.rz.a_prime # Zero
        /\ PairingHolds(p.rz.a_prime, vk.w, p.rz.a_bar)
        /\ VerifyRelation1(p, vk, c) = Ok(TRUE) /\ VerifyRelation2(p, vk, rev, c) = Ok(TRUE)
    BY <1>34, <2>1 DEF Passes, VerifyRelation1, VerifyRelation2
  <2>3. /\ VerifyVC(p.proof_vc_3, <<One, G2_VALUE>>, p.c, c) = Ok(TRUE)
        /\ VerifyVC(p.proof_vc_4, <<p.c, One, G2_VALUE>>, Zero, c) = Ok(TRUE)
        /\ VerifyVC(p.proof_vc_5, <<b, t>>, Zero, c) = Ok(TRUE)
    BY <1>14, <1>17, <1>21, <1>22, <1>23, <1>24, <1>25, <1>26, <1>29, <1>37 DEF Answered, Holds
  <2>4. VerifyWithoutPairing(p, vk, rev, c, b, t) = Ok("Success")
    BY <1>32, <2>2, <2>3 DEF VerifyWithoutPairing, Require, Try, Ok
  <2> QED
    BY <2>2, <2>4 DEF PoKOfTicketVerify, Try, Ok
<1>38. p.proof_vc_5.responses \in Seq(Fr) /\ Len(p.proof_vc_5.responses) = 2
  BY <1>17, <1>26, <1>29 DEF Answered
<1> QED
  BY <1>1, <1>14, <1>30, <1>31, <1>32, <1>36, <1>37, <1>38 DEF TicketAnswer

(* What is required of a relation ends as the rest does, or before it. *)
LEMMA RequireEnds ==
  ASSUME NEW x, NEW bases, NEW com, NEW c, NEW status, NEW rest, rest.st \in {"ok", "err"}
  PROVE  Require(VerifyVC(x, bases, com, c), status, rest).st \in {"ok", "err"}
<1>1. PICK v : v = VerifyVC(x, bases, com, c)
  OBVIOUS
<1>2. v = Ok(TRUE) \/ v = Ok(FALSE) \/ v = Err("UnequalNoOfBasesExponents")
  BY <1>1, VCResult
<1> QED
  BY <1>1, <1>2 DEF Require, Try, Ok, Err


(* With the same response for e twice, verify has an answer, whatever the proof
   is (pok_ticket.rs verify: its assertion is the only panic). *)
LEMMA VerifyAnswers ==
  ASSUME NEW p, SameExponent(p), NEW vk, NEW rev, NEW c, NEW b, NEW t
  PROVE  PoKOfTicketVerify(p, vk, rev, c, b, t).st \in {"ok", "err"}
<1>1. PICK r5 : r5 = Require(VerifyVC(p.proof_vc_5, <<b, t>>, Zero, c), "BadTicket",
                       IF SameExponent(p) THEN Ok("Success") ELSE Panic)
  OBVIOUS
<1>2. PICK r4 : r4 = Require(VerifyVC(p.proof_vc_4, <<p.c, One, G2_VALUE>>, Zero, c),
                             "BadTicket", r5)
  OBVIOUS
<1>3. PICK r3 : r3 = Require(VerifyVC(p.proof_vc_3, <<One, G2_VALUE>>, p.c, c),
                             "BadTicket", r4)
  OBVIOUS
<1>4. PICK r2 : r2 = Require(VerifyRelation2(p, vk, rev, c), "BadHiddenMessage", r3)
  OBVIOUS
<1>5. PICK r1 : r1 = Require(VerifyRelation1(p, vk, c), "BadHiddenMessage", r2)
  OBVIOUS
<1>6. PICK w : w = VerifyWithoutPairing(p, vk, rev, c, b, t)
  OBVIOUS
<1>7. w = Try(RevealedCheck(vk, rev), LAMBDA checked :
                IF p.rz.a_prime = Zero THEN Ok("BadSignature") ELSE r1)
  BY <1>1, <1>2, <1>3, <1>4, <1>5, <1>6 DEF VerifyWithoutPairing
<1>8. Ok("Success").st = "ok"
  BY DEF Ok
<1>9. r5.st \in {"ok", "err"}
  BY <1>1, <1>8, RequireEnds
<1>10. r4.st \in {"ok", "err"}
  BY <1>2, <1>9, RequireEnds
<1>11. r3.st \in {"ok", "err"}
  BY <1>3, <1>10, RequireEnds
<1>12. r2.st \in {"ok", "err"}
  BY <1>4, <1>11, RequireEnds DEF VerifyRelation2
<1>13. r1.st \in {"ok", "err"}
  BY <1>5, <1>12, RequireEnds DEF VerifyRelation1
<1>14. RevealedCheck(vk, rev).st \in {"ok", "err"}
  BY DEF RevealedCheck, PublicKeyValidate, Try, Ok, Err
<1>15. w.st \in {"ok", "err"}
  BY <1>7, <1>13, <1>14 DEF Try, Ok
<1> QED
  BY <1>6, <1>15 DEF PoKOfTicketVerify, Try, Ok

(* What the success of a ticket's proof says of its last relation. *)
LEMMA TicketSuccess ==
  ASSUME NEW p, NEW vk, NEW rev, NEW c, NEW b, NEW t,
         PoKOfTicketVerify(p, vk, rev, c, b, t) = Ok("Success")
  PROVE  VerifyVC(p.proof_vc_5, <<b, t>>, Zero, c) = Ok(TRUE)
<1>1. PICK v1, v2, v3, v4, v5 :
        /\ v1 = VerifyRelation1(p, vk, c) /\ v2 = VerifyRelation2(p, vk, rev, c)
        /\ v3 = VerifyVC(p.proof_vc_3, <<One, G2_VALUE>>, p.c, c)
        /\ v4 = VerifyVC(p.proof_vc_4, <<p.c, One, G2_VALUE>>, Zero, c)
        /\ v5 = VerifyVC(p.proof_vc_5, <<b, t>>, Zero, c)
  OBVIOUS
<1>2. PICK r5 : r5 = Require(v5, "BadTicket", IF SameExponent(p) THEN Ok("Success") ELSE Panic)
  OBVIOUS
<1>3. PICK r4, r3 : r4 = Require(v4, "BadTicket", r5) /\ r3 = Require(v3, "BadTicket", r4)
  OBVIOUS
<1>4. PICK r2, r1 : r2 = Require(v2, "BadHiddenMessage", r3) /\ r1 = Require(v1, "BadHiddenMessage", r2)
  OBVIOUS
<1>5. PICK k, w : k = RevealedCheck(vk, rev) /\ w = VerifyWithoutPairing(p, vk, rev, c, b, t)
  OBVIOUS
<1>6. w = Try(k, LAMBDA checked :
                IF p.rz.a_prime = Zero THEN Ok("BadSignature") ELSE r1)
  BY <1>1, <1>2, <1>3, <1>4, <1>5 DEF VerifyWithoutPairing
<1>7. w.st = "ok" /\ w.val = "Success"
  <2>1. PICK x : x = PoKOfTicketVerify(p, vk, rev, c, b, t)
    OBVIOUS
  <2>2. x = IF w.st # "ok" THEN w
            ELSE IF w.val = "Success" /\ ~PairingHolds(p.rz.a_prime, vk.w, p.rz.a_bar)
                 THEN Ok("BadSignature") ELSE Ok(w.val)
    BY <1>5, <2>1 DEF PoKOfTicketVerify, Try
  <2>3. x.st = "ok" /\ x.val = "Success"
    BY <2>1 DEF Ok
  <2>4. Ok("BadSignature").val # "Success" /\ Ok(w.val).val = w.val
    BY DEF Ok
  <2> QED
    BY <2>2, <2>3, <2>4
<1>8. k.st = "ok"
  BY <1>5, <1>6, <1>7 DEF RevealedCheck, PublicKeyValidate, Try, Ok, Err
<1>9. r1.st = "ok" /\ r1.val = "Success"
  BY <1>6, <1>7, <1>8 DEF Try, Ok
<1>10. /\ v1 = Ok(TRUE) \/ v1 = Ok(FALSE) \/ v1 = Err("UnequalNoOfBasesExponents")
       /\ v2 = Ok(TRUE) \/ v2 = Ok(FALSE) \/ v2 = Err("UnequalNoOfBasesExponents")
       /\ v3 = Ok(TRUE) \/ v3 = Ok(FALSE) \/ v3 = Err("UnequalNoOfBasesExponents")
       /\ v4 = Ok(TRUE) \/ v4 = Ok(FALSE) \/ v4 = Err("UnequalNoOfBasesExponents")
       /\ v5 = Ok(TRUE) \/ v5 = Ok(FALSE) \/ v5 = Err("UnequalNoOfBasesExponents")
  BY <1>1, VCResult DEF VerifyRelation1, VerifyRelation2
<1>11. r2.st = "ok" /\ r2.val = "Success"
  BY <1>4, <1>9, <1>10 DEF Require, Try, Ok, Err
<1>12. r3.st = "ok" /\ r3.val = "Success"
  BY <1>4, <1>10, <1>11 DEF Require, Try, Ok, Err
<1>13. r4.st = "ok" /\ r4.val = "Success"
  BY <1>3, <1>10, <1>12 DEF Require, Try, Ok, Err
<1>14. r5.st = "ok" /\ r5.val = "Success"
  BY <1>3, <1>10, <1>13 DEF Require, Try, Ok, Err
<1>15. v5 = Ok(TRUE)
  BY <1>2, <1>10, <1>14 DEF Require, Try, Ok, Err
<1> QED
  BY <1>1, <1>15

(* A proof x of the last relation, with the responses r1 and r2, is accepted. *)
FifthPasses(x, r1, r2, b, t, c) ==
  x.responses = <<r1, r2>> /\ VerifyVC(x, <<b, t>>, Zero, c) = Ok(TRUE)

(* The last relation's check does not depend on the challenge. *)
LEMMA FifthChecks ==
  ASSUME NEW x, NEW r1 \in Fr, NEW r2 \in Fr,
         NEW b \in Fr, NEW t \in Fr, NEW c \in Fr, FifthPasses(x, r1, r2, b, t, c)
  PROVE  x.commitment = Plus(Times(b, r1), Times(t, r2))
<1>0. x.responses = <<r1, r2>> /\ VerifyVC(x, <<b, t>>, Zero, c) = Ok(TRUE)
  BY DEF FifthPasses
<1>1. PICK q, s : q = <<b, t>> /\ s = <<r1, r2>>
  OBVIOUS
<1>2. q \in Seq(Fr) /\ s \in Seq(Fr) /\ Len(q) = 2 /\ Len(s) = 2
  BY <1>1
<1>3. Zero \in Fr
  BY ScalarTypes
<1>4. PICK pr : pr = MultiScalarMul(Append(q, Zero), Append(s, c))
  OBVIOUS
<1>5. VerifyVC(x, q, Zero, c) = Ok(pr = x.commitment)
  BY <1>0, <1>1, <1>2, <1>4 DEF VerifyVC, ChallengeContribution, Try, Ok, Err
<1>6. pr = x.commitment
  <2>1. Ok(pr = x.commitment) = Ok(TRUE)
    BY <1>0, <1>1, <1>5
  <2>2. Ok(pr = x.commitment).val = (pr = x.commitment) /\ Ok(TRUE).val = TRUE
    BY Zenon DEF Ok
  <2> QED
    BY <2>1, <2>2
<1>7. pr = Plus(MultiScalarMul(q, s), Times(Zero, c))
  BY <1>2, <1>3, <1>4, ProductAppend
<1>8. PICK m \in Fr : m = Plus(Times(b, r1), Times(t, r2)) /\ MultiScalarMul(q, s) = m
  <2>1. PICK g, h : g = Times(b, r1) /\ h = Times(t, r2)
    OBVIOUS
  <2>2. g \in Fr /\ h \in Fr
    BY <2>1, ScalarTypes
  <2>3. Plus(g, h) \in Fr
    BY <2>2, ScalarTypes
  <2>4. MultiScalarMul(q, s) = Plus(Times(b, r1), Times(t, r2))
    BY <1>1, ProductPair
  <2> QED
    BY <2>1, <2>3, <2>4
<1>9. Times(Zero, c) = Zero /\ Plus(m, Zero) = m
  BY <1>8, Neutral
<1> QED
  BY <1>6, <1>7, <1>8, <1>9

(* A proof that is accepted for two tickets answers the last relation with
   zero: it cannot be moved to another ticket (pok_ticket.rs verify). *)
LEMMA TicketIsBound ==
  ASSUME NEW p, p.proof_vc_5.responses \in Seq(Fr), Len(p.proof_vc_5.responses) = 2,
         NEW vk, NEW rev, NEW b \in Fr, NEW t \in Fr, NEW u \in Fr, NEW c \in Fr, NEW e \in Fr,
         PoKOfTicketVerify(p, vk, rev, c, b, t) = Ok("Success"),
         PoKOfTicketVerify(p, vk, rev, e, b, u) = Ok("Success")
  PROVE  t = u \/ p.proof_vc_5.responses[2] = 0
<1>1. PICK x : x = p.proof_vc_5
  OBVIOUS
<1>2. PICK r1 \in Fr, r2 \in Fr :
        r1 = x.responses[1] /\ r2 = x.responses[2] /\ x.responses = <<r1, r2>>
  <2>1. x.responses[1] \in Fr /\ x.responses[2] \in Fr
    BY <1>1
  <2>2. x.responses = <<x.responses[1], x.responses[2]>>
    BY <1>1
  <2> QED
    BY <2>1, <2>2
<1>3. /\ VerifyVC(x, <<b, t>>, Zero, c) = Ok(TRUE)
      /\ VerifyVC(x, <<b, u>>, Zero, e) = Ok(TRUE)
  BY <1>1, TicketSuccess
<1>4. Plus(Times(b, r1), Times(t, r2)) = Plus(Times(b, r1), Times(u, r2))
  <2>1. x.commitment = Plus(Times(b, r1), Times(t, r2))
    <3>1. FifthPasses(x, r1, r2, b, t, c)
      BY <1>2, <1>3 DEF FifthPasses
    <3> QED
      BY ONLY <3>1, FifthChecks, b \in Fr, t \in Fr, c \in Fr, r1 \in Fr, r2 \in Fr
  <2>2. x.commitment = Plus(Times(b, r1), Times(u, r2))
    <3>1. FifthPasses(x, r1, r2, b, u, e)
      BY <1>2, <1>3 DEF FifthPasses
    <3> QED
      BY ONLY <3>1, FifthChecks, b \in Fr, u \in Fr, e \in Fr, r1 \in Fr, r2 \in Fr
  <2> QED
    BY <2>1, <2>2
<1>5. PICK br \in Fr, tr \in Fr, ur \in Fr :
        br = Times(b, r1) /\ tr = Times(t, r2) /\ ur = Times(u, r2)
  BY ScalarTypes
<1>6. tr = ur
  <2>1. Plus(tr, br) = Plus(ur, br)
    BY <1>4, <1>5, Commutes
  <2>2. Minus(Plus(tr, br), br) = tr /\ Minus(Plus(ur, br), br) = ur
    BY MinusIsPlus
  <2> QED
    BY <2>1, <2>2
<1>7. Times(r2, Minus(t, u)) = Zero
  <2>1. Times(r2, Minus(t, u)) = Minus(Times(r2, t), Times(r2, u))
    BY <1>2, Distributes
  <2>2. Times(r2, t) = tr /\ Times(r2, u) = ur
    BY <1>2, <1>5, Commutes
  <2> QED
    BY <1>6, <2>1, <2>2, Neutral
<1>8. ASSUME r2 # 0 PROVE t = u
  <2>1. PICK z \in Fr : z = Minus(t, u)
    BY ScalarTypes
  <2>2. z = Zero
    BY <1>7, <1>8, <2>1, NoZeroDivisors DEF Zero
  <2>3. Plus(Minus(t, u), u) = t /\ Plus(Zero, u) = u
    BY MinusIsPlus, Neutral
  <2> QED
    BY <2>1, <2>2, <2>3
<1> QED
  BY <1>1, <1>2, <1>8
================================================================================
