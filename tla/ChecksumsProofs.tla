--------------------------- MODULE ChecksumsProofs ---------------------------
(***************************************************************************)
(* Theorems about Checksums, for every size of a byte, every content of    *)
(* the headers and payloads of every length.                               *)
(***************************************************************************)
EXTENDS Checksums, SequenceTheorems, WellFoundedInduction, TLAPS

LEMMA Sizes ==
  /\ Base \in Nat /\ Base > 1 /\ Mod \in Nat /\ Mod > 3
  /\ Mod >= 2 * Base
<1>1. Base \in Nat /\ Base > 1
  BY ChecksumsAssumption
<1>2. Base * Base >= 2 * Base
  BY <1>1
<1> QED BY <1>1, <1>2 DEF Mod
-----------------------------------------------------------------------------
(* Induction on the naturals, with a set for the property. *)

(* What holds of a number if it does of all smaller ones holds of all.     *)
LEMMA Induction ==
  ASSUME NEW S,
         \A n \in Nat : (\A m \in Nat : m < n => m \in S) => n \in S
  PROVE  Nat \subseteq S
<1> DEFINE R == OpToRel(<, Nat)
           T == Nat \ S
<1>1. SUFFICES ASSUME T # {} PROVE FALSE
  OBVIOUS
<1>2. \E k \in T : \A i \in T : ~ (<<i, k>> \in R)
  <2>1. IsWellFoundedOn(R, Nat)
    BY NatLessThanWellFounded
  <2>2. T \subseteq Nat
    OBVIOUS
  <2> HIDE DEF R, T
  <2> QED BY <1>1, <2>1, <2>2, WFMin
<1>3. PICK k \in T : \A i \in T : ~ (<<i, k>> \in R)
  BY <1>2
<1>4. \A m \in Nat : m < k => m \in S
  BY <1>3 DEF OpToRel
<1> QED BY <1>3, <1>4

(* Step by step up to a bound. *)
LEMMA InductionTo ==
  ASSUME NEW S, NEW n \in Nat, 0 \in S,
         \A k \in 1 .. n : k - 1 \in S => k \in S
  PROVE  \A k \in 0 .. n : k \in S
<1> DEFINE T == {k \in Nat : k <= n => k \in S}
<1>1. ASSUME NEW k \in Nat, \A m \in Nat : m < k => m \in T
      PROVE  k \in T
  <2>1. CASE k = 0
    BY <2>1
  <2>2. CASE k # 0
    <3>1. k - 1 \in T
      BY <1>1, <2>2
    <3> QED BY <2>2, <3>1
  <2> QED BY <2>1, <2>2
<1> HIDE DEF T
<1>2. Nat \subseteq T
  BY <1>1, Induction
<1> QED BY <1>2 DEF T

(* f is defined by recursion up to n, from a with the steps of g.          *)
Recursive(f, n, a, g) ==
  f = [k \in 0 .. n |-> IF k = 0 THEN a ELSE g[<<k, f[k - 1]>>]]

(* Such a function exists. *)
LEMMA Recursion ==
  ASSUME NEW n \in Nat, NEW V, NEW a \in V, NEW g \in [(1 .. n) \X V -> V]
  PROVE  \E f \in [0 .. n -> V] : Recursive(f, n, a, g)
<1> DEFINE Upto(m, f) == Recursive(f, m, a, g)
           S == {m \in 0 .. n : \E f \in [0 .. m -> V] : Upto(m, f)}
<1>1. 0 \in S
  <2> DEFINE h == [k \in 0 .. 0 |-> a]
  <2>1. h \in [0 .. 0 -> V] /\ Upto(0, h)
    BY DEF Recursive
  <2> HIDE DEF h, Upto
  <2> QED BY <2>1
<1>2. ASSUME NEW m \in 1 .. n, m - 1 \in S
      PROVE  m \in S
  <2>1. PICK f \in [0 .. m - 1 -> V] : Upto(m - 1, f)
    BY <1>2
  <2> DEFINE h == [k \in 0 .. m |-> IF k = m THEN g[<<m, f[m - 1]>>] ELSE f[k]]
  <2>2. h \in [0 .. m -> V]
    <3>1. g[<<m, f[m - 1]>>] \in V
      OBVIOUS
    <3>2. \A k \in 0 .. m : k # m => f[k] \in V
      OBVIOUS
    <3> QED BY <3>1, <3>2
  <2>3. ASSUME NEW k \in 0 .. m
        PROVE  h[k] = IF k = 0 THEN a ELSE g[<<k, h[k - 1]>>]
    <3>1. CASE k = m
      <4>1. k # 0 /\ m - 1 \in 0 .. m /\ m - 1 # m
        BY <3>1
      <4>2. h[m] = g[<<m, f[m - 1]>>] /\ h[m - 1] = f[m - 1]
        BY <4>1
      <4> HIDE DEF h
      <4> QED BY <3>1, <4>1, <4>2
    <3>2. CASE k # m
      <4>1. k \in 0 .. m - 1 /\ h[k] = f[k]
        BY <3>2
      <4>2. k # 0 => k - 1 \in 0 .. m /\ k - 1 # m /\ h[k - 1] = f[k - 1]
        BY <3>2
      <4> QED BY <2>1, <4>1, <4>2 DEF Recursive
    <3> QED BY <3>1, <3>2
  <2>4. Upto(m, h)
    BY <2>3 DEF Recursive
  <2> HIDE DEF h, Upto
  <2> QED BY <2>2, <2>4
<1> HIDE DEF S
<1>3. n \in S
  BY <1>1, <1>2, InductionTo
<1> QED BY <1>3 DEF S
-----------------------------------------------------------------------------
(* One's complement: numbers modulo Mod - 1, with two forms of zero.       *)

(* What the proofs need of division: products grow, a number is its        *)
(* quotient with its remainder, and there is but one of each.              *)
LEMMA Grows ==
  ASSUME NEW b \in Nat, NEW p \in Int, NEW q \in Int, p < q
  PROVE  p * b + b <= q * b
OBVIOUS

LEMMA DivMod ==
  ASSUME NEW b \in Nat \ {0}, NEW v \in Int
  PROVE  /\ v = (v \div b) * b + (v % b)
         /\ v % b \in 0 .. b - 1 /\ v \div b \in Int
OBVIOUS

LEMMA QuotientUnique ==
  ASSUME NEW b \in Nat \ {0}, NEW q \in Int, NEW r \in 0 .. b - 1
  PROVE  (q * b + r) \div b = q /\ (q * b + r) % b = r
<1> DEFINE v == q * b + r
           d == v \div b
           m == v % b
<1>1. v = d * b + m /\ m \in 0 .. b - 1 /\ d \in Int
  <2>1. v \in Int
    OBVIOUS
  <2> HIDE DEF v
  <2> QED BY <2>1, DivMod
<1> HIDE DEF d, m
<1>2. q * b \in Int /\ d * b \in Int
  BY <1>1
<1>3. ~ d < q
  <2> SUFFICES ASSUME d < q PROVE FALSE
    OBVIOUS
  <2>1. d * b + b <= q * b
    BY <1>1, Grows
  <2> QED BY <1>1, <1>2, <2>1
<1>4. ~ q < d
  <2> SUFFICES ASSUME q < d PROVE FALSE
    OBVIOUS
  <2>1. q * b + b <= d * b
    BY <1>1, Grows
  <2> QED BY <1>1, <1>2, <2>1
<1>5. d = q
  BY <1>1, <1>3, <1>4
<1>6. m = r
  BY <1>1, <1>2, <1>5
<1> QED BY <1>5, <1>6 DEF d, m

(* x is n in 16 bits, with the carries added back in: a zero of n is the   *)
(* zero of x, any other multiple of Mod - 1 is the other form.             *)
Residue(x, n) ==
  /\ x \in 0 .. Mod - 1
  /\ x = 0 <=> n = 0
  /\ \E q \in Nat : n = x + q * (Mod - 1)

LEMMA ResidueUnique ==
  ASSUME NEW n \in Nat, NEW x, NEW y, Residue(x, n), Residue(y, n)
  PROVE  x = y
<1>1. PICK p \in Nat : n = x + p * (Mod - 1)
  BY DEF Residue
<1>2. PICK q \in Nat : n = y + q * (Mod - 1)
  BY DEF Residue
<1>3. CASE n = 0
  BY <1>3 DEF Residue
<1>4. CASE n # 0
  <2>1. x \in 1 .. Mod - 1 /\ y \in 1 .. Mod - 1 /\ Mod - 1 \in Nat
    BY <1>4, Sizes DEF Residue
  <2>2. ASSUME NEW a \in Nat, NEW b \in Nat, a < b
        PROVE  a * (Mod - 1) + (Mod - 1) <= b * (Mod - 1)
    <3>1. a + 1 <= b
      BY <2>2
    <3>2. (a + 1) * (Mod - 1) <= b * (Mod - 1)
      BY <2>1, <3>1
    <3> QED BY <2>1, <3>2
  <2>3. p * (Mod - 1) \in Nat /\ q * (Mod - 1) \in Nat
    BY <2>1
  <2>4. ~ (p < q) /\ ~ (q < p)
    BY <1>1, <1>2, <2>1, <2>2, <2>3
  <2>5. p = q
    BY <2>4
  <2> QED BY <1>1, <1>2, <2>1, <2>3, <2>5
<1> QED BY <1>3, <1>4

(* Adding a multiple of Mod - 1 to a number that is not zero. *)
LEMMA ResidueAgain ==
  ASSUME NEW n \in Nat, NEW x, Residue(x, n), n > 0, NEW p \in Nat
  PROVE  Residue(x, n + p * (Mod - 1))
<1>1. PICK q \in Nat : n = x + q * (Mod - 1)
  BY DEF Residue
<1>2. Mod - 1 \in Nat /\ x \in 0 .. Mod - 1
  BY Sizes DEF Residue
<1>3. p * (Mod - 1) \in Nat /\ (q + p) * (Mod - 1) = q * (Mod - 1) + p * (Mod - 1)
  BY <1>2
<1>4. n + p * (Mod - 1) = x + (q + p) * (Mod - 1)
  BY <1>1, <1>2, <1>3
<1> QED BY <1>2, <1>3, <1>4 DEF Residue

(* A number of 16 bits is its own. *)
LEMMA ResidueOfWord ==
  ASSUME NEW n \in 0 .. Mod - 1
  PROVE  Residue(n, n)
<1>1. n = n + 0 * (Mod - 1)
  BY Sizes
<1> QED BY <1>1 DEF Residue

LEMMA ResidueExists == \A n \in Nat : \E x : Residue(x, n)
<1> DEFINE S == {n \in Nat : \E x : Residue(x, n)}
<1>1. ASSUME NEW n \in Nat, \A m \in Nat : m < n => m \in S
      PROVE  n \in S
  <2>1. CASE n < Mod
    BY <2>1, Sizes, ResidueOfWord
  <2>2. CASE n >= Mod
    <3> DEFINE m == n - (Mod - 1)
    <3>1. m \in Nat /\ 0 < m /\ m < n /\ n = m + 1 * (Mod - 1)
      BY <2>2, Sizes
    <3> HIDE DEF m
    <3>2. PICK x : Residue(x, m)
      BY <1>1, <3>1
    <3>3. Residue(x, m + 1 * (Mod - 1))
      BY <3>1, <3>2, ResidueAgain
    <3> QED BY <3>1, <3>3
  <2> QED BY <2>1, <2>2, Sizes
<1> HIDE DEF S
<1>2. Nat \subseteq S
  BY <1>1, Induction
<1> QED BY <1>2 DEF S

(* Whoever adds a word and then the carry keeps to it. *)
LEMMA ResidueOfSum ==
  ASSUME NEW n \in Nat, NEW x, Residue(x, n), NEW h \in 0 .. Mod - 1
  PROVE  LET t == x + h IN Residue((t + t \div Mod) % Mod, n + h)
<1> DEFINE t == x + h
<1>1. x \in 0 .. Mod - 1 /\ Mod \in Nat /\ Mod > 3
  BY Sizes DEF Residue
<1>2. PICK q \in Nat : n = x + q * (Mod - 1)
  BY DEF Residue
<1>3. CASE t < Mod
  <2>1. t = 0 * Mod + t /\ t \in 0 .. Mod - 1
    BY <1>1, <1>3
  <2>2. t \div Mod = 0 /\ t % Mod = t
    <3> HIDE DEF t
    <3>1. (0 * Mod + t) \div Mod = 0 /\ (0 * Mod + t) % Mod = t
      BY <1>1, <2>1, QuotientUnique
    <3> QED BY <2>1, <3>1
  <2>3. (t + t \div Mod) % Mod = t
    BY <2>1, <2>2
  <2>4. n + h = t + q * (Mod - 1)
    BY <1>1, <1>2
  <2>5. t = 0 <=> n + h = 0
    BY <1>1 DEF Residue
  <2> QED BY <2>1, <2>3, <2>4, <2>5 DEF Residue
<1>4. CASE t >= Mod
  <2>1. t = 1 * Mod + (t - Mod) /\ t - Mod \in 0 .. Mod - 2
    BY <1>1, <1>4
  <2>2. t \div Mod = 1
    BY <1>1, <2>1, QuotientUnique
  <2>3. t + 1 = 1 * Mod + (t - Mod + 1) /\ t - Mod + 1 \in 1 .. Mod - 1
    BY <1>1, <2>1
  <2>4. (t + 1) % Mod = t - Mod + 1
    <3> HIDE DEF t
    <3>1. (1 * Mod + (t - Mod + 1)) % Mod = t - Mod + 1
      BY <1>1, <2>3, QuotientUnique
    <3> QED BY <2>3, <3>1
  <2>5. (q + 1) * (Mod - 1) = q * (Mod - 1) + (Mod - 1)
    BY <1>1
  <2>6. n + h = (t - Mod + 1) + (q + 1) * (Mod - 1)
    BY <1>1, <1>2, <2>5
  <2>7. n + h # 0
    BY <1>1, <1>4, <1>2
  <2> QED BY <2>2, <2>3, <2>4, <2>6, <2>7 DEF Residue
<1> QED BY <1>1, <1>3, <1>4
-----------------------------------------------------------------------------
(* The loop at the end of checksum folds a sum of any size to its residue. *)
LEMMA FoldIsResidue ==
  ASSUME NEW n \in Nat
  PROVE  Residue(Fold16(n), n)
<1> DEFINE less(m) == (m % Mod) + m \div Mod
           f == CHOOSE h : h = [m \in Nat |-> IF m < Mod THEN m ELSE h[less(m)]]
           g == [m \in Nat |-> CHOOSE x : Residue(x, m)]
<1>1. Mod \in Nat /\ Mod > 3
  BY Sizes
<1>2. ASSUME NEW m \in Nat, m >= Mod
      PROVE  /\ less(m) \in Nat /\ 0 < less(m) /\ less(m) < m
             /\ \E p \in Nat : m = less(m) + p * (Mod - 1)
  <2> DEFINE q == m \div Mod
             r == m % Mod
  <2>1. m = q * Mod + r /\ r \in 0 .. Mod - 1 /\ q \in Int
    BY <1>1, DivMod
  <2>2. less(m) = r + q
    OBVIOUS
  <2> HIDE DEF q, r, less
  <2>3. q > 0
    <3>1. SUFFICES ASSUME q < 1 PROVE FALSE
      BY <2>1
    <3>2. q * Mod + Mod <= 1 * Mod
      BY <1>1, <2>1, <3>1, Grows
    <3> QED BY <1>1, <1>2, <2>1, <3>2
  <2>4. q * Mod = q * (Mod - 1) + q
    BY <1>1, <2>1
  <2>5. q * (Mod - 1) >= q
    BY <1>1, <2>1, <2>3
  <2>6. q * (Mod - 1) \in Nat /\ q * Mod \in Nat
    BY <1>1, <2>1, <2>3
  <2>7. m = less(m) + q * (Mod - 1)
    BY <1>1, <2>1, <2>2, <2>4, <2>6
  <2>8. less(m) \in Nat /\ 0 < less(m) /\ less(m) < m
    BY <2>1, <2>2, <2>3, <2>5, <2>6, <2>7
  <2> QED BY <2>1, <2>3, <2>7, <2>8
<1>3. Fold16(n) = f[n]
  BY DEF Fold16
<1> HIDE DEF less
<1>4. ASSUME NEW m \in Nat
      PROVE  Residue(g[m], m)
  BY ResidueExists
<1>5. ASSUME NEW m \in Nat, m >= Mod
      PROVE  Residue(g[less(m)], m)
  <2>1. Residue(g[less(m)], less(m))
    BY <1>2, <1>4, <1>5
  <2> HIDE DEF g
  <2> QED BY <1>2, <1>5, <2>1, ResidueAgain
<1>6. ASSUME NEW m \in Nat
      PROVE  g[m] = IF m < Mod THEN m ELSE g[less(m)]
  <2>1. CASE m < Mod
    <3>1. Residue(m, m)
      BY <1>1, <2>1, ResidueOfWord
    <3> HIDE DEF g
    <3> QED BY <1>4, <2>1, <3>1, ResidueUnique
  <2>2. CASE m >= Mod
    <3>1. Residue(g[m], m) /\ Residue(g[less(m)], m)
      BY <1>4, <1>5, <2>2
    <3> HIDE DEF g
    <3>2. g[m] = g[less(m)]
      BY <3>1, ResidueUnique
    <3> QED BY <1>1, <2>2, <3>2
  <2> QED BY <1>1, <2>1, <2>2
<1>7. g = [m \in Nat |-> IF m < Mod THEN m ELSE g[less(m)]]
  BY <1>6
<1>8. f = [m \in Nat |-> IF m < Mod THEN m ELSE f[less(m)]]
  <2> HIDE DEF g
  <2> QED BY <1>7, Zenon
<1> HIDE DEF f
<1> DEFINE S == {m \in Nat : Residue(f[m], m)}
<1>9. ASSUME NEW m \in Nat, \A k \in Nat : k < m => k \in S
      PROVE  m \in S
  <2>1. f[m] = IF m < Mod THEN m ELSE f[less(m)]
    BY <1>8
  <2>2. CASE m < Mod
    BY <1>1, <2>1, <2>2, ResidueOfWord
  <2>3. CASE m >= Mod
    <3>1. Residue(f[less(m)], less(m))
      BY <1>2, <1>9, <2>3
    <3>2. Residue(f[less(m)], m)
      BY <1>2, <2>3, <3>1, ResidueAgain
    <3> QED BY <1>1, <2>1, <2>3, <3>2
  <2> QED BY <1>1, <2>2, <2>3
<1> HIDE DEF S
<1>10. Nat \subseteq S
  BY <1>9, Induction
<1> QED BY <1>3, <1>10 DEF S
-----------------------------------------------------------------------------
(* The sums over a block. *)

LEMMA BytePlaces ==
  ASSUME NEW x \in Bytes, NEW y \in Bytes
  PROVE  /\ x * Base \in 0 .. Mod - Base
         /\ x * Base + y \in 0 .. Mod - 1
<1>1. x \in Nat /\ y \in Nat /\ x <= Base - 1 /\ y <= Base - 1
      /\ Base \in Nat /\ Base > 1
  BY Sizes DEF Bytes
<1>2. x * Base <= (Base - 1) * Base /\ x * Base \in Nat
  BY <1>1
<1>3. (Base - 1) * Base = Mod - Base
  BY <1>1 DEF Mod
<1> QED BY <1>1, <1>2, <1>3, Sizes

(* The places of a block that its words take. *)
LEMMA WordPlaces ==
  ASSUME NEW b \in Seq(Bytes)
  PROVE  /\ Words(b) \in Nat
         /\ \A k \in 1 .. Words(b) :
              /\ 2 * k - 1 \in 1 .. Len(b)
              /\ b[2 * k - 1] \in Bytes
              /\ 2 * k <= Len(b) => b[2 * k] \in Bytes
              /\ Word(b, k) \in 0 .. Mod - 1
<1>1. Len(b) \in Nat /\ Words(b) \in Nat /\ 2 * Words(b) <= Len(b) + 1
  BY DEF Words
<1>2. ASSUME NEW k \in 1 .. Words(b)
      PROVE  2 * k - 1 \in 1 .. Len(b)
  BY <1>1, <1>2
<1>3. ASSUME NEW k \in 1 .. Words(b)
      PROVE  /\ b[2 * k - 1] \in Bytes
             /\ 2 * k <= Len(b) => b[2 * k] \in Bytes
  <2>1. 2 * k <= Len(b) => 2 * k \in 1 .. Len(b)
    BY <1>1
  <2> QED BY <1>2, <2>1
<1>4. ASSUME NEW k \in 1 .. Words(b)
      PROVE  Word(b, k) \in 0 .. Mod - 1
  <2> DEFINE y == IF 2 * k <= Len(b) THEN b[2 * k] ELSE 0
  <2>1. 0 \in Bytes
    BY Sizes DEF Bytes
  <2>2. y \in Bytes
    BY <1>3, <2>1
  <2> HIDE DEF y
  <2>3. b[2 * k - 1] * Base + y \in 0 .. Mod - 1
    BY <1>3, <2>2, BytePlaces
  <2> QED BY <2>3 DEF y, Word
<1> QED BY <1>1, <1>2, <1>3, <1>4

(* The sum of the words comes about word by word. *)
LEMMA WordSumSteps ==
  ASSUME NEW b \in Seq(Bytes)
  PROVE  \E w \in [0 .. Words(b) -> Nat] :
           /\ w[0] = 0
           /\ \A k \in 1 .. Words(b) : w[k] = w[k - 1] + Word(b, k)
           /\ WordSum(b) = w[Words(b)]
<1> DEFINE n == Words(b)
           g == [p \in (1 .. n) \X Nat |-> p[2] + Word(b, p[1])]
           w == CHOOSE h : h = [k \in 0 .. n |->
                                  IF k = 0 THEN 0 ELSE h[k - 1] + Word(b, k)]
<1>1. WordSum(b) = w[n]
  BY DEF WordSum
<1>2. n \in Nat /\ \A k \in 1 .. n : Word(b, k) \in 0 .. Mod - 1
  BY WordPlaces
<1> HIDE DEF n, w
<1>3. g \in [(1 .. n) \X Nat -> Nat]
  BY <1>2, Sizes
<1>4. PICK h \in [0 .. n -> Nat] : Recursive(h, n, 0, g)
  <2> HIDE DEF g
  <2>1. 0 \in Nat
    OBVIOUS
  <2> QED BY <1>2, <1>3, <2>1, Recursion
<1>5. h = [k \in 0 .. n |-> IF k = 0 THEN 0 ELSE h[k - 1] + Word(b, k)]
  <2>1. ASSUME NEW k \in 0 .. n
        PROVE  h[k] = IF k = 0 THEN 0 ELSE h[k - 1] + Word(b, k)
    <3>1. CASE k = 0
      BY <1>4, <3>1 DEF Recursive
    <3>2. CASE k # 0
      <4>1. k \in 1 .. n /\ k - 1 \in 0 .. n
        BY <1>2, <3>2
      <4>2. h[k - 1] \in Nat
        BY <4>1
      <4>3. h[k] = g[<<k, h[k - 1]>>]
        BY <1>4, <3>2 DEF Recursive
      <4> QED BY <3>2, <4>1, <4>2, <4>3
    <3> QED BY <3>1, <3>2
  <2> QED BY <1>4, <2>1 DEF Recursive
<1>6. w = [k \in 0 .. n |-> IF k = 0 THEN 0 ELSE w[k - 1] + Word(b, k)]
  BY <1>5, Zenon DEF w
<1> DEFINE S == {k \in 0 .. n : w[k] \in Nat}
<1>7. \A k \in 1 .. n : k \in 0 .. n /\ k - 1 \in 0 .. n /\ k # 0
  BY <1>2
<1>8. w[0] = 0 /\ \A k \in 1 .. n : w[k] = w[k - 1] + Word(b, k)
  <2>1. 0 \in 0 .. n
    BY <1>2
  <2> QED BY <1>6, <1>7, <2>1
<1>9. \A k \in 0 .. n : k \in S
  <2>1. 0 \in S
    BY <1>2, <1>8
  <2>2. \A k \in 1 .. n : k - 1 \in S => k \in S
    BY <1>2, <1>7, <1>8, Sizes
  <2> HIDE DEF S
  <2> QED BY <1>2, <2>1, <2>2, InductionTo
<1>10. w \in [0 .. n -> Nat]
  BY <1>6, <1>9
<1> QED BY <1>1, <1>8, <1>10 DEF n

(* What compute_sum adds for the byte at a place. *)
Part(b, i) == IF i % 2 = 0 THEN b[i] ELSE b[i] * Base

LEMMA PartIsWord ==
  ASSUME NEW b \in Seq(Bytes), NEW i \in 1 .. Len(b)
  PROVE  Part(b, i) \in 0 .. Mod - 1
<1>1. b[i] \in Bytes /\ 0 \in Bytes
  BY Sizes DEF Bytes
<1>2. b[i] * Base \in 0 .. Mod - Base
  BY <1>1, BytePlaces
<1> QED BY <1>1, <1>2, Sizes DEF Part, Bytes

(* compute_sum comes about byte by byte. *)
LEMMA ComputeSumSteps ==
  ASSUME NEW b \in Seq(Bytes), NEW sum \in 0 .. Mod - 1
  PROVE  \E s \in [0 .. Len(b) -> 0 .. Mod - 1] :
           /\ s[0] = sum
           /\ \A i \in 1 .. Len(b) :
                s[i] = LET t == s[i - 1] + Part(b, i)
                       IN  (t + t \div Mod) % Mod
           /\ ComputeSum(sum, b) = s[Len(b)]
<1> DEFINE n == Len(b)
           V == 0 .. Mod - 1
           next(x, i) == LET t == x + (IF i % 2 = 0 THEN b[i] ELSE b[i] * Base)
                         IN  (t + t \div Mod) % Mod
           g == [p \in (1 .. n) \X V |-> next(p[2], p[1])]
           s == CHOOSE h : h = [i \in 0 .. n |->
                                  IF i = 0 THEN sum ELSE next(h[i - 1], i)]
<1>1. ComputeSum(sum, b) = s[n]
  BY DEF ComputeSum
<1>2. n \in Nat
  OBVIOUS
<1>3. ASSUME NEW x \in V, NEW i \in 1 .. n
      PROVE  next(x, i) \in V
  <2> DEFINE t == x + Part(b, i)
  <2>1. t \in Nat
    BY PartIsWord, Sizes
  <2>2. next(x, i) = (t + t \div Mod) % Mod
    BY DEF Part
  <2> HIDE DEF t, next
  <2>3. t + (t \div Mod) \in Int /\ Mod \in Nat \ {0}
    BY <2>1, Sizes, DivMod
  <2>4. (t + (t \div Mod)) % Mod \in V
    BY <2>3, DivMod
  <2> QED BY <2>2, <2>4
<1>4. ASSUME NEW x, NEW i
      PROVE  next(x, i) = LET t == x + Part(b, i) IN (t + t \div Mod) % Mod
  BY DEF Part
<1> HIDE DEF n, s, next
<1>5. g \in [(1 .. n) \X V -> V]
  BY <1>3
<1>6. PICK h \in [0 .. n -> V] : Recursive(h, n, sum, g)
  <2> HIDE DEF g, V
  <2>1. sum \in V
    BY DEF V
  <2> QED BY <1>2, <1>5, <2>1, Recursion
<1>7. h = [i \in 0 .. n |-> IF i = 0 THEN sum ELSE next(h[i - 1], i)]
  <2>1. ASSUME NEW i \in 0 .. n
        PROVE  h[i] = IF i = 0 THEN sum ELSE next(h[i - 1], i)
    <3> HIDE DEF V
    <3>1. CASE i = 0
      BY <1>6, <3>1 DEF Recursive
    <3>2. CASE i # 0
      <4>1. i \in 1 .. n /\ i - 1 \in 0 .. n
        BY <1>2, <3>2
      <4>2. h[i - 1] \in V
        BY <4>1
      <4>3. h[i] = g[<<i, h[i - 1]>>]
        BY <1>6, <3>2 DEF Recursive
      <4> QED BY <3>2, <4>1, <4>2, <4>3
    <3> QED BY <3>1, <3>2
  <2> HIDE DEF V
  <2> QED BY <1>6, <2>1 DEF Recursive
<1>8. s = [i \in 0 .. n |-> IF i = 0 THEN sum ELSE next(s[i - 1], i)]
  BY <1>7, Zenon DEF s
<1> DEFINE S == {i \in 0 .. n : s[i] \in V}
<1>9. \A i \in 1 .. n : i \in 0 .. n /\ i - 1 \in 0 .. n /\ i # 0
  BY <1>2
<1>10. s[0] = sum /\ \A i \in 1 .. n : s[i] = next(s[i - 1], i)
  <2>1. 0 \in 0 .. n
    BY <1>2
  <2> QED BY <1>8, <1>9, <2>1
<1>11. \A i \in 0 .. n : i \in S
  <2>1. 0 \in S
    BY <1>2, <1>10
  <2>2. \A i \in 1 .. n : i - 1 \in S => i \in S
    BY <1>2, <1>3, <1>9, <1>10
  <2> HIDE DEF S
  <2> QED BY <1>2, <2>1, <2>2, InductionTo
<1>12. s \in [0 .. n -> V]
  BY <1>8, <1>11
<1> QED BY <1>1, <1>4, <1>10, <1>12 DEF n

(* compute_sum goes on from the residue of one sum to that of a longer.    *)
LEMMA ComputeSumIsResidue ==
  ASSUME NEW b \in Seq(Bytes), NEW n \in Nat, NEW sum, Residue(sum, n)
  PROVE  Residue(ComputeSum(sum, b), n + WordSum(b))
<1>1. PICK w \in [0 .. Words(b) -> Nat] :
        /\ w[0] = 0
        /\ \A k \in 1 .. Words(b) : w[k] = w[k - 1] + Word(b, k)
        /\ WordSum(b) = w[Words(b)]
  BY WordSumSteps
<1>2. PICK s \in [0 .. Len(b) -> 0 .. Mod - 1] :
        /\ s[0] = sum
        /\ \A i \in 1 .. Len(b) :
             s[i] = LET t == s[i - 1] + Part(b, i)
                    IN  (t + t \div Mod) % Mod
        /\ ComputeSum(sum, b) = s[Len(b)]
  BY ComputeSumSteps DEF Residue
<1>3. ASSUME NEW i \in 1 .. Len(b), NEW m \in Nat, Residue(s[i - 1], m)
      PROVE  Residue(s[i], m + Part(b, i))
  <2>1. Part(b, i) \in 0 .. Mod - 1
    BY PartIsWord
  <2> QED BY <1>2, <1>3, <2>1, ResidueOfSum
<1> DEFINE h == Len(b) \div 2
           S == {k \in 0 .. h : Residue(s[2 * k], n + w[k])}
<1>4. /\ Len(b) \in Nat /\ h \in Nat /\ Words(b) \in Nat
      /\ \/ Len(b) = 2 * h /\ Words(b) = h
         \/ Len(b) = 2 * h + 1 /\ Words(b) = h + 1
  BY DEF Words
<1> HIDE DEF h
<1>5. ASSUME NEW k \in 1 .. Words(b), Residue(s[2 * k - 2], n + w[k - 1])
      PROVE  /\ 2 * k <= Len(b) => Residue(s[2 * k], n + w[k])
             /\ 2 * k > Len(b) => Residue(s[2 * k - 1], n + w[k])
  <2> DEFINE i == 2 * k - 1
  <2>1. /\ k \in 0 .. Words(b) /\ k - 1 \in 0 .. Words(b)
        /\ i \in 1 .. Len(b) /\ i - 1 = 2 * k - 2 /\ i % 2 = 1
    BY <1>4, WordPlaces
  <2>2. n + w[k - 1] \in Nat /\ w[k] = w[k - 1] + Word(b, k) /\ w[k - 1] \in Nat
    BY <1>1, <2>1
  <2>3. Part(b, i) = b[i] * Base /\ Part(b, i) \in 0 .. Mod - 1
    <3> HIDE DEF i
    <3> QED BY <2>1, PartIsWord DEF Part
  <2>4. Residue(s[i], n + w[k - 1] + Part(b, i))
    <3>1. Residue(s[i - 1], n + w[k - 1])
      BY <1>5, <2>1
    <3> HIDE DEF i
    <3> QED BY <1>3, <2>1, <2>2, <3>1
  <2>5. CASE 2 * k <= Len(b)
    <3>1. i + 1 \in 1 .. Len(b) /\ (i + 1) % 2 = 0 /\ i + 1 = 2 * k
      BY <2>1, <2>5
    <3>2. Part(b, i + 1) = b[i + 1] /\ Part(b, i + 1) \in 0 .. Mod - 1
      BY <3>1, PartIsWord DEF Part
    <3>3. n + w[k - 1] + Part(b, i) \in Nat
      BY <2>2, <2>3, Sizes
    <3>4. Residue(s[i + 1], n + w[k - 1] + Part(b, i) + Part(b, i + 1))
      <4> DEFINE j == i + 1
                 m == n + w[k - 1] + Part(b, i)
      <4>1. j - 1 = i /\ j \in 1 .. Len(b) /\ m \in Nat
        BY <2>1, <3>1, <3>3
      <4>2. Residue(s[j - 1], m)
        BY <2>4, <4>1
      <4> HIDE DEF j, m
      <4>3. Residue(s[j], m + Part(b, j))
        BY <1>3, <4>1, <4>2
      <4> QED BY <4>3 DEF j, m
    <3>5. Word(b, k) = Part(b, i) + Part(b, i + 1)
      BY <2>3, <2>5, <3>1, <3>2 DEF Word
    <3>6. n + w[k] = n + w[k - 1] + Part(b, i) + Part(b, i + 1)
      BY <2>2, <2>3, <3>2, <3>5, Sizes
    <3>7. i + 1 = 2 * k /\ ~(2 * k > Len(b))
      BY <1>4, <2>1, <2>5
    <3>8. Residue(s[2 * k], n + w[k])
      BY <3>4, <3>6, <3>7
    <3> HIDE DEF i
    <3> QED BY <3>7, <3>8, Zenon
  <2>6. CASE 2 * k > Len(b)
    <3>1. Word(b, k) = Part(b, i)
      BY <1>4, <2>3, <2>6, Sizes DEF Word
    <3>2. n + w[k] = n + w[k - 1] + Part(b, i)
      BY <2>2, <2>3, <3>1, Sizes
    <3> QED BY <2>4, <2>6, <3>2, <1>4
  <2> QED BY <1>4, <2>5, <2>6
<1>6. \A k \in 0 .. h : k \in S
  <2>1. 0 \in S
    <3>1. n + w[0] = n /\ 2 * 0 = 0
      BY <1>1
    <3> QED BY <1>2, <1>4, <3>1
  <2>2. ASSUME NEW k \in 1 .. h, k - 1 \in S
        PROVE  k \in S
    <3>1. k \in 1 .. Words(b) /\ 2 * (k - 1) = 2 * k - 2 /\ 2 * k <= Len(b)
      BY <1>4
    <3>2. Residue(s[2 * k], n + w[k])
      BY <1>5, <2>2, <3>1
    <3> QED BY <3>2
  <2> HIDE DEF S
  <2> QED BY <1>4, <2>1, <2>2, InductionTo
<1>7. Residue(s[2 * h], n + w[h])
  BY <1>4, <1>6
<1>8. CASE Len(b) = 2 * h /\ Words(b) = h
  BY <1>1, <1>2, <1>7, <1>8
<1>9. CASE Len(b) = 2 * h + 1 /\ Words(b) = h + 1
  <2> DEFINE k == h + 1
  <2>1. /\ k \in 1 .. Words(b) /\ 2 * k - 2 = 2 * h /\ k - 1 = h
        /\ 2 * k > Len(b) /\ 2 * k - 1 = Len(b) /\ k = Words(b)
    BY <1>4, <1>9
  <2> HIDE DEF k
  <2>2. Residue(s[2 * k - 1], n + w[k])
    BY <1>5, <1>7, <2>1
  <2> QED BY <1>1, <1>2, <2>1, <2>2
<1> QED BY <1>4, <1>8, <1>9

(* A change of one word. *)
LEMMA SumOfChanged ==
  ASSUME NEW b \in Seq(Bytes), NEW c \in Seq(Bytes), Len(c) = Len(b),
         NEW m \in 1 .. Words(b),
         \A i \in 1 .. Len(b) : i \notin {2 * m - 1, 2 * m} => c[i] = b[i]
  PROVE  WordSum(c) = (WordSum(b) - Word(b, m)) + Word(c, m)
<1>1. PICK w \in [0 .. Words(b) -> Nat] :
        /\ w[0] = 0
        /\ \A k \in 1 .. Words(b) : w[k] = w[k - 1] + Word(b, k)
        /\ WordSum(b) = w[Words(b)]
  BY WordSumSteps
<1>2. Words(c) = Words(b) /\ Words(b) \in Nat
  BY WordPlaces DEF Words
<1>3. PICK v \in [0 .. Words(b) -> Nat] :
        /\ v[0] = 0
        /\ \A k \in 1 .. Words(b) : v[k] = v[k - 1] + Word(c, k)
        /\ WordSum(c) = v[Words(b)]
  BY <1>2, WordSumSteps
<1>4. \A k \in 1 .. Words(b) : Word(b, k) \in Int /\ Word(c, k) \in Int
  BY <1>2, WordPlaces, Sizes
<1>5. ASSUME NEW k \in 1 .. Words(b), k # m
      PROVE  Word(c, k) = Word(b, k)
  <2>1. /\ 2 * k - 1 \in 1 .. Len(b) /\ 2 * k - 1 \notin {2 * m - 1, 2 * m}
        /\ 2 * k <= Len(b) =>
             2 * k \in 1 .. Len(b) /\ 2 * k \notin {2 * m - 1, 2 * m}
    BY <1>2, <1>5, WordPlaces
  <2> QED BY <2>1 DEF Word
<1> DEFINE d == Word(c, m) - Word(b, m)
           S == {k \in 0 .. Words(b) : v[k] = w[k] + (IF k < m THEN 0 ELSE d)}
<1>6. \A k \in 0 .. Words(b) : k \in S
  <2>1. 0 \in S
    BY <1>1, <1>2, <1>3
  <2>2. ASSUME NEW k \in 1 .. Words(b), k - 1 \in S
        PROVE  k \in S
    <3>1. k \in 0 .. Words(b) /\ k - 1 \in 0 .. Words(b)
      BY <1>2
    <3>2. /\ v[k] = v[k - 1] + Word(c, k) /\ w[k] = w[k - 1] + Word(b, k)
          /\ v[k - 1] \in Nat /\ w[k - 1] \in Nat
      BY <1>1, <1>3, <3>1
    <3>3. v[k - 1] = w[k - 1] + (IF k - 1 < m THEN 0 ELSE d)
      BY <2>2
    <3>4. d \in Int
      BY <1>4
    <3>5. CASE k = m
      BY <1>4, <3>1, <3>2, <3>3, <3>5
    <3>6. CASE k < m
      BY <1>4, <1>5, <3>1, <3>2, <3>3, <3>6
    <3>7. CASE k > m
      <4> HIDE DEF d
      <4> QED BY <1>4, <1>5, <3>1, <3>2, <3>3, <3>4, <3>7
    <3> QED BY <3>5, <3>6, <3>7
  <2> HIDE DEF S
  <2> QED BY <1>2, <2>1, <2>2, InductionTo
<1>7. v[Words(b)] = w[Words(b)] + d
  BY <1>2, <1>6
<1>8. w[Words(b)] \in Nat
  BY <1>2
<1> QED BY <1>1, <1>3, <1>4, <1>7, <1>8

(* The first word apart from the others. *)
LEMMA SumFromThird ==
  ASSUME NEW b \in Seq(Bytes), Len(b) >= 2
  PROVE  /\ SubSeq(b, 3, Len(b)) \in Seq(Bytes)
         /\ WordSum(b) = Word(b, 1) + WordSum(SubSeq(b, 3, Len(b)))
<1> DEFINE c == SubSeq(b, 3, Len(b))
<1>1. /\ c \in Seq(Bytes) /\ Len(b) \in Nat /\ Len(c) = Len(b) - 2
      /\ \A i \in 1 .. Len(c) : c[i] = b[i + 2]
  <2>1. Len(b) \in Nat /\ \A i \in 3 .. Len(b) : b[i] \in Bytes
    OBVIOUS
  <2>2. /\ c \in Seq(Bytes)
        /\ Len(c) = IF 3 <= Len(b) THEN Len(b) - 3 + 1 ELSE 0
        /\ \A i \in 1 .. Len(b) - 3 + 1 : c[i] = b[3 + i - 1]
    BY <2>1, SubSeqProperties
  <2> HIDE DEF c
  <2>3. Len(c) = Len(b) - 2
    <3>1. CASE 3 <= Len(b)
      BY <2>1, <2>2, <3>1
    <3>2. CASE Len(b) = 2
      BY <2>2, <3>2
    <3>3. PICK n \in Nat : n = Len(b)
      BY <2>1
    <3>4. n >= 2
      BY <3>3
    <3>5. 3 <= n \/ n = 2
      BY <3>4
    <3> QED BY <3>1, <3>2, <3>3, <3>5
  <2>4. \A i \in 1 .. Len(c) : i \in 1 .. Len(b) - 3 + 1 /\ 3 + i - 1 = i + 2
    BY <2>1, <2>3
  <2>5. ASSUME NEW i \in 1 .. Len(c)
        PROVE  c[i] = b[i + 2]
    BY <2>2, <2>4
  <2> QED BY <2>1, <2>2, <2>3, <2>5
<1> HIDE DEF c
<1>2. Words(c) \in Nat /\ Words(b) = Words(c) + 1
  BY <1>1 DEF Words
<1>3. PICK w \in [0 .. Words(b) -> Nat] :
        /\ w[0] = 0
        /\ \A k \in 1 .. Words(b) : w[k] = w[k - 1] + Word(b, k)
        /\ WordSum(b) = w[Words(b)]
  BY WordSumSteps
<1>4. PICK v \in [0 .. Words(c) -> Nat] :
        /\ v[0] = 0
        /\ \A k \in 1 .. Words(c) : v[k] = v[k - 1] + Word(c, k)
        /\ WordSum(c) = v[Words(c)]
  BY <1>1, WordSumSteps
<1>5. ASSUME NEW k \in 1 .. Words(c)
      PROVE  Word(c, k) = Word(b, k + 1) /\ Word(c, k) \in Nat
  <2>1. 2 * k - 1 \in 1 .. Len(c) /\ 2 * k - 1 + 2 = 2 * (k + 1) - 1
    BY <1>1, <1>2, WordPlaces
  <2>2. 2 * k <= Len(c) => 2 * k \in 1 .. Len(c) /\ 2 * k + 2 = 2 * (k + 1)
    BY <1>1, <1>2
  <2>3. 2 * k <= Len(c) <=> 2 * (k + 1) <= Len(b)
    BY <1>1
  <2>4. c[2 * k - 1] = b[2 * (k + 1) - 1]
    BY <1>1, <2>1
  <2>5. 2 * k <= Len(c) => c[2 * k] = b[2 * (k + 1)]
    BY <1>1, <2>2
  <2>6. Word(c, k) \in Nat
    BY <1>1, WordPlaces, Sizes
  <2> QED BY <2>3, <2>4, <2>5, <2>6 DEF Word
<1>6. Word(b, 1) \in Nat /\ w[1] = Word(b, 1)
  <2>1. 1 \in 1 .. Words(b) /\ 1 - 1 = 0
    BY <1>2
  <2> QED BY <1>3, <2>1, WordPlaces, Sizes
<1> DEFINE S == {k \in 0 .. Words(c) : w[k + 1] = Word(b, 1) + v[k]}
<1>7. \A k \in 0 .. Words(c) : k \in S
  <2>1. 0 \in S
    BY <1>2, <1>4, <1>6
  <2>2. ASSUME NEW k \in 1 .. Words(c), k - 1 \in S
        PROVE  k \in S
    <3>1. /\ k \in 0 .. Words(c) /\ k - 1 \in 0 .. Words(c)
          /\ k + 1 \in 1 .. Words(b) /\ k + 1 - 1 = k /\ k - 1 + 1 = k
      BY <1>2
    <3>2. /\ v[k] = v[k - 1] + Word(c, k) /\ v[k - 1] \in Nat
          /\ w[k + 1] = w[k] + Word(b, k + 1)
      BY <1>3, <1>4, <3>1
    <3>3. w[k] = Word(b, 1) + v[k - 1]
      BY <2>2, <3>1
    <3> QED BY <1>5, <1>6, <3>1, <3>2, <3>3
  <2> HIDE DEF S
  <2> QED BY <1>2, <2>1, <2>2, InductionTo
<1>8. w[Words(b)] = Word(b, 1) + v[Words(c)]
  BY <1>2, <1>7
<1> QED BY <1>1, <1>3, <1>4, <1>8 DEF c

(* The two bytes of a word. *)
LEMMA WordBytes ==
  ASSUME NEW n \in 0 .. Mod - 1
  PROVE  /\ n = (n \div Base) * Base + (n % Base)
         /\ n \div Base \in Bytes /\ n % Base \in Bytes
<1>1. /\ n = (n \div Base) * Base + (n % Base) /\ n % Base \in 0 .. Base - 1
      /\ n \div Base \in Int
  BY Sizes, DivMod
<1>2. ~ (n \div Base < 0)
  <2>1. SUFFICES ASSUME n \div Base < 0 PROVE FALSE
    OBVIOUS
  <2>2. (n \div Base) * Base + Base <= 0 * Base
    BY <1>1, <2>1, Sizes, Grows
  <2>3. (n \div Base) * Base \in Int
    BY <1>1, Sizes
  <2> QED BY <1>1, <2>2, <2>3, Sizes
<1>3. ~ (Base - 1 < n \div Base)
  <2>1. SUFFICES ASSUME Base - 1 < n \div Base PROVE FALSE
    OBVIOUS
  <2>2. (Base - 1) * Base + Base <= (n \div Base) * Base
    BY <1>1, <2>1, Sizes, Grows
  <2>3. (Base - 1) * Base + Base = Mod /\ (n \div Base) * Base \in Int
    BY <1>1, Sizes DEF Mod
  <2> QED BY <1>1, <2>2, <2>3, Sizes
<1> QED BY <1>1, <1>2, <1>3, Sizes DEF Bytes

(* The pseudo header of send_udp_packet has three words. *)
LEMMA PseudoHeaderSum ==
  ASSUME NEW x \in Bytes, NEW y \in Bytes, NEW n \in 0 .. Mod - 1
  PROVE  LET p == <<x, y, 0, UdpProto, n \div Base, n % Base>>
         IN  /\ p \in Seq(Bytes)
             /\ WordSum(p) = (x * Base + y) + UdpProto + n
<1> DEFINE p == <<x, y, 0, UdpProto, n \div Base, n % Base>>
<1>1. /\ n = (n \div Base) * Base + (n % Base) /\ n % Base \in Bytes
      /\ n \div Base \in Bytes
  BY WordBytes
<1>2. UdpProto \in Bytes /\ 0 \in Bytes
  BY ChecksumsAssumption, Sizes DEF Bytes
<1>3. p \in Seq(Bytes) /\ Len(p) = 6
  BY <1>1, <1>2
<1>4. Words(p) = 3
  BY <1>3 DEF Words
<1>5. /\ Word(p, 1) = x * Base + y
      /\ Word(p, 2) = 0 * Base + UdpProto
      /\ Word(p, 3) = (n \div Base) * Base + (n % Base)
  BY <1>3 DEF Word
<1>6. PICK w \in [0 .. 3 -> Nat] :
        /\ w[0] = 0
        /\ \A k \in 1 .. 3 : w[k] = w[k - 1] + Word(p, k)
        /\ WordSum(p) = w[3]
  <2> HIDE DEF p
  <2>1. \E w \in [0 .. Words(p) -> Nat] :
           /\ w[0] = 0
           /\ \A k \in 1 .. Words(p) : w[k] = w[k - 1] + Word(p, k)
           /\ WordSum(p) = w[Words(p)]
    BY <1>3, WordSumSteps
  <2> QED BY <1>4, <2>1
<1> HIDE DEF p
<1>7. 1 \in 1 .. 3 /\ 2 \in 1 .. 3 /\ 3 \in 1 .. 3
  OBVIOUS
<1>8. w[1] = w[0] + Word(p, 1) /\ w[2] = w[1] + Word(p, 2) /\ w[3] = w[2] + Word(p, 3)
  BY <1>6, <1>7
<1>9. x * Base \in Int /\ y \in Int /\ UdpProto \in Int /\ 0 * Base = 0
  BY <1>2, Sizes DEF Bytes
<1>10. WordSum(p) = (x * Base + y) + UdpProto + n
  BY <1>1, <1>5, <1>6, <1>8, <1>9
<1> QED BY <1>3, <1>10 DEF p
-----------------------------------------------------------------------------
(* What a receiver makes of a block. *)

(* A receiver accepts a multiple of Mod - 1. *)
LEMMA MultipleVerifies ==
  ASSUME NEW b, NEW type, NEW q \in Int,
         PseudoSum(b, type) + WordSum(b) = q * (Mod - 1)
  PROVE  Verifies(b, type)
<1>1. Mod - 1 \in Nat \ {0} /\ 0 \in 0 .. (Mod - 1) - 1
  BY Sizes
<1>2. (q * (Mod - 1) + 0) % (Mod - 1) = 0
  BY <1>1, QuotientUnique
<1>3. q * (Mod - 1) + 0 = q * (Mod - 1)
  BY <1>1
<1> QED BY <1>2, <1>3 DEF Verifies

LEMMA VerifiesMultiple ==
  ASSUME NEW b, NEW type, Verifies(b, type),
         PseudoSum(b, type) + WordSum(b) \in Int
  PROVE  \E q \in Int : PseudoSum(b, type) + WordSum(b) = q * (Mod - 1)
<1> DEFINE n == PseudoSum(b, type) + WordSum(b)
           q == n \div (Mod - 1)
<1>1. Mod - 1 \in Nat \ {0} /\ n \in Int
  BY Sizes
<1>2. n % (Mod - 1) = 0
  BY DEF Verifies
<1> HIDE DEF n
<1>3. n = q * (Mod - 1) + (n % (Mod - 1)) /\ q \in Int
  BY <1>1, DivMod
<1>4. n = q * (Mod - 1)
  BY <1>1, <1>2, <1>3
<1> QED BY <1>3, <1>4 DEF n

LEMMA WordSumType ==
  ASSUME NEW b \in Seq(Bytes)
  PROVE  WordSum(b) \in Nat
<1>1. PICK w \in [0 .. Words(b) -> Nat] : WordSum(b) = w[Words(b)]
  BY WordSumSteps
<1>2. Words(b) \in 0 .. Words(b)
  BY WordPlaces
<1> QED BY <1>1, <1>2

(* The two bytes of a word stored in a block. *)
LEMMA StoredWord ==
  ASSUME NEW b \in Seq(Bytes), NEW m \in Nat, m > 0, 2 * m <= Len(b),
         NEW x \in 0 .. Mod - 1
  PROVE  /\ Store(b, 2 * m - 1, x) \in Seq(Bytes)
         /\ Len(Store(b, 2 * m - 1, x)) = Len(b)
         /\ WordSum(Store(b, 2 * m - 1, x)) = (WordSum(b) - Word(b, m)) + x
<1> DEFINE c == Store(b, 2 * m - 1, x)
           at == 2 * m - 1
<1>1. x = (x \div Base) * Base + (x % Base) /\ x \div Base \in Bytes
      /\ x % Base \in Bytes
  BY WordBytes
<1>2. at \in 1 .. Len(b) /\ at + 1 \in 1 .. Len(b) /\ at + 1 = 2 * m
      /\ m \in 1 .. Words(b)
  BY DEF Words
<1>3. c = [b EXCEPT ![at] = x \div Base, ![at + 1] = x % Base]
  BY DEF Store
<1> HIDE DEF c, at
<1>4. /\ c \in Seq(Bytes) /\ Len(c) = Len(b)
      /\ c[at] = x \div Base /\ c[at + 1] = x % Base
      /\ \A i \in 1 .. Len(b) : i \notin {at, at + 1} => c[i] = b[i]
  BY <1>1, <1>2, <1>3
<1>5. Word(c, m) = x
  BY <1>1, <1>2, <1>4 DEF Word, at
<1>6. \A i \in 1 .. Len(b) : i \notin {2 * m - 1, 2 * m} => c[i] = b[i]
  BY <1>2, <1>4 DEF at
<1>7. WordSum(c) = (WordSum(b) - Word(b, m)) + Word(c, m)
  BY <1>2, <1>4, <1>6, SumOfChanged
<1> QED BY <1>4, <1>5, <1>7 DEF c

(* A block with the complement of its residue in a field that was clear.   *)
LEMMA ComplementVerifies ==
  ASSUME NEW b \in Seq(Bytes), NEW type, NEW m \in Nat, m > 0, 2 * m <= Len(b),
         b[2 * m - 1] = 0, b[2 * m] = 0, PseudoSum(b, type) \in Nat, NEW x,
         Residue(x, PseudoSum(b, type) + WordSum(b)),
         NEW c, c = Store(b, 2 * m - 1, Complement(x))
  PROVE  c \in Seq(Bytes) /\ Verifies(c, type)
<1>1. x \in 0 .. Mod - 1 /\ Mod \in Nat /\ Complement(x) = (Mod - 1) - x
      /\ Complement(x) \in 0 .. Mod - 1
  BY Sizes DEF Complement, Residue
<1>2. Word(b, m) = 0
  BY Sizes DEF Word
<1>3. /\ c \in Seq(Bytes) /\ Len(c) = Len(b)
      /\ WordSum(c) = (WordSum(b) - Word(b, m)) + Complement(x)
  BY <1>1, StoredWord
<1>4. PseudoSum(c, type) = PseudoSum(b, type)
  BY <1>3 DEF PseudoSum
<1>5. PICK q \in Nat : PseudoSum(b, type) + WordSum(b) = x + q * (Mod - 1)
  BY DEF Residue
<1>6. WordSum(b) \in Nat /\ q * (Mod - 1) \in Nat
      /\ (q + 1) * (Mod - 1) = q * (Mod - 1) + (Mod - 1)
  BY <1>1, WordSumType
<1>7. PseudoSum(c, type) + WordSum(c) = (q + 1) * (Mod - 1)
  BY <1>1, <1>2, <1>3, <1>4, <1>5, <1>6
<1> QED BY <1>3, <1>7, MultipleVerifies

(* What checksum gives. *)
LEMMA ChecksumIs ==
  ASSUME NEW b \in Seq(Bytes), NEW type, PseudoSum(b, type) \in Nat
  PROVE  \E x : /\ Residue(x, PseudoSum(b, type) + WordSum(b))
                /\ Checksum(b, type) = Complement(x)
<1>1. PseudoSum(b, type) + WordSum(b) \in Nat
  BY WordSumType
<1> QED BY <1>1, FoldIsResidue DEF Checksum

(* make_echo_reply_from_request: the type goes from the word of the first  *)
(* byte into that of the checksum.                                         *)
LEMMA PongIs ==
  ASSUME NEW b \in Seq(Bytes), 4 <= Len(b), b[1] = EchoType, Verifies(b, "ip"),
         NEW c, c = [b EXCEPT ![1] = 0, ![3] = CorrectHi(b[3]),
                              ![4] = CorrectLo(b[3], b[4])]
  PROVE  /\ c \in Seq(Bytes)
         /\ Verifies(c, "ip") \/ (c[4] = 0 /\ c[3] < EchoType)
<1> DEFINE d == [b EXCEPT ![1] = 0]
           hi == b[3]
           lo == b[4]
<1>1. /\ Base \in Nat /\ Base > 1 /\ 0 \in Bytes
      /\ EchoType \in Bytes /\ EchoType \in Nat /\ EchoType < Base
  BY ChecksumsAssumption, Sizes DEF Bytes
<1>2. PICK n \in Nat : n = Len(b)
  OBVIOUS
<1>3. {1, 2, 3, 4} \subseteq 1 .. Len(b)
  BY <1>2
<1>4. /\ b[1] \in Bytes /\ b[2] \in Bytes /\ hi \in Bytes /\ lo \in Bytes
      /\ hi \in Nat /\ lo \in Nat /\ hi < Base /\ lo < Base /\ b[2] \in Nat
  <2>1. /\ b[1] \in Bytes /\ b[2] \in Bytes /\ hi \in Bytes /\ lo \in Bytes
    BY <1>3
  <2> QED BY <2>1, <1>1 DEF Bytes
<1>5. /\ CorrectHi(hi) = IF hi > Base - 1 - EchoType THEN hi + EchoType - Base
                         ELSE hi + EchoType
      /\ CorrectHi(hi) \in Bytes
  <2>1. CASE hi > Base - 1 - EchoType
    <3>1. hi + EchoType - Base \in 0 .. Base - 1
          /\ hi + EchoType = 1 * Base + (hi + EchoType - Base)
      BY <1>1, <1>4, <2>1
    <3> DEFINE r == hi + EchoType - Base
    <3>2. (1 * Base + r) % Base = r
      <4> HIDE DEF r
      <4>1. r \in 0 .. Base - 1
        BY <3>1 DEF r
      <4> QED BY <1>1, <4>1, QuotientUnique
    <3> QED BY <2>1, <3>1, <3>2 DEF CorrectHi, Bytes
  <2>2. CASE ~ (hi > Base - 1 - EchoType)
    <3>1. hi + EchoType \in 0 .. Base - 1 /\ hi + EchoType = 0 * Base + (hi + EchoType)
      BY <1>1, <1>4, <2>2
    <3>2. (0 * Base + (hi + EchoType)) % Base = hi + EchoType
      BY <1>1, <3>1, QuotientUnique
    <3> QED BY <2>2, <3>1, <3>2 DEF CorrectHi, Bytes
  <2> QED BY <2>1, <2>2
<1>6. /\ CorrectLo(hi, lo) = IF hi > Base - 1 - EchoType
                             THEN IF lo = Base - 1 THEN 0 ELSE lo + 1
                             ELSE lo
      /\ CorrectLo(hi, lo) \in Bytes
  <2>1. (lo + 1) % Base = IF lo = Base - 1 THEN 0 ELSE lo + 1
    <3>1. CASE lo = Base - 1
      <4>1. (1 * Base + 0) % Base = 0
        BY <1>1, QuotientUnique
      <4> QED BY <1>1, <3>1, <4>1
    <3>2. CASE lo # Base - 1
      <4>1. lo + 1 \in 0 .. Base - 1 /\ 0 * Base + (lo + 1) = lo + 1
        BY <1>1, <1>4, <3>2
      <4>2. (0 * Base + (lo + 1)) % Base = lo + 1
        BY <1>1, <4>1, QuotientUnique
      <4> QED BY <3>2, <4>1, <4>2
    <3> QED BY <3>1, <3>2
  <2>2. CorrectLo(hi, lo) = IF hi > Base - 1 - EchoType
                            THEN IF lo = Base - 1 THEN 0 ELSE lo + 1
                            ELSE lo
    BY <2>1 DEF CorrectLo
  <2>3. lo # Base - 1 => lo + 1 \in Bytes
    BY <1>1, <1>4 DEF Bytes
  <2> QED BY <1>1, <1>4, <2>2, <2>3
<1>7. /\ d \in Seq(Bytes) /\ Len(d) = Len(b) /\ d[1] = 0
      /\ \A i \in 1 .. Len(b) : i # 1 => d[i] = b[i]
  BY <1>1, <1>3
<1>8. c = [d EXCEPT ![3] = CorrectHi(hi), ![4] = CorrectLo(hi, lo)]
  OBVIOUS
<1> HIDE DEF d
<1>9. /\ c \in Seq(Bytes) /\ Len(c) = Len(d)
      /\ c[3] = CorrectHi(hi) /\ c[4] = CorrectLo(hi, lo)
      /\ \A i \in 1 .. Len(d) : i \notin {3, 4} => c[i] = d[i]
  <2> DEFINE x == CorrectHi(hi)
             y == CorrectLo(hi, lo)
  <2>1. x \in Bytes /\ y \in Bytes
    BY <1>5, <1>6
  <2>2. 3 \in 1 .. Len(d) /\ 4 \in 1 .. Len(d)
    BY <1>3, <1>7
  <2>3. c = [d EXCEPT ![3] = x, ![4] = y]
    BY <1>8
  <2> HIDE DEF x, y
  <2> DEFINE a == [d EXCEPT ![3] = x]
  <2>4. /\ a \in Seq(Bytes) /\ Len(a) = Len(d) /\ a[3] = x
        /\ \A i \in 1 .. Len(d) : i # 3 => a[i] = d[i]
    BY <1>7, <2>1, <2>2
  <2>5. c = [a EXCEPT ![4] = y]
    BY <2>3
  <2> HIDE DEF a
  <2>6. /\ c \in Seq(Bytes) /\ Len(c) = Len(a) /\ c[4] = y
        /\ \A i \in 1 .. Len(a) : i # 4 => c[i] = a[i]
    BY <2>1, <2>2, <2>4, <2>5
  <2>7. c[3] = x /\ \A i \in 1 .. Len(d) : i \notin {3, 4} => c[i] = d[i]
    BY <2>2, <2>4, <2>6
  <2> QED BY <2>4, <2>6, <2>7 DEF x, y
<1>10. /\ 1 \in 1 .. Words(b) /\ 2 \in 1 .. Words(b)
       /\ 2 * 1 - 1 = 1 /\ 2 * 1 = 2 /\ 2 * 2 - 1 = 3 /\ 2 * 2 = 4
       /\ Words(d) = Words(b) /\ 2 \in 1 .. Words(d)
  BY <1>2, <1>7 DEF Words
<1>11. WordSum(d) = (WordSum(b) - Word(b, 1)) + Word(d, 1)
  <2>1. \A i \in 1 .. Len(b) : i \notin {2 * 1 - 1, 2 * 1} => d[i] = b[i]
    BY <1>7, <1>10
  <2> QED BY <1>7, <1>10, <2>1, SumOfChanged
<1>12. WordSum(c) = (WordSum(d) - Word(d, 2)) + Word(c, 2)
  <2>1. \A i \in 1 .. Len(d) : i \notin {2 * 2 - 1, 2 * 2} => c[i] = d[i]
    BY <1>9, <1>10
  <2> QED BY <1>7, <1>9, <1>10, <2>1, SumOfChanged
<1>13. /\ Word(b, 1) = EchoType * Base + b[2] /\ Word(d, 1) = 0 * Base + b[2]
       /\ Word(d, 2) = hi * Base + lo
       /\ Word(c, 2) = CorrectHi(hi) * Base + CorrectLo(hi, lo)
  BY <1>2, <1>3, <1>7, <1>9, <1>10 DEF Word
<1>14. EchoType * Base \in Int /\ hi * Base \in Int /\ 0 * Base = 0
  BY <1>1, <1>4
<1>15. WordSum(b) \in Nat
  BY WordSumType
<1>16. PICK q \in Int : WordSum(b) = q * (Mod - 1)
  <2>1. PseudoSum(b, "ip") = 0
    BY DEF PseudoSum
  <2>2. PseudoSum(b, "ip") + WordSum(b) = WordSum(b)
    BY <1>15, <2>1
  <2> QED BY <1>15, <2>2, VerifiesMultiple
<1>17. PseudoSum(c, "ip") = 0
  BY DEF PseudoSum
<1>18. CASE ~ (hi > Base - 1 - EchoType)
  <2>1. CorrectHi(hi) = hi + EchoType /\ CorrectLo(hi, lo) = lo
    BY <1>5, <1>6, <1>18
  <2>2. (hi + EchoType) * Base = hi * Base + EchoType * Base
    BY <1>1, <1>4
  <2>3. WordSum(c) = WordSum(b)
    BY <1>4, <1>11, <1>12, <1>13, <1>14, <1>15, <2>1, <2>2
  <2>4. PseudoSum(c, "ip") + WordSum(c) = q * (Mod - 1)
    BY <1>15, <1>16, <1>17, <2>3
  <2> QED BY <1>9, <2>4, MultipleVerifies
<1>19. CASE hi > Base - 1 - EchoType /\ lo = Base - 1
  <2>1. CorrectHi(hi) = hi + EchoType - Base /\ CorrectLo(hi, lo) = 0
    BY <1>5, <1>6, <1>19
  <2> QED BY <1>1, <1>4, <1>9, <2>1
<1>20. CASE hi > Base - 1 - EchoType /\ lo # Base - 1
  <2>1. CorrectHi(hi) = hi + EchoType - Base /\ CorrectLo(hi, lo) = lo + 1
    BY <1>5, <1>6, <1>20
  <2>2. (hi + EchoType - Base) * Base = hi * Base + EchoType * Base - Mod
        /\ Mod \in Nat
    BY <1>1, <1>4, Sizes DEF Mod
  <2>3. WordSum(c) = WordSum(b) - (Mod - 1)
    <3>1. Word(c, 2) = (hi * Base + EchoType * Base - Mod) + (lo + 1)
      BY <1>13, <2>1, <2>2
    <3>2. PICK x \in Int : x = hi * Base
      BY <1>14
    <3>3. PICK y \in Int : y = EchoType * Base
      BY <1>14
    <3>4. /\ Word(b, 1) = y + b[2] /\ Word(d, 1) = b[2] /\ Word(d, 2) = x + lo
          /\ Word(c, 2) = (x + y - Mod) + (lo + 1)
      BY <1>4, <1>13, <1>14, <3>1, <3>2, <3>3
    <3>5. WordSum(d) = WordSum(b) - y
      BY <1>4, <1>11, <1>15, <3>4
    <3> QED BY <1>4, <1>12, <1>15, <2>2, <3>4, <3>5
  <2>4. (q - 1) * (Mod - 1) = q * (Mod - 1) - (Mod - 1)
    BY <2>2
  <2>5. PseudoSum(c, "ip") + WordSum(c) = (q - 1) * (Mod - 1)
    BY <1>15, <1>16, <1>17, <2>2, <2>3, <2>4
  <2>6. q - 1 \in Int
    OBVIOUS
  <2>7. Verifies(c, "ip")
    BY <2>5, <2>6, MultipleVerifies
  <2> QED BY <1>9, <2>7
<1> QED BY <1>9, <1>18, <1>19, <1>20

(* The same at the places the checksum fields have. *)
LEMMA ResidueStored ==
  ASSUME NEW b \in Seq(Bytes), NEW type, NEW at \in {3, 5, 7}, at + 1 <= Len(b),
         b[at] = 0, b[at + 1] = 0, PseudoSum(b, type) \in Nat, NEW x,
         Residue(x, PseudoSum(b, type) + WordSum(b)),
         NEW c, c = Store(b, at, Complement(x))
  PROVE  c \in Seq(Bytes) /\ Verifies(c, type)
<1>1. PICK m \in Nat : m > 0 /\ at = 2 * m - 1 /\ at + 1 = 2 * m
  <2> DEFINE m == CASE at = 3 -> 2 [] at = 5 -> 3 [] at = 7 -> 4
  <2>1. m \in Nat /\ m > 0 /\ at = 2 * m - 1 /\ at + 1 = 2 * m
    OBVIOUS
  <2> HIDE DEF m
  <2> QED BY <2>1
<1>2. /\ 2 * m <= Len(b) /\ b[2 * m - 1] = 0 /\ b[2 * m] = 0
      /\ c = Store(b, 2 * m - 1, Complement(x))
  BY <1>1
<1> QED BY <1>1, <1>2, ComplementVerifies

LEMMA ChecksumStored ==
  ASSUME NEW b \in Seq(Bytes), NEW type, NEW at \in {3, 5, 7}, at + 1 <= Len(b),
         b[at] = 0, b[at + 1] = 0, PseudoSum(b, type) \in Nat,
         NEW c, c = Store(b, at, Checksum(b, type))
  PROVE  c \in Seq(Bytes) /\ Verifies(c, type)
<1>1. PICK x : /\ Residue(x, PseudoSum(b, type) + WordSum(b))
               /\ Checksum(b, type) = Complement(x)
  BY ChecksumIs
<1> QED BY <1>1, ResidueStored

-----------------------------------------------------------------------------
(* The two routines agree on every block, so also on the one at hand: each *)
(* ends at the one residue of the block's sum.                             *)
LEMMA SumsAgree ==
  ASSUME NEW b \in Seq(Bytes)
  PROVE  Complement(ComputeSum(0, b)) = Checksum(b, "ip")
<1>1. WordSum(b) \in Nat /\ PseudoSum(b, "ip") = 0
  BY WordSumType DEF PseudoSum
<1>2. Residue(0, 0)
  BY Sizes, ResidueOfWord
<1>3. Residue(ComputeSum(0, b), WordSum(b))
  <2>1. Residue(ComputeSum(0, b), 0 + WordSum(b))
    BY <1>2, ComputeSumIsResidue
  <2> QED BY <1>1, <2>1
<1>4. PICK x : Residue(x, WordSum(b)) /\ Checksum(b, "ip") = Complement(x)
  <2>1. PseudoSum(b, "ip") + WordSum(b) = WordSum(b)
    BY <1>1
  <2>2. PseudoSum(b, "ip") \in Nat
    BY <1>1
  <2> QED BY <2>1, <2>2, ChecksumIs
<1>5. x = ComputeSum(0, b)
  BY <1>1, <1>3, <1>4, ResidueUnique
<1> QED BY <1>4, <1>5

(* What follows a header leaves the header's bytes where they are. *)
LEMMA Extended ==
  ASSUME NEW h \in Seq(Bytes), NEW data \in Seq(Bytes)
  PROVE  /\ h \o data \in Seq(Bytes)
         /\ Len(h \o data) = Len(h) + Len(data)
         /\ \A i \in 1 .. Len(h) : (h \o data)[i] = h[i]
BY ConcatProperties

IsSegment(b, hi, lo, data) ==
  /\ b \in Seq(Bytes) /\ Len(b) = 8 + Len(data) /\ Len(data) \in Nat
  /\ b[7] = hi /\ b[8] = lo

LEMMA SegmentIs ==
  ASSUME NEW src \in Bytes, NEW dst \in Bytes, NEW sport \in Bytes,
         NEW dport \in Bytes, NEW len \in 0 .. Mod - 1, NEW hi \in Bytes,
         NEW lo \in Bytes, NEW data \in Seq(Bytes)
  PROVE  IsSegment(Segment(src, dst, sport, dport, len, hi, lo, data), hi, lo, data)
<1> DEFINE b == Segment(src, dst, sport, dport, len, hi, lo, data)
           h == <<src, dst, sport, dport, len \div Base, len % Base, hi, lo>>
<1>1. len \div Base \in Bytes /\ len % Base \in Bytes
  BY WordBytes
<1>2. h \in Seq(Bytes) /\ Len(h) = 8 /\ h[7] = hi /\ h[8] = lo
  BY <1>1
<1>3. b = h \o data
  BY DEF Segment
<1> HIDE DEF h, b
<1>4. /\ b \in Seq(Bytes) /\ Len(b) = Len(h) + Len(data)
      /\ \A i \in 1 .. Len(h) : b[i] = h[i]
  <2>1. /\ h \o data \in Seq(Bytes) /\ Len(h \o data) = Len(h) + Len(data)
        /\ \A i \in 1 .. Len(h) : (h \o data)[i] = h[i]
    BY <1>2, Extended, Zenon
  <2> QED BY <1>3, <2>1, Zenon
<1>5. 7 \in 1 .. Len(h) /\ 8 \in 1 .. Len(h) /\ Len(data) \in Nat
  BY <1>2
<1>6. /\ b \in Seq(Bytes) /\ Len(b) = 8 + Len(data) /\ Len(data) \in Nat
      /\ b[7] = hi /\ b[8] = lo
  BY <1>2, <1>4, <1>5
<1> QED BY <1>6, Zenon DEF IsSegment, b

LEMMA IcmpIs ==
  ASSUME NEW data \in Seq(Bytes), NEW b, b = Icmp(EchoType, 0, 0, data)
  PROVE  /\ b \in Seq(Bytes) /\ Len(b) >= 4
         /\ b[1] = EchoType /\ b[3] = 0 /\ b[4] = 0
<1> DEFINE h == <<EchoType, 0, 0, 0>>
<1>1. 0 \in Bytes /\ EchoType \in Bytes
  BY ChecksumsAssumption, Sizes DEF Bytes
<1>2. h \in Seq(Bytes) /\ Len(h) = 4 /\ h[1] = EchoType /\ h[3] = 0 /\ h[4] = 0
  BY <1>1
<1>3. b = h \o data
  BY DEF Icmp
<1> HIDE DEF h
<1>4. /\ b \in Seq(Bytes) /\ Len(b) = Len(h) + Len(data)
      /\ \A i \in 1 .. Len(h) : b[i] = h[i]
  <2>1. /\ h \o data \in Seq(Bytes) /\ Len(h \o data) = Len(h) + Len(data)
        /\ \A i \in 1 .. Len(h) : (h \o data)[i] = h[i]
    BY <1>2, Extended, Zenon
  <2> QED BY <1>3, <2>1, Zenon
<1>5. /\ 1 \in 1 .. Len(h) /\ 3 \in 1 .. Len(h) /\ 4 \in 1 .. Len(h)
      /\ Len(data) \in Nat
  BY <1>2
<1> QED BY <1>2, <1>4, <1>5
-----------------------------------------------------------------------------
(* What the builders rely on: how long a block is, that its checksum field *)
(* is clear where the code does not clear it, and that a ping came with    *)
(* the checksum its sender computed.                                       *)
Lengths(k, b) ==
  /\ k \in {"ip", "ip_send"} => Len(b) = 6
  /\ k \in {"udp", "tcp", "udp_send"} => Len(b) >= 8

Ready(k, b) ==
  /\ k \in {"pong", "ping"} => Len(b) >= 4
  /\ k = "pong" => b[1] = EchoType /\ Verifies(b, "ip")
  /\ k = "ping" => b[3] = 0 /\ b[4] = 0
  /\ k = "ip_send" => b[5] = 0 /\ b[6] = 0
  /\ k = "udp_send" => Len(b) - AddrLen < Mod /\ b[7] = 0 /\ b[8] = 0

Prepared ==
  /\ Lengths(kind, block)
  /\ stage = "ready" => Ready(kind, block)

IInv ==
  /\ block \in Seq(Bytes)
  /\ Prepared
  /\ SentVerifies
  /\ PongVerifiesUnlessCarry

LEMMA InitIInv == Init => IInv
BY DEF Init, IInv, Prepared, Lengths, SentVerifies, PongVerifiesUnlessCarry

LEMMA ByteBounds ==
  /\ 0 \in Bytes /\ Base - 1 \in Bytes /\ EchoType \in Bytes
  /\ UdpProto \in Bytes /\ TcpProto \in Bytes /\ Ttl \in Bytes /\ MyIp \in Bytes
  /\ WwwPort \in Bytes /\ SynAck \in Bytes /\ Ack \in Bytes
  /\ AckPushFin \in Bytes
  /\ UdpProto \in Nat /\ TcpProto \in Nat
BY ChecksumsAssumption, Sizes DEF Bytes

LEMMA DataBounds ==
  /\ 0 \in 0 .. Mod - 1 /\ SegmentHdrLen \in 0 .. Mod - 1
  /\ \A data \in Datas :
       data \in Seq(Bytes) /\ SegmentHdrLen + Len(data) \in 0 .. Mod - 1
<1>1. Base * Base >= 3 * Base /\ Base \in Nat /\ Base > 2
  BY ChecksumsAssumption
<1>2. Mod \in Nat /\ Mod > 6
  BY <1>1 DEF Mod
<1>3. \A data \in Datas : data \in Seq(Bytes) /\ Len(data) + 6 < Mod
  BY ChecksumsAssumption
<1>4. \A data \in Datas :
        data \in Seq(Bytes) /\ SegmentHdrLen + Len(data) \in 0 .. Mod - 1
  <2>1. ASSUME NEW data \in Datas
        PROVE  data \in Seq(Bytes) /\ SegmentHdrLen + Len(data) \in 0 .. Mod - 1
    <3>1. Len(data) \in Nat /\ data \in Seq(Bytes)
      BY <1>3
    <3> QED BY <1>2, <1>3, <3>1 DEF SegmentHdrLen
  <2> QED BY <2>1
<1> QED BY <1>2, <1>4 DEF SegmentHdrLen

(* Padding keeps the data within what a word can tell the length of. *)
LEMMA PaddedBounds ==
  ASSUME NEW data \in Datas
  PROVE  /\ Padded(data) \in Seq(Bytes)
         /\ SegmentHdrLen + Len(Padded(data)) \in 0 .. Mod - 1
<1>1. /\ data \in Seq(Bytes) /\ Len(data) \in Nat
      /\ SegmentHdrLen + Len(data) \in 0 .. Mod - 1
  BY DataBounds
<1>2. MinUdpData \in Nat /\ MinUdpData + 6 < Mod /\ Mod \in Nat /\ 0 \in Bytes
  BY ChecksumsAssumption, Sizes, ByteBounds
<1> DEFINE n == MinUdpData - Len(data)
           zeros == [i \in 1 .. n |-> 0]
<1>3. CASE n \in Nat
  <2>1. zeros \in Seq(Bytes) /\ Len(zeros) = n
    <3> HIDE DEF n
    <3> QED BY <1>2, <1>3
  <2> HIDE DEF zeros
  <2>2. /\ data \o zeros \in Seq(Bytes)
        /\ Len(data \o zeros) = Len(data) + Len(zeros)
    BY <1>1, <2>1, ConcatProperties, Zenon
  <2>3. Padded(data) = data \o zeros
    BY DEF Padded, zeros
  <2>4. SegmentHdrLen + (Len(data) + Len(zeros)) \in 0 .. Mod - 1
    BY <1>1, <1>2, <2>1 DEF SegmentHdrLen
  <2> QED BY <2>2, <2>3, <2>4
<1>4. CASE n \notin Nat
  <2>1. 1 .. n = {}
    BY <1>1, <1>2, <1>4
  <2>2. zeros = <<>>
    BY <2>1
  <2>3. Padded(data) = data \o <<>>
    BY <2>2 DEF Padded
  <2>4. data \o <<>> = data
    BY <1>1
  <2> QED BY <1>1, <2>3, <2>4
<1> QED BY <1>3, <1>4

(* A block becomes ready with what its builder relies on. *)
LEMMA StartStep ==
  ASSUME NEW k, NEW b \in Seq(Bytes), Start(k, b), Lengths(k, b), Ready(k, b)
  PROVE  IInv'
<1>1. stage' = "ready" /\ kind' = k /\ block' = b
  BY DEF Start
<1>2. Prepared'
  BY <1>1 DEF Prepared, Lengths, Ready, Verifies
<1> QED BY <1>1, <1>2 DEF IInv, SentVerifies, PongVerifiesUnlessCarry

(* What is sent, other than a pong, is sent with a checksum that verifies. *)
LEMMA SentWith ==
  ASSUME NEW k, NEW b \in Seq(Bytes), kind' = k, block' = b, stage' = "sent",
         k # "pong", Verifies(b, TypeOf(k)), Lengths(k, b)
  PROVE  IInv'
<1>1. Prepared'
  BY DEF Prepared, Lengths
<1> QED BY <1>1 DEF IInv, SentVerifies, PongVerifiesUnlessCarry, Verifies, TypeOf

LEMMA FinishStep ==
  ASSUME NEW k, NEW b \in Seq(Bytes), Finish(k, b), k # "pong",
         Verifies(b, TypeOf(k)), Lengths(k, b)
  PROVE  IInv'
BY SentWith DEF Finish

(* Storing a checksum leaves the length alone. *)
LEMMA StoredLength ==
  ASSUME NEW b \in Seq(Bytes), NEW at, NEW word
  PROVE  Len(Store(b, at, word)) = Len(b)
BY DEF Store

LEMMA ReceiveIpStep == IInv /\ ReceiveIp => IInv'
<1> SUFFICES ASSUME NEW total \in Bytes, NEW ttl \in Bytes, NEW hi \in Bytes,
                    NEW lo \in Bytes, NEW src \in Bytes,
                    Start("ip", IpHeader(total, ttl, hi, lo, src, MyIp))
             PROVE  IInv'
  BY DEF ReceiveIp
<1> DEFINE b == IpHeader(total, ttl, hi, lo, src, MyIp)
<1>1. b \in Seq(Bytes) /\ Len(b) = 6
  BY ByteBounds DEF IpHeader
<1> HIDE DEF b
<1>2. Start("ip", b)
  BY DEF b
<1> QED BY <1>1, <1>2, StartStep DEF Lengths, Ready

LEMMA ReceiveUdpStep == IInv /\ ReceiveUdp => IInv'
<1> SUFFICES ASSUME NEW src \in Bytes, NEW port \in Bytes, NEW hi \in Bytes,
                    NEW lo \in Bytes, NEW data \in {<<>>, <<Base - 1>>},
                    Start("udp", Segment(src, MyIp, port, 0, 0, hi, lo, data))
             PROVE  IInv'
  BY DEF ReceiveUdp
<1> DEFINE b == Segment(src, MyIp, port, 0, 0, hi, lo, data)
<1>1. data \in Seq(Bytes)
  <2>1. <<>> \in Seq(Bytes) /\ <<Base - 1>> \in Seq(Bytes)
    BY ByteBounds
  <2> QED BY <2>1, Zenon
<1>2. b \in Seq(Bytes) /\ Len(b) = 8 + Len(data) /\ Len(data) \in Nat
  <2>1. MyIp \in Bytes /\ 0 \in Bytes /\ 0 \in 0 .. Mod - 1
        /\ SegmentHdrLen \in 0 .. Mod - 1
    BY ByteBounds, DataBounds
  <2>2. IsSegment(b, hi, lo, data)
    BY <1>1, <2>1, SegmentIs
  <2> HIDE DEF b
  <2> QED BY <2>2 DEF IsSegment
<1> HIDE DEF b
<1>3. Start("udp", b)
  BY DEF b
<1>4. Len(b) >= 8
  BY <1>2
<1> QED BY <1>2, <1>3, <1>4, StartStep DEF Lengths, Ready

LEMMA ReceiveTcpStep == IInv /\ ReceiveTcp => IInv'
<1> SUFFICES ASSUME NEW src \in Bytes, NEW port \in Bytes, NEW hi \in Bytes,
                    NEW lo \in Bytes, NEW data \in {<<>>, <<Base - 1>>},
                    Start("tcp", Segment(src, MyIp, port, WwwPort, 0, hi, lo,
                                         data))
             PROVE  IInv'
  BY DEF ReceiveTcp
<1> DEFINE b == Segment(src, MyIp, port, WwwPort, 0, hi, lo, data)
<1>1. data \in Seq(Bytes)
  <2>1. <<>> \in Seq(Bytes) /\ <<Base - 1>> \in Seq(Bytes)
    BY ByteBounds
  <2> QED BY <2>1, Zenon
<1>2. b \in Seq(Bytes) /\ Len(b) = 8 + Len(data) /\ Len(data) \in Nat
  <2>1. MyIp \in Bytes /\ WwwPort \in Bytes /\ 0 \in 0 .. Mod - 1
    BY ByteBounds, DataBounds
  <2>2. IsSegment(b, hi, lo, data)
    BY <1>1, <2>1, SegmentIs
  <2> HIDE DEF b
  <2> QED BY <2>2 DEF IsSegment
<1> HIDE DEF b
<1>3. Start("tcp", b)
  BY DEF b
<1>4. Len(b) >= 8
  BY <1>2
<1> QED BY <1>2, <1>3, <1>4, StartStep DEF Lengths, Ready

LEMMA ReceivePingStep == IInv /\ ReceivePing => IInv'
<1> SUFFICES ASSUME NEW data \in Datas,
                    LET b == Icmp(EchoType, 0, 0, data)
                    IN  Start("pong", Store(b, 3, Checksum(b, "ip")))
             PROVE  IInv'
  BY DEF ReceivePing
<1> DEFINE b == Icmp(EchoType, 0, 0, data)
           c == Store(b, 3, Checksum(b, "ip"))
<1>1. Start("pong", c)
  OBVIOUS
<1>2. /\ b \in Seq(Bytes) /\ Len(b) >= 4
      /\ b[1] = EchoType /\ b[3] = 0 /\ b[4] = 0
  BY DataBounds, IcmpIs
<1> HIDE DEF b
<1>3. PseudoSum(b, "ip") \in Nat
  BY DEF PseudoSum
<1>4. 3 \in {3, 5, 7} /\ 3 + 1 = 4
  OBVIOUS
<1>5. c \in Seq(Bytes) /\ Verifies(c, "ip")
  BY <1>2, <1>3, <1>4, ChecksumStored
<1>6. Len(c) = Len(b) /\ c[1] = b[1]
  BY <1>2 DEF Store
<1> HIDE DEF c
<1> QED BY <1>1, <1>2, <1>5, <1>6, StartStep DEF Lengths, Ready

LEMMA PreparePingStep == IInv /\ PreparePing => IInv'
<1> SUFFICES ASSUME NEW data \in Datas, Start("ping", Icmp(EchoType, 0, 0, data))
             PROVE  IInv'
  BY DEF PreparePing
<1> DEFINE b == Icmp(EchoType, 0, 0, data)
<1>1. b \in Seq(Bytes) /\ Len(b) >= 4 /\ b[3] = 0 /\ b[4] = 0
  BY DataBounds, IcmpIs
<1> HIDE DEF b
<1>2. Start("ping", b)
  BY DEF b
<1> QED BY <1>1, <1>2, StartStep DEF Lengths, Ready

LEMMA PrepareUdpStep == IInv /\ PrepareUdp => IInv'
<1> SUFFICES ASSUME NEW dst \in Bytes, NEW port \in Bytes, NEW data \in Datas,
                    Start("udp_send",
                          Segment(MyIp, dst, port, port,
                                  SegmentHdrLen + Len(Padded(data)), 0, 0,
                                  Padded(data)))
             PROVE  IInv'
  BY DEF PrepareUdp
<1> DEFINE p == Padded(data)
           b == Segment(MyIp, dst, port, port, SegmentHdrLen + Len(p), 0, 0, p)
<1>1. SegmentHdrLen + Len(p) \in 0 .. Mod - 1 /\ p \in Seq(Bytes)
  BY PaddedBounds
<1>2. Start("udp_send", b)
  OBVIOUS
<1> HIDE DEF p
<1>3. /\ b \in Seq(Bytes) /\ Len(b) = 8 + Len(p) /\ Len(p) \in Nat
      /\ b[7] = 0 /\ b[8] = 0
  <2>1. MyIp \in Bytes /\ 0 \in Bytes
    BY ByteBounds
  <2>2. IsSegment(b, 0, 0, p)
    BY <1>1, <2>1, SegmentIs
  <2> HIDE DEF b
  <2> QED BY <2>2 DEF IsSegment
<1> HIDE DEF b
<1>4. Len(b) >= 8 /\ Len(b) - AddrLen < Mod
  BY <1>1, <1>3, Sizes DEF SegmentHdrLen, AddrLen
<1> QED BY <1>2, <1>3, <1>4, StartStep DEF Lengths, Ready

LEMMA PrepareIpStep == IInv /\ PrepareIp => IInv'
<1> SUFFICES ASSUME NEW dst \in Bytes, NEW total \in Bytes,
                    Start("ip_send", IpHeader(total, Ttl, 0, 0, MyIp, dst))
             PROVE  IInv'
  BY DEF PrepareIp
<1> DEFINE b == IpHeader(total, Ttl, 0, 0, MyIp, dst)
<1>1. b \in Seq(Bytes) /\ Len(b) = 6 /\ b[5] = 0 /\ b[6] = 0
  BY ByteBounds DEF IpHeader
<1> HIDE DEF b
<1>2. Start("ip_send", b)
  BY DEF b
<1> QED BY <1>1, <1>2, StartStep DEF Lengths, Ready

(* fill_ip_hdr_checksum clears the field before it sums. *)
LEMMA FilledIp ==
  ASSUME NEW a \in Seq(Bytes), NEW n \in Nat, n >= 6, Len(a) = n
  PROVE  LET c == FillIpHdrChecksum(a)
         IN  c \in Seq(Bytes) /\ Len(c) = n /\ Verifies(c, "ip")
<1> DEFINE b1 == [a EXCEPT ![4] = Ttl]
           b2 == [b1 EXCEPT ![5] = 0]
           b  == [b2 EXCEPT ![6] = 0]
           c  == Store(b, 5, Checksum(b, "ip"))
<1>1. b1 \in Seq(Bytes) /\ Len(b1) = n
  BY ByteBounds
<1> HIDE DEF b1
<1>2. b2 \in Seq(Bytes) /\ Len(b2) = n /\ b2[5] = 0
  BY <1>1, ByteBounds
<1> HIDE DEF b2
<1>3. b \in Seq(Bytes) /\ Len(b) = n /\ b[5] = 0 /\ b[6] = 0
  BY <1>2, ByteBounds
<1>4. FillIpHdrChecksum(a) = c
  BY DEF FillIpHdrChecksum, b, b2, b1
<1> HIDE DEF b
<1>5. PseudoSum(b, "ip") \in Nat
  BY DEF PseudoSum
<1>6. 5 \in {3, 5, 7} /\ 5 + 1 = 6 /\ 5 + 1 <= Len(b)
  BY <1>3
<1>7. c \in Seq(Bytes) /\ Verifies(c, "ip")
  BY <1>3, <1>5, <1>6, ChecksumStored
<1>8. Len(c) = n
  BY <1>3, StoredLength
<1> QED BY <1>4, <1>7, <1>8

LEMMA MakeIpStep ==
  ASSUME NEW total \in Bytes, IInv, MakeIp(total)
  PROVE  IInv'
<1> DEFINE a1 == [block EXCEPT ![1] = MyIp]
           a2 == [a1 EXCEPT ![2] = block[1]]
           a  == [a2 EXCEPT ![3] = total]
           c  == FillIpHdrChecksum(a)
<1>1. Finish("ip", c)
  BY DEF MakeIp
<1>2. block \in Seq(Bytes)
  BY DEF IInv
<1>3. Len(block) = 6
  BY <1>1 DEF IInv, Prepared, Lengths, Finish
<1>4. PICK n \in Nat : n = Len(block) /\ n >= 6
  BY <1>3
<1>5. a1 \in Seq(Bytes) /\ Len(a1) = n
  BY <1>2, <1>4, ByteBounds
<1> HIDE DEF a1
<1>6. a2 \in Seq(Bytes) /\ Len(a2) = n
  <2>1. PICK x \in Bytes : x = block[1]
    BY <1>2, <1>4
  <2>2. a2 = [a1 EXCEPT ![2] = x]
    BY <2>1
  <2> QED BY <1>4, <1>5, <2>2
<1> HIDE DEF a2
<1>7. a \in Seq(Bytes) /\ Len(a) = n
  BY <1>4, <1>6
<1> HIDE DEF a
<1>8. c \in Seq(Bytes) /\ Len(c) = n /\ Verifies(c, "ip")
  BY <1>4, <1>7, FilledIp
<1> HIDE DEF c
<1> QED BY <1>1, <1>3, <1>4, <1>8, FinishStep DEF TypeOf, Lengths

(* The header of an ack, filled once more for the page behind it. *)
LEMMA MakeTcpDataIpStep ==
  ASSUME NEW total \in Bytes, IInv, MakeTcpDataIp(total)
  PROVE  IInv'
<1> DEFINE a == [block EXCEPT ![3] = total]
           c == FillIpHdrChecksum(a)
<1>1. stage' = "sent" /\ kind' = "ip" /\ block' = c /\ kind = "ip"
  BY DEF MakeTcpDataIp, Rebuild
<1>2. block \in Seq(Bytes)
  BY DEF IInv
<1>3. Len(block) = 6
  BY <1>1 DEF IInv, Prepared, Lengths
<1>4. PICK n \in Nat : n = Len(block) /\ n >= 6
  BY <1>3
<1>5. a \in Seq(Bytes) /\ Len(a) = n
  BY <1>2, <1>4
<1> HIDE DEF a
<1>6. c \in Seq(Bytes) /\ Len(c) = n /\ Verifies(c, "ip")
  BY <1>4, <1>5, FilledIp
<1> HIDE DEF c
<1> QED BY <1>1, <1>3, <1>4, <1>6, SentWith DEF TypeOf, Lengths

(* A UDP or TCP block whose checksum field is clear is completed. *)
LEMMA SegmentSummed ==
  ASSUME NEW k \in {"udp", "tcp"}, NEW b \in Seq(Bytes), Len(b) >= 8,
         b[7] = 0, b[8] = 0, NEW c, c = Store(b, 7, Checksum(b, k))
  PROVE  c \in Seq(Bytes) /\ Verifies(c, TypeOf(k)) /\ Lengths(k, c)
<1>1. PseudoSum(b, k) \in Nat
  <2>1. Len(b) \in Nat /\ Len(b) >= 8 /\ UdpProto \in Nat /\ TcpProto \in Nat
    BY ByteBounds DEF Bytes
  <2> QED BY <2>1 DEF PseudoSum, AddrLen
<1>2. 7 \in {3, 5, 7} /\ 7 + 1 = 8
  OBVIOUS
<1>3. c \in Seq(Bytes) /\ Verifies(c, k)
  BY <1>1, <1>2, ChecksumStored
<1>4. Len(c) = Len(b)
  BY StoredLength
<1>5. TypeOf(k) = k
  BY DEF TypeOf
<1> QED BY <1>3, <1>4, <1>5 DEF Lengths

LEMMA SegmentStep ==
  ASSUME NEW k \in {"udp", "tcp"}, NEW b \in Seq(Bytes), Len(b) >= 8,
         b[7] = 0, b[8] = 0, Finish(k, Store(b, 7, Checksum(b, k)))
  PROVE  IInv'
<1> DEFINE c == Store(b, 7, Checksum(b, k))
<1>1. c \in Seq(Bytes) /\ Verifies(c, TypeOf(k)) /\ Lengths(k, c)
  BY SegmentSummed
<1>2. Finish(k, c) /\ k # "pong"
  OBVIOUS
<1> HIDE DEF c
<1> QED BY <1>1, <1>2, FinishStep

LEMMA MakeUdpReplyStep ==
  ASSUME NEW port \in Bytes, NEW data \in Datas, IInv, MakeUdpReply(port, data)
  PROVE  IInv'
<1> DEFINE b == Segment(MyIp, block[1], block[3], port, SegmentHdrLen + Len(data),
                        0, 0, data)
<1>1. Finish("udp", Store(b, 7, Checksum(b, "udp")))
  BY DEF MakeUdpReply
<1>2. block \in Seq(Bytes) /\ Len(block) >= 8
  BY <1>1 DEF IInv, Prepared, Lengths, Finish
<1>3. block[1] \in Bytes /\ block[3] \in Bytes
  BY <1>2
<1>4. SegmentHdrLen + Len(data) \in 0 .. Mod - 1 /\ data \in Seq(Bytes)
  BY DataBounds
<1>5. /\ b \in Seq(Bytes) /\ Len(b) = 8 + Len(data) /\ Len(data) \in Nat
      /\ b[7] = 0 /\ b[8] = 0
  <2>1. MyIp \in Bytes /\ 0 \in Bytes
    BY ByteBounds
  <2>2. IsSegment(b, 0, 0, data)
    BY <1>3, <1>4, <2>1, SegmentIs
  <2> HIDE DEF b
  <2> QED BY <2>2 DEF IsSegment
<1> HIDE DEF b
<1>6. Len(b) >= 8
  BY <1>5
<1> QED BY <1>1, <1>5, <1>6, SegmentStep

(* What make_tcphead leaves: a header whose checksum is cleared.            *)
LEMMA TcpHeadIs ==
  ASSUME NEW number \in Bytes, NEW flags \in Bytes,
         block \in Seq(Bytes), Len(block) >= 8
  PROVE  LET h == MakeTcpHead(number, flags)
         IN  h \in Seq(Bytes) /\ Len(h) >= 8 /\ h[7] = 0 /\ h[8] = 0
<1> DEFINE n == number * Base + flags
           h == Segment(MyIp, block[1], WwwPort, block[3], n, 0, 0, <<>>)
<1>1. block[1] \in Bytes /\ block[3] \in Bytes
  OBVIOUS
<1>2. n \in 0 .. Mod - 1
  BY BytePlaces DEF Bytes
<1> HIDE DEF n
<1>3. <<>> \in Seq(Bytes) /\ Len(<<>>) = 0
  OBVIOUS
<1>4. IsSegment(h, 0, 0, <<>>)
  <2>1. MyIp \in Bytes /\ WwwPort \in Bytes /\ 0 \in Bytes
    BY ByteBounds
  <2> QED BY <1>1, <1>2, <1>3, <2>1, SegmentIs
<1>5. MakeTcpHead(number, flags) = h
  BY DEF MakeTcpHead, n
<1> HIDE DEF h
<1>6. h \in Seq(Bytes) /\ Len(h) = 8 + Len(<<>>) /\ h[7] = 0 /\ h[8] = 0
  BY <1>4, Zenon DEF IsSegment
<1>7. Len(h) >= 8
  BY <1>3, <1>6
<1> QED BY <1>5, <1>6, <1>7, Zenon

(* A header and what follows it. *)
LEMMA Behind ==
  ASSUME NEW h \in Seq(Bytes), Len(h) >= 8, h[7] = 0, h[8] = 0,
         NEW data \in Seq(Bytes)
  PROVE  LET b == h \o data
         IN  b \in Seq(Bytes) /\ Len(b) >= 8 /\ b[7] = 0 /\ b[8] = 0
<1> DEFINE b == h \o data
<1>1. /\ b \in Seq(Bytes) /\ Len(b) = Len(h) + Len(data)
      /\ \A i \in 1 .. Len(h) : b[i] = h[i]
  BY Extended
<1>2. 7 \in 1 .. Len(h) /\ 8 \in 1 .. Len(h) /\ Len(data) \in Nat
  OBVIOUS
<1> HIDE DEF b
<1>3. b \in Seq(Bytes) /\ Len(b) >= 8 /\ b[7] = 0 /\ b[8] = 0
  BY <1>1, <1>2
<1> QED BY <1>3 DEF b

LEMMA MakeSynAckStep ==
  ASSUME NEW number \in Bytes, IInv, MakeSynAck(number)
  PROVE  IInv'
<1> DEFINE h == MakeTcpHead(number, SynAck)
           b == h \o MssOption
<1>1. Finish("tcp", Store(b, 7, Checksum(b, "tcp")))
  BY DEF MakeSynAck, WithTcpChecksum
<1>2. block \in Seq(Bytes) /\ Len(block) >= 8
  BY <1>1 DEF IInv, Prepared, Lengths, Finish
<1>3. h \in Seq(Bytes) /\ Len(h) >= 8 /\ h[7] = 0 /\ h[8] = 0
  BY <1>2, ByteBounds, TcpHeadIs
<1> HIDE DEF h
<1>4. MssOption \in Seq(Bytes)
  BY ChecksumsAssumption
<1>5. b \in Seq(Bytes) /\ Len(b) >= 8 /\ b[7] = 0 /\ b[8] = 0
  BY <1>3, <1>4, Behind
<1> HIDE DEF b
<1> QED BY <1>1, <1>5, SegmentStep

LEMMA MakeTcpAckStep ==
  ASSUME NEW number \in Bytes, IInv, MakeTcpAck(number)
  PROVE  IInv'
<1> DEFINE h == MakeTcpHead(number, Ack)
<1>1. Finish("tcp", Store(h, 7, Checksum(h, "tcp")))
  BY DEF MakeTcpAck, WithTcpChecksum
<1>2. block \in Seq(Bytes) /\ Len(block) >= 8
  BY <1>1 DEF IInv, Prepared, Lengths, Finish
<1>3. h \in Seq(Bytes) /\ Len(h) >= 8 /\ h[7] = 0 /\ h[8] = 0
  BY <1>2, ByteBounds, TcpHeadIs
<1> HIDE DEF h
<1> QED BY <1>1, <1>3, SegmentStep

LEMMA MakeTcpDataStep ==
  ASSUME NEW data \in Datas, IInv, MakeTcpData(data)
  PROVE  IInv'
<1> DEFINE a  == SubSeq(block, 1, 8)
           a1 == [a EXCEPT ![6] = AckPushFin]
           a2 == [a1 EXCEPT ![7] = 0]
           h  == [a2 EXCEPT ![8] = 0]
           b  == h \o data
           c  == Store(b, 7, Checksum(b, "tcp"))
<1>1. stage' = "sent" /\ kind' = "tcp" /\ block' = c /\ kind = "tcp"
  BY DEF MakeTcpData, Rebuild, WithTcpChecksum
<1>2. block \in Seq(Bytes) /\ Len(block) >= 8
  BY <1>1 DEF IInv, Prepared, Lengths
<1>3. PICK n \in Nat : n = Len(a) /\ n >= 8 /\ a \in Seq(Bytes)
  BY <1>2
<1> HIDE DEF a
<1>4. a1 \in Seq(Bytes) /\ Len(a1) = n
  BY <1>3, ByteBounds
<1> HIDE DEF a1
<1>5. a2 \in Seq(Bytes) /\ Len(a2) = n /\ a2[7] = 0
  BY <1>3, <1>4, ByteBounds
<1> HIDE DEF a2
<1>6. h \in Seq(Bytes) /\ Len(h) = n /\ h[7] = 0 /\ h[8] = 0
  BY <1>3, <1>5, ByteBounds
<1> HIDE DEF h
<1>7. data \in Seq(Bytes)
  BY DataBounds
<1>8. b \in Seq(Bytes) /\ Len(b) >= 8 /\ b[7] = 0 /\ b[8] = 0
  BY <1>3, <1>6, <1>7, Behind
<1> HIDE DEF b
<1>9. c \in Seq(Bytes) /\ Verifies(c, TypeOf("tcp")) /\ Lengths("tcp", c)
  BY <1>8, SegmentSummed
<1> HIDE DEF c
<1> QED BY <1>1, <1>9, SentWith

LEMMA MakePongStep == IInv /\ MakePong => IInv'
<1> DEFINE c == [block EXCEPT ![1] = 0, ![3] = CorrectHi(block[3]),
                              ![4] = CorrectLo(block[3], block[4])]
<1> SUFFICES ASSUME IInv, MakePong PROVE IInv'
  OBVIOUS
<1>1. stage = "ready" /\ kind = "pong"
      /\ stage' = "sent" /\ kind' = "pong" /\ block' = c
  BY DEF MakePong, Finish
<1>2. /\ block \in Seq(Bytes) /\ 4 <= Len(block)
      /\ block[1] = EchoType /\ Verifies(block, "ip")
  BY <1>1 DEF IInv, Prepared, Ready
<1>3. c \in Seq(Bytes) /\ (Verifies(c, "ip") \/ (c[4] = 0 /\ c[3] < EchoType))
  BY <1>2, PongIs
<1> HIDE DEF c
<1> QED BY <1>1, <1>3 DEF IInv, Prepared, Lengths, SentVerifies,
                         PongVerifiesUnlessCarry, Verifies

LEMMA SendPingStep == IInv /\ SendPing => IInv'
<1> DEFINE x == ComputeSum(0, block)
           c == Store(block, 3, Complement(x))
<1> SUFFICES ASSUME IInv, SendPing PROVE IInv'
  OBVIOUS
<1>1. Finish("ping", c)
  BY DEF SendPing
<1>2. /\ block \in Seq(Bytes) /\ Len(block) >= 4
      /\ block[3] = 0 /\ block[4] = 0
  BY <1>1 DEF IInv, Prepared, Ready, Finish
<1>3. WordSum(block) \in Nat /\ PseudoSum(block, "ip") = 0
  BY <1>2, WordSumType DEF PseudoSum
<1>4. Residue(x, PseudoSum(block, "ip") + WordSum(block))
  <2>1. Residue(0, 0)
    BY Sizes, ResidueOfWord
  <2> QED BY <1>2, <1>3, <2>1, ComputeSumIsResidue
<1> HIDE DEF x
<1>5. 3 \in {3, 5, 7} /\ 3 + 1 = 4
  OBVIOUS
<1>6. c \in Seq(Bytes) /\ Verifies(c, "ip")
  BY <1>2, <1>3, <1>4, <1>5, ResidueStored
<1> HIDE DEF c
<1> QED BY <1>1, <1>6, FinishStep DEF TypeOf, Lengths

LEMMA SendIpStep == IInv /\ SendIp => IInv'
<1> DEFINE x == ComputeSum(0, block)
           c == Store(block, 5, Complement(x))
<1> SUFFICES ASSUME IInv, SendIp PROVE IInv'
  OBVIOUS
<1>1. Finish("ip_send", c)
  BY DEF SendIp
<1>2. /\ block \in Seq(Bytes) /\ Len(block) = 6
      /\ block[5] = 0 /\ block[6] = 0
  BY <1>1 DEF IInv, Prepared, Lengths, Ready, Finish
<1>3. WordSum(block) \in Nat /\ PseudoSum(block, "ip") = 0
  BY <1>2, WordSumType DEF PseudoSum
<1>4. Residue(x, PseudoSum(block, "ip") + WordSum(block))
  <2>1. Residue(0, 0)
    BY Sizes, ResidueOfWord
  <2> QED BY <1>2, <1>3, <2>1, ComputeSumIsResidue
<1> HIDE DEF x
<1>5. 5 \in {3, 5, 7} /\ 5 + 1 = 6 /\ 5 + 1 <= Len(block)
  BY <1>2
<1>6. c \in Seq(Bytes) /\ Verifies(c, "ip")
  BY <1>2, <1>3, <1>4, <1>5, ResidueStored
<1>7. Len(c) = 6
  BY <1>2, StoredLength
<1> HIDE DEF c
<1> QED BY <1>1, <1>6, <1>7, FinishStep DEF TypeOf, Lengths

LEMMA SendUdpStep == IInv /\ SendUdp => IInv'
<1> DEFINE len    == Len(block) - AddrLen
           pseudo == SubSeq(block, 1, 2)
                       \o <<0, UdpProto, len \div Base, len % Base>>
           udp    == SubSeq(block, 3, Len(block))
           x      == ComputeSum(ComputeSum(0, pseudo), udp)
           c      == Store(block, 7, Complement(x))
<1> SUFFICES ASSUME IInv, SendUdp PROVE IInv'
  OBVIOUS
<1>1. Finish("udp_send", c)
  BY DEF SendUdp
<1>2. /\ block \in Seq(Bytes) /\ Len(block) >= 8 /\ len < Mod
      /\ block[7] = 0 /\ block[8] = 0
  BY <1>1 DEF IInv, Prepared, Lengths, Ready, Finish
<1>3. len \in 0 .. Mod - 1
  BY <1>2, Sizes DEF AddrLen
<1> HIDE DEF len
<1>4. pseudo = <<block[1], block[2], 0, UdpProto, len \div Base, len % Base>>
  <2> DEFINE a == SubSeq(block, 1, 2)
             r == <<0, UdpProto, len \div Base, len % Base>>
             p == <<block[1], block[2], 0, UdpProto, len \div Base, len % Base>>
  <2>1. a \in Seq(Bytes) /\ Len(a) = 2 /\ a[1] = block[1] /\ a[2] = block[2]
    BY <1>2
  <2>2. len \div Base \in Bytes /\ len % Base \in Bytes
    BY <1>3, WordBytes
  <2>3. /\ r \in Seq(Bytes) /\ Len(r) = 4 /\ r[1] = 0 /\ r[2] = UdpProto
        /\ r[3] = len \div Base /\ r[4] = len % Base
    BY <2>2, ByteBounds
  <2>4. pseudo = a \o r
    OBVIOUS
  <2> HIDE DEF a, r
  <2>5. /\ a \o r \in Seq(Bytes) /\ Len(a \o r) = Len(a) + Len(r)
        /\ \A i \in 1 .. Len(a) + Len(r) :
             (a \o r)[i] = IF i <= Len(a) THEN a[i] ELSE r[i - Len(a)]
    BY <2>1, <2>3, ConcatProperties, Zenon
  <2>6. p \in Seq(Bytes) /\ Len(p) = 6
    BY <1>2, <2>2, ByteBounds
  <2>7. /\ pseudo \in Seq(Bytes) /\ Len(pseudo) = 6
        /\ \A i \in 1 .. 6 : pseudo[i] = p[i]
    BY <2>1, <2>3, <2>4, <2>5
  <2> HIDE DEF p, pseudo
  <2>8. pseudo = p
    BY <2>6, <2>7, SeqEqual
  <2> QED BY <2>8, Zenon DEF p
<1>5. block[1] \in Bytes /\ block[2] \in Bytes
  BY <1>2
<1>6. /\ pseudo \in Seq(Bytes)
      /\ WordSum(pseudo) = (block[1] * Base + block[2]) + UdpProto + len
  BY <1>3, <1>4, <1>5, PseudoHeaderSum
<1> HIDE DEF pseudo
<1>7. WordSum(pseudo) \in Nat /\ WordSum(block) \in Nat
  BY <1>2, <1>6, WordSumType
<1>8. udp \in Seq(Bytes) /\ WordSum(block) = Word(block, 1) + WordSum(udp)
  BY <1>2, SumFromThird
<1> HIDE DEF udp
<1>9. Word(block, 1) = block[1] * Base + block[2]
  BY <1>2 DEF Word
<1>10. /\ PseudoSum(block, "udp") = UdpProto + len
       /\ PseudoSum(block, "udp") \in Nat
  BY <1>3, ByteBounds DEF PseudoSum, len, Bytes
<1>11. Residue(ComputeSum(0, pseudo), WordSum(pseudo))
  <2>1. Residue(0, 0)
    BY Sizes, ResidueOfWord
  <2>2. Residue(ComputeSum(0, pseudo), 0 + WordSum(pseudo))
    BY <1>6, <2>1, ComputeSumIsResidue
  <2> QED BY <1>7, <2>2
<1>12. Residue(x, WordSum(pseudo) + WordSum(udp))
  BY <1>7, <1>8, <1>11, ComputeSumIsResidue
<1>13. WordSum(pseudo) + WordSum(udp) = PseudoSum(block, "udp") + WordSum(block)
  <2>1. WordSum(udp) \in Nat
    BY <1>8, WordSumType
  <2>2. PICK w \in Nat : w = block[1] * Base + block[2]
    BY <1>5, BytePlaces
  <2> QED BY <1>3, <1>6, <1>8, <1>9, <1>10, <2>1, <2>2, ByteBounds DEF Bytes
<1> HIDE DEF x
<1>14. Residue(x, PseudoSum(block, "udp") + WordSum(block))
  BY <1>12, <1>13
<1>15. 7 \in {3, 5, 7} /\ 7 + 1 = 8
  OBVIOUS
<1>16. c \in Seq(Bytes) /\ Verifies(c, "udp")
  BY <1>2, <1>10, <1>14, <1>15, ResidueStored
<1>17. Len(c) >= 8
  BY <1>2, StoredLength
<1> HIDE DEF c
<1> QED BY <1>1, <1>16, <1>17, FinishStep DEF TypeOf, Lengths

LEMMA SentStep == IInv /\ Sent => IInv'
BY DEF Sent, IInv, Prepared, Lengths, SentVerifies, PongVerifiesUnlessCarry

LEMMA IInvNext == IInv /\ [Next]_vars => IInv'
<1> SUFFICES ASSUME IInv, [Next]_vars PROVE IInv'
  OBVIOUS
<1>1. CASE Next
  BY <1>1, ReceiveIpStep, ReceiveUdpStep, ReceiveTcpStep, ReceivePingStep,
     PreparePingStep, PrepareUdpStep, PrepareIpStep, MakeIpStep,
     MakeTcpDataIpStep, MakeSynAckStep, MakeTcpAckStep, MakeUdpReplyStep,
     MakeTcpDataStep, MakePongStep, SendPingStep, SendUdpStep, SendIpStep,
     SentStep DEF Next
<1>2. CASE UNCHANGED vars
  BY <1>2 DEF vars, IInv, Prepared, Lengths, Ready, SentVerifies, PongVerifiesUnlessCarry, Verifies
<1> QED BY <1>1, <1>2

LEMMA Invariance == Spec => []IInv
BY InitIInv, IInvNext, PTL DEF Spec
-----------------------------------------------------------------------------
(* Whatever a builder finds in the buffer and whichever routine sums it,   *)
(* every frame but a pong leaves with a checksum that its receiver accepts.*)
THEOREM SentAccepted == Spec => []SentVerifies
<1>1. IInv => SentVerifies
  BY DEF IInv
<1> QED BY <1>1, Invariance, PTL

(* A pong whose checksum was corrected in place is accepted too, except in *)
(* the one case the correction forgets.                                    *)
THEOREM PongAccepted == Spec => []PongVerifiesUnlessCarry
<1>1. IInv => PongVerifiesUnlessCarry
  BY DEF IInv
<1> QED BY <1>1, Invariance, PTL

(* checksum and compute_sum give the same result for every content of the  *)
(* buffer.                                                                 *)
THEOREM SameChecksum == Spec => []RoutinesAgree
<1>1. IInv => RoutinesAgree
  BY SumsAgree DEF IInv, RoutinesAgree
<1> QED BY <1>1, Invariance, PTL
=============================================================================
