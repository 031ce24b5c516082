---------------------------- MODULE RecursionFacts ----------------------------
(***************************************************************************)
(* Functions defined by recursion over 0 .. n, for the proofs about them:  *)
(* they exist, and what holds at 0 and is kept by each step holds for all  *)
(* of 0 .. n. Both rest on one fact about the natural numbers: a set of    *)
(* them that is not empty has a smallest member. And the arithmetic of     *)
(* what is cut into blocks, or counted in digits.                          *)
(***************************************************************************)
EXTENDS Integers, WellFoundedInduction, TLAPS

LEMMA Smallest == ASSUME NEW T, T \subseteq Nat, T # {}
                  PROVE \E x \in T : \A y \in T : x <= y
<1> DEFINE R == OpToRel(<, Nat)
<1>1. IsWellFoundedOn(R, Nat)
  BY NatLessThanWellFounded
<1>2. PICK x \in T : \A y \in T : ~ (<<y, x>> \in R)
  <2> HIDE DEF R
  <2> QED BY <1>1, WFMin
<1>3. ASSUME NEW y \in T PROVE x <= y
  <2>1. <<y, x>> \notin R
    BY <1>2
  <2>2. y \in Nat /\ x \in Nat
    OBVIOUS
  <2>3. ~(y < x)
    BY <2>1, <2>2 DEF OpToRel
  <2> QED BY <2>2, <2>3
<1> QED BY <1>3

LEMMA Induct == ASSUME NEW S, S \subseteq Nat, 0 \in S, \A n \in Nat : n \in S => n + 1 \in S
                PROVE Nat \subseteq S
<1> SUFFICES ASSUME Nat \ S # {} PROVE FALSE
  OBVIOUS
<1>1. PICK x \in Nat \ S : \A y \in Nat \ S : x <= y
  BY Smallest
<1>2. x # 0 /\ x - 1 \in Nat
  BY <1>1
<1>3. x - 1 \in S
  BY <1>1, <1>2
<1> QED BY <1>1, <1>2, <1>3

\* What n steps of a computation give, one after the other; it exists.
Computes(D, n, a, F, g) ==
    g \in [0 .. n -> D] /\ g[0] = a /\ \A i \in 1 .. n : g[i] = F[i][g[i - 1]]

LEMMA Recursion ==
    ASSUME NEW D, NEW n \in Nat, NEW a \in D, NEW F, \A i \in 1 .. n : F[i] \in [D -> D]
    PROVE  \E g : Computes(D, n, a, F, g)
  <1> DEFINE Good(k, g) == g \in [0 .. k -> D] /\ g[0] = a
                           /\ \A i \in 1 .. k : g[i] = F[i][g[i - 1]]
             S == {k \in Nat : k <= n => \E g : Good(k, g)}
  <1>1. 0 \in S
    <2>1. Good(0, [i \in 0 .. 0 |-> a])
      OBVIOUS
    <2> QED BY <2>1
  <1>2. ASSUME NEW k \in Nat, k \in S PROVE k + 1 \in S
    <2> SUFFICES ASSUME k + 1 <= n PROVE \E g : Good(k + 1, g)
      OBVIOUS
    <2>1. PICK g : Good(k, g)
      BY <1>2
    <2> DEFINE h == [i \in 0 .. k + 1 |-> IF i <= k THEN g[i] ELSE F[k + 1][g[k]]]
    <2>2. F[k + 1][g[k]] \in D
      BY <2>1
    <2>3. h \in [0 .. k + 1 -> D]
      BY <2>1, <2>2
    <2>4. ASSUME NEW i \in 1 .. k + 1 PROVE h[i] = F[i][h[i - 1]]
      <3>1. i - 1 \in 0 .. k /\ h[i - 1] = g[i - 1]
        OBVIOUS
      <3>2. CASE i <= k
        BY <2>1, <3>1, <3>2
      <3>3. CASE i = k + 1
        BY <3>1, <3>3
      <3> QED BY <3>2, <3>3
    <2>5. h[0] = a
      BY <2>1
    <2> QED BY <2>3, <2>4, <2>5
  <1> HIDE DEF S
  <1>3. n \in S
    BY <1>1, <1>2, Induct DEF S
  <1> QED BY <1>3 DEF S, Computes

\* What holds at the beginning and is kept by each step holds all the way.
LEMMA AllTheWay ==
    ASSUME NEW n \in Nat, NEW S \in SUBSET (0 .. n), 0 \in S,
           \A i \in 1 .. n : i - 1 \in S => i \in S
    PROVE  S = 0 .. n
  <1> DEFINE T == {k \in Nat : k <= n => k \in S}
  <1>1. T \subseteq Nat /\ 0 \in T
    OBVIOUS
  <1>2. ASSUME NEW k \in Nat, k \in T PROVE k + 1 \in T
    <2> SUFFICES ASSUME k + 1 <= n PROVE k + 1 \in S
      OBVIOUS
    <2>1. k \in S /\ k + 1 \in 1 .. n /\ (k + 1) - 1 = k
      BY <1>2
    <2> QED BY <2>1
  <1>3. Nat \subseteq T
    <2> HIDE DEF T
    <2> QED BY <1>1, <1>2, Induct
  <1>4. \A k \in 0 .. n : k \in S
    <2>1. \A k \in 0 .. n : k \in Nat /\ k <= n
      OBVIOUS
    <2> QED BY <1>3, <2>1
  <1> QED BY <1>4

-------------------------------------------------------------------------------
(* Quotients, remainders and the values of digits *)

\* One more, and a multiple is at least a whole divisor greater.
LEMMA MulStep == ASSUME NEW a \in Nat, NEW b \in Nat, NEW d \in Nat, a < b PROVE a * d + d <= b * d
  <1>1. PICK c \in Nat : b = a + 1 + c
    <2>1. b - a - 1 \in Nat /\ b = a + 1 + (b - a - 1)
      OBVIOUS
    <2> QED BY <2>1
  <1>2. (a + 1 + c) * d = a * d + d + c * d
    OBVIOUS
  <1>3. c * d \in Nat /\ a * d \in Nat
    OBVIOUS
  <1> QED BY <1>1, <1>2, <1>3

\* Quotient and remainder.
LEMMA DivFacts == ASSUME NEW n \in Nat, NEW d \in Nat \ {0}
    PROVE n = (n \div d) * d + (n % d) /\ n % d \in 0 .. d - 1 /\ n \div d \in Nat
  <1>1. n % d \in 0 .. d - 1
    OBVIOUS
  <1>2. n \div d \in Nat
    OBVIOUS
  <1>3. n = (n \div d) * d + (n % d)
    OBVIOUS
  <1> QED BY <1>1, <1>2, <1>3

\* There is only one quotient and one remainder.
LEMMA DivUnique == ASSUME NEW q \in Nat, NEW d \in Nat \ {0}, NEW r \in 0 .. d - 1
    PROVE (q * d + r) \div d = q /\ (q * d + r) % d = r
  <1> DEFINE n == q * d + r
             p == n \div d
             s == n % d
  <1>1. n \in Nat
    OBVIOUS
  <1>2. n = p * d + s /\ s \in 0 .. d - 1 /\ p \in Nat
    <2> HIDE DEF n
    <2> QED BY <1>1, DivFacts
  <1> HIDE DEF p, s
  <1>3. q * d \in Nat /\ p * d \in Nat
    BY <1>2
  <1>4. ~(q < p) /\ ~(p < q)
    <2>1. q < p => q * d + d <= p * d
      BY <1>2, MulStep
    <2>2. p < q => p * d + d <= q * d
      BY <1>2, MulStep
    <2> DEFINE a == q * d
               b == p * d
    <2>3. a \in Nat /\ b \in Nat /\ a + r = b + s /\ (q < p => a + d <= b) /\ (p < q => b + d <= a)
      BY <1>2, <1>3, <2>1, <2>2
    <2> HIDE DEF a, b
    <2> QED BY <1>2, <2>3
  <1>5. p = q
    BY <1>2, <1>4
  <1>6. s = r
    <2> DEFINE a == q * d
    <2>1. a \in Nat /\ a + r = a + s
      BY <1>2, <1>3, <1>5
    <2> HIDE DEF a
    <2> QED BY <1>2, <2>1
  <1> QED BY <1>5, <1>6 DEF p, s

\* As many blocks, as many bytes.
LEMMA SameQuotient == ASSUME NEW n \in Nat, NEW q \in Nat, NEW d \in Nat \ {0}, n * d = q * d PROVE n = q
  <1>1. (n * d + 0) \div d = n /\ (q * d + 0) \div d = q
    BY DivUnique
  <1>2. n * d + 0 = q * d + 0
    OBVIOUS
  <1> QED BY <1>1, <1>2

\* The remainder of a small number.
LEMMA ModSmall == ASSUME NEW a \in Nat, NEW d \in Nat \ {0}, a < d PROVE a % d = a
  <1>1. (0 * d + a) % d = a
    <2>1. a \in 0 .. d - 1
      OBVIOUS
    <2> QED BY <2>1, DivUnique
  <1>2. 0 * d + a = a
    OBVIOUS
  <1> QED BY <1>1, <1>2

\* The remainder of the divisor.
LEMMA ModFull == ASSUME NEW d \in Nat \ {0} PROVE d % d = 0
  <1>1. (1 * d + 0) % d = 0
    BY DivUnique
  <1>2. 1 * d + 0 = d
    OBVIOUS
  <1> QED BY <1>1, <1>2

\* One more than a remainder.
LEMMA ModNext == ASSUME NEW a \in Nat, NEW p \in Nat \ {0}, NEW r, r = a % p
    PROVE  /\ r + 1 < p => (a + 1) % p = r + 1
           /\ r + 1 = p => (a + 1) % p = 0
  <1> DEFINE q == a \div p
  <1>1. a = q * p + r /\ r \in 0 .. p - 1 /\ q \in Nat
    BY DivFacts
  <1> HIDE DEF q
  <1>2. q * p \in Nat /\ (q + 1) * p = q * p + p
    BY <1>1
  <1>3. ASSUME r + 1 < p PROVE (a + 1) % p = r + 1
    <2>1. r + 1 \in 0 .. p - 1
      BY <1>1, <1>3
    <2>2. (q * p + (r + 1)) % p = r + 1
      BY <1>1, <2>1, DivUnique
    <2> DEFINE x == q * p
    <2>3. x \in Nat /\ a = x + r /\ (x + (r + 1)) % p = r + 1
      BY <1>1, <1>2, <2>2
    <2> HIDE DEF x
    <2>4. a + 1 = x + (r + 1)
      BY <1>1, <2>3
    <2> QED BY <2>3, <2>4
  <1>4. ASSUME r + 1 = p PROVE (a + 1) % p = 0
    <2>1. ((q + 1) * p + 0) % p = 0
      <3>1. q + 1 \in Nat /\ 0 \in 0 .. p - 1
        BY <1>1
      <3> QED BY <3>1, DivUnique
    <2> DEFINE x == (q + 1) * p
               y == q * p
    <2>2. x = y + p /\ y \in Nat /\ a = y + r /\ (x + 0) % p = 0
      BY <1>1, <1>2, <2>1
    <2> HIDE DEF x, y
    <2>3. a + 1 = x + 0
      BY <1>1, <1>4, <2>2
    <2> QED BY <2>2, <2>3
  <1> QED BY <1>3, <1>4

\* Multiplying by d and adding, n times.
MultiplyAdd(n, a, d, c, g) ==
    g \in [0 .. n -> Nat] /\ g[0] = a /\ \A k \in 1 .. n : g[k] = d * g[k - 1] + c[k]

\* Such a function exists.
LEMMA Horner ==
    ASSUME NEW n \in Nat, NEW a \in Nat, NEW d \in Nat, NEW c \in [1 .. n -> Nat]
    PROVE  \E g : MultiplyAdd(n, a, d, c, g)
  <1> DEFINE F == [k \in 1 .. n |-> [v \in Nat |-> d * v + c[k]]]
  <1>1. \A k \in 1 .. n : F[k] \in [Nat -> Nat] /\ \A v \in Nat : F[k][v] = d * v + c[k]
    OBVIOUS
  <1>2. \A k \in 1 .. n : F[k] \in [Nat -> Nat]
    BY <1>1, Zenon
  <1> HIDE DEF F
  <1>3. PICK g : Computes(Nat, n, a, F, g)
    BY <1>2, Recursion, Zenon
  <1>4. g \in [0 .. n -> Nat] /\ g[0] = a /\ \A k \in 1 .. n : g[k] = F[k][g[k - 1]]
    BY <1>3 DEF Computes
  <1>5. \A k \in 1 .. n : k - 1 \in 0 .. n /\ g[k - 1] \in Nat
    BY <1>4
  <1>6. \A k \in 1 .. n : g[k] = d * g[k - 1] + c[k]
    BY <1>1, <1>4, <1>5
  <1> QED BY <1>4, <1>6 DEF MultiplyAdd

===============================================================================
