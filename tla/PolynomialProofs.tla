-------------------------- MODULE PolynomialProofs --------------------------
(***************************************************************************)
(* The algebra of the prime field that secret sharing rests on             *)
(* (utils/polynomial.go), for every prime, every degree and every set of   *)
(* points. In order: arithmetic modulo Prime, induction and recursion on   *)
(* intervals, Horner's rule, inverses, division by x - c, symmetric        *)
(* bivariate polynomials, folds over finite sets, and Lagrange             *)
(* interpolation at zero.  Facts about all degrees or all sets are proved  *)
(* by SetInduction and FiniteSetInduction, which take a set where an       *)
(* induction rule would take a predicate.                                  *)
(***************************************************************************)
EXTENDS Polynomial, FiniteSetTheorems, TLAPS

\* The size of the field is a number larger than 1.
LEMMA PrimeFacts == Prime \in Int /\ Prime \in Nat /\ Prime > 1 /\ 0 \in Field /\ Field \subseteq Int
  BY PrimeAssumption DEF Field

\* Two multiples of p that are less than p apart are the same.
LEMMA SameMultiple ==
    ASSUME NEW p \in Int, p > 1, NEW q \in Int, NEW k \in Int, NEW r \in Int, NEW m \in Int,
           q * p + r = k * p + m, 0 <= r, r < p, 0 <= m, m < p
    PROVE  r = m
  <1>1. ASSUME NEW d \in Int, q = k + d PROVE q * p = k * p + d * p
    BY <1>1
  <1> DEFINE d == q - k
  <1>2. d \in Int /\ q = k + d
    OBVIOUS
  <1> HIDE DEF d
  <1>3. d * p = m - r
    <2>1. q * p = k * p + d * p
      BY <1>1, <1>2, Zenon
    <2>2. q * p \in Int /\ k * p \in Int /\ d * p \in Int
      BY <1>2
    <2> QED
      BY <2>1, <2>2
  <1>4. ~(d >= 1)
    BY <1>2, <1>3
  <1>5. ~(d <= -1)
    BY <1>2, <1>3
  <1>6. d = 0
    BY <1>2, <1>4, <1>5
  <1> QED
    BY <1>3, <1>6

\* Division with remainder by the prime.
LEMMA ModFacts ==
    ASSUME NEW a \in Int
    PROVE  /\ a % Prime \in Field
           /\ a % Prime \in Int
           /\ \E q \in Int : a = q * Prime + (a % Prime)
  <1> Prime \in Nat /\ Prime > 1
    BY PrimeFacts, Zenon
  <1>1. a % Prime \in 0..(Prime - 1) /\ a % Prime \in Int
    OBVIOUS
  <1>2. a = (a \div Prime) * Prime + (a % Prime) /\ a \div Prime \in Int
    OBVIOUS
  <1> QED
    BY <1>1, <1>2, Zenon DEF Field

\* The remainder is determined by its range.
LEMMA ModUnique ==
    ASSUME NEW a \in Int, NEW q \in Int, NEW r \in Field, a = q * Prime + r
    PROVE  a % Prime = r
  <1> DEFINE m == a % Prime
  <1> Prime \in Int /\ Prime > 1 /\ r \in Int /\ 0 <= r /\ r < Prime
    BY PrimeFacts DEF Field
  <1>1. PICK k \in Int : a = k * Prime + m
    BY ModFacts, Zenon
  <1>2. m \in Int /\ 0 <= m /\ m < Prime
    BY ModFacts DEF Field
  <1> HIDE DEF m
  <1>3. r = m
    BY <1>1, <1>2, SameMultiple, Zenon
  <1> QED
    BY <1>3, Zenon DEF m

\* An element of the field is its own remainder.
LEMMA ModSmall ==
    ASSUME NEW a \in Field
    PROVE  a % Prime = a
  <1>1. a \in Int /\ a = 0 * Prime + a
    BY PrimeFacts
  <1> QED
    BY <1>1, ModUnique

\* Numbers a multiple of the prime apart have the same remainder.
LEMMA ModShift ==
    ASSUME NEW a \in Int, NEW b \in Int, NEW d \in Int, a = b + d * Prime
    PROVE  a % Prime = b % Prime
  <1> DEFINE m == b % Prime
  <1>1. PICK k \in Int : b = k * Prime + m
    BY ModFacts, Zenon
  <1> m \in Field /\ m \in Int /\ Prime \in Int
    BY ModFacts, PrimeFacts, Zenon
  <1> HIDE DEF m
  <1> DEFINE q == k + d
  <1>2. q \in Int /\ a = q * Prime + m
    BY <1>1
  <1> HIDE DEF q
  <1>3. a % Prime = m
    BY <1>2, ModUnique, Zenon
  <1> QED
    BY <1>3, Zenon DEF m

\* a and b are the same element of the field.
Cong(a, b) == a % Prime = b % Prime

\* Congruent numbers are a multiple of the prime apart.
LEMMA CongMultiple ==
    ASSUME NEW a \in Int, NEW b \in Int
    PROVE  Cong(a, b) <=> \E d \in Int : a = b + d * Prime
  <1>1. ASSUME Cong(a, b) PROVE \E d \in Int : a = b + d * Prime
    <2> DEFINE m == a % Prime
    <2>1. m \in Int /\ m = b % Prime /\ Prime \in Int
      BY <1>1, ModFacts, PrimeFacts, Zenon DEF Cong
    <2>2. PICK k \in Int : a = k * Prime + m
      BY ModFacts, Zenon
    <2>3. PICK q \in Int : b = q * Prime + m
      BY <2>1, ModFacts, Zenon
    <2> HIDE DEF m
    <2>4. a = b + (k - q) * Prime
      BY <2>1, <2>2, <2>3
    <2> QED
      BY <2>4
  <1>2. ASSUME NEW d \in Int, a = b + d * Prime PROVE Cong(a, b)
    BY <1>2, ModShift, Zenon DEF Cong
  <1> QED
    BY <1>1, <1>2, Zenon

\* Taking the remainder does not leave the class.
LEMMA CongMod ==
    ASSUME NEW a \in Int
    PROVE  Cong(a % Prime, a) /\ a % Prime \in Int /\ a % Prime \in Field
  BY ModFacts, ModSmall, Zenon DEF Cong

\* Sums, differences and products of congruent numbers are congruent.
LEMMA CongArith ==
    ASSUME NEW a \in Int, NEW b \in Int, NEW c \in Int, NEW d \in Int,
           Cong(a, b), Cong(c, d)
    PROVE  Cong(a + c, b + d) /\ Cong(a - c, b - d) /\ Cong(a * c, b * d)
  <1>1. PICK k \in Int : a = b + k * Prime
    BY CongMultiple, Zenon
  <1>2. PICK m \in Int : c = d + m * Prime
    BY CongMultiple, Zenon
  <1> Prime \in Int
    BY PrimeFacts, Zenon
  <1>3. /\ a + c = (b + d) + (k + m) * Prime
        /\ a - c = (b - d) + (k - m) * Prime
        /\ a * c = (b * d) + (k * d + b * m + k * m * Prime) * Prime
    BY <1>1, <1>2
  <1>4. /\ a + c \in Int /\ b + d \in Int /\ k + m \in Int
        /\ a - c \in Int /\ b - d \in Int /\ k - m \in Int
        /\ a * c \in Int /\ b * d \in Int /\ k * d + b * m + k * m * Prime \in Int
    OBVIOUS
  <1> QED
    BY <1>3, <1>4, CongMultiple, Zenon

\* An operand may be reduced before an operation or after it.
LEMMA ModOperand ==
    ASSUME NEW a \in Int, NEW b \in Int
    PROVE  /\ (a * (b % Prime)) % Prime = (a * b) % Prime
           /\ ((b % Prime) * a) % Prime = (b * a) % Prime
           /\ (a + (b % Prime)) % Prime = (a + b) % Prime
           /\ ((b % Prime) + a) % Prime = (b + a) % Prime
           /\ (a - (b % Prime)) % Prime = (a - b) % Prime
  <1> DEFINE m == b % Prime
  <1>1. m \in Int /\ Cong(m, b) /\ Cong(a, a)
    BY CongMod, Zenon DEF Cong
  <1> HIDE DEF m
  <1>2. /\ Cong(a * m, a * b) /\ Cong(m * a, b * a) /\ Cong(a + m, a + b)
        /\ Cong(m + a, b + a) /\ Cong(a - m, a - b)
    BY <1>1, CongArith, Zenon
  <1> QED
    BY <1>2, Zenon DEF Cong, m

-----------------------------------------------------------------------------

(***************************************************************************)
(* Induction and recursion on intervals.                                   *)
(***************************************************************************)

\* A nonempty set of natural numbers has a least element.
LEMMA LeastNatural ==
    ASSUME NEW S, S \subseteq Nat, S # {}
    PROVE  \E m \in S : \A k \in S : m <= k
  <1> DEFINE R == OpToRel(<, Nat)
  <1>1. IsWellFoundedOn(R, Nat)
    BY NatLessThanWellFounded, Zenon
  <1>2. \A m, k \in Nat : k < m => <<k, m>> \in R
    BY Zenon DEF OpToRel
  <1> HIDE DEF R
  <1>3. PICK m \in S : \A k \in S : ~(<<k, m>> \in R)
    BY <1>1, WFMin, Zenon
  <1>4. ASSUME NEW k \in S PROVE m <= k
    <2>1. ~(k < m)
      BY <1>2, <1>3, Zenon
    <2>2. k \in Nat /\ m \in Nat
      BY Zenon
    <2> QED
      BY <2>1, <2>2
  <1> QED
    BY <1>4, Zenon

\* Induction, with the numbers that have the property as a set.
LEMMA SetInduction ==
    ASSUME NEW S, 0 \in S, \A n \in Nat : n \in S => n + 1 \in S
    PROVE  Nat \subseteq S
  <1> DEFINE C == Nat \ S
  <1> SUFFICES ASSUME C # {} PROVE FALSE
    BY Zenon
  <1>1. PICK m \in C : \A k \in C : m <= k
    <2>1. C \subseteq Nat
      BY Zenon
    <2> HIDE DEF C
    <2> QED
      BY <2>1, LeastNatural, Zenon
  <1>2. m \in Nat /\ m # 0
    BY Zenon
  <1> m - 1 \in Nat
    BY <1>2
  <1>3. m - 1 \in S
    BY <1>1
  <1>4. (m - 1) + 1 = m
    BY <1>2
  <1> QED
    BY <1>3, <1>4, Zenon

\* h is defined by recursion on 0..n; the step from k - 1 to k is a table.
Steps(n, V) == [1..n -> [V -> V]]
Recursion(n, V, b, step, h) ==
    h \in [0..n -> V] /\ h[0] = b /\ \A k \in 1..n : h[k] = step[k][h[k - 1]]

\* Such a function exists.
LEMMA RecursionOnInterval ==
    ASSUME NEW n \in Nat, NEW V, NEW b \in V, NEW step \in Steps(n, V)
    PROVE  \E h : Recursion(n, V, b, step, h)
  <1> USE DEF Steps
  <1> DEFINE Upto(m, h) == h \in [0..m -> V] /\ h[0] = b /\ \A k \in 1..m : h[k] = step[k][h[k - 1]]
             S == {m \in Nat : m <= n => \E h : Upto(m, h)}
  <1>1. 0 \in S
    <2>1. Upto(0, [k \in 0..0 |-> b])
      OBVIOUS
    <2> QED
      BY <2>1, Zenon
  <1>2. ASSUME NEW m \in Nat, m \in S PROVE m + 1 \in S
    <2> SUFFICES ASSUME m + 1 <= n PROVE \E h : Upto(m + 1, h)
      OBVIOUS
    <2>1. PICK g : Upto(m, g)
      BY <1>2
    <2> DEFINE h == [k \in 0..(m + 1) |-> IF k <= m THEN g[k] ELSE step[m + 1][g[m]]]
    <2>2. step[m + 1][g[m]] \in V
      BY <2>1
    <2>3. h \in [0..(m + 1) -> V] /\ h[0] = b
      BY <2>1, <2>2
    <2>4. ASSUME NEW k \in 1..(m + 1) PROVE h[k] = step[k][h[k - 1]]
      <3>1. CASE k <= m
        BY <2>1, <3>1
      <3>2. CASE k = m + 1
        BY <2>1, <3>2
      <3> QED
        BY <3>1, <3>2
    <2> QED
      BY <2>3, <2>4, Zenon
  <1>3. n \in S
    <2> HIDE DEF S
    <2> QED
      BY <1>1, <1>2, SetInduction, Zenon
  <1> QED
    BY <1>3 DEF Recursion

-----------------------------------------------------------------------------

(***************************************************************************)
(* Horner's rule.                                                          *)
(***************************************************************************)

\* h holds the values that Horner's rule goes through.
Horner(n, p, x, h) ==
    /\ h \in [0..n -> Field]
    /\ h[0] = 0
    /\ \A k \in 1..n : h[k] = (h[k - 1] * x + p[n - k + 1]) % Prime

\* A function on 1..n is a sequence of length n.
LEMMA LenOfFunction ==
    ASSUME NEW n \in Nat, NEW S, NEW p \in [1..n -> S]
    PROVE  Len(p) = n /\ p \in Seq(S)
  OBVIOUS

\* Evaluate ends with the last value of Horner's rule.
LEMMA EvaluateIsHorner ==
    ASSUME NEW n \in Nat, NEW p \in [1..n -> Int], NEW x \in Int
    PROVE  \E h : Horner(n, p, x, h) /\ Evaluate(p, x) = h[n]
  <1> DEFINE R(g) == [k \in 0..n |-> IF k = 0 THEN 0 ELSE (g[k - 1] * x + p[n - k + 1]) % Prime]
             G == CHOOSE g : g = R(g)
             step == [k \in 1..n |-> [v \in Field |-> (v * x + p[n - k + 1]) % Prime]]
  <1>1. Len(p) = n
    BY LenOfFunction, Zenon
  <1>2. Evaluate(p, x) = G[n]
    BY <1>1, Zenon DEF Evaluate
  <1>3. ASSUME NEW k \in 1..n, NEW v \in Field PROVE (v * x + p[n - k + 1]) % Prime \in Field
    <2>1. p[n - k + 1] \in Int /\ v \in Int
      BY PrimeFacts
    <2>2. v * x + p[n - k + 1] \in Int
      BY <2>1
    <2> QED
      BY <2>2, ModFacts, Zenon
  <1>4. step \in Steps(n, Field)
    BY <1>3, Zenon DEF Steps
  <1>5. PICK h : Recursion(n, Field, 0, step, h)
    <2>1. 0 \in Field
      BY PrimeFacts, Zenon
    <2> HIDE DEF step
    <2> QED
      BY <1>4, <2>1, RecursionOnInterval, Zenon
  <1>6. Horner(n, p, x, h)
    <2>1. ASSUME NEW k \in 1..n PROVE h[k] = (h[k - 1] * x + p[n - k + 1]) % Prime
      <3>1. h[k - 1] \in Field
        BY <1>5 DEF Recursion
      <3> QED
        BY <1>5, <3>1, Zenon DEF Recursion
    <2> QED
      BY <1>5, <2>1, Zenon DEF Horner, Recursion
  <1>7. h = R(h)
    <2>1. ASSUME NEW k \in 0..n
          PROVE  h[k] = IF k = 0 THEN 0 ELSE (h[k - 1] * x + p[n - k + 1]) % Prime
      <3>1. CASE k = 0
        BY <1>6, <3>1, Zenon DEF Horner
      <3>2. CASE k # 0
        <4>1. k \in 1..n
          BY <3>2
        <4> QED
          BY <1>6, <3>2, <4>1, Zenon DEF Horner
      <3> QED
        BY <3>1, <3>2, Zenon
    <2>2. h \in [0..n -> Field]
      BY <1>6, Zenon DEF Horner
    <2> QED
      BY <2>1, <2>2, Zenon
  <1>8. G = R(G)
    <2> HIDE DEF R
    <2> QED
      BY <1>7, Zenon
  <1>9. G[n] = h[n]
    <2> DEFINE S == {m \in Nat : m <= n => G[m] = h[m]}
    <2>1. 0 \in S
      <3>1. G[0] = R(G)[0] /\ h[0] = R(h)[0]
        BY <1>7, <1>8, Zenon
      <3> HIDE DEF G
      <3> QED
        BY <3>1
    <2>2. ASSUME NEW m \in Nat, m \in S PROVE m + 1 \in S
      <3> HIDE DEF G
      <3> SUFFICES ASSUME m + 1 <= n PROVE G[m + 1] = h[m + 1]
        OBVIOUS
      <3>1. G[m + 1] = R(G)[m + 1] /\ h[m + 1] = R(h)[m + 1]
        BY <1>7, <1>8, Zenon
      <3>2. G[m] = h[m]
        BY <2>2
      <3> QED
        BY <3>1, <3>2, SMTT(30)
    <2>3. Nat \subseteq S
      <3> HIDE DEF S
      <3> QED
        BY <2>1, <2>2, SetInduction, Zenon
    <2> HIDE DEF G
    <2> QED
      BY <2>3
  <1> QED
    BY <1>2, <1>6, <1>9, Zenon

\* Horner's rule has one outcome.
LEMMA HornerIsEvaluate ==
    ASSUME NEW n \in Nat, NEW p \in [1..n -> Int], NEW x \in Int, NEW h, Horner(n, p, x, h)
    PROVE  Evaluate(p, x) = h[n]
  <1>1. PICK g : Horner(n, p, x, g) /\ Evaluate(p, x) = g[n]
    BY EvaluateIsHorner, Zenon
  <1> DEFINE S == {m \in Nat : m <= n => g[m] = h[m]}
  <1>2. 0 \in S
    BY <1>1, Zenon DEF Horner
  <1>3. ASSUME NEW m \in Nat, m \in S PROVE m + 1 \in S
    <2> SUFFICES ASSUME m + 1 <= n PROVE g[m + 1] = h[m + 1]
      OBVIOUS
    <2>1. g[m] = h[m] /\ m + 1 \in 1..n /\ (m + 1) - 1 = m
      BY <1>3
    <2>2. /\ g[m + 1] = (g[(m + 1) - 1] * x + p[n - (m + 1) + 1]) % Prime
          /\ h[m + 1] = (h[(m + 1) - 1] * x + p[n - (m + 1) + 1]) % Prime
      BY <1>1, <2>1, Zenon DEF Horner
    <2> QED
      BY <2>1, <2>2, Zenon
  <1>4. Nat \subseteq S
    <2> HIDE DEF S
    <2> QED
      BY <1>2, <1>3, SetInduction, Zenon
  <1> QED
    BY <1>1, <1>4

\* Evaluate returns an element of the field.
LEMMA EvaluateType ==
    ASSUME NEW n \in Nat, NEW p \in [1..n -> Int], NEW x \in Int
    PROVE  Evaluate(p, x) \in Field /\ Evaluate(p, x) \in Int
  <1>1. PICK h : Horner(n, p, x, h) /\ Evaluate(p, x) = h[n]
    BY EvaluateIsHorner, Zenon
  <1>2. h[n] \in Field
    BY <1>1 DEF Horner
  <1> QED
    BY <1>1, <1>2, PrimeFacts, Zenon

\* Two steps of Horner's rule, in x and in y, in either order.
LEMMA HornerExchange ==
    ASSUME NEW w \in Int, NEW r \in Int, NEW u \in Int, NEW f \in Int, NEW k \in Int, NEW m \in Int
    PROVE  (((w * k + r) % Prime) * m + ((u * k + f) % Prime)) % Prime
             = (((w * m + u) % Prime) * k + ((r * m + f) % Prime)) % Prime
  <1> DEFINE a == w * k + r
             b == u * k + f
             c == w * m + u
             d == r * m + f
  <1>1. a \in Int /\ b \in Int /\ c \in Int /\ d \in Int /\ a * m + b = c * k + d
    OBVIOUS
  <1> HIDE DEF a, b, c, d
  <1>2. Cong((a % Prime) * m + (b % Prime), a * m + b)
    <2>1. Cong((a % Prime) * m, a * m)
      BY <1>1, CongMod, CongArith DEF Cong
    <2>2. (a % Prime) * m \in Int /\ a * m \in Int
      BY <1>1, CongMod
    <2> QED
      BY <1>1, <2>1, <2>2, CongMod, CongArith, Zenon
  <1>3. Cong((c % Prime) * k + (d % Prime), c * k + d)
    <2>1. Cong((c % Prime) * k, c * k)
      BY <1>1, CongMod, CongArith DEF Cong
    <2>2. (c % Prime) * k \in Int /\ c * k \in Int
      BY <1>1, CongMod
    <2> QED
      BY <1>1, <2>1, <2>2, CongMod, CongArith, Zenon
  <1> QED
    BY <1>1, <1>2, <1>3, Zenon DEF Cong, a, b, c, d

\* A polynomial in two variables, the sum of c[i][j] x^(i-1) y^(j-1), can be
\* evaluated in either variable first.
LEMMA EvaluateCommutes ==
    ASSUME NEW n \in Nat, NEW c \in [1..n -> [1..n -> Int]], NEW k \in Int, NEW m \in Int
    PROVE  Evaluate([j \in 1..n |-> Evaluate([i \in 1..n |-> c[i][j]], k)], m)
             = Evaluate([i \in 1..n |-> Evaluate(c[i], m)], k)
  <1> DEFINE col(j) == [i \in 1..n |-> c[i][j]]
             U == [j \in 1..n |-> CHOOSE h : Horner(n, col(j), k, h) /\ Evaluate(col(j), k) = h[n]]
             R == [i \in 1..n |-> CHOOSE h : Horner(n, c[i], m, h) /\ Evaluate(c[i], m) = h[n]]
             slice(a) == [j \in 1..n |-> U[j][a]]
             W == [a \in 0..n |-> CHOOSE h : Horner(n, slice(a), m, h) /\ Evaluate(slice(a), m) = h[n]]
  <1>1. ASSUME NEW j \in 1..n PROVE Horner(n, col(j), k, U[j]) /\ Evaluate(col(j), k) = U[j][n]
    <2>1. col(j) \in [1..n -> Int]
      BY Zenon
    <2> HIDE DEF col
    <2> QED
      BY <2>1, EvaluateIsHorner, Zenon
  <1>2. ASSUME NEW i \in 1..n PROVE Horner(n, c[i], m, R[i]) /\ Evaluate(c[i], m) = R[i][n]
    <2>1. c[i] \in [1..n -> Int]
      BY Zenon
    <2> QED
      BY <2>1, EvaluateIsHorner, Zenon
  <1>3. ASSUME NEW a \in 0..n
        PROVE  /\ slice(a) \in [1..n -> Int] /\ \A j \in 1..n : U[j][a] \in Int
               /\ Horner(n, slice(a), m, W[a]) /\ Evaluate(slice(a), m) = W[a][n]
    <2> HIDE DEF U
    <2>1. ASSUME NEW j \in 1..n PROVE U[j][a] \in Int
      BY <1>1, PrimeFacts, Zenon DEF Horner
    <2>2. slice(a) \in [1..n -> Int]
      BY <2>1, Zenon
    <2> HIDE DEF slice
    <2> QED
      BY <2>1, <2>2, EvaluateIsHorner, Zenon
  <1> HIDE DEF U, R, W
  <1>4. ASSUME NEW b \in 1..n, NEW a \in 0..n
        PROVE  W[a][b] = (W[a][b - 1] * m + U[n - b + 1][a]) % Prime
    <2>1. n - b + 1 \in 1..n
      OBVIOUS
    <2>2. slice(a)[n - b + 1] = U[n - b + 1][a]
      BY <2>1, Zenon
    <2> HIDE DEF slice
    <2>3. W[a][b] = (W[a][b - 1] * m + slice(a)[n - b + 1]) % Prime
      BY <1>3, Zenon DEF Horner
    <2> QED
      BY <2>2, <2>3, Zenon
  <1>5. ASSUME NEW a \in 1..n, NEW b \in 1..n
        PROVE  /\ U[n - b + 1][a] = (U[n - b + 1][a - 1] * k + c[n - a + 1][n - b + 1]) % Prime
               /\ R[n - a + 1][b] = (R[n - a + 1][b - 1] * m + c[n - a + 1][n - b + 1]) % Prime
    <2>1. n - b + 1 \in 1..n /\ n - a + 1 \in 1..n
      OBVIOUS
    <2> QED
      BY <1>1, <1>2, <2>1, Zenon DEF Horner
  <1>6. /\ \A a, b \in 0..n : W[a][b] \in Field /\ W[a][b] \in Int
        /\ \A i \in 1..n, b \in 0..n : R[i][b] \in Int
        /\ \A a \in 0..n : W[a][0] = 0
        /\ \A i \in 1..n : R[i][0] = 0 /\ U[i][0] = 0
        /\ \A j \in 1..n, a \in 0..n : U[j][a] \in Int
    <2>1. ASSUME NEW a \in 0..n PROVE W[a] \in [0..n -> Field] /\ W[a][0] = 0
      BY <1>3, Zenon DEF Horner
    <2>2. ASSUME NEW i \in 1..n
          PROVE  /\ R[i] \in [0..n -> Field] /\ R[i][0] = 0
                 /\ U[i] \in [0..n -> Field] /\ U[i][0] = 0
      BY <1>1, <1>2, Zenon DEF Horner
    <2> QED
      BY <2>1, <2>2, PrimeFacts, Zenon
  <1>7. (0 * k + 0) % Prime = 0 /\ (0 * m + 0) % Prime = 0
    BY PrimeFacts, ModSmall
  <1>8. W[0][n] = 0
    <2> DEFINE S == {b \in Nat : b <= n => W[0][b] = 0}
    <2>1. 0 \in S
      BY <1>6
    <2>2. ASSUME NEW b \in Nat, b \in S PROVE b + 1 \in S
      <3> SUFFICES ASSUME b + 1 <= n PROVE W[0][b + 1] = 0
        OBVIOUS
      <3>1. b + 1 \in 1..n /\ (b + 1) - 1 = b /\ n - (b + 1) + 1 \in 1..n /\ 0 \in 0..n
        OBVIOUS
      <3>2. W[0][b + 1] = (W[0][b] * m + U[n - (b + 1) + 1][0]) % Prime
        BY <1>4, <3>1, Zenon
      <3>3. W[0][b] = 0 /\ U[n - (b + 1) + 1][0] = 0
        BY <1>6, <2>2, <3>1, SMTT(30)
      <3> QED
        BY <1>7, <3>2, <3>3, Zenon
    <2>3. Nat \subseteq S
      <3> HIDE DEF S
      <3> QED
        BY <2>1, <2>2, SetInduction, Zenon
    <2> QED
      BY <2>3
  <1>9. ASSUME NEW a \in 1..n
        PROVE  W[a][n] = (W[a - 1][n] * k + R[n - a + 1][n]) % Prime
    <2> DEFINE i == n - a + 1
               z == a - 1
               S == {b \in Nat : b <= n => W[a][b] = (W[z][b] * k + R[i][b]) % Prime}
    <2> i \in 1..n /\ z \in 0..n /\ a \in 0..n
      OBVIOUS
    <2>1. 0 \in S
      BY <1>6, <1>7, Zenon
    <2>2. ASSUME NEW b \in Nat, b \in S PROVE b + 1 \in S
      <3> SUFFICES ASSUME b + 1 <= n PROVE W[a][b + 1] = (W[z][b + 1] * k + R[i][b + 1]) % Prime
        OBVIOUS
      <3> DEFINE j == n - (b + 1) + 1
      <3>1. b + 1 \in 1..n /\ (b + 1) - 1 = b /\ j \in 1..n /\ b \in 0..n
        OBVIOUS
      <3>2. /\ W[a][b + 1] = (W[a][b] * m + U[j][a]) % Prime
            /\ W[z][b + 1] = (W[z][b] * m + U[j][z]) % Prime
        BY <1>4, <3>1, ZenonT(30)
      <3>3. /\ U[j][a] = (U[j][z] * k + c[i][j]) % Prime
            /\ R[i][b + 1] = (R[i][b] * m + c[i][j]) % Prime
        BY <1>5, <3>1
      <3>4. W[a][b] = (W[z][b] * k + R[i][b]) % Prime
        BY <2>2, <3>1
      <3>5. W[z][b] \in Int /\ R[i][b] \in Int /\ U[j][z] \in Int /\ c[i][j] \in Int
        BY <1>6, <3>1, Zenon
      <3> DEFINE w0 == W[z][b]
                 r0 == R[i][b]
                 u0 == U[j][z]
                 f0 == c[i][j]
      <3>6. w0 \in Int /\ r0 \in Int /\ u0 \in Int /\ f0 \in Int
        BY <3>5, Zenon
      <3>7. /\ W[a][b + 1] = (((w0 * k + r0) % Prime) * m + ((u0 * k + f0) % Prime)) % Prime
            /\ W[z][b + 1] = (w0 * m + u0) % Prime
            /\ R[i][b + 1] = (r0 * m + f0) % Prime
        BY <3>2, <3>3, <3>4, Zenon
      <3> HIDE DEF w0, r0, u0, f0
      <3>8. (((w0 * k + r0) % Prime) * m + ((u0 * k + f0) % Prime)) % Prime
              = (((w0 * m + u0) % Prime) * k + ((r0 * m + f0) % Prime)) % Prime
        BY <3>6, HornerExchange
      <3> QED
        BY <3>7, <3>8, Zenon
    <2>3. Nat \subseteq S
      <3> HIDE DEF S
      <3> QED
        BY <2>1, <2>2, SetInduction, Zenon
    <2>4. n \in S /\ n <= n
      BY <2>3, SMTT(30)
    <2> QED
      BY <2>4, Zenon
  <1> DEFINE q == [i \in 1..n |-> R[i][n]]
             w == [a \in 0..n |-> W[a][n]]
  <1>10. q \in [1..n -> Int]
    BY <1>6
  <1>11. Horner(n, q, k, w)
    <2>1. w \in [0..n -> Field]
      <3>1. \A a \in 0..n : W[a][n] \in Field
        BY <1>6
      <3> QED
        BY <3>1, Zenon
    <2>2. w[0] = 0
      BY <1>8
    <2>3. ASSUME NEW a \in 1..n PROVE w[a] = (w[a - 1] * k + q[n - a + 1]) % Prime
      BY <1>9, SMTT(30)
    <2> HIDE DEF w, q
    <2> QED
      BY <2>1, <2>2, <2>3, Zenon DEF Horner
  <1>12. Evaluate(q, k) = W[n][n]
    <2>1. w[n] = W[n][n]
      OBVIOUS
    <2> HIDE DEF w, q
    <2> QED
      BY <1>10, <1>11, <2>1, HornerIsEvaluate, Zenon
  <1>13. q = [i \in 1..n |-> Evaluate(c[i], m)]
    BY <1>2, Zenon
  <1>14. slice(n) = [j \in 1..n |-> Evaluate(col(j), k)]
    BY <1>1, Zenon
  <1>15. Evaluate(slice(n), m) = W[n][n]
    BY <1>3
  <1> QED
    BY <1>12, <1>13, <1>14, <1>15, Zenon

\* A matrix that is symmetric, with n rows and columns.
Symmetric(n, F) == F \in [1..n -> [1..n -> Field]] /\ \A i, j \in 1..n : F[i][j] = F[j][i]

\* What the dealer can draw: the symmetric matrices with the secret in the corner.
LEMMA SymmetricPolynomialsFacts ==
    ASSUME NEW t \in Nat, NEW secret \in Field
    PROVE  \A F : F \in SymmetricPolynomials(t, secret) <=> Symmetric(t + 1, F) /\ F[1][1] = secret
  <1> DEFINE D == 1..(t + 1)
             lower == {p \in D \X D : p[2] <= p[1] /\ p[1] > 1}
             matrix(c) == [i \in D |-> [j \in D |-> IF i + j = 2 THEN secret
                                           ELSE IF j <= i THEN c[<<i, j>>] ELSE c[<<j, i>>]]]
  <1>1. SymmetricPolynomials(t, secret) = {matrix(c) : c \in [lower -> Field]}
    BY Zenon DEF SymmetricPolynomials
  <1>2. ASSUME NEW c \in [lower -> Field]
        PROVE  Symmetric(t + 1, matrix(c)) /\ matrix(c)[1][1] = secret
    <2>1. ASSUME NEW i \in D, NEW j \in D, i + j # 2
          PROVE  IF j <= i THEN <<i, j>> \in lower ELSE <<j, i>> \in lower
      BY <2>1
    <2>2. ASSUME NEW i \in D, NEW j \in D
          PROVE  matrix(c)[i][j] \in Field /\ matrix(c)[i][j] = matrix(c)[j][i]
      <3>1. CASE i + j = 2
        BY <3>1
      <3>2. CASE i + j # 2
        <4>1. c[<<i, j>>] \in Field \/ ~(j <= i)
          BY <3>2, <2>1, Zenon
        <4>2. c[<<j, i>>] \in Field \/ j <= i
          BY <3>2, <2>1, Zenon
        <4>3. i = j \/ ~(j <= i) \/ ~(i <= j)
          OBVIOUS
        <4> HIDE DEF lower
        <4> QED
          BY <3>2, <4>1, <4>2, <4>3
      <3> QED
        BY <3>1, <3>2, Zenon
    <2> QED
      BY <2>2, SMTT(30) DEF Symmetric
  <1>3. ASSUME NEW F, Symmetric(t + 1, F), F[1][1] = secret
        PROVE  F \in SymmetricPolynomials(t, secret)
    <2> DEFINE c == [p \in lower |-> F[p[1]][p[2]]]
    <2>1. c \in [lower -> Field]
      BY <1>3 DEF Symmetric
    <2>2. ASSUME NEW i \in D, NEW j \in D PROVE F[i][j] = matrix(c)[i][j]
      <3>1. CASE i + j = 2
        BY <1>3, <3>1
      <3>2. CASE i + j # 2
        <4>1. j <= i => <<i, j>> \in lower
          BY <3>2
        <4>2. ~(j <= i) => <<j, i>> \in lower
          BY <3>2
        <4>3. F[i][j] = F[j][i]
          BY <1>3, Zenon DEF Symmetric
        <4>4. c[<<i, j>>] = F[i][j] \/ ~(j <= i)
          BY <4>1, Zenon
        <4>5. c[<<j, i>>] = F[i][j] \/ j <= i
          BY <4>2, <4>3, Zenon
        <4> HIDE DEF c
        <4> QED
          BY <3>2, <4>4, <4>5, Zenon
      <3> QED
        BY <3>1, <3>2, Zenon
    <2>3. F = matrix(c)
      <3>1. F \in [D -> [D -> Field]]
        BY <1>3, Zenon DEF Symmetric
      <3> HIDE DEF c
      <3> QED
        BY <2>2, <3>1, Zenon
    <2> HIDE DEF c, matrix
    <2> QED
      BY <1>1, <2>1, <2>3, Zenon
  <1> QED
    BY <1>1, <1>2, <1>3, Zenon

\* The slices of a symmetric polynomial fit: the value at m of the polynomial of
\* k is the value at k of the polynomial of m.
THEOREM SlicesFit ==
    ASSUME NEW n \in Nat, NEW F, Symmetric(n, F), NEW k \in Int, NEW m \in Int
    PROVE  Evaluate(GetUnivariatePolynomial(F, k), m) = Evaluate(GetUnivariatePolynomial(F, m), k)
  <1>1. F \in [1..n -> [1..n -> Int]] /\ Len(F) = n
    <2> F \in [1..n -> [1..n -> Field]]
      BY Zenon DEF Symmetric
    <2>1. Len(F) = n
      BY LenOfFunction, Zenon
    <2> QED
      BY <2>1, PrimeFacts, Zenon
  <1>2. ASSUME NEW j \in 1..n PROVE [i \in 1..n |-> F[i][j]] = F[j]
    BY <1>1, Zenon DEF Symmetric
  <1>3. GetUnivariatePolynomial(F, m) = [j \in 1..n |-> Evaluate(F[j], m)]
    BY <1>1, <1>2, Zenon DEF GetUnivariatePolynomial
  <1>4. GetUnivariatePolynomial(F, k) = [j \in 1..n |-> Evaluate([i \in 1..n |-> F[i][j]], k)]
    BY <1>1, Zenon DEF GetUnivariatePolynomial
  <1>5. Evaluate([j \in 1..n |-> Evaluate([i \in 1..n |-> F[i][j]], k)], m)
           = Evaluate([j \in 1..n |-> Evaluate(F[j], m)], k)
    BY <1>1, EvaluateCommutes, Zenon
  <1> QED
    BY <1>3, <1>4, <1>5, Zenon

-----------------------------------------------------------------------------

(***************************************************************************)
(* Inverses.                                                               *)
(***************************************************************************)

\* An element other than 0 has an inverse: this is where Prime is prime.
LEMMA InverseExists ==
    ASSUME NEW a \in Int, ~Cong(a, 0)
    PROVE  \E b \in Field : (a * b) % Prime = 1
  <1> DEFINE S == {n \in Nat : n > 0 /\ \E b \in Int : Cong(a * b, n)}
             m == a % Prime
  <1> m \in S
    <2>1. m \in Field /\ m \in Int /\ Cong(a, m)
      BY CongMod, Zenon DEF Cong
    <2>2. m # 0
      BY PrimeFacts, ModSmall, Zenon DEF Cong
    <2>3. m \in Nat /\ m > 0
      BY <2>1, <2>2, PrimeFacts DEF Field
    <2> HIDE DEF m
    <2>4. Cong(a * 1, m)
      BY <2>1
    <2> QED
      BY <2>3, <2>4
  <1>1. PICK g \in S : \A k \in S : g <= k
    <2>1. S \subseteq Nat /\ S # {}
      BY Zenon
    <2> HIDE DEF S
    <2> QED
      BY <2>1, LeastNatural, Zenon
  <1> g \in Nat /\ g > 0 /\ g < Prime
    <2>1. g \in Nat /\ g > 0 /\ g <= m
      BY <1>1, Zenon
    <2>2. m \in Int /\ m < Prime
      BY ModFacts, PrimeFacts DEF Field
    <2> QED
      BY <2>1, <2>2, PrimeFacts
  <1>2. PICK b \in Int : Cong(a * b, g)
    BY <1>1, Zenon
  <1> DEFINE q == Prime \div g
             r == Prime % g
  <1>3. q \in Int /\ r \in Nat /\ r < g /\ Prime = q * g + r
    BY PrimeFacts
  <1>4. r = 0
    <2> SUFFICES ASSUME r # 0 PROVE FALSE
      BY Zenon
    <2> HIDE DEF q, r
    <2>1. Cong(r, -(q * g))
      <3>1. r \in Int /\ -(q * g) \in Int /\ r = -(q * g) + 1 * Prime
        BY <1>3, PrimeFacts
      <3> QED
        BY <3>1, CongMultiple
    <2>2. Cong(a * (-(q * b)), -(q * g))
      <3>1. Cong((-q) * (a * b), (-q) * g)
        <4>1. -q \in Int /\ a * b \in Int /\ g \in Int /\ Cong(-q, -q)
          BY <1>3 DEF Cong
        <4> QED
          BY <1>2, <4>1, CongArith, Zenon
      <3>2. (-q) * (a * b) = a * (-(q * b)) /\ (-q) * g = -(q * g)
        BY <1>3
      <3> QED
        BY <3>1, <3>2, Zenon
    <2>3. -(q * b) \in Int
      BY <1>3
    <2>4. r \in S
      <3> DEFINE w == -(q * b)
      <3>1. w \in Int /\ Cong(a * w, r)
        BY <2>1, <2>2, <2>3, Zenon DEF Cong
      <3> HIDE DEF w
      <3> QED
        BY <1>3, <3>1
    <2> HIDE DEF S
    <2> QED
      BY <1>1, <1>3, <2>4
  <1>5. g = 1
    <2>1. g \notin 2..(Prime - 1)
      BY <1>4, PrimeAssumption, Zenon
    <2> QED
      BY <2>1, PrimeFacts
  <1> DEFINE e == b % Prime
  <1>6. (a * e) % Prime = 1
    <2>1. (a * b) % Prime = 1
      <3>1. 1 \in Field
        BY PrimeFacts DEF Field
      <3> QED
        BY <1>2, <1>5, <3>1, ModSmall, Zenon DEF Cong
    <2> QED
      BY <2>1, ModOperand, Zenon
  <1>7. e \in Field
    BY ModFacts, Zenon
  <1> QED
    BY <1>6, <1>7, Zenon

\* ModInverse finds it.
LEMMA ModInverseFacts ==
    ASSUME NEW a \in Int, ~Cong(a, 0)
    PROVE  /\ ModInverse(a) \in Field /\ ModInverse(a) \in Int
           /\ Cong(a * ModInverse(a), 1)
  <1>1. ModInverse(a) \in Field /\ (a * ModInverse(a)) % Prime = 1
    BY InverseExists, Zenon DEF ModInverse
  <1>2. 1 % Prime = 1
    <2>1. 1 \in Field
      BY PrimeFacts DEF Field
    <2> QED
      BY <2>1, ModSmall, Zenon
  <1> QED
    BY <1>1, <1>2, PrimeFacts, Zenon DEF Cong

\* A factor other than 0 can be cancelled.
LEMMA Cancel ==
    ASSUME NEW a \in Int, ~Cong(a, 0), NEW x \in Int, NEW y \in Int, Cong(a * x, a * y)
    PROVE  Cong(x, y)
  <1> DEFINE b == ModInverse(a)
  <1>1. b \in Int /\ Cong(a * b, 1)
    BY ModInverseFacts, Zenon
  <1> HIDE DEF b
  <1>2. Cong(b * (a * x), b * (a * y))
    <2>1. Cong(b, b) /\ a * x \in Int /\ a * y \in Int
      BY DEF Cong
    <2> QED
      BY <1>1, <2>1, CongArith, Zenon
  <1>3. ASSUME NEW z \in Int PROVE Cong(b * (a * z), z)
    <2>1. Cong((a * b) * z, 1 * z)
      <3>1. a * b \in Int /\ 1 \in Int /\ Cong(z, z)
        BY <1>1 DEF Cong
      <3> QED
        BY <1>1, <3>1, CongArith, Zenon
    <2>2. (a * b) * z = b * (a * z) /\ 1 * z = z
      BY <1>1
    <2> QED
      BY <2>1, <2>2, Zenon
  <1> QED
    BY <1>2, <1>3, Zenon DEF Cong

\* The field has no divisors of zero.
LEMMA NonZeroProduct ==
    ASSUME NEW a \in Int, NEW b \in Int, ~Cong(a, 0), ~Cong(b, 0)
    PROVE  ~Cong(a * b, 0)
  <1> SUFFICES ASSUME Cong(a * b, 0) PROVE FALSE
    BY Zenon
  <1>1. Cong(a * b, a * 0)
    OBVIOUS
  <1> QED
    BY <1>1, Cancel

\* Two different points are different elements of the field.
LEMMA DistinctPoints ==
    ASSUME NEW a \in Field, NEW b \in Field, a # b
    PROVE  ~Cong(a - b, 0)
  <1> a \in Int /\ b \in Int /\ a - b \in Int
    BY PrimeFacts
  <1> SUFFICES ASSUME Cong(a - b, 0) PROVE FALSE
    BY Zenon
  <1>1. Cong((a - b) + b, 0 + b)
    BY CongArith DEF Cong
  <1>2. (a - b) + b = a /\ 0 + b = b
    OBVIOUS
  <1>3. Cong(a, b)
    BY <1>1, <1>2, Zenon
  <1> QED
    BY <1>3, ModSmall, Zenon DEF Cong

-----------------------------------------------------------------------------

(***************************************************************************)
(* Polynomials as algebra: sums, factors, division by x - c.               *)
(***************************************************************************)

\* All coefficients but the constant term.
Rest(n, p) == [j \in 1..n |-> p[j + 1]]

\* A polynomial is its constant term and x times the rest.
LEMMA EvaluateTail ==
    ASSUME NEW n \in Nat, NEW p \in [1..(n + 1) -> Int], NEW x \in Int
    PROVE  /\ Rest(n, p) \in [1..n -> Int]
           /\ p[1] \in Int /\ Evaluate(p, x) \in Int /\ Evaluate(Rest(n, p), x) \in Int
           /\ Cong(Evaluate(p, x), p[1] + x * Evaluate(Rest(n, p), x))
  <1> DEFINE tail == Rest(n, p)
  <1> n + 1 \in Nat /\ tail \in [1..n -> Int] /\ p[1] \in Int
    BY DEF Rest
  <1>1. PICK h : Horner(n + 1, p, x, h) /\ Evaluate(p, x) = h[n + 1]
    BY EvaluateIsHorner, Zenon
  <1> DEFINE g == [k \in 0..n |-> h[k]]
  <1>2. h \in [0..(n + 1) -> Field] /\ h[0] = 0
    BY <1>1, Zenon DEF Horner
  <1>3. ASSUME NEW k \in 1..(n + 1) PROVE h[k] = (h[k - 1] * x + p[n + 1 - k + 1]) % Prime
    BY <1>1 DEF Horner
  <1>4. Horner(n, tail, x, g)
    <2>1. g \in [0..n -> Field] /\ g[0] = 0
      BY <1>2
    <2>2. ASSUME NEW k \in 1..n PROVE g[k] = (g[k - 1] * x + tail[n - k + 1]) % Prime
      <3>1. k \in 1..(n + 1) /\ k - 1 \in 0..n /\ n - k + 1 \in 1..n /\ n - k + 1 + 1 = n + 1 - k + 1
        OBVIOUS
      <3>2. g[k] = h[k] /\ g[k - 1] = h[k - 1] /\ tail[n - k + 1] = p[n + 1 - k + 1]
        BY <3>1 DEF Rest
      <3> HIDE DEF g, tail
      <3> QED
        BY <1>3, <3>1, <3>2, Zenon
    <2> HIDE DEF g, tail
    <2> QED
      BY <2>1, <2>2, Zenon DEF Horner
  <1>5. Evaluate(tail, x) = h[n]
    <2>1. g[n] = h[n]
      OBVIOUS
    <2> HIDE DEF g, tail
    <2> QED
      BY <1>4, <2>1, HornerIsEvaluate, Zenon
  <1>6. h[n + 1] = (h[n] * x + p[1]) % Prime /\ h[n] \in Int
    <2>1. n + 1 \in 1..(n + 1) /\ (n + 1) - 1 = n /\ n + 1 - (n + 1) + 1 = 1 /\ n \in 0..(n + 1)
      OBVIOUS
    <2>2. h[n + 1] = (h[(n + 1) - 1] * x + p[n + 1 - (n + 1) + 1]) % Prime
      BY <1>3, <2>1, Zenon
    <2>3. h[n] \in Int
      BY <1>2, <2>1, PrimeFacts, Zenon
    <2> QED
      BY <2>1, <2>2, <2>3, Zenon
  <1>7. h[n] * x + p[1] = p[1] + x * h[n] /\ h[n] * x + p[1] \in Int
    BY <1>6
  <1>8. Evaluate(tail, x) \in Int /\ Evaluate(p, x) \in Int
    BY EvaluateType, Zenon
  <1> QED
    BY <1>1, <1>5, <1>6, <1>7, <1>8, CongMod, Zenon

\* Coefficients in the field are integers.
LEMMA FieldFunction ==
    ASSUME NEW D, NEW p \in [D -> Field]
    PROVE  p \in [D -> Int]
  BY PrimeFacts, Zenon

\* The empty polynomial is 0.
LEMMA EvaluateEmpty ==
    ASSUME NEW p \in [1..0 -> Int], NEW x \in Int
    PROVE  Evaluate(p, x) = 0
  <1>1. PICK h : Horner(0, p, x, h) /\ Evaluate(p, x) = h[0]
    BY EvaluateIsHorner, Zenon
  <1> QED
    BY <1>1, Zenon DEF Horner

\* At 0 only the constant term is left.
LEMMA EvaluateAtZero ==
    ASSUME NEW n \in Nat, NEW p \in [1..(n + 1) -> Field]
    PROVE  Evaluate(p, 0) = p[1]
  <1> DEFINE e == Evaluate(Rest(n, p), 0)
  <1> p \in [1..(n + 1) -> Int] /\ n + 1 \in Nat /\ p[1] \in Field /\ 0 \in Int
    BY FieldFunction
  <1>1. e \in Int /\ Cong(Evaluate(p, 0), p[1] + 0 * e)
    BY EvaluateTail, Zenon
  <1>2. Evaluate(p, 0) \in Field
    BY EvaluateType, Zenon
  <1> HIDE DEF e
  <1>3. p[1] + 0 * e = p[1]
    BY <1>1, PrimeFacts
  <1> QED
    BY <1>1, <1>2, <1>3, ModSmall, Zenon DEF Cong

\* r is a p + b q.
Linear(n, r, a, p, b, q) == \A j \in 1..n : Cong(r[j], a * p[j] + b * q[j])

\* Evaluation is linear.
LEMMA EvaluateLinear ==
    ASSUME NEW n \in Nat, NEW a \in Int, NEW b \in Int, NEW x \in Int,
           NEW p \in [1..n -> Int], NEW q \in [1..n -> Int], NEW r \in [1..n -> Int],
           Linear(n, r, a, p, b, q)
    PROVE  Cong(Evaluate(r, x), a * Evaluate(p, x) + b * Evaluate(q, x))
  <1> DEFINE Good(m) == \A p1, q1, r1 \in [1..m -> Int] :
                            Linear(m, r1, a, p1, b, q1) =>
                                Cong(Evaluate(r1, x), a * Evaluate(p1, x) + b * Evaluate(q1, x))
             S == {m \in Nat : Good(m)}
  <1>1. Good(0)
    <2> SUFFICES ASSUME NEW p1 \in [1..0 -> Int], NEW q1 \in [1..0 -> Int], NEW r1 \in [1..0 -> Int]
                 PROVE  Cong(Evaluate(r1, x), a * Evaluate(p1, x) + b * Evaluate(q1, x))
      BY Zenon
    <2>1. Evaluate(p1, x) = 0 /\ Evaluate(q1, x) = 0 /\ Evaluate(r1, x) = 0
      BY EvaluateEmpty, Zenon
    <2>2. a * 0 + b * 0 = 0
      OBVIOUS
    <2> QED
      BY <2>1, <2>2, Zenon DEF Cong
  <1>2. ASSUME NEW m \in Nat, Good(m) PROVE Good(m + 1)
    <2> SUFFICES ASSUME NEW p1 \in [1..(m + 1) -> Int], NEW q1 \in [1..(m + 1) -> Int],
                        NEW r1 \in [1..(m + 1) -> Int], Linear(m + 1, r1, a, p1, b, q1)
                 PROVE  Cong(Evaluate(r1, x), a * Evaluate(p1, x) + b * Evaluate(q1, x))
      BY Zenon
    <2> DEFINE tail(f) == Rest(m, f)
    <2>1. ASSUME NEW f \in [1..(m + 1) -> Int]
          PROVE  /\ tail(f) \in [1..m -> Int] /\ Evaluate(tail(f), x) \in Int /\ Evaluate(f, x) \in Int
                 /\ Cong(Evaluate(f, x), f[1] + x * Evaluate(tail(f), x)) /\ f[1] \in Int
      BY EvaluateTail, Zenon
    <2>2. Linear(m, tail(r1), a, tail(p1), b, tail(q1))
      <3> SUFFICES ASSUME NEW j \in 1..m
                   PROVE  Cong(r1[j + 1], a * p1[j + 1] + b * q1[j + 1])
        BY Zenon DEF Linear, Rest
      <3>1. j + 1 \in 1..(m + 1)
        OBVIOUS
      <3> QED
        BY <3>1, Zenon DEF Linear
    <2>3. Cong(r1[1], a * p1[1] + b * q1[1])
      <3>1. 1 \in 1..(m + 1)
        OBVIOUS
      <3> QED
        BY <3>1, Zenon DEF Linear
    <2> HIDE DEF tail
    <2>4. Cong(Evaluate(tail(r1), x), a * Evaluate(tail(p1), x) + b * Evaluate(tail(q1), x))
      BY <1>2, <2>1, <2>2, Zenon
    <2> DEFINE R == Evaluate(tail(r1), x)
               U == Evaluate(tail(p1), x)
               V == Evaluate(tail(q1), x)
               r0 == r1[1]
               u0 == p1[1]
               v0 == q1[1]
               Rf == Evaluate(r1, x)
               Uf == Evaluate(p1, x)
               Vf == Evaluate(q1, x)
    <2>5. /\ R \in Int /\ U \in Int /\ V \in Int /\ r0 \in Int /\ u0 \in Int /\ v0 \in Int
          /\ Rf \in Int /\ Uf \in Int /\ Vf \in Int
          /\ Cong(R, a * U + b * V) /\ Cong(r0, a * u0 + b * v0)
          /\ Cong(Rf, r0 + x * R) /\ Cong(Uf, u0 + x * U) /\ Cong(Vf, v0 + x * V)
      BY <2>1, <2>3, <2>4, Zenon
    <2> HIDE DEF R, U, V, r0, u0, v0, Rf, Uf, Vf
    <2>6. Cong(Rf, a * Uf + b * Vf)
      <3>1. PICK d1 \in Int : R = a * U + b * V + d1 * Prime
        BY <2>5, CongMultiple, SMTT(30)
      <3>2. PICK d2 \in Int : r0 = a * u0 + b * v0 + d2 * Prime
        BY <2>5, CongMultiple, SMTT(30)
      <3>3. PICK d3 \in Int : Rf = r0 + x * R + d3 * Prime
        BY <2>5, CongMultiple
      <3>4. PICK d4 \in Int : Uf = u0 + x * U + d4 * Prime
        BY <2>5, CongMultiple, SMTT(30)
      <3>5. PICK d5 \in Int : Vf = v0 + x * V + d5 * Prime
        BY <2>5, CongMultiple, SMTT(30)
      <3> DEFINE d == d3 + d2 + x * d1 - a * d4 - b * d5
      <3>6. Rf = (a * Uf + b * Vf) + d * Prime /\ d \in Int /\ a * Uf + b * Vf \in Int
        BY <2>5, <3>1, <3>2, <3>3, <3>4, <3>5, PrimeFacts
      <3> HIDE DEF d
      <3> QED
        BY <2>5, <3>6, CongMultiple, Zenon
    <2> QED
      BY <2>6, Zenon DEF Rf, Uf, Vf
  <1>3. n \in S
    <2> HIDE DEF Good
    <2>1. 0 \in S /\ \A m \in Nat : m \in S => m + 1 \in S
      BY <1>1, <1>2
    <2> HIDE DEF S
    <2> QED
      BY <2>1, SetInduction, Zenon
  <1> QED
    BY <1>3, Zenon

\* The coefficient of x^(j-1), 0 outside.
Coef(n, q, j) == IF j \in 1..n THEN q[j] ELSE 0

\* r is (x - c) q + e.
Factor(n, r, q, c, e) ==
    \A j \in 1..(n + 1) :
        Cong(r[j], Coef(n, q, j - 1) - c * Coef(n, q, j) + (IF j = 1 THEN e ELSE 0))

\* Coefficients are integers, and those of the rest are those of the whole.
LEMMA CoefFacts ==
    ASSUME NEW n \in Nat
    PROVE  /\ \A q \in [1..n -> Int], j \in Int : Coef(n, q, j) \in Int
           /\ \A q \in [1..(n + 1) -> Int], j \in 1..(n + 1) :
                /\ Coef(n, Rest(n, q), j) = Coef(n + 1, q, j + 1)
                /\ Coef(n, Rest(n, q), j - 1) + (IF j = 1 THEN q[1] ELSE 0) = Coef(n + 1, q, j)
  <1>1. ASSUME NEW q \in [1..n -> Int], NEW j \in Int PROVE Coef(n, q, j) \in Int
    BY DEF Coef
  <1>2. ASSUME NEW q \in [1..(n + 1) -> Int], NEW j \in 1..(n + 1)
        PROVE  Coef(n, Rest(n, q), j) = Coef(n + 1, q, j + 1)
    BY DEF Coef, Rest
  <1>3. ASSUME NEW q \in [1..(n + 1) -> Int], NEW j \in 1..(n + 1)
        PROVE  Coef(n, Rest(n, q), j - 1) + (IF j = 1 THEN q[1] ELSE 0) = Coef(n + 1, q, j)
    <2>1. CASE j = 1
      BY <2>1 DEF Coef
    <2>2. CASE j # 1
      <3>1. j - 1 \in 1..n /\ (j - 1) + 1 = j /\ q[j] \in Int
        BY <2>2
      <3> QED
        BY <2>2, <3>1 DEF Coef, Rest
    <2> QED
      BY <2>1, <2>2, Zenon
  <1> QED
    BY <1>1, <1>2, <1>3, Zenon

\* (x - c) q + e evaluates to what it says.
LEMMA EvaluateFactor ==
    ASSUME NEW n \in Nat, NEW c \in Int, NEW e \in Int, NEW x \in Int,
           NEW q \in [1..n -> Int], NEW r \in [1..(n + 1) -> Int], Factor(n, r, q, c, e)
    PROVE  Cong(Evaluate(r, x), e + (x - c) * Evaluate(q, x))
  <1> DEFINE Good(m) == \A q1 \in [1..m -> Int], r1 \in [1..(m + 1) -> Int], e1 \in Int :
                            Factor(m, r1, q1, c, e1) =>
                                Cong(Evaluate(r1, x), e1 + (x - c) * Evaluate(q1, x))
             S == {m \in Nat : Good(m)}
  <1>1. Good(0)
    <2> SUFFICES ASSUME NEW q1 \in [1..0 -> Int], NEW r1 \in [1..(0 + 1) -> Int], NEW e1 \in Int,
                        Factor(0, r1, q1, c, e1)
                 PROVE  Cong(Evaluate(r1, x), e1 + (x - c) * Evaluate(q1, x))
      BY Zenon
    <2>1. Evaluate(q1, x) = 0
      BY EvaluateEmpty, Zenon
    <2>2. Cong(r1[1], Coef(0, q1, 1 - 1) - c * Coef(0, q1, 1) + e1)
      BY DEF Factor
    <2>3. Coef(0, q1, 1 - 1) = 0 /\ Coef(0, q1, 1) = 0
      BY DEF Coef
    <2> DEFINE t == Evaluate(Rest(0, r1), x)
    <2>4. Rest(0, r1) \in [1..0 -> Int] /\ Cong(Evaluate(r1, x), r1[1] + x * t) /\ r1[1] \in Int
      <3>1. 0 + 1 = 1
        OBVIOUS
      <3> QED
        BY <3>1, EvaluateTail, Zenon
    <2>5. t = 0
      BY <2>4, EvaluateEmpty, Zenon
    <2>6. r1[1] + x * 0 = r1[1] /\ 0 - c * 0 + e1 = e1 /\ e1 + (x - c) * 0 = e1
      BY <2>4
    <2> QED
      BY <2>1, <2>2, <2>3, <2>4, <2>5, <2>6, Zenon DEF Cong
  <1>2. ASSUME NEW m \in Nat, Good(m) PROVE Good(m + 1)
    <2> SUFFICES ASSUME NEW q1 \in [1..(m + 1) -> Int], NEW r1 \in [1..(m + 1 + 1) -> Int], NEW e1 \in Int,
                        Factor(m + 1, r1, q1, c, e1)
                 PROVE  Cong(Evaluate(r1, x), e1 + (x - c) * Evaluate(q1, x))
      BY Zenon
    <2> DEFINE rt == Rest(m + 1, r1)
               qt == Rest(m, q1)
    <2>1. /\ rt \in [1..(m + 1) -> Int] /\ qt \in [1..m -> Int]
          /\ Cong(Evaluate(r1, x), r1[1] + x * Evaluate(rt, x)) /\ r1[1] \in Int
          /\ Cong(Evaluate(q1, x), q1[1] + x * Evaluate(qt, x)) /\ q1[1] \in Int
          /\ Evaluate(r1, x) \in Int /\ Evaluate(q1, x) \in Int
          /\ Evaluate(rt, x) \in Int /\ Evaluate(qt, x) \in Int
      <3>1. m + 1 \in Nat
        OBVIOUS
      <3> QED
        BY <3>1, EvaluateTail, Zenon
    <2>2. Factor(m, rt, qt, c, q1[1])
      <3> SUFFICES ASSUME NEW j \in 1..(m + 1)
                   PROVE  Cong(rt[j], Coef(m, qt, j - 1) - c * Coef(m, qt, j) + (IF j = 1 THEN q1[1] ELSE 0))
        BY Zenon DEF Factor
      <3>1. j + 1 \in 1..(m + 1 + 1) /\ (j + 1) - 1 = j /\ j + 1 # 1 /\ j \in Int /\ j + 1 \in Int /\ j - 1 \in Int
        OBVIOUS
      <3>2. rt[j] = r1[j + 1]
        BY Zenon DEF Rest
      <3>3. Cong(r1[j + 1], Coef(m + 1, q1, j) - c * Coef(m + 1, q1, j + 1) + 0)
        BY <3>1, Zenon DEF Factor
      <3> DEFINE a0 == Coef(m + 1, q1, j)
                 b0 == Coef(m + 1, q1, j + 1)
                 a1 == Coef(m, qt, j - 1)
                 b1 == Coef(m, qt, j)
                 d == IF j = 1 THEN q1[1] ELSE 0
      <3>4. a0 \in Int /\ b0 \in Int /\ a1 \in Int /\ b1 \in Int /\ d \in Int
        <4>1. m + 1 \in Nat
          OBVIOUS
        <4>2. \A k \in Int : Coef(m + 1, q1, k) \in Int
          BY <4>1, CoefFacts, Zenon
        <4> HIDE DEF qt
        <4>3. \A k \in Int : Coef(m, qt, k) \in Int
          BY <2>1, CoefFacts, Zenon
        <4>4. q1[1] \in Int
          OBVIOUS
        <4>5. d \in Int
          BY <4>4
        <4> HIDE DEF d
        <4> QED
          BY <3>1, <4>2, <4>3, <4>5, Zenon
      <3>5. b1 = b0 /\ a1 + d = a0
        BY CoefFacts, Zenon
      <3>6. Cong(r1[j + 1], a0 - c * b0 + 0)
        BY <3>3, Zenon
      <3> HIDE DEF a0, b0, a1, b1, d
      <3>7. a0 - c * b0 + 0 = a1 - c * b1 + d
        BY <3>4, <3>5
      <3>8. Cong(rt[j], a1 - c * b1 + d)
        BY <3>2, <3>6, <3>7, Zenon
      <3> QED
        BY <3>8, Zenon DEF a1, b1, d
    <2>3. Cong(Evaluate(rt, x), q1[1] + (x - c) * Evaluate(qt, x))
      <3> HIDE DEF rt, qt
      <3> QED
        BY <1>2, <2>1, <2>2, Zenon
    <2>4. Cong(r1[1], e1 - c * q1[1])
      <3>1. 1 \in 1..(m + 1 + 1) /\ 1 \in 1..(m + 1) /\ 1 - 1 = 0 /\ 0 \notin 1..(m + 1)
        OBVIOUS
      <3>2. Cong(r1[1], Coef(m + 1, q1, 0) - c * Coef(m + 1, q1, 1) + e1)
        BY <3>1, Zenon DEF Factor
      <3>3. Coef(m + 1, q1, 0) = 0 /\ Coef(m + 1, q1, 1) = q1[1]
        BY <3>1, Zenon DEF Coef
      <3>4. \A z \in Int : 0 - c * z + e1 = e1 - c * z
        OBVIOUS
      <3> QED
        BY <2>1, <3>2, <3>3, <3>4, Zenon
    <2> DEFINE R == Evaluate(rt, x)
               U == Evaluate(qt, x)
               r0 == r1[1]
               u0 == q1[1]
               Rf == Evaluate(r1, x)
               Uf == Evaluate(q1, x)
    <2>5. /\ R \in Int /\ U \in Int /\ r0 \in Int /\ u0 \in Int /\ Rf \in Int /\ Uf \in Int
          /\ Cong(Rf, r0 + x * R) /\ Cong(Uf, u0 + x * U)
          /\ Cong(R, u0 + (x - c) * U) /\ Cong(r0, e1 - c * u0)
      BY <2>1, <2>3, <2>4, Zenon
    <2> HIDE DEF R, U, r0, u0, Rf, Uf
    <2>6. Cong(Rf, e1 + (x - c) * Uf)
      <3>1. PICK d1 \in Int : R = u0 + (x - c) * U + d1 * Prime
        BY <2>5, CongMultiple
      <3>2. PICK d2 \in Int : r0 = e1 - c * u0 + d2 * Prime
        BY <2>5, CongMultiple, SMTT(30)
      <3>3. PICK d3 \in Int : Rf = r0 + x * R + d3 * Prime
        BY <2>5, CongMultiple, SMTT(30)
      <3>4. PICK d4 \in Int : Uf = u0 + x * U + d4 * Prime
        BY <2>5, CongMultiple, SMTT(30)
      <3> DEFINE d == d3 + d2 + x * d1 - (x - c) * d4
      <3>5. Rf = (e1 + (x - c) * Uf) + d * Prime /\ d \in Int /\ e1 + (x - c) * Uf \in Int
        BY <2>5, <3>1, <3>2, <3>3, <3>4, PrimeFacts
      <3> HIDE DEF d
      <3> QED
        BY <2>5, <3>5, CongMultiple, Zenon
    <2> QED
      BY <2>6, Zenon DEF Rf, Uf
  <1>3. n \in S
    <2> HIDE DEF Good
    <2>1. 0 \in S /\ \A m \in Nat : m \in S => m + 1 \in S
      BY <1>1, <1>2
    <2> HIDE DEF S
    <2> QED
      BY <2>1, SetInduction, Zenon
  <1> QED
    BY <1>3, Zenon

\* Division by x - c: the quotient is what Horner's rule at c goes through, the
\* remainder is the value at c.
LEMMA Division ==
    ASSUME NEW n \in Nat, NEW p \in [1..(n + 1) -> Int], NEW c \in Int
    PROVE  \E q \in [1..n -> Field] : Factor(n, p, q, c, Evaluate(p, c))
  <1>1. n + 1 \in Nat
    OBVIOUS
  <1>2. PICK h : Horner(n + 1, p, c, h) /\ Evaluate(p, c) = h[n + 1]
    BY <1>1, EvaluateIsHorner, Zenon
  <1>3. h \in [0..(n + 1) -> Field] /\ h[0] = 0 /\ \A k \in 0..(n + 1) : h[k] \in Int
    BY <1>2, PrimeFacts, Zenon DEF Horner
  <1> DEFINE q == [j \in 1..n |-> h[n + 1 - j]]
  <1> q \in [1..n -> Field]
    BY <1>3
  <1>4. ASSUME NEW j \in 1..(n + 1)
        PROVE  Cong(p[j], Coef(n, q, j - 1) - c * Coef(n, q, j) + (IF j = 1 THEN Evaluate(p, c) ELSE 0))
    <2> DEFINE a == h[n + 2 - j]
               b == h[n + 1 - j]
               f == p[j]
    <2>1. /\ n + 2 - j \in 1..(n + 1) /\ (n + 2 - j) - 1 = n + 1 - j /\ n + 1 - (n + 2 - j) + 1 = j
          /\ n + 1 - j \in 0..(n + 1) /\ n + 2 - j \in 0..(n + 1) /\ j - 1 \in Int
      OBVIOUS
    <2>2. h[n + 2 - j] = (h[(n + 2 - j) - 1] * c + p[n + 1 - (n + 2 - j) + 1]) % Prime
      BY <1>2, <2>1 DEF Horner
    <2>3. a = (b * c + f) % Prime
      BY <2>1, <2>2, Zenon
    <2> a \in Int /\ b \in Int /\ f \in Int
      BY <1>3, <2>1, Zenon
    <2>4. Coef(n, q, j) = b
      BY <1>3, SMTT(30) DEF Coef
    <2>5. Coef(n, q, j - 1) + (IF j = 1 THEN Evaluate(p, c) ELSE 0) = a
      <3>1. CASE j = 1
        <4>1. n + 2 - j = n + 1 /\ j - 1 \notin 1..n
          BY <3>1
        <4>2. Coef(n, q, j - 1) = 0
          BY <4>1, Zenon DEF Coef
        <4> QED
          BY <1>2, <3>1, <4>1, <4>2
      <3>2. CASE j # 1
        <4>1. n + 1 - (j - 1) = n + 2 - j /\ j - 1 \in 1..n
          BY <3>2
        <4>2. Coef(n, q, j - 1) = a
          BY <4>1, Zenon DEF Coef
        <4> QED
          BY <3>2, <4>2, SMTT(30)
      <3> QED
        BY <3>1, <3>2, Zenon
    <2> DEFINE u == Coef(n, q, j - 1)
               v == Coef(n, q, j)
               w == IF j = 1 THEN Evaluate(p, c) ELSE 0
    <2>6. u \in Int /\ w \in Int /\ v = b /\ u + w = a
      <3>1. j - 1 \in Int
        BY <2>1, Zenon
      <3>2. u \in Int
        <4> HIDE DEF q
        <4>1. q \in [1..n -> Int]
          BY FieldFunction, Zenon
        <4> QED
          BY <3>1, <4>1, CoefFacts, Zenon
      <3>3. w \in Int
        BY <1>2, <1>3
      <3> QED
        BY <2>4, <2>5, <3>2, <3>3, Zenon
    <2> HIDE DEF a, b, f, u, v, w
    <2>7. Cong(f, u - c * v + w)
      <3> b * c + f \in Int
        OBVIOUS
      <3>1. Cong(a, b * c + f)
        BY <2>3, CongMod, Zenon
      <3>2. PICK d \in Int : a = b * c + f + d * Prime
        BY <3>1, CongMultiple, Zenon
      <3>3. f = (u - c * v + w) + (-d) * Prime /\ -d \in Int /\ u - c * v + w \in Int
        BY <2>6, <3>2, PrimeFacts
      <3> QED
        BY <3>3, CongMultiple, Zenon
    <2> QED
      BY <2>7, Zenon DEF f, u, v, w
  <1> HIDE DEF q
  <1>5. Factor(n, p, q, c, Evaluate(p, c))
    BY <1>4, Zenon DEF Factor
  <1> QED
    BY <1>5, Zenon

-----------------------------------------------------------------------------

(***************************************************************************)
(* Symmetric bivariate polynomials: one more slice.                        *)
(***************************************************************************)

\* A matrix with zeros around it.
Entry(n, H, i, j) == IF i \in 1..n /\ j \in 1..n THEN H[i][j] ELSE 0

\* The coefficients of p(x) + p(y) - e + (x - c)(y - c) H(x, y).
Extend(n, H, p, c, e) ==
    [i \in 1..(n + 1) |-> [j \in 1..(n + 1) |->
        ((IF j = 1 THEN p[i] ELSE 0) + (IF i = 1 THEN p[j] - (IF j = 1 THEN e ELSE 0) ELSE 0)
            + (Entry(n, H, i - 1, j - 1) - c * Entry(n, H, i - 1, j))
            - c * (Entry(n, H, i, j - 1) - c * Entry(n, H, i, j))) % Prime]]

\* Entries are integers, and mirrored if the matrix is.
LEMMA EntryFacts ==
    ASSUME NEW n \in Nat, NEW H \in [1..n -> [1..n -> Field]], NEW i \in Int, NEW j \in Int
    PROVE  /\ Entry(n, H, i, j) \in Int
           /\ Symmetric(n, H) => Entry(n, H, i, j) = Entry(n, H, j, i)
  <1>1. i \in 1..n /\ j \in 1..n => H[i][j] \in Int
    BY PrimeFacts, Zenon
  <1>2. Symmetric(n, H) /\ i \in 1..n /\ j \in 1..n => H[i][j] = H[j][i]
    BY Zenon DEF Symmetric
  <1> QED
    BY <1>1, <1>2 DEF Entry

\* The extended matrix is symmetric.
LEMMA ExtendSymmetric ==
    ASSUME NEW n \in Nat, NEW H, Symmetric(n, H), NEW p \in [1..(n + 1) -> Field],
           NEW c \in Int, NEW e \in Int
    PROVE  Symmetric(n + 1, Extend(n, H, p, c, e))
  <1> DEFINE F == Extend(n, H, p, c, e)
             val(i, j) == (IF j = 1 THEN p[i] ELSE 0) + (IF i = 1 THEN p[j] - (IF j = 1 THEN e ELSE 0) ELSE 0)
                            + (Entry(n, H, i - 1, j - 1) - c * Entry(n, H, i - 1, j))
                            - c * (Entry(n, H, i, j - 1) - c * Entry(n, H, i, j))
  <1> H \in [1..n -> [1..n -> Field]]
    BY Zenon DEF Symmetric
  <1>1. ASSUME NEW i \in 1..(n + 1), NEW j \in 1..(n + 1)
        PROVE  val(i, j) \in Int /\ val(i, j) = val(j, i)
    <2> DEFINE a == Entry(n, H, i - 1, j - 1)
               b == Entry(n, H, i - 1, j)
               g == Entry(n, H, i, j - 1)
               h == Entry(n, H, i, j)
               pi == p[i]
               pj == p[j]
    <2> i \in Int /\ j \in Int /\ i - 1 \in Int /\ j - 1 \in Int
      OBVIOUS
    <2> a \in Int /\ b \in Int /\ g \in Int /\ h \in Int
      BY EntryFacts, Zenon
    <2>1. /\ Entry(n, H, j - 1, i - 1) = a /\ Entry(n, H, j - 1, i) = g
          /\ Entry(n, H, j, i - 1) = b /\ Entry(n, H, j, i) = h
      BY EntryFacts
    <2>2. pi \in Int /\ pj \in Int
      BY PrimeFacts, Zenon
    <2> DEFINE s == (IF j = 1 THEN pi ELSE 0) + (IF i = 1 THEN pj - (IF j = 1 THEN e ELSE 0) ELSE 0)
               t == (IF i = 1 THEN pj ELSE 0) + (IF j = 1 THEN pi - (IF i = 1 THEN e ELSE 0) ELSE 0)
    <2>3. s \in Int /\ t \in Int /\ s = t
      <3>1. i = 1 /\ j = 1 => pi = pj
        BY Zenon
      <3> HIDE DEF pi, pj
      <3> QED
        BY <2>2, <3>1
    <2>4. val(i, j) = s + (a - c * b) - c * (g - c * h) /\ val(j, i) = t + (a - c * g) - c * (b - c * h)
      BY <2>1, Zenon
    <2> HIDE DEF s, t, a, b, g, h, val
    <2>5. s + (a - c * b) - c * (g - c * h) \in Int
      BY <2>3
    <2>6. s + (a - c * b) - c * (g - c * h) = t + (a - c * g) - c * (b - c * h)
      BY <2>3
    <2> QED
      BY <2>4, <2>5, <2>6, Zenon
  <1>2. F = [i \in 1..(n + 1) |-> [j \in 1..(n + 1) |-> val(i, j) % Prime]]
    BY Zenon DEF Extend
  <1> HIDE DEF val
  <1>3. \A i, j \in 1..(n + 1) : val(i, j) % Prime \in Field
    BY <1>1, ModFacts, Zenon
  <1> HIDE DEF F
  <1>4. F \in [1..(n + 1) -> [1..(n + 1) -> Field]]
    BY <1>2, <1>3, Zenon
  <1>5. \A i, j \in 1..(n + 1) : F[i][j] = F[j][i]
    BY <1>1, <1>2, Zenon
  <1> QED
    BY <1>4, <1>5, Zenon DEF Symmetric, F

\* The extended matrix has one row more.
LEMMA ExtendLength ==
    ASSUME NEW n \in Nat, NEW H, NEW p, NEW c, NEW e
    PROVE  Len(Extend(n, H, p, c, e)) = n + 1
  <1> DEFINE F == Extend(n, H, p, c, e)
             R == {F[i] : i \in 1..(n + 1)}
  <1>1. F \in [1..(n + 1) -> R]
    BY Zenon DEF Extend
  <1> HIDE DEF F, R
  <1>2. n + 1 \in Nat
    OBVIOUS
  <1>3. Len(F) = n + 1
    BY <1>1, <1>2, LenOfFunction, Zenon
  <1> QED
    BY <1>3, Zenon DEF F

\* A polynomial whose coefficients are 0 is 0 everywhere.
LEMMA EvaluateZero ==
    ASSUME NEW n \in Nat, NEW p \in [1..n -> Int], \A i \in 1..n : p[i] = 0, NEW x \in Int
    PROVE  Evaluate(p, x) = 0
  <1> DEFINE E == Evaluate(p, x)
  <1> E \in Field /\ E \in Int
    BY EvaluateType, Zenon
  <1>1. Linear(n, p, 0, p, 0, p)
    BY DEF Linear, Cong
  <1>2. Cong(E, 0 * E + 0 * E)
    <2>1. 0 \in Int
      OBVIOUS
    <2> QED
      BY <1>1, <2>1, EvaluateLinear, Zenon
  <1> HIDE DEF E
  <1>3. 0 * E + 0 * E = 0
    OBVIOUS
  <1>4. E = 0
    BY <1>2, <1>3, PrimeFacts, ModSmall, Zenon DEF Cong
  <1> QED
    BY <1>4, Zenon DEF E

\* A column of the entries of a matrix.
Column(n, H, j) == [i \in 1..n |-> Entry(n, H, i, j)]

\* Column j of a matrix, evaluated at u, is coefficient j of its slice at u, also
\* for a column outside.
LEMMA ColumnValue ==
    ASSUME NEW n \in Nat, NEW H \in [1..n -> [1..n -> Field]], NEW u \in Int, NEW j \in Int
    PROVE  /\ Column(n, H, j) \in [1..n -> Int]
           /\ Evaluate(Column(n, H, j), u) = Coef(n, GetUnivariatePolynomial(H, u), j)
           /\ GetUnivariatePolynomial(H, u) \in [1..n -> Field]
  <1> DEFINE col == Column(n, H, j)
             slice == GetUnivariatePolynomial(H, u)
  <1>1. slice = [k \in 1..n |-> Evaluate([i \in 1..n |-> H[i][k]], u)]
    <2>1. Len(H) = n
      BY LenOfFunction, Zenon
    <2> QED
      BY <2>1, Zenon DEF GetUnivariatePolynomial
  <1> slice \in [1..n -> Field]
    <2>1. ASSUME NEW k \in 1..n PROVE Evaluate([i \in 1..n |-> H[i][k]], u) \in Field
      <3>1. [i \in 1..n |-> H[i][k]] \in [1..n -> Int]
        BY PrimeFacts, Zenon
      <3> QED
        BY <3>1, EvaluateType, Zenon
    <2> QED
      BY <1>1, <2>1, Zenon
  <1> col \in [1..n -> Int]
    BY EntryFacts DEF Column
  <1>2. CASE j \in 1..n
    <2>1. col = [i \in 1..n |-> H[i][j]]
      BY <1>2, Zenon DEF Entry, Column
    <2> HIDE DEF col
    <2> QED
      BY <1>1, <1>2, <2>1, Zenon DEF Coef, col
  <1>3. CASE j \notin 1..n
    <2>1. \A i \in 1..n : col[i] = 0
      BY <1>3, Zenon DEF Entry, Column
    <2>2. Evaluate(col, u) = 0
      <3> HIDE DEF col
      <3> QED
        BY <2>1, EvaluateZero, Zenon
    <2> QED
      BY <1>3, <2>2, Zenon DEF Coef
  <1> QED
    BY <1>2, <1>3, Zenon

\* A slice of the extended matrix.
LEMMA ExtendSlice ==
    ASSUME NEW n \in Nat, NEW H \in [1..n -> [1..n -> Field]], NEW p \in [1..(n + 1) -> Field],
           NEW c \in Int, NEW e \in Int, NEW u \in Int, NEW j \in 1..(n + 1)
    PROVE  Cong(GetUnivariatePolynomial(Extend(n, H, p, c, e), u)[j],
                p[j] + (IF j = 1 THEN Evaluate(p, u) - e ELSE 0)
                  + (u - c) * (Coef(n, GetUnivariatePolynomial(H, u), j - 1)
                                - c * Coef(n, GetUnivariatePolynomial(H, u), j)))
  <1>0. /\ -c \in Int
        /\ Column(n, H, j - 1) \in [1..n -> Int] /\ Column(n, H, j) \in [1..n -> Int]
        /\ Evaluate(Column(n, H, j - 1), u) = Coef(n, GetUnivariatePolynomial(H, u), j - 1)
        /\ Evaluate(Column(n, H, j), u) = Coef(n, GetUnivariatePolynomial(H, u), j)
    <2>1. j - 1 \in Int /\ j \in Int /\ -c \in Int
      OBVIOUS
    <2>2. /\ Column(n, H, j - 1) \in [1..n -> Int]
          /\ Evaluate(Column(n, H, j - 1), u) = Coef(n, GetUnivariatePolynomial(H, u), j - 1)
      BY <2>1, ColumnValue, ZenonT(30)
    <2>3. /\ Column(n, H, j) \in [1..n -> Int]
          /\ Evaluate(Column(n, H, j), u) = Coef(n, GetUnivariatePolynomial(H, u), j)
      BY <2>1, ColumnValue, ZenonT(30)
    <2> QED
      BY <2>1, <2>2, <2>3, Zenon
  <1> DEFINE F == Extend(n, H, p, c, e)
             hu == GetUnivariatePolynomial(H, u)
             col == [i \in 1..(n + 1) |-> F[i][j]]
             c1 == Column(n, H, j - 1)
             c2 == Column(n, H, j)
             s == [i \in 1..n |-> Entry(n, H, i, j - 1) - c * Entry(n, H, i, j)]
             a == [i \in 1..(n + 1) |-> IF j = 1 THEN p[i] ELSE 0]
             e1 == p[j] - (IF j = 1 THEN e ELSE 0)
             r == [i \in 1..(n + 1) |-> (IF i = 1 THEN e1 ELSE 0)
                       + (Entry(n, H, i - 1, j - 1) - c * Entry(n, H, i - 1, j))
                       - c * (Entry(n, H, i, j - 1) - c * Entry(n, H, i, j))]
  <1> n + 1 \in Nat /\ j \in Int /\ j - 1 \in Int /\ p[j] \in Int /\ e1 \in Int /\ p \in [1..(n + 1) -> Int]
    <2>1. p[j] \in Int /\ p \in [1..(n + 1) -> Int]
      BY PrimeFacts, Zenon
    <2> QED
      BY <2>1
  <1> s \in [1..n -> Int]
    <2>1. ASSUME NEW i \in 1..n PROVE Entry(n, H, i, j - 1) - c * Entry(n, H, i, j) \in Int
      <3>1. i \in Int
        OBVIOUS
      <3>2. Entry(n, H, i, j - 1) \in Int /\ Entry(n, H, i, j) \in Int
        BY <3>1, EntryFacts, Zenon
      <3> QED
        BY <3>2
    <2> QED
      BY <2>1, Zenon
  <1> r \in [1..(n + 1) -> Int]
    <2>1. ASSUME NEW i \in 1..(n + 1) PROVE r[i] \in Int
      <3> DEFINE x1 == Entry(n, H, i - 1, j - 1)
                 x2 == Entry(n, H, i - 1, j)
                 x3 == Entry(n, H, i, j - 1)
                 x4 == Entry(n, H, i, j)
                 x0 == IF i = 1 THEN e1 ELSE 0
      <3>1. x0 \in Int /\ x1 \in Int /\ x2 \in Int /\ x3 \in Int /\ x4 \in Int
        <4>1. i \in Int /\ i - 1 \in Int
          OBVIOUS
        <4>2. x1 \in Int /\ x2 \in Int /\ x3 \in Int /\ x4 \in Int
          BY <4>1, EntryFacts, Zenon
        <4> HIDE DEF e1
        <4>3. x0 \in Int
          OBVIOUS
        <4> QED
          BY <4>2, <4>3, Zenon
      <3>2. r[i] = x0 + (x1 - c * x2) - c * (x3 - c * x4)
        BY Zenon
      <3> HIDE DEF x0, x1, x2, x3, x4, r
      <3> QED
        BY <3>1, <3>2
    <2> QED
      BY <2>1, Zenon
  <1> a \in [1..(n + 1) -> Int]
    OBVIOUS
  <1>1. Factor(n, r, s, c, e1)
    <2> SUFFICES ASSUME NEW i \in 1..(n + 1)
                 PROVE  Cong(r[i], Coef(n, s, i - 1) - c * Coef(n, s, i) + (IF i = 1 THEN e1 ELSE 0))
      BY Zenon DEF Factor
    <2> DEFINE x1 == Entry(n, H, i - 1, j - 1)
               x2 == Entry(n, H, i - 1, j)
               x3 == Entry(n, H, i, j - 1)
               x4 == Entry(n, H, i, j)
               x0 == IF i = 1 THEN e1 ELSE 0
    <2>1. Coef(n, s, i - 1) = x1 - c * x2
      <3>1. CASE i - 1 \in 1..n
        BY <3>1, Zenon DEF Coef
      <3>2. CASE i - 1 \notin 1..n
        BY <3>2 DEF Coef, Entry
      <3> QED
        BY <3>1, <3>2, Zenon
    <2>2. Coef(n, s, i) = x3 - c * x4
      <3>1. CASE i \in 1..n
        BY <3>1, Zenon DEF Coef
      <3>2. CASE i \notin 1..n
        BY <3>2 DEF Coef, Entry
      <3> QED
        BY <3>1, <3>2, Zenon
    <2>3. x0 \in Int /\ x1 \in Int /\ x2 \in Int /\ x3 \in Int /\ x4 \in Int
      <3>1. i \in Int /\ i - 1 \in Int
        OBVIOUS
      <3>2. x1 \in Int /\ x2 \in Int /\ x3 \in Int /\ x4 \in Int
        BY <3>1, EntryFacts, Zenon
      <3> HIDE DEF e1
      <3>3. x0 \in Int
        OBVIOUS
      <3> QED
        BY <3>2, <3>3, Zenon
    <2>4. r[i] = x0 + (x1 - c * x2) - c * (x3 - c * x4)
      BY Zenon
    <2>5. (IF i = 1 THEN e1 ELSE 0) = x0
      BY Zenon
    <2> HIDE DEF r, s, x0, x1, x2, x3, x4
    <2>6. x0 + (x1 - c * x2) - c * (x3 - c * x4) = (x1 - c * x2) - c * (x3 - c * x4) + x0
      BY <2>3
    <2> QED
      BY <2>1, <2>2, <2>4, <2>5, <2>6, Zenon DEF Cong
  <1>2. col \in [1..(n + 1) -> Int] /\ Linear(n + 1, col, 1, a, 1, r)
    <2>1. ASSUME NEW i \in 1..(n + 1)
          PROVE  col[i] \in Int /\ Cong(col[i], 1 * a[i] + 1 * r[i])
      <3>1. col[i] = (a[i] + r[i]) % Prime
        <4> DEFINE x1 == Entry(n, H, i - 1, j - 1)
                   x2 == Entry(n, H, i - 1, j)
                   x3 == Entry(n, H, i, j - 1)
                   x4 == Entry(n, H, i, j)
                   x0 == IF i = 1 THEN e1 ELSE 0
                   a0 == IF j = 1 THEN p[i] ELSE 0
        <4>1. a[i] = a0 /\ r[i] = x0 + (x1 - c * x2) - c * (x3 - c * x4)
          BY Zenon
        <4>2. col[i] = (a0 + x0 + (x1 - c * x2) - c * (x3 - c * x4)) % Prime
          BY Zenon DEF Extend
        <4>3. x0 \in Int /\ x1 \in Int /\ x2 \in Int /\ x3 \in Int /\ x4 \in Int
          <5>1. i \in Int /\ i - 1 \in Int
            OBVIOUS
          <5>2. x1 \in Int /\ x2 \in Int /\ x3 \in Int /\ x4 \in Int
            BY <5>1, EntryFacts, Zenon
          <5> HIDE DEF e1
          <5>3. x0 \in Int
            OBVIOUS
          <5> QED
            BY <5>2, <5>3, Zenon
        <4>4. a0 \in Int
          BY Zenon
        <4> HIDE DEF a, r, col, a0, x0, x1, x2, x3, x4
        <4>5. a0 + x0 + (x1 - c * x2) - c * (x3 - c * x4) = a0 + (x0 + (x1 - c * x2) - c * (x3 - c * x4))
          BY <4>3, <4>4
        <4> QED
          BY <4>1, <4>2, <4>5, Zenon
      <3>2. a[i] \in Int /\ r[i] \in Int
        <4> HIDE DEF a, r
        <4> QED
          BY Zenon
      <3> DEFINE a0 == a[i]
                 r0 == r[i]
      <3>3. a0 \in Int /\ r0 \in Int /\ col[i] = (a0 + r0) % Prime
        BY <3>1, <3>2, Zenon
      <3> HIDE DEF a0, r0, col
      <3>4. 1 * a0 + 1 * r0 = a0 + r0 /\ a0 + r0 \in Int
        BY <3>3
      <3>5. Cong(col[i], 1 * a0 + 1 * r0) /\ col[i] \in Int
        BY <3>3, <3>4, CongMod, Zenon
      <3> QED
        BY <3>5, Zenon DEF a0, r0
    <2>2. col \in [1..(n + 1) -> Int]
      BY <2>1, Zenon
    <2> HIDE DEF col, a, r
    <2> QED
      BY <2>1, <2>2, Zenon DEF Linear
  <1>3. /\ c1 \in [1..n -> Int] /\ Evaluate(c1, u) = Coef(n, hu, j - 1)
        /\ c2 \in [1..n -> Int] /\ Evaluate(c2, u) = Coef(n, hu, j)
    BY <1>0, Zenon
  <1>4. Linear(n, s, 1, c1, -c, c2)
    <2> SUFFICES ASSUME NEW i \in 1..n PROVE Cong(s[i], 1 * c1[i] + (-c) * c2[i])
      BY Zenon DEF Linear
    <2> DEFINE x3 == Entry(n, H, i, j - 1)
               x4 == Entry(n, H, i, j)
    <2>1. s[i] = x3 - c * x4 /\ c1[i] = x3 /\ c2[i] = x4 /\ x3 \in Int /\ x4 \in Int
      <3>1. i \in Int
        OBVIOUS
      <3>2. x3 \in Int /\ x4 \in Int
        BY <3>1, EntryFacts, Zenon
      <3> QED
        BY <3>2, Zenon DEF Column
    <2> HIDE DEF s, c1, c2, x3, x4
    <2>2. x3 - c * x4 = 1 * x3 + (-c) * x4
      BY <2>1
    <2> QED
      BY <2>1, <2>2, Zenon DEF Cong
  <1> DEFINE vc == Evaluate(col, u)
             va == Evaluate(a, u)
             vr == Evaluate(r, u)
             vs == Evaluate(s, u)
             v1 == Coef(n, hu, j - 1)
             v2 == Coef(n, hu, j)
             b == IF j = 1 THEN Evaluate(p, u) ELSE 0
             z == IF j = 1 THEN e ELSE 0
             pj == p[j]
  <1>5. GetUnivariatePolynomial(F, u)[j] = vc
    <2>1. Len(F) = n + 1
      BY ExtendLength, Zenon
    <2> HIDE DEF F
    <2> QED
      BY <2>1, Zenon DEF GetUnivariatePolynomial
  <1>6. va = b
    <2>1. CASE j = 1
      <3>1. a = p
        BY <2>1, Zenon
      <3> QED
        BY <2>1, <3>1, Zenon
    <2>2. CASE j # 1
      <3>1. \A i \in 1..(n + 1) : a[i] = 0
        BY <2>2, Zenon
      <3> HIDE DEF a
      <3>2. va = 0
        BY <3>1, EvaluateZero, Zenon
      <3> QED
        BY <2>2, <3>2, Zenon
    <2> QED
      BY <2>1, <2>2, Zenon
  <1> vc \in Int /\ va \in Int /\ vr \in Int /\ vs \in Int /\ v1 \in Int /\ v2 \in Int
    <2> HIDE DEF col, a, r, s, hu, c1, c2
    <2>1. vc \in Int /\ va \in Int /\ vr \in Int
      BY <1>2, EvaluateType, Zenon
    <2>2. vs \in Int /\ Evaluate(c1, u) \in Int /\ Evaluate(c2, u) \in Int
      BY <1>3, EvaluateType, Zenon
    <2> QED
      BY <1>3, <2>1, <2>2, Zenon
  <1>7. Cong(vc, 1 * va + 1 * vr)
    <2>1. 1 \in Int
      OBVIOUS
    <2> HIDE DEF col, a, r
    <2> QED
      BY <1>2, <2>1, EvaluateLinear, Zenon
  <1>8. Cong(vr, e1 + (u - c) * vs)
    <2> HIDE DEF r, s, e1
    <2> QED
      BY <1>1, EvaluateFactor, Zenon
  <1>9. Cong(vs, 1 * v1 + (-c) * v2)
    <2>1. 1 \in Int /\ -c \in Int
      BY <1>0
    <2> HIDE DEF s, c1, c2, hu
    <2>2. Cong(vs, 1 * Evaluate(c1, u) + (-c) * Evaluate(c2, u))
      BY <1>3, <1>4, <2>1, EvaluateLinear, Zenon
    <2> QED
      BY <1>3, <2>2, Zenon
  <1>10. z \in Int /\ pj \in Int /\ e1 = pj - z /\ (IF j = 1 THEN Evaluate(p, u) - e ELSE 0) = b - z
    <2>1. CASE j = 1
      BY <2>1, Zenon
    <2>2. CASE j # 1
      BY <2>2
    <2> QED
      BY <2>1, <2>2, Zenon
  <1>11. b \in Int
    BY <1>6, Zenon
  <1> HIDE DEF vc, va, vr, vs, v1, v2, b, z, pj, e1
  <1>12. Cong(vc, pj + (b - z) + (u - c) * (v1 - c * v2))
    <2>1. PICK d1 \in Int : vc = 1 * va + 1 * vr + d1 * Prime
      BY <1>7, CongMultiple
    <2>2. PICK d2 \in Int : vr = e1 + (u - c) * vs + d2 * Prime
      BY <1>8, CongMultiple
    <2>3. PICK d3 \in Int : vs = 1 * v1 + (-c) * v2 + d3 * Prime
      BY <1>9, CongMultiple
    <2> DEFINE k == u - c
               y == v1 - c * v2
               d == d1 + d2 + k * d3
    <2>4. k \in Int /\ y \in Int /\ vs = y + d3 * Prime
      BY <2>3
    <2>5. vr = e1 + k * vs + d2 * Prime /\ (u - c) * (v1 - c * v2) = k * y
      BY <2>2, Zenon
    <2> HIDE DEF k, y
    <2>6. /\ vc = (pj + (b - z) + k * y) + d * Prime
          /\ d \in Int /\ pj + (b - z) + k * y \in Int
      BY <1>6, <1>10, <1>11, <2>1, <2>4, <2>5, PrimeFacts
    <2> HIDE DEF d
    <2>7. Cong(vc, pj + (b - z) + k * y)
      BY <2>6, CongMultiple, Zenon
    <2> QED
      BY <2>5, <2>7, Zenon
  <1> QED
    BY <1>5, <1>10, <1>12, Zenon DEF pj, v1, v2

\* q is p + (u - c) (x - c) h, up to the constant that makes it right at c.
Quotient(n, q, p, u, c, h) ==
    \A j \in 1..(n + 1) :
        Cong(q[j], p[j] + (u - c) * (Coef(n, h, j - 1) - c * Coef(n, h, j))
                     + (IF j = 1 THEN Evaluate(q, c) - Evaluate(p, c) ELSE 0))

\* The difference of two polynomials.
Minus(n, q, p) == [j \in 1..n |-> q[j] - p[j]]

\* The value of a difference.
LEMMA EvaluateMinus ==
    ASSUME NEW n \in Nat, NEW p \in [1..n -> Int], NEW q \in [1..n -> Int], NEW x \in Int
    PROVE  /\ Minus(n, q, p) \in [1..n -> Int]
           /\ Evaluate(p, x) \in Int /\ Evaluate(q, x) \in Int /\ Evaluate(Minus(n, q, p), x) \in Int
           /\ Cong(Evaluate(Minus(n, q, p), x), Evaluate(q, x) - Evaluate(p, x))
  <1> DEFINE g == Minus(n, q, p)
             vq == Evaluate(q, x)
             vp == Evaluate(p, x)
  <1> g \in [1..n -> Int]
    BY DEF Minus
  <1>1. Linear(n, g, 1, q, -1, p)
    <2> SUFFICES ASSUME NEW j \in 1..n PROVE Cong(g[j], 1 * q[j] + (-1) * p[j])
      BY Zenon DEF Linear
    <2> DEFINE x1 == q[j]
               x2 == p[j]
    <2>1. x1 \in Int /\ x2 \in Int /\ g[j] = x1 - x2
      BY Zenon DEF Minus
    <2> HIDE DEF x1, x2
    <2>2. x1 - x2 = 1 * x1 + (-1) * x2
      BY <2>1
    <2>3. g[j] = 1 * q[j] + (-1) * p[j]
      BY <2>1, <2>2, Zenon DEF x1, x2
    <2> QED
      BY <2>3, Zenon DEF Cong
  <1> HIDE DEF g
  <1>2. 1 \in Int /\ -1 \in Int
    OBVIOUS
  <1>3. Cong(Evaluate(g, x), 1 * vq + (-1) * vp)
    BY <1>1, <1>2, EvaluateLinear, Zenon
  <1> vq \in Int /\ vp \in Int /\ Evaluate(g, x) \in Int
    BY EvaluateType, Zenon
  <1> HIDE DEF vq, vp
  <1>4. 1 * vq + (-1) * vp = vq - vp
    OBVIOUS
  <1> QED
    BY <1>3, <1>4, Zenon DEF vq, vp, g

\* Every polynomial q has a quotient over p.
LEMMA QuotientExists ==
    ASSUME NEW n \in Nat, NEW p \in [1..(n + 1) -> Field], NEW q \in [1..(n + 1) -> Field],
           NEW u \in Field, NEW c \in Field, u # c
    PROVE  \E h \in [1..n -> Field] : Quotient(n, q, p, u, c, h)
  <1> DEFINE g == Minus(n + 1, q, p)
             k == u - c
             inv == ModInverse(k)
             e == Evaluate(q, c) - Evaluate(p, c)
             eg == Evaluate(g, c)
  <1> n + 1 \in Nat /\ u \in Int /\ c \in Int /\ p \in [1..(n + 1) -> Int] /\ q \in [1..(n + 1) -> Int]
    <2>1. n + 1 \in Nat /\ u \in Int /\ c \in Int
      BY PrimeFacts
    <2>2. p \in [1..(n + 1) -> Int] /\ q \in [1..(n + 1) -> Int]
      BY FieldFunction, Zenon
    <2> QED
      BY <2>1, <2>2, Zenon
  <1>1. g \in [1..(n + 1) -> Int] /\ e \in Int /\ eg \in Int /\ Cong(eg, e)
    <2>1. /\ g \in [1..(n + 1) -> Int]
          /\ Evaluate(p, c) \in Int /\ Evaluate(q, c) \in Int /\ eg \in Int /\ Cong(eg, e)
      BY EvaluateMinus, Zenon
    <2> QED
      BY <2>1, SMTT(30)
  <1>2. k \in Int /\ ~Cong(k, 0)
    BY DistinctPoints
  <1> HIDE DEF k
  <1>3. inv \in Int /\ Cong(k * inv, 1)
    BY <1>2, ModInverseFacts, Zenon
  <1>4. PICK d \in [1..n -> Field] : Factor(n, g, d, c, eg)
    <2> HIDE DEF g
    <2> QED
      BY <1>1, Division, Zenon
  <1> HIDE DEF inv
  <1>5. d \in [1..n -> Int]
    BY FieldFunction, Zenon
  <1> DEFINE h == [j \in 1..n |-> (inv * d[j]) % Prime]
  <1>6. ASSUME NEW j \in 1..n
        PROVE  h[j] \in Field /\ h[j] \in Int /\ d[j] \in Int /\ Cong(k * h[j], d[j])
    <2> DEFINE dj == d[j]
               w == (inv * dj) % Prime
    <2>1. dj \in Int /\ h[j] = w
      BY <1>5, Zenon
    <2> HIDE DEF dj
    <2> inv * dj \in Int
      BY <1>3, <2>1
    <2>2. w \in Field /\ w \in Int /\ Cong(w, inv * dj)
      BY CongMod, Zenon
    <2> HIDE DEF w
    <2>3. PICK d1 \in Int : w = inv * dj + d1 * Prime
      BY <2>2, CongMultiple, Zenon
    <2> k * inv \in Int /\ 1 \in Int
      BY <1>2, <1>3
    <2>4. PICK d2 \in Int : k * inv = 1 + d2 * Prime
      BY <1>3, CongMultiple, Zenon
    <2> DEFINE d3 == k * d1 + d2 * dj
    <2>5. k * w = (k * inv) * dj + k * d1 * Prime
      BY <1>2, <1>3, <2>1, <2>3, PrimeFacts
    <2>6. (k * inv) * dj = dj + d2 * dj * Prime
      BY <2>1, <2>4, PrimeFacts
    <2>7. k * w = dj + d3 * Prime /\ d3 \in Int /\ k * w \in Int
      BY <1>2, <2>1, <2>2, <2>5, <2>6, PrimeFacts, SMTT(30)
    <2> HIDE DEF d3
    <2>8. Cong(k * w, dj)
      BY <2>1, <2>7, CongMultiple, Zenon
    <2> QED
      BY <2>1, <2>2, <2>8, Zenon DEF dj
  <1> h \in [1..n -> Field]
    BY <1>6, Zenon
  <1>7. h \in [1..n -> Int]
    BY FieldFunction, Zenon
  <1>8. ASSUME NEW j \in Int
         PROVE  /\ Coef(n, h, j) \in Int /\ Coef(n, d, j) \in Int
                /\ Cong(k * Coef(n, h, j), Coef(n, d, j))
    <2>1. CASE j \in 1..n
      BY <1>6, <2>1, Zenon DEF Coef
    <2>2. CASE j \notin 1..n
      BY <1>2, <2>2 DEF Coef, Cong
    <2> QED
      BY <2>1, <2>2, Zenon
  <1> HIDE DEF h
  <1>9. ASSUME NEW j \in 1..(n + 1)
         PROVE  Cong(q[j], p[j] + (u - c) * (Coef(n, h, j - 1) - c * Coef(n, h, j))
                             + (IF j = 1 THEN Evaluate(q, c) - Evaluate(p, c) ELSE 0))
    <2> DEFINE h1 == Coef(n, h, j - 1)
               h2 == Coef(n, h, j)
               d1 == Coef(n, d, j - 1)
               d2 == Coef(n, d, j)
               qj == q[j]
               pj == p[j]
               z == IF j = 1 THEN e ELSE 0
               zg == IF j = 1 THEN eg ELSE 0
    <2>1. j \in Int /\ j - 1 \in Int
      OBVIOUS
    <2>2. /\ h1 \in Int /\ h2 \in Int /\ d1 \in Int /\ d2 \in Int
          /\ Cong(k * h1, d1) /\ Cong(k * h2, d2)
      BY <1>8, <2>1, Zenon
    <2>3. qj \in Int /\ pj \in Int /\ g[j] = qj - pj
      BY Zenon DEF Minus
    <2>4. z \in Int /\ zg \in Int /\ Cong(zg, z)
      <3> HIDE DEF e, eg
      <3> QED
        BY <1>1 DEF Cong
    <2>5. Cong(g[j], d1 - c * d2 + zg)
      BY <1>4, Zenon DEF Factor
    <2> HIDE DEF h1, h2, d1, d2, qj, pj, z, zg, g
    <2>6. Cong(qj - pj, d1 - c * d2 + zg)
      BY <2>3, <2>5, Zenon
    <2>7. PICK a1 \in Int : k * h1 = d1 + a1 * Prime
      BY <1>2, <2>2, CongMultiple
    <2>8. PICK a2 \in Int : k * h2 = d2 + a2 * Prime
      BY <1>2, <2>2, CongMultiple
    <2>9. PICK a3 \in Int : zg = z + a3 * Prime
      BY <2>4, CongMultiple, Zenon
    <2>10. PICK a4 \in Int : qj - pj = (d1 - c * d2 + zg) + a4 * Prime
      <3>1. qj - pj \in Int /\ d1 - c * d2 + zg \in Int
        BY <2>2, <2>3, <2>4
      <3> QED
        BY <2>6, <3>1, CongMultiple, Zenon
    <2> DEFINE a == a3 + a4 - a1 + c * a2
    <2>11. k * (h1 - c * h2) = k * h1 - c * (k * h2)
      BY <1>2, <2>2
    <2>12. qj = (pj + k * (h1 - c * h2) + z) + a * Prime /\ a \in Int
      <3>1. k * (h1 - c * h2) = (d1 - c * d2) + (a1 - c * a2) * Prime
        <4>1. c * (k * h2) = c * d2 + c * a2 * Prime
          BY <2>2, <2>8, PrimeFacts
        <4> QED
          BY <2>2, <2>7, <2>11, <4>1, PrimeFacts
      <3> DEFINE y == k * (h1 - c * h2)
                 v == d1 - c * d2
                 m == a1 - c * a2
      <3>2. y \in Int /\ v \in Int /\ m \in Int /\ y = v + m * Prime /\ a = a3 + a4 - m
        BY <1>2, <2>2, <3>1
      <3>3. qj - pj = (v + zg) + a4 * Prime
        BY <2>10, Zenon
      <3> HIDE DEF y, v, m, a
      <3>4. a \in Int
        BY <3>2
      <3>5. qj = (pj + y + z) + a * Prime
        BY <2>3, <2>4, <2>9, <3>2, <3>3, PrimeFacts
      <3> QED
        BY <3>4, <3>5, Zenon DEF y
    <2>13. pj + k * (h1 - c * h2) + z \in Int
      BY <1>2, <2>2, <2>3, <2>4
    <2> HIDE DEF a
    <2>14. Cong(qj, pj + k * (h1 - c * h2) + z)
      BY <2>3, <2>12, <2>13, CongMultiple, Zenon
    <2> QED
      BY <2>14, Zenon DEF qj, pj, k, h1, h2, z
  <1>10. Quotient(n, q, p, u, c, h)
    BY <1>9, Zenon DEF Quotient
  <1> QED
    BY <1>10, Zenon

\* The value of a polynomial from that of its quotient.
LEMMA EvaluateQuotient ==
    ASSUME NEW n \in Nat, NEW p \in [1..(n + 1) -> Int], NEW q \in [1..(n + 1) -> Int],
           NEW u \in Int, NEW c \in Int, NEW x \in Int,
           NEW h \in [1..n -> Int], Quotient(n, q, p, u, c, h)
    PROVE  Cong(Evaluate(q, x) - Evaluate(p, x),
                (u - c) * (x - c) * Evaluate(h, x) + (Evaluate(q, c) - Evaluate(p, c)))
  <1> DEFINE g == Minus(n + 1, q, p)
             k == u - c
             s == [j \in 1..n |-> k * h[j]]
             e == Evaluate(q, c) - Evaluate(p, c)
             vq == Evaluate(q, x)
             vp == Evaluate(p, x)
             vg == Evaluate(g, x)
             vs == Evaluate(s, x)
             vh == Evaluate(h, x)
  <1> n + 1 \in Nat /\ k \in Int /\ 0 \in Int
    OBVIOUS
  <1>1. g \in [1..(n + 1) -> Int] /\ vp \in Int /\ vq \in Int /\ vg \in Int /\ Cong(vg, vq - vp)
    BY EvaluateMinus, Zenon
  <1> e \in Int
    <2>1. Evaluate(q, c) \in Int /\ Evaluate(p, c) \in Int
      BY EvaluateType, Zenon
    <2> QED
      BY <2>1
  <1> s \in [1..n -> Int]
    <2> HIDE DEF k
    <2> QED
      OBVIOUS
  <1> vs \in Int /\ vh \in Int
    <2> HIDE DEF s
    <2> QED
      BY EvaluateType, Zenon
  <1>2. Cong(vs, k * vh + 0 * vh)
    <2>1. Linear(n, s, k, h, 0, h)
      <3> SUFFICES ASSUME NEW j \in 1..n PROVE Cong(s[j], k * h[j] + 0 * h[j])
        BY Zenon DEF Linear
      <3> DEFINE hj == h[j]
      <3>1. hj \in Int /\ s[j] = k * hj
        BY Zenon
      <3> HIDE DEF hj, k, s
      <3>2. k * hj + 0 * hj = k * hj
        BY <3>1
      <3> QED
        BY <3>1, <3>2, Zenon DEF Cong, hj
    <2> HIDE DEF s, k
    <2> QED
      BY <2>1, EvaluateLinear, Zenon
  <1>3. Factor(n, g, s, c, e)
    <2> SUFFICES ASSUME NEW j \in 1..(n + 1)
                 PROVE  Cong(g[j], Coef(n, s, j - 1) - c * Coef(n, s, j) + (IF j = 1 THEN e ELSE 0))
      BY Zenon DEF Factor
    <2> DEFINE h1 == Coef(n, h, j - 1)
               h2 == Coef(n, h, j)
               z == IF j = 1 THEN e ELSE 0
               qj == q[j]
               pj == p[j]
    <2> h1 \in Int /\ h2 \in Int
      BY Zenon DEF Coef
    <2>1. Coef(n, s, j - 1) = k * h1
      <3> HIDE DEF k
      <3>1. CASE j - 1 \in 1..n
        BY <3>1, Zenon DEF Coef
      <3>2. CASE j - 1 \notin 1..n
        BY <3>2 DEF Coef
      <3> QED
        BY <3>1, <3>2, Zenon
    <2>2. Coef(n, s, j) = k * h2
      <3> HIDE DEF k
      <3>1. CASE j \in 1..n
        BY <3>1, Zenon DEF Coef
      <3>2. CASE j \notin 1..n
        BY <3>2 DEF Coef
      <3> QED
        BY <3>1, <3>2, Zenon
    <2>3. qj \in Int /\ pj \in Int /\ g[j] = qj - pj
      BY Zenon DEF Minus
    <2> z \in Int
      <3> HIDE DEF e
      <3> QED
        BY Zenon
    <2>4. Cong(qj, pj + k * (h1 - c * h2) + z)
      BY Zenon DEF Quotient
    <2> HIDE DEF h1, h2, z, qj, pj, k, g, s, e
    <2>5. PICK d \in Int : qj = (pj + k * (h1 - c * h2) + z) + d * Prime
      <3>1. pj + k * (h1 - c * h2) + z \in Int
        BY <2>3
      <3> QED
        BY <2>3, <2>4, <3>1, CongMultiple
    <2>6. k * (h1 - c * h2) = k * h1 - c * (k * h2)
      OBVIOUS
    <2> DEFINE y == k * h1 - c * (k * h2)
    <2>7. y \in Int /\ qj = (pj + y + z) + d * Prime
      BY <2>5, <2>6
    <2> HIDE DEF y
    <2>8. qj - pj = (y + z) + d * Prime /\ y + z \in Int /\ qj - pj \in Int
      BY <2>3, <2>7, PrimeFacts
    <2>9. Cong(qj - pj, y + z)
      BY <2>8, CongMultiple, Zenon
    <2> QED
      BY <2>1, <2>2, <2>3, <2>9, Zenon DEF y, z
  <1>4. Cong(vg, e + (x - c) * vs)
    <2> HIDE DEF g, s, e
    <2> QED
      BY <1>1, <1>3, EvaluateFactor, Zenon
  <1> DEFINE m == x - c
  <1>5. m \in Int /\ Cong(vg, e + m * vs) /\ (u - c) * (x - c) * Evaluate(h, x) = k * m * vh
    BY <1>4
  <1> HIDE DEF g, s, k, e, vq, vp, vg, vs, vh, m
  <1>6. PICK d1 \in Int : vg = (vq - vp) + d1 * Prime
    <2>1. vq - vp \in Int
      BY <1>1
    <2> QED
      BY <1>1, <2>1, CongMultiple, Zenon
  <1>7. PICK d2 \in Int : vg = (e + m * vs) + d2 * Prime
    <2>1. e + m * vs \in Int
      BY <1>5
    <2> QED
      BY <1>1, <1>5, <2>1, CongMultiple, Zenon
  <1>8. PICK d3 \in Int : vs = k * vh + d3 * Prime
    <2>1. k * vh + 0 * vh = k * vh /\ k * vh \in Int
      OBVIOUS
    <2>2. Cong(vs, k * vh)
      BY <1>2, <2>1, Zenon
    <2> QED
      BY <2>1, <2>2, CongMultiple
  <1> DEFINE d == d2 + m * d3 - d1
             y == k * m * vh
  <1>9. m * vs = y + m * d3 * Prime /\ y \in Int /\ m * d3 \in Int
    BY <1>5, <1>8, PrimeFacts
  <1>10. vq - vp = (y + e) + d * Prime /\ d \in Int /\ vq - vp \in Int /\ y + e \in Int
    <2> DEFINE w == m * d3
               t == m * vs
    <2>1. t = y + w * Prime /\ w \in Int /\ y \in Int /\ vg = (e + t) + d2 * Prime /\ d = d2 + w - d1
      BY <1>7, <1>9, Zenon
    <2> HIDE DEF w, t, y, d
    <2>2. d \in Int /\ vq - vp \in Int /\ y + e \in Int
      BY <1>1, <2>1
    <2>3. vq - vp = (y + e) + d * Prime
      BY <1>1, <1>6, <2>1, PrimeFacts
    <2> QED
      BY <2>2, <2>3, Zenon
  <1> HIDE DEF d, y
  <1>11. Cong(vq - vp, y + e)
    BY <1>10, CongMultiple, Zenon
  <1> QED
    BY <1>5, <1>11, Zenon DEF y, vq, vp, e

\* Slices that agree where they cross.
Fitting(n, M, f) ==
    /\ f \in [M -> [1..n -> Field]]
    /\ \A u, v \in M : Evaluate(f[u], v) = Evaluate(f[v], u)

\* Slice q at u, its quotient h over the slice p at c, and the two slices agreeing
\* where they cross.
Divided(n, p, c, u, q, h) ==
    /\ c \in Field /\ p \in [1..(n + 1) -> Field]
    /\ u \in Field /\ u # c /\ q \in [1..(n + 1) -> Field]
    /\ h \in [1..n -> Field] /\ Quotient(n, q, p, u, c, h)
    /\ Evaluate(q, c) = Evaluate(p, u)

\* The quotients of slices that fit over one of them fit.
LEMMA QuotientsFit ==
    ASSUME NEW n \in Nat, NEW p, NEW c,
           NEW u, NEW q, NEW h, Divided(n, p, c, u, q, h),
           NEW v, NEW r, NEW k, Divided(n, p, c, v, r, k),
           Evaluate(q, v) = Evaluate(r, u)
    PROVE  Evaluate(h, v) = Evaluate(k, u)
  <1>0. /\ c \in Field /\ p \in [1..(n + 1) -> Field]
        /\ u \in Field /\ u # c /\ q \in [1..(n + 1) -> Field]
        /\ h \in [1..n -> Field] /\ Quotient(n, q, p, u, c, h)
        /\ v \in Field /\ v # c /\ r \in [1..(n + 1) -> Field]
        /\ k \in [1..n -> Field] /\ Quotient(n, r, p, v, c, k)
        /\ Evaluate(q, c) = Evaluate(p, u) /\ Evaluate(r, c) = Evaluate(p, v)
    BY Zenon DEF Divided
  <1> n + 1 \in Nat /\ c \in Int /\ u \in Int /\ v \in Int
    BY <1>0, PrimeFacts
  <1> p \in [1..(n + 1) -> Int] /\ q \in [1..(n + 1) -> Int] /\ r \in [1..(n + 1) -> Int]
    BY <1>0, FieldFunction, Zenon
  <1> h \in [1..n -> Int] /\ k \in [1..n -> Int]
    BY <1>0, FieldFunction, Zenon
  <1> DEFINE E == Evaluate(q, v)
             pu == Evaluate(p, u)
             pv == Evaluate(p, v)
             pc == Evaluate(p, c)
             hv == Evaluate(h, v)
             ku == Evaluate(k, u)
             a == u - c
             b == v - c
  <1>1. Cong(E - pv, a * b * hv + (pu - pc))
    BY <1>0, EvaluateQuotient, Zenon
  <1>2. Cong(E - pu, b * a * ku + (pv - pc))
    BY <1>0, EvaluateQuotient, Zenon
  <1> E \in Int /\ pu \in Int /\ pv \in Int /\ pc \in Int
    BY EvaluateType, Zenon
  <1> hv \in Int /\ ku \in Int /\ hv \in Field /\ ku \in Field
    BY EvaluateType, Zenon
  <1>3. a \in Int /\ b \in Int /\ ~Cong(a, 0) /\ ~Cong(b, 0)
    BY <1>0, DistinctPoints
  <1> HIDE DEF E, pu, pv, pc, hv, ku, a, b
  <1> DEFINE w == a * b
  <1>4. w \in Int /\ ~Cong(w, 0) /\ a * b * hv = w * hv /\ b * a * ku = w * ku
    <2>1. ~Cong(w, 0)
      BY <1>3, NonZeroProduct, Zenon
    <2> QED
      BY <1>3, <2>1
  <1> HIDE DEF w
  <1> DEFINE x == w * hv
             y == w * ku
  <1>5. x \in Int /\ y \in Int /\ Cong(E - pv, x + (pu - pc)) /\ Cong(E - pu, y + (pv - pc))
    BY <1>1, <1>2, <1>4, SMTT(30)
  <1> HIDE DEF x, y
  <1>6. PICK d1 \in Int : E - pv = (x + (pu - pc)) + d1 * Prime
    <2>1. E - pv \in Int /\ x + (pu - pc) \in Int
      BY <1>5
    <2> QED
      BY <1>5, <2>1, CongMultiple, Zenon
  <1>7. PICK d2 \in Int : E - pu = (y + (pv - pc)) + d2 * Prime
    <2>1. E - pu \in Int /\ y + (pv - pc) \in Int
      BY <1>5
    <2> QED
      BY <1>5, <2>1, CongMultiple, Zenon
  <1>8. x = y + (d2 - d1) * Prime /\ d2 - d1 \in Int
    BY <1>5, <1>6, <1>7, PrimeFacts, SMTT(30)
  <1>9. Cong(x, y)
    BY <1>5, <1>8, CongMultiple, Zenon
  <1>10. Cong(hv, ku)
    BY <1>4, <1>9, Cancel, Zenon DEF x, y
  <1>11. hv = ku
    BY <1>10, ModSmall, Zenon DEF Cong
  <1> QED
    BY <1>11, Zenon DEF hv, ku

\* The slices of F at the points of M are those of f.
SlicesOf(n, F, M, f) == Symmetric(n, F) /\ \A u \in M : GetUnivariatePolynomial(F, u) = f[u]

\* A slice of the extended matrix is the polynomial the quotient was taken of.
LEMMA ExtendFits ==
    ASSUME NEW n \in Nat, NEW H, Symmetric(n, H), NEW p \in [1..(n + 1) -> Field], NEW c \in Field,
           NEW u \in Field, NEW q \in [1..(n + 1) -> Field], Evaluate(q, c) = Evaluate(p, u),
           \/ u = c /\ q = p
           \/ Quotient(n, q, p, u, c, GetUnivariatePolynomial(H, u))
    PROVE  GetUnivariatePolynomial(Extend(n, H, p, c, Evaluate(p, c)), u) = q
  <1> DEFINE e == Evaluate(p, c)
             F == Extend(n, H, p, c, e)
             hu == GetUnivariatePolynomial(H, u)
             g == GetUnivariatePolynomial(F, u)
  <1> n + 1 \in Nat /\ c \in Int /\ u \in Int
    BY PrimeFacts
  <1> p \in [1..(n + 1) -> Int] /\ q \in [1..(n + 1) -> Int] /\ H \in [1..n -> [1..n -> Field]]
    BY FieldFunction, Zenon DEF Symmetric
  <1> e \in Int /\ Evaluate(p, u) \in Int
    BY EvaluateType, Zenon
  <1>1. hu \in [1..n -> Field]
    BY ColumnValue, Zenon
  <1>2. hu \in [1..n -> Int]
    BY <1>1, FieldFunction, Zenon
  <1>3. Symmetric(n + 1, F)
    BY ExtendSymmetric, Zenon
  <1> g \in [1..(n + 1) -> Field]
    <2>1. F \in [1..(n + 1) -> [1..(n + 1) -> Field]]
      BY <1>3, Zenon DEF Symmetric
    <2> HIDE DEF F
    <2> QED
      BY <2>1, ColumnValue, Zenon
  <1>4. ASSUME NEW j \in 1..(n + 1) PROVE g[j] = q[j]
    <2> DEFINE h1 == Coef(n, hu, j - 1)
               h2 == Coef(n, hu, j)
               gj == g[j]
               qj == q[j]
               pj == p[j]
               z == IF j = 1 THEN Evaluate(p, u) - e ELSE 0
               k == u - c
    <2> h1 \in Int /\ h2 \in Int
      <3> HIDE DEF hu
      <3> QED
        BY <1>2 DEF Coef
    <2> gj \in Field /\ qj \in Field /\ gj \in Int /\ qj \in Int /\ pj \in Int /\ k \in Int
      <3>1. gj \in Field /\ qj \in Field /\ pj \in Field
        <4> HIDE DEF g
        <4> QED
          BY Zenon
      <3>2. k \in Int
        OBVIOUS
      <3> QED
        BY <3>1, <3>2, PrimeFacts, Zenon
    <2>1. z \in Int
      <3> HIDE DEF e
      <3> QED
        OBVIOUS
    <2>2. Cong(gj, pj + z + k * (h1 - c * h2))
      <3> HIDE DEF e
      <3> QED
        BY ExtendSlice, Zenon
    <2>3. CASE u = c /\ q = p
      <3>1. k = 0 /\ z = 0 /\ qj = pj
        BY <2>3
      <3> HIDE DEF h1, h2, gj, qj, pj, z, k
      <3>2. pj + z + k * (h1 - c * h2) = qj
        BY <3>1
      <3>3. Cong(gj, qj)
        BY <2>2, <3>2, Zenon
      <3>4. gj = qj
        BY <3>3, ModSmall, Zenon DEF Cong
      <3> QED
        BY <3>4, Zenon DEF gj, qj
    <2>4. CASE Quotient(n, q, p, u, c, hu)
      <3>1. Cong(qj, pj + k * (h1 - c * h2) + z)
        BY <2>4, Zenon DEF Quotient
      <3> HIDE DEF h1, h2, gj, qj, pj, z, k
      <3>2. pj + k * (h1 - c * h2) + z = pj + z + k * (h1 - c * h2)
        <4> DEFINE y == k * (h1 - c * h2)
        <4>1. y \in Int
          OBVIOUS
        <4> HIDE DEF y
        <4>2. pj + y + z = pj + z + y
          BY <2>1, <4>1
        <4> QED
          BY <4>2, Zenon DEF y
      <3>3. Cong(gj, qj)
        BY <2>2, <3>1, <3>2, Zenon DEF Cong
      <3>4. gj = qj
        BY <3>3, ModSmall, Zenon DEF Cong
      <3> QED
        BY <3>4, Zenon DEF gj, qj
    <2> QED
      BY <2>3, <2>4, Zenon
  <1> HIDE DEF g
  <1>5. g = q
    BY <1>4
  <1> QED
    BY <1>5, Zenon DEF g

-----------------------------------------------------------------------------

(***************************************************************************)
(* Polynomials that fit at a finite set of points are slices of one        *)
(* symmetric polynomial.                                                   *)
(***************************************************************************)

\* Induction over finite sets, with the sets that have the property as a set: a
\* set has it if it has it without any one of its elements.
LEMMA RemovalInduction ==
    ASSUME NEW D, IsFiniteSet(D), NEW Q, {} \in Q,
           \A X \in SUBSET D : X # {} /\ (\A x \in X : X \ {x} \in Q) => X \in Q
    PROVE  SUBSET D \subseteq Q
  <1> DEFINE S == {n \in Nat : \A X \in SUBSET D : Cardinality(X) = n => X \in Q}
  <1>1. 0 \in S
    BY FS_EmptySet, FS_Subset, Zenon
  <1>2. ASSUME NEW n \in Nat, n \in S PROVE n + 1 \in S
    <2> SUFFICES ASSUME NEW X \in SUBSET D, Cardinality(X) = n + 1 PROVE X \in Q
      OBVIOUS
    <2>1. IsFiniteSet(X)
      BY FS_Subset, Zenon
    <2>2. X # {}
      <3>1. Cardinality({}) = 0
        BY FS_EmptySet, Zenon
      <3> QED
        BY <3>1
    <2>3. ASSUME NEW x \in X PROVE X \ {x} \in Q
      <3>1. Cardinality(X \ {x}) = Cardinality(X) - 1
        BY <2>1, <2>3, FS_RemoveElement, Zenon
      <3>2. Cardinality(X \ {x}) = n
        BY <3>1
      <3> QED
        BY <1>2, <3>2, Zenon
    <2> QED
      BY <2>2, <2>3, Zenon
  <1>3. Nat \subseteq S
    <2> HIDE DEF S
    <2> QED
      BY <1>1, <1>2, SetInduction, Zenon
  <1>4. ASSUME NEW X \in SUBSET D PROVE X \in Q
    <2>1. Cardinality(X) \in Nat
      BY FS_Subset, FS_CardinalityType, Zenon
    <2> QED
      BY <1>3, <2>1, Zenon
  <1> QED
    BY <1>4, Zenon

\* Points at which a polynomial can be interpolated to its value at 0.
Points(A) == IsFiniteSet(A) /\ A \subseteq 1..(Prime - 1)

\* Points are elements of the field other than 0, and they stay so when one is removed.
LEMMA PointsFacts ==
    ASSUME NEW A, Points(A)
    PROVE  /\ IsFiniteSet(A) /\ A \subseteq Field /\ A \subseteq Int
           /\ \A c : Points(A \ {c})
  <1>1. IsFiniteSet(A) /\ A \subseteq 1..(Prime - 1)
    BY Zenon DEF Points
  <1>2. A \subseteq Field
    BY <1>1, PrimeFacts DEF Field
  <1>3. \A c : IsFiniteSet(A \ {c})
    BY <1>1, FS_RemoveElement, Zenon
  <1> QED
    BY <1>1, <1>2, <1>3, PrimeFacts, Zenon DEF Points

\* Slices that agree wherever they cross, at as many points as they have
\* coefficients or more, are slices of one symmetric polynomial: what
\* verifyMSet's EQUAL messages certify about an M-set is enough for its members to
\* hold shares of a single secret.
THEOREM SymmetricExists ==
    ASSUME NEW n \in Nat, NEW M, Points(M), n <= Cardinality(M), NEW f, Fitting(n, M, f)
    PROVE  \E F : SlicesOf(n, F, M, f)
  <1> DEFINE Good(m) == \A B, g : Points(B) /\ m <= Cardinality(B) /\ Fitting(m, B, g)
                                     => \E F : SlicesOf(m, F, B, g)
             S == {m \in Nat : Good(m)}
  <1>1. Good(0)
    <2> SUFFICES ASSUME NEW B, NEW g, Fitting(0, B, g)
                 PROVE  \E F : SlicesOf(0, F, B, g)
      BY Zenon
    <2> DEFINE F == [i \in 1..0 |-> [j \in 1..0 |-> 0]]
    <2>1. Symmetric(0, F)
      BY DEF Symmetric
    <2>2. ASSUME NEW u \in B PROVE GetUnivariatePolynomial(F, u) = g[u]
      <3>1. Len(F) = 0
        <4>1. F \in [1..0 -> [1..0 -> Field]]
          BY <2>1, Zenon DEF Symmetric
        <4>2. 0 \in Nat
          BY Zenon
        <4> HIDE DEF F
        <4> QED
          BY <4>1, <4>2, LenOfFunction, Zenon
      <3>2. g[u] \in [1..0 -> Field]
        BY Zenon DEF Fitting
      <3> HIDE DEF F
      <3> QED
        BY <3>1, <3>2 DEF GetUnivariatePolynomial
    <2> HIDE DEF F
    <2> QED
      BY <2>1, <2>2, Zenon DEF SlicesOf
  <1>2. ASSUME NEW m \in Nat, Good(m) PROVE Good(m + 1)
    <2> SUFFICES ASSUME NEW A, NEW g, Points(A), m + 1 <= Cardinality(A), Fitting(m + 1, A, g)
                 PROVE  \E F : SlicesOf(m + 1, F, A, g)
      BY Zenon
    <2>1. IsFiniteSet(A) /\ A # {} /\ Cardinality(A) \in Nat
      <3>1. IsFiniteSet(A) /\ Cardinality(A) \in Nat
        BY PointsFacts, FS_CardinalityType, Zenon
      <3>2. Cardinality({}) = 0
        BY FS_EmptySet, Zenon
      <3>3. A # {}
        BY <3>1, <3>2
      <3> QED
        BY <3>1, <3>3, Zenon
    <2>2. PICK c \in A : TRUE
      BY <2>1, Zenon
    <2> DEFINE B == A \ {c}
               p == g[c]
               h == [u \in B |-> CHOOSE k \in [1..m -> Field] : Quotient(m, g[u], p, u, c, k)]
    <2>3. Points(B) /\ m <= Cardinality(B)
      <3>1. Cardinality(B) = Cardinality(A) - 1
        BY <2>1, FS_RemoveElement, Zenon
      <3>2. m <= Cardinality(A) - 1
        BY <2>1
      <3> QED
        BY <3>1, <3>2, PointsFacts, Zenon
    <2>4. \A u \in A : u \in Field /\ g[u] \in [1..(m + 1) -> Field]
      BY PointsFacts, Zenon DEF Fitting
    <2>5. \A u, v \in A : Evaluate(g[u], v) = Evaluate(g[v], u)
      BY Zenon DEF Fitting
    <2>6. ASSUME NEW u \in B
          PROVE  h[u] \in [1..m -> Field] /\ Quotient(m, g[u], p, u, c, h[u])
      <3>1. u \in A /\ u # c
        BY Zenon
      <3>2. \E k \in [1..m -> Field] : Quotient(m, g[u], p, u, c, k)
        BY <2>4, <3>1, QuotientExists, Zenon
      <3>3. h[u] = CHOOSE k \in [1..m -> Field] : Quotient(m, g[u], p, u, c, k)
        BY Zenon
      <3> HIDE DEF h
      <3> QED
        BY <3>2, <3>3, Zenon
    <2>7. h \in [B -> [1..m -> Field]]
      <3>1. h = [u \in B |-> h[u]]
        BY SMTT(30)
      <3> HIDE DEF h
      <3> QED
        BY <2>6, <3>1, Zenon
    <2> HIDE DEF h
    <2>8. ASSUME NEW u \in B, NEW v \in B PROVE Evaluate(h[u], v) = Evaluate(h[v], u)
      <3>1. u \in A /\ u # c /\ v \in A /\ v # c
        BY Zenon
      <3>2. Evaluate(g[u], c) = Evaluate(p, u) /\ Evaluate(g[v], c) = Evaluate(p, v)
        BY <2>5, <3>1, Zenon
      <3>3. Evaluate(g[u], v) = Evaluate(g[v], u)
        BY <2>5, <3>1, Zenon
      <3>4. /\ h[u] \in [1..m -> Field] /\ Quotient(m, g[u], p, u, c, h[u])
            /\ h[v] \in [1..m -> Field] /\ Quotient(m, g[v], p, v, c, h[v])
        BY <2>6, Zenon
      <3>5. /\ c \in Field /\ u \in Field /\ v \in Field /\ p \in [1..(m + 1) -> Field]
            /\ g[u] \in [1..(m + 1) -> Field] /\ g[v] \in [1..(m + 1) -> Field]
        BY <2>4, <3>1, Zenon
      <3>6. Divided(m, p, c, u, g[u], h[u]) /\ Divided(m, p, c, v, g[v], h[v])
        BY <3>1, <3>2, <3>4, <3>5, Zenon DEF Divided
      <3> HIDE DEF p
      <3> QED
        BY <3>3, <3>6, QuotientsFit
    <2>9. Fitting(m, B, h)
      BY <2>7, <2>8, Zenon DEF Fitting
    <2>10. PICK H : SlicesOf(m, H, B, h)
      <3> HIDE DEF B
      <3> QED
        BY <1>2, <2>3, <2>9, Zenon
    <2> DEFINE F == Extend(m, H, p, c, Evaluate(p, c))
    <2>11. Symmetric(m, H) /\ \A u \in B : GetUnivariatePolynomial(H, u) = h[u]
      BY <2>10, Zenon DEF SlicesOf
    <2> c \in Field /\ p \in [1..(m + 1) -> Field]
      BY <2>4, Zenon
    <2>12. Symmetric(m + 1, F)
      <3> c \in Int /\ m + 1 \in Nat
        BY PrimeFacts
      <3>1. p \in [1..(m + 1) -> Int]
        BY FieldFunction, Zenon
      <3>2. Evaluate(p, c) \in Int
        <4> HIDE DEF p
        <4> QED
          BY <3>1, EvaluateType, Zenon
      <3> HIDE DEF p
      <3> QED
        BY <2>11, <3>2, ExtendSymmetric, Zenon
    <2>13. ASSUME NEW u \in A PROVE GetUnivariatePolynomial(F, u) = g[u]
      <3>1. u \in Field /\ g[u] \in [1..(m + 1) -> Field] /\ Evaluate(g[u], c) = Evaluate(p, u)
        BY <2>4, <2>5, Zenon
      <3>2. \/ u = c /\ g[u] = p
            \/ Quotient(m, g[u], p, u, c, GetUnivariatePolynomial(H, u))
        <4>1. CASE u = c
          BY <4>1, Zenon
        <4>2. CASE u # c
          <5>1. u \in B
            BY <4>2, Zenon
          <5> QED
            BY <2>6, <2>11, <5>1, Zenon
        <4> QED
          BY <4>1, <4>2, Zenon
      <3> HIDE DEF p
      <3> QED
        BY <2>11, <3>1, <3>2, ExtendFits, Zenon
    <2>14. SlicesOf(m + 1, F, A, g)
      <3> HIDE DEF F
      <3> QED
        BY <2>12, <2>13, Zenon DEF SlicesOf
    <2> QED
      BY <2>14, Zenon
  <1>3. 0 \in S /\ \A m \in Nat : m \in S => m + 1 \in S
    <2> HIDE DEF Good
    <2> QED
      BY <1>1, <1>2
  <1>4. n \in S
    <2> HIDE DEF S
    <2> QED
      BY <1>3, SetInduction, Zenon
  <1> QED
    BY <1>4, Zenon

-----------------------------------------------------------------------------

(***************************************************************************)
(* Folds over finite sets.                                                 *)
(***************************************************************************)

\* The same, adding elements one at a time.
LEMMA FiniteSetInduction ==
    ASSUME NEW D, IsFiniteSet(D), NEW Q, {} \in Q,
           \A X \in SUBSET D : \A x \in D \ X : X \in Q => X \union {x} \in Q
    PROVE  SUBSET D \subseteq Q
  <1>1. ASSUME NEW X \in SUBSET D, X # {}, \A x \in X : X \ {x} \in Q
        PROVE  X \in Q
    <2>1. PICK x \in X : TRUE
      BY <1>1, Zenon
    <2>2. (X \ {x}) \union {x} = X
      BY <2>1, Zenon
    <2> QED
      BY <1>1, <2>1, <2>2, Zenon
  <1> QED
    BY <1>1, RemovalInduction, Zenon

\* step[x] takes the value of a set without x to that of the set with x; the
\* order does not matter.
SetSteps(D, V, step) ==
    step \in [D -> [V -> V]] /\ \A x, y \in D, v \in V : step[x][step[y][v]] = step[y][step[x][v]]
SetFold(D, V, b, step, h) ==
    /\ h \in [SUBSET D -> V]
    /\ h[{}] = b
    /\ \A X \in SUBSET D : \A x \in X : h[X] = step[x][h[X \ {x}]]

\* Such a fold exists.
LEMMA SetFoldExists ==
    ASSUME NEW D, IsFiniteSet(D), NEW V, NEW b \in V, NEW step, SetSteps(D, V, step)
    PROVE  \E h : SetFold(D, V, b, step, h)
  <1> DEFINE Q == {X \in SUBSET D : \E h : SetFold(X, V, b, step, h)}
  <1>1. {} \in Q
    <2>1. SetFold({}, V, b, step, [X \in SUBSET {} |-> b])
      BY Zenon DEF SetFold
    <2> QED
      BY <2>1, Zenon
  <1>2. ASSUME NEW X \in SUBSET D, NEW d \in D \ X, X \in Q PROVE X \union {d} \in Q
    <2>1. PICK h : SetFold(X, V, b, step, h)
      BY <1>2, Zenon
    <2> DEFINE Z == X \union {d}
               g == [Y \in SUBSET Z |-> IF d \in Y THEN step[d][h[Y \ {d}]] ELSE h[Y]]
    <2>2. ASSUME NEW Y \in SUBSET Z PROVE Y \ {d} \in SUBSET X /\ (d \notin Y => Y \in SUBSET X)
      BY Zenon
    <2>3. \A Y \in SUBSET X : h[Y] \in V
      BY <2>1, Zenon DEF SetFold
    <2>4. \A v \in V : step[d][v] \in V
      BY Zenon DEF SetSteps
    <2>5. g \in [SUBSET Z -> V]
      BY <2>2, <2>3, <2>4, Zenon
    <2>6. g[{}] = b
      BY <2>1, Zenon DEF SetFold
    <2>7. ASSUME NEW Y \in SUBSET Z, NEW x \in Y PROVE g[Y] = step[x][g[Y \ {x}]]
      <3> Y \ {x} \in SUBSET Z
        BY Zenon
      <3>1. CASE x = d
        <4>1. g[Y] = step[d][h[Y \ {d}]]
          BY <3>1, Zenon
        <4>2. g[Y \ {x}] = h[Y \ {d}]
          BY <3>1, Zenon
        <4> QED
          BY <3>1, <4>1, <4>2, Zenon
      <3>2. CASE x # d /\ d \notin Y
        <4>1. g[Y] = h[Y] /\ g[Y \ {x}] = h[Y \ {x}]
          BY <3>2, Zenon
        <4>2. h[Y] = step[x][h[Y \ {x}]]
          BY <2>1, <2>2, <3>2, Zenon DEF SetFold
        <4> QED
          BY <4>1, <4>2, Zenon
      <3>3. CASE x # d /\ d \in Y
        <4> DEFINE y == Y \ {d}
                   z == y \ {x}
        <4>1. y \in SUBSET X /\ z \in SUBSET X /\ x \in y /\ (Y \ {x}) \ {d} = z /\ d \in Y \ {x}
          BY <3>3, Zenon
        <4>2. g[Y] = step[d][h[y]] /\ g[Y \ {x}] = step[d][h[z]]
          BY <3>3, <4>1, Zenon
        <4> HIDE DEF y, g
        <4>3. h[y] = step[x][h[z]]
          BY <2>1, <4>1, Zenon DEF SetFold
        <4>4. step[d][step[x][h[z]]] = step[x][step[d][h[z]]]
          <5>1. x \in D /\ d \in D /\ h[z] \in V
            BY <2>3, <4>1, Zenon
          <5> QED
            BY <5>1 DEF SetSteps
        <4> QED
          BY <4>2, <4>3, <4>4, Zenon
      <3> QED
        BY <3>1, <3>2, <3>3, Zenon
    <2>8. SetFold(Z, V, b, step, g)
      <3> HIDE DEF g, Z
      <3> QED
        BY <2>5, <2>6, <2>7, Zenon DEF SetFold
    <2> HIDE DEF g
    <2> QED
      BY <2>8, Zenon
  <1>3. SUBSET D \subseteq Q
    <2> HIDE DEF Q
    <2> QED
      BY <1>1, <1>2, FiniteSetInduction, Zenon
  <1> QED
    BY <1>3, Zenon

\* The product in the field takes its factors in any order.
LEMMA ProductIsFold ==
    ASSUME NEW D, IsFiniteSet(D), NEW f \in [D -> Int]
    PROVE  \E h : /\ SetFold(D, Field, 1, [x \in D |-> [v \in Field |-> (f[x] * v) % Prime]], h)
                  /\ \A X \in SUBSET D : Product(f, X) = h[X]
  <1> DEFINE step == [x \in D |-> [v \in Field |-> (f[x] * v) % Prime]]
  <1>1. ASSUME NEW x \in D, NEW v \in Field PROVE (f[x] * v) % Prime \in Field
    <2>1. f[x] * v \in Int
      BY PrimeFacts
    <2> QED
      BY <2>1, ModFacts, Zenon
  <1>2. ASSUME NEW x \in D, NEW y \in D, NEW v \in Field
        PROVE  (f[x] * ((f[y] * v) % Prime)) % Prime = (f[y] * ((f[x] * v) % Prime)) % Prime
    <2> DEFINE p == f[x]
               q == f[y]
    <2> p \in Int /\ q \in Int /\ v \in Int
      BY PrimeFacts, Zenon
    <2> HIDE DEF p, q
    <2>1. q * v \in Int /\ p * v \in Int /\ p * (q * v) = q * (p * v)
      OBVIOUS
    <2>2. (p * ((q * v) % Prime)) % Prime = (q * ((p * v) % Prime)) % Prime
      BY <2>1, ModOperand
    <2> QED
      BY <2>2, Zenon DEF p, q
  <1>3. SetSteps(D, Field, step)
    BY <1>1, <1>2, Zenon DEF SetSteps
  <1>4. PICK h : SetFold(D, Field, 1, step, h)
    <2>1. 1 \in Field
      BY PrimeFacts DEF Field
    <2> HIDE DEF step
    <2> QED
      BY <1>3, <2>1, SetFoldExists, Zenon
  <1>5. ASSUME NEW X \in SUBSET D, NEW x \in X PROVE h[X] = (f[x] * h[X \ {x}]) % Prime
    <2>1. h[X \ {x}] \in Field /\ h[X] = step[x][h[X \ {x}]]
      BY <1>4, Zenon DEF SetFold
    <2> QED
      BY <2>1, Zenon
  <1>6. ASSUME NEW X \in SUBSET D PROVE Product(f, X) = h[X]
    <2> DEFINE ch(s) == CHOOSE x \in s : TRUE
               R(g) == [s \in SUBSET X |-> IF s = {} THEN 1
                                           ELSE (f[ch(s)] * g[s \ {ch(s)}]) % Prime]
               G == CHOOSE g : g = R(g)
               hx == [s \in SUBSET X |-> h[s]]
    <2>1. Product(f, X) = G[X]
      BY Zenon DEF Product, FoldFunctionOnSet, MapThenFoldSet
    <2>2. ASSUME NEW s \in SUBSET X, s # {} PROVE ch(s) \in s /\ s \ {ch(s)} \in SUBSET X
      BY <2>2, Zenon
    <2> HIDE DEF ch
    <2>3. hx = R(hx)
      <3>1. ASSUME NEW s \in SUBSET X
            PROVE  hx[s] = IF s = {} THEN 1 ELSE (f[ch(s)] * hx[s \ {ch(s)}]) % Prime
        BY <1>4, <1>5, <2>2, Zenon DEF SetFold
      <3> HIDE DEF ch
      <3> QED
        BY <3>1, Zenon
    <2>4. G = R(G)
      <3> HIDE DEF R, hx
      <3> QED
        BY <2>3, Zenon
    <2> HIDE DEF G
    <2> DEFINE Q == {s \in SUBSET X : G[s] = h[s]}
    <2>5. {} \in Q
      BY <2>4, <1>4, Zenon DEF SetFold
    <2>6. ASSUME NEW s \in SUBSET X, s # {}, \A x \in s : s \ {x} \in Q PROVE s \in Q
      <3>1. G[s] = (f[ch(s)] * G[s \ {ch(s)}]) % Prime
        BY <2>4, <2>6, Zenon
      <3> QED
        BY <3>1, <1>5, <2>2, <2>6, Zenon
    <2>7. SUBSET X \subseteq Q
      <3>1. IsFiniteSet(X)
        BY FS_Subset, Zenon
      <3> HIDE DEF Q
      <3> QED
        BY <3>1, <2>5, <2>6, RemovalInduction, Zenon
    <2> QED
      BY <2>1, <2>7, Zenon
  <1> QED
    BY <1>4, <1>6, Zenon

\* The sum takes its terms in any order.
LEMMA SumIsFold ==
    ASSUME NEW D, IsFiniteSet(D), NEW f \in [D -> Int]
    PROVE  \E h : /\ SetFold(D, Int, 0, [x \in D |-> [v \in Int |-> f[x] + v]], h)
                  /\ \A X \in SUBSET D : SumFunctionOnSet(f, X) = h[X]
  <1> DEFINE step == [x \in D |-> [v \in Int |-> f[x] + v]]
  <1>1. SetSteps(D, Int, step)
    <2>1. ASSUME NEW x \in D, NEW y \in D, NEW v \in Int
          PROVE  f[x] + v \in Int /\ f[x] + (f[y] + v) = f[y] + (f[x] + v)
      OBVIOUS
    <2> QED
      BY <2>1, Zenon DEF SetSteps
  <1>2. PICK h : SetFold(D, Int, 0, step, h)
    <2>1. 0 \in Int
      OBVIOUS
    <2> HIDE DEF step
    <2> QED
      BY <1>1, <2>1, SetFoldExists, Zenon
  <1>3. ASSUME NEW X \in SUBSET D, NEW x \in X PROVE h[X] = f[x] + h[X \ {x}]
    <2>1. h[X \ {x}] \in Int /\ h[X] = step[x][h[X \ {x}]]
      BY <1>2, Zenon DEF SetFold
    <2> QED
      BY <2>1, Zenon
  <1>4. ASSUME NEW X \in SUBSET D PROVE SumFunctionOnSet(f, X) = h[X]
    <2> DEFINE ch(s) == CHOOSE x \in s : TRUE
               R(g) == [s \in SUBSET X |-> IF s = {} THEN 0 ELSE f[ch(s)] + g[s \ {ch(s)}]]
               G == CHOOSE g : g = R(g)
               hx == [s \in SUBSET X |-> h[s]]
    <2>1. SumFunctionOnSet(f, X) = G[X]
      BY Zenon DEF SumFunctionOnSet, FoldFunctionOnSet, MapThenFoldSet
    <2>2. ASSUME NEW s \in SUBSET X, s # {} PROVE ch(s) \in s /\ s \ {ch(s)} \in SUBSET X
      BY <2>2, Zenon
    <2> HIDE DEF ch
    <2>3. hx = R(hx)
      <3>1. ASSUME NEW s \in SUBSET X
            PROVE  hx[s] = IF s = {} THEN 0 ELSE f[ch(s)] + hx[s \ {ch(s)}]
        BY <1>2, <1>3, <2>2, Zenon DEF SetFold
      <3> QED
        BY <3>1, Zenon
    <2>4. G = R(G)
      <3> HIDE DEF R, hx
      <3> QED
        BY <2>3, Zenon
    <2> HIDE DEF G
    <2> DEFINE Q == {s \in SUBSET X : G[s] = h[s]}
    <2>5. {} \in Q
      BY <2>4, <1>2, Zenon DEF SetFold
    <2>6. ASSUME NEW s \in SUBSET X, s # {}, \A x \in s : s \ {x} \in Q PROVE s \in Q
      <3>1. G[s] = f[ch(s)] + G[s \ {ch(s)}]
        BY <2>4, <2>6, Zenon
      <3> QED
        BY <3>1, <1>3, <2>2, <2>6, Zenon
    <2>7. SUBSET X \subseteq Q
      <3>1. IsFiniteSet(X)
        BY FS_Subset, Zenon
      <3> HIDE DEF Q
      <3> QED
        BY <3>1, <2>5, <2>6, RemovalInduction, Zenon
    <2> QED
      BY <2>1, <2>7, Zenon
  <1> QED
    BY <1>2, <1>4, Zenon

\* What there is to know of a product: it is in the field, that of nothing is 1,
\* and any factor can be taken out.
LEMMA ProductFacts ==
    ASSUME NEW D, IsFiniteSet(D), NEW f \in [D -> Int], NEW X \in SUBSET D
    PROVE  /\ Product(f, X) \in Field /\ Product(f, X) \in Int
           /\ Product(f, {}) = 1
           /\ \A x \in X : Product(f, X) = (f[x] * Product(f, X \ {x})) % Prime
  <1>1. PICK h : /\ SetFold(D, Field, 1, [x \in D |-> [v \in Field |-> (f[x] * v) % Prime]], h)
                 /\ \A Y \in SUBSET D : Product(f, Y) = h[Y]
    BY ProductIsFold, Zenon
  <1>2. \A Y \in SUBSET D : h[Y] \in Field
    BY <1>1, Zenon DEF SetFold
  <1>3. h[{}] = 1
    BY <1>1, Zenon DEF SetFold
  <1>4. ASSUME NEW x \in X PROVE h[X] = (f[x] * h[X \ {x}]) % Prime
    <2>1. h[X] = [y \in D |-> [v \in Field |-> (f[y] * v) % Prime]][x][h[X \ {x}]]
      BY <1>1, Zenon DEF SetFold
    <2> QED
      BY <2>1, <1>2, Zenon
  <1> QED
    BY <1>1, <1>2, <1>3, <1>4, PrimeFacts, Zenon

\* What there is to know of a sum: that of nothing is 0, and any term can be
\* taken out.
LEMMA SumFacts ==
    ASSUME NEW D, IsFiniteSet(D), NEW f \in [D -> Int], NEW X \in SUBSET D
    PROVE  /\ SumFunctionOnSet(f, X) \in Int
           /\ SumFunctionOnSet(f, {}) = 0
           /\ \A x \in X : SumFunctionOnSet(f, X) = f[x] + SumFunctionOnSet(f, X \ {x})
  <1>1. PICK h : /\ SetFold(D, Int, 0, [x \in D |-> [v \in Int |-> f[x] + v]], h)
                 /\ \A Y \in SUBSET D : SumFunctionOnSet(f, Y) = h[Y]
    BY SumIsFold, Zenon
  <1>2. \A Y \in SUBSET D : h[Y] \in Int
    BY <1>1, Zenon DEF SetFold
  <1>3. h[{}] = 0
    BY <1>1, Zenon DEF SetFold
  <1>4. ASSUME NEW x \in X PROVE h[X] = f[x] + h[X \ {x}]
    <2>1. h[X] = [y \in D |-> [v \in Int |-> f[y] + v]][x][h[X \ {x}]]
      BY <1>1, Zenon DEF SetFold
    <2> QED
      BY <2>1, <1>2, Zenon
  <1> QED
    BY <1>1, <1>2, <1>3, <1>4, Zenon

-----------------------------------------------------------------------------

(***************************************************************************)
(* Products and sums.                                                      *)
(***************************************************************************)

\* A product of elements other than 0 is not 0.
LEMMA ProductNotZero ==
    ASSUME NEW D, IsFiniteSet(D), NEW f \in [D -> Int], NEW X \in SUBSET D,
           \A x \in X : ~Cong(f[x], 0)
    PROVE  ~Cong(Product(f, X), 0)
  <1> DEFINE Q == {Y \in SUBSET X : ~Cong(Product(f, Y), 0)}
  <1>1. {} \in Q
    <2>1. Product(f, {}) = 1
      BY ProductFacts, Zenon
    <2>2. 1 \in Field /\ 0 \in Field
      BY PrimeFacts DEF Field
    <2>3. ~Cong(1, 0)
      BY <2>2, ModSmall DEF Cong
    <2> QED
      BY <2>1, <2>3, Zenon
  <1>2. ASSUME NEW Y \in SUBSET X, Y # {}, \A x \in Y : Y \ {x} \in Q PROVE Y \in Q
    <2>1. PICK x \in Y : TRUE
      BY <1>2, Zenon
    <2> DEFINE p == Product(f, Y \ {x})
               y == f[x]
    <2>2. p \in Int /\ ~Cong(p, 0)
      <3>1. Y \ {x} \in SUBSET D
        BY Zenon
      <3> QED
        BY <1>2, <3>1, ProductFacts, Zenon
    <2>3. y \in Int /\ ~Cong(y, 0)
      BY Zenon
    <2>4. Product(f, Y) = (y * p) % Prime
      <3>1. Y \in SUBSET D
        BY Zenon
      <3> QED
        BY <3>1, ProductFacts
    <2> HIDE DEF p, y
    <2>5. ~Cong(y * p, 0) /\ y * p \in Int
      BY <2>2, <2>3, NonZeroProduct
    <2>6. ~Cong((y * p) % Prime, 0)
      BY <2>5, CongMod, Zenon DEF Cong
    <2> QED
      BY <2>4, <2>6, Zenon
  <1>3. SUBSET X \subseteq Q
    <2>1. IsFiniteSet(X)
      BY FS_Subset, Zenon
    <2> HIDE DEF Q
    <2> QED
      BY <1>1, <1>2, <2>1, RemovalInduction, Zenon
  <1> QED
    BY <1>3, Zenon

\* A product depends on its factors only.
LEMMA SameProduct ==
    ASSUME NEW D, IsFiniteSet(D), NEW f \in [D -> Int], NEW E, IsFiniteSet(E), NEW g \in [E -> Int],
           NEW X, X \subseteq D, X \subseteq E, \A x \in X : f[x] = g[x]
    PROVE  Product(f, X) = Product(g, X)
  <1> DEFINE Q == {Y \in SUBSET X : Product(f, Y) = Product(g, Y)}
  <1>1. {} \in Q
    BY ProductFacts, Zenon
  <1>2. ASSUME NEW Y \in SUBSET X, Y # {}, \A x \in Y : Y \ {x} \in Q PROVE Y \in Q
    <2>1. PICK x \in Y : TRUE
      BY <1>2, Zenon
    <2> Y \in SUBSET D /\ Y \in SUBSET E
      BY Zenon
    <2>2. Product(f, Y) = (f[x] * Product(f, Y \ {x})) % Prime
      BY ProductFacts
    <2>3. Product(g, Y) = (g[x] * Product(g, Y \ {x})) % Prime
      BY ProductFacts
    <2>4. f[x] = g[x] /\ Product(f, Y \ {x}) = Product(g, Y \ {x})
      BY <1>2, Zenon
    <2> QED
      BY <2>2, <2>3, <2>4, Zenon
  <1>3. SUBSET X \subseteq Q
    <2>1. IsFiniteSet(X)
      BY FS_Subset, Zenon
    <2> HIDE DEF Q
    <2> QED
      BY <1>1, <1>2, <2>1, RemovalInduction, Zenon
  <1> QED
    BY <1>3, Zenon

\* Summation is linear in the field.
LEMMA SumLinear ==
    ASSUME NEW D, IsFiniteSet(D), NEW f \in [D -> Int],
           NEW E, IsFiniteSet(E), NEW g \in [E -> Int], NEW h \in [E -> Int],
           NEW a \in Int, NEW b \in Int,
           NEW X, X \subseteq D, X \subseteq E, \A x \in X : Cong(f[x], a * g[x] + b * h[x])
    PROVE  Cong(SumFunctionOnSet(f, X), a * SumFunctionOnSet(g, X) + b * SumFunctionOnSet(h, X))
  <1> DEFINE Q == {Y \in SUBSET X : Cong(SumFunctionOnSet(f, Y),
                        a * SumFunctionOnSet(g, Y) + b * SumFunctionOnSet(h, Y))}
  <1>1. {} \in Q
    <2>1. SumFunctionOnSet(f, {}) = 0 /\ SumFunctionOnSet(g, {}) = 0 /\ SumFunctionOnSet(h, {}) = 0
      BY SumFacts, Zenon
    <2>2. a * 0 + b * 0 = 0
      OBVIOUS
    <2> QED
      BY <2>1, <2>2, Zenon DEF Cong
  <1>2. ASSUME NEW Y \in SUBSET X, Y # {}, \A x \in Y : Y \ {x} \in Q PROVE Y \in Q
    <2>1. PICK x \in Y : TRUE
      BY <1>2, Zenon
    <2> DEFINE F == SumFunctionOnSet(f, Y \ {x})
               G == SumFunctionOnSet(g, Y \ {x})
               H == SumFunctionOnSet(h, Y \ {x})
               f0 == f[x]
               g0 == g[x]
               h0 == h[x]
    <2> Y \in SUBSET D /\ Y \in SUBSET E /\ Y \ {x} \in SUBSET D /\ Y \ {x} \in SUBSET E
      BY Zenon
    <2> F \in Int /\ G \in Int /\ H \in Int
      BY SumFacts, Zenon
    <2>2. /\ SumFunctionOnSet(f, Y) = f0 + F
          /\ SumFunctionOnSet(g, Y) = g0 + G
          /\ SumFunctionOnSet(h, Y) = h0 + H
      BY SumFacts
    <2>3. /\ f0 \in Int /\ g0 \in Int /\ h0 \in Int
          /\ Cong(f0, a * g0 + b * h0) /\ Cong(F, a * G + b * H)
      BY <1>2, Zenon
    <2> HIDE DEF F, G, H, f0, g0, h0
    <2>4. Cong(f0 + F, a * (g0 + G) + b * (h0 + H))
      <3>1. Cong(f0 + F, (a * g0 + b * h0) + (a * G + b * H))
        <4>1. a * g0 + b * h0 \in Int /\ a * G + b * H \in Int
          BY <2>3
        <4> QED
          BY <2>3, <4>1, CongArith, Zenon
      <3>2. (a * g0 + b * h0) + (a * G + b * H) = a * (g0 + G) + b * (h0 + H)
        BY <2>3
      <3> QED
        BY <3>1, <3>2, Zenon
    <2> QED
      BY <2>2, <2>4, Zenon
  <1>3. SUBSET X \subseteq Q
    <2>1. IsFiniteSet(X)
      BY FS_Subset, Zenon
    <2> HIDE DEF Q
    <2> QED
      BY <1>1, <1>2, <2>1, RemovalInduction, Zenon
  <1> QED
    BY <1>3, Zenon

-----------------------------------------------------------------------------

(***************************************************************************)
(* Interpolation at zero.                                                  *)
(***************************************************************************)

Num(A, j) == Product([m \in A |-> -m], A \ {j})
Den(A, j) == Product([m \in A |-> j - m], A \ {j})

\* Lagrange's formula before the last reduction.
Lagrange(A, ys) == SumFunctionOnSet([j \in A |-> ys[j] * Num(A, j) * ModInverse(Den(A, j))], A)

\* The denominators have inverses.
LEMMA BasisFacts ==
    ASSUME NEW A, Points(A), NEW j \in A
    PROVE  /\ Num(A, j) \in Int /\ Den(A, j) \in Int
           /\ ModInverse(Den(A, j)) \in Int /\ Cong(Den(A, j) * ModInverse(Den(A, j)), 1)
           /\ ~Cong(Den(A, j), 0)
  <1> DEFINE f == [m \in A |-> -m]
             g == [m \in A |-> j - m]
  <1>1. IsFiniteSet(A) /\ A \subseteq Field /\ A \subseteq Int
    BY PointsFacts, Zenon
  <1> f \in [A -> Int] /\ g \in [A -> Int] /\ A \ {j} \in SUBSET A
    BY <1>1
  <1>2. \A m \in A \ {j} : ~Cong(g[m], 0)
    BY <1>1, DistinctPoints, Zenon
  <1> HIDE DEF f, g
  <1>3. Product(f, A \ {j}) \in Int /\ Product(g, A \ {j}) \in Int
    BY <1>1, ProductFacts, Zenon
  <1>4. ~Cong(Product(g, A \ {j}), 0)
    BY <1>1, <1>2, ProductNotZero, Zenon
  <1>5. Num(A, j) \in Int /\ Den(A, j) \in Int /\ ~Cong(Den(A, j), 0)
    BY <1>3, <1>4, Zenon DEF Num, Den, f, g
  <1> QED
    BY <1>5, ModInverseFacts, Zenon

\* With one point less, a numerator loses a factor and so does a denominator.
LEMMA BasisDrop ==
    ASSUME NEW A, Points(A), NEW c \in A, NEW j \in A \ {c}
    PROVE  /\ Cong(Num(A, j), (-c) * Num(A \ {c}, j))
           /\ Cong(Den(A, j), (j - c) * Den(A \ {c}, j))
  <1> DEFINE B == A \ {c}
             f == [m \in A |-> -m]
             g == [m \in A |-> j - m]
             f1 == [m \in B |-> -m]
             g1 == [m \in B |-> j - m]
             U == A \ {j}
             V == B \ {j}
  <1>0. IsFiniteSet(A) /\ IsFiniteSet(B)
    BY PointsFacts, Zenon DEF Points
  <1>1. A \subseteq Int /\ B \subseteq Int
    BY PointsFacts, Zenon
  <1>2. f \in [A -> Int] /\ g \in [A -> Int] /\ f1 \in [B -> Int] /\ g1 \in [B -> Int]
    BY <1>1
  <1>3. U \in SUBSET A /\ V \subseteq A /\ V \subseteq B /\ V = U \ {c} /\ c \in U
    BY Zenon
  <1>4. \A m \in V : f[m] = f1[m] /\ g[m] = g1[m]
    BY Zenon
  <1>5. f[c] = -c /\ g[c] = j - c /\ -c \in Int /\ j - c \in Int
    BY <1>1
  <1>6. /\ Num(A, j) = Product(f, U) /\ Den(A, j) = Product(g, U)
        /\ Num(B, j) = Product(f1, V) /\ Den(B, j) = Product(g1, V)
    BY Zenon DEF Num, Den
  <1> HIDE DEF f, g, f1, g1, B, U, V
  <1>7. Product(f, V) = Product(f1, V) /\ Product(g, V) = Product(g1, V)
    <2>1. Product(f, V) = Product(f1, V)
      BY <1>0, <1>2, <1>3, <1>4, SameProduct, SMTT(30)
    <2>2. Product(g, V) = Product(g1, V)
      BY <1>0, <1>2, <1>3, <1>4, SameProduct
    <2> QED
      BY <2>1, <2>2, Zenon
  <1>8. /\ Product(f, U) = (f[c] * Product(f, V)) % Prime /\ Product(f, V) \in Int
        /\ Product(g, U) = (g[c] * Product(g, V)) % Prime /\ Product(g, V) \in Int
    <2>1. V \in SUBSET A
      BY <1>3, Zenon
    <2>2. \A h \in [A -> Int] : Product(h, V) \in Int
      BY <1>0, <2>1, ProductFacts, Zenon
    <2>3. \A h \in [A -> Int] : Product(h, U) = (h[c] * Product(h, U \ {c})) % Prime
      BY <1>0, <1>3, ProductFacts
    <2> QED
      BY <1>2, <1>3, <2>2, <2>3, Zenon
  <1>9. (-c) * Product(f, V) \in Int /\ (j - c) * Product(g, V) \in Int
    BY <1>5, <1>8
  <1> QED
    BY <1>5, <1>6, <1>7, <1>8, <1>9, CongMod, Zenon DEF B

\* The weight of a point in Lagrange's formula.
Weight(A, j) == Num(A, j) * ModInverse(Den(A, j))

\* Weights are integers, and so are the terms.
LEMMA TermFacts ==
    ASSUME NEW A, Points(A), NEW ys \in [A -> Int]
    PROVE  /\ [j \in A |-> ys[j] * Num(A, j) * ModInverse(Den(A, j))] \in [A -> Int]
           /\ \A j \in A : ys[j] * Num(A, j) * ModInverse(Den(A, j)) = ys[j] * Weight(A, j)
           /\ \A j \in A : Weight(A, j) \in Int
           /\ IsFiniteSet(A)
  <1>1. ASSUME NEW j \in A
        PROVE  /\ ys[j] * Num(A, j) * ModInverse(Den(A, j)) \in Int
               /\ ys[j] * Num(A, j) * ModInverse(Den(A, j)) = ys[j] * Weight(A, j)
               /\ Weight(A, j) \in Int
    <2> DEFINE n == Num(A, j)
               i == ModInverse(Den(A, j))
               y == ys[j]
    <2>1. n \in Int /\ i \in Int /\ y \in Int
      BY BasisFacts, Zenon
    <2> HIDE DEF n, i, y
    <2>2. y * n * i \in Int /\ y * n * i = y * (n * i) /\ n * i \in Int
      BY <2>1
    <2> QED
      BY <2>2, Zenon DEF n, i, y, Weight
  <1> QED
    BY <1>1, PointsFacts, Zenon

\* Leaving out the point c.
LEMMA WeightDrop ==
    ASSUME NEW A, Points(A), NEW c \in A, NEW j \in A \ {c}
    PROVE  Cong((j - c) * Weight(A, j), (-c) * Weight(A \ {c}, j))
  <1> DEFINE B == A \ {c}
             n == Num(A, j)
             d == Den(A, j)
             i == ModInverse(d)
             n1 == Num(B, j)
             d1 == Den(B, j)
             i1 == ModInverse(d1)
             e == j - c
             k == -c
  <1>1. j \in Int /\ c \in Int /\ Points(B) /\ j \in B
    BY PointsFacts, Zenon
  <1>2. /\ n \in Int /\ d \in Int /\ i \in Int /\ Cong(d * i, 1)
        /\ n1 \in Int /\ d1 \in Int /\ i1 \in Int /\ Cong(d1 * i1, 1) /\ ~Cong(d1, 0)
        /\ e \in Int /\ k \in Int
    BY <1>1, BasisFacts
  <1>3. Cong(n, k * n1) /\ Cong(d, e * d1)
    BY BasisDrop, Zenon
  <1>4. Weight(A, j) = n * i /\ Weight(B, j) = n1 * i1
    BY Zenon DEF Weight
  <1> HIDE DEF n, d, i, n1, d1, i1, e, k
  <1>5. Cong(d1 * (e * (n * i)), n)
    <2>1. Cong(d * (n * i), (e * d1) * (n * i))
      <3>1. e * d1 \in Int /\ n * i \in Int /\ Cong(n * i, n * i)
        BY <1>2 DEF Cong
      <3> QED
        BY <1>2, <1>3, <3>1, CongArith, Zenon
    <2>2. Cong((d * i) * n, 1 * n)
      <3>1. d * i \in Int /\ 1 \in Int /\ Cong(n, n)
        BY <1>2 DEF Cong
      <3> QED
        BY <1>2, <3>1, CongArith, Zenon
    <2>3. /\ d * (n * i) = (d * i) * n /\ (e * d1) * (n * i) = d1 * (e * (n * i))
          /\ 1 * n = n
      BY <1>2
    <2> QED
      BY <2>1, <2>2, <2>3, Zenon DEF Cong
  <1>6. Cong(d1 * (k * (n1 * i1)), k * n1)
    <2>1. Cong((d1 * i1) * (k * n1), 1 * (k * n1))
      <3>1. d1 * i1 \in Int /\ 1 \in Int /\ k * n1 \in Int /\ Cong(k * n1, k * n1)
        BY <1>2 DEF Cong
      <3> QED
        BY <1>2, <3>1, CongArith, Zenon
    <2>2. (d1 * i1) * (k * n1) = d1 * (k * (n1 * i1)) /\ 1 * (k * n1) = k * n1
      BY <1>2
    <2> QED
      BY <2>1, <2>2, Zenon
  <1>7. Cong(d1 * (e * (n * i)), d1 * (k * (n1 * i1)))
    BY <1>3, <1>5, <1>6, Zenon DEF Cong
  <1>8. e * (n * i) \in Int /\ k * (n1 * i1) \in Int
    BY <1>2
  <1>9. Cong(e * (n * i), k * (n1 * i1))
    BY <1>2, <1>7, <1>8, Cancel, Zenon
  <1> QED
    BY <1>4, <1>9, Zenon DEF e, k

\* Lagrange's formula is linear in the values.
LEMMA LagrangeLinear ==
    ASSUME NEW A, Points(A), NEW y \in [A -> Int], NEW z \in [A -> Int], NEW w \in [A -> Int],
           NEW a \in Int, NEW b \in Int, \A j \in A : Cong(w[j], a * y[j] + b * z[j])
    PROVE  /\ Lagrange(A, w) \in Int /\ Lagrange(A, y) \in Int /\ Lagrange(A, z) \in Int
           /\ Cong(Lagrange(A, w), a * Lagrange(A, y) + b * Lagrange(A, z))
  <1> DEFINE term(f) == [j \in A |-> f[j] * Num(A, j) * ModInverse(Den(A, j))]
  <1>1. IsFiniteSet(A) /\ A \in SUBSET A /\ A \subseteq A
    BY PointsFacts, Zenon
  <1>2. \A f \in [A -> Int] : term(f) \in [A -> Int] /\ \A j \in A : term(f)[j] = f[j] * Weight(A, j)
    BY TermFacts
  <1>3. \A j \in A : Weight(A, j) \in Int
    BY TermFacts, Zenon
  <1>4. /\ Lagrange(A, w) = SumFunctionOnSet(term(w), A)
        /\ Lagrange(A, y) = SumFunctionOnSet(term(y), A)
        /\ Lagrange(A, z) = SumFunctionOnSet(term(z), A)
    BY Zenon DEF Lagrange
  <1> HIDE DEF term
  <1>5. ASSUME NEW j \in A PROVE Cong(term(w)[j], a * term(y)[j] + b * term(z)[j])
    <2> DEFINE w0 == w[j]
               y0 == y[j]
               z0 == z[j]
               t == Weight(A, j)
    <2>1. /\ w0 \in Int /\ y0 \in Int /\ z0 \in Int /\ t \in Int /\ Cong(w0, a * y0 + b * z0)
          /\ term(w)[j] = w0 * t /\ term(y)[j] = y0 * t /\ term(z)[j] = z0 * t
      BY <1>2, <1>3, Zenon
    <2> HIDE DEF w0, y0, z0, t
    <2>2. a * y0 + b * z0 \in Int /\ Cong(t, t)
      BY <2>1 DEF Cong
    <2>3. Cong(w0 * t, (a * y0 + b * z0) * t)
      BY <2>1, <2>2, CongArith, Zenon
    <2>4. (a * y0 + b * z0) * t = a * (y0 * t) + b * (z0 * t)
      BY <2>1
    <2> QED
      BY <2>1, <2>3, <2>4, Zenon
  <1>6. \A f \in [A -> Int] : SumFunctionOnSet(term(f), A) \in Int
    BY <1>1, <1>2, SumFacts, Zenon
  <1>7. Cong(SumFunctionOnSet(term(w), A),
             a * SumFunctionOnSet(term(y), A) + b * SumFunctionOnSet(term(z), A))
    BY <1>1, <1>2, <1>5, SumLinear, Zenon
  <1> QED
    BY <1>4, <1>6, <1>7, Zenon

\* A factor x - c takes the point c out of Lagrange's formula.
LEMMA LagrangeDrop ==
    ASSUME NEW A, Points(A), NEW c \in A, NEW y \in [A -> Int], NEW z \in [A \ {c} -> Int],
           Cong(y[c], 0), \A j \in A \ {c} : Cong(y[j], (j - c) * z[j])
    PROVE  /\ Lagrange(A, y) \in Int /\ Lagrange(A \ {c}, z) \in Int
           /\ Cong(Lagrange(A, y), (-c) * Lagrange(A \ {c}, z))
  <1> DEFINE B == A \ {c}
             f == [j \in A |-> y[j] * Num(A, j) * ModInverse(Den(A, j))]
             g == [j \in B |-> z[j] * Num(B, j) * ModInverse(Den(B, j))]
             k == -c
  <1>1. Points(B) /\ z \in [B -> Int] /\ IsFiniteSet(A)
    BY PointsFacts, Zenon
  <1>2. IsFiniteSet(A) /\ IsFiniteSet(B)
    BY <1>1, Zenon DEF Points
  <1> k \in Int
    BY PointsFacts
  <1>3. f \in [A -> Int] /\ \A j \in A : f[j] = y[j] * Weight(A, j)
    BY TermFacts
  <1>4. g \in [B -> Int] /\ \A j \in B : g[j] = z[j] * Weight(B, j)
    <2> HIDE DEF B
    <2> QED
      BY <1>1, TermFacts
  <1>5. /\ \A j \in A : Weight(A, j) \in Int
        /\ \A j \in B : Weight(B, j) \in Int
    <2> HIDE DEF B
    <2> QED
      BY <1>1, TermFacts, Zenon
  <1>6. Lagrange(A, y) = SumFunctionOnSet(f, A) /\ Lagrange(B, z) = SumFunctionOnSet(g, B)
    BY Zenon DEF Lagrange
  <1>7. \A j \in B : Cong((j - c) * Weight(A, j), k * Weight(B, j))
    BY WeightDrop, Zenon
  <1>8. \A j \in B : j - c \in Int
    BY PointsFacts
  <1>9. \A j \in B : Cong(y[j], (j - c) * z[j]) /\ j \in A
    BY Zenon
  <1>10. B \subseteq A /\ B \subseteq B /\ B \in SUBSET A /\ B \in SUBSET B /\ A \in SUBSET A /\ B = A \ {c}
    BY Zenon
  <1> HIDE DEF f, g, k, B
  <1>11. ASSUME NEW j \in B PROVE Cong(f[j], k * g[j] + 0 * g[j])
    <2> DEFINE y0 == y[j]
               z0 == z[j]
               e == j - c
               t == Weight(A, j)
               u == Weight(B, j)
    <2>1. /\ y0 \in Int /\ z0 \in Int /\ e \in Int /\ t \in Int /\ u \in Int
          /\ Cong(y0, e * z0) /\ Cong(e * t, k * u)
          /\ f[j] = y0 * t /\ g[j] = z0 * u
      <3>1. y0 \in Int
        BY <1>9, Zenon
      <3>2. z0 \in Int
        BY <1>10, Zenon
      <3> QED
        BY <1>3, <1>4, <1>5, <1>7, <1>8, <1>9, <3>1, <3>2, Zenon
    <2> HIDE DEF y0, z0, e, t, u
    <2>2. Cong(y0 * t, (e * z0) * t)
      <3>1. e * z0 \in Int /\ Cong(t, t)
        BY <2>1 DEF Cong
      <3> QED
        BY <2>1, <3>1, CongArith, Zenon
    <2>3. Cong(z0 * (e * t), z0 * (k * u))
      <3>1. e * t \in Int /\ k * u \in Int /\ Cong(z0, z0)
        BY <2>1 DEF Cong
      <3> QED
        BY <2>1, <3>1, CongArith, Zenon
    <2>4. (e * z0) * t = z0 * (e * t) /\ z0 * (k * u) = k * (z0 * u) + 0 * (z0 * u)
      BY <2>1
    <2> QED
      BY <2>1, <2>2, <2>3, <2>4, Zenon DEF Cong
  <1> DEFINE F == SumFunctionOnSet(f, B)
             G == SumFunctionOnSet(g, B)
  <1>12. Cong(F, k * G + 0 * G)
    <2>1. f \in [A -> Int] /\ g \in [B -> Int] /\ B \subseteq A /\ B \subseteq B /\ 0 \in Int
      BY <1>3, <1>4, <1>10, SMTT(30)
    <2> QED
      BY <1>2, <1>11, <2>1, SumLinear, Zenon
  <1>13. F \in Int /\ G \in Int /\ SumFunctionOnSet(f, A) = f[c] + F
    <2>1. F \in Int
      BY <1>2, <1>3, <1>10, SumFacts, Zenon
    <2>2. G \in Int
      BY <1>2, <1>4, <1>10, SumFacts, Zenon
    <2>3. SumFunctionOnSet(f, A) = f[c] + F
      BY <1>2, <1>3, <1>10, SumFacts
    <2> QED
      BY <2>1, <2>2, <2>3, Zenon
  <1>14. Cong(f[c], 0) /\ f[c] \in Int
    <2> DEFINE y0 == y[c]
               t == Weight(A, c)
    <2>1. y0 \in Int /\ t \in Int /\ Cong(y0, 0) /\ f[c] = y0 * t
      BY <1>3, <1>5, Zenon
    <2> HIDE DEF y0, t
    <2>2. Cong(y0 * t, 0 * t)
      <3>1. 0 \in Int /\ Cong(t, t)
        BY DEF Cong
      <3> QED
        BY <2>1, <3>1, CongArith, Zenon
    <2>3. 0 * t = 0 /\ y0 * t \in Int
      BY <2>1
    <2> QED
      BY <2>1, <2>2, <2>3, Zenon
  <1> DEFINE fc == f[c]
  <1>15. fc \in Int /\ Cong(fc, 0) /\ SumFunctionOnSet(f, A) = fc + F
    BY <1>13, <1>14, Zenon
  <1> HIDE DEF F, G, fc
  <1>16. Cong(fc + F, k * G) /\ fc + F \in Int
    <2>1. k * G + 0 * G = k * G /\ k * G \in Int /\ 0 + k * G = k * G
      BY <1>13
    <2>2. Cong(fc + F, 0 + k * G)
      <3>1. Cong(F, k * G) /\ 0 \in Int
        BY <1>12, <2>1
      <3> QED
        BY <1>13, <1>15, <2>1, <3>1, CongArith, Zenon
    <2>3. fc + F \in Int
      BY <1>13, <1>15
    <2> QED
      BY <2>1, <2>2, <2>3, Zenon
  <1> QED
    BY <1>6, <1>13, <1>15, <1>16, Zenon DEF k, B, G

\* The constant 1 at every point.
Ones(A) == [j \in A |-> 1]

\* One point: its weight is 1.
LEMMA SingleWeight ==
    ASSUME NEW c, Points({c})
    PROVE  Cong(Lagrange({c}, Ones({c})), 1)
  <1> DEFINE A == {c}
             f == [j \in A |-> Ones(A)[j] * Num(A, j) * ModInverse(Den(A, j))]
             n == Num(A, c)
             d == Den(A, c)
             i == ModInverse(d)
  <1>1. Ones(A) \in [A -> Int] /\ A \ {c} = {} /\ c \in A /\ A \in SUBSET A /\ Ones(A)[c] = 1
    BY DEF Ones
  <1>2. f \in [A -> Int] /\ IsFiniteSet(A)
    BY <1>1, TermFacts, ZenonT(30)
  <1>3. n = 1 /\ d = 1
    <2> DEFINE u == [m \in A |-> -m]
               v == [m \in A |-> c - m]
    <2>1. u \in [A -> Int] /\ v \in [A -> Int]
      BY PointsFacts
    <2>2. n = Product(u, {}) /\ d = Product(v, {})
      BY <1>1, Zenon DEF Num, Den
    <2> HIDE DEF u, v, n, d, A
    <2> QED
      BY <1>1, <1>2, <2>1, <2>2, ProductFacts, Zenon
  <1>4. i \in Int /\ Cong(d * i, 1)
    BY <1>1, BasisFacts, Zenon
  <1>5. SumFunctionOnSet(f, A) = f[c] + SumFunctionOnSet(f, A \ {c}) /\ SumFunctionOnSet(f, {}) = 0
    <2> HIDE DEF f, A
    <2> QED
      BY <1>1, <1>2, SumFacts
  <1>6. f[c] = 1 * n * i
    BY <1>1, Zenon
  <1>7. Lagrange(A, Ones(A)) = SumFunctionOnSet(f, A)
    BY Zenon DEF Lagrange
  <1> HIDE DEF f, A, n, d, i
  <1>8. 1 * n * i + 0 = d * i
    BY <1>3, <1>4
  <1> QED
    BY <1>1, <1>4, <1>5, <1>6, <1>7, <1>8, Zenon DEF A

\* The weights add up to 1: Lagrange's formula is exact for constants.
LEMMA WeightsAddUp ==
    ASSUME NEW A, Points(A), A # {}
    PROVE  Cong(Lagrange(A, Ones(A)), 1) /\ Lagrange(A, Ones(A)) \in Int
  <1> DEFINE Q == {X \in SUBSET A : X # {} => Cong(Lagrange(X, Ones(X)), 1)}
  <1>0. \A X \in SUBSET A : Points(X)
    BY FS_Subset, Zenon DEF Points
  <1>1. {} \in Q
    BY Zenon
  <1>2. ASSUME NEW X \in SUBSET A, X # {}, \A x \in X : X \ {x} \in Q PROVE X \in Q
    <2>1. PICK c \in X : TRUE
      BY <1>2, Zenon
    <2>2. CASE X = {c}
      BY <1>0, <2>2, SingleWeight, Zenon
    <2>3. CASE X # {c}
      <3>1. PICK d \in X : d # c
        BY <2>3, Zenon
      <3> DEFINE ones == Ones(X)
                 w == [j \in X |-> d - c]
                 yc == [j \in X |-> j - c]
                 yd == [j \in X |-> j - d]
                 L == Lagrange(X, w)
                 Lo == Lagrange(X, ones)
                 Lc == Lagrange(X, yc)
                 Ld == Lagrange(X, yd)
                 Bc == Lagrange(X \ {c}, Ones(X \ {c}))
                 Bd == Lagrange(X \ {d}, Ones(X \ {d}))
                 e == d - c
      <3>2. Points(X)
        BY <1>0, Zenon
      <3>3. c \in Int /\ d \in Int /\ e \in Int /\ ~Cong(e, 0)
        <4>1. c \in Field /\ d \in Field /\ c \in Int /\ d \in Int
          BY <3>2, PointsFacts, Zenon
        <4> QED
          BY <3>1, <4>1, DistinctPoints
      <3> X \subseteq Int
        BY <3>2, PointsFacts, Zenon
      <3> ones \in [X -> Int] /\ w \in [X -> Int] /\ yc \in [X -> Int] /\ yd \in [X -> Int]
        BY <3>3 DEF Ones
      <3>4. L \in Int /\ Lo \in Int /\ Cong(L, e * Lo + 0 * Lo)
        <4>1. \A j \in X : Cong(w[j], e * ones[j] + 0 * ones[j])
          BY <3>3 DEF Ones, Cong
        <4>2. e \in Int /\ 0 \in Int
          BY <3>3
        <4> HIDE DEF ones, w, e
        <4> QED
          BY <3>2, <4>1, <4>2, LagrangeLinear, Zenon
      <3>5. Lc \in Int /\ Ld \in Int /\ Cong(L, 1 * Lc + (-1) * Ld)
        <4>1. \A j \in X : Cong(w[j], 1 * yc[j] + (-1) * yd[j])
          BY <3>3 DEF Cong
        <4>2. 1 \in Int /\ -1 \in Int
          OBVIOUS
        <4> HIDE DEF yc, yd, w
        <4> QED
          BY <3>2, <4>1, <4>2, LagrangeLinear, ZenonT(30)
      <3>6. Bc \in Int /\ Cong(Lc, (-c) * Bc)
        <4>1. Ones(X \ {c}) \in [X \ {c} -> Int]
          BY Zenon DEF Ones
        <4>2. Cong(yc[c], 0) /\ \A j \in X \ {c} : Cong(yc[j], (j - c) * Ones(X \ {c})[j])
          BY <3>3 DEF Ones, Cong
        <4> HIDE DEF yc
        <4> QED
          BY <3>2, <4>1, <4>2, LagrangeDrop, Zenon
      <3>7. Bd \in Int /\ Cong(Ld, (-d) * Bd)
        <4>1. Ones(X \ {d}) \in [X \ {d} -> Int]
          BY Zenon DEF Ones
        <4>2. Cong(yd[d], 0) /\ \A j \in X \ {d} : Cong(yd[j], (j - d) * Ones(X \ {d})[j])
          BY <3>3 DEF Ones, Cong
        <4> HIDE DEF yd
        <4> QED
          BY <3>2, <4>1, <4>2, LagrangeDrop, Zenon
      <3>8. Cong(Bc, 1) /\ Cong(Bd, 1)
        BY <1>2, <3>1, Zenon
      <3>9. e = d - c
        BY Zenon
      <3> HIDE DEF L, Lo, Lc, Ld, Bc, Bd, e
      <3>10. Cong(Lc, (-c) * 1) /\ Cong(Ld, (-d) * 1)
        <4>1. -c \in Int /\ -d \in Int /\ 1 \in Int /\ Cong(-c, -c) /\ Cong(-d, -d)
          BY <3>3 DEF Cong
        <4>2. Cong((-c) * Bc, (-c) * 1)
          BY <3>6, <3>8, <4>1, CongArith, Zenon
        <4>3. Cong((-d) * Bd, (-d) * 1)
          BY <3>7, <3>8, <4>1, CongArith, Zenon
        <4> QED
          BY <3>6, <3>7, <4>2, <4>3, Zenon DEF Cong
      <3>11. Cong(Lc - Ld, (-c) * 1 - (-d) * 1)
        <4>1. (-c) * 1 \in Int /\ (-d) * 1 \in Int
          BY <3>3
        <4> QED
          BY <3>5, <3>10, <4>1, CongArith, Zenon
      <3>12. /\ (-c) * 1 - (-d) * 1 = e * 1 /\ 1 * Lc + (-1) * Ld = Lc - Ld
             /\ e * Lo + 0 * Lo = e * Lo
        BY <3>3, <3>4, <3>5, <3>9, SMTT(30)
      <3>13. Cong(e * Lo, e * 1)
        BY <3>4, <3>5, <3>11, <3>12, Zenon DEF Cong
      <3>14. Cong(Lo, 1)
        BY <3>3, <3>4, <3>13, Cancel, SMTT(30)
      <3> QED
        BY <3>14, Zenon DEF Lo
    <2> QED
      BY <2>2, <2>3, Zenon
  <1>3. SUBSET A \subseteq Q
    <2>1. IsFiniteSet(A)
      BY Zenon DEF Points
    <2> HIDE DEF Q
    <2> QED
      BY <1>1, <1>2, <2>1, RemovalInduction, Zenon
  <1>4. Lagrange(A, Ones(A)) \in Int
    <2>1. Ones(A) \in [A -> Int] /\ 0 \in Int /\ \A j \in A : Cong(Ones(A)[j], 1 * Ones(A)[j] + 0 * Ones(A)[j])
      BY DEF Ones, Cong
    <2>2. 1 \in Int
      OBVIOUS
    <2> QED
      BY <2>1, <2>2, LagrangeLinear, Zenon
  <1> QED
    BY <1>3, <1>4, Zenon

\* The values of a polynomial at points.
Values(A, p) == [x \in A |-> Evaluate(p, x)]

\* They are integers.
LEMMA ValuesType ==
    ASSUME NEW A, Points(A), NEW n \in Nat, NEW p \in [1..n -> Int]
    PROVE  Values(A, p) \in [A -> Int] /\ \A x \in A : Values(A, p)[x] = Evaluate(p, x) /\ Evaluate(p, x) \in Int
  <1>1. \A x \in A : x \in Int
    BY PointsFacts, Zenon
  <1>2. \A x \in A : Evaluate(p, x) \in Int
    BY <1>1, EvaluateType, Zenon
  <1> QED
    BY <1>2, Zenon DEF Values

\* Lagrange's formula is exact for the polynomials with no more coefficients than
\* there are points.
LEMMA LagrangeExact ==
    ASSUME NEW A, Points(A), NEW n \in Nat, n <= Cardinality(A), NEW p \in [1..n -> Int]
    PROVE  Cong(Lagrange(A, Values(A, p)), Evaluate(p, 0)) /\ Lagrange(A, Values(A, p)) \in Int
  <1> DEFINE Good(X) == \A m \in Nat : m <= Cardinality(X) =>
                            \A q \in [1..m -> Int] : /\ Cong(Lagrange(X, Values(X, q)), Evaluate(q, 0))
                                                     /\ Lagrange(X, Values(X, q)) \in Int
             Q == {X \in SUBSET A : Good(X)}
  <1>0. \A X \in SUBSET A : Points(X) /\ IsFiniteSet(X) /\ Cardinality(X) \in Nat
    BY FS_Subset, FS_CardinalityType, Zenon DEF Points
  <1>1. Good({})
    <2> SUFFICES ASSUME NEW m \in Nat, m <= Cardinality({}), NEW q \in [1..m -> Int]
                 PROVE  Cong(Lagrange({}, Values({}, q)), Evaluate(q, 0)) /\ Lagrange({}, Values({}, q)) \in Int
      BY Zenon
    <2>1. m = 0
      BY FS_EmptySet
    <2>2. Evaluate(q, 0) = 0
      <3>1. 0 \in Int /\ q \in [1..0 -> Int]
        BY <2>1
      <3> QED
        BY <3>1, EvaluateEmpty, Zenon
    <2>3. Lagrange({}, Values({}, q)) = 0
      <3> DEFINE f == [j \in {} |-> Values({}, q)[j] * Num({}, j) * ModInverse(Den({}, j))]
      <3>1. Lagrange({}, Values({}, q)) = SumFunctionOnSet(f, {})
        BY Zenon DEF Lagrange
      <3>2. f \in [{} -> Int] /\ IsFiniteSet({}) /\ {} \in SUBSET {}
        BY FS_EmptySet, Zenon
      <3> HIDE DEF f
      <3> QED
        BY <3>1, <3>2, SumFacts, Zenon
    <2> QED
      BY <2>2, <2>3 DEF Cong
  <1>2. ASSUME NEW X \in SUBSET A, X # {}, \A x \in X : Good(X \ {x}) PROVE Good(X)
    <2> SUFFICES ASSUME NEW m \in Nat, m <= Cardinality(X), NEW q \in [1..m -> Int]
                 PROVE  Cong(Lagrange(X, Values(X, q)), Evaluate(q, 0)) /\ Lagrange(X, Values(X, q)) \in Int
      BY Zenon
    <2> DEFINE y == Values(X, q)
    <2>1. Points(X) /\ IsFiniteSet(X) /\ Cardinality(X) \in Nat
      BY <1>0, Zenon
    <2>2. y \in [X -> Int] /\ \A x \in X : y[x] = Evaluate(q, x) /\ Evaluate(q, x) \in Int
      BY <2>1, ValuesType, Zenon
    <2>3. CASE m = 0
      <3>1. q \in [1..0 -> Int]
        BY <2>3, Zenon
      <3>2. \A x \in X : x \in Int
        BY <2>1, PointsFacts, Zenon
      <3>3. Evaluate(q, 0) = 0 /\ \A x \in X : Evaluate(q, x) = 0
        <4>1. \A x \in Int : Evaluate(q, x) = 0
          BY <3>1, EvaluateEmpty, Zenon
        <4>2. 0 \in Int
          OBVIOUS
        <4> QED
          BY <3>2, <4>1, <4>2, Zenon
      <3>4. \A x \in X : Cong(y[x], 0 * y[x] + 0 * y[x])
        BY <2>2, <3>3 DEF Cong
      <3> DEFINE L == Lagrange(X, y)
      <3>5. L \in Int /\ Cong(L, 0 * L + 0 * L)
        <4>1. 0 \in Int
          OBVIOUS
        <4> HIDE DEF y
        <4> QED
          BY <2>1, <2>2, <3>4, <4>1, LagrangeLinear, Zenon
      <3> HIDE DEF L
      <3>6. 0 * L + 0 * L = 0
        BY <3>5
      <3> QED
        BY <3>3, <3>5, <3>6, Zenon DEF L
    <2>4. CASE m # 0
      <3> DEFINE k == m - 1
      <3>1. k \in Nat /\ m = k + 1 /\ q \in [1..(k + 1) -> Int]
        BY <2>4
      <3>2. PICK c \in X : TRUE
        BY <1>2, Zenon
      <3>3. c \in Int /\ \A x \in X : x \in Int
        BY <2>1, PointsFacts, Zenon
      <3> DEFINE e == Evaluate(q, c)
      <3> HIDE DEF k
      <3>4. PICK d \in [1..k -> Field] : Factor(k, q, d, c, e)
        BY <3>1, <3>3, Division, Zenon
      <3> d \in [1..k -> Int] /\ e \in Int
        BY <2>2, FieldFunction, Zenon
      <3> HIDE DEF e
      <3> DEFINE v == [x \in X |-> (x - c) * Evaluate(d, x)]
                 B == X \ {c}
                 u == Values(B, d)
                 L == Lagrange(X, y)
                 Lo == Lagrange(X, Ones(X))
                 Lv == Lagrange(X, v)
                 Lu == Lagrange(B, u)
                 d0 == Evaluate(d, 0)
                 q0 == Evaluate(q, 0)
      <3>5. \A x \in Int : Evaluate(d, x) \in Int /\ Cong(Evaluate(q, x), e + (x - c) * Evaluate(d, x))
        BY <3>1, <3>3, <3>4, EvaluateFactor, EvaluateType, Zenon
      <3> v \in [X -> Int]
        <4>1. ASSUME NEW x \in X PROVE (x - c) * Evaluate(d, x) \in Int
          <5>1. x \in Int /\ Evaluate(d, x) \in Int
            BY <3>3, <3>5, Zenon
          <5> QED
            BY <3>3, <5>1
        <4> QED
          BY <4>1, Zenon
      <3>6. L \in Int /\ Lo \in Int /\ Lv \in Int /\ Cong(L, e * Lo + 1 * Lv)
        <4>1. \A x \in X : Cong(y[x], e * Ones(X)[x] + 1 * v[x])
          <5> SUFFICES ASSUME NEW x \in X PROVE Cong(y[x], e * Ones(X)[x] + 1 * v[x])
            BY Zenon
          <5>1. y[x] = Evaluate(q, x) /\ Ones(X)[x] = 1 /\ v[x] = (x - c) * Evaluate(d, x) /\ v[x] \in Int
            BY <2>2, Zenon DEF Ones
          <5>2. Cong(Evaluate(q, x), e + v[x])
            BY <3>3, <3>5, <5>1, Zenon
          <5>3. e * 1 + 1 * v[x] = e + v[x]
            BY <5>1
          <5> QED
            BY <5>1, <5>2, <5>3, Zenon
        <4>2. Ones(X) \in [X -> Int] /\ 1 \in Int
          BY DEF Ones
        <4> HIDE DEF y, v
        <4> QED
          BY <2>1, <2>2, <4>1, <4>2, LagrangeLinear, ZenonT(30)
      <3>7. Cong(Lo, 1)
        BY <1>2, <2>1, WeightsAddUp, Zenon
      <3>8. Lu \in Int /\ Cong(Lv, (-c) * Lu)
        <4>1. Points(B)
          BY <1>0, Zenon
        <4>2. u \in [B -> Int] /\ \A x \in B : u[x] = Evaluate(d, x)
          <5> HIDE DEF B
          <5> QED
            BY <3>1, <4>1, ValuesType, Zenon
        <4>3. Cong(v[c], 0)
          <5>1. v[c] = (c - c) * Evaluate(d, c) /\ Evaluate(d, c) \in Int
            BY <3>3, <3>5, Zenon
          <5>2. c - c = 0
            BY <3>3
          <5> QED
            BY <5>1, <5>2 DEF Cong
        <4>4. \A x \in X \ {c} : Cong(v[x], (x - c) * u[x])
          BY <4>2, Zenon DEF Cong
        <4>5. u \in [X \ {c} -> Int]
          BY <4>2, Zenon
        <4> HIDE DEF u, v
        <4> QED
          BY <2>1, <4>3, <4>4, <4>5, LagrangeDrop, Zenon
      <3>9. Cong(Lu, d0)
        <4>1. Cardinality(B) = Cardinality(X) - 1
          BY <2>1, FS_RemoveElement, Zenon
        <4>2. k <= Cardinality(B)
          BY <2>1, <3>1, <4>1, SMTT(30)
        <4>3. Good(B)
          BY <1>2, Zenon
        <4> QED
          BY <3>1, <4>2, <4>3, Zenon
      <3>10. d0 \in Int /\ q0 \in Int /\ Cong(q0, e + (0 - c) * d0)
        <4> 0 \in Int
          OBVIOUS
        <4>1. q0 \in Int
          BY EvaluateType, Zenon
        <4> QED
          BY <3>5, <4>1, Zenon
      <3> HIDE DEF L, Lo, Lv, Lu, d0, q0
      <3>11. Cong(L, q0)
        <4>1. PICK d1 \in Int : L = e * Lo + 1 * Lv + d1 * Prime
          BY <3>6, CongMultiple
        <4>2. PICK d2 \in Int : Lo = 1 + d2 * Prime
          BY <3>6, <3>7, CongMultiple, SMTT(30)
        <4>3. PICK d3 \in Int : Lv = (-c) * Lu + d3 * Prime
          BY <3>3, <3>6, <3>8, CongMultiple, SMTT(30)
        <4>4. PICK d4 \in Int : Lu = d0 + d4 * Prime
          BY <3>8, <3>9, <3>10, CongMultiple, Zenon
        <4>5. PICK d5 \in Int : q0 = e + (0 - c) * d0 + d5 * Prime
          BY <3>3, <3>10, CongMultiple, SMTT(30)
        <4> DEFINE dd == d1 + e * d2 + d3 - c * d4 - d5
        <4>6. L = q0 + dd * Prime /\ dd \in Int
          BY <3>3, <3>6, <3>8, <3>10, <4>1, <4>2, <4>3, <4>4, <4>5, PrimeFacts, SMTT(30)
        <4> HIDE DEF dd
        <4> QED
          BY <3>6, <3>10, <4>6, CongMultiple, Zenon
      <3> QED
        BY <3>6, <3>11, Zenon DEF L, q0
    <2> QED
      BY <2>3, <2>4, Zenon
  <1>3. A \in Q
    <2>1. IsFiniteSet(A)
      BY Zenon DEF Points
    <2> HIDE DEF Good
    <2>2. {} \in Q
      BY <1>1, Zenon
    <2>3. \A X \in SUBSET A : X # {} /\ (\A x \in X : X \ {x} \in Q) => X \in Q
      BY <1>2, Zenon
    <2> HIDE DEF Q
    <2> QED
      BY <2>1, <2>2, <2>3, RemovalInduction, Zenon
  <1> QED
    BY <1>3, Zenon

\* InterpolateAtZero is Lagrange's formula, reduced: an element of the field.
LEMMA InterpolateIsLagrange ==
    ASSUME NEW A, Points(A), NEW ys \in [A -> Int]
    PROVE  InterpolateAtZero(ys) = Lagrange(A, ys) % Prime /\ InterpolateAtZero(ys) \in Field
  <1>1. DOMAIN ys = A
    BY Zenon
  <1>2. InterpolateAtZero(ys) = Lagrange(A, ys) % Prime
    BY <1>1, Zenon DEF InterpolateAtZero, Lagrange, Num, Den
  <1>3. Lagrange(A, ys) \in Int
    <2>1. 0 \in Int /\ 1 \in Int /\ \A j \in A : Cong(ys[j], 1 * ys[j] + 0 * ys[j])
      BY DEF Cong
    <2> QED
      BY <2>1, LagrangeLinear, Zenon
  <1> QED
    BY <1>2, <1>3, ModFacts, Zenon

\* InterpolateAtZero finds the value at 0 of any polynomial with no more
\* coefficients than there are points, from its values at those points.
THEOREM InterpolationIsExact ==
    ASSUME NEW A, Points(A), NEW n \in Nat, n <= Cardinality(A), NEW p \in [1..n -> Int]
    PROVE  InterpolateAtZero([x \in A |-> Evaluate(p, x)]) = Evaluate(p, 0)
  <1>1. Values(A, p) \in [A -> Int]
    BY ValuesType, Zenon
  <1>2. InterpolateAtZero(Values(A, p)) = Lagrange(A, Values(A, p)) % Prime
    BY <1>1, InterpolateIsLagrange, Zenon
  <1>3. Cong(Lagrange(A, Values(A, p)), Evaluate(p, 0))
    BY LagrangeExact, Zenon
  <1>4. Evaluate(p, 0) % Prime = Evaluate(p, 0)
    <2>1. 0 \in Int
      OBVIOUS
    <2>2. Evaluate(p, 0) \in Field
      BY <2>1, EvaluateType, Zenon
    <2> QED
      BY <2>2, ModSmall, Zenon
  <1> QED
    BY <1>2, <1>3, <1>4, Zenon DEF Cong, Values

\* The constant terms of enough slices of a symmetric polynomial interpolate to
\* its secret: what checkInterpolationSet computes from the slices of an
\* interpolation set is the corner of the dealer's matrix.
THEOREM SecretOfSlices ==
    ASSUME NEW n \in Nat, NEW F, Symmetric(n + 1, F), NEW A, Points(A), n + 1 <= Cardinality(A)
    PROVE  InterpolateAtZero([u \in A |-> Evaluate(GetUnivariatePolynomial(F, u), 0)]) = F[1][1]
  <1> DEFINE slice == GetUnivariatePolynomial(F, 0)
             col == [i \in 1..(n + 1) |-> F[i][1]]
  <1> F \in [1..(n + 1) -> [1..(n + 1) -> Field]] /\ n + 1 \in Nat /\ 0 \in Int
    BY DEF Symmetric
  <1> slice \in [1..(n + 1) -> Field]
    BY ColumnValue, Zenon
  <1>1. slice \in [1..(n + 1) -> Int]
    BY FieldFunction, Zenon
  <1>2. ASSUME NEW u \in A PROVE Evaluate(GetUnivariatePolynomial(F, u), 0) = Evaluate(slice, u)
    <2>1. u \in Int
      BY PointsFacts, Zenon
    <2> QED
      BY <2>1, SlicesFit, Zenon
  <1>3. [u \in A |-> Evaluate(GetUnivariatePolynomial(F, u), 0)] = [u \in A |-> Evaluate(slice, u)]
    BY <1>2, Zenon
  <1>4. InterpolateAtZero([u \in A |-> Evaluate(slice, u)]) = Evaluate(slice, 0)
    <2> HIDE DEF slice
    <2> QED
      BY <1>1, InterpolationIsExact, Zenon
  <1>5. Evaluate(slice, 0) = slice[1]
    <2> HIDE DEF slice
    <2> QED
      BY EvaluateAtZero, Zenon
  <1>6. slice[1] = Evaluate(col, 0)
    <2>1. Len(F) = n + 1
      BY LenOfFunction, Zenon
    <2>2. 1 \in 1..(n + 1)
      OBVIOUS
    <2> QED
      BY <2>1, <2>2, Zenon DEF GetUnivariatePolynomial
  <1>7. Evaluate(col, 0) = F[1][1]
    <2>1. col \in [1..(n + 1) -> Field] /\ col[1] = F[1][1]
      OBVIOUS
    <2> HIDE DEF col
    <2>2. Evaluate(col, 0) = col[1]
      BY <2>1, EvaluateAtZero, Zenon
    <2> QED
      BY <2>1, <2>2, Zenon
  <1> QED
    BY <1>3, <1>4, <1>5, <1>6, <1>7, Zenon
=============================================================================
