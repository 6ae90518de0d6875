----------------------------- MODULE StaleWrites -----------------------------
(***************************************************************************)
(* How often calls that overlap can raise a counter which each of them     *)
(* writes as one more than it read: the lemmas behind GuessesBounded       *)
(* (Credentials) and UsesBounded (Totp).                                   *)
(*                                                                         *)
(* The provers apply no induction theorem that takes a predicate; a set    *)
(* takes its place here.                                                   *)
(***************************************************************************)
EXTENDS Integers, FiniteSets, Combinatorics, FiniteSetTheorems, WellFoundedInduction, TLAPS

-----------------------------------------------------------------------------
(* Induction over the naturals, for a set of them.                         *)

LEMMA LeastNumber ==
  ASSUME NEW S \in SUBSET Nat, S # {}
  PROVE  \E n \in S : \A m \in S : n <= m
<1>1. PICK R : R = OpToRel(<, Nat)
  OBVIOUS
<1>2. IsWellFoundedOn(R, Nat)
  BY <1>1, NatLessThanWellFounded
<1>3. \A n, m \in Nat : m < n => <<m, n>> \in R
  BY <1>1 DEF OpToRel
<1>4. PICK n \in S : \A m \in S : ~ (<<m, n>> \in R)
  BY <1>2, WFMin
<1>5. \A m \in S : ~ (m < n)
  BY <1>3, <1>4
<1>6. QED
  BY <1>5

LEMMA SetInduction ==
  ASSUME NEW S \in SUBSET Nat, 0 \in S, \A n \in S : n + 1 \in S
  PROVE  S = Nat
<1> SUFFICES ASSUME Nat \ S # {} PROVE FALSE
  OBVIOUS
<1>1. PICK n \in Nat \ S : \A m \in Nat \ S : n <= m
  BY LeastNumber
<1>2. n - 1 \in S /\ n - 1 + 1 = n
  BY <1>1
<1>3. QED
  BY <1>1, <1>2

-----------------------------------------------------------------------------
(* Factorials and binomial coefficients.                                   *)

\* f is the factorial up to n.
FactorialTo(f, n) == f[0] = 1 /\ \A i \in 1 .. n : f[i] = i * f[i - 1]

LEMMA FactorialsExist ==
  ASSUME NEW n \in Nat
  PROVE  \E f \in [0 .. n -> Nat] : FactorialTo(f, n)
<1> DEFINE S == {m \in Nat : \E f \in [0 .. m -> Nat] : FactorialTo(f, m)}
<1>1. 0 \in S
  <2>1. [i \in 0 .. 0 |-> 1] \in [0 .. 0 -> Nat]
    OBVIOUS
  <2>2. FactorialTo([i \in 0 .. 0 |-> 1], 0)
    BY DEF FactorialTo
  <2>3. QED
    BY <2>1, <2>2
<1>2. ASSUME NEW m \in S
      PROVE  m + 1 \in S
  <2>1. PICK f \in [0 .. m -> Nat] : FactorialTo(f, m)
    OBVIOUS
  <2> DEFINE g == [i \in 0 .. m + 1 |-> IF i <= m THEN f[i] ELSE (m + 1) * f[m]]
  <2>2. m \in Nat /\ f[m] \in Nat
    OBVIOUS
  <2>3. (m + 1) * f[m] \in Nat
    BY <2>2
  <2>4. g \in [0 .. m + 1 -> Nat]
    BY <2>2, <2>3
  <2>5. FactorialTo(g, m + 1)
    <3>1. g[0] = 1
      BY <2>1, <2>2 DEF FactorialTo
    <3>2. ASSUME NEW i \in 1 .. m + 1
          PROVE  g[i] = i * g[i - 1]
      <4>1. CASE i <= m
        BY <2>1, <2>2, <4>1 DEF FactorialTo
      <4>2. CASE i = m + 1
        BY <2>2, <4>2
      <4>3. QED
        BY <2>2, <4>1, <4>2
    <3>3. QED
      BY <3>1, <3>2 DEF FactorialTo
  <2>6. m + 1 \in Nat /\ \E e \in [0 .. m + 1 -> Nat] : FactorialTo(e, m + 1)
    <3> HIDE DEF g
    <3>1. QED
      BY <2>2, <2>4, <2>5
  <2>7. QED
    BY <2>6
<1>3. S = Nat
  <2> HIDE DEF S
  <2>1. S \in SUBSET Nat
    BY DEF S
  <2>2. QED
    BY <1>1, <1>2, <2>1, SetInduction
<1>4. QED
  BY <1>3

LEMMA FactorialsAgree ==
  ASSUME NEW n \in Nat, NEW m \in Nat, NEW f, NEW g, FactorialTo(f, n), FactorialTo(g, m)
  PROVE  \A i \in Nat : i <= n /\ i <= m => f[i] = g[i]
<1> DEFINE S == {i \in Nat : i <= n /\ i <= m => f[i] = g[i]}
<1>1. 0 \in S
  BY DEF FactorialTo
<1>2. ASSUME NEW i \in S
      PROVE  i + 1 \in S
  <2>1. CASE i + 1 <= n /\ i + 1 <= m
    <3>1. f[i] = g[i] /\ i + 1 \in 1 .. n /\ i + 1 \in 1 .. m /\ i + 1 - 1 = i
      BY <2>1
    <3>2. f[i + 1] = (i + 1) * f[i] /\ g[i + 1] = (i + 1) * g[i]
      BY <3>1 DEF FactorialTo
    <3>3. QED
      BY <3>1, <3>2
  <2>2. QED
    BY <2>1
<1>3. S = Nat
  <2> HIDE DEF S
  <2>1. S \in SUBSET Nat
    BY DEF S
  <2>2. QED
    BY <1>1, <1>2, <2>1, SetInduction
<1>4. QED
  BY <1>3

\* The recursive definition of factorial has a solution, so that it is one.
LEMMA FactorialEquation ==
  /\ factorial[0] = 1
  /\ \A n \in Nat : factorial[n + 1] = (n + 1) * factorial[n]
<1> DEFINE F(n) == CHOOSE f \in [0 .. n -> Nat] : FactorialTo(f, n)
           h == [n \in Nat |-> F(n)[n]]
<1>1. \A n \in Nat : F(n) \in [0 .. n -> Nat] /\ FactorialTo(F(n), n)
  BY FactorialsExist
<1>2. ASSUME NEW n \in Nat, n # 0
      PROVE  h[n] = n * h[n - 1]
  <2>1. n - 1 \in Nat /\ n - 1 <= n
    BY <1>2
  <2>2. FactorialTo(F(n), n) /\ FactorialTo(F(n - 1), n - 1)
    BY <1>1, <2>1
  <2> HIDE DEF F
  <2>3. F(n)[n - 1] = F(n - 1)[n - 1]
    BY <2>1, <2>2, FactorialsAgree
  <2>4. F(n)[n] = n * F(n)[n - 1]
    BY <1>2, <2>2 DEF FactorialTo
  <2>5. QED
    BY <2>1, <2>3, <2>4
<1>3. h[0] = 1
  <2>1. FactorialTo(F(0), 0)
    BY <1>1
  <2> HIDE DEF F
  <2>2. QED
    BY <2>1 DEF FactorialTo
<1>4. h = [n \in Nat |-> IF n = 0 THEN 1 ELSE n * h[n - 1]]
  <2>1. \A n \in Nat : h[n] = IF n = 0 THEN 1 ELSE n * h[n - 1]
    <3> HIDE DEF h
    <3>1. QED
      BY <1>2, <1>3
  <2> DEFINE K(n) == F(n)[n]
  <2>2. h = [n \in Nat |-> h[n]]
    <3> HIDE DEF K
    <3>1. ASSUME NEW g, g = [n \in Nat |-> K(n)]
          PROVE  g = [n \in Nat |-> g[n]]
      BY <3>1
    <3>2. h = [n \in Nat |-> K(n)]
      BY DEF K
    <3> HIDE DEF h
    <3>3. QED
      BY <3>1, <3>2
  <2> HIDE DEF h
  <2>3. QED
    BY <2>1, <2>2
<1> HIDE DEF h
<1>5. factorial = [n \in Nat |-> IF n = 0 THEN 1 ELSE n * factorial[n - 1]]
  BY <1>4 DEF factorial
<1>6. \A n \in Nat : factorial[n] = IF n = 0 THEN 1 ELSE n * factorial[n - 1]
  <2>1. PICK f : f = factorial
    OBVIOUS
  <2>2. f = [n \in Nat |-> IF n = 0 THEN 1 ELSE n * f[n - 1]]
    BY <1>5, <2>1
  <2>3. \A n \in Nat : f[n] = IF n = 0 THEN 1 ELSE n * f[n - 1]
    BY <2>2
  <2>4. QED
    BY <2>1, <2>3
<1>7. \A n \in Nat : n + 1 \in Nat /\ n + 1 # 0 /\ n + 1 - 1 = n
  OBVIOUS
<1>8. QED
  BY <1>6, <1>7

LEMMA FactorialPositive == \A n \in Nat : factorial[n] \in Nat \ {0}
<1> DEFINE S == {n \in Nat : factorial[n] \in Nat \ {0}}
<1>1. 0 \in S
  BY FactorialEquation
<1>2. ASSUME NEW n \in S
      PROVE  n + 1 \in S
  <2>1. PICK x \in Nat \ {0} : x = factorial[n]
    OBVIOUS
  <2>2. (n + 1) * x \in Nat \ {0}
    <3>1. \A a, b \in Nat \ {0} : a * b \in Nat \ {0}
      OBVIOUS
    <3>2. QED
      BY <3>1
  <2>3. QED
    BY <2>1, <2>2, FactorialEquation
<1>3. S = Nat
  <2> HIDE DEF S
  <2>1. S \in SUBSET Nat
    BY DEF S
  <2>2. QED
    BY <1>1, <1>2, <2>1, SetInduction
<1>4. QED
  BY <1>3

\* q is the number of ways to choose k of k + m.
Chooses(q, k, m) == factorial[k + m] = q * (factorial[k] * factorial[m])

LEMMA PascalStep ==
  ASSUME NEW k \in Nat, NEW m \in Nat, NEW p \in Nat, NEW q \in Nat,
         Chooses(p, k, m + 1), Chooses(q, k + 1, m)
  PROVE  Chooses(p + q, k + 1, m + 1)
<1>1. PICK a \in Nat, b \in Nat, c \in Nat :
        a = factorial[k] /\ b = factorial[m] /\ c = factorial[k + m + 1]
  BY FactorialPositive
<1>2. factorial[k + 1] = (k + 1) * a /\ factorial[m + 1] = (m + 1) * b
  BY <1>1, FactorialEquation
<1>3. k + (m + 1) = k + m + 1 /\ k + 1 + m = k + m + 1 /\ k + 1 + (m + 1) = k + m + 1 + 1
  OBVIOUS
<1>4. factorial[k + 1 + (m + 1)] = (k + m + 1 + 1) * c
  BY <1>1, <1>3, FactorialEquation
<1>5. c = p * (a * ((m + 1) * b)) /\ c = q * (((k + 1) * a) * b)
  BY <1>1, <1>2, <1>3 DEF Chooses
<1>6. (k + 1) * c = p * (((k + 1) * a) * ((m + 1) * b))
  BY <1>5
<1>7. (m + 1) * c = q * (((k + 1) * a) * ((m + 1) * b))
  BY <1>5
<1>8. (k + m + 1 + 1) * c = (k + 1) * c + (m + 1) * c
  OBVIOUS
<1>9. (k + m + 1 + 1) * c = (p + q) * (((k + 1) * a) * ((m + 1) * b))
  <2>1. PICK x \in Nat : x = ((k + 1) * a) * ((m + 1) * b)
    OBVIOUS
  <2>2. (p + q) * x = p * x + q * x
    OBVIOUS
  <2>3. QED
    BY <1>6, <1>7, <1>8, <2>1, <2>2
<1>10. QED
  BY <1>2, <1>4, <1>9 DEF Chooses

LEMMA ChoosesEnds ==
  ASSUME NEW k \in Nat
  PROVE  Chooses(1, k, 0) /\ Chooses(1, 0, k)
<1>1. PICK a \in Nat : a = factorial[k]
  BY FactorialPositive
<1>2. a = 1 * (a * 1) /\ a = 1 * (1 * a)
  OBVIOUS
<1>3. QED
  BY <1>1, <1>2, FactorialEquation DEF Chooses

\* The quotient in the definition of choose is exact.
LEMMA ChoosesExists ==
  ASSUME NEW k \in Nat, NEW m \in Nat
  PROVE  \E q \in Nat \ {0} : Chooses(q, k, m)
<1> DEFINE S == {n \in Nat : \A i, j \in Nat : i + j = n => \E q \in Nat \ {0} : Chooses(q, i, j)}
<1>1. 0 \in S
  <2>1. \A i, j \in Nat : i + j = 0 => i = 0 /\ j = 0
    OBVIOUS
  <2>2. QED
    BY <2>1, ChoosesEnds
<1>2. ASSUME NEW n \in S
      PROVE  n + 1 \in S
  <2> SUFFICES ASSUME NEW i \in Nat, NEW j \in Nat, i + j = n + 1
               PROVE  \E q \in Nat \ {0} : Chooses(q, i, j)
    OBVIOUS
  <2>1. CASE i = 0 \/ j = 0
    BY <2>1, ChoosesEnds
  <2>2. CASE i # 0 /\ j # 0
    <3>1. PICK a \in Nat, b \in Nat : i = a + 1 /\ j = b + 1
      <4>1. i - 1 \in Nat /\ j - 1 \in Nat /\ i = i - 1 + 1 /\ j = j - 1 + 1
        BY <2>2
      <4>2. QED
        BY <4>1
    <3>2. n \in Nat /\ a + (b + 1) = n /\ a + 1 + b = n
      BY <3>1
    <3>3. PICK p \in Nat \ {0} : Chooses(p, a, b + 1)
      BY <3>2
    <3>4. PICK q \in Nat \ {0} : Chooses(q, a + 1, b)
      BY <3>2
    <3>5. Chooses(p + q, a + 1, b + 1) /\ p + q \in Nat \ {0}
      BY <3>3, <3>4, PascalStep
    <3>6. QED
      BY <3>1, <3>5
  <2>3. QED
    BY <2>1, <2>2
<1>3. S = Nat
  <2> HIDE DEF S
  <2>1. S \in SUBSET Nat
    BY DEF S
  <2>2. QED
    BY <1>1, <1>2, <2>1, SetInduction
<1>4. PICK n \in Nat : n = k + m
  OBVIOUS
<1>5. n \in S
  <2> HIDE DEF S
  <2>1. QED
    BY <1>3
<1>6. QED
  BY <1>4, <1>5

LEMMA ChooseIs ==
  ASSUME NEW k \in Nat, NEW m \in Nat, NEW q \in Nat, Chooses(q, k, m)
  PROVE  choose(k + m, k) = q
<1>1. k + m - k = m
  OBVIOUS
<1>2. PICK a \in Nat \ {0}, b \in Nat \ {0} : a = factorial[k] /\ b = factorial[m]
  BY FactorialPositive
<1>3. PICK d \in Nat \ {0} : d = a * b
  <2>1. \A x, y \in Nat \ {0} : x * y \in Nat \ {0}
    OBVIOUS
  <2>2. QED
    BY <2>1
<1>4. (q * d) \div d = q
  OBVIOUS
<1>5. QED
  BY <1>1, <1>2, <1>3, <1>4 DEF choose, Chooses

\* The number of multisets of size k over m + 1 values
Ways(k, m) == choose(k + m, k)

LEMMA WaysFacts ==
  ASSUME NEW k \in Nat, NEW m \in Nat
  PROVE  /\ Ways(k, m) \in Nat \ {0}
         /\ Ways(k, 0) = 1 /\ Ways(0, m) = 1
         /\ Ways(k + 1, m + 1) = Ways(k, m + 1) + Ways(k + 1, m)
         /\ Ways(k, m) <= Ways(k + 1, m)
<1>1. \A i, j \in Nat : Ways(i, j) \in Nat \ {0} /\ Chooses(Ways(i, j), i, j)
  <2> SUFFICES ASSUME NEW i \in Nat, NEW j \in Nat
               PROVE  Ways(i, j) \in Nat \ {0} /\ Chooses(Ways(i, j), i, j)
    OBVIOUS
  <2>1. PICK q \in Nat \ {0} : Chooses(q, i, j)
    BY ChoosesExists
  <2>2. Ways(i, j) = q
    BY <2>1, ChooseIs DEF Ways
  <2>3. QED
    BY <2>1, <2>2
<1>2. Ways(k, 0) = 1 /\ Ways(0, m) = 1 /\ Ways(k + 1, 0) = 1
  BY ChoosesEnds, ChooseIs DEF Ways
<1>3. \A j \in Nat : Ways(k + 1, j + 1) = Ways(k, j + 1) + Ways(k + 1, j)
  <2> SUFFICES ASSUME NEW j \in Nat
               PROVE  Ways(k + 1, j + 1) = Ways(k, j + 1) + Ways(k + 1, j)
    OBVIOUS
  <2>1. PICK p \in Nat, q \in Nat : p = Ways(k, j + 1) /\ q = Ways(k + 1, j)
    <3>1. k + 1 \in Nat /\ j + 1 \in Nat
      OBVIOUS
    <3>2. QED
      BY <1>1, <3>1
  <2>2. Chooses(p, k, j + 1) /\ Chooses(q, k + 1, j)
    BY <1>1, <2>1
  <2>3. Chooses(p + q, k + 1, j + 1)
    BY <2>2, PascalStep
  <2>4. choose(k + 1 + (j + 1), k + 1) = p + q
    BY <2>3, ChooseIs
  <2>5. QED
    BY <2>1, <2>4 DEF Ways
<1>4. Ways(k, m) <= Ways(k + 1, m)
  <2>1. CASE m = 0
    BY <1>2, <2>1
  <2>2. CASE m # 0
    <3>1. PICK j \in Nat : m = j + 1
      <4>1. m - 1 \in Nat /\ m = m - 1 + 1
        BY <2>2
      <4>2. QED
        BY <4>1
    <3>2. Ways(k + 1, j + 1) = Ways(k, j + 1) + Ways(k + 1, j)
      BY <1>3
    <3>3. Ways(k + 1, j) \in Nat /\ Ways(k, j + 1) \in Nat
      <4>1. k + 1 \in Nat /\ j + 1 \in Nat
        OBVIOUS
      <4>2. QED
        BY <1>1, <4>1
    <3>4. QED
      BY <3>1, <3>2, <3>3
  <2>3. QED
    BY <2>1, <2>2
<1>5. QED
  BY <1>1, <1>2, <1>3, <1>4

LEMMA WaysGrow ==
  ASSUME NEW u \in Nat, NEW v \in Nat, u <= v, NEW m \in Nat
  PROVE  Ways(u, m) <= Ways(v, m)
<1> DEFINE S == {d \in Nat : Ways(u, m) <= Ways(u + d, m)}
<1>1. 0 \in S
  <2>1. u + 0 = u /\ Ways(u, m) \in Nat
    BY WaysFacts
  <2>2. QED
    BY <2>1
<1>2. ASSUME NEW d \in S
      PROVE  d + 1 \in S
  <2>1. u + d \in Nat /\ u + (d + 1) = u + d + 1
    OBVIOUS
  <2>2. Ways(u, m) <= Ways(u + d, m) /\ Ways(u + d, m) <= Ways(u + d + 1, m)
    BY <2>1, WaysFacts
  <2>3. Ways(u, m) \in Nat /\ Ways(u + d, m) \in Nat /\ Ways(u + d + 1, m) \in Nat
    <3>1. u + d + 1 \in Nat
      OBVIOUS
    <3>2. QED
      BY <2>1, <3>1, WaysFacts
  <2>4. QED
    BY <2>1, <2>2, <2>3
<1>3. S = Nat
  <2> HIDE DEF S
  <2>1. S \in SUBSET Nat
    BY DEF S
  <2>2. QED
    BY <1>1, <1>2, <2>1, SetInduction
<1>4. PICK d \in Nat : v = u + d
  <2>1. v - u \in Nat /\ v = u + (v - u)
    OBVIOUS
  <2>2. QED
    BY <2>1
<1>5. d \in S
  <2> HIDE DEF S
  <2>1. QED
    BY <1>3
<1>6. QED
  BY <1>4, <1>5

-----------------------------------------------------------------------------
(***************************************************************************)
(* A counter starts at 0; a write raises it by one over the value the      *)
(* writer read, which may be above or below what it is by now.  Level j of *)
(* 0 .. N - 1 holds the writers that can do nothing any more to bring the  *)
(* counter to j + 1: the counter is above j, and so is what they read.     *)
(*                                                                         *)
(* A write from a to a + 1 adds its writer to level a and may empty the    *)
(* levels above: read from the level N - 1 down as the digits of a number, *)
(* the levels say how many writes there were.  Gain is what a level with u *)
(* writers is worth, with m levels from it to the top.                     *)
(***************************************************************************)
Gain(u, m) == IF u = 0 THEN 0 ELSE Ways(u - 1, m)

LEMMA GainFacts ==
  ASSUME NEW u \in Nat, NEW m \in Nat
  PROVE  /\ Gain(u, m) \in Nat
         /\ Gain(u + 1, m) = Ways(u, m)
         /\ Ways(u, m + 1) = Ways(u, m) + Gain(u, m + 1)
         /\ \A v \in Nat : u <= v => Gain(u, m) <= Gain(v, m)
<1>1. \A v \in Nat : v # 0 => v - 1 \in Nat /\ v - 1 + 1 = v
  OBVIOUS
<1>2. \A v \in Nat : Gain(v, m) \in Nat
  BY <1>1, WaysFacts DEF Gain
<1>3. Gain(u + 1, m) = Ways(u, m)
  <2>1. u + 1 # 0 /\ u + 1 - 1 = u
    OBVIOUS
  <2>2. QED
    BY <2>1 DEF Gain
<1>4. Ways(u, m + 1) = Ways(u, m) + Gain(u, m + 1)
  <2>1. m + 1 \in Nat
    OBVIOUS
  <2>2. CASE u = 0
    <3>1. Ways(0, m + 1) = 1 /\ Ways(0, m) = 1
      BY <2>1, WaysFacts
    <3>2. QED
      BY <2>2, <3>1 DEF Gain
  <2>3. CASE u # 0
    <3>1. PICK v \in Nat : u = v + 1
      BY <1>1, <2>3
    <3>2. Ways(v + 1, m + 1) = Ways(v, m + 1) + Ways(v + 1, m)
      BY WaysFacts
    <3>3. Gain(u, m + 1) = Ways(v, m + 1)
      <4>1. u - 1 = v
        BY <3>1
      <4>2. QED
        BY <2>3, <4>1 DEF Gain
    <3>4. Ways(v, m + 1) \in Nat /\ Ways(v + 1, m) \in Nat
      <4>1. v + 1 \in Nat
        OBVIOUS
      <4>2. QED
        BY <2>1, <4>1, WaysFacts
    <3>5. QED
      BY <3>1, <3>2, <3>3, <3>4
  <2>4. QED
    BY <2>2, <2>3
<1>5. ASSUME NEW v \in Nat, u <= v
      PROVE  Gain(u, m) <= Gain(v, m)
  <2>1. CASE u = 0
    BY <1>2, <2>1 DEF Gain
  <2>2. CASE u # 0
    <3>1. u - 1 \in Nat /\ v - 1 \in Nat /\ u - 1 <= v - 1 /\ v # 0
      BY <1>5, <2>2
    <3>2. QED
      BY <2>2, <3>1, WaysGrow DEF Gain
  <2>3. QED
    BY <2>1, <2>2
<1>6. QED
  BY <1>2, <1>3, <1>4, <1>5

\* h counts, for each level, the writes that levels from it on account for.
Explains(h, A, N) ==
  /\ h \in [0 .. N -> Nat]
  /\ h[N] = 0
  /\ \A j \in 0 .. N - 1 : h[j] <= h[j + 1] + Gain(Cardinality(A[j]), N - j)

\* There were at most as many writes as the levels account for.
Bounded(A, N, n) == \E h : Explains(h, A, N) /\ n <= h[0]

Levels(A, N, R) ==
  /\ \A j \in 0 .. N - 1 : A[j] \in SUBSET R
  /\ \A i, j \in 0 .. N - 1 : i <= j => A[j] \subseteq A[i]

\* Levels of at most u writers account for fewer writes than Ways.
LEMMA FromLevel ==
  ASSUME NEW N \in Nat, NEW h, NEW A, Explains(h, A, N), NEW u \in Nat, NEW a \in 0 .. N,
         \A j \in a .. N - 1 : Cardinality(A[j]) \in Nat /\ Cardinality(A[j]) <= u
  PROVE  h[a] < Ways(u, N - a)
<1> DEFINE S == {i \in Nat : i <= N - a => h[N - i] < Ways(u, i)}
<1>1. 0 \in S
  <2>1. N - 0 = N /\ Ways(u, 0) = 1
    BY WaysFacts
  <2>2. QED
    BY <2>1 DEF Explains
<1>2. ASSUME NEW i \in S
      PROVE  i + 1 \in S
  <2>1. CASE i + 1 <= N - a
    <3>1. PICK j \in a .. N - 1 : j = N - (i + 1)
      BY <2>1
    <3>2. j \in 0 .. N - 1 /\ N - i = j + 1 /\ N - j = i + 1 /\ j + 1 \in 0 .. N /\ i <= N - a /\ j \in 0 .. N
      BY <2>1, <3>1
    <3>3. h[j] <= h[j + 1] + Gain(Cardinality(A[j]), i + 1)
      BY <3>2 DEF Explains
    <3>4. PICK c \in Nat : c = Cardinality(A[j]) /\ c <= u
      OBVIOUS
    <3>5. h[j + 1] < Ways(u, i)
      BY <3>2
    <3>6. i \in Nat /\ i + 1 \in Nat
      OBVIOUS
    <3>7. PICK g \in Nat, gu \in Nat : g = Gain(c, i + 1) /\ gu = Gain(u, i + 1) /\ g <= gu
      <4>1. PICK l \in Nat : l = i + 1
        BY <3>6
      <4>2. Gain(c, l) \in Nat /\ Gain(u, l) \in Nat /\ Gain(c, l) <= Gain(u, l)
        BY <3>4, GainFacts
      <4>3. QED
        BY <4>1, <4>2
    <3>8. Ways(u, i + 1) = Ways(u, i) + gu
      BY <3>6, <3>7, GainFacts
    <3>9. h[j] \in Nat /\ h[j + 1] \in Nat /\ Ways(u, i) \in Nat
      BY <3>2, <3>6, WaysFacts DEF Explains
    <3>10. h[j] < Ways(u, i + 1)
      BY <3>3, <3>4, <3>5, <3>7, <3>8, <3>9
    <3>11. QED
      BY <3>1, <3>6, <3>10
  <2>2. QED
    BY <2>1
<1>3. S = Nat
  <2> HIDE DEF S
  <2>1. S \in SUBSET Nat
    BY DEF S
  <2>2. QED
    BY <1>1, <1>2, <2>1, SetInduction
<1>4. N - a \in Nat /\ N - (N - a) = a
  OBVIOUS
<1>5. N - a \in S
  <2> HIDE DEF S
  <2>1. QED
    BY <1>3, <1>4
<1>6. QED
  BY <1>4, <1>5

\* No writes yet
LEMMA NoneYet ==
  ASSUME NEW N \in Nat, NEW A, NEW R, IsFiniteSet(R), Levels(A, N, R)
  PROVE  Bounded(A, N, 0)
<1> DEFINE h == [j \in 0 .. N |-> 0]
<1>1. \A j \in 0 .. N - 1 : Gain(Cardinality(A[j]), N - j) \in Nat
  <2> SUFFICES ASSUME NEW j \in 0 .. N - 1
               PROVE  Gain(Cardinality(A[j]), N - j) \in Nat
    OBVIOUS
  <2>1. Cardinality(A[j]) \in Nat
    BY FS_Subset, FS_CardinalityType DEF Levels
  <2>2. N - j \in Nat
    OBVIOUS
  <2>3. QED
    BY <2>1, <2>2, GainFacts
<1>2. h \in [0 .. N -> Nat] /\ h[N] = 0 /\ h[0] = 0
  OBVIOUS
<1>3. \A j \in 0 .. N - 1 : h[j] <= h[j + 1] + Gain(Cardinality(A[j]), N - j)
  BY <1>1
<1>4. Explains(h, A, N) /\ 0 <= h[0]
  <2> HIDE DEF h
  <2>1. QED
    BY <1>2, <1>3 DEF Explains
<1>5. QED
  BY <1>4 DEF Bounded

\* Levels that grow account for as many writes.
LEMMA Grow ==
  ASSUME NEW N \in Nat, NEW A, NEW B, NEW R, IsFiniteSet(R), Levels(A, N, R), Levels(B, N, R),
         NEW n \in Nat, Bounded(A, N, n), \A j \in 0 .. N - 1 : A[j] \subseteq B[j]
  PROVE  Bounded(B, N, n)
<1>1. PICK h : Explains(h, A, N) /\ n <= h[0]
  BY DEF Bounded
<1>2. ASSUME NEW j \in 0 .. N - 1
      PROVE  h[j] <= h[j + 1] + Gain(Cardinality(B[j]), N - j)
  <2>1. IsFiniteSet(B[j]) /\ A[j] \subseteq B[j]
    BY FS_Subset DEF Levels
  <2>2. PICK c \in Nat, d \in Nat : c = Cardinality(A[j]) /\ d = Cardinality(B[j]) /\ c <= d
    BY <2>1, FS_Subset, FS_CardinalityType
  <2>3. PICK m \in Nat : m = N - j
    OBVIOUS
  <2>4. Gain(c, m) <= Gain(d, m) /\ Gain(c, m) \in Nat /\ Gain(d, m) \in Nat
    BY <2>2, GainFacts
  <2>5. h[j] \in Nat /\ h[j + 1] \in Nat /\ h[j] <= h[j + 1] + Gain(c, m)
    BY <1>1, <2>2, <2>3 DEF Explains
  <2>6. QED
    BY <2>2, <2>3, <2>4, <2>5
<1>3. QED
  BY <1>1, <1>2 DEF Bounded, Explains

\* A write from a to a + 1 by a writer that was not in level a
LEMMA Raise ==
  ASSUME NEW N \in Nat, NEW A, NEW B, NEW R, IsFiniteSet(R), Levels(A, N, R), Levels(B, N, R),
         NEW n \in Nat, Bounded(A, N, n), NEW a \in 0 .. N - 1,
         \A j \in 0 .. a : A[j] \subseteq B[j],
         NEW r \in B[a], r \notin A[a]
  PROVE  Bounded(B, N, n + 1)
<1>1. PICK h : Explains(h, A, N) /\ n <= h[0]
  BY DEF Bounded
<1>2. \A j \in 0 .. N - 1 : IsFiniteSet(A[j]) /\ IsFiniteSet(B[j])
  BY FS_Subset DEF Levels
<1>3. PICK u \in Nat : u = Cardinality(A[a])
  BY <1>2, FS_CardinalityType
<1>4. \A j \in a .. N - 1 : Cardinality(A[j]) \in Nat /\ Cardinality(A[j]) <= u
  <2> SUFFICES ASSUME NEW j \in a .. N - 1
               PROVE  Cardinality(A[j]) \in Nat /\ Cardinality(A[j]) <= u
    OBVIOUS
  <2>1. A[j] \subseteq A[a] /\ IsFiniteSet(A[a])
    BY <1>2 DEF Levels
  <2>2. QED
    BY <1>3, <2>1, FS_Subset, FS_CardinalityType
<1>5. PICK m \in Nat : m = N - a
  OBVIOUS
<1>6. PICK w \in Nat : w = Ways(u, m) /\ h[a] < w
  <2>1. Ways(u, m) \in Nat
    BY WaysFacts
  <2>2. a \in 0 .. N
    OBVIOUS
  <2>3. h[a] < Ways(u, m)
    BY <1>1, <1>4, <1>5, <2>2, FromLevel
  <2>4. QED
    BY <2>1, <2>3
<1>7. \A j \in 0 .. N : h[j] \in Nat
  BY <1>1 DEF Explains
<1>8. PICK d \in Nat : d = w - h[a] /\ d >= 1 /\ h[a] + d = w
  <2>1. h[a] \in Nat
    BY <1>7
  <2>2. QED
    BY <1>6, <2>1
<1>9. w <= Gain(Cardinality(B[a]), m)
  <2>1. A[a] \cup {r} \subseteq B[a] /\ IsFiniteSet(B[a])
    BY <1>2
  <2>2. Cardinality(A[a] \cup {r}) = u + 1
    BY <1>2, <1>3, FS_AddElement
  <2>3. PICK c \in Nat : c = Cardinality(B[a]) /\ u + 1 <= c
    BY <2>1, <2>2, FS_Subset, FS_CardinalityType
  <2>4. u + 1 \in Nat
    OBVIOUS
  <2>5. Gain(u + 1, m) <= Gain(c, m)
    BY <2>3, <2>4, GainFacts
  <2>6. Gain(u + 1, m) = w
    BY <1>6, GainFacts
  <2>7. QED
    BY <2>3, <2>5, <2>6
<1> DEFINE g == [j \in 0 .. N |-> IF j > a THEN 0 ELSE h[j] + d]
<1>10. g \in [0 .. N -> Nat] /\ g[N] = 0 /\ g[0] = h[0] + d
  BY <1>7
<1>11. ASSUME NEW j \in 0 .. N - 1
       PROVE  g[j] <= g[j + 1] + Gain(Cardinality(B[j]), N - j)
  <2>1. PICK c \in Nat, l \in Nat : c = Cardinality(B[j]) /\ l = N - j
    BY <1>2, FS_CardinalityType
  <2>2. Gain(c, l) \in Nat
    BY GainFacts
  <2>3. j \in 0 .. N /\ j + 1 \in 0 .. N
    OBVIOUS
  <2>4. g[j + 1] \in Nat
    BY <1>10, <2>3
  <2>5. CASE j > a
    <3>1. g[j] = 0
      BY <2>3, <2>5
    <3> HIDE DEF g
    <3>2. QED
      BY <2>1, <2>2, <2>4, <3>1
  <2>6. CASE j = a
    <3>1. g[j] = w /\ g[j + 1] = 0
      BY <1>8, <2>3, <2>6
    <3>2. w <= Gain(c, l) /\ l = m
      BY <1>5, <1>9, <2>1, <2>6
    <3> HIDE DEF g
    <3>3. QED
      BY <2>1, <2>2, <3>1, <3>2
  <2>7. CASE j < a
    <3>1. g[j] = h[j] + d /\ g[j + 1] = h[j + 1] + d
      BY <2>3, <2>7
    <3>2. A[j] \subseteq B[j] /\ IsFiniteSet(B[j])
      BY <1>2, <2>7
    <3>3. PICK b \in Nat : b = Cardinality(A[j]) /\ b <= c
      BY <1>2, <2>1, <3>2, FS_Subset, FS_CardinalityType
    <3>4. Gain(b, l) <= Gain(c, l) /\ Gain(b, l) \in Nat
      BY <2>1, <3>3, GainFacts
    <3>5. h[j] <= h[j + 1] + Gain(b, l)
      BY <1>1, <2>1, <3>3 DEF Explains
    <3>6. h[j] \in Nat /\ h[j + 1] \in Nat
      BY <1>7, <2>3
    <3> HIDE DEF g
    <3>7. QED
      BY <2>1, <2>2, <3>1, <3>4, <3>5, <3>6
  <2>8. QED
    BY <2>5, <2>6, <2>7
<1> HIDE DEF g
<1>12. Explains(g, B, N)
  BY <1>10, <1>11 DEF Explains
<1>13. n + 1 <= g[0]
  <2>1. h[0] \in Nat
    BY <1>7
  <2>2. QED
    BY <1>1, <1>8, <1>10, <2>1
<1>14. QED
  BY <1>12, <1>13 DEF Bounded

\* With k writers there are fewer writes than multisets of k of N + 1 values.
LEMMA Limit ==
  ASSUME NEW N \in Nat, NEW A, NEW R, IsFiniteSet(R), Levels(A, N, R),
         NEW n \in Nat, Bounded(A, N, n)
  PROVE  n < choose(Cardinality(R) + N, Cardinality(R))
<1>1. PICK h : Explains(h, A, N) /\ n <= h[0]
  BY DEF Bounded
<1>2. PICK k \in Nat : k = Cardinality(R)
  BY FS_CardinalityType
<1>3. \A j \in 0 .. N - 1 : Cardinality(A[j]) \in Nat /\ Cardinality(A[j]) <= k
  BY <1>2, FS_Subset, FS_CardinalityType DEF Levels
<1>4. h[0] < Ways(k, N)
  <2>1. 0 \in 0 .. N /\ N - 0 = N
    OBVIOUS
  <2>2. h[0] < Ways(k, N - 0)
    BY <1>1, <1>3, <2>1, FromLevel
  <2>3. QED
    BY <2>1, <2>2
<1>5. h[0] \in Nat /\ Ways(k, N) \in Nat
  <2>1. Ways(k, N) \in Nat
    BY WaysFacts
  <2>2. h[0] \in Nat
    BY <1>1 DEF Explains
  <2>3. QED
    BY <2>1, <2>2
<1>6. QED
  BY <1>1, <1>2, <1>4, <1>5 DEF Ways
=============================================================================
