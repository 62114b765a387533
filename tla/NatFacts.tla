------------------------------ MODULE NatFacts ------------------------------
(***************************************************************************)
(* Facts about numbers that the proofs of several components use: least    *)
(* elements (what a scan in index order finds first), induction and        *)
(* recursion over sets and functions, and counters that run modulo m.      *)
(***************************************************************************)
EXTENDS Integers, WellFoundedInduction, TLAPS

(* Every nonempty set of natural numbers has a least element.               *)
LEMMA LeastExists ==
  ASSUME NEW S, S \subseteq Nat, S # {}
  PROVE  \E x \in S : \A y \in S : x <= y
<1>1. \E x \in S : \A y \in S : ~ (<<y, x>> \in OpToRel(<, Nat))
  BY NatLessThanWellFounded, WFMin
<1>2. PICK x \in S : \A y \in S : ~ (<<y, x>> \in OpToRel(<, Nat))
  BY <1>1
<1>3. \A y \in S : ~ (y < x)
  BY <1>2 DEF OpToRel
<1>. QED  BY <1>3

(* Every nonempty set of numbers up to n has a greatest element: what a     *)
(* scan that starts at the upper end finds first.                           *)
LEMMA GreatestExists ==
  ASSUME NEW n \in Nat, NEW S, S \subseteq 0 .. n, S # {}
  PROVE  \E x \in S : \A y \in S : y <= x
<1>. DEFINE T == {n - y : y \in S}
<1>1. T \subseteq Nat
  OBVIOUS
<1>0. T # {}
  <2>1. PICK y \in S : TRUE
    OBVIOUS
  <2>2. n - y \in T
    OBVIOUS
  <2>. QED  BY <2>2
<1>2. PICK t \in T : \A u \in T : t <= u
  BY <1>0, <1>1, LeastExists
<1>3. PICK x \in S : t = n - x
  OBVIOUS
<1>4. \A y \in S : n - x <= n - y
  BY <1>2, <1>3
<1>. QED  BY <1>4

(* Induction: a set of numbers with 0 and with every successor is Nat.      *)
LEMMA Induction ==
  ASSUME NEW P, 0 \in P, \A n \in Nat : n \in P => n + 1 \in P
  PROVE  Nat \subseteq P
<1>. SUFFICES ASSUME Nat \ P # {} PROVE FALSE
  OBVIOUS
<1>1. PICK m \in Nat \ P : \A y \in Nat \ P : m <= y
  BY LeastExists
<1>2. m # 0 /\ m - 1 \in Nat
  OBVIOUS
<1>3. m - 1 \in P
  BY <1>1, <1>2
<1>. QED  BY <1>2, <1>3

(* The same up to a bound.                                                  *)
LEMMA BoundedInduction ==
  ASSUME NEW n \in Nat, NEW P, 0 \in P, \A k \in 0 .. n - 1 : k \in P => k + 1 \in P
  PROVE  0 .. n \subseteq P
<1>. DEFINE Q == {k \in Nat : k <= n => k \in P}
<1>1. 0 \in Q
  OBVIOUS
<1>2. \A k \in Nat : k \in Q => k + 1 \in Q
  OBVIOUS
<1>. HIDE DEF Q
<1>3. Nat \subseteq Q
  BY <1>1, <1>2, Induction
<1>. QED  BY <1>3 DEF Q

(* Recursion: a state s0 and the steps g determine a run f.                 *)
LEMMA Recursion ==
  ASSUME NEW S, NEW s0 \in S, NEW g \in [Nat -> [S -> S]]
  PROVE  \E f \in [Nat -> S] : f[0] = s0 /\ \A n \in Nat : f[n + 1] = g[n][f[n]]
<1>. DEFINE Run(h, n) == h \in [0 .. n -> S] /\ h[0] = s0 /\ \A i \in 0 .. n - 1 : h[i + 1] = g[i][h[i]]
            Good == {n \in Nat : \E h : Run(h, n)}
<1>1. 0 \in Good
  <2>. DEFINE h == [i \in 0 .. 0 |-> s0]
  <2>1. h \in [0 .. 0 -> S] /\ h[0] = s0
    OBVIOUS
  <2>2. \A i \in 0 .. 0 - 1 : h[i + 1] = g[i][h[i]]
    OBVIOUS
  <2>. HIDE DEF h
  <2>3. Run(h, 0)
    BY <2>1, <2>2
  <2>. QED  BY <2>3
<1>2. \A n \in Nat : n \in Good => n + 1 \in Good
  <2>. HIDE DEF Run
  <2>. SUFFICES ASSUME NEW n \in Nat, NEW h, Run(h, n) PROVE \E k : Run(k, n + 1)
    OBVIOUS
  <2>. USE DEF Run
  <2>1. Run(h, n)
    OBVIOUS
  <2>. DEFINE k == [i \in 0 .. n + 1 |-> IF i = n + 1 THEN g[n][h[n]] ELSE h[i]]
  <2>2. h[n] \in S /\ g[n][h[n]] \in S
    BY <2>1
  <2>3. k \in [0 .. n + 1 -> S]
    BY <2>1, <2>2
  <2>4. k[0] = s0
    BY <2>1
  <2>5. ASSUME NEW i \in 0 .. n PROVE k[i + 1] = g[i][k[i]]
    BY <2>1
  <2>. HIDE DEF k
  <2>6. n + 1 - 1 = n
    OBVIOUS
  <2>7. Run(k, n + 1)
    BY <2>3, <2>4, <2>5, <2>6
  <2>. QED  BY <2>7
<1>. HIDE DEF Good
<1>3. Nat \subseteq Good
  BY <1>1, <1>2, Induction
<1>4. ASSUME NEW n \in Nat, NEW h, NEW k, Run(h, n), Run(k, n + 1) PROVE h[n] = k[n]
  <2>. DEFINE Same == {i \in Nat : h[i] = k[i]}
  <2>1. 0 \in Same
    BY <1>4
  <2>2. \A i \in 0 .. n - 1 : i \in Same => i + 1 \in Same
    BY <1>4
  <2>. HIDE DEF Same
  <2>3. 0 .. n \subseteq Same
    BY <2>1, <2>2, BoundedInduction
  <2>. QED  BY <2>3 DEF Same
<1>. DEFINE H(n) == CHOOSE h : Run(h, n)
            f == [n \in Nat |-> H(n)[n]]
<1>5. ASSUME NEW n \in Nat PROVE Run(H(n), n)
  BY <1>3 DEF Good
<1>. HIDE DEF H
<1>6. f \in [Nat -> S]
  BY <1>5
<1>7. f[0] = s0
  BY <1>5
<1>8. ASSUME NEW n \in Nat PROVE f[n + 1] = g[n][f[n]]
  <2>1. Run(H(n), n) /\ Run(H(n + 1), n + 1)
    BY <1>5
  <2>. DEFINE h == H(n)
              k == H(n + 1)
  <2>2. Run(h, n) /\ Run(k, n + 1) /\ f[n] = h[n] /\ f[n + 1] = k[n + 1]
    BY <2>1
  <2>. HIDE DEF h, k, f
  <2>3. k[n + 1] = g[n][k[n]]
    BY <2>2
  <2>. HIDE DEF Run
  <2>4. h[n] = k[n]
    BY <1>4, <2>2
  <2>. QED  BY <2>2, <2>3, <2>4
<1>. QED  BY <1>6, <1>7, <1>8

-----------------------------------------------------------------------------
(* Quotient and remainder.                                                  *)
LEMMA ModDef ==
  ASSUME NEW x \in Int, NEW m \in Nat \ {0}
  PROVE  (x % m) \in 0 .. m - 1 /\ \E q \in Int : x = m * q + (x % m)
<1>1. (x % m) \in 0 .. m - 1
  OBVIOUS
<1>2. (x \div m) \in Int
  OBVIOUS
<1>3. x = m * (x \div m) + (x % m)
  OBVIOUS
<1>. QED  BY <1>1, <1>2, <1>3

(* They are the only ones.                                                  *)
LEMMA ModUnique ==
  ASSUME NEW x \in Int, NEW m \in Nat \ {0}, NEW q \in Int, NEW r \in 0 .. m - 1, x = m * q + r
  PROVE  (x % m) = r
  OBVIOUS

(* A counter that wraps at m, after one step.                               *)
LEMMA ModStep ==
  ASSUME NEW a \in Int, NEW m \in Nat \ {0}
  PROVE  (((a % m) + 1) % m) = (a + 1) % m
<1>1. PICK q \in Int : a = m * q + (a % m)
  BY ModDef
<1>2. (a % m) \in 0 .. m - 1
  BY ModDef
<1>3. CASE (a % m) + 1 < m
  <2>1. a + 1 = m * q + ((a % m) + 1) /\ (a % m) + 1 \in 0 .. m - 1
    BY <1>1, <1>2, <1>3
  <2>2. (a + 1) % m = (a % m) + 1
    <3>1. PICK x \in Int : x = a + 1
      OBVIOUS
    <3>2. x % m = (a % m) + 1
      BY <2>1, <3>1, ModUnique
    <3>. QED  BY <3>1, <3>2
  <2>3. (a % m) + 1 = m * 0 + ((a % m) + 1)
    BY <1>2
  <2>4. ((a % m) + 1) % m = (a % m) + 1
    BY <2>1, <2>3, ModUnique
  <2>. QED  BY <2>2, <2>4
<1>4. CASE (a % m) + 1 = m
  <2>1. a + 1 = m * (q + 1) + 0 /\ q + 1 \in Int /\ 0 \in 0 .. m - 1
    BY <1>1, <1>2, <1>4
  <2>2. (a + 1) % m = 0
    <3>1. PICK x \in Int : x = a + 1
      OBVIOUS
    <3>2. x % m = 0
      BY <2>1, <3>1, ModUnique
    <3>. QED  BY <3>1, <3>2
  <2>3. (a % m) + 1 = m * 1 + 0
    BY <1>4
  <2>4. ((a % m) + 1) % m = 0
    BY <2>1, <2>3, ModUnique
  <2>. QED  BY <2>2, <2>4
<1>. QED  BY <1>2, <1>3, <1>4

(* The distance of two counters that are less than m apart.                 *)
LEMMA ModDiff ==
  ASSUME NEW a \in Int, NEW b \in Int, NEW m \in Nat \ {0}, a <= b, b - a < m
  PROVE  (((b % m) - (a % m)) % m) = b - a
<1>1. PICK q \in Int : a = m * q + (a % m)
  BY ModDef
<1>2. PICK p \in Int : b = m * p + (b % m)
  BY ModDef
<1>3. (a % m) \in 0 .. m - 1 /\ (b % m) \in 0 .. m - 1
  BY ModDef
<1>4. (b % m) - (a % m) = m * (q - p) + (b - a)
  BY <1>1, <1>2, <1>3
<1>. QED  BY <1>3, <1>4, ModUnique

(* A counter that wraps at a multiple of s selects the same slot of s.      *)
LEMMA ModMod ==
  ASSUME NEW a \in Int, NEW s \in Nat \ {0}, NEW k \in Nat \ {0}, NEW m, m = k * s
  PROVE  ((a % m) % s) = a % s
<1>0. m \in Nat \ {0}
  OBVIOUS
<1>1. PICK q \in Int : a = m * q + (a % m)
  BY <1>0, ModDef
<1>2. (a % m) \in Int
  BY <1>0, ModDef
<1>3. PICK p \in Int : (a % m) = s * p + ((a % m) % s)
  BY <1>2, ModDef
<1>4. ((a % m) % s) \in 0 .. s - 1
  BY <1>2, ModDef
<1>5. a = s * (k * q + p) + ((a % m) % s)
  <2>1. m * q = s * (k * q)
    OBVIOUS
  <2>2. s * (k * q + p) = s * (k * q) + s * p
    OBVIOUS
  <2>. QED  BY <1>1, <1>2, <1>3, <1>4, <2>1, <2>2
<1>6. k * q + p \in Int
  OBVIOUS
<1>. QED  BY <1>4, <1>5, <1>6, ModUnique

(* Counters less than s apart select different slots.                       *)
LEMMA ModInj ==
  ASSUME NEW a \in Int, NEW b \in Int, NEW s \in Nat \ {0}, a <= b, b - a < s, (a % s) = (b % s)
  PROVE  a = b
<1>1. ((b % s) - (a % s)) % s = b - a
  BY ModDiff
<1>2. (b % s) - (a % s) = s * 0 + 0
  BY ModDef
<1>3. ((b % s) - (a % s)) % s = 0
  BY <1>2, ModUnique
<1>. QED  BY <1>1, <1>3

(* A whole round selects the same slot again.                               *)
LEMMA ModPlus ==
  ASSUME NEW a \in Int, NEW s \in Nat \ {0}
  PROVE  ((a + s) % s) = a % s
<1>1. PICK q \in Int : a = s * q + (a % s)
  BY ModDef
<1>2. (a % s) \in 0 .. s - 1
  BY ModDef
<1>3. a + s = s * (q + 1) + (a % s)
  BY <1>1, <1>2
<1>4. PICK x \in Int : x = a + s
  OBVIOUS
<1>5. x % s = a % s
  <2>1. q + 1 \in Int
    OBVIOUS
  <2>. QED  BY <1>2, <1>3, <1>4, <2>1, ModUnique
<1>. QED  BY <1>4, <1>5

(* An index below twice m wraps at most once.                               *)
LEMMA WrapOnce ==
  ASSUME NEW x \in Nat, NEW m \in Nat \ {0}, x < 2 * m
  PROVE  x % m = IF x < m THEN x ELSE x - m
  OBVIOUS

(* The same fact about a sum.                                               *)
LEMMA WrapSum ==
  ASSUME NEW a \in Nat, NEW b \in Nat, NEW m \in Nat \ {0}, a + b < 2 * m
  PROVE  (a + b) % m = IF a + b < m THEN a + b ELSE a + b - m
<1>1. PICK x \in Nat : x = a + b
  OBVIOUS
<1>2. x % m = IF x < m THEN x ELSE x - m
  BY <1>1, WrapOnce
<1>3. CASE x < m
  <2>1. x % m = x
    BY <1>2, <1>3
  <2>. QED  BY <1>1, <1>3, <2>1
<1>4. CASE ~(x < m)
  <2>1. x % m = x - m
    BY <1>2, <1>4
  <2>. QED  BY <1>1, <1>4, <2>1
<1>. QED  BY <1>3, <1>4
=============================================================================
