-------------------------- MODULE CidrBlocksProofs --------------------------
(***************************************************************************)
(* Proofs about the address library: its operations agree with the sets of *)
(* addresses that blocks stand for, for octets of any number of bits and   *)
(* whatever blocks they start from.                                        *)
(***************************************************************************)
EXTENDS CidrBlocks, FiniteSetTheorems, SequenceTheorems, NaturalsInduction, WellFoundedInduction, TLAPS

-----------------------------------------------------------------------------
(* Powers of two.                                                          *)

\* Any set of natural numbers has a least element.
LEMMA LeastNumber ==
    ASSUME NEW S \in SUBSET Nat, S # {}
    PROVE  \E m \in S : \A k \in S : m <= k
<1>1. PICK x \in S : \A y \in S : ~(<<y, x>> \in OpToRel(<, Nat))
  BY NatLessThanWellFounded, WFMin
<1>2. ASSUME NEW y \in S
      PROVE  x <= y
  <2>1. ~(<<y, x>> \in {ss \in Nat \X Nat : ss[1] < ss[2]})
    BY <1>1 DEF OpToRel
  <2> QED
    BY <2>1
<1> QED
  BY <1>2

\* A set that holds 0, and with a number the next, is that of all numbers.
LEMMA AllNumbers ==
    ASSUME NEW S \in SUBSET Nat, 0 \in S, \A n \in S : n + 1 \in S
    PROVE  S = Nat
<1> SUFFICES ASSUME Nat \ S # {} PROVE FALSE
  OBVIOUS
<1>1. PICK m \in Nat \ S : \A k \in Nat \ S : m <= k
  BY LeastNumber
<1>2. m - 1 \in Nat /\ m - 1 \notin Nat \ S
  BY <1>1
<1>3. m - 1 \in S /\ (m - 1) + 1 = m
  BY <1>2
<1> QED
  BY <1>1, <1>3

\* The powers of two up to the k-th.
Powers(f, k) == f = [n \in 0..k |-> IF n = 0 THEN 1 ELSE 2 * f[n - 1]]

LEMMA PowersThere ==
    \A k \in Nat : \E f : Powers(f, k)
<1> DEFINE S == {k \in Nat : \E f : Powers(f, k)}
<1>1. 0 \in S
  <2> DEFINE f == [n \in 0..0 |-> 1]
  <2>1. f = [n \in 0..0 |-> IF n = 0 THEN 1 ELSE 2 * f[n - 1]]
    OBVIOUS
  <2> HIDE DEF f
  <2>2. Powers(f, 0)
    BY <2>1 DEF Powers
  <2> QED
    BY <2>2
<1>2. ASSUME NEW k \in S PROVE k + 1 \in S
  <2>1. PICK f : Powers(f, k)
    OBVIOUS
  <2> DEFINE g == [n \in 0..(k + 1) |-> IF n <= k THEN f[n] ELSE 2 * f[k]]
  <2>2. \A n \in 0..k : f[n] = IF n = 0 THEN 1 ELSE 2 * f[n - 1]
    BY <2>1 DEF Powers
  <2>3. ASSUME NEW n \in 0..(k + 1)
        PROVE  g[n] = IF n = 0 THEN 1 ELSE 2 * g[n - 1]
    <3>1. CASE n <= k
      <4>1. g[n] = f[n] /\ n \in 0..k /\ (n # 0 => n - 1 \in 0..k /\ g[n - 1] = f[n - 1])
        BY <3>1
      <4> HIDE DEF g
      <4> QED
        BY <2>2, <4>1
    <3>2. CASE ~(n <= k)
      <4>1. n = k + 1 /\ g[n] = 2 * f[k] /\ n # 0 /\ n - 1 = k /\ g[n - 1] = f[k]
        BY <3>2
      <4> HIDE DEF g
      <4> QED
        BY <4>1
    <3> QED
      BY <3>1, <3>2
  <2>4. g = [n \in 0..(k + 1) |-> g[n]]
    OBVIOUS
  <2> HIDE DEF g
  <2>5. Powers(g, k + 1)
    BY <2>3, <2>4 DEF Powers
  <2> QED
    BY <2>5
<1> HIDE DEF S
<1>3. S = Nat
  <2>1. S \in SUBSET Nat
    BY DEF S
  <2> QED
    BY <1>1, <1>2, <2>1, AllNumbers
<1> QED
  BY <1>3 DEF S

\* They are the same, however many of them are computed.
LEMMA PowersAgree ==
    ASSUME NEW k \in Nat, NEW j \in Nat, NEW f, NEW g, Powers(f, k), Powers(g, j)
    PROVE  \A n \in 0..k : n <= j => f[n] = g[n]
<1> DEFINE Bad == {n \in 0..k : n <= j /\ f[n] # g[n]}
<1>1. \A n \in 0..k : f[n] = IF n = 0 THEN 1 ELSE 2 * f[n - 1]
  BY DEF Powers
<1>2. \A n \in 0..j : g[n] = IF n = 0 THEN 1 ELSE 2 * g[n - 1]
  BY DEF Powers
<1> SUFFICES ASSUME Bad # {} PROVE FALSE
  OBVIOUS
<1>3. PICK m \in Bad : \A n \in Bad : m <= n
  <2>1. Bad \in SUBSET Nat
    OBVIOUS
  <2> HIDE DEF Bad
  <2> QED
    BY <2>1, LeastNumber
<1>4. m \in 0..k /\ m \in 0..j /\ f[m] # g[m]
  OBVIOUS
<1>5. m # 0
  BY <1>1, <1>2, <1>4
<1>6. m - 1 \in 0..k /\ m - 1 <= j /\ m - 1 \notin Bad
  BY <1>3, <1>4, <1>5
<1>7. f[m - 1] = g[m - 1]
  BY <1>6
<1> QED
  BY <1>1, <1>2, <1>4, <1>5, <1>7

\* So the function is what its definition says.
LEMMA PowerDef ==
    Pow2 = [n \in Nat |-> IF n = 0 THEN 1 ELSE 2 * Pow2[n - 1]]
<1> DEFINE h == [n \in Nat |-> CHOOSE f : Powers(f, n)]
           g == [n \in Nat |-> h[n][n]]
<1>0. ASSUME NEW f, NEW n \in Nat, Powers(f, n)
      PROVE  f[n] = IF n = 0 THEN 1 ELSE 2 * f[n - 1]
  BY <1>0 DEF Powers
<1>1. \A n \in Nat : Powers(h[n], n)
  BY PowersThere
<1>2. ASSUME NEW n \in Nat
      PROVE  g[n] = IF n = 0 THEN 1 ELSE 2 * g[n - 1]
  <2> HIDE DEF h
  <2>1. h[n][n] = IF n = 0 THEN 1 ELSE 2 * h[n][n - 1]
    BY <1>0, <1>1
  <2>2. CASE n = 0
    BY <2>1, <2>2
  <2>3. CASE n # 0
    <3>1. n - 1 \in Nat /\ n - 1 \in 0..n /\ n - 1 <= n - 1
      BY <2>3
    <3>2. Powers(h[n], n) /\ Powers(h[n - 1], n - 1)
      BY <1>1, <3>1
    <3>3. h[n][n - 1] = h[n - 1][n - 1]
      BY <3>1, <3>2, PowersAgree
    <3> QED
      BY <2>1, <2>3, <3>1, <3>3
  <2> QED
    BY <2>2, <2>3
<1>3. g = [n \in Nat |-> g[n]]
  OBVIOUS
<1> HIDE DEF g
<1>4. g = [n \in Nat |-> IF n = 0 THEN 1 ELSE 2 * g[n - 1]]
  BY <1>2, <1>3
<1>5. \E f : f = [n \in Nat |-> IF n = 0 THEN 1 ELSE 2 * f[n - 1]]
  BY <1>4
<1> QED
  BY <1>5 DEF Pow2

\* What is known of a power of two.
LEMMA Powers2 ==
    /\ Pow2[0] = 1
    /\ \A n \in Nat : Pow2[n] \in Nat /\ Pow2[n] > 0 /\ Pow2[n + 1] = 2 * Pow2[n]
<1>1. \A n \in Nat : Pow2[n] = IF n = 0 THEN 1 ELSE 2 * Pow2[n - 1]
  BY PowerDef
<1>2. Pow2[0] = 1
  BY <1>1
<1>3. \A n \in Nat : Pow2[n + 1] = 2 * Pow2[n]
  <2> SUFFICES ASSUME NEW n \in Nat PROVE Pow2[n + 1] = 2 * Pow2[n]
    OBVIOUS
  <2>1. n + 1 \in Nat /\ n + 1 # 0 /\ (n + 1) - 1 = n
    OBVIOUS
  <2> QED
    BY <1>1, <2>1
<1> DEFINE S == {n \in Nat : Pow2[n] \in Nat /\ Pow2[n] > 0}
<1>4. 0 \in S /\ \A n \in S : n + 1 \in S
  BY <1>2, <1>3
<1>5. S = Nat
  <2>1. S \in SUBSET Nat
    OBVIOUS
  <2> HIDE DEF S
  <2> QED
    BY <1>4, <2>1, AllNumbers
<1> QED
  BY <1>2, <1>3, <1>5

\* Powers multiply.
LEMMA PowerSum ==
    ASSUME NEW m \in Nat
    PROVE  \A n \in Nat : Pow2[m + n] = Pow2[m] * Pow2[n]
<1> DEFINE S == {n \in Nat : Pow2[m + n] = Pow2[m] * Pow2[n]}
<1>1. 0 \in S
  BY Powers2
<1>2. ASSUME NEW n \in S PROVE n + 1 \in S
  <2> DEFINE a == Pow2[m]
             b == Pow2[n]
             c == Pow2[m + n]
  <2>1. c = a * b /\ a \in Nat /\ b \in Nat
    BY Powers2
  <2>2. Pow2[n + 1] = 2 * b
    BY Powers2
  <2>3. Pow2[m + (n + 1)] = 2 * c
    <3>1. m + (n + 1) = (m + n) + 1 /\ m + n \in Nat
      OBVIOUS
    <3> QED
      BY <3>1, Powers2
  <2> HIDE DEF a, b, c
  <2>4. 2 * c = a * (2 * b)
    BY <2>1
  <2> QED
    BY <2>2, <2>3, <2>4 DEF a
<1> HIDE DEF S
<1>3. S = Nat
  <2>1. S \in SUBSET Nat
    BY DEF S
  <2> QED
    BY <1>1, <1>2, <2>1, AllNumbers
<1> QED
  BY <1>3 DEF S

-----------------------------------------------------------------------------
(* Division.                                                               *)

\* A number is its quotient and its rest.
LEMMA Parts ==
    ASSUME NEW a \in Nat, NEW p \in Nat, p > 0
    PROVE  a \div p \in Nat /\ a % p \in 0..(p - 1) /\ a = (a \div p) * p + (a % p)
<1>1. a \div p \in Nat /\ a % p \in 0..(p - 1)
  OBVIOUS
<1>2. a % p = a - p * (a \div p)
  OBVIOUS
<1> DEFINE q == a \div p
           r == a % p
<1>3. q \in Nat /\ r \in Nat /\ r = a - p * q
  BY <1>1, <1>2
<1> HIDE DEF q, r
<1>4. a = q * p + r
  BY <1>3
<1> QED
  BY <1>1, <1>4 DEF q, r

\* No other quotient and rest are.
LEMMA Quotient ==
    ASSUME NEW q \in Nat, NEW p \in Nat, p > 0, NEW r \in 0..(p - 1), NEW a, a = q * p + r
    PROVE  a \div p = q /\ a % p = r
<1>1. (q * p + r) \div p = q
  OBVIOUS
<1>2. (q * p + r) % p = r
  OBVIOUS
<1> QED
  BY <1>1, <1>2

\* The multiple of p below a number, and the number before the next.
LEMMA Below ==
    ASSUME NEW a \in Nat, NEW p \in Nat, p > 0, NEW c \in Nat, a < p * c
    PROVE  /\ a - (a % p) \in Nat /\ a - (a % p) = (a \div p) * p
           /\ a - (a % p) <= a /\ a <= a - (a % p) + p - 1
           /\ a - (a % p) + p <= p * c
<1> DEFINE q == a \div p
           r == a % p
<1>1. q \in Nat /\ r \in 0..(p - 1) /\ a = q * p + r
  BY Parts
<1> HIDE DEF q, r
<1>2. q * p \in Nat /\ p * c \in Nat
  BY <1>1
<1>3. a - r = q * p
  BY <1>1, <1>2
<1>4. q < c
  <2> SUFFICES ASSUME c <= q PROVE FALSE
    BY <1>1
  <2>1. p * c <= q * p
    BY <1>1
  <2> QED
    BY <1>1, <1>2, <2>1
<1>5. q * p + p <= p * c
  BY <1>1, <1>4
<1>6. a - r \in Nat /\ a - r <= a /\ a <= a - r + p - 1 /\ a - r + p <= p * c
  BY <1>1, <1>2, <1>3, <1>5
<1> QED
  BY <1>3, <1>6 DEF q, r

\* Between the two, the quotient is the same.
LEMMA Between ==
    ASSUME NEW a \in Nat, NEW z \in Nat, NEW p \in Nat, p > 0,
           a - (a % p) <= z, z <= a - (a % p) + p - 1
    PROVE  z \div p = a \div p /\ z - (z % p) = a - (a % p)
<1> DEFINE q == a \div p
           r == a % p
           s == z - q * p
<1>1. q \in Nat /\ r \in 0..(p - 1) /\ a = q * p + r /\ q * p \in Nat
  BY Parts
<1>2. q * p <= z /\ z <= q * p + p - 1
  <2>1. a - r <= z /\ z <= a - r + p - 1
    OBVIOUS
  <2> HIDE DEF q, r
  <2> QED
    BY <1>1, <2>1
<1> HIDE DEF q, r
<1>3. s \in 0..(p - 1) /\ z = q * p + s
  BY <1>1, <1>2
<1> HIDE DEF s
<1>4. z \div p = q /\ z % p = s
  BY <1>1, <1>3, Quotient
<1>5. z - s = q * p /\ a - r = q * p
  BY <1>1, <1>3
<1> QED
  BY <1>4, <1>5 DEF q, r

\* Dividing by a product is dividing twice.
LEMMA Twice ==
    ASSUME NEW a \in Nat, NEW p \in Nat, p > 0, NEW c \in Nat, c > 0
    PROVE  a \div (p * c) = (a \div p) \div c
<1> DEFINE q == a \div p
           r == a % p
           x == q \div c
           y == q % c
           s == y * p + r
<1>1. q \in Nat /\ r \in 0..(p - 1) /\ a = q * p + r
  BY Parts
<1>2. x \in Nat /\ y \in 0..(c - 1) /\ q = x * c + y
  <2> HIDE DEF q
  <2> QED
    BY <1>1, Parts
<1> HIDE DEF q, r, x, y
<1>3. y * p \in Nat /\ y * p <= (c - 1) * p
  BY <1>2
<1>4. (c - 1) * p = p * c - p /\ p * c \in Nat /\ p * c > 0
  OBVIOUS
<1>5. s \in 0..(p * c - 1)
  BY <1>1, <1>3, <1>4
<1>6. (x * c + y) * p = x * (p * c) + y * p
  BY <1>2
<1>7. a = x * (p * c) + s
  <2>1. x * (p * c) \in Nat
    BY <1>2
  <2> QED
    BY <1>1, <1>2, <1>3, <1>6, <2>1
<1> DEFINE m == p * c
<1> HIDE DEF s
<1>8. m \in Nat /\ m > 0 /\ s \in 0..(m - 1) /\ a = x * m + s
  BY <1>4, <1>5, <1>7
<1> HIDE DEF m
<1>9. a \div m = x
  BY <1>2, <1>8, Quotient
<1> QED
  BY <1>9 DEF m, x, q

-----------------------------------------------------------------------------
(* Octets.  Places are counted from the least significant bit on.          *)

Octet == 0..Full

\* The bit at place j, and the octet without the bits at the places below m.
Digit(a, j) == (a \div Pow2[j]) % 2
Top(a, m) == a - (a % Pow2[m])

LEMMA OctetFacts ==
    /\ OctBits \in Nat /\ OctBits >= 2 /\ Base \in Nat /\ Base > 0 /\ Full \in Nat /\ Base = Full + 1
    /\ Octet = 0..(Base - 1)
    /\ \A m \in 0..OctBits : Base = Pow2[m] * Pow2[OctBits - m]
<1>1. OctBits \in Nat /\ OctBits >= 2
  BY CidrAssumption
<1>2. Base \in Nat /\ Base > 0
  BY <1>1, Powers2 DEF Base
<1>3. ASSUME NEW m \in 0..OctBits PROVE Base = Pow2[m] * Pow2[OctBits - m]
  <2>1. m \in Nat /\ OctBits - m \in Nat /\ m + (OctBits - m) = OctBits
    BY <1>1
  <2> QED
    BY <2>1, PowerSum DEF Base
<1> QED
  BY <1>1, <1>2, <1>3 DEF Full, Octet

\* What is left of an octet, and filled with ones, is an octet.
LEMMA TopOf ==
    ASSUME NEW a \in Octet, NEW m \in 0..OctBits
    PROVE  /\ Top(a, m) \in Octet /\ Top(a, m) <= a
           /\ Top(a, m) + Pow2[m] - 1 \in Octet /\ a <= Top(a, m) + Pow2[m] - 1
           /\ Top(a, m) = (a \div Pow2[m]) * Pow2[m]
<1> DEFINE p == Pow2[m]
           c == Pow2[OctBits - m]
<1>1. m \in Nat /\ OctBits - m \in Nat
  BY OctetFacts
<1>2. p \in Nat /\ p > 0 /\ c \in Nat /\ Base = p * c
  BY <1>1, OctetFacts, Powers2
<1>3. a \in Nat /\ a < Base
  BY OctetFacts
<1> HIDE DEF p, c
<1>4. a < p * c
  BY <1>2, <1>3
<1>5. /\ a - (a % p) \in Nat /\ a - (a % p) = (a \div p) * p
      /\ a - (a % p) <= a /\ a <= a - (a % p) + p - 1
      /\ a - (a % p) + p <= p * c
  BY <1>2, <1>3, <1>4, Below
<1> DEFINE t == a - (a % p)
<1>6. t \in Nat /\ t <= a /\ a <= t + p - 1 /\ t + p <= Base
  BY <1>2, <1>5
<1> HIDE DEF t
<1>7. t \in Octet /\ t + p - 1 \in Octet
  BY <1>2, <1>3, <1>6, OctetFacts
<1>8. t = (a \div p) * p
  BY <1>5 DEF t
<1> QED
  BY <1>6, <1>7, <1>8 DEF t, p, Top

\* An octet between the two has the same bits from place m on.
LEMMA SameTop ==
    ASSUME NEW a \in Octet, NEW z \in Octet, NEW m \in 0..OctBits, Top(a, m) <= z, z <= Top(a, m) + Pow2[m] - 1
    PROVE  Top(z, m) = Top(a, m) /\ z \div Pow2[m] = a \div Pow2[m]
<1> DEFINE p == Pow2[m]
<1>1. m \in Nat /\ a \in Nat /\ z \in Nat
  BY OctetFacts
<1>2. p \in Nat /\ p > 0
  BY <1>1, Powers2
<1>3. a - (a % p) <= z /\ z <= a - (a % p) + p - 1
  BY DEF Top
<1> HIDE DEF p
<1>4. z \div p = a \div p /\ z - (z % p) = a - (a % p)
  BY <1>1, <1>2, <1>3, Between
<1> QED
  BY <1>4 DEF Top, p

\* The same quotient at a place gives the same quotients above it.
LEMMA Coarser ==
    ASSUME NEW a \in Nat, NEW z \in Nat, NEW m \in Nat, NEW j \in Nat, m <= j, z \div Pow2[m] = a \div Pow2[m]
    PROVE  z \div Pow2[j] = a \div Pow2[j]
<1> DEFINE p == Pow2[m]
           c == Pow2[j - m]
<1>1. j - m \in Nat /\ m + (j - m) = j
  OBVIOUS
<1>2. p \in Nat /\ p > 0 /\ c \in Nat /\ c > 0
  BY <1>1, Powers2
<1>3. Pow2[j] = p * c
  BY <1>1, PowerSum
<1> HIDE DEF p, c
<1>4. z \div (p * c) = (z \div p) \div c /\ a \div (p * c) = (a \div p) \div c
  BY <1>2, Twice
<1>5. z \div p = a \div p
  BY DEF p
<1> QED
  BY <1>3, <1>4, <1>5

\* The bits of what is left, with zeros and with ones below place m.
LEMMA TopDigits ==
    ASSUME NEW a \in Octet, NEW m \in 0..OctBits, NEW j \in 0..(OctBits - 1)
    PROVE  /\ Digit(Top(a, m), j) = IF j >= m THEN Digit(a, j) ELSE 0
           /\ Digit(Top(a, m) + Pow2[m] - 1, j) = IF j >= m THEN Digit(a, j) ELSE 1
<1> DEFINE p == Pow2[m]
           t == Top(a, m)
           u == Top(a, m) + Pow2[m] - 1
           q == a \div Pow2[m]
<1>1. m \in Nat /\ j \in Nat /\ a \in Nat
  BY OctetFacts
<1>2. p \in Nat /\ p > 0
  BY <1>1, Powers2
<1>3. t \in Octet /\ u \in Octet /\ t = q * p /\ u = t + p - 1 /\ t <= a /\ a <= u
  BY TopOf
<1>4. q \in Nat
  BY <1>1, <1>2
<1>5. t \in Nat /\ u \in Nat
  BY <1>3, OctetFacts
<1>6. CASE j >= m
  <2>1. t <= t /\ t <= u /\ u <= u
    <3> HIDE DEF p, t, u
    <3> QED
      BY <1>2, <1>3, <1>5
  <2>2. t \div Pow2[m] = q /\ u \div Pow2[m] = q
    BY <1>3, <2>1, SameTop
  <2> HIDE DEF t, u, q
  <2>3. t \div Pow2[j] = a \div Pow2[j] /\ u \div Pow2[j] = a \div Pow2[j]
    BY <1>1, <1>5, <1>6, <2>2, Coarser DEF q
  <2> QED
    BY <1>6, <2>3 DEF t, u, Digit
<1>7. CASE j < m
  <2> DEFINE l == Pow2[j]
             d == Pow2[m - j - 1]
  <2>1. m - j - 1 \in Nat /\ j + ((m - j - 1) + 1) = m /\ (m - j - 1) + 1 \in Nat
    BY <1>1, <1>7
  <2>2. l \in Nat /\ l > 0 /\ d \in Nat /\ d > 0 /\ Pow2[(m - j - 1) + 1] = 2 * d
    BY <1>1, <2>1, Powers2
  <2>3. p = l * (2 * d)
    BY <1>1, <2>1, <2>2, PowerSum
  <2> DEFINE x == q * (2 * d)
             y == q * (2 * d) + 2 * d - 1
  <2> HIDE DEF p, l, d, q
  <2>4. x \in Nat /\ y \in Nat /\ q * d \in Nat /\ x = 2 * (q * d) /\ y = 2 * (q * d + d - 1) + 1
    BY <1>4, <2>2
  <2>5. q * p = x * l
    BY <1>2, <1>4, <2>2, <2>3
  <2>6. q * p + p - 1 = y * l + (l - 1)
    BY <1>2, <1>4, <2>2, <2>3
  <2> HIDE DEF x, y, t, u
  <2>7. t = x * l + 0 /\ 0 \in 0..(l - 1) /\ u = y * l + (l - 1) /\ l - 1 \in 0..(l - 1)
    BY <1>2, <1>3, <1>5, <2>2, <2>4, <2>5, <2>6
  <2>8. t \div l = x /\ u \div l = y
    BY <2>2, <2>4, <2>7, Quotient
  <2>9. x % 2 = 0 /\ y % 2 = 1
    <3> DEFINE k == q * d
    <3>1. k \in Nat /\ k + d - 1 \in Nat /\ x = 2 * k /\ y = 2 * (k + d - 1) + 1
      BY <2>2, <2>4
    <3> HIDE DEF k
    <3> QED
      BY <3>1
  <2>10. ~(j >= m)
    BY <1>1, <1>7
  <2> QED
    BY <2>8, <2>9, <2>10 DEF t, u, l, Digit
<1> QED
  BY <1>1, <1>6, <1>7

\* Two octets with the same bits are the same.
LEMMA SameDigits ==
    ASSUME NEW a \in Octet, NEW b \in Octet, NEW m \in 0..OctBits,
           \A j \in m..(OctBits - 1) : Digit(a, j) = Digit(b, j)
    PROVE  Top(a, m) = Top(b, m)
<1> DEFINE At(x, d) == x \div Pow2[OctBits - d]
           S == {d \in Nat : d <= OctBits - m => At(a, d) = At(b, d)}
<1>1. OctBits \in Nat /\ m \in Nat /\ a \in Nat /\ b \in Nat /\ a < Base /\ b < Base
  BY OctetFacts
<1>2. 0 \in S
  <2>1. OctBits - 0 = OctBits
    BY <1>1
  <2>3. ASSUME NEW x \in Nat, x < Base
        PROVE  x \div Base = 0
    <3>1. x = 0 * Base + x /\ x \in 0..(Base - 1) /\ Base \in Nat /\ Base > 0
      BY <2>3, OctetFacts
    <3> QED
      BY <3>1, Quotient
  <2>4. Pow2[OctBits - 0] = Base
    BY <2>1 DEF Base
  <2>5. At(a, 0) = 0 /\ At(b, 0) = 0
    BY <1>1, <2>3, <2>4
  <2> QED
    BY <2>5
<1>3. ASSUME NEW d \in S PROVE d + 1 \in S
  <2> SUFFICES ASSUME d + 1 <= OctBits - m PROVE At(a, d + 1) = At(b, d + 1)
    OBVIOUS
  <2> DEFINE j == OctBits - (d + 1)
             p == Pow2[j]
  <2>1. j \in m..(OctBits - 1) /\ j \in Nat /\ OctBits - d = j + 1 /\ d <= OctBits - m
    BY <1>1
  <2>2. p \in Nat /\ p > 0 /\ Pow2[OctBits - d] = p * 2
    BY <2>1, Powers2
  <2>3. a \div (p * 2) = b \div (p * 2)
    BY <2>1, <2>2
  <2>4. Digit(a, j) = Digit(b, j)
    BY <2>1
  <2>5. (a \div p) % 2 = (b \div p) % 2
    BY <2>4 DEF Digit
  <2> HIDE DEF p
  <2>6. a \div (p * 2) = (a \div p) \div 2 /\ b \div (p * 2) = (b \div p) \div 2
    BY <1>1, <2>2, Twice
  <2> DEFINE x == a \div p
             y == b \div p
  <2>7. x \in Nat /\ y \in Nat /\ x % 2 = y % 2 /\ x \div 2 = y \div 2
    BY <1>1, <2>2, <2>3, <2>5, <2>6
  <2> HIDE DEF x, y
  <2>8. x = y
    BY <2>7
  <2> QED
    BY <2>8 DEF x, y, p
<1>4. S = Nat
  <2>1. S \in SUBSET Nat
    OBVIOUS
  <2> HIDE DEF S
  <2> QED
    BY <1>2, <1>3, <2>1, AllNumbers
<1>5. a \div Pow2[m] = b \div Pow2[m]
  <2>1. OctBits - m \in Nat /\ OctBits - (OctBits - m) = m
    BY <1>1
  <2>2. OctBits - m \in S
    BY <1>4, <2>1
  <2>3. At(a, OctBits - m) = At(b, OctBits - m)
    BY <2>1, <2>2
  <2> QED
    BY <2>1, <2>3
<1> QED
  BY <1>5, TopOf

\* Nothing is left of an octet without its bits, and all with all of them.
LEMMA TopEnds ==
    ASSUME NEW a \in Octet
    PROVE  Top(a, 0) = a /\ Top(a, OctBits) = 0
<1>1. a \in Nat /\ a < Base /\ Base \in Nat /\ Base > 0
  BY OctetFacts
<1>2. a % 1 = 0
  BY <1>1
<1>3. a % Base = a
  <2>1. a = 0 * Base + a /\ a \in 0..(Base - 1)
    BY <1>1
  <2> QED
    BY <1>1, <2>1, Quotient
<1>4. Top(a, 0) = a
  BY <1>1, <1>2, Powers2 DEF Top
<1>5. Top(a, OctBits) = 0
  BY <1>1, <1>3 DEF Top, Base
<1> QED
  BY <1>4, <1>5

\* Setting a bit that is zero leaves the other bits.
LEMMA SetDigit ==
    ASSUME NEW a \in Octet, NEW j \in 0..(OctBits - 1), Digit(a, j) = 0
    PROVE  /\ a + Pow2[j] \in Octet
           /\ \A l \in 0..(OctBits - 1) : Digit(a + Pow2[j], l) = IF l = j THEN 1 ELSE Digit(a, l)
<1> DEFINE p == Pow2[j]
           x == a \div p
           r == a % p
           y == a \div (p * 2)
           c == Pow2[OctBits - (j + 1)]
<1>1. OctBits \in Nat /\ j \in Nat /\ a \in Nat /\ a < Base /\ j + 1 \in 0..OctBits /\ OctBits - (j + 1) \in Nat
  BY OctetFacts
<1>2. p \in Nat /\ p > 0 /\ Pow2[j + 1] = p * 2 /\ c \in Nat
  BY <1>1, Powers2
<1>3. Base = (p * 2) * c /\ p * 2 \in Nat /\ p * 2 > 0
  BY <1>1, <1>2, OctetFacts
<1> HIDE DEF p, c
<1>4. x \in Nat /\ r \in 0..(p - 1) /\ a = x * p + r
  BY <1>1, <1>2, Parts
<1>5. y = x \div 2 /\ y \in Nat
  <2>1. y = x \div 2
    BY <1>1, <1>2, Twice
  <2> QED
    BY <1>1, <1>3, Parts, <2>1
<1>6. x % 2 = 0
  BY DEF Digit, p
<1> HIDE DEF x, r, y
<1>7. x = 2 * y
  BY <1>4, <1>5, <1>6
<1>8. a = y * (p * 2) + r /\ a + p = y * (p * 2) + (r + p) /\ r \in 0..(p * 2 - 1) /\ r + p \in 0..(p * 2 - 1)
  <2>1. x * p = y * (p * 2)
    BY <1>2, <1>5, <1>7
  <2> QED
    BY <1>2, <1>3, <1>4, <1>5, <2>1
<1>9. a % (p * 2) = r /\ a \div (p * 2) = y /\ (a + p) \div (p * 2) = y
  BY <1>3, <1>5, <1>8, Quotient
<1>10. a - (a % (p * 2)) + p * 2 <= (p * 2) * c
  BY <1>1, <1>2, <1>3, Below
<1>11. a + p \in Nat /\ a + p < Base
  BY <1>1, <1>2, <1>3, <1>4, <1>9, <1>10
<1>12. a + p \in Octet
  BY <1>11, OctetFacts
<1>13. ASSUME NEW l \in 0..(OctBits - 1)
       PROVE  Digit(a + p, l) = IF l = j THEN 1 ELSE Digit(a, l)
  <2>1. CASE l = j
    <3> DEFINE z == x + 1
    <3>1. a + p = z * p + r /\ z \in Nat
      BY <1>2, <1>4
    <3> HIDE DEF z
    <3> DEFINE w == a + p
    <3>4. z \in Nat /\ p \in Nat /\ p > 0 /\ r \in 0..(p - 1) /\ w = z * p + r
      BY <1>2, <1>4, <3>1
    <3> HIDE DEF w
    <3>5. w \div p = z
      BY <3>4, Quotient
    <3>2. (a + p) \div p = z
      BY <3>5 DEF w
    <3>3. (x + 1) % 2 = 1
      BY <1>5, <1>7
    <3> QED
      BY <2>1, <3>2, <3>3 DEF Digit, p, z
  <2>2. CASE l > j
    <3>1. l \in Nat /\ j + 1 \in Nat /\ j + 1 <= l
      BY <1>1, <2>2
    <3>2. (a + p) \div Pow2[j + 1] = a \div Pow2[j + 1]
      BY <1>2, <1>9
    <3>3. (a + p) \div Pow2[l] = a \div Pow2[l]
      BY <1>1, <1>11, <3>1, <3>2, Coarser
    <3> QED
      BY <2>2, <3>3, <1>1 DEF Digit
  <2>3. CASE l < j
    <3> DEFINE L == Pow2[l]
               d == Pow2[j - (l + 1)]
               u == a \div L
               v == a % L
    <3>1. l \in Nat /\ l + 1 \in Nat /\ j - (l + 1) \in Nat /\ (l + 1) + (j - (l + 1)) = j
      BY <1>1, <2>3
    <3>2. L \in Nat /\ L > 0 /\ d \in Nat /\ d > 0 /\ Pow2[l + 1] = 2 * L
      BY <3>1, Powers2
    <3>3. p = (2 * L) * d
      BY <3>1, <3>2, PowerSum DEF p
    <3> HIDE DEF L, d
    <3>4. u \in Nat /\ v \in 0..(L - 1) /\ a = u * L + v
      BY <1>1, <3>2, Parts
    <3> HIDE DEF u, v
    <3> DEFINE z == u + 2 * d
    <3>5. a + p = z * L + v /\ z \in Nat
      BY <3>2, <3>3, <3>4
    <3> HIDE DEF z
    <3> DEFINE w == a + p
    <3>9. z \in Nat /\ L \in Nat /\ L > 0 /\ v \in 0..(L - 1) /\ w = z * L + v
      BY <3>2, <3>4, <3>5
    <3> HIDE DEF w
    <3>10. w \div L = z
      BY <3>9, Quotient
    <3>6. (a + p) \div L = z
      BY <3>10 DEF w
    <3>7. (u + 2 * d) % 2 = u % 2
      BY <3>2, <3>4
    <3>8. (a + p) \div L = u + 2 * d /\ a \div L = u
      BY <3>6 DEF u, z
    <3> QED
      BY <2>3, <3>7, <3>8, <1>1 DEF Digit, L
  <2> QED
    BY <1>1, <2>1, <2>2, <2>3
<1> QED
  BY <1>12, <1>13 DEF p

\* So does clearing one that is set.
LEMMA ClearDigit ==
    ASSUME NEW a \in Octet, NEW j \in 0..(OctBits - 1), Digit(a, j) = 1
    PROVE  /\ a - Pow2[j] \in Octet
           /\ \A l \in 0..(OctBits - 1) : Digit(a - Pow2[j], l) = IF l = j THEN 0 ELSE Digit(a, l)
<1> DEFINE p == Pow2[j]
           x == a \div p
           r == a % p
<1>1. j \in Nat /\ a \in Nat /\ a < Base
  BY OctetFacts
<1>2. p \in Nat /\ p > 0
  BY <1>1, Powers2
<1> HIDE DEF p
<1>3. x \in Nat /\ r \in 0..(p - 1) /\ a = x * p + r
  BY <1>1, <1>2, Parts
<1>4. x % 2 = 1
  BY DEF Digit, p
<1> HIDE DEF x, r
<1>5. x - 1 \in Nat /\ (x - 1) % 2 = 0
  BY <1>3, <1>4
<1>6. a - p = (x - 1) * p + r
  BY <1>2, <1>3, <1>5
<1> DEFINE y == x - 1
<1>7. y \in Nat /\ a - p = y * p + r /\ y * p \in Nat
  BY <1>2, <1>5, <1>6
<1> HIDE DEF y
<1>8. (a - p) \div p = y
  BY <1>2, <1>3, <1>7, Quotient
<1>9. a - p \in Nat /\ a - p < Base /\ (a - p) + p = a
  BY <1>1, <1>2, <1>3, <1>7, OctetFacts
<1>10. a - p \in Octet
  BY <1>9, OctetFacts
<1>11. Digit(a - p, j) = 0
  BY <1>5, <1>8 DEF Digit, p, y
<1>12. \A l \in 0..(OctBits - 1) : Digit((a - p) + p, l) = IF l = j THEN 1 ELSE Digit(a - p, l)
  BY <1>10, <1>11, SetDigit DEF p
<1> QED
  BY <1>9, <1>10, <1>11, <1>12 DEF p

-----------------------------------------------------------------------------
(* Arrays of octets.  Bits are counted from the most significant one on.   *)

Bits == 0..(16 * OctBits - 1)
Lens == 0..(16 * OctBits)

\* Where a bit is.
LEMMA BitPlace ==
    ASSUME NEW k \in Bits
    PROVE  /\ k \div OctBits \in Index /\ k % OctBits \in 0..(OctBits - 1)
           /\ k = (k \div OctBits) * OctBits + (k % OctBits)
           /\ OctBits - 1 - (k % OctBits) \in 0..(OctBits - 1)
<1> DEFINE q == k \div OctBits
           r == k % OctBits
<1>1. OctBits \in Nat /\ OctBits > 0 /\ k \in Nat /\ k < 16 * OctBits
  BY OctetFacts DEF Bits
<1>2. q \in Nat /\ r \in 0..(OctBits - 1) /\ k = q * OctBits + r
  BY <1>1, Parts
<1> HIDE DEF q, r
<1>3. q < 16
  <2> SUFFICES ASSUME q >= 16 PROVE FALSE
    BY <1>2
  <2>1. q * OctBits >= 16 * OctBits
    BY <1>1, <1>2
  <2>2. q * OctBits \in Nat
    BY <1>1, <1>2
  <2> QED
    BY <1>1, <1>2, <2>1, <2>2
<1>4. q \in Index /\ OctBits - 1 - r \in 0..(OctBits - 1)
  BY <1>1, <1>2, <1>3 DEF Index
<1> QED
  BY <1>2, <1>4 DEF q, r

\* The bit at a place of an octet.
LEMMA BitAt ==
    ASSUME NEW i \in Index, NEW b \in 0..(OctBits - 1)
    PROVE  /\ i * OctBits + b \in Bits
           /\ \A o : Bit(o, i * OctBits + b) = Digit(o[i], OctBits - 1 - b)
<1> DEFINE k == i * OctBits + b
<1>1. OctBits \in Nat /\ OctBits > 0 /\ i \in Nat /\ i <= 15 /\ i * OctBits \in Nat
  BY OctetFacts DEF Index
<1>2. i * OctBits <= 15 * OctBits
  BY <1>1
<1>3. k \in Bits
  BY <1>1, <1>2 DEF Bits
<1>4. k \div OctBits = i /\ k % OctBits = b
  BY <1>1, Quotient
<1> HIDE DEF k
<1>5. \A o : Bit(o, k) = Digit(o[i], OctBits - 1 - b)
  BY <1>4 DEF Bit, Digit
<1> QED
  BY <1>3, <1>5 DEF k

\* Keep is the number of bits of octet i among the first n.
LEMMA KeepOf ==
    ASSUME NEW n \in Lens, NEW i \in Index
    PROVE  /\ Keep(n, i) \in 0..OctBits /\ OctBits - Keep(n, i) \in 0..OctBits
           /\ \A b \in 0..(OctBits - 1) : b < Keep(n, i) <=> i * OctBits + b < n
           /\ n >= (i + 1) * OctBits => Keep(n, i) = OctBits
           /\ n <= i * OctBits => Keep(n, i) = 0
           /\ i * OctBits <= n /\ n <= (i + 1) * OctBits => Keep(n, i) = n - i * OctBits
<1> DEFINE x == i * OctBits
<1>1. OctBits \in Nat /\ OctBits > 0 /\ i \in Nat /\ x \in Nat /\ n \in Nat /\ (i + 1) * OctBits = x + OctBits
  BY OctetFacts DEF Index, Lens
<1>2. Keep(n, i) = IF n - x < 0 THEN 0 ELSE IF n - x > OctBits THEN OctBits ELSE n - x
  BY DEF Keep
<1> HIDE DEF x
<1>3. /\ Keep(n, i) \in 0..OctBits /\ OctBits - Keep(n, i) \in 0..OctBits
      /\ \A b \in 0..(OctBits - 1) : b < Keep(n, i) <=> x + b < n
      /\ n >= x + OctBits => Keep(n, i) = OctBits
      /\ n <= x => Keep(n, i) = 0
      /\ x <= n /\ n <= x + OctBits => Keep(n, i) = n - x
  BY <1>1, <1>2
<1> QED
  BY <1>1, <1>3 DEF x

LEMMA KeepIn ==
    ASSUME NEW n \in Lens, NEW i \in Index, i * OctBits <= n, n <= (i + 1) * OctBits
    PROVE  Keep(n, i) = n - i * OctBits
BY KeepOf

\* Octets that have the same bits.
LEMMA SameOctet ==
    ASSUME NEW o \in Octets, NEW p \in Octets, NEW i \in Index,
           \A b \in 0..(OctBits - 1) : Bit(o, i * OctBits + b) = Bit(p, i * OctBits + b)
    PROVE  o[i] = p[i]
<1>1. o[i] \in Octet /\ p[i] \in Octet
  BY DEF Octets, Octet
<1>2. \A j \in 0..(OctBits - 1) : Digit(o[i], j) = Digit(p[i], j)
  <2> SUFFICES ASSUME NEW j \in 0..(OctBits - 1) PROVE Digit(o[i], j) = Digit(p[i], j)
    OBVIOUS
  <2> DEFINE b == OctBits - 1 - j
  <2>1. b \in 0..(OctBits - 1) /\ OctBits - 1 - b = j
    BY OctetFacts
  <2> HIDE DEF b
  <2>2. Bit(o, i * OctBits + b) = Digit(o[i], j) /\ Bit(p, i * OctBits + b) = Digit(p[i], j)
    BY <2>1, BitAt
  <2> QED
    BY <2>1, <2>2
<1>3. 0 \in 0..OctBits
  BY OctetFacts
<1>4. Top(o[i], 0) = Top(p[i], 0)
  BY <1>1, <1>2, <1>3, SameDigits
<1> QED
  BY <1>1, <1>4, TopEnds

\* Arrays are told apart by their bits.
LEMMA SameBits ==
    ASSUME NEW o \in Octets, NEW p \in Octets, \A k \in Bits : Bit(o, k) = Bit(p, k)
    PROVE  o = p
<1>1. \A i \in Index : \A b \in 0..(OctBits - 1) : Bit(o, i * OctBits + b) = Bit(p, i * OctBits + b)
  BY BitAt
<1>2. \A i \in Index : o[i] = p[i]
  BY <1>1, SameOctet
<1> QED
  BY <1>2 DEF Octets

\* What ClearFrom and FillFrom leave, octet by octet ...
LEMMA ClearedAt ==
    ASSUME NEW o \in Octets, NEW n \in Lens, NEW i \in Index
    PROVE  /\ ClearFrom(o, n)[i] = Top(o[i], OctBits - Keep(n, i))
           /\ FillFrom(o, n)[i] = Top(o[i], OctBits - Keep(n, i)) + Pow2[OctBits - Keep(n, i)] - 1
           /\ ClearFrom(o, n)[i] \in Octet /\ FillFrom(o, n)[i] \in Octet
           /\ ClearFrom(o, n)[i] <= o[i] /\ o[i] <= FillFrom(o, n)[i]
<1>1. ClearFrom(o, n)[i] = Top(o[i], OctBits - Keep(n, i))
  BY DEF ClearFrom, Top
<1>2. FillFrom(o, n)[i] = ClearFrom(o, n)[i] + Pow2[OctBits - Keep(n, i)] - 1
  BY DEF FillFrom
<1>3. o[i] \in Octet /\ OctBits - Keep(n, i) \in 0..OctBits
  BY KeepOf DEF Octets, Octet
<1> QED
  BY <1>1, <1>2, <1>3, TopOf

\* ... and bit by bit.
LEMMA Cleared ==
    ASSUME NEW o \in Octets, NEW n \in Lens
    PROVE  /\ ClearFrom(o, n) \in Octets /\ FillFrom(o, n) \in Octets
           /\ \A k \in Bits : Bit(ClearFrom(o, n), k) = IF k < n THEN Bit(o, k) ELSE 0
           /\ \A k \in Bits : Bit(FillFrom(o, n), k) = IF k < n THEN Bit(o, k) ELSE 1
<1> DEFINE c == ClearFrom(o, n)
           f == FillFrom(o, n)
<1>1. c \in Octets /\ f \in Octets
  <2>1. DOMAIN c = Index /\ DOMAIN f = Index /\ c = [i \in Index |-> c[i]] /\ f = [i \in Index |-> f[i]]
    BY DEF ClearFrom, FillFrom
  <2>2. \A i \in Index : c[i] \in Octet /\ f[i] \in Octet
    BY ClearedAt
  <2> HIDE DEF c, f
  <2> QED
    BY <2>1, <2>2 DEF Octets, Octet
<1>2. ASSUME NEW k \in Bits
      PROVE  /\ Bit(c, k) = IF k < n THEN Bit(o, k) ELSE 0
             /\ Bit(f, k) = IF k < n THEN Bit(o, k) ELSE 1
  <2> DEFINE i == k \div OctBits
             b == k % OctBits
             m == OctBits - Keep(n, i)
             j == OctBits - 1 - b
  <2>1. i \in Index /\ b \in 0..(OctBits - 1) /\ k = i * OctBits + b /\ j \in 0..(OctBits - 1)
    BY BitPlace
  <2>2. Bit(c, k) = Digit(c[i], j) /\ Bit(f, k) = Digit(f[i], j) /\ Bit(o, k) = Digit(o[i], j)
    BY DEF Bit, Digit
  <2> HIDE DEF i, b
  <2>3. Keep(n, i) \in 0..OctBits /\ m \in 0..OctBits /\ (b < Keep(n, i) <=> k < n)
    BY <2>1, KeepOf
  <2>4. j >= m <=> k < n
    BY <2>1, <2>3, OctetFacts
  <2>5. o[i] \in Octet
    BY <2>1 DEF Octets, Octet
  <2>6. c[i] = Top(o[i], m) /\ f[i] = Top(o[i], m) + Pow2[m] - 1
    BY <2>1, ClearedAt
  <2> HIDE DEF m, j, c, f
  <2> QED
    BY <2>1, <2>2, <2>3, <2>4, <2>5, <2>6, TopDigits
<1> QED
  BY <1>1, <1>2

\* An array with one bit changed, said of its octets and of its bits.
OneDigit(n, o, k, d) ==
    /\ \A h \in Index : h # k \div OctBits => n[h] = o[h]
    /\ \A l \in 0..(OctBits - 1) :
           Digit(n[k \div OctBits], l) = IF l = OctBits - 1 - (k % OctBits) THEN d ELSE Digit(o[k \div OctBits], l)
BitBut(n, o, k, d) == \A l \in Bits : Bit(n, l) = IF l = k THEN d ELSE Bit(o, l)

LEMMA OneBit ==
    ASSUME NEW o \in Octets, NEW k \in Bits, NEW d, NEW n \in Octets, OneDigit(n, o, k, d)
    PROVE  BitBut(n, o, k, d)
<1> DEFINE i == k \div OctBits
           b == k % OctBits
<1>1. i \in Index /\ b \in 0..(OctBits - 1) /\ k = i * OctBits + b
  BY BitPlace
<1>3. \A h \in Index : h # i => n[h] = o[h]
  BY DEF OneDigit
<1>4. ASSUME NEW l \in Bits PROVE Bit(n, l) = IF l = k THEN d ELSE Bit(o, l)
  <2> DEFINE h == l \div OctBits
             c == l % OctBits
             j == OctBits - 1 - c
  <2>1. h \in Index /\ c \in 0..(OctBits - 1) /\ l = h * OctBits + c /\ j \in 0..(OctBits - 1)
    BY BitPlace
  <2>2. Bit(n, l) = Digit(n[h], j) /\ Bit(o, l) = Digit(o[h], j)
    BY DEF Bit, Digit
  <2>3. CASE h = i
    <3>1. l = k <=> c = b
      BY <1>1, <2>1, <2>3
    <3>2. l = k <=> j = OctBits - 1 - b
      BY <1>1, <2>1, <3>1, OctetFacts
    <3>3. Digit(n[i], j) = IF j = OctBits - 1 - b THEN d ELSE Digit(o[i], j)
      BY <2>1 DEF OneDigit
    <3> HIDE DEF i, h, j, b, c
    <3> QED
      BY <1>3, <2>2, <2>3, <3>2, <3>3
  <2>4. CASE h # i
    <3>1. l # k
      BY <2>4
    <3> HIDE DEF i, h, j
    <3> QED
      BY <1>3, <2>1, <2>2, <2>4, <3>1
  <2> QED
    BY <2>3, <2>4
<1> QED
  BY <1>4 DEF BitBut

LEMMA BitValue ==
    ASSUME NEW o \in Octets, NEW k \in Bits
    PROVE  Bit(o, k) \in {0, 1}
<1> DEFINE x == o[k \div OctBits] \div Pow2[OctBits - 1 - (k % OctBits)]
<1>1. k \div OctBits \in Index /\ OctBits - 1 - (k % OctBits) \in Nat
  BY BitPlace
<1>2. o[k \div OctBits] \in Nat /\ Pow2[OctBits - 1 - (k % OctBits)] \in Nat /\ Pow2[OctBits - 1 - (k % OctBits)] > 0
  <2> DEFINE i == k \div OctBits
             j == OctBits - 1 - (k % OctBits)
  <2>1. i \in Index /\ j \in Nat
    BY <1>1
  <2> HIDE DEF i, j
  <2>2. o[i] \in 0..Full /\ Full \in Nat
    BY <2>1, OctetFacts DEF Octets
  <2>3. o[i] \in Nat
    BY <2>2
  <2>4. Pow2[j] \in Nat /\ Pow2[j] > 0
    BY <2>1, Powers2
  <2> QED
    BY <2>3, <2>4 DEF i, j
<1>3. x \in Nat
  BY <1>2, Parts
<1> HIDE DEF x
<1>4. x % 2 \in {0, 1}
  BY <1>3
<1> QED
  BY <1>4 DEF x, Bit

LEMMA BitSet ==
    ASSUME NEW o \in Octets, NEW k \in Bits
    PROVE  /\ SetBit(o, k) \in Octets
           /\ \A l \in Bits : Bit(SetBit(o, k), l) = IF l = k THEN 1 ELSE Bit(o, l)
<1> DEFINE i == k \div OctBits
           j == OctBits - 1 - (k % OctBits)
           v == IF Bit(o, k) = 1 THEN o[i] ELSE o[i] + Pow2[j]
<1>1. i \in Index /\ j \in 0..(OctBits - 1) /\ o[i] \in Octet
  BY BitPlace DEF Octets, Octet
<1>2. Bit(o, k) = Digit(o[i], j) /\ Bit(o, k) \in {0, 1}
  BY BitValue DEF Bit, Digit
<1>3. SetBit(o, k) = [o EXCEPT ![i] = v]
  BY <1>1 DEF SetBit, Octets
<1> HIDE DEF i, j
<1>4. v \in Octet /\ \A l \in 0..(OctBits - 1) : Digit(v, l) = IF l = j THEN 1 ELSE Digit(o[i], l)
  <2>1. CASE Bit(o, k) = 1
    BY <1>1, <1>2, <2>1
  <2>2. CASE Bit(o, k) = 0
    <3>1. Digit(o[i], j) = 0 /\ v = o[i] + Pow2[j]
      BY <1>2, <2>2
    <3> QED
      BY <1>1, <3>1, SetDigit
  <2> QED
    BY <1>2, <2>1, <2>2
<1> HIDE DEF v
<1> DEFINE n == SetBit(o, k)
<1>5. n \in Octets /\ n[i] = v /\ \A h \in Index : h # i => n[h] = o[h]
  BY <1>1, <1>3, <1>4 DEF Octets, Octet
<1> HIDE DEF n
<1>6. \A h \in Index : h # k \div OctBits => n[h] = o[h]
  BY <1>5 DEF i
<1>7. \A l \in 0..(OctBits - 1) :
          Digit(n[k \div OctBits], l) = IF l = OctBits - 1 - (k % OctBits) THEN 1 ELSE Digit(o[k \div OctBits], l)
  BY <1>4, <1>5 DEF i, j
<1>8. OneDigit(n, o, k, 1)
  BY <1>6, <1>7 DEF OneDigit
<1>9. BitBut(n, o, k, 1)
  BY <1>5, <1>8, OneBit
<1>10. \A l \in Bits : Bit(n, l) = IF l = k THEN 1 ELSE Bit(o, l)
  BY <1>9 DEF BitBut
<1> QED
  BY <1>5, <1>10 DEF n

LEMMA BitCleared ==
    ASSUME NEW o \in Octets, NEW k \in Bits
    PROVE  /\ ClearBit(o, k) \in Octets
           /\ \A l \in Bits : Bit(ClearBit(o, k), l) = IF l = k THEN 0 ELSE Bit(o, l)
<1> DEFINE i == k \div OctBits
           j == OctBits - 1 - (k % OctBits)
           v == IF Bit(o, k) = 0 THEN o[i] ELSE o[i] - Pow2[j]
<1>1. i \in Index /\ j \in 0..(OctBits - 1) /\ o[i] \in Octet
  BY BitPlace DEF Octets, Octet
<1>2. Bit(o, k) = Digit(o[i], j) /\ Bit(o, k) \in {0, 1}
  BY BitValue DEF Bit, Digit
<1>3. ClearBit(o, k) = [o EXCEPT ![i] = v]
  BY <1>1 DEF ClearBit, Octets
<1> HIDE DEF i, j
<1>4. v \in Octet /\ \A l \in 0..(OctBits - 1) : Digit(v, l) = IF l = j THEN 0 ELSE Digit(o[i], l)
  <2>1. CASE Bit(o, k) = 0
    BY <1>1, <1>2, <2>1
  <2>2. CASE Bit(o, k) = 1
    <3>1. Digit(o[i], j) = 1 /\ v = o[i] - Pow2[j]
      BY <1>2, <2>2
    <3> QED
      BY <1>1, <3>1, ClearDigit
  <2> QED
    BY <1>2, <2>1, <2>2
<1> HIDE DEF v
<1> DEFINE n == ClearBit(o, k)
<1>5. n \in Octets /\ n[i] = v /\ \A h \in Index : h # i => n[h] = o[h]
  BY <1>1, <1>3, <1>4 DEF Octets, Octet
<1> HIDE DEF n
<1>6. \A h \in Index : h # k \div OctBits => n[h] = o[h]
  BY <1>5 DEF i
<1>7. \A l \in 0..(OctBits - 1) :
          Digit(n[k \div OctBits], l) = IF l = OctBits - 1 - (k % OctBits) THEN 0 ELSE Digit(o[k \div OctBits], l)
  BY <1>4, <1>5 DEF i, j
<1>8. OneDigit(n, o, k, 0)
  BY <1>6, <1>7 DEF OneDigit
<1>9. BitBut(n, o, k, 0)
  BY <1>5, <1>8, OneBit
<1>10. \A l \in Bits : Bit(n, l) = IF l = k THEN 0 ELSE Bit(o, l)
  BY <1>9 DEF BitBut
<1> QED
  BY <1>5, <1>10 DEF n

-----------------------------------------------------------------------------
(* Masks.                                                                  *)

Ones == [i \in Index |-> Full]

LEMMA OnesBits ==
    /\ Ones \in Octets
    /\ \A k \in Bits : Bit(Ones, k) = 1
<1>1. Ones \in Octets
  BY OctetFacts DEF Ones, Octets, Octet
<1>2. ASSUME NEW k \in Bits PROVE Bit(Ones, k) = 1
  <2> DEFINE i == k \div OctBits
             j == OctBits - 1 - (k % OctBits)
  <2>1. i \in Index /\ j \in 0..(OctBits - 1)
    BY BitPlace
  <2>2. Bit(Ones, k) = Digit(Full, j)
    BY <2>1 DEF Bit, Digit, Ones
  <2> HIDE DEF i, j
  <2>3. 0 \in Octet /\ OctBits \in 0..OctBits /\ ~(j >= OctBits)
    BY <2>1, OctetFacts
  <2>4. Top(0, OctBits) + Pow2[OctBits] - 1 = Full
    BY <2>3, TopEnds, OctetFacts DEF Base
  <2>5. Digit(Top(0, OctBits) + Pow2[OctBits] - 1, j) = 1
    BY <2>1, <2>3, TopDigits
  <2> QED
    BY <2>2, <2>4, <2>5
<1> QED
  BY <1>1, <1>2

\* The first n bits of a mask of length n are set.
LEMMA MaskBits ==
    ASSUME NEW n \in Lens
    PROVE  /\ MaskOf(n) \in Octets
           /\ \A k \in Bits : Bit(MaskOf(n), k) = IF k < n THEN 1 ELSE 0
<1>1. MaskOf(n) = ClearFrom(Ones, n)
  BY DEF MaskOf, Ones
<1> QED
  BY <1>1, OnesBits, Cleared

\* Setting or clearing its first host bit, or its last network bit.
LEMMA MaskSteps ==
    ASSUME NEW n \in Lens
    PROVE  /\ n < 16 * OctBits => n + 1 \in Lens /\ n \in Bits /\ SetBit(MaskOf(n), n) = MaskOf(n + 1)
           /\ n > 0 => n - 1 \in Lens /\ n - 1 \in Bits /\ ClearBit(MaskOf(n), n - 1) = MaskOf(n - 1)
<1>0. OctBits \in Nat /\ n \in Nat /\ n <= 16 * OctBits
  BY OctetFacts DEF Lens
<1>1. ASSUME n < 16 * OctBits PROVE n + 1 \in Lens /\ n \in Bits /\ SetBit(MaskOf(n), n) = MaskOf(n + 1)
  <2>1. n + 1 \in Lens /\ n \in Bits
    BY <1>0, <1>1 DEF Lens, Bits
  <2>2. \A k \in Bits : k < n + 1 <=> k < n \/ k = n
    BY <1>0 DEF Bits
  <2>3. SetBit(MaskOf(n), n) \in Octets /\ MaskOf(n + 1) \in Octets
    BY <2>1, MaskBits, BitSet
  <2>4. \A k \in Bits : Bit(SetBit(MaskOf(n), n), k) = IF k = n THEN 1 ELSE Bit(MaskOf(n), k)
    BY <2>1, MaskBits, BitSet
  <2>5. \A k \in Bits : Bit(SetBit(MaskOf(n), n), k) = Bit(MaskOf(n + 1), k)
    BY <2>1, <2>2, <2>4, MaskBits
  <2> QED
    BY <2>1, <2>3, <2>5, SameBits
<1>2. ASSUME n > 0 PROVE n - 1 \in Lens /\ n - 1 \in Bits /\ ClearBit(MaskOf(n), n - 1) = MaskOf(n - 1)
  <2>1. n - 1 \in Lens /\ n - 1 \in Bits
    BY <1>0, <1>2 DEF Lens, Bits
  <2>2. \A k \in Bits : k < n - 1 <=> k < n /\ k # n - 1
    BY <1>0 DEF Bits
  <2>3. ClearBit(MaskOf(n), n - 1) \in Octets /\ MaskOf(n - 1) \in Octets
    BY <2>1, MaskBits, BitCleared
  <2>4. \A k \in Bits : Bit(ClearBit(MaskOf(n), n - 1), k) = IF k = n - 1 THEN 0 ELSE Bit(MaskOf(n), k)
    BY <2>1, MaskBits, BitCleared
  <2>5. \A k \in Bits : Bit(ClearBit(MaskOf(n), n - 1), k) = Bit(MaskOf(n - 1), k)
    BY <2>1, <2>2, <2>4, MaskBits
  <2> QED
    BY <2>1, <2>3, <2>5, SameBits
<1> QED
  BY <1>1, <1>2

\* Where the bits of a block's own protocol start.
Start(proto) == FirstOctet(proto) * OctBits

LEMMA Starts ==
    ASSUME NEW proto \in {"v4", "v6"}
    PROVE  /\ Start(proto) \in Lens /\ Start(proto) \in Nat /\ Start(proto) + Width(proto) = 16 * OctBits
           /\ Width(proto) \in Nat /\ Start("v4") = 12 * OctBits /\ Start("v6") = 0
           /\ Width("v4") = 4 * OctBits /\ Width("v6") = 16 * OctBits
<1>1. OctBits \in Nat
  BY OctetFacts
<1>2. FirstOctet("v4") = 12 /\ FirstOctet("v6") = 0
  BY DEF FirstOctet
<1>3. Start("v4") = 12 * OctBits /\ Start("v6") = 0 /\ Width("v4") = 4 * OctBits /\ Width("v6") = 16 * OctBits
  BY <1>1, <1>2 DEF Start, Width
<1>4. CASE proto = "v4"
  BY <1>1, <1>3, <1>4 DEF Lens
<1>5. CASE proto = "v6"
  BY <1>1, <1>3, <1>5 DEF Lens
<1> QED
  BY <1>4, <1>5

\* The length of a mask is the number of its ones after the start.
LEMMA MaskLength ==
    ASSUME NEW proto \in {"v4", "v6"}, NEW n \in Lens, n >= Start(proto)
    PROVE  pflen(proto, MaskOf(n)) = n - Start(proto)
<1> DEFINE lo == Start(proto)
           bits == lo..(16 * OctBits - 1)
           ones == {k \in bits : Bit(MaskOf(n), k) = 1}
<1>1. OctBits \in Nat /\ n \in Nat /\ n <= 16 * OctBits /\ lo \in Nat /\ lo <= n
  BY Starts, OctetFacts DEF Lens
<1>2. pflen(proto, MaskOf(n)) = IF \E k \in ones : k - 1 \in bits \ ones THEN -1 ELSE Cardinality(ones)
  BY DEF pflen, Start
<1> HIDE DEF lo
<1>3. \A k \in bits : k \in Bits /\ (k \in ones <=> k < n)
  <2> SUFFICES ASSUME NEW k \in bits PROVE k \in Bits /\ (k \in ones <=> k < n)
    OBVIOUS
  <2>1. k \in Bits
    BY <1>1 DEF Bits
  <2>2. Bit(MaskOf(n), k) = IF k < n THEN 1 ELSE 0
    BY <2>1, MaskBits
  <2> QED
    BY <2>1, <2>2
<1>4. ones \in SUBSET bits
  OBVIOUS
<1> HIDE DEF ones
<1>5. ones = lo..(n - 1)
  <2>1. ASSUME NEW k \in ones PROVE k \in lo..(n - 1)
    BY <1>1, <1>3, <1>4
  <2>2. ASSUME NEW k \in lo..(n - 1) PROVE k \in ones
    BY <1>1, <1>3
  <2> QED
    BY <2>1, <2>2
<1>6. ~\E k \in ones : k - 1 \in bits \ ones
  BY <1>1, <1>3, <1>4
<1>7. Cardinality(lo..(n - 1)) = n - lo
  <2>1. lo \in Int /\ n - 1 \in Int
    BY <1>1
  <2>2. Cardinality(lo..(n - 1)) = IF lo > n - 1 THEN 0 ELSE (n - 1) - lo + 1
    BY <2>1, FS_Interval
  <2> QED
    BY <1>1, <2>2
<1> QED
  BY <1>2, <1>5, <1>6, <1>7 DEF lo

\* A mask has a length, or it is not contiguous.
LEMMA LengthIsNumber ==
    ASSUME NEW proto \in {"v4", "v6"}, NEW o
    PROVE  pflen(proto, o) \in Int
<1> DEFINE bits == Start(proto)..(16 * OctBits - 1)
           ones == {k \in bits : Bit(o, k) = 1}
<1>1. Start(proto) \in Int /\ 16 * OctBits - 1 \in Int
  BY Starts, OctetFacts
<1>2. IsFiniteSet(bits)
  BY <1>1, FS_Interval
<1>3. IsFiniteSet(ones)
  <2>1. ones \subseteq bits
    OBVIOUS
  <2> HIDE DEF ones, bits
  <2> QED
    BY <1>2, <2>1, FS_Subset
<1>4. Cardinality(ones) \in Nat
  <2> HIDE DEF ones
  <2> QED
    BY <1>3, FS_CardinalityType
<1>5. pflen(proto, o) = IF \E k \in ones : k - 1 \in bits \ ones THEN -1 ELSE Cardinality(ones)
  BY DEF pflen, Start
<1> HIDE DEF ones, bits
<1> QED
  BY <1>4, <1>5

\* The loops that look for the first zero of a mask stop at its length.
LEMMA FirstZero ==
    ASSUME NEW b, NEW n \in Lens, b.mask = MaskOf(n)
    PROVE  HostBit(b) = n
<1> DEFINE zeros == {k \in 0..(16 * OctBits - 1) : Bit(b.mask, k) = 0}
<1>1. OctBits \in Nat /\ n \in Nat /\ n <= 16 * OctBits
  BY OctetFacts DEF Lens
<1>2. \A k \in Bits : k \in zeros <=> k >= n
  <2> SUFFICES ASSUME NEW k \in Bits PROVE k \in zeros <=> k >= n
    OBVIOUS
  <2>1. Bit(b.mask, k) = IF k < n THEN 1 ELSE 0
    BY MaskBits
  <2>2. k \in Nat /\ k \in 0..(16 * OctBits - 1)
    BY DEF Bits
  <2> QED
    BY <1>1, <2>1, <2>2
<1>3. zeros \in SUBSET Bits
  BY DEF Bits
<1>4. HostBit(b) = IF zeros = {} THEN 16 * OctBits ELSE CHOOSE k \in zeros : \A j \in zeros : k <= j
  BY DEF HostBit
<1> HIDE DEF zeros
<1>5. CASE n = 16 * OctBits
  <2>1. zeros = {}
    BY <1>1, <1>2, <1>3, <1>5 DEF Bits
  <2> QED
    BY <1>4, <1>5, <2>1
<1>6. CASE n < 16 * OctBits
  <2>1. n \in zeros
    BY <1>1, <1>2, <1>6 DEF Bits
  <2>2. \A j \in zeros : n <= j /\ j \in Nat
    BY <1>2, <1>3 DEF Bits
  <2>3. \A k \in zeros : (\A j \in zeros : k <= j) => k = n
    BY <1>1, <2>1, <2>2
  <2>4. (CHOOSE k \in zeros : \A j \in zeros : k <= j) = n
    BY <2>1, <2>2, <2>3
  <2> QED
    BY <1>4, <2>1, <2>4
<1> QED
  BY <1>1, <1>5, <1>6

-----------------------------------------------------------------------------
(* Blocks.                                                                 *)

\* A block whose network bits are the first n, counted from octet 0.
IsBlock(b, n) ==
    /\ b = [proto |-> b.proto, addr |-> b.addr, mask |-> MaskOf(n)]
    /\ b.proto \in {"v4", "v6"} /\ b.addr \in Octets
    /\ n \in Lens /\ n >= Start(b.proto)
    /\ b.proto = "v4" => b.addr = Mapped(b.addr)

Made(p, a, n) == [proto |-> p, addr |-> a, mask |-> MaskOf(n)]

LEMMA BlockMade ==
    ASSUME NEW p \in {"v4", "v6"}, NEW a \in Octets, NEW n \in Lens, n >= Start(p), p = "v4" => a = Mapped(a)
    PROVE  IsBlock(Made(p, a, n), n)
<1>1. Made(p, a, n).proto = p /\ Made(p, a, n).addr = a /\ Made(p, a, n) = [proto |-> p, addr |-> a, mask |-> MaskOf(n)]
  BY DEF Made
<1> QED
  BY <1>1 DEF IsBlock

LEMMA BlockFacts ==
    ASSUME NEW b, NEW n, IsBlock(b, n)
    PROVE  /\ b = Made(b.proto, b.addr, n) /\ b.proto \in {"v4", "v6"} /\ b.addr \in Octets /\ b.mask = MaskOf(n)
           /\ n \in Lens /\ n >= Start(b.proto) /\ n \in Nat /\ n <= 16 * OctBits
           /\ Start(b.proto) \in Nat /\ Start(b.proto) + Width(b.proto) = 16 * OctBits
           /\ cidr_get_pflen(b) = n - Start(b.proto) /\ HostBit(b) = n /\ HostBits(b) = 16 * OctBits - n
<1>1. b = Made(b.proto, b.addr, n) /\ b.proto \in {"v4", "v6"} /\ b.addr \in Octets
  BY DEF IsBlock, Made
<1>2. b.mask = MaskOf(n)
  BY <1>1 DEF Made
<1>3. n \in Lens /\ n >= Start(b.proto)
  BY DEF IsBlock
<1>4. n \in Nat /\ n <= 16 * OctBits /\ OctBits \in Nat
  BY <1>3, OctetFacts DEF Lens
<1>5. cidr_get_pflen(b) = n - Start(b.proto)
  BY <1>1, <1>2, <1>3, MaskLength DEF cidr_get_pflen
<1>6. HostBit(b) = n
  BY <1>2, <1>3, FirstZero
<1>7. Start(b.proto) \in Nat /\ Start(b.proto) + Width(b.proto) = 16 * OctBits
  BY <1>1, Starts
<1>8. HostBits(b) = 16 * OctBits - (cidr_get_pflen(b) + Start(b.proto))
  BY DEF HostBits, Start
<1>9. HostBits(b) = 16 * OctBits - n
  BY <1>4, <1>5, <1>7, <1>8
<1> QED
  BY <1>1, <1>2, <1>3, <1>4, <1>5, <1>6, <1>7, <1>9

\* The octets before a v4 address.
LEMMA MappedIs ==
    ASSUME NEW o \in Octets
    PROVE  /\ o = Mapped(o) <=> \A i \in 0..11 : o[i] = IF i <= 9 THEN 0 ELSE Full
           /\ Mapped(o) \in Octets /\ Mapped(Mapped(o)) = Mapped(o)
<1>1. Full \in Nat /\ Index = 0..15
  BY OctetFacts DEF Index
<1>2. o \in [0..15 -> 0..Full] /\ Mapped(o) = [i \in 0..15 |-> IF i <= 9 THEN 0 ELSE IF i <= 11 THEN Full ELSE o[i]]
  BY <1>1 DEF Octets, Mapped
<1>3. Mapped(o) \in Octets
  BY <1>1, <1>2 DEF Octets
<1>4. \A i \in 0..15 : Mapped(o)[i] = IF i <= 9 THEN 0 ELSE IF i <= 11 THEN Full ELSE o[i]
  BY <1>2
<1>5. (\A i \in 0..15 : o[i] = Mapped(o)[i]) <=> \A i \in 0..11 : o[i] = IF i <= 9 THEN 0 ELSE Full
  BY <1>4
<1>6. o = Mapped(o) <=> \A i \in 0..15 : o[i] = Mapped(o)[i]
  BY <1>1, <1>2, <1>3 DEF Octets
<1>7. Mapped(Mapped(o)) = [i \in 0..15 |-> IF i <= 9 THEN 0 ELSE IF i <= 11 THEN Full ELSE Mapped(o)[i]]
  BY <1>1 DEF Mapped
<1>8. Mapped(Mapped(o)) = Mapped(o)
  <2>1. \A i \in 0..15 : (IF i <= 9 THEN 0 ELSE IF i <= 11 THEN Full ELSE Mapped(o)[i])
                         = IF i <= 9 THEN 0 ELSE IF i <= 11 THEN Full ELSE o[i]
    BY <1>4
  <2> QED
    BY <1>2, <1>7, <2>1
<1> QED
  BY <1>3, <1>5, <1>6, <1>8

\* The octets of the network bits stay.
LEMMA HeadKept ==
    ASSUME NEW o \in Octets, NEW n \in Lens, NEW i \in Index, n >= (i + 1) * OctBits
    PROVE  ClearFrom(o, n)[i] = o[i] /\ FillFrom(o, n)[i] = o[i]
<1>1. Keep(n, i) = OctBits
  BY KeepOf
<1>2. OctBits - Keep(n, i) = 0 /\ OctBits \in Nat
  BY <1>1, OctetFacts
<1>3. o[i] \in Octet
  BY DEF Octets, Octet
<1>4. Top(o[i], 0) = o[i] /\ Pow2[0] = 1 /\ o[i] \in Int
  <2>1. o[i] \in Int
    BY <1>3, OctetFacts
  <2> QED
    BY <1>3, <2>1, TopEnds, Powers2
<1>5. /\ ClearFrom(o, n)[i] = Top(o[i], OctBits - Keep(n, i))
      /\ FillFrom(o, n)[i] = Top(o[i], OctBits - Keep(n, i)) + Pow2[OctBits - Keep(n, i)] - 1
  BY ClearedAt
<1> QED
  BY <1>2, <1>4, <1>5

LEMMA MappedKept ==
    ASSUME NEW o \in Octets, NEW n \in Lens, n >= 12 * OctBits, o = Mapped(o)
    PROVE  ClearFrom(o, n) = Mapped(ClearFrom(o, n)) /\ FillFrom(o, n) = Mapped(FillFrom(o, n))
<1>1. ClearFrom(o, n) \in Octets /\ FillFrom(o, n) \in Octets
  BY Cleared
<1>2. \A i \in 0..11 : ClearFrom(o, n)[i] = o[i] /\ FillFrom(o, n)[i] = o[i]
  <2> SUFFICES ASSUME NEW i \in 0..11 PROVE ClearFrom(o, n)[i] = o[i] /\ FillFrom(o, n)[i] = o[i]
    OBVIOUS
  <2>1. i \in Index /\ i + 1 \in Nat /\ i + 1 <= 12 /\ OctBits \in Nat
    BY OctetFacts DEF Index
  <2>2. (i + 1) * OctBits <= 12 * OctBits /\ (i + 1) * OctBits \in Nat
    BY <2>1
  <2>3. n >= (i + 1) * OctBits
    BY <2>1, <2>2 DEF Lens
  <2> QED
    BY <2>1, <2>3, HeadKept
<1>3. \A i \in 0..11 : o[i] = IF i <= 9 THEN 0 ELSE Full
  BY MappedIs
<1> QED
  BY <1>1, <1>2, <1>3, MappedIs

\* A bit of the address is set, none before it is changed.
LEMMA MappedSet ==
    ASSUME NEW o \in Octets, NEW n \in Bits, n >= 12 * OctBits, o = Mapped(o)
    PROVE  SetBit(o, n) = Mapped(SetBit(o, n))
<1> DEFINE h == n \div OctBits
           r == n % OctBits
<1>1. OctBits \in Nat /\ OctBits > 0 /\ h \in Index /\ r \in 0..(OctBits - 1) /\ n = h * OctBits + r
  BY BitPlace, OctetFacts
<1>2. \A i \in Index : i # h => SetBit(o, n)[i] = o[i]
  BY DEF SetBit, Octets
<1> HIDE DEF h, r
<1>3. ~(h <= 11)
  <2> SUFFICES ASSUME h <= 11 PROVE FALSE
    OBVIOUS
  <2>1. h * OctBits <= 11 * OctBits /\ h * OctBits \in Nat
    BY <1>1 DEF Index
  <2> QED
    BY <1>1, <2>1
<1>4. \A i \in 0..11 : SetBit(o, n)[i] = o[i]
  BY <1>2, <1>3 DEF Index
<1>5. SetBit(o, n) \in Octets
  BY BitSet
<1>6. \A i \in 0..11 : o[i] = IF i <= 9 THEN 0 ELSE Full
  BY MappedIs
<1> QED
  BY <1>4, <1>5, <1>6, MappedIs

-----------------------------------------------------------------------------
(* What the operations on blocks return.                                   *)

LEMMA EndsOf ==
    ASSUME NEW b, NEW n, IsBlock(b, n)
    PROVE  /\ cidr_addr_network(b) = Made(b.proto, ClearFrom(b.addr, n), n)
           /\ cidr_addr_broadcast(b) = Made(b.proto, FillFrom(b.addr, n), n)
           /\ IsBlock(cidr_addr_network(b), n) /\ IsBlock(cidr_addr_broadcast(b), n)
<1> DEFINE p == b.proto
           a == b.addr
<1>1. b = Made(p, a, n) /\ p \in {"v4", "v6"} /\ a \in Octets /\ n \in Lens /\ n >= Start(p) /\ HostBit(b) = n
  BY BlockFacts
<1>2. p = "v4" => a = Mapped(a) /\ n >= 12 * OctBits
  BY <1>1, Starts DEF IsBlock
<1> HIDE DEF p, a
<1>3. cidr_addr_network(b) = Made(p, ClearFrom(a, n), n)
  BY <1>1 DEF cidr_addr_network, Made
<1>4. cidr_addr_broadcast(b) = Made(p, FillFrom(a, n), n)
  BY <1>1 DEF cidr_addr_broadcast, Made
<1>5. ClearFrom(a, n) \in Octets /\ FillFrom(a, n) \in Octets
  BY <1>1, Cleared
<1>6. p = "v4" => ClearFrom(a, n) = Mapped(ClearFrom(a, n)) /\ FillFrom(a, n) = Mapped(FillFrom(a, n))
  BY <1>1, <1>2, MappedKept
<1>7. IsBlock(Made(p, ClearFrom(a, n), n), n) /\ IsBlock(Made(p, FillFrom(a, n), n), n)
  BY <1>1, <1>5, <1>6, BlockMade
<1> QED
  BY <1>3, <1>4, <1>7 DEF p, a

\* The last octet of a block can be changed.
LEMMA LastOctet ==
    ASSUME NEW b, NEW n, IsBlock(b, n), NEW v \in Octet
    PROVE  IsBlock([b EXCEPT !.addr[15] = v], n)
<1> DEFINE p == b.proto
           a == b.addr
           c == [a EXCEPT ![15] = v]
<1>1. b = Made(p, a, n) /\ p \in {"v4", "v6"} /\ a \in Octets /\ n \in Lens /\ n >= Start(p)
  BY BlockFacts
<1>2. p = "v4" => a = Mapped(a)
  BY DEF IsBlock
<1> HIDE DEF p, a
<1>3. [b EXCEPT !.addr[15] = v] = Made(p, c, n)
  BY <1>1 DEF Made
<1>4. c \in Octets /\ \A i \in 0..11 : c[i] = a[i]
  BY <1>1 DEF Octets, Octet, Index
<1> HIDE DEF c
<1>5. p = "v4" => c = Mapped(c)
  BY <1>1, <1>2, <1>4, MappedIs
<1> QED
  BY <1>1, <1>3, <1>4, <1>5, BlockMade

LEMMA EvenOdd ==
    ASSUME NEW a \in Octet
    PROVE  a + 1 - (a % 2) \in Octet /\ a - (a % 2) \in Octet
<1> DEFINE h == Pow2[OctBits - 1]
<1>1. OctBits - 1 \in Nat /\ (OctBits - 1) + 1 = OctBits
  BY OctetFacts
<1>2. h \in Nat /\ Base = 2 * h
  BY <1>1, Powers2 DEF Base
<1> HIDE DEF h
<1>3. a \in Nat /\ a < 2 * h
  BY <1>2, OctetFacts
<1>4. a + 1 - (a % 2) \in Nat /\ a + 1 - (a % 2) < 2 * h /\ a - (a % 2) \in Nat /\ a - (a % 2) < 2 * h
  BY <1>2, <1>3
<1> QED
  BY <1>2, <1>4, OctetFacts

LEMMA HostsOf ==
    ASSUME NEW b, NEW n, IsBlock(b, n)
    PROVE  IsBlock(cidr_addr_hostmin(b), n) /\ IsBlock(cidr_addr_hostmax(b), n)
<1> DEFINE lo == cidr_addr_network(b)
           hi == cidr_addr_broadcast(b)
           x == lo.addr[15]
           y == hi.addr[15]
<1>1. IsBlock(lo, n) /\ IsBlock(hi, n)
  BY EndsOf
<1>2. cidr_addr_hostmin(b) = IF Tiny(b) THEN lo ELSE [lo EXCEPT !.addr[15] = @ + 1 - (@ % 2)]
  BY DEF cidr_addr_hostmin
<1>3. cidr_addr_hostmax(b) = IF Tiny(b) THEN hi ELSE [hi EXCEPT !.addr[15] = @ - (@ % 2)]
  BY DEF cidr_addr_hostmax
<1> HIDE DEF lo, hi
<1>4. lo.addr \in Octets /\ hi.addr \in Octets
  BY <1>1, BlockFacts
<1>5. x \in Octet /\ y \in Octet
  BY <1>4 DEF Octets, Octet, Index
<1>6. x + 1 - (x % 2) \in Octet /\ y - (y % 2) \in Octet
  BY <1>5, EvenOdd
<1>7. IsBlock([lo EXCEPT !.addr[15] = x + 1 - (x % 2)], n) /\ IsBlock([hi EXCEPT !.addr[15] = y - (y % 2)], n)
  BY <1>1, <1>6, LastOctet
<1>8. /\ [lo EXCEPT !.addr[15] = @ + 1 - (@ % 2)] = [lo EXCEPT !.addr[15] = x + 1 - (x % 2)]
      /\ [hi EXCEPT !.addr[15] = @ - (@ % 2)] = [hi EXCEPT !.addr[15] = y - (y % 2)]
  OBVIOUS
<1> QED
  BY <1>1, <1>2, <1>3, <1>7, <1>8

LEMMA SupernetOf ==
    ASSUME NEW b, NEW n, IsBlock(b, n)
    PROVE  /\ n = Start(b.proto) => cidr_net_supernet(b) = NULL
           /\ n > Start(b.proto) => /\ cidr_net_supernet(b) = Made(b.proto, ClearFrom(b.addr, n - 1), n - 1)
                                    /\ IsBlock(cidr_net_supernet(b), n - 1)
<1> DEFINE p == b.proto
           a == b.addr
           s == Start(p)
<1>1. /\ b = Made(p, a, n) /\ p \in {"v4", "v6"} /\ a \in Octets /\ n \in Lens /\ n >= s /\ n \in Nat /\ s \in Nat
      /\ cidr_get_pflen(b) = n - s
  BY BlockFacts
<1>2. cidr_net_supernet(b) =
        IF cidr_get_pflen(b) = 0 THEN NULL
        ELSE [b EXCEPT !.mask = ClearBit(@, s + cidr_get_pflen(b) - 1), !.addr = ClearFrom(@, s + cidr_get_pflen(b) - 1)]
  BY DEF cidr_net_supernet, Start
<1>3. p = "v4" => a = Mapped(a) /\ s = 12 * OctBits
  BY Starts DEF IsBlock
<1> HIDE DEF p, a, s
<1>4. ASSUME n = s PROVE cidr_net_supernet(b) = NULL
  <2>1. cidr_get_pflen(b) = 0
    BY <1>1, <1>4
  <2> QED
    BY <1>2, <2>1
<1>5. ASSUME n > s PROVE cidr_net_supernet(b) = Made(p, ClearFrom(a, n - 1), n - 1) /\ IsBlock(cidr_net_supernet(b), n - 1)
  <2>1. cidr_get_pflen(b) # 0 /\ s + cidr_get_pflen(b) - 1 = n - 1 /\ n > 0
    BY <1>1, <1>5
  <2>2. n - 1 \in Lens /\ ClearBit(MaskOf(n), n - 1) = MaskOf(n - 1)
    BY <1>1, <2>1, MaskSteps
  <2>3. cidr_net_supernet(b) = [b EXCEPT !.mask = ClearBit(@, n - 1), !.addr = ClearFrom(@, n - 1)]
    BY <1>2, <2>1
  <2>4. cidr_net_supernet(b) = Made(p, ClearFrom(a, n - 1), n - 1)
    BY <1>1, <2>2, <2>3 DEF Made
  <2>5. ClearFrom(a, n - 1) \in Octets
    BY <1>1, <2>2, Cleared
  <2>6. n - 1 >= s
    BY <1>1, <1>5
  <2>7. p = "v4" => ClearFrom(a, n - 1) = Mapped(ClearFrom(a, n - 1))
    BY <1>1, <1>3, <2>2, <2>6, MappedKept
  <2> QED
    BY <1>1, <2>2, <2>4, <2>5, <2>6, <2>7, BlockMade DEF s
<1> QED
  BY <1>4, <1>5 DEF p, a, s

LEMMA SubnetsOf ==
    ASSUME NEW b, NEW n, IsBlock(b, n)
    PROVE  /\ n = 16 * OctBits => cidr_net_subnets(b) = <<>>
           /\ n < 16 * OctBits =>
                /\ cidr_net_subnets(b) = <<Made(b.proto, ClearFrom(b.addr, n), n + 1),
                                           Made(b.proto, SetBit(ClearFrom(b.addr, n), n), n + 1)>>
                /\ IsBlock(Made(b.proto, ClearFrom(b.addr, n), n + 1), n + 1)
                /\ IsBlock(Made(b.proto, SetBit(ClearFrom(b.addr, n), n), n + 1), n + 1)
<1> DEFINE p == b.proto
           a == b.addr
           s == Start(p)
           c == ClearFrom(a, n)
           kid == [cidr_addr_network(b) EXCEPT !.mask = SetBit(@, s + cidr_get_pflen(b))]
<1>1. /\ b = Made(p, a, n) /\ p \in {"v4", "v6"} /\ a \in Octets /\ n \in Lens /\ n >= s /\ n \in Nat /\ s \in Nat
      /\ cidr_get_pflen(b) = n - s /\ s + Width(p) = 16 * OctBits
  BY BlockFacts
<1>2. cidr_net_subnets(b) =
        IF cidr_get_pflen(b) = Width(p) THEN <<>>
        ELSE <<kid, [kid EXCEPT !.addr = SetBit(@, s + cidr_get_pflen(b))]>>
  BY DEF cidr_net_subnets, Start
<1>3. p = "v4" => a = Mapped(a) /\ s = 12 * OctBits
  BY Starts DEF IsBlock
<1>4. cidr_addr_network(b) = Made(p, c, n)
  BY EndsOf
<1>5. Width(p) \in Nat /\ OctBits \in Nat
  BY <1>1, Starts, OctetFacts
<1> HIDE DEF p, a, s
<1>6. ASSUME n = 16 * OctBits PROVE cidr_net_subnets(b) = <<>>
  <2>1. cidr_get_pflen(b) = Width(p)
    BY <1>1, <1>5, <1>6
  <2> QED
    BY <1>2, <2>1
<1>7. ASSUME n < 16 * OctBits
      PROVE  /\ cidr_net_subnets(b) = <<Made(p, c, n + 1), Made(p, SetBit(c, n), n + 1)>>
             /\ IsBlock(Made(p, c, n + 1), n + 1) /\ IsBlock(Made(p, SetBit(c, n), n + 1), n + 1)
  <2>1. cidr_get_pflen(b) # Width(p) /\ s + cidr_get_pflen(b) = n
    BY <1>1, <1>5, <1>7
  <2>2. n + 1 \in Lens /\ n \in Bits /\ SetBit(MaskOf(n), n) = MaskOf(n + 1)
    BY <1>1, <1>7, MaskSteps
  <2>3. kid = Made(p, c, n + 1)
    <3>1. kid = [Made(p, c, n) EXCEPT !.mask = SetBit(@, n)]
      BY <1>4, <2>1
    <3> HIDE DEF c, kid
    <3> QED
      BY <2>2, <3>1 DEF Made
  <2>4. cidr_net_subnets(b) = <<kid, [kid EXCEPT !.addr = SetBit(@, n)]>>
    BY <1>2, <2>1
  <2> HIDE DEF kid
  <2>5. c \in Octets
    BY <1>1, Cleared
  <2>6. p = "v4" => c = Mapped(c)
    BY <1>1, <1>3, MappedKept
  <2> HIDE DEF c
  <2>7. [kid EXCEPT !.addr = SetBit(@, n)] = Made(p, SetBit(c, n), n + 1)
    BY <2>3 DEF Made
  <2>8. SetBit(c, n) \in Octets
    BY <2>2, <2>5, BitSet
  <2>9. p = "v4" => SetBit(c, n) = Mapped(SetBit(c, n))
    BY <1>1, <1>3, <2>2, <2>5, <2>6, MappedSet
  <2>10. n + 1 >= Start(p)
    BY <1>1 DEF s
  <2>11. IsBlock(Made(p, c, n + 1), n + 1) /\ IsBlock(Made(p, SetBit(c, n), n + 1), n + 1)
    BY <1>1, <2>2, <2>5, <2>6, <2>8, <2>9, <2>10, BlockMade
  <2> QED
    BY <2>3, <2>4, <2>7, <2>11
<1> QED
  BY <1>6, <1>7 DEF p, a, c

-----------------------------------------------------------------------------
(* The children of a block.                                                *)

\* The network address of a block is its own, and its children's.
LEMMA ClearedTwice ==
    ASSUME NEW o \in Octets, NEW n \in Lens, n < 16 * OctBits
    PROVE  LET c == ClearFrom(o, n)
               d == SetBit(c, n)
           IN  /\ ClearFrom(c, n) = c /\ ClearFrom(c, n + 1) = c
               /\ ClearFrom(d, n) = c /\ ClearFrom(d, n + 1) = d
               /\ FillFrom(d, n + 1) = FillFrom(o, n)
<1> DEFINE c == ClearFrom(o, n)
           d == SetBit(c, n)
           f == FillFrom(o, n)
           F == FillFrom(d, n + 1)
<1>1. n \in Nat /\ n + 1 \in Lens /\ n \in Bits
  BY MaskSteps DEF Lens
<1>2. c \in Octets /\ f \in Octets /\ \A k \in Bits : /\ Bit(c, k) = IF k < n THEN Bit(o, k) ELSE 0
                                                      /\ Bit(f, k) = IF k < n THEN Bit(o, k) ELSE 1
  BY Cleared
<1> HIDE DEF c, f
<1>3. d \in Octets /\ \A k \in Bits : Bit(d, k) = IF k = n THEN 1 ELSE Bit(c, k)
  BY <1>1, <1>2, BitSet
<1> HIDE DEF d
<1>4. F \in Octets /\ \A k \in Bits : Bit(F, k) = IF k < n + 1 THEN Bit(d, k) ELSE 1
  BY <1>1, <1>3, Cleared
<1> HIDE DEF F
<1>5. \A k \in Bits : k \in Nat /\ (k < n + 1 <=> k < n \/ k = n)
  BY <1>1 DEF Bits
<1>6. ClearFrom(c, n) = c
  <2> DEFINE x == ClearFrom(c, n)
  <2>1. x \in Octets /\ \A k \in Bits : Bit(x, k) = IF k < n THEN Bit(c, k) ELSE 0
    BY <1>1, <1>2, Cleared
  <2> HIDE DEF x
  <2>2. \A k \in Bits : Bit(x, k) = Bit(c, k)
    BY <1>2, <2>1
  <2>3. x = c
    BY <1>2, <2>1, <2>2, SameBits
  <2> QED
    BY <2>3 DEF x
<1>7. ClearFrom(c, n + 1) = c
  <2> DEFINE x == ClearFrom(c, n + 1)
  <2>1. x \in Octets /\ \A k \in Bits : Bit(x, k) = IF k < n + 1 THEN Bit(c, k) ELSE 0
    BY <1>1, <1>2, Cleared
  <2> HIDE DEF x
  <2>2. \A k \in Bits : Bit(x, k) = Bit(c, k)
    BY <1>2, <1>5, <2>1
  <2>3. x = c
    BY <1>2, <2>1, <2>2, SameBits
  <2> QED
    BY <2>3 DEF x
<1>8. ClearFrom(d, n) = c
  <2> DEFINE x == ClearFrom(d, n)
  <2>1. x \in Octets /\ \A k \in Bits : Bit(x, k) = IF k < n THEN Bit(d, k) ELSE 0
    BY <1>1, <1>3, Cleared
  <2> HIDE DEF x
  <2>2. \A k \in Bits : Bit(x, k) = Bit(c, k)
    BY <1>1, <1>2, <1>3, <1>5, <2>1
  <2>3. x = c
    BY <1>2, <2>1, <2>2, SameBits
  <2> QED
    BY <2>3 DEF x
<1>9. ClearFrom(d, n + 1) = d
  <2> DEFINE x == ClearFrom(d, n + 1)
  <2>1. x \in Octets /\ \A k \in Bits : Bit(x, k) = IF k < n + 1 THEN Bit(d, k) ELSE 0
    BY <1>1, <1>3, Cleared
  <2> HIDE DEF x
  <2>2. \A k \in Bits : Bit(x, k) = Bit(d, k)
    BY <1>1, <1>2, <1>3, <1>5, <2>1
  <2>3. x = d
    BY <1>3, <2>1, <2>2, SameBits
  <2> QED
    BY <2>3 DEF x
<1>10. F = f
  <2>1. \A k \in Bits : Bit(F, k) = Bit(f, k)
    BY <1>1, <1>2, <1>3, <1>4, <1>5
  <2> QED
    BY <1>2, <1>4, <2>1, SameBits
<1> QED
  BY <1>6, <1>7, <1>8, <1>9, <1>10 DEF c, d, f, F

LEMMA ZerosBits ==
    /\ Zeros \in Octets
    /\ \A k \in Bits : Bit(Zeros, k) = 0
<1>1. Zeros \in Octets
  BY OctetFacts DEF Zeros, Octets, Octet
<1>2. 0 \in Lens /\ \A k \in Bits : ~(k < 0)
  BY OctetFacts DEF Lens, Bits
<1>3. ClearFrom(Zeros, 0) = Zeros
  <2>1. \A i \in Index : Zeros[i] = 0 /\ ClearFrom(Zeros, 0)[i] \in Octet /\ ClearFrom(Zeros, 0)[i] <= 0
    BY <1>1, <1>2, ClearedAt DEF Zeros
  <2>2. \A i \in Index : ClearFrom(Zeros, 0)[i] = Zeros[i]
    BY <2>1, OctetFacts
  <2>3. ClearFrom(Zeros, 0) \in Octets
    BY <1>1, <1>2, Cleared
  <2> QED
    BY <1>1, <2>2, <2>3 DEF Octets
<1>4. \A k \in Bits : Bit(ClearFrom(Zeros, 0), k) = 0
  BY <1>1, <1>2, Cleared
<1> QED
  BY <1>1, <1>3, <1>4

\* The bits of an octet before, and after, that of bit n.
LEMMA OctetBits ==
    ASSUME NEW n \in Bits, NEW i \in Index, NEW b \in 0..(OctBits - 1)
    PROVE  /\ i < n \div OctBits => i * OctBits + b < n
           /\ i > n \div OctBits => i * OctBits + b > n
<1> DEFINE k == n \div OctBits
           r == n % OctBits
<1>1. OctBits \in Nat /\ k \in Index /\ r \in 0..(OctBits - 1) /\ n = k * OctBits + r
  BY BitPlace, OctetFacts
<1> HIDE DEF k, r
<1>2. ASSUME i < k PROVE i * OctBits + b < n
  <2>1. i \in Nat /\ k \in Nat /\ i + 1 <= k
    BY <1>1, <1>2 DEF Index
  <2>2. (i + 1) * OctBits <= k * OctBits /\ (i + 1) * OctBits = i * OctBits + OctBits /\ i * OctBits \in Nat /\ k * OctBits \in Nat
    BY <1>1, <2>1
  <2> QED
    BY <1>1, <2>2
<1>3. ASSUME i > k PROVE i * OctBits + b > n
  <2>1. i \in Nat /\ k \in Nat /\ k + 1 <= i
    BY <1>1, <1>3 DEF Index
  <2>2. (k + 1) * OctBits <= i * OctBits /\ (k + 1) * OctBits = k * OctBits + OctBits /\ i * OctBits \in Nat /\ k * OctBits \in Nat
    BY <1>1, <2>1
  <2> QED
    BY <1>1, <2>2
<1> QED
  BY <1>2, <1>3 DEF k

\* The last address of the first child comes right before the first of the second.
LEMMA SideBySide ==
    ASSUME NEW o \in Octets, NEW n \in Lens, n < 16 * OctBits, ClearFrom(o, n) = o
    PROVE  Adjacent(FillFrom(o, n + 1), SetBit(o, n))
<1> DEFINE x == FillFrom(o, n + 1)
           y == SetBit(o, n)
           k == n \div OctBits
           r == n % OctBits
           j == OctBits - 1 - r
<1>1. n \in Nat /\ n + 1 \in Lens /\ n \in Bits /\ OctBits \in Nat
  BY MaskSteps, OctetFacts DEF Lens
<1>2. \A l \in Bits : Bit(o, l) = IF l < n THEN Bit(o, l) ELSE 0
  BY Cleared
<1>3. x \in Octets /\ \A l \in Bits : Bit(x, l) = IF l < n + 1 THEN Bit(o, l) ELSE 1
  BY <1>1, Cleared
<1>4. y \in Octets /\ \A l \in Bits : Bit(y, l) = IF l = n THEN 1 ELSE Bit(o, l)
  BY <1>1, BitSet
<1>5. k \in Index /\ r \in 0..(OctBits - 1) /\ n = k * OctBits + r /\ j \in 0..(OctBits - 1)
  BY <1>1, BitPlace
<1>6. \A l \in Bits : l \in Nat /\ (l < n => Bit(x, l) = Bit(o, l) /\ Bit(y, l) = Bit(o, l))
                                /\ (l > n => Bit(x, l) = 1 /\ Bit(y, l) = 0)
  BY <1>1, <1>2, <1>3, <1>4 DEF Bits
<1>7. y[k] = x[k] + 1
  <2>1. Bit(o, n) = 0
    BY <1>1, <1>2
  <2>2. y[k] = o[k] + Pow2[j]
    BY <1>5, <2>1 DEF SetBit, Octets
  <2>7. j = OctBits - 1 - r
    OBVIOUS
  <2> HIDE DEF k, r, j
  <2>3. OctBits - Keep(n + 1, k) = j
    <3>1. k * OctBits \in Nat /\ (k + 1) * OctBits = k * OctBits + OctBits
      BY <1>1, <1>5 DEF Index
    <3>2. k * OctBits <= n + 1 /\ n + 1 <= (k + 1) * OctBits
      BY <1>1, <1>5, <3>1
    <3>3. Keep(n + 1, k) = (n + 1) - k * OctBits
      <4> DEFINE N == n + 1
      <4>1. N \in Lens /\ k * OctBits <= N /\ N <= (k + 1) * OctBits /\ k \in Index
        BY <1>1, <1>5, <3>2
      <4> HIDE DEF N
      <4>2. Keep(N, k) = N - k * OctBits
        BY <4>1, KeepIn
      <4> QED
        BY <4>2 DEF N
    <3> QED
      BY <1>1, <1>5, <2>7, <3>1, <3>3
  <2>4. ClearFrom(o, n + 1) = o
    BY ClearedTwice
  <2>5. o[k] = Top(o[k], j) /\ x[k] = Top(o[k], j) + Pow2[j] - 1
    BY <1>1, <1>5, <2>3, <2>4, ClearedAt
  <2>6. o[k] \in Nat /\ Pow2[j] \in Nat
    <3>1. o[k] \in 0..Full /\ Full \in Nat
      BY <1>5, OctetFacts DEF Octets
    <3>2. Pow2[j] \in Nat
      BY <1>5, Powers2
    <3> QED
      BY <3>1, <3>2
  <2> QED
    BY <2>2, <2>5, <2>6
<1> HIDE DEF x, y, k, r, j
<1>8. ASSUME NEW i \in 0..(k - 1) PROVE x[i] = y[i]
  <2>1. i \in Index /\ i < n \div OctBits
    BY <1>5 DEF Index, k
  <2>2. \A b \in 0..(OctBits - 1) : Bit(x, i * OctBits + b) = Bit(y, i * OctBits + b)
    BY <1>1, <1>6, <2>1, OctetBits, BitAt
  <2> QED
    BY <1>3, <1>4, <2>1, <2>2, SameOctet
<1>9. ASSUME NEW i \in (k + 1)..15 PROVE x[i] = Full /\ y[i] = 0
  <2>1. i \in Index /\ i > n \div OctBits
    BY <1>5 DEF Index, k
  <2>2. \A b \in 0..(OctBits - 1) : i * OctBits + b \in Bits /\ i * OctBits + b > n
    BY <1>1, <2>1, OctetBits, BitAt
  <2>3. \A b \in 0..(OctBits - 1) : /\ Bit(x, i * OctBits + b) = Bit(Ones, i * OctBits + b)
                                    /\ Bit(y, i * OctBits + b) = Bit(Zeros, i * OctBits + b)
    BY <1>6, <2>2, OnesBits, ZerosBits
  <2>4. x[i] = Ones[i]
    BY <1>3, <2>1, <2>3, OnesBits, SameOctet
  <2>5. y[i] = Zeros[i]
    BY <1>4, <2>1, <2>3, ZerosBits, SameOctet
  <2> QED
    BY <2>1, <2>4, <2>5 DEF Ones, Zeros
<1>10. Adjacent(x, y)
  BY <1>5, <1>7, <1>8, <1>9 DEF Adjacent
<1> QED
  BY <1>10 DEF x, y

LEMMA ChildrenPartition ==
    ASSUME NEW b, NEW n, IsBlock(b, n), cidr_net_subnets(b) # <<>>
    PROVE  LET s == cidr_net_subnets(b)
           IN  /\ cidr_addr_network(s[1]).addr = cidr_addr_network(b).addr
               /\ cidr_addr_broadcast(s[2]).addr = cidr_addr_broadcast(b).addr
               /\ Adjacent(cidr_addr_broadcast(s[1]).addr, cidr_addr_network(s[2]).addr)
               /\ \A i \in 1..2 : cidr_net_supernet(s[i]) = cidr_addr_network(b)
<1> DEFINE p == b.proto
           a == b.addr
           c == ClearFrom(a, n)
           d == SetBit(c, n)
           u == Made(p, c, n + 1)
           v == Made(p, d, n + 1)
<1>1. a \in Octets /\ n \in Lens /\ n \in Nat /\ n <= 16 * OctBits /\ n >= Start(p) /\ Start(p) \in Nat /\ OctBits \in Nat
  BY BlockFacts, OctetFacts
<1>2. n < 16 * OctBits
  BY <1>1, SubnetsOf
<1>3. cidr_net_subnets(b) = <<u, v>> /\ IsBlock(u, n + 1) /\ IsBlock(v, n + 1)
  BY <1>2, SubnetsOf
<1>4. cidr_addr_network(b) = Made(p, c, n) /\ cidr_addr_broadcast(b) = Made(p, FillFrom(a, n), n)
  BY EndsOf
<1>5. /\ ClearFrom(c, n) = c /\ ClearFrom(c, n + 1) = c /\ ClearFrom(d, n) = c /\ ClearFrom(d, n + 1) = d
      /\ FillFrom(d, n + 1) = FillFrom(a, n)
  BY <1>1, <1>2, ClearedTwice
<1>6. c \in Octets
  BY <1>1, Cleared
<1>7. Adjacent(FillFrom(c, n + 1), d)
  BY <1>1, <1>2, <1>5, <1>6, SideBySide
<1>8. u.proto = p /\ u.addr = c /\ v.proto = p /\ v.addr = d
  BY DEF Made
<1> HIDE DEF u, v, c, d, p, a
<1>9. cidr_addr_network(u) = Made(p, c, n + 1) /\ cidr_addr_broadcast(u) = Made(p, FillFrom(c, n + 1), n + 1)
  BY <1>3, <1>5, <1>8, EndsOf
<1>10. cidr_addr_network(v) = Made(p, d, n + 1) /\ cidr_addr_broadcast(v) = Made(p, FillFrom(a, n), n + 1)
  BY <1>3, <1>5, <1>8, EndsOf
<1>11. n + 1 > Start(p) /\ (n + 1) - 1 = n
  BY <1>1
<1>12. cidr_net_supernet(u) = Made(p, c, n) /\ cidr_net_supernet(v) = Made(p, c, n)
  BY <1>3, <1>5, <1>8, <1>11, SupernetOf
<1>13. /\ cidr_addr_network(u).addr = cidr_addr_network(b).addr
       /\ cidr_addr_broadcast(v).addr = cidr_addr_broadcast(b).addr
       /\ Adjacent(cidr_addr_broadcast(u).addr, cidr_addr_network(v).addr)
  BY <1>4, <1>7, <1>9, <1>10 DEF Made
<1>14. cidr_net_subnets(b)[1] = u /\ cidr_net_subnets(b)[2] = v
  BY <1>3
<1> QED
  BY <1>4, <1>12, <1>13, <1>14

-----------------------------------------------------------------------------
(* The order of addresses.                                                 *)

LEMMA OctetOf ==
    ASSUME NEW o \in Octets, NEW i \in Index
    PROVE  i \in Nat /\ o[i] \in Octet /\ o[i] \in Nat
<1>1. i \in Nat /\ o[i] \in Octet
  BY DEF Octets, Octet, Index
<1> QED
  BY <1>1, OctetFacts

\* Of two addresses in order, the first octet that differs is the smaller one.
LEMMA BeforeAt ==
    ASSUME NEW a \in Octets, NEW b \in Octets, Before(a, b),
           NEW i \in Index, \A j \in 0..(i - 1) : a[j] = b[j]
    PROVE  a[i] <= b[i]
<1>0. \A j \in Index : j \in Nat /\ a[j] \in Int /\ b[j] \in Int
  BY OctetOf
<1>1. CASE a = b
  BY <1>0, <1>1
<1>2. CASE \E h \in Index : a[h] < b[h] /\ \A j \in 0..(h - 1) : a[j] = b[j]
  <2>1. PICK h \in Index : a[h] < b[h] /\ \A j \in 0..(h - 1) : a[j] = b[j]
    BY <1>2
  <2>2. ~(h < i)
    BY <1>0, <2>1
  <2>3. CASE h = i
    BY <1>0, <2>1, <2>3
  <2>4. CASE h > i
    <3>1. i \in 0..(h - 1)
      BY <1>0, <2>4
    <3> QED
      BY <1>0, <2>1, <3>1
  <2> QED
    BY <1>0, <2>2, <2>3, <2>4
<1> QED
  BY <1>1, <1>2 DEF Before

\* Addresses whose octets are all in order are.
LEMMA OctetwiseBefore ==
    ASSUME NEW a \in Octets, NEW b \in Octets, \A i \in Index : a[i] <= b[i]
    PROVE  Before(a, b)
<1> DEFINE D == {i \in Index : a[i] # b[i]}
<1>0. \A j \in Index : j \in Nat /\ a[j] \in Int /\ b[j] \in Int
  BY OctetOf
<1> SUFFICES ASSUME a # b PROVE Before(a, b)
  BY DEF Before
<1>1. D \in SUBSET Nat
  BY <1>0
<1>2. D # {}
  BY DEF Octets
<1>3. PICK i \in D : \A j \in D : i <= j
  <2> HIDE DEF D
  <2> QED
    BY <1>1, <1>2, LeastNumber
<1>4. i \in Index /\ a[i] < b[i]
  BY <1>0, <1>3
<1>5. \A j \in 0..(i - 1) : j \in Index /\ j \notin D
  BY <1>0, <1>3 DEF Index
<1>6. \A j \in 0..(i - 1) : a[j] = b[j]
  BY <1>5
<1> QED
  BY <1>4, <1>6 DEF Before

LEMMA BeforeTransitive ==
    ASSUME NEW a \in Octets, NEW b \in Octets, NEW c \in Octets, Before(a, b), Before(b, c)
    PROVE  Before(a, c)
<1>0. \A j \in Index : j \in Nat /\ a[j] \in Int /\ b[j] \in Int /\ c[j] \in Int
  BY OctetOf
<1>1. CASE a = b \/ b = c
  BY <1>1
<1>2. CASE a # b /\ b # c
  <2>1. PICK h \in Index : a[h] < b[h] /\ \A j \in 0..(h - 1) : a[j] = b[j]
    BY <1>2 DEF Before
  <2>2. PICK k \in Index : b[k] < c[k] /\ \A j \in 0..(k - 1) : b[j] = c[j]
    BY <1>2 DEF Before
  <2>3. CASE h < k
    <3>1. h \in 0..(k - 1) /\ \A j \in 0..(h - 1) : j \in 0..(k - 1)
      BY <1>0, <2>3
    <3>2. a[h] < c[h] /\ \A j \in 0..(h - 1) : a[j] = c[j]
      BY <2>1, <2>2, <3>1
    <3> QED
      BY <3>2 DEF Before
  <2>4. CASE h = k
    <3>1. a[h] < c[h]
      BY <1>0, <2>1, <2>2, <2>4
    <3>2. \A j \in 0..(h - 1) : a[j] = c[j]
      BY <2>1, <2>2, <2>4
    <3> QED
      BY <3>1, <3>2 DEF Before
  <2>5. CASE h > k
    <3>1. k \in 0..(h - 1) /\ \A j \in 0..(k - 1) : j \in 0..(h - 1)
      BY <1>0, <2>5
    <3>2. a[k] < c[k] /\ \A j \in 0..(k - 1) : a[j] = c[j]
      BY <2>1, <2>2, <3>1
    <3> QED
      BY <3>2 DEF Before
  <2> QED
    BY <1>0, <2>3, <2>4, <2>5
<1> QED
  BY <1>1, <1>2

\* The addresses between the ends of a block have its network bits.
LEMMA InBlock ==
    ASSUME NEW o \in Octets, NEW w \in Octets, NEW n \in Lens,
           Before(ClearFrom(o, n), w), Before(w, FillFrom(o, n))
    PROVE  \A k \in Bits : k < n => Bit(w, k) = Bit(o, k)
<1> DEFINE lo == ClearFrom(o, n)
           hi == FillFrom(o, n)
           c == ClearFrom(w, n)
           D == {i \in Index : c[i] # lo[i]}
<1>0. OctBits \in Nat /\ \A j \in Index : j \in Nat /\ j * OctBits \in Nat
  BY OctetFacts DEF Index
<1>1. lo \in Octets /\ hi \in Octets /\ c \in Octets
  BY Cleared
<1>2. D = {}
  <2> SUFFICES ASSUME D # {} PROVE FALSE
    OBVIOUS
  <2>1. D \in SUBSET Nat
    BY <1>0
  <2>2. PICK i \in D : \A j \in D : i <= j
    <3> HIDE DEF D
    <3> QED
      BY <2>1, LeastNumber
  <2>3. i \in Index /\ c[i] # lo[i]
    BY <2>2
  <2> DEFINE m == OctBits - Keep(n, i)
  <2>4. m \in 0..OctBits /\ w[i] \in Octet /\ o[i] \in Octet
    BY <2>3, KeepOf DEF Octets, Octet
  <2>5. c[i] = Top(w[i], m) /\ lo[i] = Top(o[i], m) /\ hi[i] = Top(o[i], m) + Pow2[m] - 1
    BY <2>3, ClearedAt
  <2>6. n > i * OctBits
    <3> SUFFICES ASSUME n <= i * OctBits PROVE FALSE
      BY <1>0, <2>3 DEF Lens
    <3>1. Keep(n, i) = 0
      BY <2>3, KeepOf
    <3>2. m = OctBits
      BY <1>0, <3>1
    <3>3. c[i] = 0 /\ lo[i] = 0
      BY <2>4, <2>5, <3>2, TopEnds
    <3> QED
      BY <2>3, <3>3
  <2>7. ASSUME NEW j \in 0..(i - 1)
        PROVE  lo[j] = w[j] /\ w[j] = hi[j]
    <3>1. j \in Index /\ j \notin D /\ j + 1 <= i /\ j \in Nat /\ i \in Nat
      BY <1>0, <2>2, <2>3 DEF Index
    <3>2. (j + 1) * OctBits <= i * OctBits /\ (j + 1) * OctBits \in Nat
      BY <1>0, <3>1
    <3>3. n >= (j + 1) * OctBits
      BY <1>0, <2>3, <2>6, <3>2 DEF Lens
    <3>4. lo[j] = o[j] /\ hi[j] = o[j] /\ c[j] = w[j]
      BY <3>1, <3>3, HeadKept
    <3>5. c[j] = lo[j]
      BY <3>1
    <3> QED
      BY <3>4, <3>5
  <2> HIDE DEF lo, hi, c, D, m
  <2>8. Before(lo, w) /\ Before(w, hi)
    BY DEF lo, hi
  <2>9. lo[i] <= w[i] /\ w[i] <= hi[i]
    BY <1>1, <2>3, <2>7, <2>8, BeforeAt
  <2>10. Top(w[i], m) = Top(o[i], m)
    BY <2>4, <2>5, <2>9, SameTop
  <2> QED
    BY <2>3, <2>5, <2>10
<1>3. \A i \in Index : c[i] = lo[i]
  BY <1>2
<1>4. c = lo
  <2> HIDE DEF c, lo
  <2> QED
    BY <1>1, <1>3 DEF Octets
<1> QED
  BY <1>4, Cleared

\* The addresses of a block lie within those of the block that has the first
\* m of its network bits.
LEMMA WiderEnds ==
    ASSUME NEW x \in Octets, NEW y \in Octets, NEW n \in Lens, NEW m \in Lens, m <= n,
           \A k \in Bits : k < m => Bit(y, k) = Bit(x, k)
    PROVE  Before(ClearFrom(y, m), ClearFrom(x, n)) /\ Before(FillFrom(x, n), FillFrom(y, m))
<1> DEFINE cx == ClearFrom(x, n)
           fx == FillFrom(x, n)
           cy == ClearFrom(y, m)
           fy == FillFrom(y, m)
           c == ClearFrom(cx, m)
           f == FillFrom(fx, m)
<1>0. \A k \in Bits : k \in Nat /\ (k < m => k < n)
  BY OctetFacts DEF Bits, Lens
<1>1. cx \in Octets /\ fx \in Octets /\ \A k \in Bits : k < n => Bit(cx, k) = Bit(x, k) /\ Bit(fx, k) = Bit(x, k)
  BY Cleared
<1>2. cy \in Octets /\ fy \in Octets /\ \A k \in Bits : /\ Bit(cy, k) = IF k < m THEN Bit(y, k) ELSE 0
                                                        /\ Bit(fy, k) = IF k < m THEN Bit(y, k) ELSE 1
  BY Cleared
<1> HIDE DEF cx, fx, cy, fy
<1>3. c \in Octets /\ \A k \in Bits : Bit(c, k) = IF k < m THEN Bit(cx, k) ELSE 0
  BY <1>1, Cleared
<1>4. f \in Octets /\ \A k \in Bits : Bit(f, k) = IF k < m THEN Bit(fx, k) ELSE 1
  BY <1>1, Cleared
<1>5. \A i \in Index : c[i] <= cx[i] /\ fx[i] <= f[i]
  BY <1>1, ClearedAt
<1> HIDE DEF c, f
<1>6. cy = c
  <2>1. \A k \in Bits : Bit(cy, k) = Bit(c, k)
    BY <1>0, <1>1, <1>2, <1>3
  <2> QED
    BY <1>2, <1>3, <2>1, SameBits
<1>7. fy = f
  <2>1. \A k \in Bits : Bit(fy, k) = Bit(f, k)
    BY <1>0, <1>1, <1>2, <1>4
  <2> QED
    BY <1>2, <1>4, <2>1, SameBits
<1>8. Before(c, cx) /\ Before(fx, f)
  BY <1>1, <1>3, <1>4, <1>5, OctetwiseBefore
<1> QED
  BY <1>6, <1>7, <1>8 DEF cx, fx, cy, fy

\* And only of such a block.
LEMMA WiderOnly ==
    ASSUME NEW x \in Octets, NEW y \in Octets, NEW n \in Lens, NEW m \in Lens,
           Before(ClearFrom(y, m), ClearFrom(x, n)), Before(FillFrom(x, n), FillFrom(y, m))
    PROVE  m <= n /\ \A k \in Bits : k < m => Bit(y, k) = Bit(x, k)
<1> DEFINE cx == ClearFrom(x, n)
           fx == FillFrom(x, n)
           cy == ClearFrom(y, m)
           fy == FillFrom(y, m)
<1>0. n \in Nat /\ m \in Nat /\ m <= 16 * OctBits /\ OctBits \in Nat
  BY OctetFacts DEF Lens
<1>1. cx \in Octets /\ fx \in Octets /\ cy \in Octets /\ fy \in Octets
  BY Cleared
<1>2. \A k \in Bits : Bit(cx, k) = (IF k < n THEN Bit(x, k) ELSE 0) /\ Bit(fx, k) = (IF k < n THEN Bit(x, k) ELSE 1)
  BY Cleared
<1>3. Before(cx, fx)
  <2>1. \A i \in Index : cx[i] <= x[i] /\ x[i] <= fx[i] /\ cx[i] \in Nat /\ x[i] \in Nat /\ fx[i] \in Nat
    BY <1>1, ClearedAt, OctetOf
  <2>2. \A i \in Index : cx[i] <= fx[i]
    BY <2>1
  <2> HIDE DEF cx, fx
  <2> QED
    BY <1>1, <2>2, OctetwiseBefore
<1>4. Before(cy, cx) /\ Before(fx, fy)
  OBVIOUS
<1> HIDE DEF cx, fx
<1>5. Before(cy, fx) /\ Before(cx, fy)
  <2> HIDE DEF cy, fy
  <2> QED
    BY <1>1, <1>3, <1>4, BeforeTransitive
<1>6. \A k \in Bits : k < m => Bit(cx, k) = Bit(y, k) /\ Bit(fx, k) = Bit(y, k)
  BY <1>1, <1>4, <1>5, InBlock
<1>7. m <= n
  <2> SUFFICES ASSUME n < m PROVE FALSE
    BY <1>0
  <2>1. n \in Bits /\ ~(n < n)
    BY <1>0 DEF Bits
  <2> QED
    BY <1>2, <1>6, <2>1
<1>8. \A k \in Bits : k < m => k < n
  BY <1>0, <1>7 DEF Bits
<1> QED
  BY <1>2, <1>6, <1>7, <1>8

\* The bits before those of the protocol are the same in all its blocks.
LEMMA SameHead ==
    ASSUME NEW b, NEW n, IsBlock(b, n), NEW d, NEW m, IsBlock(d, m), b.proto = d.proto
    PROVE  \A k \in Bits : k < Start(b.proto) => Bit(b.addr, k) = Bit(d.addr, k)
<1> SUFFICES ASSUME NEW k \in Bits, k < Start(b.proto)
             PROVE  Bit(b.addr, k) = Bit(d.addr, k)
  OBVIOUS
<1>1. b.proto \in {"v4", "v6"} /\ b.addr \in Octets /\ d.addr \in Octets /\ OctBits \in Nat
  BY BlockFacts, OctetFacts
<1>2. k \in Nat /\ Start("v6") = 0 /\ Start("v4") = 12 * OctBits
  BY Starts DEF Bits
<1>3. b.proto = "v4"
  BY <1>1, <1>2
<1>4. b.addr = Mapped(b.addr) /\ d.addr = Mapped(d.addr)
  BY <1>3 DEF IsBlock
<1> DEFINE h == k \div OctBits
           r == k % OctBits
<1>5. h \in Index /\ r \in 0..(OctBits - 1) /\ k = h * OctBits + r
  BY BitPlace
<1>6. Bit(b.addr, k) = Digit(b.addr[h], OctBits - 1 - r) /\ Bit(d.addr, k) = Digit(d.addr[h], OctBits - 1 - r)
  BY DEF Bit, Digit
<1> HIDE DEF h, r
<1>7. h \in 0..11
  <2> SUFFICES ASSUME h >= 12 PROVE FALSE
    BY <1>5 DEF Index
  <2>1. h * OctBits >= 12 * OctBits /\ h * OctBits \in Nat
    BY <1>1, <1>5 DEF Index
  <2>2. k < 12 * OctBits
    BY <1>2, <1>3
  <2> QED
    BY <1>1, <1>2, <1>5, <2>1, <2>2
<1>8. b.addr[h] = d.addr[h]
  <2>1. b.addr[h] = IF h <= 9 THEN 0 ELSE Full
    BY <1>1, <1>4, <1>7, MappedIs
  <2>2. d.addr[h] = IF h <= 9 THEN 0 ELSE Full
    BY <1>1, <1>4, <1>7, MappedIs
  <2> QED
    BY <2>1, <2>2
<1> QED
  BY <1>6, <1>8

\* The addresses of x lie between those of y.
LiesIn(x, y) == /\ x.proto = y.proto
                /\ Before(cidr_addr_network(y).addr, cidr_addr_network(x).addr)
                /\ Before(cidr_addr_broadcast(x).addr, cidr_addr_broadcast(y).addr)

LEMMA ContainsIsLiesIn ==
    ASSUME NEW x, NEW n, IsBlock(x, n), NEW y, NEW m, IsBlock(y, m)
    PROVE  cidr_contains(y, x) <=> LiesIn(x, y)
<1> DEFINE s == Start(y.proto)
           Agree == \A k \in Bits : k < m => Bit(y.addr, k) = Bit(x.addr, k)
<1>1. x.addr \in Octets /\ y.addr \in Octets /\ n \in Lens /\ m \in Lens /\ n \in Nat /\ m \in Nat /\ OctBits \in Nat
  BY BlockFacts, OctetFacts
<1>2. cidr_get_pflen(x) = n - Start(x.proto) /\ cidr_get_pflen(y) = m - s /\ s \in Nat /\ s <= m /\ m <= 16 * OctBits
  BY BlockFacts
<1>3. /\ cidr_addr_network(x).addr = ClearFrom(x.addr, n) /\ cidr_addr_network(y).addr = ClearFrom(y.addr, m)
      /\ cidr_addr_broadcast(x).addr = FillFrom(x.addr, n) /\ cidr_addr_broadcast(y).addr = FillFrom(y.addr, m)
  BY EndsOf DEF Made
<1>4. LiesIn(x, y) <=> x.proto = y.proto /\ m <= n /\ Agree
  <2>1. ASSUME LiesIn(x, y) PROVE x.proto = y.proto /\ m <= n /\ Agree
    <3>1. Before(ClearFrom(y.addr, m), ClearFrom(x.addr, n)) /\ Before(FillFrom(x.addr, n), FillFrom(y.addr, m))
      BY <1>3, <2>1 DEF LiesIn
    <3>2. m <= n /\ Agree
      BY <1>1, <3>1, WiderOnly
    <3> QED
      BY <2>1, <3>2 DEF LiesIn
  <2>2. ASSUME x.proto = y.proto, m <= n, Agree PROVE LiesIn(x, y)
    <3>1. Before(ClearFrom(y.addr, m), ClearFrom(x.addr, n)) /\ Before(FillFrom(x.addr, n), FillFrom(y.addr, m))
      BY <1>1, <2>2, WiderEnds
    <3> QED
      BY <1>3, <2>2, <3>1 DEF LiesIn
  <2> QED
    BY <2>1, <2>2
<1>5. cidr_contains(y, x) <=>
        /\ y.proto = x.proto
        /\ cidr_get_pflen(x) >= cidr_get_pflen(y)
        /\ \A k \in s..(s + cidr_get_pflen(y) - 1) : Bit(y.addr, k) = Bit(x.addr, k)
  BY DEF cidr_contains, Start
<1> HIDE DEF s
<1>6. s + cidr_get_pflen(y) - 1 = m - 1
  BY <1>1, <1>2
<1>7. ASSUME y.proto = x.proto
      PROVE  /\ cidr_get_pflen(x) >= cidr_get_pflen(y) <=> m <= n
             /\ (\A k \in s..(m - 1) : Bit(y.addr, k) = Bit(x.addr, k)) <=> Agree
  <2>1. cidr_get_pflen(x) = n - s
    BY <1>2, <1>7 DEF s
  <2>2. cidr_get_pflen(x) >= cidr_get_pflen(y) <=> m <= n
    BY <1>1, <1>2, <2>1
  <2>3. \A k \in Bits : k \in Nat /\ (k < s => Bit(y.addr, k) = Bit(x.addr, k))
    BY <1>7, SameHead DEF Bits, s
  <2>4. \A k \in s..(m - 1) : k \in Bits /\ k < m
    BY <1>1, <1>2 DEF Bits
  <2>5. \A k \in Bits : k < m => k < s \/ k \in s..(m - 1)
    BY <1>1, <1>2 DEF Bits
  <2>6. (\A k \in s..(m - 1) : Bit(y.addr, k) = Bit(x.addr, k)) => Agree
    BY <2>3, <2>5
  <2>7. Agree => \A k \in s..(m - 1) : Bit(y.addr, k) = Bit(x.addr, k)
    BY <2>4
  <2> QED
    BY <2>2, <2>6, <2>7
<1> QED
  BY <1>4, <1>5, <1>6, <1>7

-----------------------------------------------------------------------------
(* The number of addresses of a v4 block.                                  *)

\* The number with these four octets.
Weigh(x, y, z, t) == x * (Base * Base * Base) + y * (Base * Base) + z * Base + t

LEMMA ValueIs ==
    ASSUME NEW o \in Octets
    PROVE  Value(o) = Weigh(o[12], o[13], o[14], o[15])
<1> DEFINE B == Base
           x == o[12]
           y == o[13]
           z == o[14]
           t == o[15]
<1>1. 12 \in Index /\ 13 \in Index /\ 14 \in Index /\ 15 \in Index
  BY DEF Index
<1>2. B \in Nat /\ x \in Nat /\ y \in Nat /\ z \in Nat /\ t \in Nat
  BY <1>1, OctetOf, OctetFacts
<1>3. Value(o) = x * B * B * B + y * B * B + z * B + t
  BY DEF Value
<1> HIDE DEF B, x, y, z, t
<1>4. x * B * B * B = x * (B * B * B) /\ y * B * B = y * (B * B)
  BY <1>2
<1>5. Value(o) = x * (B * B * B) + y * (B * B) + z * B + t
  BY <1>3, <1>4
<1> QED
  BY <1>5 DEF Weigh, B, x, y, z, t

LEMMA BaseNat ==
    Base \in Nat /\ Base * Base \in Nat /\ Base * Base * Base \in Nat
<1>1. Base \in Nat
  BY OctetFacts
<1> QED
  BY <1>1

LEMMA WeighNat ==
    ASSUME NEW x \in Nat, NEW y \in Nat, NEW z \in Nat, NEW t \in Nat
    PROVE  Weigh(x, y, z, t) \in Nat
<1> DEFINE P == Base * Base * Base
           Q == Base * Base
           R == Base
<1>1. R \in Nat /\ Q \in Nat /\ P \in Nat
  BY BaseNat
<1>2. Weigh(x, y, z, t) = x * P + y * Q + z * R + t
  BY DEF Weigh
<1> HIDE DEF P, Q, R
<1> QED
  BY <1>1, <1>2

LEMMA WeighSum ==
    ASSUME NEW o, NEW p, NEW e, \A i \in 12..15 : o[i] \in Nat /\ e[i] \in Nat /\ p[i] = o[i] + e[i]
    PROVE  Weigh(p[12], p[13], p[14], p[15]) = Weigh(o[12], o[13], o[14], o[15]) + Weigh(e[12], e[13], e[14], e[15])
<1> DEFINE P == Base * Base * Base
           Q == Base * Base
           R == Base
           x == o[12]
           y == o[13]
           z == o[14]
           t == o[15]
           a == e[12]
           b == e[13]
           c == e[14]
           d == e[15]
<1>0. x \in Nat /\ y \in Nat /\ z \in Nat /\ t \in Nat /\ a \in Nat /\ b \in Nat /\ c \in Nat /\ d \in Nat
  OBVIOUS
<1>1. R \in Nat /\ Q \in Nat /\ P \in Nat
  BY BaseNat
<1>2. p[12] = x + a /\ p[13] = y + b /\ p[14] = z + c /\ p[15] = t + d
  OBVIOUS
<1> HIDE DEF x, y, z, t, a, b, c, d
<1>3. /\ Weigh(p[12], p[13], p[14], p[15]) = (x + a) * P + (y + b) * Q + (z + c) * R + (t + d)
      /\ Weigh(x, y, z, t) = x * P + y * Q + z * R + t
      /\ Weigh(a, b, c, d) = a * P + b * Q + c * R + d
  BY <1>2 DEF Weigh
<1> HIDE DEF P, Q, R
<1>4. (x + a) * P = x * P + a * P /\ (y + b) * Q = y * Q + b * Q /\ (z + c) * R = z * R + c * R
  BY <1>0, <1>1
<1>5. /\ x * P \in Nat /\ a * P \in Nat /\ y * Q \in Nat /\ b * Q \in Nat /\ z * R \in Nat /\ c * R \in Nat
  BY <1>0, <1>1
<1>6. Weigh(p[12], p[13], p[14], p[15]) = Weigh(x, y, z, t) + Weigh(a, b, c, d)
  <2> DEFINE u == Weigh(p[12], p[13], p[14], p[15])
             v == Weigh(x, y, z, t)
             w == Weigh(a, b, c, d)
             xP == x * P
             aP == a * P
             yQ == y * Q
             bQ == b * Q
             zR == z * R
             cR == c * R
  <2>1. /\ xP \in Nat /\ aP \in Nat /\ yQ \in Nat /\ bQ \in Nat /\ zR \in Nat /\ cR \in Nat
        /\ u = (xP + aP) + (yQ + bQ) + (zR + cR) + (t + d)
        /\ v = xP + yQ + zR + t /\ w = aP + bQ + cR + d
    BY <1>3, <1>4, <1>5
  <2> HIDE DEF u, v, w, xP, aP, yQ, bQ, zR, cR
  <2>2. u = v + w
    BY <1>0, <2>1
  <2> QED
    BY <2>2 DEF u, v, w
<1> QED
  BY <1>6 DEF x, y, z, t, a, b, c, d

\* How far the last address of octet i is from the first.
Spread(n, i) == Pow2[OctBits - Keep(n, i)] - 1

LEMMA SpreadOf ==
    ASSUME NEW n \in Lens, NEW i \in Index
    PROVE  /\ Spread(n, i) \in Nat
           /\ n >= (i + 1) * OctBits => Spread(n, i) = 0
           /\ n <= i * OctBits => Spread(n, i) = Base - 1
           /\ i * OctBits <= n /\ n <= (i + 1) * OctBits => Spread(n, i) = Pow2[(i + 1) * OctBits - n] - 1
<1>1. OctBits \in Nat /\ n \in Nat /\ i \in Nat /\ OctBits - Keep(n, i) \in Nat
  <2>1. OctBits - Keep(n, i) \in 0..OctBits
    BY KeepOf
  <2> QED
    BY <2>1, OctetFacts DEF Lens, Index
<1>2. Spread(n, i) \in Nat
  BY <1>1, Powers2 DEF Spread
<1>3. ASSUME n >= (i + 1) * OctBits PROVE Spread(n, i) = 0
  <2>1. Keep(n, i) = OctBits
    BY <1>3, KeepOf
  <2>2. OctBits - Keep(n, i) = 0
    BY <1>1, <2>1
  <2> QED
    BY <2>2, Powers2 DEF Spread
<1>4. ASSUME n <= i * OctBits PROVE Spread(n, i) = Base - 1
  <2>1. Keep(n, i) = 0
    BY <1>4, KeepOf
  <2>2. OctBits - Keep(n, i) = OctBits
    BY <1>1, <2>1
  <2> QED
    BY <2>2 DEF Spread, Base
<1>5. ASSUME i * OctBits <= n, n <= (i + 1) * OctBits
      PROVE  Spread(n, i) = Pow2[(i + 1) * OctBits - n] - 1
  <2>1. Keep(n, i) = n - i * OctBits
    BY <1>5, KeepIn
  <2>2. i * OctBits \in Nat /\ (i + 1) * OctBits = i * OctBits + OctBits
    BY <1>1
  <2>3. OctBits - Keep(n, i) = (i + 1) * OctBits - n
    BY <1>1, <2>1, <2>2
  <2> QED
    BY <2>3 DEF Spread
<1> QED
  BY <1>2, <1>3, <1>4, <1>5

LEMMA BasePowers ==
    ASSUME NEW h \in Nat
    PROVE  /\ Pow2[h] \in Nat /\ Pow2[h + OctBits] = Pow2[h] * Base /\ Pow2[h + 2 * OctBits] = Pow2[h] * (Base * Base)
           /\ Pow2[h + 3 * OctBits] = Pow2[h] * (Base * Base * Base)
<1>1. OctBits \in Nat /\ Base \in Nat /\ 2 * OctBits \in Nat /\ 3 * OctBits \in Nat
  BY OctetFacts
<1>2. Pow2[OctBits] = Base
  BY DEF Base
<1>3. OctBits + OctBits = 2 * OctBits /\ 2 * OctBits + OctBits = 3 * OctBits
  BY <1>1
<1>4. Pow2[2 * OctBits] = Base * Base
  BY <1>1, <1>2, <1>3, PowerSum
<1>5. Pow2[3 * OctBits] = Base * Base * Base
  BY <1>1, <1>2, <1>3, <1>4, PowerSum
<1> QED
  <2>1. Pow2[h] \in Nat
    BY Powers2
  <2>2. Pow2[h + OctBits] = Pow2[h] * Pow2[OctBits]
    BY <1>1, PowerSum
  <2>3. Pow2[h + 2 * OctBits] = Pow2[h] * Pow2[2 * OctBits]
    BY <1>1, PowerSum
  <2>4. Pow2[h + 3 * OctBits] = Pow2[h] * Pow2[3 * OctBits]
    BY <1>1, PowerSum
  <2> QED
    BY <1>2, <1>4, <1>5, <2>1, <2>2, <2>3, <2>4

LEMMA SpreadSum ==
    ASSUME NEW n \in Lens, n >= 12 * OctBits
    PROVE  Weigh(Spread(n, 12), Spread(n, 13), Spread(n, 14), Spread(n, 15)) = Pow2[16 * OctBits - n] - 1
<1> DEFINE O == OctBits
           B == Base
           R == B * B
           P == B * B * B
           W == Weigh(Spread(n, 12), Spread(n, 13), Spread(n, 14), Spread(n, 15))
<1>0. 12 \in Index /\ 13 \in Index /\ 14 \in Index /\ 15 \in Index
  BY DEF Index
<1>1. O \in Nat /\ O >= 2 /\ n \in Nat /\ n <= 16 * O /\ B \in Nat /\ R \in Nat /\ P \in Nat /\ n >= 12 * O
  BY OctetFacts DEF Lens
<1>2. W = Spread(n, 12) * P + Spread(n, 13) * R + Spread(n, 14) * B + Spread(n, 15)
  BY DEF Weigh
<1>3. /\ (12 + 1) * O = 13 * O /\ (13 + 1) * O = 14 * O /\ (14 + 1) * O = 15 * O /\ (15 + 1) * O = 16 * O
  BY <1>1
<1>4. CASE n <= 13 * O
  <2> DEFINE h == 13 * O - n
             p == Pow2[h]
  <2>1. /\ h \in Nat /\ 16 * O - n = h + 3 * O /\ n <= 14 * O /\ n <= 15 * O
    BY <1>1, <1>4
  <2>2. Spread(n, 12) = p - 1
    BY <1>0, <1>1, <1>3, <1>4, SpreadOf
  <2>3. Spread(n, 13) = B - 1 /\ Spread(n, 14) = B - 1 /\ Spread(n, 15) = B - 1
    BY <1>0, <1>4, <2>1, SpreadOf
  <2>4. Pow2[16 * O - n] = p * P /\ p \in Nat
    BY <2>1, BasePowers
  <2> HIDE DEF h, p, W, B
  <2>5. (B - 1) * R = B * R - R /\ (B - 1) * B = R - B /\ (p - 1) * P = p * P - P /\ B * R = P /\ p * P \in Nat
    BY <1>1, <2>4
  <2>6. W = (p - 1) * P + (B - 1) * R + (B - 1) * B + (B - 1)
    BY <1>2, <2>2, <2>3
  <2> HIDE DEF R, P
  <2>7. W = p * P - 1
    BY <1>1, <2>5, <2>6
  <2> QED
    BY <2>4, <2>7 DEF W
<1>5. CASE 13 * O <= n /\ n <= 14 * O
  <2> DEFINE h == 14 * O - n
             p == Pow2[h]
  <2>1. /\ h \in Nat /\ 16 * O - n = h + 2 * O /\ n <= 15 * O
    BY <1>1, <1>5
  <2>2. Spread(n, 13) = p - 1
    BY <1>0, <1>1, <1>3, <1>5, SpreadOf
  <2>3. Spread(n, 12) = 0 /\ Spread(n, 14) = B - 1 /\ Spread(n, 15) = B - 1
    BY <1>0, <1>3, <1>5, <2>1, SpreadOf
  <2>4. Pow2[16 * O - n] = p * R /\ p \in Nat
    BY <2>1, BasePowers
  <2> HIDE DEF h, p, W, B
  <2>5. 0 * P = 0 /\ (B - 1) * B = R - B /\ (p - 1) * R = p * R - R /\ p * R \in Nat
    BY <1>1, <2>4
  <2>6. W = 0 * P + (p - 1) * R + (B - 1) * B + (B - 1)
    BY <1>2, <2>2, <2>3
  <2> HIDE DEF R, P
  <2>7. W = p * R - 1
    BY <1>1, <2>5, <2>6
  <2> QED
    BY <2>4, <2>7 DEF W
<1>6. CASE 14 * O <= n /\ n <= 15 * O
  <2> DEFINE h == 15 * O - n
             p == Pow2[h]
  <2>1. /\ h \in Nat /\ 16 * O - n = h + O /\ n >= 13 * O
    BY <1>1, <1>6
  <2>2. Spread(n, 14) = p - 1
    BY <1>0, <1>1, <1>3, <1>6, SpreadOf
  <2>3. Spread(n, 12) = 0 /\ Spread(n, 13) = 0 /\ Spread(n, 15) = B - 1
    BY <1>0, <1>3, <1>6, <2>1, SpreadOf
  <2>4. Pow2[16 * O - n] = p * B /\ p \in Nat
    BY <2>1, BasePowers
  <2> HIDE DEF h, p, W, B
  <2>5. 0 * P = 0 /\ 0 * R = 0 /\ (p - 1) * B = p * B - B /\ p * B \in Nat
    BY <1>1, <2>4
  <2>6. W = 0 * P + 0 * R + (p - 1) * B + (B - 1)
    BY <1>2, <2>2, <2>3
  <2> HIDE DEF R, P
  <2>7. W = p * B - 1
    BY <1>1, <2>5, <2>6
  <2> QED
    BY <2>4, <2>7 DEF W
<1>7. CASE 15 * O <= n
  <2> DEFINE h == 16 * O - n
             p == Pow2[h]
  <2>1. /\ h \in Nat /\ n >= 13 * O /\ n >= 14 * O
    BY <1>1, <1>7
  <2>2. Spread(n, 15) = p - 1
    BY <1>0, <1>1, <1>3, <1>7, SpreadOf
  <2>3. Spread(n, 12) = 0 /\ Spread(n, 13) = 0 /\ Spread(n, 14) = 0
    BY <1>0, <1>3, <1>7, <2>1, SpreadOf
  <2>4. p \in Nat
    BY <2>1, Powers2
  <2> HIDE DEF p, W, B
  <2>5. 0 * P = 0 /\ 0 * R = 0 /\ 0 * B = 0
    BY <1>1
  <2>6. W = 0 * P + 0 * R + 0 * B + (p - 1)
    BY <1>2, <2>2, <2>3
  <2> HIDE DEF R, P
  <2>7. W = p - 1
    BY <1>1, <2>4, <2>5, <2>6
  <2> QED
    BY <2>7 DEF W, p
<1> QED
  BY <1>1, <1>4, <1>5, <1>6, <1>7

\* From the first to the last address of a block.
LEMMA AddressCount ==
    ASSUME NEW o \in Octets, NEW n \in Lens, n >= 12 * OctBits
    PROVE  Value(FillFrom(o, n)) - Value(ClearFrom(o, n)) + 1 = Pow2[16 * OctBits - n]
<1> DEFINE c == ClearFrom(o, n)
           f == FillFrom(o, n)
           e == [i \in Index |-> Spread(n, i)]
           p == Pow2[16 * OctBits - n]
<1>1. c \in Octets /\ f \in Octets
  BY Cleared
<1>2. ASSUME NEW i \in Index PROVE c[i] \in Nat /\ e[i] \in Nat /\ f[i] = c[i] + e[i]
  <2>1. c[i] \in Nat /\ e[i] \in Nat
    BY <1>1, OctetOf, SpreadOf
  <2>2. f[i] = c[i] + Pow2[OctBits - Keep(n, i)] - 1
    BY ClearedAt
  <2>3. OctBits - Keep(n, i) \in Nat
    <3>1. OctBits - Keep(n, i) \in 0..OctBits /\ OctBits \in Nat
      BY KeepOf, OctetFacts
    <3> QED
      BY <3>1
  <2>4. Pow2[OctBits - Keep(n, i)] \in Nat
    BY <2>3, Powers2
  <2> HIDE DEF c, f
  <2> QED
    BY <2>1, <2>2, <2>4 DEF Spread
<1>3. 12 \in Index /\ 13 \in Index /\ 14 \in Index /\ 15 \in Index
  BY DEF Index
<1> HIDE DEF c, f, e
<1>4. Value(c) = Weigh(c[12], c[13], c[14], c[15]) /\ Value(f) = Weigh(f[12], f[13], f[14], f[15])
  BY <1>1, ValueIs
<1>5. \A i \in 12..15 : c[i] \in Nat /\ e[i] \in Nat /\ f[i] = c[i] + e[i]
  BY <1>2 DEF Index
<1>6. Value(f) = Value(c) + Weigh(e[12], e[13], e[14], e[15]) /\ Value(c) \in Nat
  <2>1. Weigh(f[12], f[13], f[14], f[15]) = Weigh(c[12], c[13], c[14], c[15]) + Weigh(e[12], e[13], e[14], e[15])
    BY <1>5, WeighSum
  <2>3. c[12] \in Nat /\ c[13] \in Nat /\ c[14] \in Nat /\ c[15] \in Nat
    BY <1>5
  <2>2. Weigh(c[12], c[13], c[14], c[15]) \in Nat
    BY <2>3, WeighNat, Zenon
  <2> QED
    BY <1>4, <2>1, <2>2
<1>7. Weigh(e[12], e[13], e[14], e[15]) = p - 1
  BY <1>3, SpreadSum DEF e
<1>8. p \in Nat
  <2>1. 16 * OctBits - n \in Nat
    BY OctetFacts DEF Lens
  <2> QED
    BY <2>1, Powers2
<1> HIDE DEF p
<1>9. Value(f) - Value(c) + 1 = p
  BY <1>6, <1>7, <1>8
<1> QED
  BY <1>9 DEF c, f, p

\* A block is tiny when it has at most one host bit.
LEMMA TinyIs ==
    ASSUME NEW b, NEW n, IsBlock(b, n)
    PROVE  Tiny(b) <=> n >= 16 * OctBits - 1
<1> DEFINE N == 16 * OctBits
           k == N - 2
           M(l) == MaskOf(l)[15]
<1>1. n \in Lens /\ n \in Nat /\ n <= N /\ b.mask = MaskOf(n) /\ OctBits \in Nat /\ OctBits >= 2 /\ N \in Nat /\ N >= 2
  BY BlockFacts, OctetFacts
<1>2. N \in Lens /\ N - 1 \in Lens /\ k \in Bits /\ k \in Nat /\ k < N /\ k < N - 1 /\ 15 \in Index
  BY <1>1 DEF Lens, Bits, Index
<1>3. k = 15 * OctBits + (OctBits - 2) /\ OctBits - 2 \in 0..(OctBits - 1)
  BY <1>1
<1>4. ASSUME NEW l \in Lens PROVE Digit(M(l), OctBits - 1 - (OctBits - 2)) = IF k < l THEN 1 ELSE 0
  <2>1. \A o : Bit(o, k) = Digit(o[15], OctBits - 1 - (OctBits - 2))
    BY <1>2, <1>3, BitAt
  <2>2. Bit(MaskOf(l), k) = IF k < l THEN 1 ELSE 0
    BY <1>2, MaskBits
  <2> QED
    BY <2>1, <2>2
<1>5. ASSUME NEW l \in Lens PROVE M(l) = Top(Full, OctBits - Keep(l, 15))
  <2>1. MaskOf(l) = ClearFrom(Ones, l) /\ Ones[15] = Full
    BY <1>2 DEF MaskOf, Ones
  <2> QED
    BY <1>2, <2>1, OnesBits, ClearedAt
<1>6. Full \in Octet /\ Full \in Nat
  BY OctetFacts
<1>7. M(N) = Full
  <2>1. Keep(N, 15) = OctBits
    BY <1>1, <1>2, KeepOf
  <2>2. OctBits - Keep(N, 15) = 0
    BY <1>1, <2>1
  <2> QED
    BY <1>2, <1>5, <1>6, <2>2, TopEnds
<1>8. M(N - 1) = Full - 1
  <2>1. Keep(N - 1, 15) = OctBits - 1
    <3>1. 15 * OctBits <= N - 1 /\ N - 1 <= (15 + 1) * OctBits /\ N - 1 - 15 * OctBits = OctBits - 1
      BY <1>1
    <3> QED
      BY <1>2, <3>1, KeepIn
  <2>2. OctBits - Keep(N - 1, 15) = 1
    BY <1>1, <2>1
  <2>3. Top(Full, 1) = Full - (Full % 2)
    <3>1. Pow2[1] = 2
      <4>1. 0 \in Nat /\ 0 + 1 = 1
        OBVIOUS
      <4> QED
        BY <4>1, Powers2
    <3> QED
      BY <3>1 DEF Top
  <2>4. Full % 2 = 1
    <3> DEFINE h == Pow2[OctBits - 1]
    <3>1. OctBits - 1 \in Nat /\ (OctBits - 1) + 1 = OctBits
      BY <1>1
    <3>2. h \in Nat /\ h > 0 /\ Base = 2 * h
      BY <3>1, Powers2 DEF Base
    <3> HIDE DEF h
    <3>3. Full = 2 * (h - 1) + 1
      BY <3>2 DEF Full
    <3> QED
      BY <3>2, <3>3
  <2> QED
    BY <1>2, <1>5, <2>2, <2>3, <2>4
<1>9. Tiny(b) <=> M(n) \in {Full, Full - 1}
  BY <1>1 DEF Tiny
<1> HIDE DEF M
<1>10. CASE n >= N - 1
  <2>1. n = N \/ n = N - 1
    BY <1>1, <1>10
  <2> QED
    BY <1>7, <1>8, <1>9, <1>10, <2>1
<1>11. CASE n < N - 1
  <2>1. ~(k < n)
    BY <1>1, <1>11
  <2>2. M(n) # M(N) /\ M(n) # M(N - 1)
    <3> HIDE DEF k
    <3> QED
      BY <1>1, <1>2, <1>4, <2>1
  <2>3. ~(n >= N - 1)
    BY <1>1, <1>11
  <2> QED
    BY <1>7, <1>8, <1>9, <2>2, <2>3
<1> QED
  BY <1>1, <1>10, <1>11

\* The ends of the hosts of a block that is not tiny: its last bit is one of
\* the host's.
LEMMA HostEnds ==
    ASSUME NEW b, NEW n, IsBlock(b, n), n < 16 * OctBits - 1
    PROVE  LET c == ClearFrom(b.addr, n)
               f == FillFrom(b.addr, n)
           IN  /\ cidr_addr_hostmin(b).addr = [c EXCEPT ![15] = c[15] + 1]
               /\ cidr_addr_hostmax(b).addr = [f EXCEPT ![15] = f[15] - 1]
               /\ f[15] > 0
<1> DEFINE c == ClearFrom(b.addr, n)
           f == FillFrom(b.addr, n)
           k == 16 * OctBits - 1
           lo == Made(b.proto, c, n)
           hi == Made(b.proto, f, n)
<1>1. b.addr \in Octets /\ n \in Lens /\ n \in Nat /\ OctBits \in Nat /\ OctBits >= 2
  BY BlockFacts, OctetFacts
<1>2. cidr_addr_network(b) = lo /\ cidr_addr_broadcast(b) = hi
  BY EndsOf
<1>3. ~Tiny(b)
  <2>1. ~(n >= 16 * OctBits - 1)
    BY <1>1
  <2> QED
    BY <2>1, TinyIs
<1>4. c \in Octets /\ f \in Octets /\ c[15] \in Nat /\ f[15] \in Nat
  <2>1. 15 \in Index
    BY DEF Index
  <2> QED
    BY <1>1, <2>1, Cleared, OctetOf
<1>5. k \in Bits /\ ~(k < n) /\ k = 15 * OctBits + (OctBits - 1) /\ OctBits - 1 \in 0..(OctBits - 1) /\ 15 \in Index
  BY <1>1 DEF Bits, Index
<1>6. Bit(c, k) = 0 /\ Bit(f, k) = 1
  BY <1>1, <1>5, Cleared
<1>7. \A o : Bit(o, k) = Digit(o[15], OctBits - 1 - (OctBits - 1))
  BY <1>5, BitAt
<1>8. OctBits - 1 - (OctBits - 1) = 0
  BY <1>1
<1> HIDE DEF c, f
<1>9. Digit(c[15], 0) = 0 /\ Digit(f[15], 0) = 1
  BY <1>6, <1>7, <1>8
<1>10. c[15] % 2 = 0 /\ f[15] % 2 = 1
  <2>1. \A x \in Nat : x \div 1 = x
    OBVIOUS
  <2>2. (c[15] \div 1) % 2 = 0 /\ (f[15] \div 1) % 2 = 1
    BY <1>9, Powers2 DEF Digit
  <2> QED
    BY <1>4, <2>1, <2>2
<1>11. cidr_addr_hostmin(b) = [lo EXCEPT !.addr[15] = @ + 1 - (@ % 2)]
  BY <1>2, <1>3 DEF cidr_addr_hostmin
<1>12. cidr_addr_hostmax(b) = [hi EXCEPT !.addr[15] = @ - (@ % 2)]
  BY <1>2, <1>3 DEF cidr_addr_hostmax
<1>13. cidr_addr_hostmin(b).addr = [c EXCEPT ![15] = c[15] + 1 - (c[15] % 2)]
  BY <1>11 DEF Made
<1>14. cidr_addr_hostmax(b).addr = [f EXCEPT ![15] = f[15] - (f[15] % 2)]
  BY <1>12 DEF Made
<1>15. c[15] + 1 - (c[15] % 2) = c[15] + 1 /\ f[15] - (f[15] % 2) = f[15] - 1 /\ f[15] > 0
  BY <1>4, <1>10
<1>16. /\ cidr_addr_hostmin(b).addr = [c EXCEPT ![15] = c[15] + 1]
       /\ cidr_addr_hostmax(b).addr = [f EXCEPT ![15] = f[15] - 1]
  BY <1>13, <1>14, <1>15
<1> QED
  BY <1>15, <1>16 DEF c, f

\* A number whose last octet is one more, or one less.
LEMMA NextValue ==
    ASSUME NEW o \in Octets
    PROVE  /\ Value([o EXCEPT ![15] = o[15] + 1]) = Value(o) + 1
           /\ Value([o EXCEPT ![15] = o[15] - 1]) = Value(o) - 1
           /\ Value(o) \in Nat
<1> DEFINE x == o[12] * Base * Base * Base + o[13] * Base * Base + o[14] * Base
           u == [o EXCEPT ![15] = o[15] + 1]
           v == [o EXCEPT ![15] = o[15] - 1]
<1>1. 12 \in Index /\ 13 \in Index /\ 14 \in Index /\ 15 \in Index
  BY DEF Index
<1>2. o[12] \in Nat /\ o[13] \in Nat /\ o[14] \in Nat /\ o[15] \in Nat /\ Base \in Nat
  BY <1>1, OctetOf, OctetFacts
<1>3. x \in Nat
  BY <1>2
<1>4. u[12] = o[12] /\ u[13] = o[13] /\ u[14] = o[14] /\ u[15] = o[15] + 1
  BY <1>1 DEF Octets
<1>5. v[12] = o[12] /\ v[13] = o[13] /\ v[14] = o[14] /\ v[15] = o[15] - 1
  BY <1>1 DEF Octets
<1> HIDE DEF u, v
<1>6. Value(o) = x + o[15] /\ Value(u) = x + (o[15] + 1) /\ Value(v) = x + (o[15] - 1)
  BY <1>4, <1>5 DEF Value
<1> HIDE DEF x
<1>7. Value(u) = Value(o) + 1 /\ Value(v) = Value(o) - 1 /\ Value(o) \in Nat
  BY <1>2, <1>3, <1>6
<1> QED
  BY <1>7 DEF u, v

LEMMA HostCount ==
    ASSUME NEW b, NEW n, IsBlock(b, n), b.proto = "v4"
    PROVE  /\ cidr_numhost(b) = Value(cidr_addr_hostmax(b).addr) - Value(cidr_addr_hostmin(b).addr) + 1
           /\ cidr_numaddr(b) = Value(cidr_addr_broadcast(b).addr) - Value(cidr_addr_network(b).addr) + 1
<1> DEFINE c == ClearFrom(b.addr, n)
           f == FillFrom(b.addr, n)
           h == 16 * OctBits - n
           p == Pow2[h]
<1>1. b.addr \in Octets /\ n \in Lens /\ n \in Nat /\ n <= 16 * OctBits /\ OctBits \in Nat /\ HostBits(b) = h /\ h \in Nat
  BY BlockFacts, OctetFacts
<1>2. n >= 12 * OctBits
  BY BlockFacts, Starts
<1>3. Value(f) - Value(c) + 1 = p
  BY <1>1, <1>2, AddressCount
<1>4. cidr_addr_network(b).addr = c /\ cidr_addr_broadcast(b).addr = f
  BY EndsOf DEF Made
<1>5. c \in Octets /\ f \in Octets
  BY <1>1, Cleared
<1>6. cidr_numaddr(b) = p
  BY <1>1 DEF cidr_numaddr, cidr_pow2
<1>7. p \in Nat /\ Pow2[0] = 1 /\ Pow2[1] = 2
  <2>1. 0 \in Nat /\ 0 + 1 = 1
    OBVIOUS
  <2> QED
    BY <1>1, <2>1, Powers2
<1>8. cidr_numhost(b) = IF h = 0 THEN 1 ELSE IF h = 1 THEN 2 ELSE p - 2
  BY <1>1 DEF cidr_numhost, cidr_pow2m2
<1> HIDE DEF c, f
<1>9. Value(c) \in Nat /\ Value(f) \in Nat
  BY <1>5, NextValue
<1>10. CASE n >= 16 * OctBits - 1
  <2>1. Tiny(b)
    BY <1>10, TinyIs
  <2>2. cidr_addr_hostmin(b) = cidr_addr_network(b) /\ cidr_addr_hostmax(b) = cidr_addr_broadcast(b)
    BY <2>1 DEF cidr_addr_hostmin, cidr_addr_hostmax
  <2>3. h = 0 \/ h = 1
    BY <1>1, <1>10
  <2>4. cidr_numhost(b) = p
    BY <1>7, <1>8, <2>3
  <2> QED
    BY <1>3, <1>4, <1>6, <2>2, <2>4
<1>11. CASE n < 16 * OctBits - 1
  <2>1. /\ cidr_addr_hostmin(b).addr = [c EXCEPT ![15] = c[15] + 1]
        /\ cidr_addr_hostmax(b).addr = [f EXCEPT ![15] = f[15] - 1]
    BY <1>11, HostEnds DEF c, f
  <2>2. Value(cidr_addr_hostmin(b).addr) = Value(c) + 1 /\ Value(cidr_addr_hostmax(b).addr) = Value(f) - 1
    BY <1>5, <2>1, NextValue
  <2>3. h # 0 /\ h # 1
    BY <1>1, <1>11
  <2>4. cidr_numhost(b) = p - 2
    BY <1>8, <2>3
  <2> HIDE DEF p
  <2>5. Value(cidr_addr_hostmax(b).addr) - Value(cidr_addr_hostmin(b).addr) + 1 = p - 2
    BY <1>3, <1>7, <1>9, <2>2
  <2> QED
    BY <1>3, <1>4, <1>6, <2>4, <2>5
<1> QED
  BY <1>1, <1>10, <1>11

-----------------------------------------------------------------------------
(* Blocks from texts.                                                      *)

LEMMA V4Parsed ==
    ASSUME NEW sect \in Seq(Nat), sect # <<>>, ~V4Bad(sect)
    PROVE  V4Octets(sect) \in Octets /\ V4Octets(sect) = Mapped(V4Octets(sect))
<1> DEFINE n == Len(sect)
           o == V4Octets(sect)
<1>0. Full \in Nat /\ Base \in Nat /\ Base > 0 /\ Base = Full + 1 /\ OctBits \in Nat /\ Index = 0..15
  BY OctetFacts DEF Index
<1>1. n \in Nat /\ n # 0 /\ n <= 4 /\ \A i \in 1..n : sect[i] \in Nat
  BY DEF V4Bad
<1>2. \A i \in 1..(n - 1) : sect[i] \in Nat /\ sect[i] <= Full
  <2> SUFFICES ASSUME NEW i \in 1..(n - 1) PROVE sect[i] \in Nat /\ sect[i] <= Full
    OBVIOUS
  <2>1. sect[i] \in Nat
    BY <1>1
  <2>2. ~(sect[i] > Full)
    BY DEF V4Bad
  <2> QED
    BY <1>0, <2>1, <2>2
<1>3. o = [i \in Index |-> IF i < 12 THEN Mapped(Zeros)[i]
                           ELSE IF i - 11 < n THEN sect[i - 11]
                           ELSE (sect[n] \div Pow2[(15 - i) * OctBits]) % Base]
  BY DEF V4Octets
<1>4. \A i \in Index : Mapped(Zeros)[i] = IF i <= 9 THEN 0 ELSE IF i <= 11 THEN Full ELSE 0
  BY DEF Mapped, Zeros
<1>9. \A i \in Index : i < 12 => o[i] = Mapped(Zeros)[i]
  BY <1>3
<1>5. ASSUME NEW i \in Index PROVE o[i] \in 0..Full
  <2>1. CASE i < 12
    <3>1. o[i] = IF i <= 9 THEN 0 ELSE IF i <= 11 THEN Full ELSE 0
      BY <1>4, <1>9, <2>1
    <3> HIDE DEF o
    <3> QED
      BY <1>0, <3>1
  <2>2. CASE ~(i < 12) /\ i - 11 < n
    <3>1. i - 11 \in 1..(n - 1)
      BY <1>0, <1>1, <2>2
    <3>2. o[i] = sect[i - 11]
      BY <1>3, <2>2
    <3> HIDE DEF n, o
    <3> QED
      BY <1>0, <1>2, <3>1, <3>2
  <2>3. CASE ~(i < 12) /\ ~(i - 11 < n)
    <3> DEFINE p == Pow2[(15 - i) * OctBits]
               q == sect[n] \div p
    <3>1. (15 - i) * OctBits \in Nat
      BY <1>0
    <3>2. p \in Nat /\ p > 0
      BY <3>1, Powers2
    <3>3. sect[n] \in Nat
      BY <1>1
    <3>4. o[i] = q % Base
      BY <1>3, <2>3
    <3> HIDE DEF p, o, n
    <3>5. q \in Nat
      BY <3>2, <3>3, Parts
    <3> HIDE DEF q
    <3>6. q % Base \in 0..(Base - 1)
      BY <1>0, <3>5, Parts
    <3> QED
      BY <1>0, <3>4, <3>6
  <2> QED
    BY <2>1, <2>2, <2>3
<1>6. o \in Octets
  BY <1>3, <1>5 DEF Octets
<1>7. \A i \in 0..11 : o[i] = IF i <= 9 THEN 0 ELSE Full
  <2> HIDE DEF o
  <2> SUFFICES ASSUME NEW i \in 0..11 PROVE o[i] = IF i <= 9 THEN 0 ELSE Full
    OBVIOUS
  <2>1. i \in Index /\ i < 12 /\ i <= 11
    BY <1>0
  <2>2. o[i] = Mapped(Zeros)[i]
    BY <1>9, <2>1
  <2>3. Mapped(Zeros)[i] = IF i <= 9 THEN 0 ELSE IF i <= 11 THEN Full ELSE 0
    BY <1>4, <2>1
  <2> QED
    BY <2>1, <2>2, <2>3, Zenon
<1> HIDE DEF o
<1>8. o = Mapped(o)
  BY <1>6, <1>7, MappedIs
<1> QED
  BY <1>6, <1>8 DEF o

\* The octets of sections and of a dotted tail.
LEMMA Sections ==
    ASSUME NEW sect \in Seq(Nat), NEW tail \in Seq(Nat)
    PROVE  /\ Len(SectOctets(sect, tail)) = 2 * Len(sect) + Len(tail)
           /\ 2 * Len(sect) + Len(tail) \in Nat
           /\ \A i \in 1..(2 * Len(sect) + Len(tail)) :
                  SectOctets(sect, tail)[i] = IF i > 2 * Len(sect) THEN tail[i - 2 * Len(sect)]
                                              ELSE IF i % 2 = 1 THEN sect[(i + 1) \div 2] \div Base ELSE sect[i \div 2] % Base
<1>1. Len(sect) \in Nat /\ Len(tail) \in Nat /\ 2 * Len(sect) + Len(tail) \in Nat
  OBVIOUS
<1> DEFINE N == 2 * Len(sect) + Len(tail)
           v(i) == IF i > 2 * Len(sect) THEN tail[i - 2 * Len(sect)]
                   ELSE IF i % 2 = 1 THEN sect[(i + 1) \div 2] \div Base ELSE sect[i \div 2] % Base
<1>2. SectOctets(sect, tail) = [i \in 1..N |-> v(i)]
  BY DEF SectOctets
<1>3. N \in Nat
  BY <1>1
<1> HIDE DEF N, v
<1>4. Len([i \in 1..N |-> v(i)]) = N /\ \A i \in 1..N : [j \in 1..N |-> v(j)][i] = v(i)
  BY <1>3
<1> QED
  BY <1>2, <1>3, <1>4 DEF N, v

LEMMA SectionsParsed ==
    ASSUME NEW sect \in Seq(Nat), NEW tail \in Seq(Nat),
           \A i \in 1..Len(sect) : ~(sect[i] >= Base * Base), \A i \in 1..Len(tail) : ~(tail[i] > Full)
    PROVE  \A i \in 1..(2 * Len(sect) + Len(tail)) : SectOctets(sect, tail)[i] \in 0..Full
<1> DEFINE n == Len(sect)
           N == 2 * n + Len(tail)
<1>0. Full \in Nat /\ Base \in Nat /\ Base > 0 /\ Base = Full + 1
  BY OctetFacts
<1>1. n \in Nat /\ Len(tail) \in Nat /\ N \in Nat
  OBVIOUS
<1> SUFFICES ASSUME NEW i \in 1..N PROVE SectOctets(sect, tail)[i] \in 0..Full
  OBVIOUS
<1>2. SectOctets(sect, tail)[i] = IF i > 2 * n THEN tail[i - 2 * n]
                                  ELSE IF i % 2 = 1 THEN sect[(i + 1) \div 2] \div Base ELSE sect[i \div 2] % Base
  BY Sections
<1>3. CASE i > 2 * n
  <2>1. i - 2 * n \in 1..Len(tail)
    BY <1>1, <1>3
  <2>2. tail[i - 2 * n] \in Nat /\ ~(tail[i - 2 * n] > Full)
    BY <2>1
  <2> QED
    BY <1>0, <1>2, <1>3, <2>2
<1>4. CASE ~(i > 2 * n) /\ i % 2 = 1
  <2> DEFINE x == sect[(i + 1) \div 2]
             q == x \div Base
             r == x % Base
  <2>1. (i + 1) \div 2 \in 1..n
    BY <1>1, <1>4
  <2>2. x \in Nat /\ x < Base * Base
    <3>1. x \in Nat /\ ~(x >= Base * Base)
      BY <2>1
    <3> QED
      BY <1>0, <3>1
  <2> HIDE DEF x
  <2>3. q \in Nat /\ r \in 0..(Base - 1) /\ x = q * Base + r
    BY <1>0, <2>2, Parts
  <2> HIDE DEF q, r
  <2>4. q < Base
    <3> SUFFICES ASSUME q >= Base PROVE FALSE
      BY <1>0, <2>3
    <3>1. q * Base >= Base * Base
      <4>1. \A b, k, c \in Nat : k >= b => k * c >= b * c
        OBVIOUS
      <4> QED
        BY <1>0, <2>3, <4>1
    <3>2. q * Base \in Nat /\ Base * Base \in Nat
      <4>1. \A x1, x2 \in Nat : x1 * x2 \in Nat
        OBVIOUS
      <4> QED
        BY <1>0, <2>3, <4>1, Zenon
    <3> QED
      BY <2>2, <2>3, <3>1, <3>2
  <2>5. SectOctets(sect, tail)[i] = q
    BY <1>2, <1>4 DEF q, x
  <2> QED
    BY <1>0, <2>3, <2>4, <2>5
<1>5. CASE ~(i > 2 * n) /\ ~(i % 2 = 1)
  <2> DEFINE x == sect[i \div 2]
  <2>1. i \div 2 \in 1..n
    BY <1>1, <1>5
  <2>2. x \in Nat
    BY <2>1
  <2> HIDE DEF x
  <2>3. x % Base \in 0..(Base - 1)
    BY <1>0, <2>2, Parts
  <2>4. SectOctets(sect, tail)[i] = x % Base
    BY <1>2, <1>5 DEF x
  <2> QED
    BY <1>0, <2>3, <2>4
<1> QED
  BY <1>3, <1>4, <1>5

LEMMA V6Parsed ==
    ASSUME NEW t, t.front \in Seq(Nat), t.back \in Seq(Nat), t.tail \in Seq(Nat), ~V6Bad(t)
    PROVE  V6Octets(t) \in Octets
<1> DEFINE back == SectOctets(t.back, t.tail)
           front == SectOctets(t.front, <<>>)
           n == 2 * Len(t.back) + Len(t.tail)
           m == 2 * Len(t.front)
<1>0. Full \in Nat /\ Index = 0..15
  BY OctetFacts DEF Index
<1>1. <<>> \in Seq(Nat) /\ Len(<<>>) = 0
  OBVIOUS
<1>2. n \in Nat /\ m \in Nat /\ Len(back) = n
  <2>1. Len(back) = n
    BY Sections
  <2>2. Len(t.front) \in Nat /\ Len(t.back) \in Nat /\ Len(t.tail) \in Nat
    OBVIOUS
  <2>3. \A x \in Nat : 2 * x \in Nat /\ \A y \in Nat : 2 * x + y \in Nat
    OBVIOUS
  <2> QED
    BY <2>1, <2>2, <2>3, Zenon
<1>3. Len(front) = m
  <2>1. Len(front) = 2 * Len(t.front) + Len(<<>>)
    BY <1>1, Sections
  <2> QED
    BY <1>1, <1>2, <2>1
<1>4. \A i \in 1..n : back[i] \in 0..Full
  <2>1. /\ \A i \in 1..Len(t.back) : ~(t.back[i] >= Base * Base)
        /\ \A i \in 1..Len(t.tail) : ~(t.tail[i] > Full)
    BY DEF V6Bad
  <2> QED
    BY <2>1, SectionsParsed
<1>5. n < 16 => \A i \in 1..m : front[i] \in 0..Full
  <2> SUFFICES ASSUME n < 16 PROVE \A i \in 1..m : front[i] \in 0..Full
    OBVIOUS
  <2>1. \A i \in 1..Len(t.front) : ~(t.front[i] >= Base * Base)
    BY DEF V6Bad
  <2>2. \A i \in 1..Len(<<>>) : ~(<<>>[i] > Full)
    BY <1>1
  <2>3. \A i \in 1..(2 * Len(t.front) + Len(<<>>)) : front[i] \in 0..Full
    BY <1>1, <2>1, <2>2, SectionsParsed
  <2> QED
    BY <1>1, <1>2, <2>3
<1>6. V6Octets(t) = [i \in Index |-> IF Len(back) < 16 /\ i < Len(front) THEN front[i + 1]
                                     ELSE IF i >= 16 - Len(back) THEN back[Len(back) - (15 - i)] ELSE 0]
  BY DEF V6Octets
<1> HIDE DEF back, front, n, m
<1>7. ASSUME NEW i \in Index
      PROVE  (IF n < 16 /\ i < m THEN front[i + 1] ELSE IF i >= 16 - n THEN back[n - (15 - i)] ELSE 0) \in 0..Full
  <2>1. CASE n < 16 /\ i < m
    <3>1. i + 1 \in 1..m
      BY <1>0, <1>2, <2>1
    <3> QED
      BY <1>5, <2>1, <3>1
  <2>2. CASE ~(n < 16 /\ i < m) /\ i >= 16 - n
    <3>1. n - (15 - i) \in 1..n
      BY <1>0, <1>2, <2>2
    <3> QED
      BY <1>4, <2>2, <3>1
  <2>3. CASE ~(n < 16 /\ i < m) /\ ~(i >= 16 - n)
    BY <1>0, <2>3
  <2> QED
    BY <2>1, <2>2, <2>3
<1> QED
  BY <1>2, <1>3, <1>6, <1>7 DEF Octets

\* Two half octets make one.
LEMMA Halves ==
    /\ Half \in Nat /\ Half > 0 /\ Base = Half * Half
    /\ \A x, y \in 0..(Half - 1) : x * Half + y \in 0..Full
<1> DEFINE h == OctBits \div 2
<1>1. h \in Nat /\ h + h = OctBits
  BY CidrAssumption
<1> HIDE DEF h
<1>2. Pow2[h + h] = Pow2[h] * Pow2[h] /\ Pow2[h] \in Nat /\ Pow2[h] > 0
  BY <1>1, PowerSum, Powers2
<1>3. Half \in Nat /\ Half > 0 /\ Base = Half * Half
  BY <1>1, <1>2 DEF Half, Base, h
<1>4. ASSUME NEW x \in 0..(Half - 1), NEW y \in 0..(Half - 1) PROVE x * Half + y \in 0..Full
  <2>1. x + 1 <= Half /\ x \in Nat /\ y \in Nat /\ y < Half
    BY <1>3
  <2>2. (x + 1) * Half <= Half * Half /\ (x + 1) * Half = x * Half + Half /\ x * Half \in Nat /\ Half * Half \in Nat
    BY <1>3, <2>1
  <2>3. x * Half + y \in Nat /\ x * Half + y < Base
    BY <1>3, <2>1, <2>2
  <2> QED
    BY <2>3, OctetFacts
<1> QED
  BY <1>3, <1>4

LEMMA Ptr6Parsed ==
    ASSUME NEW lab \in Seq(0..(Half - 1)), FromPtr6(lab) # NULL
    PROVE  IsBlock(FromPtr6(lab), (Len(lab) * OctBits) \div 2)
<1> DEFINE n == Len(lab)
           digit(k) == IF k < n THEN lab[n - k] ELSE 0
           m == (n * OctBits) \div 2
           a == [i \in Index |-> digit(2 * i) * Half + digit(2 * i + 1)]
<1>1. n \in Nat /\ \A i \in 1..n : lab[i] \in 0..(Half - 1)
  BY LenProperties, ElementOfSeq, Zenon
<1>2. n <= 32 /\ FromPtr6(lab) = Made("v6", a, m)
  BY <1>1 DEF FromPtr6, Made
<1>3. m \in Lens /\ m >= Start("v6")
  <2> DEFINE h == OctBits \div 2
  <2>1. h \in Nat /\ OctBits = 2 * h /\ OctBits \in Nat
    BY CidrAssumption
  <2> HIDE DEF h
  <2>2. n * OctBits = 2 * (n * h) /\ n * h \in Nat
    BY <1>1, <2>1
  <2>3. m = n * h
    BY <2>2
  <2>4. n * h <= 32 * h
    BY <1>1, <1>2, <2>1
  <2>5. m \in Nat /\ m <= 16 * OctBits
    BY <2>1, <2>2, <2>3, <2>4
  <2>6. Start("v6") = 0
    BY Starts
  <2> QED
    BY <2>1, <2>5, <2>6 DEF Lens
<1>4. \A k \in Nat : digit(k) \in 0..(Half - 1)
  <2> SUFFICES ASSUME NEW k \in Nat PROVE digit(k) \in 0..(Half - 1)
    OBVIOUS
  <2>1. CASE k < n
    <3>1. n - k \in 1..n
      BY <1>1, <2>1
    <3> QED
      BY <1>1, <2>1, <3>1
  <2>2. CASE ~(k < n)
    BY <2>2, Halves
  <2> QED
    BY <2>1, <2>2
<1>5. a \in Octets
  <2> HIDE DEF digit
  <2>1. \A i \in Index : 2 * i \in Nat /\ 2 * i + 1 \in Nat
    BY DEF Index
  <2>2. \A i \in Index : digit(2 * i) * Half + digit(2 * i + 1) \in 0..Full
    BY <1>4, <2>1, Halves
  <2> QED
    BY <2>2 DEF Octets
<1> HIDE DEF a, m
<1>6. IsBlock(Made("v6", a, m), m)
  BY <1>3, <1>5, BlockMade
<1> QED
  BY <1>2, <1>6 DEF m

\* Texts that do not overrun the address leave the mask as the prefix made it.
Within(t) == t.form = "v6" => Len(t.front) <= 8

LEMMA NoOverrun ==
    ASSUME NEW t, NEW m, Within(t), t.form = "v6" => Len(t.front) \in Int
    PROVE  Overrun(t, m) = m
<1>1. ~(t.form = "v6" /\ Len(t.front) > 8)
  BY DEF Within
<1> QED
  BY <1>1, Zenon DEF Overrun

\* The prefix lengths there are fit in an int of four octets.
LEMMA IntFits ==
    ASSUME NEW b \in Nat, b >= 2
    PROVE  Pow2[4 * b - 1] \in Nat /\ Pow2[4 * b - 1] > 16 * b
<1> DEFINE f(n) == Pow2[4 * (n + 2) - 1]
           S == {n \in Nat : f(n) \in Nat /\ f(n) > 16 * (n + 2)}
<1>1. 0 \in S
  <2>1. Pow2[0 + 1] = 2 /\ Pow2[1 + 1] = 4 /\ Pow2[2 + 1] = 8 /\ Pow2[3 + 1] = 16
    BY Powers2
  <2>2. Pow2[4 + 1] = 32 /\ Pow2[5 + 1] = 64 /\ Pow2[6 + 1] = 128
    BY <2>1, Powers2
  <2>3. 4 * (0 + 2) - 1 = 7 /\ 6 + 1 = 7
    OBVIOUS
  <2> QED
    BY <2>2, <2>3
<1>2. ASSUME NEW n \in S PROVE n + 1 \in S
  <2> DEFINE k == 4 * (n + 2) - 1
  <2>1. k \in Nat /\ 4 * ((n + 1) + 2) - 1 = k + 4
    OBVIOUS
  <2> HIDE DEF k
  <2>2. Pow2[4] = 16
    <3>1. Pow2[0 + 1] = 2 /\ Pow2[1 + 1] = 4 /\ Pow2[2 + 1] = 8 /\ Pow2[3 + 1] = 16
      BY Powers2
    <3> QED
      BY <3>1
  <2>3. Pow2[k + 4] = Pow2[k] * 16
    <3>1. 4 \in Nat
      OBVIOUS
    <3>2. Pow2[k + 4] = Pow2[k] * Pow2[4]
      BY <2>1, <3>1, PowerSum
    <3> QED
      BY <2>2, <3>2
  <2>4. Pow2[k] \in Nat /\ Pow2[k] > 16 * (n + 2)
    BY DEF k
  <2>5. Pow2[k + 4] \in Nat /\ Pow2[k + 4] > 16 * ((n + 1) + 2)
    BY <2>3, <2>4
  <2> QED
    BY <2>1, <2>5
<1>3. S = Nat
  <2>1. S \in SUBSET Nat
    OBVIOUS
  <2> HIDE DEF S
  <2> QED
    BY <1>1, <1>2, <2>1, AllNumbers
<1>4. b - 2 \in Nat /\ (b - 2) + 2 = b
  OBVIOUS
<1>5. b - 2 \in S
  <2> HIDE DEF S
  <2> QED
    BY <1>3, <1>4
<1>6. f(b - 2) \in Nat /\ f(b - 2) > 16 * ((b - 2) + 2)
  BY <1>5
<1> QED
  BY <1>4, <1>6

\* A prefix length is read as itself; whatever else is read is some number.
LEMMA IntRead ==
    /\ \A n \in Int : IntOf(n) \in Int
    /\ \A k \in 0..(16 * OctBits) : IntOf(k) = k
<1> DEFINE long == Pow2[8 * OctBits - 1]
           int == Pow2[4 * OctBits - 1]
<1>1. OctBits \in Nat /\ OctBits >= 2
  BY OctetFacts
<1>2. int \in Nat /\ int > 16 * OctBits
  BY <1>1, IntFits
<1>3. long \in Nat /\ long >= int
  <2>1. 4 * OctBits - 1 \in Nat /\ 4 * OctBits \in Nat /\ (4 * OctBits - 1) + 4 * OctBits = 8 * OctBits - 1
    BY <1>1
  <2>2. long = int * Pow2[4 * OctBits]
    BY <2>1, PowerSum
  <2>3. Pow2[4 * OctBits] \in Nat /\ Pow2[4 * OctBits] > 0
    BY <2>1, Powers2
  <2> HIDE DEF long, int
  <2> QED
    BY <1>2, <2>2, <2>3
<1>4. \A n : IntOf(n) = (((IF n >= long THEN long - 1 ELSE IF n < -long THEN -long ELSE n) + int) % (2 * int)) - int
  BY DEF IntOf
<1> HIDE DEF long, int
<1>5. ASSUME NEW n \in Int PROVE IntOf(n) \in Int
  <2> DEFINE l == IF n >= long THEN long - 1 ELSE IF n < -long THEN -long ELSE n
  <2>1. l \in Int
    BY <1>3
  <2>2. IntOf(n) = ((l + int) % (2 * int)) - int
    BY <1>4
  <2> HIDE DEF l
  <2>3. 2 * int \in Nat /\ 2 * int > 0 /\ l + int \in Int
    BY <1>1, <1>2, <2>1
  <2>4. (l + int) % (2 * int) \in Int
    BY <2>3
  <2> QED
    BY <1>2, <2>2, <2>4
<1>6. ASSUME NEW k \in 0..(16 * OctBits) PROVE IntOf(k) = k
  <2>1. k \in Nat /\ k < int
    BY <1>1, <1>2
  <2>2. IntOf(k) = ((k + int) % (2 * int)) - int
    <3>1. (IF k >= long THEN long - 1 ELSE IF k < -long THEN -long ELSE k) = k
      BY <1>2, <1>3, <2>1
    <3> QED
      BY <1>4, <3>1
  <2>3. (k + int) % (2 * int) = k + int
    <3>1. 2 * int \in Nat /\ 2 * int > 0 /\ k + int \in 0..((2 * int) - 1) /\ k + int = 0 * (2 * int) + (k + int)
      BY <1>2, <2>1
    <3> QED
      BY <3>1, Quotient
  <2> QED
    BY <1>2, <2>1, <2>2, <2>3
<1> QED
  BY <1>5, <1>6

\* An address that was read, and the prefix length after it.
LEMMA AddressParsed ==
    ASSUME NEW t, AddressText(t), ~AddrBad(t)
    PROVE  t.form \in {"v4", "v6"} /\ AddrOctets(t) \in Octets /\ (t.form = "v4" => AddrOctets(t) = Mapped(AddrOctets(t)))
<1>1. CASE t.form = "v4"
  <2>1. t.sect \in Seq(Nat) /\ t.sect # <<>> /\ ~V4Bad(t.sect) /\ AddrOctets(t) = V4Octets(t.sect)
    BY <1>1 DEF AddressText, AddrBad, AddrOctets
  <2> QED
    BY <1>1, <2>1, V4Parsed
<1>2. CASE t.form = "v6"
  <2>1. t.front \in Seq(Nat) /\ t.back \in Seq(Nat) /\ t.tail \in Seq(Nat) /\ ~V6Bad(t) /\ AddrOctets(t) = V6Octets(t)
    BY <1>2 DEF AddressText, AddrBad, AddrOctets
  <2> QED
    BY <1>2, <2>1, V6Parsed
<1> QED
  BY <1>1, <1>2 DEF AddressText

LEMMA PrefixParsed ==
    ASSUME NEW t, t.form \in {"v4", "v6"}, Prefix(t.pf)
    PROVE  PfValue(t) \in Int
<1>1. CASE t.pf.kind = "no"
  <2>1. PfValue(t) = Width(t.form)
    BY <1>1 DEF PfValue
  <2> QED
    BY <2>1, Starts
<1>2. CASE t.pf.kind = "len"
  <2>1. PfValue(t) = IntOf(t.pf.n) /\ t.pf.n \in Int
    BY <1>2 DEF PfValue, Prefix
  <2> QED
    BY <2>1, IntRead
<1>3. CASE t.pf.kind = "mask"
  <2> DEFINE o == [i \in Index |-> IF t.form = "v4" /\ i < 12 THEN 0 ELSE AddrOctets(t.pf.of)[i]]
  <2>1. PfValue(t) = IF AddrBad(t.pf.of) THEN -1 ELSE pflen(t.pf.of.form, o)
    BY <1>3 DEF PfValue
  <2>2. t.pf.of.form \in {"v4", "v6"}
    BY <1>3 DEF Prefix, AddressText
  <2> HIDE DEF o
  <2>3. pflen(t.pf.of.form, o) \in Int
    BY <2>2, LengthIsNumber
  <2> QED
    BY <2>1, <2>3
<1> QED
  BY <1>1, <1>2, <1>3 DEF Prefix

\* What the parser does not refuse is a block.
LEMMA Parsed ==
    ASSUME NEW t, BlockText(t), cidr_from_str(t) # NULL
    PROVE  \E n : IsBlock(cidr_from_str(t), n)
<1>1. CASE t.form = "ptr6" /\ t.lab \in Seq(0..(Half - 1))
  <2>1. cidr_from_str(t) = FromPtr6(t.lab)
    BY <1>1 DEF cidr_from_str
  <2> QED
    BY <1>1, <2>1, Ptr6Parsed
<1>2. CASE AddressText(t) /\ Prefix(t.pf)
  <2> DEFINE n == PfValue(t)
             m == Start(t.form) + (IF n > 0 THEN n ELSE 0)
  <2>1. t.form \in {"v4", "v6"} /\ t.form # "ptr4" /\ t.form # "ptr6"
    BY <1>2 DEF AddressText
  <2>2. cidr_from_str(t) = IF AddrBad(t) \/ n > Width(t.form) \/ (t.pf.kind = "mask" /\ n = -1) THEN NULL
                           ELSE Made(t.form, AddrOctets(t), m)
    <3>1. Overrun(t, MaskOf(m)) = MaskOf(m)
      <4>1. Within(t) /\ (t.form = "v6" => Len(t.front) \in Int)
        BY <1>2 DEF AddressText, Within
      <4> HIDE DEF m
      <4> QED
        BY <4>1, NoOverrun
    <3> QED
      BY <2>1, <3>1 DEF cidr_from_str, Made, Start
  <2>3. n \in Int
    BY <1>2, <2>1, PrefixParsed
  <2> HIDE DEF n
  <2>4. ~AddrBad(t) /\ ~(n > Width(t.form)) /\ cidr_from_str(t) = Made(t.form, AddrOctets(t), m)
    BY <2>2
  <2>5. Start(t.form) \in Nat /\ Start(t.form) + Width(t.form) = 16 * OctBits /\ Width(t.form) \in Nat /\ OctBits \in Nat
    BY <2>1, Starts, OctetFacts
  <2>6. m \in Lens /\ m >= Start(t.form)
    BY <2>3, <2>4, <2>5 DEF Lens
  <2> HIDE DEF m
  <2>7. AddrOctets(t) \in Octets /\ (t.form = "v4" => AddrOctets(t) = Mapped(AddrOctets(t)))
    BY <1>2, <2>4, AddressParsed
  <2>8. IsBlock(Made(t.form, AddrOctets(t), m), m)
    BY <2>1, <2>6, <2>7, BlockMade
  <2> QED
    BY <2>4, <2>8
<1> QED
  BY <1>1, <1>2 DEF BlockText

-----------------------------------------------------------------------------
(* Blocks as texts, read again.                                            *)

\* The length of a mask depends on the bits of its protocol only.
LEMMA SameLength ==
    ASSUME NEW proto \in {"v4", "v6"}, NEW o, NEW p, \A i \in FirstOctet(proto)..15 : o[i] = p[i]
    PROVE  pflen(proto, o) = pflen(proto, p)
<1> DEFINE bits == (FirstOctet(proto) * OctBits)..(16 * OctBits - 1)
           ones(x) == {k \in bits : Bit(x, k) = 1}
<1>1. ASSUME NEW k \in bits PROVE Bit(o, k) = Bit(p, k)
  <2> DEFINE h == k \div OctBits
             f == FirstOctet(proto)
  <2>1. f \in Nat /\ OctBits \in Nat /\ OctBits > 0 /\ f * OctBits \in Nat
    BY OctetFacts DEF FirstOctet
  <2>2. k \in Bits
    BY <2>1 DEF Bits
  <2>3. h \in Index /\ k % OctBits \in 0..(OctBits - 1) /\ k = h * OctBits + (k % OctBits)
    BY <2>2, BitPlace
  <2> DEFINE r == k % OctBits
  <2>4. h \in Index /\ r \in 0..(OctBits - 1) /\ k = h * OctBits + r /\ k >= f * OctBits
    BY <2>1, <2>3
  <2> HIDE DEF f, h, r
  <2>5. h >= f
    <3> SUFFICES ASSUME h < f PROVE FALSE
      BY <2>1, <2>4 DEF Index
    <3>1. h \in Nat /\ h + 1 <= f
      BY <2>1, <2>4 DEF Index
    <3>2. (h + 1) * OctBits <= f * OctBits /\ (h + 1) * OctBits = h * OctBits + OctBits /\ h * OctBits \in Nat
      BY <2>1, <3>1
    <3> QED
      BY <2>1, <2>4, <3>2
  <2>6. h \in f..15
    BY <2>1, <2>4, <2>5 DEF Index
  <2>7. o[h] = p[h]
    BY <2>6 DEF f
  <2> QED
    BY <2>7 DEF Bit, h
<1>2. ones(o) = ones(p)
  BY <1>1
<1>3. \A x : pflen(proto, x) = IF \E k \in ones(x) : k - 1 \in bits \ ones(x) THEN -1 ELSE Cardinality(ones(x))
  BY DEF pflen
<1> HIDE DEF ones
<1> QED
  BY <1>2, <1>3

LEMMA Sequence ==
    ASSUME NEW S, NEW n \in Nat, NEW s \in [1..n -> S]
    PROVE  s \in Seq(S) /\ Len(s) = n
<1>1. s \in Seq(S)
  BY SeqDef
<1>2. Len(s) \in Nat /\ 1..Len(s) = 1..n
  BY <1>1, LenProperties
<1>3. ASSUME NEW a \in Nat, NEW b \in Nat, 1..a = 1..b, a < b PROVE FALSE
  <2>1. b \in 1..b /\ b \notin 1..a
    BY <1>3
  <2> QED
    BY <1>3, <2>1
<1> QED
  BY <1>1, <1>2, <1>3

\* The four numbers of a v4 address.
LEMMA V4Again ==
    ASSUME NEW o \in Octets
    PROVE  /\ V4Numbers(o) \in Seq(Nat) /\ V4Numbers(o) # <<>> /\ Len(V4Numbers(o)) = 4
           /\ \A i \in 1..4 : V4Numbers(o)[i] = o[11 + i] /\ ~(V4Numbers(o)[i] > Full)
           /\ ~V4Bad(V4Numbers(o)) /\ V4Octets(V4Numbers(o)) = Mapped(o)
<1> DEFINE s == V4Numbers(o)
<1>0. /\ OctBits \in Nat /\ Base \in Nat /\ Base > 0 /\ Full \in Nat /\ Base = Full + 1 /\ Index = 0..15
      /\ \A i \in Index : o[i] \in Nat /\ o[i] <= Full
  <2>1. \A i \in Index : o[i] \in Octet
    BY OctetOf
  <2>2. \A x \in Octet : x \in Nat /\ x <= Full
    BY OctetFacts DEF Octet
  <2> QED
    BY <2>1, <2>2, OctetFacts DEF Index
<1>1. s = [i \in 1..4 |-> o[11 + i]]
  BY DEF V4Numbers
<1>2. \A i \in 1..4 : 11 + i \in Index /\ o[11 + i] \in Nat /\ o[11 + i] <= Full
  BY <1>0
<1>3. \A i \in 1..4 : s[i] = o[11 + i] /\ s[i] \in Nat /\ s[i] <= Full
  BY <1>1, <1>2
<1>4. s \in Seq(Nat) /\ Len(s) = 4 /\ s # <<>>
  <2>1. 4 \in Nat
    OBVIOUS
  <2>2. [i \in 1..4 |-> o[11 + i]] \in [1..4 -> Nat]
    BY <1>2
  <2>3. s \in [1..4 -> Nat]
    BY <1>1, <2>2
  <2> HIDE DEF s
  <2>4. s \in Seq(Nat) /\ Len(s) = 4
    BY <2>1, <2>3, Sequence
  <2>5. Len(<<>>) = 0 /\ 4 # 0
    OBVIOUS
  <2> QED
    BY <2>4, <2>5, Zenon
<1> HIDE DEF s
<1>5. \A i \in 1..4 : ~(s[i] > Full)
  BY <1>0, <1>3
<1>6. ~V4Bad(s)
  <2>1. (5 - Len(s)) * OctBits = OctBits
    BY <1>0, <1>4
  <2>2. Pow2[(5 - Len(s)) * OctBits] = Base
    BY <2>1 DEF Base
  <2>3. 4 \in 1..4
    OBVIOUS
  <2>4. s[4] \in Nat /\ s[4] <= Full
    BY <1>3, <2>3
  <2>5. ~(s[Len(s)] >= Base)
    BY <1>0, <1>4, <2>4
  <2>6. ~(Len(s) > 4) /\ \A i \in 1..(Len(s) - 1) : i \in 1..4
    BY <1>4
  <2> QED
    BY <1>5, <2>2, <2>5, <2>6 DEF V4Bad
<1>7. V4Octets(s) = Mapped(o)
  <2>1. V4Octets(s) = [i \in Index |-> IF i < 12 THEN Mapped(Zeros)[i]
                                       ELSE IF i - 11 < 4 THEN s[i - 11]
                                       ELSE (s[4] \div Pow2[(15 - i) * OctBits]) % Base]
    BY <1>4 DEF V4Octets
  <2>2. Mapped(o) = [i \in Index |-> IF i <= 9 THEN 0 ELSE IF i <= 11 THEN Full ELSE o[i]]
    BY DEF Mapped
  <2>3. \A i \in Index : Mapped(Zeros)[i] = IF i <= 9 THEN 0 ELSE IF i <= 11 THEN Full ELSE 0
    BY DEF Mapped, Zeros
  <2>4. ASSUME NEW i \in Index
        PROVE  (IF i < 12 THEN Mapped(Zeros)[i] ELSE IF i - 11 < 4 THEN s[i - 11]
                ELSE (s[4] \div Pow2[(15 - i) * OctBits]) % Base)
               = IF i <= 9 THEN 0 ELSE IF i <= 11 THEN Full ELSE o[i]
    <3>1. CASE i < 12
      <4>1. i <= 11
        BY <1>0, <3>1
      <4>2. Mapped(Zeros)[i] = IF i <= 9 THEN 0 ELSE IF i <= 11 THEN Full ELSE 0
        BY <2>3
      <4> QED
        BY <3>1, <4>1, <4>2, Zenon
    <3>2. CASE ~(i < 12) /\ i - 11 < 4
      <4>1. i - 11 \in 1..4 /\ 11 + (i - 11) = i /\ ~(i <= 9) /\ ~(i <= 11)
        BY <1>0, <3>2
      <4>2. s[i - 11] = o[i]
        BY <1>3, <4>1
      <4> QED
        BY <3>2, <4>1, <4>2, Zenon
    <3>3. CASE ~(i < 12) /\ ~(i - 11 < 4)
      <4>1. i = 15 /\ ~(i <= 9) /\ ~(i <= 11) /\ (15 - i) * OctBits = 0
        BY <1>0, <3>3
      <4>2. Pow2[(15 - i) * OctBits] = 1
        BY <4>1, Powers2
      <4> DEFINE x == s[4]
      <4>3. x = o[15] /\ x \in Nat /\ x < Base
        <5>1. 4 \in 1..4 /\ 11 + 4 = 15
          OBVIOUS
        <5> QED
          BY <1>0, <1>3, <5>1
      <4> HIDE DEF x
      <4>4. x \div 1 = x
        BY <4>3
      <4>5. x % Base = x
        <5>1. x = 0 * Base + x /\ x \in 0..(Base - 1) /\ Base \in Nat /\ Base > 0
          BY <1>0, <4>3
        <5> QED
          BY <5>1, Quotient
      <4>6. (s[4] \div Pow2[(15 - i) * OctBits]) % Base = o[i]
        BY <4>1, <4>2, <4>3, <4>4, <4>5 DEF x
      <4> QED
        BY <3>3, <4>1, <4>6, Zenon
    <3> QED
      BY <3>1, <3>2, <3>3
  <2> QED
    BY <2>1, <2>2, <2>4, Zenon
<1> QED
  BY <1>3, <1>4, <1>5, <1>6, <1>7 DEF s

\* A section is made of two octets.
LEMMA SectionOf ==
    ASSUME NEW o \in Octets, NEW k \in 0..7
    PROVE  /\ Section(o, k) \in Nat /\ ~(Section(o, k) >= Base * Base)
           /\ Section(o, k) \div Base = o[2 * k] /\ Section(o, k) % Base = o[2 * k + 1]
           /\ Section(o, k) = 0 => o[2 * k] = 0 /\ o[2 * k + 1] = 0
<1> DEFINE x == o[2 * k]
           y == o[2 * k + 1]
           z == Section(o, k)
<1>0. Base \in Nat /\ Base > 0 /\ Octet = 0..(Base - 1)
  BY OctetFacts
<1>1. 2 * k \in Index /\ 2 * k + 1 \in Index
  BY DEF Index
<1>2. x \in Octet /\ y \in Octet
  BY <1>1, OctetOf
<1>3. z = x * Base + y
  BY DEF Section
<1> HIDE DEF x, y, z
<1>4. x \in Nat /\ y \in 0..(Base - 1) /\ x + 1 <= Base /\ Base \in Nat /\ Base > 0
  BY <1>0, <1>2
<1>5. z \div Base = x /\ z % Base = y
  BY <1>3, <1>4, Quotient
<1>6. (x + 1) * Base <= Base * Base /\ (x + 1) * Base = x * Base + Base /\ x * Base \in Nat /\ Base * Base \in Nat
  BY <1>4
<1>7. z \in Nat /\ ~(z >= Base * Base)
  BY <1>3, <1>4, <1>6
<1>8. ASSUME z = 0 PROVE x = 0 /\ y = 0
  <2>1. y = 0 /\ x * Base = 0
    BY <1>3, <1>4, <1>6, <1>8
  <2>2. x = 0
    BY <1>4, <2>1
  <2> QED
    BY <2>1, <2>2
<1> QED
  BY <1>5, <1>7, <1>8 DEF x, y, z

\* Sections without a tail.
LEMMA OnlySections ==
    ASSUME NEW m \in Nat, NEW q \in Seq(Nat), Len(q) = m
    PROVE  /\ Len(SectOctets(q, <<>>)) = 2 * m
           /\ \A i \in 1..(2 * m) : SectOctets(q, <<>>)[i] = IF i % 2 = 1 THEN q[(i + 1) \div 2] \div Base ELSE q[i \div 2] % Base
<1> DEFINE v(i) == IF i % 2 = 1 THEN q[(i + 1) \div 2] \div Base ELSE q[i \div 2] % Base
<1>1. <<>> \in Seq(Nat) /\ Len(<<>>) = 0
  OBVIOUS
<1>2. /\ Len(SectOctets(q, <<>>)) = 2 * Len(q) + Len(<<>>)
      /\ \A i \in 1..(2 * Len(q) + Len(<<>>)) :
             SectOctets(q, <<>>)[i] = IF i > 2 * Len(q) THEN <<>>[i - 2 * Len(q)] ELSE v(i)
  BY <1>1, Sections, Zenon
<1>3. 2 * Len(q) + Len(<<>>) = 2 * m /\ 2 * m \in Nat /\ 2 * Len(q) = 2 * m
  BY <1>1
<1> HIDE DEF v
<1>4. \A i \in 1..(2 * m) : SectOctets(q, <<>>)[i] = v(i)
  BY <1>2, <1>3
<1> QED
  BY <1>2, <1>3, <1>4 DEF v

\* q is m sections of o from the s-th on.
SectionsFrom(o, s, m, q) == q \in Seq(Nat) /\ Len(q) = m /\ \A k \in 1..m : q[k] = Section(o, s + k - 1)

\* What the parser makes of them.
SectionsRead(o, s, m, q) ==
    /\ \A k \in 1..m : ~(q[k] >= Base * Base)
    /\ Len(SectOctets(q, <<>>)) = 2 * m
    /\ \A i \in 1..(2 * m) : SectOctets(q, <<>>)[i] = o[2 * s + i - 1]

\* The octets of m sections from the s-th on.
LEMMA SectionsAgain ==
    ASSUME NEW o \in Octets, NEW s \in Nat, NEW m \in Nat, s + m <= 8,
           NEW q, SectionsFrom(o, s, m, q)
    PROVE  SectionsRead(o, s, m, q)
<1> DEFINE c == SectOctets(q, <<>>)
<1>1. \A k \in 1..m : s + k - 1 \in 0..7
  OBVIOUS
<1>2. \A k \in 1..m : ~(Section(o, s + k - 1) >= Base * Base)
  BY <1>1, SectionOf
<1>3. q \in Seq(Nat) /\ Len(q) = m /\ \A k \in 1..m : q[k] = Section(o, s + k - 1)
  BY DEF SectionsFrom
<1>6. /\ Len(c) = 2 * m
      /\ \A i \in 1..(2 * m) : c[i] = IF i % 2 = 1 THEN q[(i + 1) \div 2] \div Base ELSE q[i \div 2] % Base
  BY <1>3, OnlySections
<1> HIDE DEF c
<1>8. ASSUME NEW i \in 1..(2 * m) PROVE c[i] = o[2 * s + i - 1]
  <2>2. c[i] = IF i % 2 = 1 THEN q[(i + 1) \div 2] \div Base ELSE q[i \div 2] % Base
    BY <1>6
  <2>3. CASE i % 2 = 1
    <3> DEFINE k == (i + 1) \div 2
    <3>1. k \in 1..m /\ i = 2 * k - 1
      BY <2>3
    <3> HIDE DEF k
    <3>2. s + k - 1 \in 0..7 /\ 2 * (s + k - 1) = 2 * s + i - 1
      BY <1>1, <3>1
    <3>3. q[k] \div Base = o[2 * s + i - 1]
      BY <1>3, <3>1, <3>2, SectionOf
    <3> QED
      BY <2>2, <2>3, <3>3 DEF k
  <2>4. CASE ~(i % 2 = 1)
    <3> DEFINE k == i \div 2
    <3>1. k \in 1..m /\ i = 2 * k
      BY <2>4
    <3> HIDE DEF k
    <3>2. s + k - 1 \in 0..7 /\ 2 * (s + k - 1) + 1 = 2 * s + i - 1
      BY <1>1, <3>1
    <3>3. q[k] % Base = o[2 * s + i - 1]
      BY <1>3, <3>1, <3>2, SectionOf
    <3> QED
      BY <2>2, <2>4, <3>3 DEF k
  <2> QED
    BY <2>3, <2>4
<1>9. Len(c) = 2 * m
  BY <1>6
<1>10. \A k \in 1..m : ~(q[k] >= Base * Base)
  BY <1>2, <1>3
<1> QED
  BY <1>8, <1>9, <1>10 DEF c, SectionsRead

LEMMA SectionsWritten ==
    ASSUME NEW o \in Octets, NEW s \in Nat, NEW m \in Nat, s + m <= 8
    PROVE  SectionsFrom(o, s, m, [k \in 1..m |-> Section(o, s + k - 1)])
<1> DEFINE q == [k \in 1..m |-> Section(o, s + k - 1)]
<1>1. \A k \in 1..m : s + k - 1 \in 0..7
  OBVIOUS
<1>2. \A k \in 1..m : Section(o, s + k - 1) \in Nat
  BY <1>1, SectionOf
<1>3. q \in [1..m -> Nat] /\ \A k \in 1..m : q[k] = Section(o, s + k - 1)
  BY <1>2
<1> HIDE DEF q
<1>4. q \in Seq(Nat) /\ Len(q) = m
  BY <1>3, Sequence
<1>5. SectionsFrom(o, s, m, q)
  BY <1>3, <1>4 DEF SectionsFrom
<1> QED
  BY <1>5 DEF q

\* There is a first among the longest runs of zeros.
LEMMA ZeroRunOf ==
    ASSUME NEW o \in Octets
    PROVE  LET r == ZeroRun(o)
           IN  /\ r[1] \in 0..8 /\ r[2] \in 0..8 /\ r[1] + r[2] <= 8
               /\ \A k \in r[1]..(r[1] + r[2] - 1) : Section(o, k) = 0
<1> DEFINE runs == {r \in (0..7) \X (1..8) : r[1] + r[2] <= 8 /\ \A k \in r[1]..(r[1] + r[2] - 1) : Section(o, k) = 0}
           Best(r) == \A q \in runs : q[2] < r[2] \/ (q[2] = r[2] /\ r[1] <= q[1])
<1>1. ZeroRun(o) = IF runs = {} THEN <<8, 0>> ELSE CHOOSE r \in runs : Best(r)
  BY DEF ZeroRun
<1>2. ASSUME NEW r \in runs
      PROVE  /\ r[1] \in 0..7 /\ r[2] \in 1..8 /\ r[1] + r[2] <= 8
             /\ \A k \in r[1]..(r[1] + r[2] - 1) : Section(o, k) = 0
  OBVIOUS
<1> HIDE DEF runs
<1>3. CASE runs = {}
  <2>1. ZeroRun(o) = <<8, 0>>
    BY <1>1, <1>3
  <2>2. <<8, 0>>[1] = 8 /\ <<8, 0>>[2] = 0 /\ \A k \in 8..(8 + 0 - 1) : FALSE
    OBVIOUS
  <2> QED
    BY <2>1, <2>2
<1>4. CASE runs # {}
  <2> DEFINE M == {8 * (8 - q[2]) + q[1] : q \in runs}
  <2>1. M \in SUBSET Nat /\ M # {}
    BY <1>2, <1>4
  <2>2. PICK m \in M : \A k \in M : m <= k
    <3> HIDE DEF M
    <3> QED
      BY <2>1, LeastNumber
  <2>3. PICK r \in runs : m = 8 * (8 - r[2]) + r[1]
    BY <2>2
  <2>4. ASSUME NEW q \in runs PROVE q[2] < r[2] \/ (q[2] = r[2] /\ r[1] <= q[1])
    <3>1. 8 * (8 - r[2]) + r[1] <= 8 * (8 - q[2]) + q[1]
      BY <2>2, <2>3
    <3>2. q[1] \in 0..7 /\ q[2] \in 1..8 /\ r[1] \in 0..7 /\ r[2] \in 1..8
      BY <1>2
    <3> QED
      BY <3>1, <3>2
  <2>5. Best(r)
    BY <2>4
  <2> HIDE DEF Best
  <2>6. ZeroRun(o) \in runs
    BY <1>1, <1>4, <2>5
  <2> QED
    BY <1>2, <2>6
<1> QED
  BY <1>3, <1>4

\* The sections before and after a run of zeros give the address again.
LEMMA V6Read ==
    ASSUME NEW o \in Octets, NEW a \in Nat, NEW b \in Nat, a + b <= 8,
           \A k \in a..(7 - b) : Section(o, k) = 0,
           NEW t, t.tail = <<>>, ~t.gap => a = 0 /\ b = 8,
           SectionsFrom(o, 0, a, t.front), SectionsFrom(o, 8 - b, b, t.back)
    PROVE  ~V6Bad(t) /\ V6Octets(t) = o
<1> DEFINE back == SectOctets(t.back, t.tail)
           front == SectOctets(t.front, <<>>)
<1>1. /\ \A k \in 1..a : ~(t.front[k] >= Base * Base)
      /\ Len(front) = 2 * a
      /\ \A i \in 1..(2 * a) : front[i] = o[2 * 0 + i - 1]
  <2>1. 0 \in Nat /\ 0 + a <= 8
    OBVIOUS
  <2>2. SectionsRead(o, 0, a, t.front)
    BY <2>1, SectionsAgain
  <2> QED
    BY <2>2, Zenon DEF SectionsRead
<1>2. /\ \A k \in 1..b : ~(t.back[k] >= Base * Base)
      /\ Len(back) = 2 * b
      /\ \A i \in 1..(2 * b) : back[i] = o[2 * (8 - b) + i - 1]
  <2>1. 8 - b \in Nat /\ (8 - b) + b <= 8
    OBVIOUS
  <2>2. SectionsRead(o, 8 - b, b, t.back)
    BY <2>1, SectionsAgain
  <2>3. back = SectOctets(t.back, <<>>)
    OBVIOUS
  <2> HIDE DEF back
  <2> QED
    BY <2>2, <2>3, Zenon DEF SectionsRead
<1>0. t.front \in Seq(Nat) /\ Len(t.front) = a /\ t.back \in Seq(Nat) /\ Len(t.back) = b
  BY DEF SectionsFrom
<1>3. V6Octets(t) = [i \in Index |-> IF Len(back) < 16 /\ i < Len(front) THEN front[i + 1]
                                     ELSE IF i >= 16 - Len(back) THEN back[Len(back) - (15 - i)] ELSE 0]
  BY DEF V6Octets
<1> HIDE DEF back, front
<1>4. ~V6Bad(t)
  <2>1. Len(t.tail) = 0 /\ \A i \in 1..Len(t.tail) : FALSE
    OBVIOUS
  <2>2. ~t.gap => t.front = <<>> /\ ~(2 * Len(t.back) + Len(t.tail) < 16)
    <3> SUFFICES ASSUME ~t.gap PROVE t.front = <<>> /\ ~(2 * Len(t.back) + Len(t.tail) < 16)
      OBVIOUS
    <3>1. Len(t.front) = 0 /\ Len(t.back) = 8
      BY <1>0
    <3>2. t.front = <<>>
      BY <1>0, <3>1, EmptySeq
    <3> QED
      BY <2>1, <3>1, <3>2
  <2>3. \A k \in 1..Len(t.front) : ~(t.front[k] >= Base * Base)
    BY <1>0, <1>1
  <2>4. \A k \in 1..Len(t.back) : ~(t.back[k] >= Base * Base)
    BY <1>0, <1>2
  <2> QED
    BY <2>1, <2>2, <2>3, <2>4, Zenon DEF V6Bad
<1>5. ASSUME NEW i \in Index
      PROVE  (IF Len(back) < 16 /\ i < Len(front) THEN front[i + 1]
              ELSE IF i >= 16 - Len(back) THEN back[Len(back) - (15 - i)] ELSE 0) = o[i]
  <2>0. i \in 0..15
    BY DEF Index
  <2>1. CASE Len(back) < 16 /\ i < Len(front)
    <3>1. i + 1 \in 1..(2 * a) /\ 2 * 0 + (i + 1) - 1 = i
      BY <1>1, <2>0, <2>1
    <3> QED
      BY <1>1, <2>1, <3>1
  <2>2. CASE ~(Len(back) < 16 /\ i < Len(front)) /\ i >= 16 - Len(back)
    <3> DEFINE j == 2 * b - (15 - i)
    <3>1. j \in 1..(2 * b) /\ 2 * (8 - b) + j - 1 = i
      BY <1>2, <2>0, <2>2
    <3>2. back[j] = o[2 * (8 - b) + j - 1]
      BY <1>2, <3>1
    <3> HIDE DEF j
    <3>3. back[j] = o[i]
      BY <3>1, <3>2
    <3>4. Len(back) - (15 - i) = j
      BY <1>2 DEF j
    <3> QED
      BY <2>2, <3>3, <3>4, Zenon
  <2>3. CASE ~(Len(back) < 16 /\ i < Len(front)) /\ ~(i >= 16 - Len(back))
    <3> DEFINE k == i \div 2
    <3>1. k \in a..(7 - b) /\ k \in 0..7 /\ (i = 2 * k \/ i = 2 * k + 1)
      BY <1>1, <1>2, <2>0, <2>3
    <3> HIDE DEF k
    <3>2. Section(o, k) = 0
      BY <3>1
    <3>3. o[2 * k] = 0 /\ o[2 * k + 1] = 0
      BY <3>1, <3>2, SectionOf
    <3>4. o[i] = 0
      BY <3>1, <3>3
    <3> QED
      BY <2>3, <3>4
  <2> QED
    BY <2>1, <2>2, <2>3
<1>6. o = [i \in Index |-> o[i]]
  BY DEF Octets
<1> QED
  BY <1>3, <1>4, <1>5, <1>6

\* An address written in sections, compact or not, is read again.
LEMMA V6Again ==
    ASSUME NEW o \in Octets, NEW c \in BOOLEAN, NEW t,
           t.gap = V6Text(o, c).gap, t.tail = V6Text(o, c).tail,
           t.front = V6Text(o, c).front, t.back = V6Text(o, c).back
    PROVE  ~V6Bad(t) /\ V6Octets(t) = o /\ Len(t.front) <= 8
<1> DEFINE r == ZeroRun(o)
           r1 == r[1]
           r2 == r[2]
           b == 8 - r1 - r2
           gap == c /\ r2 > 0
<1>1. r1 \in 0..8 /\ r2 \in 0..8 /\ r1 + r2 <= 8 /\ \A k \in r1..(r1 + r2 - 1) : Section(o, k) = 0
  BY ZeroRunOf
<1>2. /\ t.tail = <<>> /\ t.gap = gap
      /\ t.front = IF gap THEN [k \in 1..r1 |-> Section(o, k - 1)] ELSE <<>>
      /\ t.back = IF gap THEN [k \in 1..b |-> Section(o, r1 + r2 + k - 1)] ELSE [k \in 1..8 |-> Section(o, k - 1)]
  BY DEF V6Text
<1> HIDE DEF r1, r2, gap
<1>3. b \in Nat /\ r1 \in Nat /\ r1 + r2 \in Nat /\ 8 - b = r1 + r2 /\ (r1 + r2) + b <= 8 /\ r1 + b <= 8 /\ 0 + r1 <= 8
  <2>1. \A x, y \in 0..8 : LET z == 8 - x - y
                          IN  x + y <= 8 => /\ z \in Nat /\ x \in Nat /\ x + y \in Nat /\ 8 - z = x + y
                                            /\ (x + y) + z <= 8 /\ x + z <= 8 /\ 0 + x <= 8
    OBVIOUS
  <2> QED
    BY <1>1, <2>1, Zenon
<1> HIDE DEF b
<1>4. \A m \in Nat : [k \in 1..m |-> Section(o, k - 1)] = [k \in 1..m |-> Section(o, 0 + k - 1)]
  <2> SUFFICES ASSUME NEW m \in Nat
               PROVE  [k \in 1..m |-> Section(o, k - 1)] = [k \in 1..m |-> Section(o, 0 + k - 1)]
    OBVIOUS
  <2>1. \A k \in 1..m : k - 1 = 0 + k - 1
    OBVIOUS
  <2> QED
    BY <2>1, Zenon
<1>5. CASE gap
  <2>1. SectionsFrom(o, 0, r1, t.front)
    <3>1. SectionsFrom(o, 0, r1, [k \in 1..r1 |-> Section(o, 0 + k - 1)])
      BY <1>3, SectionsWritten
    <3>2. t.front = [k \in 1..r1 |-> Section(o, 0 + k - 1)]
      BY <1>2, <1>3, <1>4, <1>5
    <3> QED
      BY <3>1, <3>2
  <2>2. SectionsFrom(o, 8 - b, b, t.back)
    <3> DEFINE s == r1 + r2
    <3>1. SectionsFrom(o, s, b, [k \in 1..b |-> Section(o, s + k - 1)])
      <4>1. s \in Nat /\ s + b <= 8
        BY <1>3
      <4> HIDE DEF s
      <4> QED
        BY <1>3, <4>1, SectionsWritten
    <3>2. t.back = [k \in 1..b |-> Section(o, s + k - 1)]
      BY <1>2, <1>5, Zenon
    <3>3. 8 - b = s
      BY <1>3
    <3> HIDE DEF s
    <3> QED
      BY <3>1, <3>2, <3>3
  <2>3. \A k \in r1..(7 - b) : Section(o, k) = 0
    <3>1. \A k \in r1..(7 - b) : k \in r1..(r1 + r2 - 1)
      BY <1>1, <1>3
    <3> QED
      BY <1>1, <3>1
  <2>4. t.gap /\ t.tail = <<>>
    BY <1>2, <1>5
  <2>5. ~V6Bad(t) /\ V6Octets(t) = o
    BY <1>3, <2>1, <2>2, <2>3, <2>4, V6Read
  <2>6. Len(t.front) = r1
    BY <2>1 DEF SectionsFrom
  <2> QED
    BY <1>1, <2>5, <2>6
<1>6. CASE ~gap
  <2>1. SectionsFrom(o, 0, 0, t.front)
    <3>1. t.front = <<>>
      BY <1>2, <1>6
    <3> QED
      BY <3>1 DEF SectionsFrom
  <2>2. SectionsFrom(o, 8 - 8, 8, t.back)
    <3>1. SectionsFrom(o, 0, 8, [k \in 1..8 |-> Section(o, 0 + k - 1)])
      <4>1. 0 \in Nat /\ 8 \in Nat /\ 0 + 8 <= 8
        OBVIOUS
      <4> QED
        BY <4>1, SectionsWritten, Zenon
    <3>2. t.back = [k \in 1..8 |-> Section(o, 0 + k - 1)]
      BY <1>2, <1>4, <1>6
    <3>3. 8 - 8 = 0
      OBVIOUS
    <3> QED
      BY <3>1, <3>2, <3>3, Zenon
  <2>3. \A k \in 0..(7 - 8) : Section(o, k) = 0
    OBVIOUS
  <2>4. t.tail = <<>>
    BY <1>2
  <2>5. 0 \in Nat /\ 8 \in Nat /\ 0 + 8 <= 8
    OBVIOUS
  <2>6. ~V6Bad(t) /\ V6Octets(t) = o
    BY <2>1, <2>2, <2>3, <2>4, <2>5, V6Read, Zenon
  <2>7. Len(t.front) = 0
    BY <2>1 DEF SectionsFrom
  <2> QED
    BY <2>6, <2>7
<1> QED
  BY <1>5, <1>6

\* t writes the octets o in the form p.
Shows(t, p, o, c) ==
    /\ t.form = p
    /\ p = "v4" => t.sect = V4Numbers(o)
    /\ p = "v6" => /\ t.gap = V6Text(o, c).gap /\ t.tail = V6Text(o, c).tail
                   /\ t.front = V6Text(o, c).front /\ t.back = V6Text(o, c).back

LEMMA ShowsRead ==
    ASSUME NEW p \in {"v4", "v6"}, NEW o \in Octets, NEW c \in BOOLEAN, NEW t, Shows(t, p, o, c)
    PROVE  /\ t.form = p /\ ~AddrBad(t) /\ Within(t)
           /\ AddrOctets(t) = IF p = "v4" THEN Mapped(o) ELSE o
<1>1. CASE p = "v4"
  <2>1. t.form = "v4" /\ t.sect = V4Numbers(o)
    BY <1>1 DEF Shows
  <2>2. ~V4Bad(t.sect) /\ V4Octets(t.sect) = Mapped(o)
    BY <2>1, V4Again
  <2> QED
    BY <1>1, <2>1, <2>2 DEF AddrBad, AddrOctets, Within
<1>2. CASE p = "v6"
  <2>1. t.form = "v6" /\ ~V6Bad(t) /\ V6Octets(t) = o /\ Len(t.front) <= 8
    BY <1>2, V6Again DEF Shows
  <2> QED
    BY <1>2, <2>1 DEF AddrBad, AddrOctets, Within
<1> QED
  BY <1>1, <1>2

\* Texts of a block's own form show its address.
LEMMA TextShows ==
    ASSUME NEW b, b.proto \in {"v4", "v6"}, NEW f,
           "USEV6" \notin f, "FORCEV4" \notin f, "FORCEV6" \notin f, "REVERSE" \notin f
    PROVE  /\ Shows(cidr_to_str(b, f), b.proto, b.addr, "NOCOMPACT" \notin f)
           /\ cidr_to_str(b, f).pf = PfText(b, b.proto, f)
<1> DEFINE c == "NOCOMPACT" \notin f
           x == V6Text(b.addr, c)
           y == [form |-> "v4", sect |-> V4Numbers(b.addr)]
           t == cidr_to_str(b, f)
<1>1. CASE b.proto = "v4"
  <2>1. t = [k \in DOMAIN y \cup {"pf"} |-> IF k = "pf" THEN PfText(b, "v4", f) ELSE y[k]]
    BY <1>1 DEF cidr_to_str
  <2>2. DOMAIN y = {"form", "sect"} /\ y.form = "v4" /\ y.sect = V4Numbers(b.addr)
    OBVIOUS
  <2> HIDE DEF t, y
  <2>3. t.form = "v4" /\ t.sect = V4Numbers(b.addr) /\ t.pf = PfText(b, "v4", f)
    BY <2>1, <2>2
  <2> QED
    BY <1>1, <2>3 DEF Shows, t
<1>2. CASE b.proto = "v6"
  <2>1. t = [k \in DOMAIN x \cup {"pf"} |-> IF k = "pf" THEN PfText(b, "v6", f) ELSE x[k]]
    BY <1>2 DEF cidr_to_str
  <2>2. DOMAIN x = {"form", "gap", "tail", "front", "back"} /\ x.form = "v6"
    BY DEF V6Text
  <2> HIDE DEF t, x
  <2>3. /\ t.form = "v6" /\ t.gap = x.gap /\ t.tail = x.tail /\ t.front = x.front /\ t.back = x.back
        /\ t.pf = PfText(b, "v6", f)
    BY <2>1, <2>2
  <2> QED
    BY <1>2, <2>3 DEF Shows, t, x
<1> QED
  BY <1>1, <1>2

\* A mask is written as an address, too.
LEMMA PrefixMask ==
    ASSUME NEW b, NEW n, IsBlock(b, n), NEW t, t.form = b.proto, NEW f, "WILDCARD" \notin f, "NETMASK" \in f, "ONLYADDR" \notin f,
           t.pf = PfText(b, b.proto, f)
    PROVE  PfValue(t) = n - Start(b.proto)
<1> DEFINE p == b.proto
           c == "NOCOMPACT" \notin f
           m == MaskOf(n)
           x == IF p = "v4" THEN [form |-> "v4", sect |-> V4Numbers(m)] ELSE V6Text(m, c)
<1>1. p \in {"v4", "v6"} /\ b.mask = m /\ n \in Lens /\ n >= Start(p)
  BY BlockFacts
<1>2. m \in Octets
  BY <1>1, MaskBits
<1>3. Shown(b, f) = m
  <2>1. Shown(b, f) = [i \in Index |-> m[i]]
    BY <1>1 DEF Shown
  <2> HIDE DEF m
  <2> QED
    BY <1>2, <2>1 DEF Octets
<1>4. t.pf = MaskPf(x)
  <2> HIDE DEF m
  <2> QED
    BY <1>3 DEF PfText
<1>5. t.pf.kind = "mask" /\ t.pf.of = x
  <2> HIDE DEF x
  <2> QED
    BY <1>4 DEF MaskPf
<1>6. Shows(x, p, m, c)
  <2>1. CASE p = "v4"
    <3> HIDE DEF m
    <3> QED
      BY <2>1 DEF Shows
  <2>2. CASE p = "v6"
    <3> HIDE DEF m
    <3>1. x = V6Text(m, c) /\ V6Text(m, c).form = "v6"
      BY <2>2 DEF V6Text
    <3> HIDE DEF x
    <3> QED
      BY <2>2, <3>1 DEF Shows
  <2> QED
    BY <1>1, <2>1, <2>2
<1>7. x.form = p /\ ~AddrBad(x) /\ AddrOctets(x) = IF p = "v4" THEN Mapped(m) ELSE m
  <2>1. c \in BOOLEAN
    OBVIOUS
  <2> HIDE DEF x, m, c, p
  <2> QED
    BY <1>1, <1>2, <1>6, <2>1, ShowsRead
<1> DEFINE q == [i \in Index |-> IF p = "v4" /\ i < 12 THEN 0 ELSE AddrOctets(x)[i]]
<1>8. PfValue(t) = pflen(p, q)
  <2>1. PfValue(t) = IF AddrBad(x) THEN -1 ELSE pflen(x.form, [i \in Index |-> IF t.form = "v4" /\ i < 12 THEN 0 ELSE AddrOctets(x)[i]])
    <3> HIDE DEF x
    <3> QED
      BY <1>5, Zenon DEF PfValue
  <2> HIDE DEF x
  <2> QED
    BY <1>7, <2>1
<1>9. \A i \in FirstOctet(p)..15 : q[i] = m[i]
  <2> HIDE DEF x, m
  <2>1. CASE p = "v4"
    <3>1. FirstOctet(p) = 12
      BY <2>1 DEF FirstOctet
    <3>2. \A i \in 12..15 : i \in Index /\ ~(i < 12) /\ ~(i <= 9) /\ ~(i <= 11)
      BY DEF Index
    <3>3. \A i \in 12..15 : Mapped(m)[i] = m[i]
      BY <3>2 DEF Mapped
    <3> QED
      BY <1>7, <2>1, <3>1, <3>2, <3>3
  <2>2. CASE p = "v6"
    <3>1. FirstOctet(p) = 0 /\ p # "v4"
      BY <2>2 DEF FirstOctet
    <3>2. \A i \in 0..15 : i \in Index
      BY DEF Index
    <3> QED
      BY <1>7, <2>2, <3>1, <3>2
  <2> QED
    BY <1>1, <2>1, <2>2
<1> HIDE DEF q, m, p
<1>10. pflen(p, q) = pflen(p, m)
  BY <1>1, <1>9, SameLength
<1>11. pflen(p, m) = n - Start(p)
  BY <1>1, MaskLength DEF m
<1> QED
  BY <1>8, <1>10, <1>11 DEF p

\* A text that shows a block's address, with the length k, is the block of that length.
LEMMA ReadAs ==
    ASSUME NEW b, NEW n, IsBlock(b, n), NEW t, NEW c \in BOOLEAN, Shows(t, b.proto, b.addr, c),
           NEW k \in 0..Width(b.proto), PfValue(t) = k
    PROVE  cidr_from_str(t) = Made(b.proto, b.addr, Start(b.proto) + k)
<1> DEFINE p == b.proto
           a == b.addr
<1>1. p \in {"v4", "v6"} /\ a \in Octets /\ (p = "v4" => a = Mapped(a))
  BY DEF IsBlock
<1>2. t.form = p /\ ~AddrBad(t) /\ AddrOctets(t) = a /\ Within(t)
  <2>1. t.form = p /\ ~AddrBad(t) /\ Within(t) /\ AddrOctets(t) = IF p = "v4" THEN Mapped(a) ELSE a
    BY <1>1, ShowsRead
  <2> QED
    BY <1>1, <2>1
<1>3. Width(p) \in Nat
  BY <1>1, Starts
<1>4. t.form # "ptr4" /\ t.form # "ptr6"
  BY <1>1, <1>2
<1>5. cidr_from_str(t) = IF AddrBad(t) \/ k > Width(t.form) \/ (t.pf.kind = "mask" /\ k = -1) THEN NULL
                         ELSE Made(t.form, AddrOctets(t), Start(t.form) + (IF k > 0 THEN k ELSE 0))
  <2> DEFINE m == Start(t.form) + (IF k > 0 THEN k ELSE 0)
  <2>1. Overrun(t, MaskOf(m)) = MaskOf(m)
    <3> HIDE DEF m
    <3> QED
      BY <1>2, NoOverrun
  <2> QED
    BY <1>4, <2>1 DEF cidr_from_str, Made, Start
<1> HIDE DEF p, a
<1>6. ~(k > Width(p)) /\ k # -1 /\ (IF k > 0 THEN k ELSE 0) = k
  BY <1>3 DEF p
<1>7. cidr_from_str(t) = Made(p, a, Start(p) + (IF k > 0 THEN k ELSE 0))
  BY <1>2, <1>5, <1>6
<1> QED
  BY <1>6, <1>7 DEF p, a

\* The prefix length, written and read again.
LEMMA PrefixAgain ==
    ASSUME NEW b, NEW n, IsBlock(b, n), NEW t, t.form = b.proto, NEW f,
           "WILDCARD" \notin f, "USEV6" \notin f, t.pf = PfText(b, b.proto, f)
    PROVE  PfValue(t) = IF "ONLYADDR" \in f THEN Width(b.proto) ELSE n - Start(b.proto)
<1> DEFINE p == b.proto
           k == n - Start(p)
<1>1. p \in {"v4", "v6"} /\ cidr_get_pflen(b) = k /\ n \in Nat /\ Start(p) \in Nat
  BY BlockFacts
<1>2. CASE "ONLYADDR" \in f
  <2>1. t.pf = NoPf
    BY <1>2 DEF PfText
  <2>2. t.pf.kind = "no"
    BY <2>1 DEF NoPf
  <2>3. PfValue(t) = Width(t.form)
    BY <2>2 DEF PfValue
  <2> QED
    BY <1>2, <2>3
<1>3. CASE "ONLYADDR" \notin f /\ "NETMASK" \in f
  <2>1. PfValue(t) = n - Start(b.proto)
    BY <1>3, PrefixMask
  <2> QED
    BY <1>3, <2>1
<1>4. CASE "ONLYADDR" \notin f /\ "NETMASK" \notin f
  <2> DEFINE z == cidr_get_pflen(b)
  <2>1. z \in Int /\ z + 0 + 0 = z
    BY <1>1
  <2>2. t.pf = LenPf(z + 0 + 0)
    BY <1>1, <1>4, Zenon DEF PfText
  <2> HIDE DEF z
  <2>3. t.pf.kind = "len" /\ t.pf.n = z
    BY <2>1, <2>2 DEF LenPf
  <2>4. PfValue(t) = IntOf(t.pf.n)
    BY <2>3 DEF PfValue
  <2>5. z \in 0..(16 * OctBits)
    BY <1>1, BlockFacts, OctetFacts DEF z
  <2>6. IntOf(z) = z
    BY <2>5, IntRead
  <2> QED
    BY <1>1, <1>4, <2>3, <2>4, <2>6 DEF z
<1> QED
  BY <1>2, <1>3, <1>4

\* Written in its own form and read again, a block is the same; with the
\* address alone it is that host.
LEMMA TextAgain ==
    ASSUME NEW b, NEW n, IsBlock(b, n)
    PROVE  /\ \A f \in SameForms : cidr_from_str(cidr_to_str(b, f)) = b
           /\ cidr_from_str(cidr_to_str(b, {"ONLYADDR"})) = Made(b.proto, b.addr, 16 * OctBits)
<1> DEFINE p == b.proto
           s == Start(p)
<1>1. /\ b = Made(p, b.addr, n) /\ p \in {"v4", "v6"} /\ n \in Nat /\ n <= 16 * OctBits /\ n >= s /\ s \in Nat
      /\ s + Width(p) = 16 * OctBits /\ OctBits \in Nat /\ Width(p) \in Nat
  BY BlockFacts, Starts, OctetFacts
<1>2. ASSUME NEW f, "WILDCARD" \notin f, "USEV6" \notin f, "FORCEV4" \notin f, "FORCEV6" \notin f, "REVERSE" \notin f,
             NEW k, k = IF "ONLYADDR" \in f THEN Width(p) ELSE n - s
      PROVE  cidr_from_str(cidr_to_str(b, f)) = Made(p, b.addr, s + k)
  <2> DEFINE t == cidr_to_str(b, f)
             c == "NOCOMPACT" \notin f
  <2>1. Shows(t, p, b.addr, c) /\ t.pf = PfText(b, p, f)
    BY <1>1, <1>2, TextShows
  <2>2. t.form = p
    BY <2>1 DEF Shows
  <2> HIDE DEF t
  <2>3. PfValue(t) = k
    BY <1>2, <2>1, <2>2, PrefixAgain
  <2>4. k \in 0..Width(p)
    <3> HIDE DEF p, s
    <3> QED
      BY <1>1, <1>2
  <2>5. c \in BOOLEAN
    OBVIOUS
  <2> QED
    BY <2>1, <2>3, <2>4, <2>5, ReadAs DEF t
<1>3. ASSUME NEW f \in SameForms PROVE cidr_from_str(cidr_to_str(b, f)) = b
  <2>1. /\ "WILDCARD" \notin f /\ "USEV6" \notin f /\ "FORCEV4" \notin f /\ "FORCEV6" \notin f /\ "REVERSE" \notin f
        /\ "ONLYADDR" \notin f
    BY DEF SameForms
  <2>2. cidr_from_str(cidr_to_str(b, f)) = Made(p, b.addr, s + (n - s))
    BY <1>2, <2>1
  <2>3. s + (n - s) = n
    <3> HIDE DEF s
    <3> QED
      BY <1>1
  <2> QED
    BY <1>1, <2>2, <2>3
<1>4. cidr_from_str(cidr_to_str(b, {"ONLYADDR"})) = Made(p, b.addr, s + Width(p))
  <2> DEFINE f == {"ONLYADDR"}
  <2>1. /\ "WILDCARD" \notin f /\ "USEV6" \notin f /\ "FORCEV4" \notin f /\ "FORCEV6" \notin f /\ "REVERSE" \notin f
        /\ "ONLYADDR" \in f
    OBVIOUS
  <2> HIDE DEF f
  <2>2. cidr_from_str(cidr_to_str(b, f)) = Made(p, b.addr, s + Width(p))
    BY <1>2, <2>1
  <2> QED
    BY <2>2 DEF f
<1> QED
  BY <1>1, <1>3, <1>4

\* Reverse names are read back label by label.
LEMMA Reverse4 ==
    ASSUME NEW b, NEW n, IsBlock(b, n), b.proto = "v4"
    PROVE  LET x == cidr_from_str(cidr_to_str(b, {"REVERSE"}))
           IN  /\ x.proto = "v4" /\ x.mask = MaskOf(16 * OctBits)
               /\ \A i \in 12..15 : x.addr[i] = b.addr[i]
<1> DEFINE lab == [i \in 1..4 |-> b.addr[16 - i]]
           f == {"REVERSE"}
           a == [i \in Index |-> IF i \in 12..(11 + 4) THEN lab[4 - (i - 12)] ELSE 0]
<1>1. "REVERSE" \in f /\ "FORCEV6" \notin f
  OBVIOUS
<1> HIDE DEF f
<1>2. cidr_to_str(b, f) = [form |-> "ptr4", lab |-> lab]
  BY <1>1 DEF cidr_to_str, Reversed
<1>3. cidr_from_str(cidr_to_str(b, f)) = FromPtr4(lab)
  <2> HIDE DEF lab
  <2> QED
    BY <1>2 DEF cidr_from_str
<1>4. \A i \in 1..4 : 16 - i \in Index
  BY DEF Index
<1>5. b.addr \in Octets
  BY BlockFacts
<1>6. \A i \in 1..4 : b.addr[16 - i] \in Octet
  BY <1>4, <1>5, OctetOf
<1>7. \A x \in Octet : x \in Nat /\ ~(x > Full)
  BY OctetFacts DEF Octet
<1>8. lab \in [1..4 -> Nat] /\ \A i \in 1..4 : lab[i] = b.addr[16 - i] /\ ~(lab[i] > Full)
  BY <1>6, <1>7
<1> HIDE DEF lab
<1>9. Len(lab) = 4
  BY <1>8, Sequence
<1>10. FromPtr4(lab) = [proto |-> "v4", mask |-> MaskOf((12 + 4) * OctBits), addr |-> a]
  <2>1. ~(Len(lab) > 4 \/ \E i \in 1..Len(lab) : lab[i] > Full)
    BY <1>8, <1>9
  <2> QED
    BY <1>9, <2>1 DEF FromPtr4
<1>11. ASSUME NEW i \in 12..15 PROVE a[i] = b.addr[i]
  <2>1. i \in Index /\ i \in 12..(11 + 4) /\ 4 - (i - 12) \in 1..4 /\ 16 - (4 - (i - 12)) = i
    BY DEF Index
  <2>2. a[i] = lab[4 - (i - 12)]
    BY <2>1
  <2> QED
    BY <1>8, <2>1, <2>2
<1>12. (12 + 4) * OctBits = 16 * OctBits
  BY OctetFacts
<1> HIDE DEF a
<1>13. LET x == cidr_from_str(cidr_to_str(b, f))
       IN  x.proto = "v4" /\ x.mask = MaskOf(16 * OctBits) /\ x.addr = a
  BY <1>3, <1>10, <1>12
<1> QED
  BY <1>11, <1>13 DEF f

LEMMA Reverse6 ==
    ASSUME NEW b, NEW n, IsBlock(b, n), b.proto = "v6"
    PROVE  cidr_from_str(cidr_to_str(b, {"REVERSE"})) = Made("v6", b.addr, 16 * OctBits)
<1> DEFINE lab == [i \in 1..32 |-> IF i % 2 = 1 THEN b.addr[15 - ((i - 1) \div 2)] % Half
                                   ELSE b.addr[15 - ((i - 1) \div 2)] \div Half]
           f == {"REVERSE"}
           digit(k) == IF k < 32 THEN lab[32 - k] ELSE 0
           a == [i \in Index |-> digit(2 * i) * Half + digit(2 * i + 1)]
<1>1. "REVERSE" \in f /\ "FORCEV4" \notin f
  OBVIOUS
<1> HIDE DEF f
<1>2. cidr_to_str(b, f) = [form |-> "ptr6", lab |-> lab]
  BY <1>1 DEF cidr_to_str, Reversed
<1>3. cidr_from_str(cidr_to_str(b, f)) = FromPtr6(lab)
  <2> HIDE DEF lab
  <2> QED
    BY <1>2 DEF cidr_from_str
<1>4. /\ \A i \in 1..32 : i % 2 = 1 => lab[i] = b.addr[15 - ((i - 1) \div 2)] % Half
      /\ \A i \in 1..32 : ~(i % 2 = 1) => lab[i] = b.addr[15 - ((i - 1) \div 2)] \div Half
  OBVIOUS
<1>5. Len(lab) = 32
  OBVIOUS
<1> HIDE DEF lab
<1>6. FromPtr6(lab) = Made("v6", a, (32 * OctBits) \div 2)
  BY <1>5 DEF FromPtr6, Made
<1>7. (32 * OctBits) \div 2 = 16 * OctBits
  BY OctetFacts
<1>8. ASSUME NEW i \in Index PROVE digit(2 * i) * Half + digit(2 * i + 1) = b.addr[i]
  <2>1. i \in 0..15
    BY DEF Index
  <2>2. 2 * i < 32 /\ 2 * i + 1 < 32
    BY <2>1
  <2>3. lab[32 - 2 * i] = b.addr[i] \div Half
    <3> DEFINE j == 32 - 2 * i
    <3>1. j \in 1..32 /\ ~(j % 2 = 1) /\ 15 - ((j - 1) \div 2) = i
      BY <2>1
    <3> HIDE DEF j
    <3>2. lab[j] = b.addr[i] \div Half
      BY <1>4, <3>1
    <3> QED
      BY <3>2 DEF j
  <2>4. lab[32 - (2 * i + 1)] = b.addr[i] % Half
    <3> DEFINE j == 32 - (2 * i + 1)
    <3>1. j \in 1..32 /\ j % 2 = 1 /\ 15 - ((j - 1) \div 2) = i
      BY <2>1
    <3> HIDE DEF j
    <3>2. lab[j] = b.addr[i] % Half
      BY <1>4, <3>1
    <3> QED
      BY <3>2 DEF j
  <2>5. digit(2 * i) = b.addr[i] \div Half /\ digit(2 * i + 1) = b.addr[i] % Half
    BY <2>2, <2>3, <2>4, Zenon
  <2> HIDE DEF digit
  <2> DEFINE x == b.addr[i]
  <2>6. x \in Nat /\ Half \in Nat /\ Half > 0
    <3>1. x \in Octet
      BY BlockFacts, OctetOf
    <3>2. \A y \in Octet : y \in Nat
      BY OctetFacts DEF Octet
    <3> QED
      BY <3>1, <3>2, Halves
  <2> HIDE DEF x
  <2>7. (x \div Half) * Half + (x % Half) = x
    BY <2>6, Parts
  <2> QED
    BY <2>5, <2>7 DEF x
<1>9. a = b.addr
  <2>1. b.addr \in Octets
    BY BlockFacts
  <2>2. a = [i \in Index |-> b.addr[i]]
    <3> HIDE DEF digit
    <3> QED
      BY <1>8
  <2> HIDE DEF a
  <2> QED
    BY <2>1, <2>2 DEF Octets
<1> QED
  BY <1>3, <1>6, <1>7, <1>9 DEF f

\* The mark of a mapped address is two full octets.
LEMMA MarkOf ==
    LET mark == Base * Base - 1
    IN  mark \in Nat /\ ~(mark >= Base * Base) /\ mark \div Base = Full /\ mark % Base = Full
<1> DEFINE mark == Base * Base - 1
<1>1. Base \in Nat /\ Base > 0 /\ Full \in Nat /\ Base = Full + 1
  BY OctetFacts
<1>2. Base * Base = Full * Base + Base /\ Full * Base \in Nat
  BY <1>1
<1>3. mark = Full * Base + Full /\ mark \in Nat /\ ~(mark >= Base * Base)
  BY <1>1, <1>2
<1> HIDE DEF mark
<1>4. Full \in 0..(Base - 1)
  BY <1>1
<1>5. mark \div Base = Full /\ mark % Base = Full
  BY <1>1, <1>3, <1>4, Quotient
<1> QED
  BY <1>3, <1>5 DEF mark

\* A v4 address in v6 clothes, with the zeros before its mark or without them.
LEMMA ClothedRead ==
    ASSUME NEW o \in Octets, o = Mapped(o), NEW t, t.front = <<>>, t.tail = V4Numbers(o),
           \/ t.gap = TRUE /\ t.back = <<Base * Base - 1>>
           \/ t.gap = FALSE /\ t.back = <<0, 0, 0, 0, 0, Base * Base - 1>>
    PROVE  ~V6Bad(t) /\ V6Octets(t) = o
<1> DEFINE mark == Base * Base - 1
           back == SectOctets(t.back, t.tail)
           m == Len(t.back)
           v(i) == IF i > 2 * m THEN t.tail[i - 2 * m]
                   ELSE IF i % 2 = 1 THEN t.back[(i + 1) \div 2] \div Base ELSE t.back[i \div 2] % Base
<1>1. mark \in Nat /\ ~(mark >= Base * Base) /\ mark \div Base = Full /\ mark % Base = Full
  BY MarkOf
<1>2. /\ t.tail \in Seq(Nat) /\ Len(t.tail) = 4
      /\ \A i \in 1..4 : t.tail[i] = o[11 + i] /\ ~(t.tail[i] > Full)
  BY V4Again
<1>3. Base \in Nat /\ Base > 0 /\ Base * Base \in Nat /\ Base * Base > 0
  BY OctetFacts
<1>4. 0 \div Base = 0 /\ 0 % Base = 0 /\ ~(0 >= Base * Base)
  BY <1>3
<1>5. \/ t.gap = TRUE /\ t.back = <<mark>>
      \/ t.gap = FALSE /\ t.back = <<0, 0, 0, 0, 0, mark>>
  OBVIOUS
<1> HIDE DEF mark
<1>6. /\ t.back \in Seq(Nat) /\ m \in {1, 6} /\ t.back[m] = mark /\ (t.gap = FALSE => m = 6)
      /\ \A k \in 1..(m - 1) : t.back[k] = 0
  <2>1. /\ <<mark>> \in Seq(Nat) /\ Len(<<mark>>) = 1 /\ <<mark>>[1] = mark
        /\ \A k \in 1..(1 - 1) : <<mark>>[k] = 0
    BY <1>1
  <2>2. /\ <<0, 0, 0, 0, 0, mark>> \in Seq(Nat) /\ Len(<<0, 0, 0, 0, 0, mark>>) = 6 /\ <<0, 0, 0, 0, 0, mark>>[6] = mark
        /\ \A k \in 1..(6 - 1) : <<0, 0, 0, 0, 0, mark>>[k] = 0
    BY <1>1
  <2>0. 1 \in {1, 6} /\ 6 \in {1, 6}
    OBVIOUS
  <2>3. CASE t.gap = TRUE /\ t.back = <<mark>>
    <3>1. t.gap # FALSE
      BY <2>3, Zenon
    <3>2. t.back \in Seq(Nat) /\ m = 1 /\ t.back[1] = mark /\ \A k \in 1..(1 - 1) : t.back[k] = 0
      BY <2>1, <2>3, Zenon
    <3> HIDE DEF m
    <3> QED
      BY <2>0, <3>1, <3>2, Zenon
  <2>4. CASE t.gap = FALSE /\ t.back = <<0, 0, 0, 0, 0, mark>>
    <3>2. t.back \in Seq(Nat) /\ m = 6 /\ t.back[6] = mark /\ \A k \in 1..(6 - 1) : t.back[k] = 0
      BY <2>2, <2>4, Zenon
    <3> HIDE DEF m
    <3> QED
      BY <2>0, <3>2, Zenon
  <2> QED
    BY <1>5, <2>3, <2>4
<1>6a. m = 1 \/ m = 6
  BY <1>6
<1>7. Len(back) = 2 * m + 4 /\ \A i \in 1..(2 * m + 4) : back[i] = v(i)
  <2>1. Len(back) = 2 * m + Len(t.tail) /\ \A i \in 1..(2 * m + Len(t.tail)) : back[i] = v(i)
    BY <1>2, <1>6, Sections, Zenon
  <2> HIDE DEF back, m, v
  <2> QED
    BY <1>2, <2>1
<1>8. Len(t.front) = 0 /\ Len(SectOctets(t.front, <<>>)) = 0
  <2>1. <<>> \in Seq(Nat) /\ Len(<<>>) = 0 /\ t.front = <<>> /\ 2 * 0 = 0 /\ 0 \in Nat
    OBVIOUS
  <2>2. Len(SectOctets(<<>>, <<>>)) = 2 * 0
    BY <2>1, OnlySections
  <2> QED
    BY <2>1, <2>2
<1>9. t.gap \in BOOLEAN
  BY <1>5
<1>10. ~V6Bad(t)
  <2>1. \A i \in 1..m : ~(t.back[i] >= Base * Base)
    <3> SUFFICES ASSUME NEW i \in 1..m PROVE ~(t.back[i] >= Base * Base)
      OBVIOUS
    <3>1. i = m \/ i \in 1..(m - 1)
      BY <1>6
    <3> QED
      BY <1>1, <1>4, <1>6, <3>1
  <2>2. \A i \in 1..Len(t.tail) : ~(t.tail[i] > Full)
    BY <1>2
  <2>3. Len(t.tail) \in {0, 4}
    BY <1>2
  <2>4. ~t.gap => t.front = <<>> /\ ~(2 * m + Len(t.tail) < 16)
    <3>1. ~t.gap => m = 6
      BY <1>6, <1>9, Zenon
    <3>2. m = 6 => ~(2 * m + Len(t.tail) < 16)
      BY <1>2
    <3> QED
      BY <3>1, <3>2, Zenon
  <2>5. \A i \in 1..Len(t.front) : FALSE
    BY <1>8
  <2> QED
    BY <2>1, <2>2, <2>3, <2>4, <2>5, Zenon DEF V6Bad
<1>11. V6Octets(t) = [i \in Index |-> IF Len(back) < 16 /\ i < 0 THEN SectOctets(t.front, <<>>)[i + 1]
                                      ELSE IF i >= 16 - Len(back) THEN back[Len(back) - (15 - i)] ELSE 0]
  <2> HIDE DEF back
  <2> QED
    BY <1>8 DEF V6Octets, back
<1> HIDE DEF back, m, v
<1>12. \A i \in Index : o[i] = IF i <= 9 THEN 0 ELSE IF i <= 11 THEN Full ELSE o[i]
  BY DEF Mapped
<1>13. ASSUME NEW i \in Index
       PROVE  (IF i >= 16 - Len(back) THEN back[Len(back) - (15 - i)] ELSE 0) = o[i]
  <2>0. i \in 0..15
    BY DEF Index
  <2> DEFINE j == (2 * m + 4) - (15 - i)
  <2>1. i >= 16 - Len(back) <=> j >= 1
    BY <1>6, <1>7, <2>0
  <2>2. j \in Int /\ j <= 2 * m + 4 /\ i = (j + 11) - 2 * m /\ Len(back) - (15 - i) = j
    BY <1>6, <1>7, <2>0
  <2> HIDE DEF j
  <2>3. CASE ~(j >= 1)
    <3>1. i <= 9
      BY <1>6, <2>0, <2>2, <2>3
    <3> QED
      BY <1>12, <2>1, <2>3, <3>1
  <2>4. CASE j >= 1
    <3>1. j \in 1..(2 * m + 4)
      BY <1>6, <2>2, <2>4
    <3>2. back[j] = v(j)
      BY <1>7, <3>1
    <3>3. CASE j > 2 * m
      <4>1. j - 2 * m \in 1..4 /\ 11 + (j - 2 * m) = i
        <5>1. CASE m = 1
          BY <2>2, <3>3, <5>1
        <5>2. CASE m = 6
          BY <2>2, <3>3, <5>2
        <5> QED
          BY <1>6a, <5>1, <5>2
      <4>2. v(j) = t.tail[j - 2 * m]
        BY <3>3 DEF v
      <4>3. v(j) = o[i]
        BY <1>2, <4>1, <4>2
      <4> QED
        BY <2>1, <2>2, <2>4, <3>2, <4>3
    <3>4. CASE ~(j > 2 * m) /\ j >= 2 * m - 1
      <4>1. ~(i <= 9) /\ i <= 11
        BY <1>6a, <2>2, <3>1, <3>4
      <4>2. v(j) = Full
        <5>1. CASE j % 2 = 1
          <6>1. (j + 1) \div 2 = m
            BY <1>6a, <3>1, <3>4, <5>1
          <6> QED
            BY <1>1, <1>6, <3>4, <5>1, <6>1 DEF v
        <5>2. CASE ~(j % 2 = 1)
          <6>1. j \div 2 = m
            BY <1>6a, <3>1, <3>4, <5>2
          <6> QED
            BY <1>1, <1>6, <3>4, <5>2, <6>1 DEF v
        <5> QED
          BY <5>1, <5>2
      <4>3. o[i] = Full
        BY <1>12, <4>1
      <4> QED
        BY <2>1, <2>2, <2>4, <3>2, <4>2, <4>3
    <3>5. CASE ~(j > 2 * m) /\ ~(j >= 2 * m - 1)
      <4>1. i <= 9
        BY <1>6a, <2>2, <3>1, <3>5
      <4>2. v(j) = 0
        <5>1. CASE j % 2 = 1
          <6>1. (j + 1) \div 2 \in 1..(m - 1)
            BY <1>6a, <3>1, <3>5, <5>1
          <6> QED
            BY <1>4, <1>6, <3>5, <5>1, <6>1 DEF v
        <5>2. CASE ~(j % 2 = 1)
          <6>1. j \div 2 \in 1..(m - 1)
            BY <1>6a, <3>1, <3>5, <5>2
          <6> QED
            BY <1>4, <1>6, <3>5, <5>2, <6>1 DEF v
        <5> QED
          BY <5>1, <5>2
      <4>3. o[i] = 0
        BY <1>12, <4>1
      <4> QED
        BY <2>1, <2>2, <2>4, <3>2, <4>2, <4>3
    <3> QED
      BY <3>3, <3>4, <3>5
  <2> QED
    BY <2>3, <2>4
<1>14. \A i \in Index : ~(i < 0)
  BY DEF Index
<1>15. V6Octets(t) = [i \in Index |-> o[i]]
  BY <1>11, <1>13, <1>14
<1> QED
  BY <1>10, <1>15 DEF Octets

\* A v4 block in v6 clothes is the mapped block, as many bits longer.
LEMMA ClothedAgain ==
    ASSUME NEW b, NEW n, IsBlock(b, n), b.proto = "v4", NEW f \in {{"USEV6"}, {"USEV6", "NOCOMPACT"}}
    PROVE  cidr_from_str(cidr_to_str(b, f)) = Made("v6", b.addr, n)
<1> DEFINE x == V4AsV6(b.addr, f)
           t == cidr_to_str(b, f)
           z == cidr_get_pflen(b)
           g == 12 * OctBits
<1>1. /\ "USEV6" \in f /\ "USEV4COMPAT" \notin f /\ "FORCEV4" \notin f /\ "FORCEV6" \notin f /\ "REVERSE" \notin f
      /\ "ONLYADDR" \notin f /\ "NETMASK" \notin f
  OBVIOUS
<1>2. /\ b.addr \in Octets /\ b.addr = Mapped(b.addr) /\ z = n - g /\ n \in Nat /\ n >= g /\ g \in Nat
      /\ n <= 16 * OctBits /\ Width("v6") = 16 * OctBits /\ Start("v6") = 0 /\ OctBits \in Nat
  <2>1. /\ b.addr \in Octets /\ z = n - Start("v4") /\ n \in Nat /\ n >= Start("v4") /\ Start("v4") \in Nat
        /\ n <= 16 * OctBits
    BY BlockFacts
  <2>2. b.addr = Mapped(b.addr)
    BY DEF IsBlock
  <2>3. Start("v4") = g /\ Start("v6") = 0 /\ Width("v6") = 16 * OctBits
    BY Starts
  <2>4. OctBits \in Nat
    BY OctetFacts
  <2> QED
    BY <2>1, <2>2, <2>3, <2>4, Zenon
<1>3. /\ DOMAIN x = {"form", "gap", "front", "tail", "back"} /\ x.form = "v6"
      /\ x.front = <<>> /\ x.tail = V4Numbers(b.addr)
  BY DEF V4AsV6
<1>4. \/ x.gap = TRUE /\ x.back = <<Base * Base - 1>>
      \/ x.gap = FALSE /\ x.back = <<0, 0, 0, 0, 0, Base * Base - 1>>
  <2> DEFINE mark == Base * Base - 1
  <2>1. x.gap = ("NOCOMPACT" \notin f)
    BY DEF V4AsV6
  <2>2. x.back = IF "NOCOMPACT" \in f THEN <<0, 0, 0, 0, 0, mark>> ELSE IF mark = 0 THEN <<>> ELSE <<mark>>
    BY <1>1 DEF V4AsV6
  <2>3. mark # 0
    <3>1. Full \in Nat /\ Full > 0 /\ Base \in Nat /\ Base = Full + 1
      <4>1. /\ OctBits \in Nat /\ OctBits >= 2 /\ Base \in Nat /\ Full \in Nat /\ Base = Full + 1
            /\ \A m \in 0..OctBits : Base = Pow2[m] * Pow2[OctBits - m]
        BY OctetFacts
      <4>2. Pow2[0] = 1 /\ Pow2[0 + 1] = 2 * Pow2[0] /\ Pow2[OctBits - 1] \in Nat /\ Pow2[OctBits - 1] > 0
        BY <4>1, Powers2
      <4>3. 1 \in 0..OctBits /\ 0 + 1 = 1
        BY <4>1
      <4>4. Base = 2 * Pow2[OctBits - 1]
        BY <4>1, <4>2, <4>3
      <4> QED
        BY <4>1, <4>2, <4>4
    <3>2. Base * Base = Full * Base + Base /\ Full * Base \in Nat
      BY <3>1
    <3> QED
      BY <3>1, <3>2
  <2> HIDE DEF mark, x
  <2>4. CASE "NOCOMPACT" \in f
    BY <2>1, <2>2, <2>4, Zenon DEF mark
  <2>5. CASE "NOCOMPACT" \notin f
    BY <2>1, <2>2, <2>3, <2>5, Zenon DEF mark
  <2> QED
    BY <2>4, <2>5
<1>5. t = [k \in DOMAIN x \cup {"pf"} |-> IF k = "pf" THEN PfText(b, "v4", f) ELSE x[k]]
  BY <1>1 DEF cidr_to_str
<1>6. PfText(b, "v4", f) = LenPf(z + 0 + g)
  BY <1>1, Zenon DEF PfText
<1> HIDE DEF t, x, z, g
<1>7. /\ t.form = "v6" /\ t.gap = x.gap /\ t.front = x.front /\ t.tail = x.tail /\ t.back = x.back
      /\ t.pf = LenPf(z + 0 + g)
  BY <1>3, <1>5, <1>6
<1>8. ~V6Bad(t) /\ V6Octets(t) = b.addr
  <2>1. \/ t.gap = TRUE /\ t.back = <<Base * Base - 1>>
        \/ t.gap = FALSE /\ t.back = <<0, 0, 0, 0, 0, Base * Base - 1>>
    BY <1>4, <1>7, Zenon
  <2>2. t.front = <<>> /\ t.tail = V4Numbers(b.addr)
    BY <1>3, <1>7, Zenon
  <2> QED
    BY <1>2, <2>1, <2>2, ClothedRead, Zenon
<1>9. PfValue(t) = n
  <2>1. z + 0 + g = n
    BY <1>2
  <2>2. t.pf.kind = "len" /\ t.pf.n = n
    BY <1>7, <2>1 DEF LenPf
  <2>3. n \in 0..(16 * OctBits)
    BY <1>2
  <2>4. IntOf(n) = n
    BY <2>3, IntRead
  <2> QED
    BY <2>2, <2>4 DEF PfValue
<1>10. cidr_from_str(t) = IF AddrBad(t) \/ n > Width("v6") \/ (t.pf.kind = "mask" /\ n = -1) THEN NULL
                          ELSE Made("v6", AddrOctets(t), Start("v6") + (IF n > 0 THEN n ELSE 0))
  <2> DEFINE m == Start("v6") + (IF n > 0 THEN n ELSE 0)
  <2>1. Overrun(t, MaskOf(m)) = MaskOf(m)
    <3> HIDE DEF m
    <3>1. Len(t.front) = 0 /\ Within(t)
      BY <1>3, <1>7 DEF Within
    <3> QED
      BY <3>1, NoOverrun
  <2> QED
    BY <1>7, <1>9, <2>1 DEF cidr_from_str, Made, Start
<1>11. ~AddrBad(t) /\ AddrOctets(t) = b.addr
  BY <1>7, <1>8 DEF AddrBad, AddrOctets
<1>12. ~(n > Width("v6")) /\ n # -1 /\ Start("v6") + (IF n > 0 THEN n ELSE 0) = n
  BY <1>2
<1> QED
  BY <1>10, <1>11, <1>12 DEF t

-----------------------------------------------------------------------------
(* The blocks of the specification.                                        *)

\* Every block reached is well formed: a whole mask, a mapped v4 address.
Shape == \E n : IsBlock(blk, n)

LEMMA ShapeInit == Init => Shape
<1> SUFFICES ASSUME Init PROVE Shape
  OBVIOUS
<1>1. PICK t \in Texts : cidr_from_str(t) # NULL /\ blk = cidr_from_str(t)
  BY DEF Init
<1>2. BlockText(t)
  BY BlocksAssumption
<1>3. \E n : IsBlock(cidr_from_str(t), n)
  BY <1>1, <1>2, Parsed
<1> QED
  BY <1>1, <1>3 DEF Shape

LEMMA ShapeNext == Shape /\ [Next]_blk => Shape'
<1> SUFFICES ASSUME Shape, [Next]_blk PROVE \E k : IsBlock(blk', k)
  BY DEF Shape
<1>1. PICK n : IsBlock(blk, n)
  BY DEF Shape
<1>2. CASE Network
  BY <1>1, <1>2, EndsOf DEF Network
<1>3. CASE Ends
  <2>1. blk' \in {cidr_addr_broadcast(blk), cidr_addr_hostmin(blk), cidr_addr_hostmax(blk)}
    BY <1>3 DEF Ends
  <2>2. IsBlock(cidr_addr_broadcast(blk), n) /\ IsBlock(cidr_addr_hostmin(blk), n) /\ IsBlock(cidr_addr_hostmax(blk), n)
    BY <1>1, EndsOf, HostsOf
  <2> QED
    BY <2>1, <2>2
<1>4. CASE Supernet
  <2>1. cidr_net_supernet(blk) # NULL /\ blk' = cidr_net_supernet(blk)
    BY <1>4 DEF Supernet
  <2>2. n >= Start(blk.proto) /\ n \in Nat /\ Start(blk.proto) \in Nat
    BY <1>1, BlockFacts
  <2>3. n = Start(blk.proto) \/ n > Start(blk.proto)
    BY <2>2
  <2>4. IsBlock(cidr_net_supernet(blk), n - 1)
    BY <1>1, <2>1, <2>3, SupernetOf
  <2> QED
    BY <2>1, <2>4
<1>5. CASE Subnet
  <2> DEFINE u == Made(blk.proto, ClearFrom(blk.addr, n), n + 1)
             v == Made(blk.proto, SetBit(ClearFrom(blk.addr, n), n), n + 1)
  <2>1. PICK i \in DOMAIN cidr_net_subnets(blk) : blk' = cidr_net_subnets(blk)[i]
    BY <1>5 DEF Subnet
  <2>2. n \in Nat /\ n <= 16 * OctBits /\ OctBits \in Nat
    BY <1>1, BlockFacts, OctetFacts
  <2>3. n = 16 * OctBits \/ n < 16 * OctBits
    BY <2>2
  <2>4. CASE n = 16 * OctBits
    <3>1. cidr_net_subnets(blk) = <<>>
      BY <1>1, <2>4, SubnetsOf
    <3> QED
      BY <2>1, <3>1
  <2>5. CASE n < 16 * OctBits
    <3>1. cidr_net_subnets(blk) = <<u, v>> /\ IsBlock(u, n + 1) /\ IsBlock(v, n + 1)
      BY <1>1, <2>5, SubnetsOf
    <3> HIDE DEF u, v
    <3>2. blk' = u \/ blk' = v
      BY <2>1, <3>1
    <3> QED
      BY <3>1, <3>2
  <2> QED
    BY <2>3, <2>4, <2>5
<1>6. CASE Reread
  <2>1. blk' = blk
    BY <1>1, <1>6, TextAgain DEF Reread
  <2> QED
    BY <1>1, <2>1
<1>7. CASE ViaSocket
  <2>1. blk.addr \in Octets /\ 16 * OctBits \in Lens /\ \A p \in {"v4", "v6"} : 16 * OctBits >= Start(p)
    <3>1. blk.addr \in Octets /\ OctBits \in Nat
      BY <1>1, BlockFacts, OctetFacts
    <3>2. 16 * OctBits \in Lens
      BY <3>1 DEF Lens
    <3>3. Start("v4") = 12 * OctBits /\ Start("v6") = 0
      BY Starts
    <3> QED
      BY <3>1, <3>2, <3>3
  <2>2. Mapped(blk.addr) \in Octets /\ Mapped(Mapped(blk.addr)) = Mapped(blk.addr)
    BY <2>1, MappedIs
  <2>3. IsBlock(Made("v4", Mapped(blk.addr), 16 * OctBits), 16 * OctBits)
    BY <2>1, <2>2, BlockMade
  <2>4. IsBlock(Made("v6", blk.addr, 16 * OctBits), 16 * OctBits)
    BY <2>1, BlockMade
  <2>5. \/ blk' = Made("v4", Mapped(blk.addr), 16 * OctBits)
        \/ blk' = Made("v6", blk.addr, 16 * OctBits)
    BY <1>7 DEF ViaSocket, cidr_from_inaddr, cidr_from_in6addr, cidr_to_in6addr, Made
  <2> QED
    BY <2>3, <2>4, <2>5
<1>8. CASE UNCHANGED blk
  BY <1>1, <1>8
<1> QED
  BY <1>2, <1>3, <1>4, <1>5, <1>6, <1>7, <1>8 DEF Next

LEMMA ShapeAlways == Spec => []Shape
BY ShapeInit, ShapeNext, PTL DEF Spec

\* Every block the library hands out, however it was read (of a text with at most
\* eight sections before a "::"), split, widened or turned into a socket address, has a contiguous mask no shorter than its
\* protocol's start, and a v4 block its mapped form.
THEOREM TypeCorrect == Spec => []TypeOK
<1>1. Shape => TypeOK
  <2> SUFFICES ASSUME Shape PROVE TypeOK
    OBVIOUS
  <2>1. PICK n : IsBlock(blk, n)
    BY DEF Shape
  <2>2. /\ blk = Made(blk.proto, blk.addr, n) /\ blk.proto \in {"v4", "v6"} /\ blk.addr \in Octets /\ blk.mask = MaskOf(n)
        /\ n \in Lens /\ n >= Start(blk.proto) /\ n \in Nat /\ n <= 16 * OctBits /\ OctBits \in Nat
        /\ Start(blk.proto) \in Nat /\ Start(blk.proto) + Width(blk.proto) = 16 * OctBits
        /\ cidr_get_pflen(blk) = n - Start(blk.proto)
    BY <2>1, BlockFacts, OctetFacts
  <2>3. blk \in CIDR
    <3>1. MaskOf(n) \in Octets
      BY <2>2, MaskBits
    <3>2. Made(blk.proto, blk.addr, n) \in CIDR
      BY <2>2, <3>1 DEF Made, CIDR
    <3> QED
      BY <2>2, <3>2
  <2>4. cidr_get_pflen(blk) \in 0..Width(blk.proto)
    <3>1. Width(blk.proto) \in Nat
      BY <2>2, Starts
    <3> QED
      BY <2>2, <3>1
  <2>5. ASSUME blk.proto = "v4" PROVE blk.addr = Mapped(blk.addr) /\ \A i \in 0..11 : blk.mask[i] = Full
    <3>1. blk.addr = Mapped(blk.addr)
      BY <2>1, <2>5 DEF IsBlock
    <3>2. ASSUME NEW i \in 0..11 PROVE blk.mask[i] = Full
      <4>1. i \in Index /\ n >= (i + 1) * OctBits
        <5>1. n >= 12 * OctBits
          BY <2>2, <2>5, Starts
        <5>2. (i + 1) * OctBits <= 12 * OctBits /\ (i + 1) * OctBits \in Nat
          BY <2>2
        <5> QED
          BY <2>2, <5>1, <5>2 DEF Index
      <4>2. ClearFrom(Ones, n)[i] = Ones[i]
        BY <2>2, <4>1, OnesBits, HeadKept
      <4>3. Ones[i] = Full /\ MaskOf(n) = ClearFrom(Ones, n)
        BY <4>1 DEF Ones, MaskOf
      <4> QED
        BY <2>2, <4>2, <4>3
    <3> QED
      BY <3>1, <3>2
  <2> QED
    BY <2>3, <2>4, <2>5 DEF TypeOK
<1> QED
  BY <1>1, ShapeAlways, PTL

\* cidr_contains, which rules are matched with, is inclusion of the addresses
\* between network and broadcast address, for every block reached and every
\* block that can be read, both ways round.
THEOREM InclusionDecided == Spec => []ContainsIsInclusion
<1>1. Shape => ContainsIsInclusion
  <2> SUFFICES ASSUME Shape PROVE ContainsIsInclusion
    OBVIOUS
  <2>1. PICK n : IsBlock(blk, n)
    BY DEF Shape
  <2>2. ASSUME NEW t \in Texts, cidr_from_str(t) # NULL
        PROVE  LET o == cidr_from_str(t)
               IN  cidr_contains(blk, o) = LiesIn(o, blk) /\ cidr_contains(o, blk) = LiesIn(blk, o)
    <3> DEFINE o == cidr_from_str(t)
    <3>1. PICK m : IsBlock(o, m)
      BY <2>2, BlocksAssumption, Parsed
    <3> HIDE DEF o
    <3>2. (cidr_contains(blk, o) <=> LiesIn(o, blk)) /\ (cidr_contains(o, blk) <=> LiesIn(blk, o))
      BY <2>1, <3>1, ContainsIsLiesIn
    <3>3. /\ cidr_contains(blk, o) \in BOOLEAN /\ cidr_contains(o, blk) \in BOOLEAN
          /\ LiesIn(o, blk) \in BOOLEAN /\ LiesIn(blk, o) \in BOOLEAN
      BY Zenon DEF cidr_contains, LiesIn
    <3> QED
      BY <3>2, <3>3, Zenon DEF o
  <2> QED
    BY <2>2, Zenon DEF ContainsIsInclusion, LiesIn
<1> QED
  BY <1>1, ShapeAlways, PTL

\* The two halves cidr_net_subnets splits a block into cover it, side by side
\* and without a gap, and cidr_net_supernet takes each back to it.
THEOREM SubnetsCover == Spec => []SubnetsPartition
<1>1. Shape => SubnetsPartition
  BY ChildrenPartition DEF Shape, SubnetsPartition
<1> QED
  BY <1>1, ShapeAlways, PTL

\* cidr_numhost and cidr_numaddr agree with the addresses from the first to the
\* last host, and from network to broadcast address, at every prefix length.
THEOREM HostsAreCounted == Spec => []HostsCounted
<1>1. Shape => HostsCounted
  BY HostCount DEF Shape, HostsCounted
<1> QED
  BY <1>1, ShapeAlways, PTL

\* What cidr_to_str writes, cidr_from_str reads as the same block, in every
\* form that names one.
THEOREM TextsComeBack == Spec => []TextRoundTrip
<1>1. Shape => TextRoundTrip
  <2> SUFFICES ASSUME Shape PROVE TextRoundTrip
    OBVIOUS
  <2>1. PICK n : IsBlock(blk, n)
    BY DEF Shape
  <2> DEFINE back(f) == cidr_from_str(cidr_to_str(blk, f))
             full == 16 * OctBits
             host == [blk EXCEPT !.mask = MaskOf(full)]
  <2>2. blk = Made(blk.proto, blk.addr, n) /\ blk.proto \in {"v4", "v6"} /\ n \in Lens
    BY <2>1, BlockFacts
  <2>3. \A b : cidr_equals(b, b)
    BY DEF cidr_equals
  <2>4. \A f \in SameForms : cidr_equals(blk, back(f))
    BY <2>1, <2>3, TextAgain
  <2>5. host = Made(blk.proto, blk.addr, full)
    <3> HIDE DEF full
    <3> DEFINE p == blk.proto
               a == blk.addr
    <3>1. blk = Made(p, a, n)
      BY <2>2
    <3> HIDE DEF p, a
    <3>2. host = Made(p, a, full)
      BY <3>1 DEF Made
    <3> QED
      BY <3>2 DEF p, a
  <2>6. cidr_equals(host, back({"ONLYADDR"}))
    <3>1. back({"ONLYADDR"}) = host
      BY <2>1, <2>5, TextAgain
    <3> HIDE DEF host, back
    <3> QED
      BY <2>3, <3>1
  <2>7. cidr_equals(host, back({"REVERSE"}))
    <3> DEFINE x == back({"REVERSE"})
    <3>1. host.proto = blk.proto /\ host.addr = blk.addr /\ host.mask = MaskOf(full)
      BY <2>5 DEF Made
    <3>2. CASE blk.proto = "v4"
      <4>1. x.proto = "v4" /\ x.mask = MaskOf(full) /\ \A i \in 12..15 : x.addr[i] = blk.addr[i]
        BY <2>1, <3>2, Reverse4
      <4>2. FirstOctet("v4") = 12
        BY DEF FirstOctet
      <4> HIDE DEF x, host
      <4>3. cidr_equals(host, x)
        BY <3>1, <3>2, <4>1, <4>2 DEF cidr_equals
      <4> QED
        BY <4>3 DEF x
    <3>3. CASE blk.proto = "v6"
      <4>1. x = host
        BY <2>1, <2>5, <3>3, Reverse6
      <4> HIDE DEF x, host
      <4>2. cidr_equals(host, x)
        BY <2>3, <4>1
      <4> QED
        BY <4>2 DEF x
    <3> QED
      BY <2>2, <3>2, <3>3
  <2>8. ASSUME blk.proto = "v4", NEW f \in {{"USEV6"}, {"USEV6", "NOCOMPACT"}}
        PROVE  /\ cidr_is_v4mapped(back(f)) /\ back(f).addr = blk.addr
               /\ cidr_get_pflen(back(f)) = cidr_get_pflen(blk) + 12 * OctBits
    <3> DEFINE x == back(f)
    <3>1. x = Made("v6", blk.addr, n)
      BY <2>1, <2>8, ClothedAgain
    <3> HIDE DEF x
    <3>2. x.proto = "v6" /\ x.addr = blk.addr
      BY <3>1 DEF Made
    <3>3. /\ blk.addr \in Octets /\ n \in Nat /\ OctBits \in Nat /\ Start("v6") = 0 /\ Start("v4") = 12 * OctBits
          /\ cidr_get_pflen(blk) = n - Start(blk.proto)
      BY <2>1, BlockFacts, Starts, OctetFacts
    <3>4. IsBlock(Made("v6", blk.addr, n), n)
      <4>1. "v6" \in {"v4", "v6"} /\ n >= Start("v6") /\ "v6" # "v4"
        BY <3>3
      <4> QED
        BY <2>2, <3>3, <4>1, BlockMade
    <3>5. cidr_get_pflen(x) = n - Start("v6")
      BY <3>1, <3>2, <3>4, BlockFacts
    <3>6. blk.addr = Mapped(blk.addr)
      BY <2>1, <2>8 DEF IsBlock
    <3>7. cidr_is_v4mapped(x)
      <4>1. \A i \in 0..11 : x.addr[i] = Mapped(x.addr)[i]
        BY <3>2, <3>6, Zenon
      <4> QED
        BY <3>2, <4>1 DEF cidr_is_v4mapped
    <3>8. cidr_get_pflen(x) = cidr_get_pflen(blk) + 12 * OctBits
      BY <2>8, <3>3, <3>5
    <3> QED
      BY <3>2, <3>7, <3>8 DEF x
  <2> QED
    BY <2>4, <2>6, <2>7, <2>8, Zenon DEF TextRoundTrip
<1> QED
  BY <1>1, ShapeAlways, PTL
=============================================================================
