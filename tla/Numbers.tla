-------------------------------- MODULE Numbers --------------------------------
(***************************************************************************)
(* Facts about natural numbers the other proofs share: induction, in the   *)
(* form of least and greatest elements (a proof by induction takes the     *)
(* least counterexample), and powers of two.                               *)
(***************************************************************************)
EXTENDS WellFoundedInduction, FiniteSetTheorems, Integers, TLAPS

\* A set of natural numbers has a least element.
LEMMA LeastNumber ==
    ASSUME NEW S \in SUBSET Nat, S # {}
    PROVE  \E m \in S : \A n \in S : m <= n
<1> DEFINE Less == {p \in Nat \X Nat : p[1] < p[2]}
<1>1. IsWellFoundedOn(Less, Nat)
  BY NatLessThanWellFounded DEF OpToRel
<1> HIDE DEF Less
<1>2. PICK m \in S : \A n \in S : <<n, m>> \notin Less
  BY <1>1, WFMin, Zenon
<1>3. \A n \in S : ~(n < m)
  BY <1>2 DEF Less
<1> QED
  BY <1>3

\* A bounded set of natural numbers has a greatest element.
LEMMA GreatestNumber ==
    ASSUME NEW k \in Nat, NEW S \in SUBSET (0 .. k), S # {}
    PROVE  \E m \in S : \A n \in S : n <= m
<1> DEFINE Below == {d \in Nat : k - d \in S}
<1>1. Below # {}
  <2>1. PICK n : n \in S
    OBVIOUS
  <2>2. k - n \in Nat /\ k - (k - n) = n
    BY <2>1
  <2> QED
    BY <2>1, <2>2
<1>2. PICK d \in Below : \A e \in Below : d <= e
  <2> HIDE DEF Below
  <2>1. Below \in SUBSET Nat
    BY DEF Below
  <2> QED
    BY <1>1, <2>1, LeastNumber
<1>3. k - d \in S /\ d \in Nat
  OBVIOUS
<1>4. \A n \in S : n <= k - d
  <2> TAKE n \in S
  <2>1. n \in Nat /\ k - n \in Nat /\ k - (k - n) = n
    OBVIOUS
  <2>2. k - n \in Below
    BY <2>1
  <2>3. d <= k - n
    <3> HIDE DEF Below
    <3> QED
      BY <1>2, <2>2
  <2> QED
    BY <1>3, <2>1, <2>3
<1> QED
  BY <1>3, <1>4

-----------------------------------------------------------------------------
(* Powers of two: 2^k is the number of subsets of 1 .. k.                  *)

LEMMA PowerCounts ==
    ASSUME NEW k \in Nat
    PROVE  /\ IsFiniteSet(SUBSET (1 .. k))
           /\ Cardinality(SUBSET (1 .. k)) = 2^k
           /\ 2^k \in Nat
<1>1. IsFiniteSet(1 .. k) /\ Cardinality(1 .. k) = k
  BY FS_Interval
<1> QED
  BY <1>1, FS_SUBSET, FS_CardinalityType

LEMMA PowerZero == 2^0 = 1
  OBVIOUS

\* The subsets with k + 1 are those without it, one element larger.
LEMMA PowerStep ==
    ASSUME NEW k \in Nat
    PROVE  2^(k + 1) = 2 * 2^k
<1> DEFINE top == k + 1
           Old == SUBSET (1 .. k)
           New == {s \cup {top} : s \in Old}
           f == [s \in Old |-> s \cup {top}]
<1>1. IsFiniteSet(Old) /\ Cardinality(Old) = 2^k /\ 2^k \in Nat
  BY PowerCounts
<1>2. top \notin 1 .. k /\ 1 .. top = (1 .. k) \cup {top} /\ top \in Nat
  OBVIOUS
<1> HIDE DEF top
<1>3. f \in Bijection(Old, New)
  <2>1. \A s, t \in Old : s \cup {top} = t \cup {top} => s = t
    BY <1>2
  <2>2. f \in [Old -> New] /\ \A s \in Old : f[s] = s \cup {top}
    OBVIOUS
  <2>3. \A u \in New : \E s \in Old : f[s] = u
    OBVIOUS
  <2> HIDE DEF f, Old, New
  <2>4. f \in Injection(Old, New)
    BY <2>1, <2>2 DEF Injection, IsInjective
  <2>5. f \in Surjection(Old, New)
    BY <2>2, <2>3 DEF Surjection
  <2> QED
    BY <2>4, <2>5 DEF Bijection
<1>4. IsFiniteSet(New) /\ Cardinality(New) = Cardinality(Old)
  <2> HIDE DEF f, Old, New
  <2>1. ExistsBijection(Old, New)
    BY <1>3 DEF ExistsBijection
  <2> QED
    BY <1>1, <2>1, FS_Bijection
<1>5. Old \cap New = {}
  BY <1>2
<1>6. SUBSET (1 .. top) = Old \cup New
  <2>1. ASSUME NEW u \in SUBSET (1 .. top) PROVE u \in Old \cup New
    <3>1. CASE top \in u
      <4>1. u \ {top} \in Old /\ u = (u \ {top}) \cup {top}
        BY <1>2, <3>1
      <4> QED
        BY <4>1
    <3>2. CASE top \notin u
      BY <1>2, <3>2
    <3> QED
      BY <3>1, <3>2
  <2>2. ASSUME NEW u \in Old \cup New PROVE u \in SUBSET (1 .. top)
    BY <1>2
  <2> QED
    BY <2>1, <2>2
<1>7. Cardinality(SUBSET (1 .. top)) = 2^top
  BY <1>2, PowerCounts
<1>8. Cardinality(Old \cup New) = Cardinality(Old) + Cardinality(New) - Cardinality({})
  <2> HIDE DEF Old, New
  <2> QED
    BY <1>1, <1>4, <1>5, FS_Union
<1>9. 2^top = 2^k + 2^k
  <2>1. Cardinality({}) = 0
    BY FS_EmptySet
  <2>2. 2^top = Cardinality(Old \cup New)
    BY <1>6, <1>7
  <2>3. 2^top = 2^k + 2^k - 0
    BY <1>1, <1>4, <1>8, <2>1, <2>2
  <2> QED
    BY <1>1, <2>3
<1> QED
  BY <1>1, <1>9 DEF top

LEMMA PowerSum ==
    ASSUME NEW j \in Nat, NEW k \in Nat
    PROVE  2^(j + k) = 2^j * 2^k
<1> DEFINE Fails == {d \in Nat : 2^(j + d) # 2^j * 2^d}
<1>1. CASE Fails = {}
  BY <1>1
<1>2. CASE Fails # {}
  <2>1. PICK d \in Fails : \A x \in Fails : d <= x
    <3> HIDE DEF Fails
    <3>1. Fails \in SUBSET Nat
      BY DEF Fails
    <3> QED
      BY <1>2, <3>1, LeastNumber
  <2>2. d \in Nat /\ 2^(j + d) # 2^j * 2^d /\ 2^j \in Nat
    BY PowerCounts
  <2>3. CASE d = 0
    BY <2>2, <2>3, PowerZero
  <2>4. CASE d # 0
    <3>1. d - 1 \in Nat /\ d - 1 \notin Fails /\ j + (d - 1) \in Nat
      BY <2>1, <2>2, <2>4
    <3>2. 2^(j + (d - 1)) = 2^j * 2^(d - 1)
      BY <3>1
    <3>3. 2^d = 2 * 2^(d - 1) /\ 2^(j + d) = 2 * 2^(j + (d - 1))
      <4>1. d = (d - 1) + 1 /\ j + d = (j + (d - 1)) + 1
        BY <2>2
      <4> QED
        BY <3>1, <4>1, PowerStep
    <3>4. 2^j * (2 * 2^(d - 1)) = 2 * (2^j * 2^(d - 1))
      <4>1. 2^(d - 1) \in Nat
        BY <3>1, PowerCounts
      <4> QED
        BY <2>2, <4>1
    <3> QED
      BY <2>2, <3>2, <3>3, <3>4
  <2> QED
    BY <2>3, <2>4
<1> QED
  BY <1>1, <1>2

LEMMA PowerExceeds ==
    ASSUME NEW k \in Nat
    PROVE  2^k \in Nat /\ 2^k > k
<1> DEFINE Fails == {d \in Nat : ~(2^d > d)}
<1>1. CASE Fails = {}
  BY <1>1, PowerCounts
<1>2. CASE Fails # {}
  <2>1. PICK d \in Fails : \A x \in Fails : d <= x
    <3> HIDE DEF Fails
    <3>1. Fails \in SUBSET Nat
      BY DEF Fails
    <3> QED
      BY <1>2, <3>1, LeastNumber
  <2>2. d # 0 /\ d \in Nat
    <3>1. 1 > 0 /\ 2^0 > 0
      BY PowerZero
    <3> QED
      BY <3>1
  <2>3. d - 1 \in Nat /\ d - 1 \notin Fails
    BY <2>1, <2>2
  <2>4. 2^d = 2 * 2^(d - 1) /\ 2^(d - 1) \in Nat /\ 2^(d - 1) > d - 1
    <3>1. d = (d - 1) + 1
      BY <2>2
    <3> QED
      BY <2>3, <3>1, PowerStep, PowerCounts
  <2> QED
    BY <2>2, <2>3, <2>4
<1> QED
  BY <1>1, <1>2

LEMMA PowerMonotone ==
    ASSUME NEW j \in Nat, NEW k \in Nat, j <= k
    PROVE  2^j <= 2^k
<1>1. k - j \in Nat /\ j + (k - j) = k
  OBVIOUS
<1>2. 2^k = 2^j * 2^(k - j)
  BY <1>1, PowerSum
<1>3. 2^j \in Nat /\ 2^(k - j) \in Nat /\ 2^(k - j) >= 1
  BY <1>1, PowerExceeds
<1> QED
  BY <1>2, <1>3, SMTT(30)

LEMMA PowerType ==
    ASSUME NEW k \in Nat
    PROVE  2^k \in Nat /\ 2^k >= 1
  BY PowerExceeds

\* A power of two splits into a smaller one and what is left.
LEMMA PowerSplit ==
    ASSUME NEW j \in Nat, NEW k \in Nat, j <= k
    PROVE  2^k = 2^(k - j) * 2^j
<1>1. k - j \in Nat /\ (k - j) + j = k
  OBVIOUS
<1> QED
  BY <1>1, PowerSum

-----------------------------------------------------------------------------
(* Division.                                                               *)

LEMMA Division ==
    ASSUME NEW y \in Int, NEW m \in Nat, m > 0
    PROVE  /\ y \div m \in Int /\ y % m \in 0 .. m - 1
           /\ y = m * (y \div m) + (y % m)
<1>1. y = m * (y \div m) + (y % m)
  BY Z3
<1>2. y \div m \in Int /\ y % m \in 0 .. m - 1
  OBVIOUS
<1> QED
  BY <1>1, <1>2

LEMMA DivisionUnique ==
    ASSUME NEW y \in Int, NEW m \in Nat, m > 0, NEW q \in Int, NEW r \in 0 .. m - 1,
           y = m * q + r
    PROVE  y \div m = q /\ y % m = r
<1> DEFINE p == y \div m
           s == y % m
<1>1. p \in Int /\ s \in 0 .. m - 1 /\ y = m * p + s
  BY Division
<1> HIDE DEF p, s
<1>2. m * (q - p) = s - r
  BY <1>1
<1>3. ~ (q - p >= 1)
  <2>1. q - p >= 1 => m * (q - p) >= m
    BY <1>1
  <2> QED
    BY <1>1, <1>2, <2>1
<1>4. ~ (p - q >= 1)
  <2>1. p - q >= 1 => m * (p - q) >= m
    BY <1>1
  <2>2. m * (p - q) = r - s
    BY <1>1
  <2> QED
    BY <1>1, <2>1, <2>2
<1>5. q = p
  BY <1>1, <1>3, <1>4
<1> QED
  BY <1>1, <1>2, <1>5 DEF p, s

\* A quotient is below a bound if the product is.
LEMMA QuotientBelow ==
    ASSUME NEW y \in Nat, NEW a \in Nat, NEW b \in Nat, b > 0, y < a * b
    PROVE  y \div b \in 0 .. a - 1
<1> DEFINE q == y \div b
           r == y % b
<1>1. q \in Int /\ r \in 0 .. b - 1 /\ y = b * q + r
  BY Division
<1> HIDE DEF q, r
<1>2. ~ (q < 0)
  <2>1. q < 0 => b * q <= -b
    BY <1>1
  <2> QED
    BY <1>1, <2>1
<1>3. ~ (q >= a)
  <2>1. q >= a => b * q >= b * a
    BY <1>1
  <2> QED
    BY <1>1, <2>1
<1> QED
  BY <1>1, <1>2, <1>3 DEF q

\* Multiples of a positive number are ordered as what is multiplied.
LEMMA ScaledOrder ==
    ASSUME NEW a \in Int, NEW b \in Int, NEW m \in Nat, m > 0
    PROVE  /\ a * m < b * m <=> a < b
           /\ a * m <= b * m <=> a <= b
           /\ a * m = b * m <=> a = b
<1>1. ASSUME NEW c \in Int, NEW d \in Int, c < d PROVE c * m < d * m
  <2>1. d - c >= 1 /\ d - c \in Nat
    BY <1>1
  <2>2. (d - c) * m = d * m - c * m
    OBVIOUS
  <2>3. (d - c) * m >= m
    <3> DEFINE e == d - c - 1
    <3>1. e \in Nat /\ (d - c) * m = e * m + m
      BY <2>1
    <3>2. e * m \in Nat
      BY <3>1
    <3> QED
      BY <3>1, <3>2
  <2> QED
    BY <2>2, <2>3
<1>2. a < b \/ b < a \/ a = b
  OBVIOUS
<1> QED
  BY <1>1, <1>2

-----------------------------------------------------------------------------
(* The leading one of a number.                                            *)

LEMMA QuotientOne ==
    ASSUME NEW m \in Nat, NEW a \in Nat, a > 0
    PROVE  m \div a = 1 <=> a <= m /\ m < 2 * a
<1>1. ASSUME m \div a = 1 PROVE a <= m /\ m < 2 * a
  <2>1. m % a \in 0 .. a - 1 /\ m = a * (m \div a) + (m % a)
    BY Division
  <2>2. m = a + (m % a)
    BY <1>1, <2>1
  <2> QED
    BY <2>1, <2>2
<1>2. ASSUME a <= m /\ m < 2 * a PROVE m \div a = 1
  <2>1. m - a \in 0 .. a - 1 /\ m = a * 1 + (m - a)
    BY <1>2
  <2> QED
    BY <2>1, DivisionUnique
<1> QED
  BY <1>1, <1>2

LEMMA LeadingPower ==
    ASSUME NEW w \in Nat, NEW m \in Nat, m >= 1, m < 2^(w + 1)
    PROVE  \E i \in 0 .. w : 2^i <= m /\ m < 2^(i + 1)
<1> DEFINE S == {i \in 0 .. w : 2^i <= m}
<1>1. 0 \in S
  BY PowerZero
<1>2. PICK i \in S : \A j \in S : j <= i
  <2>1. S \in SUBSET (0 .. w) /\ S # {}
    BY <1>1
  <2> HIDE DEF S
  <2> QED
    BY <2>1, GreatestNumber
<1>3. m < 2^(i + 1)
  <2>1. CASE i = w
    BY <2>1
  <2>2. CASE i # w
    <3>1. i + 1 \in 0 .. w /\ i + 1 \notin S /\ 2^(i + 1) \in Nat
      <4>1. i + 1 \in 0 .. w /\ ~ (i + 1 <= i)
        BY <2>2
      <4> QED
        BY <1>2, <4>1, PowerType
    <3> QED
      BY <3>1
  <2> QED
    BY <2>1, <2>2
<1> QED
  BY <1>3

LEMMA LeadingUnique ==
    ASSUME NEW i \in Nat, NEW j \in Nat, NEW m \in Nat,
           2^i <= m, m < 2^(i + 1), 2^j <= m, m < 2^(j + 1)
    PROVE  i = j
<1>1. 2^i \in Nat /\ 2^j \in Nat /\ 2^(i + 1) \in Nat /\ 2^(j + 1) \in Nat
  BY PowerType
<1>2. i < j => 2^(i + 1) <= 2^j
  BY PowerMonotone
<1>3. j < i => 2^(j + 1) <= 2^i
  BY PowerMonotone
<1> QED
  BY <1>1, <1>2, <1>3

-----------------------------------------------------------------------------
(* Digits.                                                                 *)

\* Two divisions in a row, and what they leave.
LEMMA DivisionTwice ==
    ASSUME NEW a \in Int, NEW b \in Nat, b > 0, NEW c \in Nat, c > 0
    PROVE  /\ (a \div b) \div c = a \div (b * c)
           /\ a % (b * c) = b * ((a \div b) % c) + (a % b)
<1> DEFINE q == a \div b
           r == a % b
           p == q \div c
           s == q % c
<1>1. q \in Int /\ r \in 0 .. b - 1 /\ a = b * q + r
  BY Division
<1> HIDE DEF q, r
<1>2. p \in Int /\ s \in 0 .. c - 1 /\ q = c * p + s
  BY <1>1, Division
<1> HIDE DEF p, s
<1>3. b * c \in Nat /\ b * c > 0
  <2>1. 0 * c < b * c
    BY ScaledOrder
  <2> QED
    BY <2>1
<1>4. a = (b * c) * p + (b * s + r)
  <2>1. b * (c * p + s) = (b * c) * p + b * s
    BY <1>1, <1>2
  <2> QED
    BY <1>1, <1>2, <2>1
<1>5. b * s + r \in 0 .. b * c - 1
  <2>1. 0 * b <= s * b /\ s * b <= (c - 1) * b
    BY <1>2, ScaledOrder
  <2>2. (c - 1) * b = b * c - b /\ s * b = b * s /\ b * s \in Int /\ 0 * b = 0
    BY <1>2
  <2> QED
    BY <1>1, <1>3, <2>1, <2>2
<1> DEFINE m == b * c
           d == b * s + r
<1> HIDE DEF m, d
<1>6. a \div m = p /\ a % m = d
  <2>1. m \in Nat /\ m > 0 /\ d \in 0 .. m - 1 /\ a = m * p + d
    BY <1>3, <1>4, <1>5 DEF m, d
  <2> QED
    BY <1>2, <2>1, DivisionUnique
<1> QED
  BY <1>6 DEF m, d, q, r, p, s

\* A multiple passes through a division.
LEMMA DivisionOfSum ==
    ASSUME NEW a \in Int, NEW q \in Int, NEW b \in Nat, b > 0
    PROVE  /\ (q * b + a) \div b = q + (a \div b)
           /\ (q * b + a) % b = a % b
<1> DEFINE p == a \div b
           r == a % b
<1>1. p \in Int /\ r \in 0 .. b - 1 /\ a = b * p + r
  BY Division
<1> HIDE DEF p, r
<1>2. q * b + a = b * (q + p) + r /\ q + p \in Int /\ q * b + a \in Int
  BY <1>1
<1> DEFINE y == q * b + a
           m == q + p
<1> HIDE DEF y, m
<1>3. y = b * m + r /\ m \in Int /\ y \in Int
  BY <1>2 DEF y, m
<1>4. y \div b = m /\ y % b = r
  BY <1>1, <1>3, DivisionUnique
<1> QED
  BY <1>4 DEF y, m, p, r

LEMMA SmallDivision ==
    ASSUME NEW b \in Nat, NEW a \in 0 .. b - 1
    PROVE  a \div b = 0 /\ a % b = a
<1>1. a \in Int /\ b > 0 /\ 0 \in Int /\ a = b * 0 + a
  OBVIOUS
<1> QED
  BY <1>1, DivisionUnique

LEMMA DivisionType ==
    ASSUME NEW a \in Nat, NEW b \in Nat, b > 0
    PROVE  a \div b \in Nat /\ a \div b <= a /\ b * (a \div b) <= a
<1> DEFINE q == a \div b
           r == a % b
<1>1. q \in Int /\ r \in 0 .. b - 1 /\ a = b * q + r
  BY Division
<1> HIDE DEF q, r
<1>2. q >= 0
  <2>1. q < 0 => b * q <= -b
    BY <1>1
  <2> QED
    BY <1>1, <2>1
<1>3. q <= b * q
  <2>1. q * 1 <= q * b
    <3>1. b = 1 + (b - 1) /\ b - 1 \in Nat
      OBVIOUS
    <3>2. q * (b - 1) \in Nat /\ q * b = q + q * (b - 1)
      BY <1>1, <1>2, <3>1
    <3> QED
      BY <1>1, <3>2
  <2> QED
    BY <1>1, <2>1
<1> QED
  BY <1>1, <1>2, <1>3 DEF q

LEMMA DigitsBelow ==
    ASSUME NEW a \in Nat, NEW b \in Nat, NEW q \in 0 .. b - 1, NEW r \in 0 .. a - 1
    PROVE  q * a + r \in 0 .. b * a - 1
<1>1. a > 0 /\ b > 0
  OBVIOUS
<1>2. q * a <= (b - 1) * a /\ 0 * a <= q * a
  <2>1. b - 1 \in Int /\ q \in Int /\ 0 \in Int /\ q <= b - 1 /\ 0 <= q
    OBVIOUS
  <2> QED
    BY <1>1, <2>1, ScaledOrder
<1>3. (b - 1) * a = b * a - a /\ 0 * a = 0 /\ q * a \in Int /\ b * a \in Int
  OBVIOUS
<1> QED
  BY <1>2, <1>3

===============================================================================
