------------------------- MODULE PositArithmeticProofs -------------------------
(***************************************************************************)
(* Lemmas about the operators of PositWords and PositArithmetic, for every *)
(* format: which words and which significands they return, which numbers   *)
(* of PositReference the words stand for, and how they are rounded.        *)
(***************************************************************************)
EXTENDS PositArithmetic, PositReference, Numbers, TLAPS

\* A format as the types have them: a sign, a regime of two bits, the exponent and
\* two bits of fraction fit into a word, and the precision x into its width.
IsFormat(F) ==
    /\ F.n \in Nat /\ F.es \in 0 .. 2 /\ F.n >= F.es + 3
    /\ F.x \in 2 .. F.n /\ F.px \in BOOLEAN
    /\ F.addMax \in Nat /\ F.subMax \in Nat

\* The words of precision x, and those of the positive numbers.
PrecisionWords(F) == {u * Ulp(F) : u \in 0 .. 2^F.x - 1}

PositiveWords(F) == {u * Ulp(F) : u \in 1 .. 2^(F.x - 1) - 1}

Numeric(F, u) == u \in PrecisionWords(F) /\ u # 0 /\ u # NaR(F)

-----------------------------------------------------------------------------
(* The sizes of a format.                                                  *)

LEMMA PowerBelow ==
    ASSUME NEW k \in Nat, k >= 1
    PROVE  2^k = 2 * 2^(k - 1) /\ 2^(k - 1) \in Nat /\ 2^(k - 1) >= 1
<1>1. k - 1 \in Nat /\ (k - 1) + 1 = k
  OBVIOUS
<1> QED
  BY <1>1, PowerStep, PowerType

LEMMA Sizes ==
    ASSUME NEW F, IsFormat(F)
    PROVE  /\ Ulp(F) \in Nat /\ Ulp(F) >= 1
           /\ 2^(F.x - 1) \in Nat /\ 2^(F.x - 1) >= 2 /\ 2^F.x = 2 * 2^(F.x - 1)
           /\ NaR(F) \in Nat /\ NaR(F) = 2^(F.x - 1) * Ulp(F)
           /\ 2^F.n = 2 * NaR(F)
<1>1. F.n \in Nat /\ F.x \in Nat /\ F.x >= 2 /\ F.x <= F.n /\ F.n >= 3
  BY DEF IsFormat
<1>2. F.n - F.x \in Nat /\ F.x - 1 \in Nat /\ F.n - 1 \in Nat /\ F.x - 2 \in Nat
      /\ F.n >= 1 /\ F.x >= 1
  BY <1>1
<1>3. 2^F.n = 2 * 2^(F.n - 1) /\ 2^F.x = 2 * 2^(F.x - 1)
  BY <1>1, <1>2, PowerBelow
<1>4. 2^(F.x - 1) >= 2 /\ 2^(F.x - 1) \in Nat
  <2>1. 2^(F.x - 1) \in Nat /\ 2^(F.x - 1) > F.x - 1
    BY <1>2, PowerExceeds
  <2> QED
    BY <1>1, <2>1
<1>5. 2^(F.n - 1) = 2^(F.x - 1) * 2^(F.n - F.x)
  <2>1. F.n - F.x <= F.n - 1 /\ (F.n - 1) - (F.n - F.x) = F.x - 1
    BY <1>1
  <2> QED
    BY <1>2, <2>1, PowerSplit
<1>6. 2^(F.n - F.x) \in Nat /\ 2^(F.n - F.x) >= 1 /\ 2^(F.n - 1) \in Nat
  BY <1>2, PowerType
<1> QED
  BY <1>3, <1>4, <1>5, <1>6 DEF Ulp, NaR

-----------------------------------------------------------------------------
(* Words and their signs.                                                  *)

\* A word of precision x is u units, with u below 2^x; it is positive if u is below
\* 2^(x-1), and NaR if it is that.
LEMMA WordUnits ==
    ASSUME NEW F, IsFormat(F), NEW u \in Int
    PROVE  /\ u * Ulp(F) < NaR(F) <=> u < 2^(F.x - 1)
           /\ u * Ulp(F) = NaR(F) <=> u = 2^(F.x - 1)
           /\ u * Ulp(F) < 2^F.n <=> u < 2^F.x
           /\ u * Ulp(F) > 0 <=> u > 0
           /\ u * Ulp(F) = 0 <=> u = 0
           /\ u * Ulp(F) \in Int
<1> DEFINE m == Ulp(F)
           h == 2^(F.x - 1)
<1>1. m \in Nat /\ m > 0 /\ h \in Nat /\ NaR(F) = h * m /\ 2^F.n = 2 * (h * m) /\ 2^F.x = 2 * h
  BY Sizes
<1> HIDE DEF m, h
<1>2. h \in Int /\ 2 * h \in Int /\ 2 * (h * m) = (2 * h) * m /\ 0 * m = 0 /\ u * m \in Int
      /\ h * m \in Int
  BY <1>1
<1>3. (u * m < h * m <=> u < h) /\ (u * m = h * m <=> u = h)
  BY <1>1, <1>2, ScaledOrder
<1>4. u * m < (2 * h) * m <=> u < 2 * h
  BY <1>1, <1>2, ScaledOrder
<1>5. 0 * m < u * m <=> 0 < u
  BY <1>1, <1>2, ScaledOrder
<1>6. u * m = 0 * m <=> u = 0
  BY <1>1, <1>2, ScaledOrder
<1> QED
  BY <1>1, <1>2, <1>3, <1>4, <1>5, <1>6 DEF m, h

LEMMA PositiveWord ==
    ASSUME NEW F, IsFormat(F), NEW z \in PositiveWords(F)
    PROVE  /\ z \in PrecisionWords(F) /\ z \in Nat /\ 0 < z /\ z < NaR(F)
           /\ ~ Negative(F, z) /\ Numeric(F, z)
<1>1. PICK u \in 1 .. 2^(F.x - 1) - 1 : z = u * Ulp(F)
  BY DEF PositiveWords
<1>2. 2^(F.x - 1) \in Nat /\ 2^F.x = 2 * 2^(F.x - 1) /\ NaR(F) \in Nat
  BY Sizes
<1>3. u \in Int /\ u > 0 /\ u < 2^(F.x - 1) /\ u \in 0 .. 2^F.x - 1
  BY <1>2
<1>4. z \in Int /\ z > 0 /\ z < NaR(F)
  BY <1>1, <1>3, WordUnits
<1> QED
  BY <1>1, <1>2, <1>3, <1>4 DEF PrecisionWords, Negative, Numeric

LEMMA WordBelowNaR ==
    ASSUME NEW F, IsFormat(F), NEW z \in PrecisionWords(F), 0 < z, z < NaR(F)
    PROVE  z \in PositiveWords(F)
<1>1. PICK u \in 0 .. 2^F.x - 1 : z = u * Ulp(F)
  BY DEF PrecisionWords
<1>2. 2^(F.x - 1) \in Nat /\ 2^F.x = 2 * 2^(F.x - 1)
  BY Sizes
<1>3. u \in Int /\ u > 0 /\ u < 2^(F.x - 1)
  BY <1>1, <1>2, WordUnits
<1>4. u \in 1 .. 2^(F.x - 1) - 1
  BY <1>2, <1>3
<1> QED
  BY <1>1, <1>4 DEF PositiveWords

\* Negation keeps words of precision x, swaps the signs of numbers and keeps zero
\* and NaR.
LEMMA Negation ==
    ASSUME NEW F, IsFormat(F), NEW z \in PrecisionWords(F)
    PROVE  /\ Neg(F, z) \in PrecisionWords(F)
           /\ Neg(F, z) = IF z = 0 THEN 0 ELSE 2^F.n - z
           /\ Numeric(F, z) => /\ Numeric(F, Neg(F, z))
                               /\ Negative(F, Neg(F, z)) <=> ~ Negative(F, z)
           /\ z = 0 => Neg(F, z) = 0
           /\ z = NaR(F) => Neg(F, z) = NaR(F)
<1>1. PICK u \in 0 .. 2^F.x - 1 : z = u * Ulp(F)
  BY DEF PrecisionWords
<1>2. /\ 2^(F.x - 1) \in Nat /\ 2^F.x = 2 * 2^(F.x - 1) /\ 2^(F.x - 1) >= 2
      /\ NaR(F) \in Nat /\ 2^F.n = 2 * NaR(F) /\ Ulp(F) \in Nat
      /\ NaR(F) = 2^(F.x - 1) * Ulp(F)
  BY Sizes
<1>3. /\ u \in Int /\ u < 2^F.x /\ u >= 0 /\ z \in Int /\ z < 2^F.n /\ z >= 0
      /\ NaR(F) > 0
  <2>1. u \in Int /\ u < 2^F.x /\ u >= 0 /\ 2^(F.x - 1) \in Int
    BY <1>2
  <2>2. z \in Int /\ (z < 2^F.n <=> u < 2^F.x) /\ (z > 0 <=> u > 0) /\ (z = 0 <=> u = 0)
    BY <1>1, <2>1, WordUnits
  <2>3. 2^(F.x - 1) * Ulp(F) > 0 <=> 2^(F.x - 1) > 0
    BY <2>1, WordUnits
  <2> QED
    BY <1>2, <2>1, <2>2, <2>3
<1>4. CASE z = 0
  <2>1. 2^F.n \in Nat /\ 2^F.n > 0 /\ 2^F.n - 0 = 2^F.n * 1 + 0
    BY <1>2, <1>3
  <2>2. (2^F.n - 0) % 2^F.n = 0
    BY <2>1, DivisionUnique
  <2> QED
    BY <1>3, <1>4, <2>2 DEF Neg, Numeric
<1>5. CASE z # 0
  <2>1. 2^F.n - z \in 0 .. 2^F.n - 1 /\ 2^F.n \in Nat /\ 2^F.n > 0
    BY <1>2, <1>3, <1>5
  <2>2. (2^F.n - z) % 2^F.n = 2^F.n - z
    <3> DEFINE m == 2^F.n
               y == m - z
    <3>1. m \in Nat /\ m > 0 /\ y \in 0 .. m - 1
      BY <2>1
    <3> HIDE DEF y, m
    <3>2. y \in Int /\ y = m * 0 + y
      BY <3>1
    <3>3. y % m = y
      BY <3>1, <3>2, DivisionUnique
    <3> QED
      BY <3>3 DEF y, m
  <2>3. 2^F.n - z \in PrecisionWords(F)
    <3>1. u > 0
      BY <1>1, <1>3, <1>5, WordUnits
    <3>2. 2^F.x - u \in 0 .. 2^F.x - 1
      BY <1>2, <1>3, <3>1
    <3>3. 2^F.n = 2^F.x * Ulp(F)
      BY <1>2
    <3>4. (2^F.x - u) * Ulp(F) = 2^F.x * Ulp(F) - u * Ulp(F)
      BY <1>2
    <3> QED
      BY <1>1, <3>2, <3>3, <3>4 DEF PrecisionWords
  <2>4. Neg(F, z) = 2^F.n - z
    BY <2>2 DEF Neg
  <2>5. Negative(F, z) => ~ Negative(F, Neg(F, z)) \/ z = NaR(F)
    BY <1>2, <1>3, <2>4 DEF Negative
  <2>6. ~ Negative(F, z) => Negative(F, Neg(F, z))
    BY <1>2, <1>3, <2>4 DEF Negative
  <2>7. Numeric(F, z) => Numeric(F, Neg(F, z))
    BY <1>2, <1>3, <2>1, <2>3, <2>4 DEF Numeric
  <2>8. Numeric(F, z) => (Negative(F, Neg(F, z)) <=> ~ Negative(F, z))
    BY <2>5, <2>6 DEF Numeric
  <2>9. z = NaR(F) => Neg(F, z) = NaR(F)
    BY <1>2, <2>4
  <2> QED
    BY <1>5, <2>3, <2>4, <2>7, <2>8, <2>9
<1> QED
  BY <1>4, <1>5

\* The magnitude of a number is a positive word.
LEMMA MagnitudeWord ==
    ASSUME NEW F, IsFormat(F), NEW z, Numeric(F, z)
    PROVE  Magnitude(F, z) \in PositiveWords(F)
<1>1. z \in PrecisionWords(F) /\ z # 0 /\ z # NaR(F) /\ NaR(F) \in Nat /\ 2^F.n = 2 * NaR(F)
  BY Sizes DEF Numeric
<1>2. z \in Nat
  <2>1. PICK u \in 0 .. 2^F.x - 1 : z = u * Ulp(F)
    BY <1>1 DEF PrecisionWords
  <2>2. 2^F.x \in Nat /\ Ulp(F) \in Nat
    BY Sizes
  <2> QED
    BY <2>1, <2>2
<1>3. CASE Negative(F, z)
  <2>1. Numeric(F, Neg(F, z)) /\ ~ Negative(F, Neg(F, z)) /\ Neg(F, z) = 2^F.n - z
    BY <1>1, <1>3, Negation
  <2>2. Neg(F, z) # 0 /\ Neg(F, z) < NaR(F) /\ Neg(F, z) \in PrecisionWords(F)
    BY <1>1, <1>2, <1>3, <2>1 DEF Numeric, Negative
  <2>3. Neg(F, z) > 0
    <3>1. PICK u \in 0 .. 2^F.x - 1 : Neg(F, z) = u * Ulp(F)
      BY <2>2 DEF PrecisionWords
    <3>2. 2^F.x \in Nat /\ Ulp(F) \in Nat
      BY Sizes
    <3>3. Neg(F, z) \in Nat
      BY <3>1, <3>2
    <3> QED
      BY <2>2, <3>3
  <2> QED
    BY <1>3, <2>2, <2>3, WordBelowNaR DEF Magnitude, Signed
<1>4. CASE ~ Negative(F, z)
  BY <1>1, <1>2, <1>4, WordBelowNaR DEF Magnitude, Signed, Negative
<1> QED
  BY <1>3, <1>4

\* A result is a number again once it has its sign.
LEMMA SignedWord ==
    ASSUME NEW F, IsFormat(F), NEW s \in BOOLEAN, NEW z \in PositiveWords(F)
    PROVE  Numeric(F, Signed(F, s, z)) /\ (Negative(F, Signed(F, s, z)) <=> s)
<1>1. z \in PrecisionWords(F) /\ Numeric(F, z) /\ ~ Negative(F, z)
  BY PositiveWord
<1>2. Numeric(F, Neg(F, z)) /\ Negative(F, Neg(F, z))
  BY <1>1, Negation
<1> QED
  BY <1>1, <1>2 DEF Signed

-----------------------------------------------------------------------------
(* The shape of a positive word of w bits: a regime of value k begins at   *)
(* RegimeStart and leaves BitsLeft bits, which count j.                    *)

RegimeStart(w, k) == IF k < 0 THEN 2^(w - 2 + k) ELSE 2^(w - 1) - 2^(w - 2 - k)

BitsLeft(w, k) == IF k < 0 THEN w - 2 + k ELSE IF k = w - 2 THEN 0 ELSE w - 3 - k

Shaped(w, u, k, j) ==
    /\ k \in -(w - 2) .. w - 2
    /\ j \in 0 .. 2^BitsLeft(w, k) - 1
    /\ u = RegimeStart(w, k) + j

LEMMA ShapeSizes ==
    ASSUME NEW w \in Nat, w >= 2, NEW k \in -(w - 2) .. w - 2
    PROVE  /\ BitsLeft(w, k) \in 0 .. w - 2
           /\ 2^BitsLeft(w, k) \in Nat /\ 2^BitsLeft(w, k) >= 1
           /\ RegimeStart(w, k) \in Nat /\ RegimeStart(w, k) >= 1
           /\ RegimeStart(w, k) + 2^BitsLeft(w, k) <= 2^(w - 1)
           /\ k < 0 => RegimeStart(w, k) + 2^BitsLeft(w, k) <= 2^(w - 2)
           /\ k >= 0 => RegimeStart(w, k) >= 2^(w - 2)
<1>1. BitsLeft(w, k) \in 0 .. w - 2
  BY DEF BitsLeft
<1>2. 2^BitsLeft(w, k) \in Nat /\ 2^BitsLeft(w, k) >= 1
  BY <1>1, PowerType
<1>3. 2^(w - 1) = 2 * 2^(w - 2) /\ 2^(w - 2) \in Nat /\ 2^(w - 2) >= 1
  <2>1. w - 1 \in Nat /\ w - 1 >= 1 /\ (w - 1) - 1 = w - 2
    OBVIOUS
  <2> QED
    BY <2>1, PowerBelow
<1>4. CASE k < 0
  <2>1. w - 2 + k \in Nat /\ (w - 2 + k) + 1 <= w - 2 /\ w - 2 \in Nat /\ (w - 2 + k) + 1 \in Nat
    BY <1>4
  <2>2. 2^((w - 2 + k) + 1) = 2 * 2^(w - 2 + k) /\ 2^((w - 2 + k) + 1) <= 2^(w - 2)
        /\ 2^(w - 2 + k) \in Nat /\ 2^(w - 2 + k) >= 1
    BY <2>1, PowerStep, PowerMonotone, PowerType
  <2>3. RegimeStart(w, k) = 2^(w - 2 + k) /\ BitsLeft(w, k) = w - 2 + k
    BY <1>4 DEF RegimeStart, BitsLeft
  <2> QED
    BY <1>1, <1>2, <1>3, <1>4, <2>2, <2>3
<1>5. CASE k >= 0 /\ k # w - 2
  <2>1. w - 3 - k \in Nat /\ (w - 3 - k) + 1 = w - 2 - k /\ w - 2 - k <= w - 2 /\ w - 2 \in Nat
        /\ w - 2 - k \in Nat
    BY <1>5
  <2>2. 2^(w - 2 - k) = 2 * 2^(w - 3 - k) /\ 2^(w - 2 - k) <= 2^(w - 2)
        /\ 2^(w - 3 - k) \in Nat /\ 2^(w - 3 - k) >= 1
    BY <2>1, PowerStep, PowerMonotone, PowerType
  <2>3. RegimeStart(w, k) = 2^(w - 1) - 2^(w - 2 - k) /\ BitsLeft(w, k) = w - 3 - k
    BY <1>5 DEF RegimeStart, BitsLeft
  <2> QED
    BY <1>1, <1>2, <1>3, <1>5, <2>2, <2>3
<1>6. CASE k = w - 2 /\ k >= 0
  <2>1. RegimeStart(w, k) = 2^(w - 1) - 1 /\ 2^BitsLeft(w, k) = 1
    <3>1. w - 2 - k = 0
      BY <1>6
    <3> QED
      BY <1>6, <3>1, PowerZero DEF RegimeStart, BitsLeft
  <2> QED
    BY <1>1, <1>2, <1>3, <1>6, <2>1
<1> QED
  BY <1>4, <1>5, <1>6

\* A longer regime above one, or a shorter one below it, begins behind all words of
\* the others.
LEMMA RegimesInOrder ==
    ASSUME NEW w \in Nat, w >= 2,
           NEW k \in -(w - 2) .. w - 2, NEW l \in -(w - 2) .. w - 2, k < l
    PROVE  RegimeStart(w, k) + 2^BitsLeft(w, k) <= RegimeStart(w, l)
<1>1. CASE k < 0 /\ l < 0
  <2>1. w - 2 + k \in Nat /\ (w - 2 + k) + 1 <= w - 2 + l /\ w - 2 + l \in Nat
        /\ (w - 2 + k) + 1 \in Nat
    BY <1>1
  <2>2. 2^((w - 2 + k) + 1) = 2 * 2^(w - 2 + k) /\ 2^((w - 2 + k) + 1) <= 2^(w - 2 + l)
        /\ 2^(w - 2 + k) \in Nat /\ 2^(w - 2 + l) \in Nat
    BY <2>1, PowerStep, PowerMonotone, PowerType
  <2> QED
    BY <1>1, <2>2 DEF RegimeStart, BitsLeft
<1>2. CASE k < 0 /\ l >= 0
  <2>1. w - 2 \in Nat /\ 2^(w - 2) \in Nat
    BY PowerType
  <2>2. /\ RegimeStart(w, k) + 2^BitsLeft(w, k) <= 2^(w - 2)
        /\ RegimeStart(w, k) \in Nat /\ 2^BitsLeft(w, k) \in Nat
    BY <1>2, ShapeSizes
  <2>3. RegimeStart(w, l) >= 2^(w - 2) /\ RegimeStart(w, l) \in Nat
    BY <1>2, ShapeSizes
  <2> QED
    BY <2>1, <2>2, <2>3
<1>3. CASE k >= 0
  <2>1. w - 3 - k \in Nat /\ (w - 3 - k) + 1 = w - 2 - k /\ w - 2 - l <= w - 3 - k
        /\ w - 2 - l \in Nat /\ k # w - 2 /\ l >= 0 /\ w - 1 \in Nat
    BY <1>3
  <2>2. 2^(w - 2 - k) = 2 * 2^(w - 3 - k) /\ 2^(w - 2 - l) <= 2^(w - 3 - k)
        /\ 2^(w - 3 - k) \in Nat /\ 2^(w - 2 - l) \in Nat /\ 2^(w - 1) \in Nat
    BY <2>1, PowerStep, PowerMonotone, PowerType
  <2>3. /\ RegimeStart(w, k) = 2^(w - 1) - 2^(w - 2 - k) /\ BitsLeft(w, k) = w - 3 - k
        /\ RegimeStart(w, l) = 2^(w - 1) - 2^(w - 2 - l)
    BY <1>3, <2>1 DEF RegimeStart, BitsLeft
  <2> QED
    BY <2>2, <2>3
<1> QED
  BY <1>1, <1>2, <1>3

\* The order of the words is the order of the regimes, then of what follows them.
LEMMA ShapeOrder ==
    ASSUME NEW w \in Nat, w >= 2, NEW u, NEW k, NEW j, NEW v, NEW l, NEW i,
           Shaped(w, u, k, j), Shaped(w, v, l, i)
    PROVE  /\ u \in 1 .. 2^(w - 1) - 1
           /\ k \in Int /\ l \in Int /\ j \in Nat /\ i \in Nat
           /\ u < v <=> k < l \/ (k = l /\ j < i)
           /\ u = v <=> k = l /\ j = i
<1> DEFINE K == 2^BitsLeft(w, k)
           L == 2^BitsLeft(w, l)
           S == RegimeStart(w, k)
           T == RegimeStart(w, l)
<1>1. k \in -(w - 2) .. w - 2 /\ l \in -(w - 2) .. w - 2 /\ u = S + j /\ v = T + i
      /\ j \in 0 .. K - 1 /\ i \in 0 .. L - 1
  BY DEF Shaped
<1>2. K \in Nat /\ S \in Nat /\ S >= 1 /\ S + K <= 2^(w - 1)
  BY <1>1, ShapeSizes
<1>3. L \in Nat /\ T \in Nat /\ T >= 1 /\ T + L <= 2^(w - 1)
  BY <1>1, ShapeSizes
<1>4. k < l => S + K <= T
  BY <1>1, RegimesInOrder
<1>5. l < k => T + L <= S
  BY <1>1, RegimesInOrder
<1>6. k = l => S = T
  OBVIOUS
<1>7. w - 1 \in Nat /\ 2^(w - 1) \in Nat
  BY PowerType
<1> HIDE DEF K, L, S, T
<1> QED
  BY <1>1, <1>2, <1>3, <1>4, <1>5, <1>6, <1>7

\* Every positive word has a shape.
LEMMA ShapeExists ==
    ASSUME NEW w \in Nat, w >= 2, NEW u \in 1 .. 2^(w - 1) - 1
    PROVE  \E k, j : Shaped(w, u, k, j)
<1>1. w - 1 \in Nat /\ w - 1 >= 1 /\ (w - 1) - 1 = w - 2 /\ w - 2 \in Nat
  OBVIOUS
<1>2. 2^(w - 1) = 2 * 2^(w - 2) /\ 2^(w - 2) \in Nat /\ 2^(w - 2) >= 1
  BY <1>1, PowerBelow
<1>3. CASE u < 2^(w - 2)
  <2>1. w - 3 \in Nat /\ (w - 3) + 1 = w - 2
    <3>1. 2^0 = 1
      BY PowerZero
    <3>2. w = 2 => w - 2 = 0
      OBVIOUS
    <3>3. w - 2 = 0 => 2^(w - 2) = 1
      BY <3>1
    <3>4. w # 2
      BY <1>3, <3>2, <3>3
    <3> QED
      BY <3>4
  <2>2. PICK L \in 0 .. w - 3 : 2^L <= u /\ u < 2^(L + 1)
    <3>1. u \in Nat /\ u >= 1 /\ u < 2^((w - 3) + 1)
      BY <1>2, <1>3, <2>1
    <3> QED
      BY <2>1, <3>1, LeadingPower
  <2> DEFINE k == L - (w - 2)
  <2>3. k \in -(w - 2) .. w - 2 /\ k < 0 /\ w - 2 + k = L
    BY <2>1
  <2>4. 2^(L + 1) = 2 * 2^L /\ 2^L \in Nat
    BY PowerStep, PowerType
  <2>5. u - 2^L \in 0 .. 2^L - 1 /\ u = 2^L + (u - 2^L)
    BY <2>2, <2>4
  <2>6. Shaped(w, u, k, u - 2^L)
    BY <2>3, <2>5 DEF Shaped, RegimeStart, BitsLeft
  <2> QED
    BY <2>6
<1>4. CASE u = 2^(w - 1) - 1
  <2>1. w - 2 >= 0 /\ w - 2 - (w - 2) = 0 /\ w - 2 \in -(w - 2) .. w - 2
    OBVIOUS
  <2>2. RegimeStart(w, w - 2) = 2^(w - 1) - 1 /\ 2^BitsLeft(w, w - 2) = 1
    BY <2>1, PowerZero DEF RegimeStart, BitsLeft
  <2>3. Shaped(w, u, w - 2, 0)
    BY <1>2, <1>4, <2>1, <2>2 DEF Shaped
  <2> QED
    BY <2>3
<1>5. CASE u >= 2^(w - 2) /\ u # 2^(w - 1) - 1
  <2> DEFINE rest == 2^(w - 1) - 1 - u
  <2>1. rest \in Nat /\ rest >= 1 /\ rest < 2^(w - 2)
    BY <1>2, <1>5
  <2>2. w - 3 \in Nat /\ (w - 3) + 1 = w - 2
    <3>1. 2^0 = 1
      BY PowerZero
    <3>2. w = 2 => w - 2 = 0
      OBVIOUS
    <3>3. w - 2 = 0 => 2^(w - 2) = 1
      BY <3>1
    <3>4. w # 2
      BY <2>1, <3>2, <3>3
    <3> QED
      BY <3>4
  <2>3. PICK L \in 0 .. w - 3 : 2^L <= rest /\ rest < 2^(L + 1)
    <3> HIDE DEF rest
    <3> QED
      BY <2>1, <2>2, LeadingPower
  <2> DEFINE k == w - 3 - L
  <2>4. k \in -(w - 2) .. w - 2 /\ k >= 0 /\ k # w - 2 /\ w - 3 - k = L /\ w - 2 - k = L + 1
    BY <2>2
  <2>5. 2^(L + 1) = 2 * 2^L /\ 2^L \in Nat
    BY PowerStep, PowerType
  <2>6. /\ 2^(L + 1) - 1 - rest \in 0 .. 2^L - 1
        /\ u = 2^(w - 1) - 2^(L + 1) + (2^(L + 1) - 1 - rest)
    BY <1>2, <2>1, <2>3, <2>5
  <2>7. Shaped(w, u, k, 2^(L + 1) - 1 - rest)
    <3>1. RegimeStart(w, k) = 2^(w - 1) - 2^(L + 1) /\ BitsLeft(w, k) = L
      BY <2>4 DEF RegimeStart, BitsLeft
    <3> HIDE DEF rest, k
    <3> QED
      BY <2>4, <2>6, <3>1 DEF Shaped
  <2> QED
    BY <2>7
<1> QED
  BY <1>2, <1>3, <1>4, <1>5

-----------------------------------------------------------------------------
(* The loop over the regime, and the fields it finds.                      *)

LEMMA LeadingIs ==
    ASSUME NEW w \in Nat, NEW i \in 0 .. w, NEW m \in Nat, 2^i <= m, m < 2^(i + 1)
    PROVE  Leading(m, w) = i
<1>1. \A l \in 0 .. w : m \div 2^l = 1 <=> 2^l <= m /\ m < 2^(l + 1)
  <2> TAKE l \in 0 .. w
  <2>1. 2^l \in Nat /\ 2^l > 0 /\ 2^(l + 1) = 2 * 2^l
    BY PowerStep, PowerType
  <2> QED
    BY <2>1, QuotientOne
<1>2. m \div 2^i = 1
  BY <1>1
<1>3. \A l \in 0 .. w : m \div 2^l = 1 => l = i
  <2> SUFFICES ASSUME NEW l \in 0 .. w, m \div 2^l = 1 PROVE l = i
    OBVIOUS
  <2>1. 2^l <= m /\ m < 2^(l + 1) /\ l \in Nat /\ i \in Nat
    BY <1>1
  <2> QED
    BY <2>1, LeadingUnique
<1> QED
  BY <1>2, <1>3 DEF Leading

LEMMA BitTop ==
    ASSUME NEW k \in Nat, NEW u \in 0 .. 2^(k + 1) - 1
    PROVE  Bit(u, k) = IF u < 2^k THEN 0 ELSE 1
<1>1. 2^k \in Nat /\ 2^k > 0 /\ 2^(k + 1) = 2 * 2^k
  BY PowerStep, PowerType
<1>2. CASE u < 2^k
  <2>1. u \div 2^k = 0
    <3>1. u = 2^k * 0 + u /\ u \in 0 .. 2^k - 1 /\ u \in Int
      BY <1>1, <1>2
    <3> QED
      BY <1>1, <3>1, DivisionUnique
  <2> QED
    BY <1>2, <2>1 DEF Bit
<1>3. CASE u >= 2^k
  <2>1. u \div 2^k = 1
    BY <1>1, <1>3, QuotientOne
  <2> QED
    BY <1>1, <1>3, <2>1 DEF Bit
<1> QED
  BY <1>1, <1>2, <1>3

LEMMA RunOfShape ==
    ASSUME NEW F, IsFormat(F), NEW u, NEW k, NEW j, Shaped(F.n, u, k, j)
    PROVE  /\ RunLength(F, u) = RegimeLength(k)
           /\ Bit(u, F.n - 2) = IF k < 0 THEN 0 ELSE 1
<1> DEFINE n == F.n
<1>1. n \in Nat /\ n >= 3
  BY DEF IsFormat
<1>2. 2^(n - 1) = 2 * 2^(n - 2) /\ 2^(n - 2) \in Nat /\ 2^(n - 2) >= 1 /\ n - 2 \in Nat
      /\ (n - 2) + 1 = n - 1
  <2>1. n - 1 \in Nat /\ n - 1 >= 1 /\ (n - 1) - 1 = n - 2 /\ n - 2 \in Nat /\ (n - 2) + 1 = n - 1
    BY <1>1
  <2> QED
    BY <2>1, PowerBelow
<1>3. /\ k \in -(n - 2) .. n - 2 /\ j \in 0 .. 2^BitsLeft(n, k) - 1
      /\ u = RegimeStart(n, k) + j
  BY DEF Shaped
<1> HIDE DEF n
<1>4. /\ 2^BitsLeft(n, k) \in Nat /\ RegimeStart(n, k) \in Nat /\ RegimeStart(n, k) >= 1
      /\ RegimeStart(n, k) + 2^BitsLeft(n, k) <= 2^(n - 1)
      /\ k < 0 => RegimeStart(n, k) + 2^BitsLeft(n, k) <= 2^(n - 2)
      /\ k >= 0 => RegimeStart(n, k) >= 2^(n - 2)
  BY <1>1, <1>3, ShapeSizes
<1>5. u \in 1 .. 2^(n - 1) - 1 /\ (u < 2^(n - 2) <=> k < 0)
  BY <1>2, <1>3, <1>4
<1>6. Bit(u, n - 2) = IF k < 0 THEN 0 ELSE 1
  <2>1. u \in 0 .. 2^((n - 2) + 1) - 1
    BY <1>2, <1>5
  <2>2. Bit(u, n - 2) = IF u < 2^(n - 2) THEN 0 ELSE 1
    BY <1>2, <2>1, BitTop
  <2> QED
    BY <1>5, <2>2
<1>7. CASE k < 0
  <2> DEFINE L == n - 2 + k
  <2>1. L \in 0 .. n - 2 /\ L \in Nat
    BY <1>1, <1>3, <1>7
  <2>2. RegimeStart(n, k) = 2^L /\ BitsLeft(n, k) = L
    BY <1>7 DEF RegimeStart, BitsLeft
  <2>3. 2^(L + 1) = 2 * 2^L /\ 2^L \in Nat
    BY <2>1, PowerStep, PowerType
  <2>4. 2^L <= u /\ u < 2^(L + 1)
    <3> HIDE DEF L
    <3> QED
      BY <1>3, <2>2, <2>3
  <2>5. Leading(u, n - 2) = L
    <3> HIDE DEF L
    <3> QED
      BY <1>2, <1>5, <2>1, <2>4, LeadingIs
  <2>6. u # 0 /\ n - 2 - L = -k /\ Bit(u, n - 2) # 1
    BY <1>1, <1>3, <1>5, <1>6, <1>7
  <2>7. RunLength(F, u) = n - 2 - L
    <3> HIDE DEF L
    <3> QED
      BY <2>5, <2>6 DEF RunLength, n
  <2> QED
    BY <1>6, <1>7, <2>6, <2>7 DEF RegimeLength, n
<1>8. CASE k = n - 2
  <2>1. k >= 0 /\ BitsLeft(n, k) = 0 /\ RegimeStart(n, k) = 2^(n - 1) - 1
    <3>1. k >= 0 /\ n - 2 - k = 0 /\ ~ (k < 0)
      BY <1>1, <1>8
    <3> QED
      BY <1>8, <3>1, PowerZero DEF BitsLeft, RegimeStart
  <2>2. j = 0
    BY <1>3, <2>1, PowerZero
  <2>3. maxpos(F) - u = 0 /\ Bit(u, n - 2) = 1
    BY <1>2, <1>3, <1>6, <2>1, <2>2 DEF maxpos, n
  <2>4. RunLength(F, u) = n - 1
    BY <2>3 DEF RunLength, n
  <2>5. RegimeLength(k) = n - 1 /\ ~ (k < 0)
    BY <1>1, <1>8, <2>1 DEF RegimeLength
  <2> QED
    BY <1>6, <2>4, <2>5 DEF n
<1>9. CASE k >= 0 /\ k # n - 2
  <2> DEFINE L == n - 3 - k
             rest == maxpos(F) - u
  <2>1. L \in 0 .. n - 2 /\ L \in Nat /\ n - 2 - k = L + 1
    BY <1>1, <1>3, <1>9
  <2>2. RegimeStart(n, k) = 2^(n - 1) - 2^(L + 1) /\ BitsLeft(n, k) = L
    BY <1>3, <1>9, <2>1 DEF RegimeStart, BitsLeft
  <2>3. 2^(L + 1) = 2 * 2^L /\ 2^L \in Nat
    BY <2>1, PowerStep, PowerType
  <2>4. rest \in Nat /\ 2^L <= rest /\ rest < 2^(L + 1) /\ rest # 0
    <3>1. rest = 2^(n - 1) - 1 - u
      BY DEF maxpos, n
    <3> HIDE DEF L, rest
    <3>2. 2^L >= 1
      BY <2>1, PowerType
    <3> QED
      BY <1>2, <1>3, <2>2, <2>3, <3>1, <3>2
  <2>5. Leading(rest, n - 2) = L
    <3> HIDE DEF L, rest
    <3> QED
      BY <1>2, <2>1, <2>4, LeadingIs
  <2>6. n - 2 - L = k + 1 /\ Bit(u, n - 2) = 1
    BY <1>1, <1>3, <1>6, <1>9
  <2>7. RunLength(F, u) = n - 2 - L
    <3> HIDE DEF L
    <3> QED
      BY <2>4, <2>5, <2>6 DEF RunLength, n
  <2> QED
    BY <1>3, <1>6, <1>9, <2>6, <2>7 DEF RegimeLength, n
<1> QED
  BY <1>3, <1>7, <1>8, <1>9 DEF n

\* What follows the regime, split into an exponent below e and a significand of
\* at least one times e.
LEMMA FieldSplit ==
    ASSUME NEW one \in Nat, one > 0, NEW e \in Nat, e > 0, NEW t \in Nat, t < e * one
    PROVE  /\ t \div one \in 0 .. e - 1
           /\ t % one \in 0 .. one - 1
           /\ (one + (t % one)) * e \in one * e .. 2 * (one * e) - 1
           /\ (t \div one) * (one * e) + ((one + (t % one)) * e - one * e) = t * e
<1> DEFINE q == t \div one
           r == t % one
<1>1. q \in 0 .. e - 1
  BY QuotientBelow
<1>2. r \in 0 .. one - 1 /\ t = one * q + r
  BY Division
<1> HIDE DEF q, r
<1>3. r * e <= (one - 1) * e /\ 0 * e <= r * e
  <2>1. r <= one - 1 /\ 0 <= r /\ r \in Int /\ one - 1 \in Int /\ 0 \in Int
    BY <1>2
  <2> QED
    BY <2>1, ScaledOrder
<1>4. /\ (one + r) * e = one * e + r * e /\ (one - 1) * e = one * e - e /\ 0 * e = 0
      /\ one * e \in Nat /\ r * e \in Int
  BY <1>2
<1>5. (one + r) * e \in one * e .. 2 * (one * e) - 1
  BY <1>3, <1>4
<1>6. q * (one * e) + r * e = t * e
  <2>1. (one * q + r) * e = q * (one * e) + r * e
    BY <1>1, <1>2
  <2> QED
    BY <1>2, <2>1
<1>7. q * (one * e) + ((one + r) * e - one * e) = t * e
  <2>1. (one + r) * e - one * e = r * e
    BY <1>4
  <2> QED
    BY <1>6, <2>1
<1> QED
  BY <1>1, <1>2, <1>5, <1>7 DEF q, r

\* Shifted over its regime of length r, a word is what follows the regime, in its
\* place behind the sign.
LEMMA TailOfShape ==
    ASSUME NEW n \in Nat, n >= 2, NEW u, NEW k, NEW j, Shaped(n, u, k, j)
    PROVE  /\ RegimeLength(k) \in 1 .. n - 1
           /\ k \in Int /\ j \in Nat /\ u \in Nat
           /\ j = 0 \/ RegimeLength(k) + 1 = n - 1 - BitsLeft(n, k)
           /\ j * 2^(RegimeLength(k) + 1) \in 0 .. 2^(n - 1) - 1
           /\ (u * 2^(RegimeLength(k) + 1)) % 2^(n - 1) = j * 2^(RegimeLength(k) + 1)
<1> DEFINE r == RegimeLength(k)
           B == BitsLeft(n, k)
           S == RegimeStart(n, k)
           R == 2^(r + 1)
           N == 2^(n - 1)
<1>1. k \in -(n - 2) .. n - 2 /\ j \in 0 .. 2^B - 1 /\ u = S + j
  BY DEF Shaped
<1>2. B \in 0 .. n - 2 /\ 2^B \in Nat /\ 2^B >= 1 /\ S \in Nat
  BY <1>1, ShapeSizes
<1>3. r \in 1 .. n - 1 /\ k \in Int /\ r + 1 \in Nat /\ n - 1 \in Nat
  BY <1>1 DEF RegimeLength
<1>4. R \in Nat /\ R >= 1 /\ N \in Nat /\ N >= 1
  BY <1>3, PowerType
<1>5. \E q \in Int : S * R = N * q
  <2>1. CASE k < 0
    <3>1. S = 2^(n - 2 + k) /\ r = -k
      BY <2>1 DEF RegimeStart, RegimeLength
    <3>2. n - 2 + k \in Nat /\ (n - 2 + k) + (r + 1) = n - 1
      BY <1>1, <2>1, <3>1
    <3>3. S * R = N
      BY <1>3, <3>1, <3>2, PowerSum
    <3>4. N = N * 1 /\ 1 \in Int
      BY <1>4
    <3> QED
      BY <3>3, <3>4
  <2>2. CASE k >= 0
    <3>1. S = N - 2^(n - 2 - k) /\ r = k + 1
      BY <1>1, <2>2 DEF RegimeStart, RegimeLength
    <3>2. n - 2 - k \in Nat /\ (n - 2 - k) + (r + 1) = (n - 1) + 1
      BY <1>1, <2>2, <3>1
    <3>3. 2^(n - 2 - k) \in Nat /\ 2^(n - 2 - k) * R = 2 * N
      <4>1. 2^((n - 2 - k) + (r + 1)) = 2^(n - 2 - k) * R
        BY <1>3, <3>2, PowerSum
      <4>2. 2^((n - 1) + 1) = 2 * N
        BY <1>3, PowerStep
      <4> QED
        BY <3>2, <4>1, <4>2, PowerType
    <3> DEFINE p == 2^(n - 2 - k)
    <3> HIDE DEF R, N, S, p
    <3>4. (N - p) * R = N * R - p * R /\ N * R - 2 * N = N * (R - 2) /\ R - 2 \in Int
      BY <1>4, <3>3 DEF p
    <3> QED
      BY <3>1, <3>3, <3>4 DEF p
  <2> QED
    BY <1>1, <2>1, <2>2
<1>6. j = 0 \/ r + 1 = n - 1 - B
  <2>1. CASE k = n - 2
    <3>1. B = 0
      BY <1>1, <2>1 DEF BitsLeft
    <3> QED
      BY <1>1, <3>1, PowerZero
  <2>2. CASE k # n - 2
    BY <1>1, <2>2 DEF BitsLeft, RegimeLength
  <2> QED
    BY <2>1, <2>2
<1>7. j * R \in 0 .. N - 1
  <2>1. CASE j = 0
    BY <1>4, <2>1
  <2>2. CASE r + 1 = n - 1 - B
    <3>1. N = R * 2^B
      <4>1. B \in Nat /\ B <= n - 1 /\ (n - 1) - B = r + 1
        BY <1>2, <2>2
      <4> QED
        BY <1>3, <4>1, PowerSplit
    <3> DEFINE p == 2^B
    <3> HIDE DEF R, N, p
    <3>2. p \in Nat /\ j \in 0 .. p - 1 /\ N = R * p
      BY <1>1, <1>2, <3>1 DEF p
    <3>3. j * R < p * R /\ j * R >= 0 * R
      BY <1>4, <3>2, ScaledOrder
    <3>4. p * R = N /\ 0 * R = 0 /\ j * R \in Int
      BY <1>4, <3>2
    <3> QED
      BY <1>4, <3>3, <3>4
  <2> QED
    BY <1>6, <2>1, <2>2
<1>8. (u * R) % N = j * R
  <2>1. PICK q \in Int : S * R = N * q
    BY <1>5
  <2> HIDE DEF R, N, S
  <2>2. u * R = S * R + j * R
    BY <1>1, <1>2, <1>4
  <2>3. u * R = N * q + j * R
    BY <2>1, <2>2
  <2>4. u * R \in Int /\ N > 0
    BY <1>1, <1>2, <1>4
  <2> QED
    BY <1>4, <1>7, <2>3, <2>4, DivisionUnique
<1> QED
  BY <1>1, <1>2, <1>3, <1>6, <1>7, <1>8

\* The logarithm of a number, with the significand in place of its logarithm, in
\* units of 2^-p: it grows with the number.  Along a regime it grows by the same
\* amount from each word to the next.
Height(p, scale, frac) == scale * 2^p + (frac - 2^p)

ShapeHeight(w, es, p, k, j) == k * 2^(es + p) + j * 2^(es + p - BitsLeft(w, k))

Significand(p, frac) == frac \in 2^p .. 2 * 2^p - 1

LEMMA ScanOfShape ==
    ASSUME NEW F, IsFormat(F), NEW u, NEW k, NEW j, Shaped(F.n, u, k, j)
    PROVE  LET s == Scan(F, u) IN
           /\ s.k = k /\ s.exp \in 0 .. 2^F.es - 1
           /\ Scale(F, s) \in Int
           /\ Significand(F.n - 1, s.frac)
           /\ \E q \in Nat : s.frac = 4 * q
           /\ Height(F.n - 1, Scale(F, s), s.frac) = ShapeHeight(F.n, F.es, F.n - 1, k, j)
<1> DEFINE n == F.n
           es == F.es
           r == RegimeLength(k)
           R == 2^(r + 1)
           N == 2^(n - 1)
           one == 2^(n - 1 - es)
           e == 2^es
           t == j * R
           q == t \div one
           d == t % one
           s == Scan(F, u)
<1>1. n \in Nat /\ es \in 0 .. 2 /\ n >= es + 3 /\ es \in Nat /\ n >= 2
  BY DEF IsFormat
<1>2. /\ r \in 1 .. n - 1 /\ k \in Int /\ j \in Nat /\ u \in Nat
      /\ j = 0 \/ r + 1 = n - 1 - BitsLeft(n, k)
      /\ t \in 0 .. N - 1
      /\ (u * R) % N = t
  BY <1>1, TailOfShape
<1>3. k \in -(n - 2) .. n - 2 /\ BitsLeft(n, k) \in 0 .. n - 2
  <2>1. k \in -(n - 2) .. n - 2
    BY DEF Shaped
  <2> QED
    BY <1>1, <2>1, ShapeSizes
<1>4. /\ one \in Nat /\ one > 0 /\ e \in Nat /\ e > 0 /\ R \in Nat /\ N \in Nat
      /\ N = one * e
      /\ \E o \in Nat : one = 4 * o
      /\ \E o \in Nat : R = 4 * o
  <2>1. n - 1 - es \in Nat /\ n - 1 \in Nat /\ r + 1 \in Nat /\ es <= n - 1
        /\ n - 1 - es >= 2 /\ r + 1 >= 2
    BY <1>1, <1>2
  <2>2. one \in Nat /\ one >= 1 /\ e \in Nat /\ e >= 1 /\ R \in Nat /\ N \in Nat
    BY <1>1, <2>1, PowerType
  <2>3. N = one * e
    BY <1>1, <2>1, PowerSplit
  <2>4. \A b \in Nat : b >= 2 => \E o \in Nat : 2^b = 4 * o
    <3> SUFFICES ASSUME NEW b \in Nat, b >= 2 PROVE \E o \in Nat : 2^b = 4 * o
      OBVIOUS
    <3>1. b - 2 \in Nat /\ (b - 2) + 1 \in Nat /\ ((b - 2) + 1) + 1 = b
      OBVIOUS
    <3>2. 2^b = 2 * 2^((b - 2) + 1) /\ 2^((b - 2) + 1) = 2 * 2^(b - 2) /\ 2^(b - 2) \in Nat
      BY <3>1, PowerStep, PowerType
    <3>3. 2^b = 4 * 2^(b - 2)
      BY <3>2
    <3> QED
      BY <3>2, <3>3
  <2> QED
    BY <2>1, <2>2, <2>3, <2>4
<1>5. s = [k |-> k, exp |-> q, frac |-> (one + d) * e]
  <2>1. RunLength(F, u) = r /\ Bit(u, n - 2) = IF k < 0 THEN 0 ELSE 1
    BY RunOfShape
  <2>2. (IF Bit(u, n - 2) = 1 THEN r - 1 ELSE -r) = k
    BY <1>2, <2>1 DEF RegimeLength
  <2>3. s = Fields(F, k, (u * R) % N)
    BY <2>1, <2>2 DEF Scan, Behind
  <2>4. s = Fields(F, k, t)
    BY <1>2, <2>3
  <2> QED
    BY <2>4 DEF Fields
<1>6. /\ q \in 0 .. e - 1
      /\ d \in 0 .. one - 1
      /\ (one + d) * e \in N .. 2 * N - 1
      /\ q * N + ((one + d) * e - N) = t * e
  <2>1. t \in Nat /\ t < e * one
    <3> HIDE DEF t, N, e, one
    <3> QED
      BY <1>2, <1>4
  <2> HIDE DEF t, N, e, one
  <2>2. /\ t \div one \in 0 .. e - 1
        /\ t % one \in 0 .. one - 1
        /\ (one + (t % one)) * e \in one * e .. 2 * (one * e) - 1
        /\ (t \div one) * (one * e) + ((one + (t % one)) * e - one * e) = t * e
    BY <1>4, <2>1, FieldSplit
  <2> QED
    BY <1>4, <2>2
<1>7. \E x \in Nat : (one + d) * e = 4 * x
  <2>1. PICK o1 \in Nat : one = 4 * o1
    BY <1>4
  <2>2. PICK o2 \in Nat : R = 4 * o2
    BY <1>4
  <2>3. t = one * q + d
    <3> HIDE DEF t, one
    <3>1. t \in Int
      BY <1>2
    <3> QED
      BY <1>4, <3>1, Division
  <2>4. t = 4 * (j * o2)
    BY <1>2, <2>2
  <2> HIDE DEF t, one, e, R, N, d, q
  <2>5. d = 4 * (j * o2 - o1 * q)
    BY <1>2, <1>6, <2>1, <2>3, <2>4
  <2>6. j * o2 - o1 * q \in Nat
    <3>1. j * o2 - o1 * q \in Int
      BY <1>2, <1>6
    <3> QED
      BY <1>6, <2>5, <3>1
  <2> DEFINE c == j * o2 - o1 * q
  <2>7. c \in Nat /\ d = 4 * c
    BY <2>5, <2>6
  <2> HIDE DEF c
  <2>8. (one + d) * e = 4 * ((o1 + c) * e) /\ (o1 + c) * e \in Nat
    BY <1>4, <2>1, <2>7
  <2> QED
    BY <2>8
<1>8. Scale(F, s) = k * e + q
  BY <1>5 DEF Scale
<1>9. Height(n - 1, Scale(F, s), s.frac) = ShapeHeight(n, es, n - 1, k, j)
  <2>1. Height(n - 1, Scale(F, s), s.frac) = (k * e + q) * N + ((one + d) * e - N)
    BY <1>5, <1>8 DEF Height
  <2>2. t * e = j * 2^(es + (n - 1) - BitsLeft(n, k))
    <3>1. CASE j = 0
      <4>1. es + (n - 1) - BitsLeft(n, k) \in Nat
        BY <1>1, <1>3
      <4>2. 2^(es + (n - 1) - BitsLeft(n, k)) \in Nat
        BY <4>1, PowerType
      <4>3. 0 * R = 0 /\ 0 * e = 0 /\ 0 * 2^(es + (n - 1) - BitsLeft(n, k)) = 0
        BY <1>4, <4>2
      <4> QED
        BY <3>1, <4>3
    <3>2. CASE r + 1 = n - 1 - BitsLeft(n, k)
      <4>1. (r + 1) + es = es + (n - 1) - BitsLeft(n, k) /\ r + 1 \in Nat
        BY <1>1, <1>2, <1>3, <3>2
      <4>2. 2^((r + 1) + es) = R * e
        BY <1>1, <4>1, PowerSum
      <4>3. (j * R) * e = j * (R * e)
        BY <1>2, <1>4
      <4> QED
        BY <4>1, <4>2, <4>3
    <3> QED
      BY <1>2, <3>1, <3>2
  <2>3. 2^(es + (n - 1)) = e * N
    <3>1. n - 1 \in Nat
      BY <1>1
    <3> QED
      BY <1>1, <3>1, PowerSum
  <2>4. (k * e + q) * N = k * (e * N) + q * N
    <3> HIDE DEF e, N, q
    <3> QED
      BY <1>2, <1>4, <1>6
  <2>5. k * (e * N) \in Int /\ q * N \in Int /\ (one + d) * e \in Int /\ t * e \in Int
    <3> HIDE DEF e, N, q, t, d, one
    <3> QED
      BY <1>2, <1>4, <1>6
  <2>6. (k * e + q) * N + ((one + d) * e - N) = k * (e * N) + t * e
    <3> HIDE DEF e, N, q, t, d, one
    <3> QED
      BY <1>4, <1>6, <2>4, <2>5
  <2> HIDE DEF e, N, q, t, d, one
  <2>7. ShapeHeight(n, es, n - 1, k, j) = k * (e * N) + t * e
    BY <2>2, <2>3 DEF ShapeHeight
  <2> QED
    BY <2>1, <2>6, <2>7
<1>10. Scale(F, s) \in Int
  <2> HIDE DEF e, q
  <2> QED
    BY <1>2, <1>4, <1>6, <1>8
<1>11. s.k = k /\ s.exp = q /\ s.frac = (one + d) * e
  BY <1>5
<1> QED
  <2>1. s.exp \in 0 .. 2^F.es - 1
    BY <1>6, <1>11
  <2>2. Significand(F.n - 1, s.frac)
    BY <1>6, <1>11 DEF Significand
  <2>3. \E x \in Nat : s.frac = 4 * x
    BY <1>7, <1>11
  <2> HIDE DEF s, e, q, d, t, one, R, N
  <2> QED
    BY <1>9, <1>10, <1>11, <2>1, <2>2, <2>3 DEF s, n, es

-----------------------------------------------------------------------------
(* The order of the words is the order of the numbers.                     *)

\* Numbers with two digits, the lower one below a.
LEMMA TwoDigits ==
    ASSUME NEW a \in Nat, a > 0, NEW k \in Int, NEW l \in Int,
           NEW x \in 0 .. a - 1, NEW y \in 0 .. a - 1
    PROVE  /\ k * a + x < l * a + y <=> k < l \/ (k = l /\ x < y)
           /\ k * a + x = l * a + y <=> k = l /\ x = y
<1>1. ASSUME NEW c \in Int, NEW d \in Int, c < d, NEW s \in 0 .. a - 1, NEW t \in 0 .. a - 1
      PROVE  c * a + s < d * a + t
  <2>1. (c + 1) * a <= d * a
    <3>1. c + 1 \in Int /\ c + 1 <= d
      BY <1>1
    <3> QED
      BY <3>1, ScaledOrder
  <2>2. (c + 1) * a = c * a + a /\ c * a \in Int /\ d * a \in Int
    OBVIOUS
  <2> QED
    BY <2>1, <2>2
<1>2. k < l => k * a + x < l * a + y
  BY <1>1
<1>3. l < k => l * a + y < k * a + x
  BY <1>1
<1>4. k * a \in Int /\ l * a \in Int
  OBVIOUS
<1>5. k = l => k * a = l * a
  OBVIOUS
<1> QED
  BY <1>2, <1>3, <1>4, <1>5

LEMMA HeightOrder ==
    ASSUME NEW p \in Nat, NEW s \in Int, NEW t \in Int, NEW f, NEW g,
           Significand(p, f), Significand(p, g)
    PROVE  /\ Height(p, s, f) < Height(p, t, g) <=> s < t \/ (s = t /\ f < g)
           /\ Height(p, s, f) = Height(p, t, g) <=> s = t /\ f = g
           /\ Height(p, s, f) \in Int /\ Height(p, t, g) \in Int
<1> DEFINE a == 2^p
           x == f - a
           y == g - a
<1>1. a \in Nat /\ a > 0
  BY PowerType
<1>2. f \in a .. 2 * a - 1 /\ g \in a .. 2 * a - 1
  BY DEF Significand
<1>3. Height(p, s, f) = s * a + x /\ Height(p, t, g) = t * a + y
  BY DEF Height
<1> HIDE DEF a
<1>4. x \in 0 .. a - 1 /\ y \in 0 .. a - 1 /\ (x < y <=> f < g) /\ (x = y <=> f = g)
  BY <1>1, <1>2
<1> HIDE DEF x, y
<1>5. /\ s * a + x < t * a + y <=> s < t \/ (s = t /\ x < y)
      /\ s * a + x = t * a + y <=> s = t /\ x = y
  BY <1>1, <1>4, TwoDigits
<1>6. s * a + x \in Int /\ t * a + y \in Int
  BY <1>1, <1>4
<1> QED
  BY <1>3, <1>4, <1>5, <1>6

\* What a regime of value k is worth, and its words.
LEMMA ShapeHeightDigits ==
    ASSUME NEW w \in Nat, w >= 2, NEW es \in Nat, NEW p \in Nat, es + p >= w - 2,
           NEW u, NEW k, NEW j, Shaped(w, u, k, j)
    PROVE  /\ 2^(es + p) \in Nat /\ 2^(es + p) > 0
           /\ 2^(es + p - BitsLeft(w, k)) \in Nat /\ 2^(es + p - BitsLeft(w, k)) > 0
           /\ 2^BitsLeft(w, k) \in Nat
           /\ 2^BitsLeft(w, k) * 2^(es + p - BitsLeft(w, k)) = 2^(es + p)
           /\ j * 2^(es + p - BitsLeft(w, k)) \in 0 .. 2^(es + p) - 1
           /\ ShapeHeight(w, es, p, k, j) \in Int
<1> DEFINE B == BitsLeft(w, k)
           a == 2^(es + p)
           c == 2^(es + p - B)
           b == 2^B
<1>1. k \in -(w - 2) .. w - 2 /\ j \in 0 .. b - 1
  BY DEF Shaped
<1>2. B \in 0 .. w - 2 /\ b \in Nat
  BY <1>1, ShapeSizes
<1>3. B \in Nat /\ es + p \in Nat /\ es + p - B \in Nat /\ B <= es + p
  BY <1>2
<1>4. a \in Nat /\ a >= 1 /\ c \in Nat /\ c >= 1
  BY <1>3, PowerType
<1>5. a = c * b
  BY <1>3, PowerSplit
<1>6. ShapeHeight(w, es, p, k, j) = k * a + j * c
  BY DEF ShapeHeight
<1> HIDE DEF a, b, c
<1>7. j * c < b * c /\ 0 * c <= j * c
  BY <1>1, <1>2, <1>4, ScaledOrder
<1>8. b * c = c * b /\ 0 * c = 0 /\ j * c \in Int /\ k * a \in Int
  BY <1>1, <1>2, <1>4
<1>9. j * c \in 0 .. a - 1
  BY <1>4, <1>5, <1>7, <1>8
<1>10. ShapeHeight(w, es, p, k, j) \in Int
  BY <1>6, <1>8
<1> QED
  BY <1>2, <1>4, <1>5, <1>8, <1>9, <1>10 DEF a, b, c

LEMMA ShapeHeightOrder ==
    ASSUME NEW w \in Nat, w >= 2, NEW es \in Nat, NEW p \in Nat, es + p >= w - 2,
           NEW u, NEW k, NEW j, NEW v, NEW l, NEW i, Shaped(w, u, k, j), Shaped(w, v, l, i)
    PROVE  /\ u < v <=> ShapeHeight(w, es, p, k, j) < ShapeHeight(w, es, p, l, i)
           /\ u = v <=> ShapeHeight(w, es, p, k, j) = ShapeHeight(w, es, p, l, i)
<1> DEFINE a == 2^(es + p)
           c == 2^(es + p - BitsLeft(w, k))
           d == 2^(es + p - BitsLeft(w, l))
<1>1. a \in Nat /\ a > 0 /\ c \in Nat /\ c > 0 /\ j * c \in 0 .. a - 1
  BY ShapeHeightDigits
<1>2. d \in Nat /\ d > 0 /\ i * d \in 0 .. a - 1
  BY ShapeHeightDigits
<1>3. /\ k \in Int /\ l \in Int /\ j \in Nat /\ i \in Nat
      /\ u < v <=> k < l \/ (k = l /\ j < i)
      /\ u = v <=> k = l /\ j = i
  BY ShapeOrder
<1>4. ShapeHeight(w, es, p, k, j) = k * a + j * c /\ ShapeHeight(w, es, p, l, i) = l * a + i * d
  BY DEF ShapeHeight
<1>5. k = l => c = d
  OBVIOUS
<1> HIDE DEF a, c, d
<1>6. /\ k * a + j * c < l * a + i * d <=> k < l \/ (k = l /\ j * c < i * d)
      /\ k * a + j * c = l * a + i * d <=> k = l /\ j * c = i * d
  BY <1>1, <1>2, <1>3, TwoDigits
<1>7. (j * c < i * c <=> j < i) /\ (j * c = i * c <=> j = i)
  BY <1>1, <1>3, ScaledOrder
<1>8. k = l => (j * c < i * d <=> j < i) /\ (j * c = i * d <=> j = i)
  BY <1>5, <1>7
<1> QED
  BY <1>3, <1>4, <1>6, <1>8

\* What every operation finds in a positive word.
LEMMA ScanPositive ==
    ASSUME NEW F, IsFormat(F), NEW u \in 1 .. NaR(F) - 1
    PROVE  /\ Scale(F, Scan(F, u)) \in Int
           /\ Significand(F.n - 1, Scan(F, u).frac)
           /\ \E q \in Nat : Scan(F, u).frac = 4 * q
<1>1. F.n \in Nat /\ F.n >= 2
  BY DEF IsFormat
<1>2. \E k, j : Shaped(F.n, u, k, j)
  BY <1>1, ShapeExists DEF NaR
<1> QED
  BY <1>2, ScanOfShape

LEMMA ScanOrder ==
    ASSUME NEW F, IsFormat(F), NEW u \in 1 .. NaR(F) - 1, NEW v \in 1 .. NaR(F) - 1, u < v
    PROVE  LET s == Scan(F, u)
               t == Scan(F, v)
           IN  Scale(F, s) < Scale(F, t) \/ (Scale(F, s) = Scale(F, t) /\ s.frac < t.frac)
<1>1. F.n \in Nat /\ F.n >= 2 /\ F.es \in Nat /\ F.n - 1 \in Nat /\ F.es + (F.n - 1) >= F.n - 2
  BY DEF IsFormat
<1>2. PICK k, j : Shaped(F.n, u, k, j)
  BY <1>1, ShapeExists DEF NaR
<1>3. PICK l, i : Shaped(F.n, v, l, i)
  BY <1>1, ShapeExists DEF NaR
<1>4. ShapeHeight(F.n, F.es, F.n - 1, k, j) < ShapeHeight(F.n, F.es, F.n - 1, l, i)
  BY <1>1, <1>2, <1>3, ShapeHeightOrder
<1> DEFINE s == Scan(F, u)
           t == Scan(F, v)
<1>5. /\ Scale(F, s) \in Int /\ Significand(F.n - 1, s.frac)
      /\ Height(F.n - 1, Scale(F, s), s.frac) = ShapeHeight(F.n, F.es, F.n - 1, k, j)
  BY <1>2, ScanOfShape
<1>6. /\ Scale(F, t) \in Int /\ Significand(F.n - 1, t.frac)
      /\ Height(F.n - 1, Scale(F, t), t.frac) = ShapeHeight(F.n, F.es, F.n - 1, l, i)
  BY <1>3, ScanOfShape
<1> HIDE DEF s, t
<1>7. Scale(F, s) < Scale(F, t) \/ (Scale(F, s) = Scale(F, t) /\ s.frac < t.frac)
  <2>1. Height(F.n - 1, Scale(F, s), s.frac) < Height(F.n - 1, Scale(F, t), t.frac)
    BY <1>4, <1>5, <1>6
  <2> QED
    BY <1>1, <1>5, <1>6, <2>1, HeightOrder
<1> QED
  BY <1>7 DEF s, t

-----------------------------------------------------------------------------
(* The end of every operation: regime, exponent and fraction laid out, cut *)
(* off and rounded.  Exponent and fraction are the digits of one number,   *)
(* Following, of which the word takes the first ones.                      *)

Following(F, ex, frac) == ex * 2^(2 * F.n - 2) + (frac % 2^(2 * F.n - 2))

\* The bits left behind a regime, and the digits cut off there.
Room(F, reg) == F.x - 2 - reg

CutOff(F, reg) == F.es + (2 * F.n - 2) - Room(F, reg)

\* The format and the place where an exponent bit is shifted by -1.
Misplaced(F, reg) == LostExpBits(F, reg) = 1 /\ F.px /\ F.x = F.n /\ F.es = 2

LEMMA RegimeInPlace ==
    ASSUME NEW F, IsFormat(F), NEW k \in Int, RegimeLength(k) <= F.x - 2
    PROVE  /\ k \in -(F.x - 2) .. F.x - 2
           /\ RegimeLength(k) \in Nat /\ RegimeLength(k) >= 1
           /\ BitsLeft(F.x, k) = Room(F, RegimeLength(k))
           /\ RegimeBits(F, k) = RegimeStart(F.x, k) * Ulp(F)
<1> DEFINE n == F.n
           x == F.x
           U == 2^(n - x)
<1>1. n \in Nat /\ x \in Nat /\ x >= 2 /\ x <= n /\ n >= 3 /\ n - x \in Nat
  BY DEF IsFormat
<1>2. U \in Nat
  BY <1>1, PowerType
<1>3. Ulp(F) = U
  BY DEF Ulp
<1>4. CASE k < 0
  <2>1. RegimeLength(k) = -k /\ -k >= 1 /\ -k <= x - 2
    BY <1>4 DEF RegimeLength
  <2>2. /\ n - 2 + k \in Nat /\ -k \in Nat /\ (n - 2 + k) + (-k) = n - 2
        /\ x - 2 + k \in Nat /\ (x - 2 + k) + (n - x) = n - 2 + k
    BY <1>1, <2>1
  <2>3. 2^(n - 2) = 2^(n - 2 + k) * 2^(-k) /\ 2^(n - 2 + k) = 2^(x - 2 + k) * U
    <3>1. 2^((n - 2 + k) + (-k)) = 2^(n - 2 + k) * 2^(-k)
      BY <2>2, PowerSum
    <3>2. 2^((x - 2 + k) + (n - x)) = 2^(x - 2 + k) * U
      BY <1>1, <2>2, PowerSum
    <3> QED
      BY <2>2, <3>1, <3>2
  <2>4. 2^(n - 2) \div 2^(-k) = 2^(n - 2 + k)
    <3> DEFINE a == 2^(n - 2 + k)
               b == 2^(-k)
    <3>1. a \in Nat /\ b \in Nat /\ b > 0 /\ 2^(n - 2) = a * b
      BY <2>2, <2>3, PowerType
    <3> HIDE DEF a, b
    <3>2. a * b \in Int /\ a * b = b * a + 0
      BY <3>1
    <3>3. (a * b) \div b = a
      BY <3>1, <3>2, DivisionUnique
    <3> QED
      BY <3>1, <3>3 DEF a, b
  <2>5. RegimeBits(F, k) = 2^(n - 2 + k) /\ RegimeStart(x, k) = 2^(x - 2 + k)
        /\ BitsLeft(x, k) = x - 2 + k
    BY <1>4, <2>4 DEF RegimeBits, RegimeStart, BitsLeft
  <2>6. BitsLeft(x, k) = Room(F, RegimeLength(k)) /\ k \in -(x - 2) .. x - 2
    BY <1>1, <1>4, <2>1, <2>5 DEF Room
  <2> QED
    BY <1>3, <2>1, <2>3, <2>5, <2>6
<1>5. CASE k >= 0
  <2>1. RegimeLength(k) = k + 1 /\ k + 1 <= x - 2 /\ k + 1 \in Nat
    BY <1>5 DEF RegimeLength
  <2>2. /\ n - 2 - k \in Nat /\ (n - 2 - k) + (k + 1) = n - 1
        /\ x - 2 - k \in Nat /\ (x - 2 - k) + (n - x) = n - 2 - k
        /\ x - 1 \in Nat /\ (x - 1) + (n - x) = n - 1
    BY <1>1, <1>5, <2>1
  <2> DEFINE a == 2^(n - 2 - k)
             b == 2^(k + 1)
             c == 2^(x - 2 - k)
             d == 2^(x - 1)
  <2>3. a \in Nat /\ a >= 1 /\ b \in Nat /\ b >= 1 /\ c \in Nat /\ d \in Nat
    BY <2>1, <2>2, PowerType
  <2>4. 2^(n - 1) = a * b
    <3>1. 2^((n - 2 - k) + (k + 1)) = a * b
      BY <2>1, <2>2, PowerSum
    <3> QED
      BY <2>2, <3>1
  <2>5. a = c * U
    <3>1. 2^((x - 2 - k) + (n - x)) = c * U
      BY <1>1, <2>2, PowerSum
    <3> QED
      BY <2>2, <3>1
  <2>6. 2^(n - 1) = d * U
    <3>1. 2^((x - 1) + (n - x)) = d * U
      BY <1>1, <2>2, PowerSum
    <3> QED
      BY <2>2, <3>1
  <2>7. (a * b - 1) \div b = a - 1
    <3> HIDE DEF a, b
    <3>1. a * b - 1 = b * (a - 1) + (b - 1) /\ a * b - 1 \in Int /\ b - 1 \in 0 .. b - 1
      BY <2>3
    <3> QED
      BY <2>3, <3>1, DivisionUnique
  <2>8. maxpos(F) = a * b - 1
    BY <2>4 DEF maxpos
  <2>9. RegimeBits(F, k) = (a * b - 1) - (a - 1)
    BY <1>5, <2>7, <2>8 DEF RegimeBits
  <2>10. RegimeStart(x, k) = d - c /\ BitsLeft(x, k) = x - 3 - k /\ k \in -(x - 2) .. x - 2
    BY <1>1, <1>5, <2>1 DEF RegimeStart, BitsLeft
  <2>11. RegimeBits(F, k) = (d - c) * U
    <3>1. a * b = d * U /\ (d - c) * U = d * U - c * U
      BY <1>2, <2>3, <2>4, <2>6
    <3> HIDE DEF a, b, c, d, U
    <3>2. d * U \in Int /\ c * U \in Int
      BY <1>2, <2>3
    <3> QED
      BY <2>5, <2>9, <3>1, <3>2
  <2>12. BitsLeft(x, k) = Room(F, RegimeLength(k))
    BY <1>1, <2>1, <2>10 DEF Room
  <2> QED
    BY <1>3, <1>5, <2>1, <2>10, <2>11, <2>12
<1> QED
  BY <1>4, <1>5

LEMMA CutOffSizes ==
    ASSUME NEW F, IsFormat(F), NEW reg \in 1 .. F.x - 2,
           NEW ex \in 0 .. 2^F.es - 1, NEW frac \in Nat
    PROVE  /\ CutOff(F, reg) \in Nat /\ CutOff(F, reg) > F.n
           /\ Room(F, reg) \in 0 .. F.x - 3
           /\ F.es \in Nat /\ 2 * F.n - 2 \in Nat
           /\ frac % 2^(2 * F.n - 2) \in 0 .. 2^(2 * F.n - 2) - 1
           /\ Following(F, ex, frac) \in 0 .. 2^(F.es + (2 * F.n - 2)) - 1
           /\ Following(F, ex, frac) \div 2^CutOff(F, reg) \in 0 .. 2^Room(F, reg) - 1
<1> DEFINE n == F.n
           x == F.x
           es == F.es
           P == 2 * n - 2
           R == Room(F, reg)
           D == CutOff(F, reg)
           f == frac % 2^P
           G == Following(F, ex, frac)
<1>1. n \in Nat /\ x \in Nat /\ x >= 2 /\ x <= n /\ es \in 0 .. 2 /\ n >= es + 3
  BY DEF IsFormat
<1>2. R \in 0 .. x - 3 /\ R = x - 2 - reg /\ P \in Nat /\ D = es + P - R /\ es \in Nat
  BY <1>1 DEF Room, CutOff
<1>3. D \in Nat /\ D > n
  BY <1>1, <1>2
<1>4. 2^P \in Nat /\ 2^P > 0 /\ 2^es \in Nat /\ 2^es > 0
  BY <1>2, PowerType
<1>5. f \in 0 .. 2^P - 1
  BY <1>4, Division
<1>6. 2^(es + P) = 2^es * 2^P /\ 2^(es + P) = 2^R * 2^D
  <2>1. R + D = es + P /\ R \in Nat
    BY <1>2
  <2>2. 2^(R + D) = 2^R * 2^D
    BY <1>3, <2>1, PowerSum
  <2> QED
    BY <1>2, <2>1, <2>2, PowerSum
<1>7. G \in 0 .. 2^(es + P) - 1
  <2>1. ex * 2^P + f \in 0 .. 2^es * 2^P - 1
    <3> HIDE DEF f
    <3> QED
      BY <1>4, <1>5, DigitsBelow
  <2>2. G = ex * 2^P + f
    BY DEF Following
  <2> HIDE DEF G
  <2> QED
    BY <1>6, <2>1, <2>2
<1>8. G \div 2^D \in 0 .. 2^R - 1
  <2>1. 2^R \in Nat /\ 2^D \in Nat /\ 2^D > 0
    BY <1>2, <1>3, PowerType
  <2>2. G \in Nat /\ G < 2^R * 2^D
    <3>1. 2^(es + P) \in Nat
      BY <1>2, PowerType
    <3>2. G \in Nat /\ G < 2^(es + P)
      <4> HIDE DEF G
      <4> QED
        BY <1>7, <3>1
    <3> QED
      BY <1>6, <3>2
  <2> HIDE DEF G, D, R
  <2> QED
    BY <2>1, <2>2, QuotientBelow
<1> QED
  BY <1>2, <1>3, <1>5, <1>7, <1>8

\* A significand of at most p digits, divided after an exponent in front of it.
LEMMA FollowingDivided ==
    ASSUME NEW e \in Nat, NEW p \in Nat, NEW low \in 0 .. 2^p - 1, NEW d \in Nat, d <= p
    PROVE  /\ (e * 2^p + low) \div 2^d = e * 2^(p - d) + (low \div 2^d)
           /\ (e * 2^p + low) % 2^d = low % 2^d
<1>1. 2^p \in Nat /\ 2^p > 0 /\ 2^d \in Nat /\ 2^d > 0
  BY PowerType
<1>2. p - d \in Nat /\ 2^p = 2^(p - d) * 2^d /\ 2^(p - d) \in Nat
  BY PowerSplit, PowerType
<1> DEFINE a == 2^p
           b == 2^d
           c == 2^(p - d)
<1> HIDE DEF a, b, c
<1>3. a = c * b /\ b \in Nat /\ b > 0 /\ c \in Nat /\ low \in Int
  BY <1>1, <1>2 DEF a, b, c
<1>4. e * a = (e * c) * b /\ e * c \in Int
  BY <1>3
<1>5. (e * a + low) \div b = e * c + (low \div b) /\ (e * a + low) % b = low % b
  BY <1>3, <1>4, DivisionOfSum
<1> QED
  BY <1>5 DEF a, b, c

LEMMA ExponentDivided ==
    ASSUME NEW e \in Nat, NEW p \in Nat, NEW low \in 0 .. 2^p - 1, NEW d \in Nat, d > p
    PROVE  /\ (e * 2^p + low) \div 2^d = e \div 2^(d - p)
           /\ (e * 2^p + low) % 2^d = (e % 2^(d - p)) * 2^p + low
<1>1. 2^p \in Nat /\ 2^p > 0 /\ 2^d \in Nat /\ 2^d > 0
  BY PowerType
<1>2. d - p \in Nat /\ 2^d = 2^(d - p) * 2^p /\ 2^(d - p) \in Nat /\ 2^(d - p) > 0
  BY PowerSplit, PowerType
<1> DEFINE a == 2^p
           b == 2^d
           c == 2^(d - p)
           y == e * a + low
<1> HIDE DEF a, b, c, y
<1>3. b = a * c /\ a \in Nat /\ a > 0 /\ c \in Nat /\ c > 0 /\ low \in 0 .. a - 1
  BY <1>1, <1>2 DEF a, b, c
<1>4. y \div a = e /\ y % a = low /\ y \in Int
  <2>1. low \div a = 0 /\ low % a = low
    BY <1>3, SmallDivision
  <2>2. (e * a + low) \div a = e + (low \div a) /\ (e * a + low) % a = low % a /\ e * a \in Int
    BY <1>3, DivisionOfSum
  <2> QED
    BY <1>3, <2>1, <2>2 DEF y
<1>5. (y \div a) \div c = y \div (a * c) /\ y % (a * c) = a * ((y \div a) % c) + (y % a)
  BY <1>3, <1>4, DivisionTwice
<1>6. y \div b = e \div c /\ y % b = a * (e % c) + low
  BY <1>3, <1>4, <1>5
<1>7. a * (e % c) = (e % c) * a
  <2>1. e % c \in Int
    BY <1>3, Division
  <2> QED
    BY <1>3, <2>1
<1> QED
  BY <1>6, <1>7 DEF a, b, c, y

LEMMA FirstDigits ==
    ASSUME NEW e \in Nat, NEW p \in Nat, NEW low \in 0 .. 2^p - 1
    PROVE  \A d \in Nat :
              /\ d <= p => (e * 2^p + low) \div 2^d = e * 2^(p - d) + (low \div 2^d)
              /\ d > p => (e * 2^p + low) \div 2^d = e \div 2^(d - p)
<1> TAKE d \in Nat
<1> DEFINE y == e * 2^p + low
<1>1. ASSUME d <= p PROVE y \div 2^d = e * 2^(p - d) + (low \div 2^d)
  <2>1. /\ y \div 2^d = e * 2^(p - d) + (low \div 2^d)
        /\ y % 2^d = low % 2^d
    BY <1>1, FollowingDivided, Zenon
  <2> QED
    BY <2>1
<1>2. ASSUME d > p PROVE y \div 2^d = e \div 2^(d - p)
  <2>1. /\ y \div 2^d = e \div 2^(d - p)
        /\ y % 2^d = (e % 2^(d - p)) * 2^p + low
    BY <1>2, ExponentDivided, Zenon
  <2> QED
    BY <2>1
<1> QED
  BY <1>1, <1>2

\* Behind the regime the word takes the first digits of what follows, and the next
\* one decides on the rounding.
LEMMA BehindInPlace ==
    ASSUME NEW F, IsFormat(F), NEW reg \in 1 .. F.x - 2,
           NEW ex \in 0 .. 2^F.es - 1, NEW frac \in Nat, ~ Misplaced(F, reg)
    PROVE  LET lost == LostExpBits(F, reg)
               fr   == ShiftedFraction(F, reg, frac)
               G    == Following(F, ex, frac)
           IN  /\ BehindRegime(F, reg, lost, ex, fr) = (G \div 2^CutOff(F, reg)) * Ulp(F)
               /\ HalfBit(F, lost, ex, fr) = (G \div 2^(CutOff(F, reg) - 1)) % 2
<1> DEFINE n == F.n
           x == F.x
           es == F.es
           P == 2 * n - 2
           R == Room(F, reg)
           D == CutOff(F, reg)
           f == frac % 2^P
           G == Following(F, ex, frac)
           lost == LostExpBits(F, reg)
           fr == ShiftedFraction(F, reg, frac)
           U == 2^(n - x)
<1>1. n \in Nat /\ x \in Nat /\ x >= 2 /\ x <= n /\ es \in 0 .. 2 /\ n >= es + 3
  BY DEF IsFormat
<1>2. /\ R \in 0 .. x - 3 /\ R = x - 2 - reg /\ P \in Nat /\ D = es + P - R /\ es \in Nat
      /\ D \in Nat /\ D > n /\ D - 1 \in Nat /\ reg \in Nat
  BY <1>1 DEF Room, CutOff
<1>3. f \in 0 .. 2^P - 1 /\ G = ex * 2^P + f /\ ex \in Nat
  <2>1. 2^es \in Nat
    BY <1>2, PowerType
  <2> QED
    BY <2>1, CutOffSizes DEF Following
<1>4. Ulp(F) = U /\ U \in Nat
  BY <1>1, PowerType DEF Ulp
<1>5. \A d \in Nat : /\ d <= P => G \div 2^d = ex * 2^(P - d) + (f \div 2^d)
                     /\ d > P => G \div 2^d = ex \div 2^(d - P)
  <2>1. P \in Nat /\ ex \in Nat /\ f \in 0 .. 2^P - 1
    BY <1>2, <1>3
  <2> HIDE DEF f, P, G
  <2>2. \A d \in Nat :
           /\ d <= P => (ex * 2^P + f) \div 2^d = ex * 2^(P - d) + (f \div 2^d)
           /\ d > P => (ex * 2^P + f) \div 2^d = ex \div 2^(d - P)
    BY <2>1, FirstDigits
  <2> QED
    BY <1>3, <2>2
<1>6. CASE R >= es
  <2>1. lost = 0
    BY <1>2, <1>6 DEF LostExpBits
  <2>2. /\ R - es \in Nat /\ D <= P /\ P - D = R - es /\ P - (D - 1) = (R - es) + 1
        /\ (R - es) + (n - x) = n - 2 - reg - es /\ n - x \in Nat
        /\ reg + es \in Nat /\ 2 * n - x \in Nat /\ (reg + es) + (2 * n - x) = D
        /\ 2 * n - 1 - x \in Nat /\ (reg + es) + (2 * n - 1 - x) = D - 1
    BY <1>1, <1>2, <1>6
  <2>3. fr = f \div 2^(reg + es)
    BY DEF ShiftedFraction
  <2>4. \A b \in Nat : fr \div 2^b = f \div 2^((reg + es) + b)
    <3> TAKE b \in Nat
    <3>1. 2^((reg + es) + b) = 2^(reg + es) * 2^b
      BY <2>2, PowerSum
    <3>2. 2^(reg + es) \in Nat /\ 2^(reg + es) > 0 /\ 2^b \in Nat /\ 2^b > 0
      BY <2>2, PowerType
    <3>3. f \in Int
      BY <1>3
    <3>4. (f \div 2^(reg + es)) \div 2^b = f \div (2^(reg + es) * 2^b)
      <4> HIDE DEF f
      <4> QED
        BY <3>2, <3>3, DivisionTwice
    <3> QED
      BY <2>3, <3>1, <3>4
  <2>5. fr \div 2^(2 * n - x) = f \div 2^D /\ fr \div 2^(2 * n - 1 - x) = f \div 2^(D - 1)
    BY <2>2, <2>4
  <2>6. /\ G \div 2^D = ex * 2^(R - es) + (f \div 2^D)
        /\ G \div 2^(D - 1) = ex * 2^((R - es) + 1) + (f \div 2^(D - 1))
    <3>1. D <= P /\ D - 1 <= P /\ D \in Nat /\ D - 1 \in Nat
      BY <1>2, <2>2
    <3>2. G \div 2^D = ex * 2^(P - D) + (f \div 2^D)
      BY <1>5, <3>1, Zenon
    <3>3. G \div 2^(D - 1) = ex * 2^(P - (D - 1)) + (f \div 2^(D - 1))
      BY <1>5, <3>1, Zenon
    <3> QED
      BY <2>2, <3>1, <3>2, <3>3
  <2>7. 2^(n - 2 - reg - es) = 2^(R - es) * U
    <3> DEFINE r == R - es
               m == n - x
    <3>1. r \in Nat /\ m \in Nat /\ n - 2 - reg - es = r + m
      BY <1>1, <2>2
    <3> HIDE DEF r, m
    <3>2. 2^(r + m) = 2^r * 2^m
      BY <3>1, PowerSum
    <3> QED
      BY <3>1, <3>2 DEF r, m
  <2>8. 2^((R - es) + 1) = 2 * 2^(R - es) /\ 2^(R - es) \in Nat
    BY <2>2, PowerStep, PowerType
  <2>9. f \div 2^D \in Int /\ f \div 2^(D - 1) \in Int
    <3>1. 2^D \in Nat /\ 2^D > 0 /\ 2^(D - 1) \in Nat /\ 2^(D - 1) > 0 /\ f \in Int
      BY <1>2, <1>3, PowerType
    <3> HIDE DEF f, D
    <3> QED
      BY <3>1, Division
  <2>10. BehindRegime(F, reg, lost, ex, fr) = (G \div 2^D) * U
    <3> DEFINE a == 2^(R - es)
               q == f \div 2^D
    <3>1. BehindRegime(F, reg, lost, ex, fr) = ex * (a * U) + q * U
      BY <1>4, <2>1, <2>5, <2>7 DEF BehindRegime
    <3>2. G \div 2^D = ex * a + q /\ a \in Nat /\ q \in Int
      BY <2>6, <2>8, <2>9
    <3> HIDE DEF a, q, U
    <3>3. (ex * a + q) * U = ex * (a * U) + q * U
      BY <1>3, <1>4, <3>2
    <3> QED
      BY <3>1, <3>2, <3>3
  <2>11. HalfBit(F, lost, ex, fr) = (G \div 2^(D - 1)) % 2
    <3> DEFINE a == 2^(R - es)
               q == f \div 2^(D - 1)
    <3>1. HalfBit(F, lost, ex, fr) = q % 2
      BY <2>1, <2>5 DEF HalfBit, Bit
    <3>2. G \div 2^(D - 1) = ex * (2 * a) + q /\ a \in Nat /\ q \in Int
      BY <2>6, <2>8, <2>9
    <3> HIDE DEF a, q
    <3>3. ex * (2 * a) = (ex * a) * 2 /\ ex * a \in Int
      BY <1>3, <3>2
    <3>4. ((ex * a) * 2 + q) % 2 = q % 2
      BY <3>2, <3>3, DivisionOfSum
    <3> QED
      BY <3>1, <3>2, <3>3, <3>4
  <2> QED
    BY <1>4, <2>10, <2>11
<1>7. CASE R < es
  <2>1. lost = es - R /\ lost \in 1 .. 2 /\ D = P + lost /\ lost \in Nat /\ lost - 1 \in Nat
    BY <1>1, <1>2, <1>7 DEF LostExpBits
  <2>2. G \div 2^D = ex \div 2^lost
    <3>1. D > P => G \div 2^D = ex \div 2^(D - P)
      BY <1>2, <1>5
    <3>2. D > P /\ D - P = lost
      BY <1>2, <2>1
    <3> QED
      BY <3>1, <3>2
  <2>3. G \div 2^(D - 1) = ex \div 2^(lost - 1)
    <3>1. CASE lost = 1
      <4>1. D - 1 = P
        BY <1>2, <2>1, <3>1
      <4>2. G \div 2^P = ex * 2^(P - P) + (f \div 2^P)
        <5>1. P \in Nat /\ P <= P
          BY <1>2
        <5> HIDE DEF f, P, G
        <5> QED
          BY <1>5, <5>1
      <4>3. P - P = 0 /\ f \div 2^P = 0
        <5>1. P - P = 0
          BY <1>2
        <5>2. 2^P \in Nat /\ f \in 0 .. 2^P - 1
          BY <1>2, <1>3, PowerType
        <5> HIDE DEF f, P
        <5> QED
          BY <5>1, <5>2, SmallDivision
      <4>4. ex \div 2^0 = ex
        BY <1>3, PowerZero
      <4>5. G \div 2^P = ex
        <5> HIDE DEF f, P, G
        <5>1. 2^(P - P) = 1
          BY <4>3, PowerZero
        <5>2. ex * 1 + 0 = ex
          BY <1>3
        <5> QED
          BY <4>2, <4>3, <5>1, <5>2
      <4> QED
        BY <3>1, <4>1, <4>4, <4>5
    <3>2. CASE lost # 1
      <4>1. D - 1 > P /\ (D - 1) - P = lost - 1
        BY <1>2, <2>1, <3>2
      <4>2. D - 1 > P => G \div 2^(D - 1) = ex \div 2^((D - 1) - P)
        BY <1>2, <1>5
      <4> QED
        BY <4>1, <4>2
    <3> QED
      BY <3>1, <3>2
  <2>4. lost # 0 /\ ~ (lost = 1 /\ F.px /\ F.x = F.n /\ F.es = 2)
    BY <2>1 DEF Misplaced
  <2>5. BehindRegime(F, reg, lost, ex, fr) = (ex \div 2^lost) * U
    <3> HIDE DEF lost, fr, U
    <3> QED
      BY <1>4, <2>4 DEF BehindRegime
  <2>6. HalfBit(F, lost, ex, fr) = (ex \div 2^(lost - 1)) % 2
    <3> HIDE DEF lost, fr
    <3> QED
      BY <2>4 DEF HalfBit, Bit
  <2> QED
    BY <1>4, <2>2, <2>3, <2>5, <2>6
<1> QED
  BY <1>2, <1>6, <1>7

\* The words of a regime that leaves room for a bit end below maxpos.
LEMMA RegimeEndsBelow ==
    ASSUME NEW w \in Nat, w >= 2, NEW k \in -(w - 2) .. w - 3, NEW j \in 0 .. 2^BitsLeft(w, k) - 1
    PROVE  /\ Shaped(w, RegimeStart(w, k) + j, k, j)
           /\ RegimeStart(w, k) + j \in 1 .. 2^(w - 1) - 2
           /\ RegimeStart(w, k) + j + 1 \in 1 .. 2^(w - 1) - 1
<1>1. k \in -(w - 2) .. w - 2 /\ k + 1 \in -(w - 2) .. w - 2 /\ k < k + 1
  OBVIOUS
<1>2. Shaped(w, RegimeStart(w, k) + j, k, j)
  BY <1>1 DEF Shaped
<1>3. RegimeStart(w, k) + 2^BitsLeft(w, k) <= RegimeStart(w, k + 1)
  BY <1>1, RegimesInOrder
<1>4. RegimeStart(w, k) \in Nat /\ RegimeStart(w, k) >= 1 /\ 2^BitsLeft(w, k) \in Nat
  BY <1>1, ShapeSizes
<1>5. /\ RegimeStart(w, k + 1) \in Nat /\ 2^BitsLeft(w, k + 1) >= 1 /\ 2^BitsLeft(w, k + 1) \in Nat
      /\ RegimeStart(w, k + 1) + 2^BitsLeft(w, k + 1) <= 2^(w - 1)
  BY <1>1, ShapeSizes
<1>6. w - 1 \in Nat /\ 2^(w - 1) \in Nat
  BY PowerType
<1> DEFINE s == RegimeStart(w, k)
           t == RegimeStart(w, k + 1)
           b == 2^BitsLeft(w, k)
           c == 2^BitsLeft(w, k + 1)
           m == 2^(w - 1)
<1>7. /\ s + j \in 1 .. m - 2
      /\ s + j + 1 \in 1 .. m - 1
  <2>1. s \in Nat /\ s >= 1 /\ t \in Nat /\ b \in Nat /\ c \in Nat /\ c >= 1 /\ m \in Nat
        /\ s + b <= t /\ t + c <= m /\ j \in 0 .. b - 1
    BY <1>3, <1>4, <1>5, <1>6
  <2> HIDE DEF s, t, b, c, m
  <2> QED
    BY <2>1
<1> QED
  BY <1>2, <1>7

\* Rounding adds one unit, or none.
LEMMA RoundUpUnits ==
    ASSUME NEW F, IsFormat(F), NEW t \in Nat, NEW half, NEW more
    PROVE  RoundUp(F, t * Ulp(F), half, more) =
               (IF half = 1 /\ (t % 2 = 1 \/ more) THEN t + 1 ELSE t) * Ulp(F)
<1> DEFINE U == Ulp(F)
<1>1. U \in Nat /\ U > 0
  BY Sizes
<1>2. Bit(t * U, F.n - F.x) = t % 2
  <2>1. Bit(t * U, F.n - F.x) = ((t * U) \div U) % 2
    BY DEF Bit, Ulp
  <2> HIDE DEF U
  <2>2. t * U \in Int /\ t * U = U * t + 0 /\ 0 \in 0 .. U - 1 /\ t \in Int
    BY <1>1
  <2>3. (t * U) \div U = t
    BY <1>1, <2>2, DivisionUnique
  <2> QED
    BY <2>1, <2>3
<1>3. t * U + U = (t + 1) * U
  <2> HIDE DEF U
  <2> QED
    BY <1>1
<1> QED
  BY <1>2, <1>3 DEF RoundUp

\* Where the regime fits: the first digits, rounded at the next one.
LEMMA RoundInRegime ==
    ASSUME NEW F, IsFormat(F), NEW scale \in Int, NEW frac \in Nat, NEW more,
           RegimeOf(F, scale) <= F.x - 2
    PROVE  LET k    == scale \div 2^F.es
               reg  == RegimeOf(F, scale)
               G    == Following(F, scale % 2^F.es, frac)
               j    == IF Misplaced(F, reg) THEN 0 ELSE G \div 2^CutOff(F, reg)
               t    == RegimeStart(F.x, k) + j
               half == HalfBit(F, LostExpBits(F, reg), scale % 2^F.es,
                               ShiftedFraction(F, reg, frac))
           IN  /\ k \in -(F.x - 2) .. F.x - 3
               /\ reg \in 1 .. F.x - 2
               /\ scale % 2^F.es \in 0 .. 2^F.es - 1
               /\ j \in 0 .. 2^BitsLeft(F.x, k) - 1
               /\ BitsLeft(F.x, k) = Room(F, reg)
               /\ ~ Misplaced(F, reg) => half = (G \div 2^(CutOff(F, reg) - 1)) % 2
               /\ Round(F, scale, frac, more) =
                     (IF half = 1 /\ (t % 2 = 1 \/ more) THEN t + 1 ELSE t) * Ulp(F)
<1> DEFINE k == scale \div 2^F.es
           ex == scale % 2^F.es
           reg == RegimeOf(F, scale)
           G == Following(F, ex, frac)
           lost == LostExpBits(F, reg)
           fr == ShiftedFraction(F, reg, frac)
           half == HalfBit(F, lost, ex, fr)
           j == IF Misplaced(F, reg) THEN 0 ELSE G \div 2^CutOff(F, reg)
           t == RegimeStart(F.x, k) + j
<1>1. F.es \in Nat /\ F.x \in Nat /\ F.x >= 2
  BY DEF IsFormat
<1>2. k \in Int /\ ex \in 0 .. 2^F.es - 1
  <2>1. 2^F.es \in Nat /\ 2^F.es > 0
    BY <1>1, PowerType
  <2> QED
    BY <2>1, Division
<1>3. reg = RegimeLength(k)
  BY DEF RegimeOf
<1> HIDE DEF k, ex, reg
<1>4. /\ k \in -(F.x - 2) .. F.x - 2 /\ reg \in 1 .. F.x - 2
      /\ BitsLeft(F.x, k) = Room(F, reg) /\ RegimeBits(F, k) = RegimeStart(F.x, k) * Ulp(F)
  <2>1. RegimeLength(k) <= F.x - 2
    BY <1>3 DEF reg
  <2> QED
    BY <1>1, <1>2, <1>3, <2>1, RegimeInPlace
<1>5. k \in -(F.x - 2) .. F.x - 3
  BY <1>1, <1>3, <1>4 DEF RegimeLength
<1>6. G \div 2^CutOff(F, reg) \in 0 .. 2^Room(F, reg) - 1
  BY <1>2, <1>4, CutOffSizes
<1>7. 2^BitsLeft(F.x, k) \in Nat /\ 2^BitsLeft(F.x, k) >= 1 /\ RegimeStart(F.x, k) \in Nat
  BY <1>1, <1>4, ShapeSizes
<1>8. j \in 0 .. 2^BitsLeft(F.x, k) - 1
  BY <1>4, <1>6, <1>7
<1>9. BehindRegime(F, reg, lost, ex, fr) = j * Ulp(F)
  <2>1. CASE Misplaced(F, reg)
    <3>1. lost # 0 /\ lost = 1 /\ F.px /\ F.x = F.n /\ F.es = 2 /\ j = 0
      BY <2>1 DEF Misplaced
    <3>2. BehindRegime(F, reg, lost, ex, fr) = 0
      <4> HIDE DEF lost, fr, j
      <4> QED
        BY <3>1 DEF BehindRegime
    <3>3. 0 * Ulp(F) = 0
      BY Sizes
    <3> HIDE DEF j
    <3> QED
      BY <3>1, <3>2, <3>3
  <2>2. CASE ~ Misplaced(F, reg)
    <3>1. BehindRegime(F, reg, lost, ex, fr) = (G \div 2^CutOff(F, reg)) * Ulp(F)
      BY <1>2, <1>4, <2>2, BehindInPlace
    <3> QED
      BY <2>2, <3>1
  <2> QED
    BY <2>1, <2>2
<1>10. ~ Misplaced(F, reg) => half = (G \div 2^(CutOff(F, reg) - 1)) % 2
  BY <1>2, <1>4, BehindInPlace
<1>11. Round(F, scale, frac, more) = (IF half = 1 /\ (t % 2 = 1 \/ more) THEN t + 1 ELSE t) * Ulp(F)
  <2>1. ~ (reg > F.x - 2)
    BY <1>1, <1>4
  <2>2. Round(F, scale, frac, more) = LayOut(F, k, reg, ex, frac, more)
    BY <1>3 DEF Round, k, ex
  <2>3. LayOut(F, k, reg, ex, frac, more) =
            RoundUp(F, RegimeBits(F, k) + BehindRegime(F, reg, lost, ex, fr), half, more)
    BY <2>1 DEF LayOut
  <2>4. RegimeBits(F, k) + BehindRegime(F, reg, lost, ex, fr) = t * Ulp(F) /\ t \in Nat
    <3> DEFINE U == Ulp(F)
               s == RegimeStart(F.x, k)
    <3>1. U \in Nat /\ s \in Nat /\ j \in Nat
      <4> HIDE DEF j
      <4> QED
        BY <1>7, <1>8, Sizes
    <3>2. RegimeBits(F, k) + BehindRegime(F, reg, lost, ex, fr) = s * U + j * U
      BY <1>4, <1>9
    <3>3. t = s + j
      OBVIOUS
    <3> HIDE DEF U, s, j, t
    <3>4. s * U + j * U = (s + j) * U
      BY <3>1
    <3> QED
      BY <3>1, <3>2, <3>3, <3>4 DEF U
  <2> HIDE DEF t, half
  <2>5. RoundUp(F, t * Ulp(F), half, more) = (IF half = 1 /\ (t % 2 = 1 \/ more) THEN t + 1 ELSE t) * Ulp(F)
    BY <2>4, RoundUpUnits
  <2> QED
    BY <2>2, <2>3, <2>4, <2>5
<1> HIDE DEF half, t, j, lost, fr
<1>12. /\ k \in -(F.x - 2) .. F.x - 3
       /\ reg \in 1 .. F.x - 2
       /\ ex \in 0 .. 2^F.es - 1
       /\ j \in 0 .. 2^BitsLeft(F.x, k) - 1
       /\ BitsLeft(F.x, k) = Room(F, reg)
       /\ ~ Misplaced(F, reg) => half = (G \div 2^(CutOff(F, reg) - 1)) % 2
       /\ Round(F, scale, frac, more) =
              (IF half = 1 /\ (t % 2 = 1 \/ more) THEN t + 1 ELSE t) * Ulp(F)
  BY <1>2, <1>4, <1>5, <1>8, <1>10, <1>11
<1> QED
  BY <1>12, Zenon DEF k, ex, reg, j, t, half, lost, fr

\* Where it does not, the word is the largest or the smallest one.
LEMMA RoundBeyond ==
    ASSUME NEW F, IsFormat(F), NEW scale, NEW frac, NEW more, RegimeOf(F, scale) > F.x - 2
    PROVE  Round(F, scale, frac, more) =
               (IF scale \div 2^F.es < 0 THEN 1 ELSE 2^(F.x - 1) - 1) * Ulp(F)
<1> DEFINE m == 2^(F.x - 1)
           U == Ulp(F)
<1>1. m \in Nat /\ U \in Nat /\ 2^(F.n - 1) = m * U
  BY Sizes DEF NaR
<1>2. Round(F, scale, frac, more) = IF scale \div 2^F.es < 0 THEN U ELSE 2^(F.n - 1) - U
  BY DEF Round, LayOut, RegimeOf
<1> HIDE DEF m, U
<1>3. 1 * U = U /\ (m - 1) * U = m * U - U
  BY <1>1
<1> QED
  BY <1>1, <1>2, <1>3 DEF m, U

\* No number is rounded to zero or to NaR, and the rounded word has x bits.
LEMMA RoundIsPositive ==
    ASSUME NEW F, IsFormat(F), NEW scale \in Int, NEW frac \in Nat, NEW more
    PROVE  Round(F, scale, frac, more) \in PositiveWords(F)
<1>1. F.x \in Nat /\ F.x >= 2 /\ F.es \in Nat
  BY DEF IsFormat
<1>2. 2^(F.x - 1) \in Nat /\ 2^(F.x - 1) >= 2
  BY Sizes
<1>3. CASE RegimeOf(F, scale) > F.x - 2
  <2>1. Round(F, scale, frac, more) =
            (IF scale \div 2^F.es < 0 THEN 1 ELSE 2^(F.x - 1) - 1) * Ulp(F)
    BY <1>3, RoundBeyond
  <2>2. (IF scale \div 2^F.es < 0 THEN 1 ELSE 2^(F.x - 1) - 1) \in 1 .. 2^(F.x - 1) - 1
    BY <1>2
  <2> QED
    BY <2>1, <2>2 DEF PositiveWords
<1>4. CASE RegimeOf(F, scale) <= F.x - 2
  <2> DEFINE k == scale \div 2^F.es
             reg == RegimeOf(F, scale)
             G == Following(F, scale % 2^F.es, frac)
             j == IF Misplaced(F, reg) THEN 0 ELSE G \div 2^CutOff(F, reg)
             t == RegimeStart(F.x, k) + j
             half == HalfBit(F, LostExpBits(F, reg), scale % 2^F.es,
                             ShiftedFraction(F, reg, frac))
  <2>1. /\ k \in -(F.x - 2) .. F.x - 3
        /\ j \in 0 .. 2^BitsLeft(F.x, k) - 1
        /\ Round(F, scale, frac, more) =
              (IF half = 1 /\ (t % 2 = 1 \/ more) THEN t + 1 ELSE t) * Ulp(F)
    BY <1>4, RoundInRegime
  <2> HIDE DEF k, reg, G, j, half
  <2>2. t \in 1 .. 2^(F.x - 1) - 2 /\ t + 1 \in 1 .. 2^(F.x - 1) - 1
    BY <1>1, <2>1, RegimeEndsBelow
  <2>3. (IF half = 1 /\ (t % 2 = 1 \/ more) THEN t + 1 ELSE t) \in 1 .. 2^(F.x - 1) - 1
    BY <1>2, <2>2
  <2> QED
    BY <2>1, <2>3 DEF PositiveWords
<1> QED
  <2>1. RegimeOf(F, scale) \in Int
    <3>1. 2^F.es \in Nat /\ 2^F.es > 0
      BY <1>1, PowerType
    <3>2. scale \div 2^F.es \in Int
      BY <3>1, Division
    <3> QED
      BY <3>2 DEF RegimeOf, RegimeLength
  <2> QED
    BY <1>1, <1>3, <1>4, <2>1

-----------------------------------------------------------------------------
(* Significands of double width.                                           *)

LEMMA MaxOfTwo ==
    ASSUME NEW a \in Int, NEW b \in Int
    PROVE  Max({a, b}) = (IF a >= b THEN a ELSE b) /\ Min({a, b}) = (IF a >= b THEN b ELSE a)
<1>1. PICK m \in {a, b} : \A y \in {a, b} : m >= y
  BY SMT
<1>2. PICK l \in {a, b} : \A y \in {a, b} : l <= y
  BY SMT
<1>3. Max({a, b}) \in {a, b} /\ \A y \in {a, b} : Max({a, b}) >= y
  BY <1>1, Zenon DEF Max
<1>4. Min({a, b}) \in {a, b} /\ \A y \in {a, b} : Min({a, b}) <= y
  BY <1>2, Zenon DEF Min
<1> QED
  BY <1>3, <1>4

LEMMA WideSizes ==
    ASSUME NEW F, IsFormat(F)
    PROVE  /\ 2^(F.n - 1) \in Nat /\ 2^(F.n - 1) >= 4
           /\ 2^(2 * F.n - 2) = 2^(F.n - 1) * 2^(F.n - 1) /\ 2^(2 * F.n - 2) \in Nat
           /\ 2^(2 * F.n - 1) = 2 * 2^(2 * F.n - 2) /\ 2^(2 * F.n) = 4 * 2^(2 * F.n - 2)
           /\ 2^F.n = 2 * 2^(F.n - 1)
           /\ F.n \in Nat /\ F.n >= 3
<1>1. F.n \in Nat /\ F.n >= 3
  BY DEF IsFormat
<1>2. F.n - 1 \in Nat /\ (F.n - 1) + (F.n - 1) = 2 * F.n - 2 /\ (F.n - 1) + 1 = F.n
      /\ 2 * F.n - 2 \in Nat /\ 2 * F.n - 1 \in Nat
      /\ (2 * F.n - 2) + 1 = 2 * F.n - 1 /\ (2 * F.n - 1) + 1 = 2 * F.n
  BY <1>1
<1>3. 2^(2 * F.n - 2) = 2^(F.n - 1) * 2^(F.n - 1)
  BY <1>2, PowerSum
<1>4. 2^(2 * F.n - 1) = 2 * 2^(2 * F.n - 2) /\ 2^(2 * F.n) = 2 * 2^(2 * F.n - 1)
      /\ 2^F.n = 2 * 2^(F.n - 1)
  BY <1>2, PowerStep
<1>5. 2^(2 * F.n - 2) \in Nat /\ 2^(F.n - 1) \in Nat
  BY <1>2, PowerType
<1>6. 2^(F.n - 1) >= 4
  <2>1. F.n - 2 \in Nat /\ F.n - 3 \in Nat /\ (F.n - 3) + 1 = F.n - 2 /\ (F.n - 2) + 1 = F.n - 1
    BY <1>1
  <2>2. 2^(F.n - 1) = 2 * 2^(F.n - 2) /\ 2^(F.n - 2) = 2 * 2^(F.n - 3) /\ 2^(F.n - 3) \in Nat
        /\ 2^(F.n - 3) >= 1
    BY <2>1, PowerStep, PowerType
  <2> QED
    BY <2>2
<1> QED
  BY <1>1, <1>3, <1>4, <1>5, <1>6

\* The leading one is brought to bit 2n-2 without a change of the value, except for
\* the lowest bit that a carry drops.
LEMMA NormalShape ==
    ASSUME NEW F, IsFormat(F), NEW scale \in Int, NEW frac \in 1 .. 2^(2 * F.n) - 1
    PROVE  LET z == Normal(F, scale, frac) IN
           /\ z.scale \in Int /\ Significand(2 * F.n - 2, z.frac)
           /\ z.scale - scale \in Int
           /\ IF frac >= 2^(2 * F.n - 1)
              THEN z.scale = scale + 1 /\ z.frac = frac \div 2
              ELSE scale - z.scale \in Nat /\ z.frac = frac * 2^(scale - z.scale)
<1> DEFINE w == 2 * F.n - 1
           i == Leading(frac, w)
<1>1. F.n \in Nat /\ F.n >= 3 /\ w \in Nat /\ w - 1 \in Nat /\ w - 1 = 2 * F.n - 2
      /\ w + 1 = 2 * F.n /\ (w - 1) + 1 = w
  BY WideSizes
<1>2. frac \in Nat /\ frac >= 1 /\ frac < 2^(w + 1)
  <2>1. 2^(w + 1) \in Nat
    BY <1>1, PowerType
  <2> QED
    BY <1>1, <2>1
<1> HIDE DEF w
<1>3. PICK l \in 0 .. w : 2^l <= frac /\ frac < 2^(l + 1)
  BY <1>1, <1>2, LeadingPower
<1>4. i = l
  BY <1>1, <1>2, <1>3, LeadingIs
<1>5. Normal(F, scale, frac) =
        [scale |-> scale + (l - (2 * F.n - 2)),
         frac |-> IF l - (2 * F.n - 2) = 1 THEN frac \div 2 ELSE frac * 2^(-(l - (2 * F.n - 2)))]
  BY <1>4 DEF Normal, w
<1>6. 2^w = 2 * 2^(w - 1) /\ 2^(w - 1) \in Nat /\ 2^(w - 1) >= 1 /\ 2^(w + 1) = 2 * 2^w
  BY <1>1, PowerStep, PowerType
<1>7. CASE l = w
  <2>1. frac >= 2^w
    BY <1>3, <1>7
  <2>2. l - (2 * F.n - 2) = 1
    BY <1>1, <1>7
  <2>3. frac \div 2 \in 2^(w - 1) .. 2 * 2^(w - 1) - 1
    BY <1>2, <1>6, <2>1
  <2> QED
    BY <1>1, <1>5, <1>6, <2>1, <2>2, <2>3 DEF Significand
<1>8. CASE l < w
  <2>1. l \in Nat /\ (w - 1) - l \in Nat /\ l <= w - 1 /\ l + 1 \in Nat
    BY <1>1, <1>8
  <2> DEFINE e == (w - 1) - l
  <2>2. 2^(w - 1) = 2^e * 2^l /\ 2^(l + 1) = 2 * 2^l /\ 2^e \in Nat /\ 2^e >= 1 /\ 2^l \in Nat
    BY <1>1, <2>1, PowerSplit, PowerStep, PowerType
  <2>3. e \in Nat /\ l - (2 * F.n - 2) # 1 /\ -(l - (2 * F.n - 2)) = e
        /\ scale - (scale + (l - (2 * F.n - 2))) = e /\ scale + (l - (2 * F.n - 2)) \in Int
    BY <1>1, <2>1
  <2>4. frac * 2^e \in 2^(w - 1) .. 2 * 2^(w - 1) - 1
    <3> DEFINE a == 2^l
               b == 2^e
               c == 2^(w - 1)
    <3>1. a \in Nat /\ b \in Nat /\ b > 0 /\ c = b * a /\ frac \in Nat /\ a <= frac /\ frac < 2 * a
      BY <1>2, <1>3, <2>2
    <3> HIDE DEF a, b, c
    <3>2. a * b <= frac * b
      BY <3>1, ScaledOrder
    <3>3. frac * b < (2 * a) * b
      <4>1. 2 * a \in Int /\ frac \in Int
        BY <3>1
      <4> QED
        BY <3>1, <4>1, ScaledOrder
    <3>4. (2 * a) * b = 2 * c /\ a * b = c /\ c \in Nat /\ frac * b \in Nat
      BY <3>1
    <3>5. frac * b \in c .. 2 * c - 1
      BY <3>2, <3>3, <3>4
    <3> QED
      BY <3>5 DEF a, b, c
  <2>5. ~ (frac >= 2^w)
    <3>1. 2^(l + 1) <= 2^w
      <4>1. l + 1 <= w
        BY <1>1, <1>8
      <4> QED
        BY <1>1, <2>1, <4>1, PowerMonotone
    <3>2. 2^(l + 1) \in Nat /\ 2^w \in Nat
      BY <1>1, <2>1, PowerType
    <3> QED
      BY <1>2, <1>3, <3>1, <3>2
  <2> HIDE DEF e
  <2>6. Normal(F, scale, frac).scale = scale + (l - (2 * F.n - 2)) /\ Normal(F, scale, frac).frac = frac * 2^e
    BY <1>5, <2>3
  <2>7. Significand(2 * F.n - 2, frac * 2^e)
    BY <1>1, <2>4 DEF Significand
  <2> QED
    BY <1>1, <2>3, <2>5, <2>6, <2>7 DEF w
<1> QED
  BY <1>1, <1>3, <1>7, <1>8

LEMMA WideWord ==
    ASSUME NEW F, IsFormat(F), NEW u \in PositiveWords(F)
    PROVE  LET w == Wide(F, u) IN
           /\ w.scale \in Int /\ w.scale = Scale(F, Scan(F, u))
           /\ Significand(2 * F.n - 2, w.frac) /\ w.frac \in Nat
           /\ w.frac = Scan(F, u).frac * 2^(F.n - 1)
           /\ \E q \in Nat : w.frac = 4 * q
<1> DEFINE c == 2^(F.n - 1)
           s == Scan(F, u)
           f == s.frac
<1>1. u \in 1 .. NaR(F) - 1
  BY PositiveWord, Sizes
<1>2. Scale(F, s) \in Int /\ Significand(F.n - 1, f) /\ \E q \in Nat : f = 4 * q
  BY <1>1, ScanPositive
<1>3. c \in Nat /\ c > 0 /\ 2^(2 * F.n - 2) = c * c
  BY WideSizes
<1>4. Wide(F, u) = [scale |-> Scale(F, s), frac |-> f * c]
  BY DEF Wide, Widened
<1>5. f \in c .. 2 * c - 1
  BY <1>2 DEF Significand
<1> HIDE DEF c, f, s
<1>6. f * c \in c * c .. 2 * (c * c) - 1
  <2>1. f \in Int /\ c \in Int /\ 2 * c \in Int /\ c <= f /\ f < 2 * c
    BY <1>3, <1>5
  <2>2. c * c <= f * c
    BY <1>3, <2>1, ScaledOrder
  <2>3. f * c < (2 * c) * c
    BY <1>3, <2>1, ScaledOrder
  <2>4. (2 * c) * c = 2 * (c * c) /\ c * c \in Int /\ f * c \in Int
    BY <1>3, <2>1
  <2> QED
    BY <2>2, <2>3, <2>4
<1>7. \E q \in Nat : f * c = 4 * q
  <2>1. PICK q \in Nat : f = 4 * q
    BY <1>2
  <2>2. f * c = 4 * (q * c) /\ q * c \in Nat
    BY <1>3, <2>1
  <2> QED
    BY <2>2
<1>8. f * c \in Nat
  BY <1>3, <1>5
<1> QED
  BY <1>2, <1>3, <1>4, <1>6, <1>7, <1>8 DEF Significand, c, f, s

\* The larger of two positive words has the larger scale, or the same scale and the
\* larger significand.
LEMMA WideOrder ==
    ASSUME NEW F, IsFormat(F), NEW u \in PositiveWords(F), NEW v \in PositiveWords(F), u < v
    PROVE  LET s == Wide(F, u)
               t == Wide(F, v)
           IN  s.scale < t.scale \/ (s.scale = t.scale /\ s.frac < t.frac)
<1> DEFINE f == Scan(F, u).frac
           g == Scan(F, v).frac
           c == 2^(F.n - 1)
<1>1. u \in 1 .. NaR(F) - 1 /\ v \in 1 .. NaR(F) - 1
  BY PositiveWord, Sizes
<1>2. \/ Scale(F, Scan(F, u)) < Scale(F, Scan(F, v))
      \/ Scale(F, Scan(F, u)) = Scale(F, Scan(F, v)) /\ f < g
  BY <1>1, ScanOrder
<1>3. c \in Nat /\ c > 0
  BY WideSizes
<1>4. f \in Int /\ g \in Int
  <2>1. Significand(F.n - 1, f) /\ Significand(F.n - 1, g)
    BY <1>1, ScanPositive
  <2> QED
    BY <1>3, <2>1 DEF Significand
<1>5. f * c < g * c <=> f < g
  BY <1>3, <1>4, ScaledOrder
<1>6. /\ Wide(F, u).scale = Scale(F, Scan(F, u)) /\ Wide(F, u).frac = f * c
      /\ Wide(F, v).scale = Scale(F, Scan(F, v)) /\ Wide(F, v).frac = g * c
  BY WideWord
<1> HIDE DEF f, g, c
<1> QED
  BY <1>2, <1>5, <1>6

\* The significand of the smaller number, moved to the scale of the larger one.
LEMMA AlignedBelow ==
    ASSUME NEW p \in Nat, NEW f, NEW g, Significand(p, f), Significand(p, g), NEW d \in Nat
    PROVE  /\ g \div 2^d \in 0 .. 2 * 2^p - 1
           /\ d > 0 \/ g < f => g \div 2^d < f
           /\ d > 0 => g \div 2^d < 2^p
           /\ g \div 2^d <= g /\ f \in Nat /\ g \in Nat
<1> DEFINE a == 2^p
           b == 2^d
<1>1. a \in Nat /\ a >= 1 /\ b \in Nat /\ b > 0
  BY PowerType
<1>2. f \in a .. 2 * a - 1 /\ g \in a .. 2 * a - 1
  BY DEF Significand
<1>3. d > 0 => b >= 2
  <2>1. ASSUME d > 0 PROVE b >= 2
    <3>1. d >= 1
      BY <2>1
    <3>2. 2^d = 2 * 2^(d - 1) /\ 2^(d - 1) \in Nat /\ 2^(d - 1) >= 1
      BY <3>1, PowerBelow
    <3> QED
      BY <3>2
  <2> QED
    BY <2>1
<1> HIDE DEF a, b
<1>4. g \in Nat /\ g \div b \in Nat /\ g \div b <= g
  BY <1>1, <1>2, DivisionType
<1>5. ASSUME d > 0 PROVE g \div b \in 0 .. a - 1
  <2>1. g < a * b
    <3>1. 2 * a <= b * a
      <4>1. 2 \in Int /\ b \in Int /\ 2 <= b /\ a > 0
        BY <1>1, <1>3, <1>5
      <4> QED
        BY <1>1, <4>1, ScaledOrder
    <3>2. b * a = a * b /\ a * b \in Int
      BY <1>1
    <3> QED
      BY <1>1, <1>2, <3>1, <3>2
  <2> QED
    BY <1>1, <1>4, <2>1, QuotientBelow
<1>6. g \div b \in 0 .. 2 * a - 1 /\ (d > 0 => g \div b < a) /\ (d > 0 \/ g < f => g \div b < f)
      /\ f \in Nat
  BY <1>1, <1>2, <1>4, <1>5
<1> QED
  BY <1>4, <1>6 DEF a, b

\* Whatever is normalised and rounded is a positive number.
LEMMA NormalRounds ==
    ASSUME NEW F, IsFormat(F), NEW scale \in Int, NEW frac \in 1 .. 2^(2 * F.n) - 1, NEW more
    PROVE  LET z == Normal(F, scale, frac) IN
           /\ Packed(F, z) \in PositiveWords(F)
           /\ RoundSticky(F, z, more) \in PositiveWords(F)
           /\ Round(F, z.scale, z.frac, more) \in PositiveWords(F)
<1> DEFINE z == Normal(F, scale, frac)
<1>1. z.scale \in Int /\ Significand(2 * F.n - 2, z.frac)
  BY NormalShape
<1>2. 2^(2 * F.n - 2) \in Nat
  BY WideSizes
<1> HIDE DEF z
<1>3. z.frac \in Nat
  BY <1>1, <1>2 DEF Significand
<1>4. \A m : Round(F, z.scale, z.frac, m) \in PositiveWords(F)
  BY <1>1, <1>3, RoundIsPositive
<1> QED
  BY <1>4 DEF Packed, Pack, RoundSticky, z

-----------------------------------------------------------------------------
(* The operations on numbers.                                              *)

\* With two bits there is one positive word.
LEMMA TwoBits ==
    ASSUME NEW F, IsFormat(F), F.x = 2, NEW u \in PositiveWords(F)
    PROVE  u = Ulp(F) /\ Bit(u, F.n - 2) = 1 /\ Ulp(F) \in PositiveWords(F)
<1>1. F.x - 1 = 1 /\ F.n - 2 \in Nat /\ F.n >= 3
  BY DEF IsFormat
<1>2. 2^(F.x - 1) = 2
  <2>1. 2^(0 + 1) = 2 * 2^0
    BY PowerStep
  <2> QED
    BY <1>1, <2>1, PowerZero
<1>3. PICK m \in 1 .. 1 : u = m * Ulp(F)
  BY <1>2 DEF PositiveWords
<1>4. u = Ulp(F)
  BY <1>3, Sizes
<1>5. Ulp(F) = 2^(F.n - 2)
  BY DEF Ulp
<1>6. Bit(u, F.n - 2) = 1
  <2> DEFINE k == F.n - 2
  <2>1. k \in Nat /\ u = 2^k
    BY <1>1, <1>4, <1>5
  <2> HIDE DEF k
  <2>2. 2^(k + 1) = 2 * 2^k /\ 2^k \in Nat /\ 2^k >= 1
    BY <2>1, PowerStep, PowerType
  <2>3. u \in 0 .. 2^(k + 1) - 1 /\ ~ (u < 2^k)
    BY <2>1, <2>2
  <2>4. Bit(u, k) = 1
    BY <2>1, <2>3, BitTop
  <2> QED
    BY <2>4 DEF k
<1> QED
  BY <1>4, <1>6

LEMMA AlignedSumRounds ==
    ASSUME NEW F, IsFormat(F), NEW big, NEW small,
           big.scale \in Int, small.scale \in Int, small.scale <= big.scale,
           Significand(2 * F.n - 2, big.frac), Significand(2 * F.n - 2, small.frac)
    PROVE  Packed(F, AlignedSum(F, big, small)) \in PositiveWords(F)
<1> DEFINE shift == big.scale - small.scale
           low == IF shift > F.addMax THEN 0 ELSE small.frac \div 2^shift
           P == 2^(2 * F.n - 2)
<1>1. shift \in Nat /\ 2 * F.n - 2 \in Nat
  BY DEF IsFormat
<1>2. small.frac \div 2^shift \in 0 .. 2 * P - 1
  BY <1>1, AlignedBelow
<1>3. P \in Nat /\ P >= 1 /\ 2^(2 * F.n) = 4 * P
  BY <1>1, WideSizes, PowerType
<1>4. big.frac \in P .. 2 * P - 1
  BY DEF Significand
<1>5. low \in 0 .. 2 * P - 1
  <2> HIDE DEF P
  <2> QED
    BY <1>2, <1>3
<1>6. AlignedSum(F, big, small) = Normal(F, big.scale, big.frac + low)
  BY DEF AlignedSum
<1> HIDE DEF low, P
<1>7. big.frac + low \in 1 .. 2^(2 * F.n) - 1
  BY <1>3, <1>4, <1>5
<1> QED
  BY <1>6, <1>7, NormalRounds

\* A sum of two numbers of one sign is a number of that sign.
LEMMA AddMagsNumber ==
    ASSUME NEW F, IsFormat(F), NEW a, NEW b, Numeric(F, a), Numeric(F, b),
           Negative(F, a) <=> Negative(F, b)
    PROVE  /\ Numeric(F, AddMags(F, a, b))
           /\ Negative(F, AddMags(F, a, b)) <=> Negative(F, a)
<1> DEFINE sign == Negative(F, a)
           ua == Signed(F, sign, a)
           ub == Signed(F, sign, b)
           u == {ua, ub}
           one == \E v \in u : Bit(v, F.n - 2) = 1
           z == IF F.x > 2 THEN Packed(F, AlignedSum(F, Wide(F, Max(u)), Wide(F, Min(u))))
                ELSE IF one THEN Ulp(F) ELSE 0
<1>1. ua = Magnitude(F, a) /\ ub = Magnitude(F, b)
  BY DEF Magnitude, Signed
<1>2. ua \in PositiveWords(F) /\ ub \in PositiveWords(F)
  BY <1>1, MagnitudeWord
<1>3. sign \in BOOLEAN
  BY DEF Negative
<1>4. AddMags(F, a, b) = Signed(F, sign, z)
  BY Zenon DEF AddMags
<1>5. F.x \in Nat /\ F.x >= 2
  BY DEF IsFormat
<1> HIDE DEF ua, ub, sign
<1>6. ua \in Nat /\ ub \in Nat
  BY <1>2, PositiveWord
<1>7. z \in PositiveWords(F)
  <2>1. CASE F.x > 2
    <3> DEFINE g == Max({ua, ub})
               l == Min({ua, ub})
    <3>1. g = (IF ua >= ub THEN ua ELSE ub) /\ l = (IF ua >= ub THEN ub ELSE ua)
      BY <1>6, MaxOfTwo
    <3> HIDE DEF g, l
    <3>2. g \in PositiveWords(F) /\ l \in PositiveWords(F) /\ (l = g \/ l < g)
      BY <1>2, <1>6, <3>1
    <3>3. /\ Wide(F, g).scale \in Int /\ Wide(F, l).scale \in Int
          /\ Significand(2 * F.n - 2, Wide(F, g).frac) /\ Significand(2 * F.n - 2, Wide(F, l).frac)
      BY <3>2, WideWord
    <3>4. Wide(F, l).scale <= Wide(F, g).scale
      <4>1. CASE l = g
        BY <3>3, <4>1
      <4>2. CASE l < g
        <5>1. Wide(F, l).scale < Wide(F, g).scale \/ Wide(F, l).scale = Wide(F, g).scale
          BY <3>2, <4>2, WideOrder
        <5> QED
          BY <3>3, <5>1
      <4> QED
        BY <3>2, <4>1, <4>2
    <3>5. Packed(F, AlignedSum(F, Wide(F, g), Wide(F, l))) \in PositiveWords(F)
      BY <3>3, <3>4, AlignedSumRounds
    <3> QED
      BY <2>1, <3>5 DEF g, l
  <2>2. CASE F.x = 2
    <3>1. Bit(ua, F.n - 2) = 1 /\ Ulp(F) \in PositiveWords(F)
      BY <1>2, <2>2, TwoBits
    <3>2. one
      BY <3>1
    <3> HIDE DEF one
    <3> QED
      BY <2>2, <3>1, <3>2
  <2> QED
    BY <1>5, <2>1, <2>2
<1> HIDE DEF z
<1>8. Numeric(F, Signed(F, sign, z)) /\ (Negative(F, Signed(F, sign, z)) <=> sign)
  BY <1>3, <1>7, SignedWord
<1> QED
  BY <1>4, <1>8 DEF sign

LEMMA AlignedDifferenceRounds ==
    ASSUME NEW F, IsFormat(F), NEW u \in PositiveWords(F), NEW v \in PositiveWords(F), v < u
    PROVE  AlignedDifference(F, u, Wide(F, u), Wide(F, v)) \in PositiveWords(F)
<1> DEFINE big == Wide(F, u)
           small == Wide(F, v)
           shift == big.scale - small.scale
           low == small.frac \div 2^shift
           P == 2^(2 * F.n - 2)
<1>1. /\ big.scale \in Int /\ small.scale \in Int
      /\ Significand(2 * F.n - 2, big.frac) /\ Significand(2 * F.n - 2, small.frac)
  BY WideWord
<1>2. small.scale < big.scale \/ (small.scale = big.scale /\ small.frac < big.frac)
  BY WideOrder
<1>3. P \in Nat /\ P >= 1 /\ 2^(2 * F.n) = 4 * P /\ 2 * F.n - 2 \in Nat
  BY WideSizes, PowerType
<1>4. big.frac \in P .. 2 * P - 1
  BY <1>1 DEF Significand
<1> HIDE DEF big, small, P
<1>5. shift \in Nat /\ (shift > 0 \/ small.frac < big.frac)
  BY <1>1, <1>2
<1>6. AlignedDifference(F, u, big, small) =
        IF shift > F.subMax THEN u ELSE Packed(F, Normal(F, big.scale, big.frac - low))
  BY DEF AlignedDifference
<1> HIDE DEF shift
<1>7. low \in 0 .. 2 * P - 1 /\ low < big.frac
  BY <1>1, <1>3, <1>5, AlignedBelow DEF P
<1> HIDE DEF low
<1>8. big.frac - low \in 1 .. 2^(2 * F.n) - 1
  BY <1>3, <1>4, <1>7
<1>9. Packed(F, Normal(F, big.scale, big.frac - low)) \in PositiveWords(F)
  BY <1>1, <1>8, NormalRounds
<1> QED
  BY <1>6, <1>9 DEF big, small

\* A sum of two numbers of opposite signs is zero if and only if they are each the
\* negation of the other, and else a number with the sign of the larger one.
LEMMA SubMagsNumber ==
    ASSUME NEW F, IsFormat(F), NEW a, NEW b, Numeric(F, a), Numeric(F, b)
    PROVE  IF Magnitude(F, a) = Magnitude(F, b) THEN SubMags(F, a, b) = 0
           ELSE /\ Numeric(F, SubMags(F, a, b))
                /\ Negative(F, SubMags(F, a, b)) <=>
                      IF Magnitude(F, a) < Magnitude(F, b) THEN ~ Negative(F, a) ELSE Negative(F, a)
<1> DEFINE ua == Magnitude(F, a)
           ub == Magnitude(F, b)
           sign == IF ua < ub THEN ~ Negative(F, a) ELSE Negative(F, a)
           big == Max({ua, ub})
           small == Min({ua, ub})
           same == Bit(ua, F.n - 2) = Bit(ub, F.n - 2)
           z == IF F.x = 2 THEN IF same THEN 0 ELSE Ulp(F)
                ELSE AlignedDifference(F, big, Wide(F, big), Wide(F, small))
<1>1. ua \in PositiveWords(F) /\ ub \in PositiveWords(F)
  BY MagnitudeWord
<1>2. ua \in Nat /\ ub \in Nat
  BY <1>1, PositiveWord
<1>3. sign \in BOOLEAN
  <2> HIDE DEF ua, ub
  <2>1. Negative(F, a) \in BOOLEAN
    BY DEF Negative
  <2> QED
    BY <2>1
<1>4. SubMags(F, a, b) = IF ua = ub THEN 0 ELSE Signed(F, sign, z)
  BY Zenon DEF SubMags
<1>5. CASE ua = ub
  BY <1>4, <1>5
<1>6. CASE ua # ub
  <2>1. F.x # 2
    BY <1>1, <1>6, TwoBits
  <2>2. big = (IF ua >= ub THEN ua ELSE ub) /\ small = (IF ua >= ub THEN ub ELSE ua)
    BY <1>2, MaxOfTwo
  <2> HIDE DEF big, small, ua, ub, sign
  <2>3. big \in PositiveWords(F) /\ small \in PositiveWords(F) /\ small < big
    BY <1>1, <1>2, <1>6, <2>2
  <2>4. z \in PositiveWords(F)
    BY <2>1, <2>3, AlignedDifferenceRounds
  <2> HIDE DEF z
  <2>5. Numeric(F, Signed(F, sign, z)) /\ (Negative(F, Signed(F, sign, z)) <=> sign)
    BY <1>3, <2>4, SignedWord
  <2> QED
    BY <1>4, <1>6, <2>5 DEF ua, ub, sign
<1> QED
  BY <1>5, <1>6

LEMMA SignificandProduct ==
    ASSUME NEW c \in Nat, c >= 4, NEW f \in c .. 2 * c - 1, NEW g \in c .. 2 * c - 1
    PROVE  f * g \in c * c .. 4 * (c * c) - 1 /\ f * g \in Nat
<1>1. f \in Int /\ g \in Int /\ c \in Int /\ 2 * c \in Int /\ f > 0 /\ g > 0 /\ f \in Nat /\ g \in Nat
      /\ 2 * c \in Nat /\ 2 * c > 0
  OBVIOUS
<1>2. c * c <= f * c /\ f * (2 * c) < (2 * c) * (2 * c)
  BY <1>1, ScaledOrder
<1>3. c * f <= g * f /\ g * f < (2 * c) * f
  BY <1>1, ScaledOrder
<1>4. c * f = f * c /\ g * f = f * g /\ (2 * c) * f = f * (2 * c) /\ (2 * c) * (2 * c) = 4 * (c * c)
      /\ f * c \in Int /\ f * g \in Int /\ c * c \in Int /\ f * (2 * c) \in Int
      /\ 4 * (c * c) \in Int
  BY <1>1
<1>5. c * c <= f * g /\ f * g < 4 * (c * c)
  <2> DEFINE x == c * c
             y == f * c
             z == f * g
             w == f * (2 * c)
  <2>1. x <= y /\ y <= z /\ z < w /\ w < 4 * x /\ x \in Int /\ y \in Int /\ z \in Int /\ w \in Int
    BY <1>2, <1>3, <1>4
  <2> HIDE DEF x, y, z, w
  <2>2. x <= z /\ z < 4 * x
    BY <2>1
  <2> QED
    BY <2>2 DEF x, z
<1>6. c * c >= 0
  <2>1. 0 * c <= c * c /\ 0 * c = 0
    BY ScaledOrder
  <2> QED
    BY <2>1
<1> QED
  BY <1>4, <1>5, <1>6

\* The product of two significands, normalised: the lowest two bits are zero.
LEMMA ProductNumber ==
    ASSUME NEW F, IsFormat(F), NEW u \in PositiveWords(F), NEW v \in PositiveWords(F)
    PROVE  LET z == Product(F, u, v) IN
           /\ z.scale \in Int /\ Significand(2 * F.n - 2, z.frac) /\ \E q \in Nat : z.frac = 4 * q
           /\ \A more : /\ Packed(F, z) \in PositiveWords(F)
                        /\ RoundSticky(F, z, more) \in PositiveWords(F)
                        /\ Round(F, z.scale, z.frac, more) \in PositiveWords(F)
<1> DEFINE s == Scan(F, u)
           t == Scan(F, v)
           f == s.frac
           g == t.frac
           c == 2^(F.n - 1)
           scale == Scale(F, s) + Scale(F, t)
           z == Normal(F, scale, f * g)
<1>1. u \in 1 .. NaR(F) - 1 /\ v \in 1 .. NaR(F) - 1
  BY PositiveWord, Sizes
<1>2. Scale(F, s) \in Int /\ Significand(F.n - 1, f) /\ \E q \in Nat : f = 4 * q
  BY <1>1, ScanPositive
<1>3. Scale(F, t) \in Int /\ Significand(F.n - 1, g) /\ \E q \in Nat : g = 4 * q
  BY <1>1, ScanPositive
<1>4. c \in Nat /\ c >= 4 /\ 2^(2 * F.n - 2) = c * c /\ 2^(2 * F.n) = 4 * (c * c)
  BY WideSizes
<1>5. f \in c .. 2 * c - 1 /\ g \in c .. 2 * c - 1
  BY <1>2, <1>3 DEF Significand
<1>6. Product(F, u, v) = z
  BY DEF Product, ProductOf
<1>7. scale \in Int
  <2> HIDE DEF s, t
  <2> QED
    BY <1>2, <1>3
<1> HIDE DEF c, f, g, scale
<1>8. f * g \in c * c .. 4 * (c * c) - 1 /\ f * g \in Nat
  BY <1>4, <1>5, SignificandProduct
<1>9. f * g \in 1 .. 2^(2 * F.n) - 1
  <2>1. c * c >= 1
    <3>1. c * c \in Nat /\ 4 * c <= c * c
      BY <1>4, ScaledOrder
    <3> QED
      BY <1>4, <3>1
  <2> DEFINE x == c * c
             y == f * g
  <2>2. x \in Nat /\ x >= 1 /\ y \in x .. 4 * x - 1 /\ 2^(2 * F.n) = 4 * x
    BY <1>4, <1>8, <2>1
  <2> HIDE DEF x, y
  <2>3. y \in 1 .. 2^(2 * F.n) - 1
    BY <2>2
  <2> QED
    BY <2>3 DEF y
<1>10. \A more : /\ Packed(F, z) \in PositiveWords(F)
                 /\ RoundSticky(F, z, more) \in PositiveWords(F)
                 /\ Round(F, z.scale, z.frac, more) \in PositiveWords(F)
  BY <1>7, <1>9, NormalRounds
<1>11. PICK q \in Nat : f * g = 8 * q
  <2>1. PICK i \in Nat, j \in Nat : f = 4 * i /\ g = 4 * j
    BY <1>2, <1>3
  <2>2. f * g = 8 * (2 * (i * j)) /\ 2 * (i * j) \in Nat
    BY <2>1
  <2> QED
    BY <2>2
<1>12. /\ z.scale \in Int /\ Significand(2 * F.n - 2, z.frac)
       /\ \/ z.frac = (f * g) \div 2
          \/ scale - z.scale \in Nat /\ z.frac = (f * g) * 2^(scale - z.scale)
  BY <1>7, <1>9, NormalShape
<1> HIDE DEF z
<1>13. \E i \in Nat : z.frac = 4 * i
  <2>1. CASE z.frac = (f * g) \div 2
    <3>1. z.frac = 4 * q
      BY <1>11, <2>1
    <3> QED
      BY <3>1
  <2>2. CASE scale - z.scale \in Nat /\ z.frac = (f * g) * 2^(scale - z.scale)
    <3> DEFINE b == 2^(scale - z.scale)
    <3>1. b \in Nat
      BY <2>2, PowerType
    <3> HIDE DEF b
    <3>2. (8 * q) * b = 4 * (2 * (q * b)) /\ 2 * (q * b) \in Nat
      BY <3>1
    <3>3. z.frac = 4 * (2 * (q * b))
      BY <1>11, <2>2, <3>2 DEF b
    <3> QED
      BY <3>2, <3>3
  <2> QED
    BY <1>12, <2>1, <2>2
<1> QED
  BY <1>6, <1>10, <1>12, <1>13

\* The product and the quotient of two numbers are numbers, with the sign of a product.
LEMMA MulNumber ==
    ASSUME NEW F, IsFormat(F), NEW a, NEW b, Numeric(F, a), Numeric(F, b)
    PROVE  /\ Numeric(F, Mul(F, a, b))
           /\ Negative(F, Mul(F, a, b)) <=> (Negative(F, a) # Negative(F, b))
<1> DEFINE s == SignDiffers(F, a, b)
           z == RoundProduct(F, Product(F, Magnitude(F, a), Magnitude(F, b)))
<1>1. Magnitude(F, a) \in PositiveWords(F) /\ Magnitude(F, b) \in PositiveWords(F)
  BY MagnitudeWord
<1>2. z \in PositiveWords(F)
  BY <1>1, ProductNumber DEF RoundProduct
<1>3. s \in BOOLEAN /\ (s <=> (Negative(F, a) # Negative(F, b)))
  BY DEF SignDiffers
<1>4. Mul(F, a, b) = Signed(F, s, z)
  BY DEF Mul, Numeric
<1> HIDE DEF s, z
<1> QED
  BY <1>2, <1>3, <1>4, SignedWord

LEMMA QuotientRange ==
    ASSUME NEW c \in Nat, c >= 1, NEW f \in c .. 2 * c - 1, NEW g \in c .. 2 * c - 1,
           NEW d \in Nat, d >= 2
    PROVE  (f * d) \div g \in 1 .. 2 * d - 1 /\ f * d \in Nat
<1>1. f * d \in Nat /\ g \in Nat /\ g > 0 /\ 2 * d \in Nat
  BY SMT
<1>2. f * d < (2 * d) * g
  <2>1. f < 2 * g /\ f \in Int /\ 2 * g \in Int
    OBVIOUS
  <2>2. f * d < (2 * g) * d
    BY <2>1, ScaledOrder
  <2>3. (2 * g) * d = (2 * d) * g
    BY <1>1
  <2> QED
    BY <2>2, <2>3
<1>3. f * d >= g
  <2>1. 2 * f <= d * f
    BY ScaledOrder
  <2>2. d * f = f * d /\ d * f \in Int
    BY <1>1
  <2> QED
    BY <2>1, <2>2
<1>4. (f * d) \div g \in 0 .. 2 * d - 1
  BY <1>1, <1>2, QuotientBelow
<1> DEFINE y == f * d
<1>5. y = g * (y \div g) + (y % g) /\ y % g \in 0 .. g - 1
  BY <1>1, Division
<1> HIDE DEF y
<1>6. y \div g # 0
  <2> SUFFICES ASSUME y \div g = 0 PROVE FALSE
    OBVIOUS
  <2>1. g * 0 = 0
    BY <1>1
  <2>2. y = y % g
    BY <1>1, <1>5, <2>1 DEF y
  <2> QED
    BY <1>1, <1>3, <1>5, <2>2 DEF y
<1> QED
  BY <1>1, <1>4, <1>6 DEF y

LEMMA QuotientRounds ==
    ASSUME NEW F, IsFormat(F), NEW u \in PositiveWords(F), NEW v \in PositiveWords(F)
    PROVE  QuotientOf(F, Scan(F, u), Scan(F, v)) \in PositiveWords(F)
<1> DEFINE s == Scan(F, u)
           t == Scan(F, v)
           f == s.frac
           g == t.frac
           c == 2^(F.n - 1)
           h == IF F.es = 0 THEN F.n - 1 ELSE F.n - 2
           d == 2^h
           up == 2^(2 * F.n - 2 - h)
           P == 2^(2 * F.n - 2)
           num == f * d
           scale == Scale(F, s) - Scale(F, t)
           z == Normal(F, scale, (num \div g) * up)
<1>1. u \in 1 .. NaR(F) - 1 /\ v \in 1 .. NaR(F) - 1
  BY PositiveWord, Sizes
<1>2. Scale(F, s) \in Int /\ Significand(F.n - 1, f) /\ Scale(F, t) \in Int /\ Significand(F.n - 1, g)
  BY <1>1, ScanPositive
<1>3. c \in Nat /\ c >= 4 /\ 2^(2 * F.n) = 4 * P /\ P \in Nat /\ F.n \in Nat /\ F.n >= 3
  BY WideSizes
<1>4. f \in c .. 2 * c - 1 /\ g \in c .. 2 * c - 1
  BY <1>2 DEF Significand
<1>5. QuotientOf(F, s, t) = RoundQuotient(F, z, num % g)
  BY DEF QuotientOf
<1>6. scale \in Int
  <2> HIDE DEF s, t
  <2> QED
    BY <1>2
<1>7. h \in Nat /\ h >= 1 /\ h <= 2 * F.n - 2 /\ 2 * F.n - 2 \in Nat /\ 2 * F.n - 2 - h \in Nat
  BY <1>3
<1> HIDE DEF h
<1>8. d \in Nat /\ d >= 2 /\ up \in Nat /\ up >= 1 /\ P = up * d
  <2>1. 2^h = 2 * 2^(h - 1) /\ 2^(h - 1) \in Nat /\ 2^(h - 1) >= 1
    BY <1>7, PowerBelow
  <2>2. P = up * d
    BY <1>7, PowerSplit
  <2>3. up \in Nat /\ up >= 1
    BY <1>7, PowerType
  <2> QED
    BY <2>1, <2>2, <2>3
<1> HIDE DEF c, f, g, scale, d, up, P
<1>9. num \div g \in 1 .. 2 * d - 1
  <2>1. c \in Nat /\ c >= 1 /\ d \in Nat /\ d >= 2
    BY <1>3, <1>8
  <2> QED
    BY <1>4, <2>1, QuotientRange
<1> DEFINE q == num \div g
<1>10. q \in 1 .. 2 * d - 1
  BY <1>9
<1>11. q * up \in 1 .. 4 * P - 1
  <2> HIDE DEF q
  <2>1. q \in Int /\ 1 \in Int /\ 2 * d \in Int /\ 1 <= q /\ q < 2 * d /\ up > 0
    BY <1>8, <1>10
  <2>2. 1 * up <= q * up
    BY <1>8, <2>1, ScaledOrder
  <2>3. q * up < (2 * d) * up
    BY <1>8, <2>1, ScaledOrder
  <2>4. (2 * d) * up = 2 * P /\ 1 * up = up /\ q * up \in Int
    BY <1>8, <2>1
  <2> QED
    BY <1>3, <1>8, <2>2, <2>3, <2>4
<1>12. q * up \in 1 .. 2^(2 * F.n) - 1
  BY <1>3, <1>11
<1>13. \A more : RoundSticky(F, z, more) \in PositiveWords(F)
  BY <1>6, <1>12, NormalRounds
<1> HIDE DEF z, q
<1>14. RoundQuotient(F, z, num % g) \in PositiveWords(F)
  BY <1>13 DEF RoundQuotient
<1> QED
  BY <1>5, <1>14

LEMMA DivNumber ==
    ASSUME NEW F, IsFormat(F), NEW a, NEW b, Numeric(F, a), Numeric(F, b)
    PROVE  /\ Numeric(F, Div(F, a, b))
           /\ Negative(F, Div(F, a, b)) <=> (Negative(F, a) # Negative(F, b))
<1> DEFINE s == SignDiffers(F, a, b)
           z == QuotientOf(F, Scan(F, Magnitude(F, a)), Scan(F, Magnitude(F, b)))
<1>1. Magnitude(F, a) \in PositiveWords(F) /\ Magnitude(F, b) \in PositiveWords(F)
  BY MagnitudeWord
<1>2. z \in PositiveWords(F)
  BY <1>1, QuotientRounds
<1>3. s \in BOOLEAN /\ (s <=> (Negative(F, a) # Negative(F, b)))
  BY DEF SignDiffers
<1>4. Div(F, a, b) = Signed(F, s, z)
  BY DEF Div, Numeric
<1> HIDE DEF s, z
<1> QED
  BY <1>2, <1>3, <1>4, SignedWord

\* The smaller term of a fused sum, below the larger one by enough for one unit to be
\* given up as well.
LEMMA ShiftOutBelow ==
    ASSUME NEW F, IsFormat(F), NEW f, NEW g, NEW d \in Nat,
           Significand(2 * F.n - 2, f), Significand(2 * F.n - 2, g), NEW q \in Nat, g = 4 * q
    PROVE  LET low == ShiftOut(F, g, d) IN
           /\ low.frac \in 0 .. 2 * 2^(2 * F.n - 2) - 1
           /\ low.more \in BOOLEAN
           /\ d > 0 \/ g < f => low.frac + (IF low.more THEN 1 ELSE 0) < f
<1> DEFINE P == 2^(2 * F.n - 2)
           R == 2^(2 * F.n - 4)
           b == 2^d
           low == ShiftOut(F, g, d)
<1>1. P \in Nat /\ 2 * F.n - 2 \in Nat /\ 2 * F.n - 4 \in Nat /\ F.n \in Nat /\ F.n >= 3
  BY WideSizes
<1>2. P = 4 * R /\ R \in Nat /\ R >= 1
  <2>1. (2 * F.n - 4) + 1 = 2 * F.n - 3 /\ (2 * F.n - 3) + 1 = 2 * F.n - 2 /\ 2 * F.n - 3 \in Nat
    BY <1>1
  <2>2. 2^(2 * F.n - 3) = 2 * 2^(2 * F.n - 4) /\ 2^(2 * F.n - 2) = 2 * 2^(2 * F.n - 3)
    BY <1>1, <2>1, PowerStep
  <2>3. R \in Nat /\ R >= 1
    BY <1>1, PowerType
  <2> QED
    BY <2>2, <2>3
<1>3. f \in P .. 2 * P - 1 /\ g \in P .. 2 * P - 1
  BY DEF Significand
<1>4. b \in Nat /\ b >= 1 /\ (d > 0 => b >= 2) /\ (d = 0 => b = 1)
  <2>1. ASSUME d > 0 PROVE b >= 2
    <3>1. d >= 1
      BY <2>1
    <3>2. 2^d = 2 * 2^(d - 1) /\ 2^(d - 1) \in Nat /\ 2^(d - 1) >= 1
      BY <3>1, PowerBelow
    <3> QED
      BY <3>2
  <2>2. b \in Nat /\ b >= 1 /\ (d = 0 => b = 1)
    BY PowerType, PowerZero
  <2> QED
    BY <2>1, <2>2
<1>5. /\ d >= 2 * F.n - 1 => low.frac = 0 /\ low.more = TRUE
      /\ ~ (d >= 2 * F.n - 1) => low.frac = g \div b /\ low.more \in BOOLEAN /\ (low.more <=> g % b # 0)
  BY DEF ShiftOut
<1> HIDE DEF P, R, b, low
<1>6. g \in Nat /\ f \in Nat
  BY <1>1, <1>3
<1>7. g \div b \in Nat /\ g \div b <= g /\ b * (g \div b) <= g /\ g % b \in 0 .. b - 1
  BY <1>4, <1>6, Division, DivisionType
<1>8. CASE d >= 2 * F.n - 1
  <2>1. low.frac = 0 /\ low.more = TRUE
    BY <1>5, <1>8
  <2>2. 0 \in 0 .. 2 * P - 1 /\ 0 + 1 < f
    BY <1>2, <1>3
  <2>3. low.frac + (IF low.more THEN 1 ELSE 0) < f
    BY <2>1, <2>2
  <2> QED
    BY <2>1, <2>2, <2>3 DEF P, low
<1>9. CASE d < 2 * F.n - 1
  <2>1. low.frac = g \div b /\ low.more \in BOOLEAN /\ (low.more <=> g % b # 0)
    <3>1. ~ (d >= 2 * F.n - 1)
      BY <1>1, <1>9
    <3> QED
      BY <1>5, <3>1
  <2>2. ASSUME d > 0 PROVE low.frac + (IF low.more THEN 1 ELSE 0) < f
    <3> DEFINE y == g \div b
    <3>1. g <= 2 * P - 4
      BY <1>2, <1>3
    <3>2. 2 * y <= b * y
      BY <1>4, <1>7, <2>2, ScaledOrder
    <3>3. y \in Nat /\ b * y <= g
      BY <1>7
    <3> HIDE DEF y
    <3>4. b * y \in Int
      BY <1>4, <3>3
    <3>5. y <= P - 2
      BY <1>1, <1>6, <3>1, <3>2, <3>3, <3>4
    <3> QED
      BY <1>1, <1>3, <2>1, <3>3, <3>5 DEF y
  <2>3. ASSUME d = 0, g < f PROVE low.frac + (IF low.more THEN 1 ELSE 0) < f
    <3>1. b = 1
      BY <1>4, <2>3
    <3>2. g % b = 0
      BY <1>7, <3>1
    <3>3. low.more = FALSE
      BY <2>1, <3>2
    <3> QED
      BY <1>6, <1>7, <2>1, <2>3, <3>3
  <2>4. low.frac \in 0 .. 2 * P - 1 /\ low.more \in BOOLEAN
    BY <1>1, <1>3, <1>6, <1>7, <2>1
  <2> QED
    BY <2>2, <2>3, <2>4 DEF P, low
<1> QED
  BY <1>1, <1>8, <1>9 DEF P, low

LEMMA FusedTermsRound ==
    ASSUME NEW F, IsFormat(F), NEW big, big.scale \in Int, NEW small, NEW d \in Nat,
           Significand(2 * F.n - 2, big.frac), Significand(2 * F.n - 2, small.frac),
           \E q \in Nat : small.frac = 4 * q,
           NEW same \in BOOLEAN, same \/ d > 0 \/ small.frac < big.frac, NEW junk
    PROVE  FusedTerms(F, big, ShiftOut(F, small.frac, d), same, junk) \in PositiveWords(F)
<1> DEFINE P == 2^(2 * F.n - 2)
           low == ShiftOut(F, small.frac, d)
           sum == IF same THEN big.frac + low.frac
                  ELSE big.frac - low.frac - (IF low.more THEN 1 ELSE 0)
<1>1. P \in Nat /\ P >= 1 /\ 2^(2 * F.n) = 4 * P
  <2>1. 2 * F.n - 2 \in Nat
    BY WideSizes
  <2> QED
    BY <2>1, WideSizes, PowerType
<1>2. PICK q \in Nat : small.frac = 4 * q
  OBVIOUS
<1>3. /\ low.frac \in 0 .. 2 * P - 1 /\ low.more \in BOOLEAN
      /\ d > 0 \/ small.frac < big.frac => low.frac + (IF low.more THEN 1 ELSE 0) < big.frac
  BY <1>2, ShiftOutBelow
<1>4. big.frac \in P .. 2 * P - 1
  BY DEF Significand
<1>5. FusedTerms(F, big, low, same, junk) = FusedSum(F, big.scale, sum, low.more, junk)
  BY DEF FusedTerms
<1> HIDE DEF low, P
<1>6. sum \in 1 .. 2^(2 * F.n) - 1
  <2>1. CASE same
    BY <1>1, <1>3, <1>4, <2>1
  <2>2. CASE ~ same
    <3> DEFINE m == IF low.more THEN 1 ELSE 0
    <3>1. m \in {0, 1} /\ low.frac + m < big.frac /\ sum = big.frac - low.frac - m
      BY <1>3, <2>2
    <3> HIDE DEF m, sum
    <3> QED
      BY <1>1, <1>3, <1>4, <3>1
  <2> QED
    BY <2>1, <2>2
<1> HIDE DEF sum
<1> DEFINE z == Normal(F, big.scale, sum)
<1>7. \A more : Round(F, z.scale, z.frac, more) \in PositiveWords(F)
  BY <1>6, NormalRounds
<1> HIDE DEF z
<1>8. FusedSum(F, big.scale, sum, low.more, junk) \in PositiveWords(F)
  BY <1>7 DEF FusedSum, RoundFused, z
<1> QED
  BY <1>5, <1>8 DEF low

\* A fused sum is zero, where its terms cancel, or a number.
LEMMA FusedNumber ==
    ASSUME NEW F, IsFormat(F), NEW p, NEW w, p.scale \in Int, w.scale \in Int,
           Significand(2 * F.n - 2, p.frac), Significand(2 * F.n - 2, w.frac),
           \E q \in Nat : p.frac = 4 * q, \E q \in Nat : w.frac = 4 * q,
           NEW signP \in BOOLEAN, NEW signC \in BOOLEAN, NEW junk
    PROVE  Fused(F, p, w, signP, signC, junk) = 0 \/ Numeric(F, Fused(F, p, w, signP, signC, junk))
<1> DEFINE shift == p.scale - w.scale
           same == signP = signC
           y == FusedTerms(F, p, ShiftOut(F, w.frac, shift), same, junk)
           z == FusedTerms(F, w, ShiftOut(F, p.frac, -shift), same, junk)
<1>1. p.frac \in Nat /\ w.frac \in Nat
  <2>1. 2^(2 * F.n - 2) \in Nat
    BY WideSizes
  <2> QED
    BY <2>1 DEF Significand
<1>2. shift \in Int /\ -shift \in Int /\ same \in BOOLEAN /\ (same <=> ~ (signP # signC))
  BY SMT
<1>3. Fused(F, p, w, signP, signC, junk) =
        IF signP # signC /\ shift = 0 /\ p.frac = w.frac THEN 0
        ELSE IF shift > 0 \/ (shift = 0 /\ p.frac >= w.frac) THEN Signed(F, signP, y)
        ELSE Signed(F, signC, z)
  BY DEF Fused
<1> HIDE DEF shift, same
<1>4. CASE signP # signC /\ shift = 0 /\ p.frac = w.frac
  BY <1>3, <1>4
<1>5. CASE /\ ~ (signP # signC /\ shift = 0 /\ p.frac = w.frac)
           /\ shift > 0 \/ (shift = 0 /\ p.frac >= w.frac)
  <2>1. shift \in Nat /\ (same \/ shift > 0 \/ w.frac < p.frac)
    BY <1>1, <1>2, <1>5
  <2>2. y \in PositiveWords(F)
    BY <1>2, <2>1, FusedTermsRound
  <2> HIDE DEF y
  <2> QED
    BY <1>3, <1>5, <2>2, SignedWord
<1>6. CASE /\ ~ (signP # signC /\ shift = 0 /\ p.frac = w.frac)
           /\ ~ (shift > 0 \/ (shift = 0 /\ p.frac >= w.frac))
  <2>1. -shift \in Nat /\ (same \/ -shift > 0 \/ p.frac < w.frac)
    BY <1>1, <1>2, <1>6
  <2>2. z \in PositiveWords(F)
    BY <1>2, <2>1, FusedTermsRound
  <2> HIDE DEF z
  <2> QED
    BY <1>3, <1>6, <2>2, SignedWord
<1> QED
  BY <1>4, <1>5, <1>6

LEMMA ZeroWord ==
    ASSUME NEW F, IsFormat(F)
    PROVE  /\ 0 \in PrecisionWords(F) /\ NaR(F) \in PrecisionWords(F) /\ NaR(F) # 0
           /\ Magnitude(F, 0) = 0 /\ ~ Negative(F, 0)
<1>1. /\ 2^(F.x - 1) \in Nat /\ 2^(F.x - 1) >= 2 /\ 2^F.x = 2 * 2^(F.x - 1)
      /\ Ulp(F) \in Nat /\ Ulp(F) >= 1 /\ NaR(F) \in Nat /\ NaR(F) = 2^(F.x - 1) * Ulp(F)
  BY Sizes
<1>2. 0 \in 0 .. 2^F.x - 1 /\ 2^(F.x - 1) \in 0 .. 2^F.x - 1 /\ 0 * Ulp(F) = 0
  BY <1>1
<1>3. 0 \in PrecisionWords(F) /\ NaR(F) \in PrecisionWords(F)
  BY <1>1, <1>2 DEF PrecisionWords
<1>4. NaR(F) # 0
  <2>1. 2^(F.x - 1) \in Int /\ 2^(F.x - 1) # 0
    BY <1>1
  <2> QED
    BY <1>1, <2>1, WordUnits
<1>5. ~ Negative(F, 0)
  BY <1>1, <1>4 DEF Negative
<1> QED
  BY <1>3, <1>4, <1>5 DEF Magnitude, Signed

LEMMA MulAddTwoBitsNumber ==
    ASSUME NEW F, IsFormat(F), F.x = 2, NEW a, NEW b, NEW c,
           Numeric(F, a), Numeric(F, b), c = 0 \/ Numeric(F, c)
    PROVE  MulAddTwoBits(F, a, b, c) = 0 \/ Numeric(F, MulAddTwoBits(F, a, b, c))
<1> DEFINE U == Ulp(F)
           uc == Magnitude(F, c)
           signP == SignDiffers(F, a, b)
<1>1. /\ Bit(Magnitude(F, a), F.n - 2) = 1 /\ Bit(Magnitude(F, b), F.n - 2) = 1
      /\ U \in PositiveWords(F)
  BY MagnitudeWord, TwoBits
<1>2. uc = 0 \/ uc = U
  BY MagnitudeWord, TwoBits, ZeroWord
<1>3. MulAddTwoBits(F, a, b, c) =
        IF signP = Negative(F, c) THEN Signed(F, signP, IF U = 0 THEN uc ELSE U + (uc % U))
        ELSE IF uc = U THEN 0 ELSE Signed(F, signP = (U > 0), U)
  BY <1>1 DEF MulAddTwoBits
<1>4. U \in Nat /\ U >= 1
  BY Sizes
<1>5. signP \in BOOLEAN
  BY DEF SignDiffers
<1> HIDE DEF U, uc, signP
<1>6. uc % U = 0
  <2>1. U \in Int /\ U = U * 1 + 0 /\ 0 = U * 0 + 0 /\ 0 \in 0 .. U - 1 /\ U > 0
    BY <1>4
  <2>2. U % U = 0
    BY <1>4, <2>1, DivisionUnique
  <2>3. 0 % U = 0
    BY <1>4, <2>1, SmallDivision
  <2> QED
    BY <1>2, <2>2, <2>3
<1>7. (IF U = 0 THEN uc ELSE U + (uc % U)) = U
  BY <1>4, <1>6
<1>8. (signP = (U > 0)) \in BOOLEAN
  OBVIOUS
<1>9. Numeric(F, Signed(F, signP, U)) /\ Numeric(F, Signed(F, signP = (U > 0), U))
  BY <1>1, <1>5, <1>8, SignedWord
<1> QED
  BY <1>3, <1>7, <1>9

\* What the fused operation returns.
LEMMA MulAddWord ==
    ASSUME NEW F, IsFormat(F), NEW a \in PrecisionWords(F), NEW b \in PrecisionWords(F),
           NEW c \in PrecisionWords(F), NEW junk
    PROVE  /\ MulAdd(F, a, b, c, junk) \in PrecisionWords(F)
           /\ MulAdd(F, a, b, c, junk) = NaR(F) <=> NaR(F) \in {a, b, c}
<1> DEFINE r == MulAdd(F, a, b, c, junk)
           p == Product(F, Magnitude(F, a), Magnitude(F, b))
           signP == SignDiffers(F, a, b)
<1>1. NaR(F) \in PrecisionWords(F) /\ 0 \in PrecisionWords(F) /\ NaR(F) # 0
  BY ZeroWord
<1>2. CASE NaR(F) \in {a, b, c}
  <2>1. r = NaR(F)
    BY <1>2 DEF MulAdd
  <2> QED
    BY <1>1, <1>2, <2>1
<1>3. CASE NaR(F) \notin {a, b, c} /\ (a = 0 \/ b = 0)
  <2>1. r = c
    BY <1>3 DEF MulAdd
  <2> QED
    BY <1>3, <2>1
<1>4. CASE NaR(F) \notin {a, b, c} /\ ~ (a = 0 \/ b = 0)
  <2>1. Numeric(F, a) /\ Numeric(F, b) /\ (c = 0 \/ Numeric(F, c))
    BY <1>4 DEF Numeric
  <2>2. Magnitude(F, a) \in PositiveWords(F) /\ Magnitude(F, b) \in PositiveWords(F)
    BY <2>1, MagnitudeWord
  <2>3. /\ p.scale \in Int /\ Significand(2 * F.n - 2, p.frac) /\ \E q \in Nat : p.frac = 4 * q
        /\ \A more : Round(F, p.scale, p.frac, more) \in PositiveWords(F)
    BY <2>2, ProductNumber
  <2>4. signP \in BOOLEAN /\ Negative(F, c) \in BOOLEAN
    BY DEF SignDiffers, Negative
  <2>5. r = IF F.x = 2 THEN MulAddTwoBits(F, a, b, c)
            ELSE IF c = 0 THEN Signed(F, signP, RoundFused(F, p, FALSE, junk))
            ELSE Fused(F, p, Wide(F, Magnitude(F, c)), signP, Negative(F, c), junk)
    BY <1>4 DEF MulAdd
  <2> HIDE DEF r, p, signP
  <2>6. r = 0 \/ Numeric(F, r)
    <3>1. CASE F.x = 2
      BY <2>1, <2>5, <3>1, MulAddTwoBitsNumber
    <3>2. CASE F.x # 2 /\ c = 0
      <4>1. RoundFused(F, p, FALSE, junk) \in PositiveWords(F)
        BY <2>3 DEF RoundFused
      <4> QED
        BY <2>4, <2>5, <3>2, <4>1, SignedWord
    <3>3. CASE F.x # 2 /\ c # 0
      <4> DEFINE w == Wide(F, Magnitude(F, c))
      <4>1. Magnitude(F, c) \in PositiveWords(F)
        BY <2>1, <3>3, MagnitudeWord
      <4>2. w.scale \in Int /\ Significand(2 * F.n - 2, w.frac) /\ \E q \in Nat : w.frac = 4 * q
        BY <4>1, WideWord
      <4> HIDE DEF w
      <4>3. Fused(F, p, w, signP, Negative(F, c), junk) = 0
            \/ Numeric(F, Fused(F, p, w, signP, Negative(F, c), junk))
        BY <2>3, <2>4, <4>2, FusedNumber
      <4> QED
        BY <2>5, <3>3, <4>3 DEF w
    <3> QED
      BY <3>1, <3>2, <3>3
  <2>7. r \in PrecisionWords(F) /\ r # NaR(F)
    BY <1>1, <2>6 DEF Numeric
  <2> QED
    BY <1>4, <2>7 DEF r
<1> QED
  BY <1>2, <1>3, <1>4

-----------------------------------------------------------------------------
(* Zeros, NaRs and signs, read off the words as signed integers.           *)

LEMMA WordKinds ==
    ASSUME NEW F, IsFormat(F), NEW u \in PrecisionWords(F)
    PROVE  /\ u \in Nat /\ u < 2^F.n /\ Negative(F, u) \in BOOLEAN /\ NaR(F) \in Nat
           /\ u = 0 \/ u = NaR(F) \/ Numeric(F, u)
           /\ AsInt(F, u) \in Int
           /\ Negative(F, u) <=> AsInt(F, u) < 0
           /\ u = 0 <=> AsInt(F, u) = 0
           /\ Numeric(F, u) => AsInt(F, u) = IF Negative(F, u) THEN -Magnitude(F, u) ELSE Magnitude(F, u)
           /\ u # NaR(F) => AsInt(F, Neg(F, u)) = -AsInt(F, u) /\ Neg(F, u) # NaR(F)
           /\ Neg(F, u) \in PrecisionWords(F)
<1> DEFINE N == NaR(F)
<1>1. N \in Nat /\ 2^F.n = 2 * N /\ N # 0
  BY Sizes, ZeroWord
<1>2. u \in Nat /\ u < 2 * N
  <2>1. PICK i \in 0 .. 2^F.x - 1 : u = i * Ulp(F)
    BY DEF PrecisionWords
  <2>2. i \in Int /\ i < 2^F.x /\ i \in Nat /\ Ulp(F) \in Nat
    BY <2>1, Sizes
  <2>3. i * Ulp(F) < 2^F.n
    BY <2>2, WordUnits
  <2>4. i * Ulp(F) \in Nat
    BY <2>2
  <2> QED
    BY <1>1, <2>1, <2>3, <2>4
<1>3. Neg(F, u) \in PrecisionWords(F) /\ Neg(F, u) = IF u = 0 THEN 0 ELSE 2 * N - u
  BY <1>1, Negation
<1>4. AsInt(F, u) = IF u >= N THEN u - 2 * N ELSE u
  BY <1>1 DEF AsInt, Negative
<1>5. AsInt(F, Neg(F, u)) = IF Neg(F, u) >= N THEN Neg(F, u) - 2 * N ELSE Neg(F, u)
  BY <1>1 DEF AsInt, Negative
<1>6. Negative(F, u) <=> u >= N
  BY DEF Negative
<1>7. Negative(F, u) \in BOOLEAN
  BY DEF Negative
<1>8. Magnitude(F, u) = IF u >= N THEN Neg(F, u) ELSE u
  BY <1>6 DEF Magnitude, Signed
<1>9. u = 0 \/ u = N \/ Numeric(F, u)
  BY DEF Numeric
<1>10. Numeric(F, u) => u # 0 /\ u # N
  BY DEF Numeric
<1> HIDE DEF N
<1>11. /\ AsInt(F, u) \in Int
       /\ u >= N <=> AsInt(F, u) < 0
       /\ u = 0 <=> AsInt(F, u) = 0
       /\ u # 0 => AsInt(F, u) = IF u >= N THEN -Magnitude(F, u) ELSE Magnitude(F, u)
       /\ u # N => AsInt(F, Neg(F, u)) = -AsInt(F, u) /\ Neg(F, u) # N
  BY <1>1, <1>2, <1>3, <1>4, <1>5, <1>8
<1> QED
  BY <1>1, <1>2, <1>3, <1>6, <1>7, <1>9, <1>10, <1>11 DEF N

\* The functions for the sum and the difference, with the operators for the magnitudes
\* in place.
AddOf(F, a, b) ==
    IF a = 0 \/ b = 0 THEN a + b
    ELSE IF NaR(F) \in {a, b} THEN NaR(F)
    ELSE IF Negative(F, a) = Negative(F, b) THEN AddMags(F, a, b) ELSE SubMags(F, a, b)

SubOf(F, a, b) ==
    IF NaR(F) \in {a, b} THEN NaR(F)
    ELSE IF a = 0 \/ b = 0 THEN a + Neg(F, b)
    ELSE IF Negative(F, a) = Negative(F, b) THEN SubMags(F, a, Neg(F, b))
    ELSE AddMags(F, a, Neg(F, b))

\* The word z has the sign of the number d.
SignOf(F, z, d) == z # NaR(F) /\ (z = 0 <=> d = 0) /\ (Negative(F, z) <=> d < 0)

\* A sum is NaR only if an operand is, and else zero, negative or positive like the sum
\* of the words as signed integers.
LEMMA AddWord ==
    ASSUME NEW F, IsFormat(F), NEW a \in PrecisionWords(F), NEW b \in PrecisionWords(F)
    PROVE  /\ AddOf(F, a, b) \in PrecisionWords(F)
           /\ IF NaR(F) \in {a, b} THEN AddOf(F, a, b) = NaR(F)
              ELSE SignOf(F, AddOf(F, a, b), AsInt(F, a) + AsInt(F, b))
<1> DEFINE r == AddOf(F, a, b)
           i == AsInt(F, a)
           j == AsInt(F, b)
<1>1. /\ a \in Nat /\ b \in Nat /\ i \in Int /\ j \in Int
      /\ a = 0 \/ a = NaR(F) \/ Numeric(F, a)
      /\ b = 0 \/ b = NaR(F) \/ Numeric(F, b)
      /\ (Negative(F, a) <=> i < 0) /\ (Negative(F, b) <=> j < 0)
      /\ (a = 0 <=> i = 0) /\ (b = 0 <=> j = 0)
      /\ Negative(F, a) \in BOOLEAN /\ Negative(F, b) \in BOOLEAN
  BY WordKinds
<1>2. NaR(F) \in PrecisionWords(F) /\ NaR(F) # 0
  BY ZeroWord
<1>3. CASE a = 0
  <2>1. r = b /\ i = 0
    BY <1>1, <1>3 DEF AddOf
  <2>2. i + j = j
    BY <1>1, <2>1
  <2> HIDE DEF r, i, j
  <2> QED
    BY <1>1, <1>2, <1>3, <2>1, <2>2 DEF SignOf, r, i, j
<1>4. CASE a # 0 /\ b = 0
  <2>1. r = a /\ j = 0
    BY <1>1, <1>4 DEF AddOf
  <2>2. i + j = i
    BY <1>1, <2>1
  <2> HIDE DEF r, i, j
  <2> QED
    BY <1>1, <1>2, <1>4, <2>1, <2>2 DEF SignOf, r, i, j
<1>5. CASE a # 0 /\ b # 0 /\ NaR(F) \in {a, b}
  <2>1. r = NaR(F)
    BY <1>5 DEF AddOf
  <2> QED
    BY <1>2, <1>5, <2>1
<1>6. CASE a # 0 /\ b # 0 /\ NaR(F) \notin {a, b}
  <2>1. Numeric(F, a) /\ Numeric(F, b)
    BY <1>1, <1>6
  <2>2. /\ i = IF Negative(F, a) THEN -Magnitude(F, a) ELSE Magnitude(F, a)
        /\ j = IF Negative(F, b) THEN -Magnitude(F, b) ELSE Magnitude(F, b)
    BY <2>1, WordKinds
  <2>3. Magnitude(F, a) \in Nat /\ Magnitude(F, b) \in Nat
        /\ Magnitude(F, a) > 0 /\ Magnitude(F, b) > 0
    BY <2>1, MagnitudeWord, PositiveWord
  <2> DEFINE m == Magnitude(F, a)
             n == Magnitude(F, b)
  <2>4. m \in Nat /\ n \in Nat /\ m > 0 /\ n > 0
        /\ i = (IF Negative(F, a) THEN -m ELSE m) /\ j = (IF Negative(F, b) THEN -n ELSE n)
    BY <2>2, <2>3
  <2>5. CASE Negative(F, a) <=> Negative(F, b)
    <3>1. r = AddMags(F, a, b)
      BY <1>1, <1>6, <2>5 DEF AddOf
    <3>2. Numeric(F, AddMags(F, a, b)) /\ (Negative(F, AddMags(F, a, b)) <=> Negative(F, a))
      BY <2>1, <2>5, AddMagsNumber
    <3> HIDE DEF r, i, j, m, n
    <3>3. i + j # 0 /\ (i + j < 0 <=> Negative(F, a))
      BY <2>4, <2>5
    <3>4. r \in PrecisionWords(F) /\ SignOf(F, r, i + j)
      BY <3>1, <3>2, <3>3 DEF Numeric, SignOf
    <3> QED
      BY <1>6, <3>4 DEF r, i, j
  <2>6. CASE ~ (Negative(F, a) <=> Negative(F, b))
    <3>1. r = SubMags(F, a, b)
      BY <1>1, <1>6, <2>6 DEF AddOf
    <3>2. IF m = n THEN SubMags(F, a, b) = 0
          ELSE /\ Numeric(F, SubMags(F, a, b))
               /\ Negative(F, SubMags(F, a, b)) <=> IF m < n THEN ~ Negative(F, a) ELSE Negative(F, a)
      BY <2>1, SubMagsNumber
    <3>3. ~ Negative(F, 0) /\ 0 \in PrecisionWords(F)
      BY ZeroWord
    <3> HIDE DEF r, i, j, m, n
    <3>4. CASE m = n
      <4>1. i + j = 0 /\ r = 0
        BY <2>4, <2>6, <3>1, <3>2, <3>4
      <4>2. r \in PrecisionWords(F) /\ SignOf(F, r, i + j)
        BY <1>2, <3>3, <4>1 DEF SignOf
      <4> QED
        BY <1>6, <4>2 DEF r, i, j
    <3>5. CASE m # n
      <4>1. i + j # 0 /\ (i + j < 0 <=> IF m < n THEN ~ Negative(F, a) ELSE Negative(F, a))
        BY <2>4, <2>6, <3>5
      <4>2. Numeric(F, r) /\ (Negative(F, r) <=> i + j < 0)
        BY <3>1, <3>2, <3>5, <4>1
      <4>3. r \in PrecisionWords(F) /\ SignOf(F, r, i + j)
        BY <4>1, <4>2 DEF SignOf, Numeric
      <4> QED
        BY <1>6, <4>3 DEF r, i, j
    <3> QED
      BY <3>4, <3>5
  <2> QED
    BY <2>5, <2>6
<1> QED
  BY <1>3, <1>4, <1>5, <1>6

\* The difference is the sum with the negated word.
LEMMA SubWord ==
    ASSUME NEW F, IsFormat(F), NEW a \in PrecisionWords(F), NEW b \in PrecisionWords(F)
    PROVE  /\ SubOf(F, a, b) \in PrecisionWords(F)
           /\ IF NaR(F) \in {a, b} THEN SubOf(F, a, b) = NaR(F)
              ELSE SignOf(F, SubOf(F, a, b), AsInt(F, a) - AsInt(F, b))
<1> DEFINE c == Neg(F, b)
<1>1. NaR(F) \in PrecisionWords(F) /\ NaR(F) # 0
  BY ZeroWord
<1>2. CASE NaR(F) \in {a, b}
  <2>1. SubOf(F, a, b) = NaR(F)
    BY <1>2 DEF SubOf
  <2> QED
    BY <1>1, <1>2, <2>1
<1>3. CASE NaR(F) \notin {a, b}
  <2>1. c \in PrecisionWords(F) /\ c # NaR(F) /\ AsInt(F, c) = -AsInt(F, b)
        /\ AsInt(F, a) \in Int /\ AsInt(F, b) \in Int /\ Negative(F, a) \in BOOLEAN
        /\ Negative(F, b) \in BOOLEAN /\ (b = 0 \/ Numeric(F, b))
    BY <1>3, WordKinds
  <2>2. (b = 0 <=> c = 0) /\ (b # 0 => (Negative(F, c) <=> ~ Negative(F, b)))
    <3>1. Numeric(F, b) => Numeric(F, c) /\ (Negative(F, c) <=> ~ Negative(F, b))
      BY Negation
    <3>2. b = 0 => c = 0
      BY Negation
    <3> QED
      BY <2>1, <3>1, <3>2 DEF Numeric
  <2>3. SubOf(F, a, b) = IF a = 0 \/ b = 0 THEN a + c
                         ELSE IF Negative(F, a) = Negative(F, b) THEN SubMags(F, a, c)
                         ELSE AddMags(F, a, c)
    BY <1>3 DEF SubOf
  <2>4. AddOf(F, a, c) = IF a = 0 \/ c = 0 THEN a + c
                         ELSE IF Negative(F, a) = Negative(F, c) THEN AddMags(F, a, c)
                         ELSE SubMags(F, a, c)
    BY <1>3, <2>1 DEF AddOf
  <2> HIDE DEF c
  <2>5. Negative(F, c) \in BOOLEAN
    BY DEF Negative
  <2>6. SubOf(F, a, b) = AddOf(F, a, c)
    BY <2>1, <2>2, <2>3, <2>4, <2>5
  <2>7. AsInt(F, a) - AsInt(F, b) = AsInt(F, a) + AsInt(F, c)
    BY <2>1
  <2>8. /\ AddOf(F, a, c) \in PrecisionWords(F)
        /\ SignOf(F, AddOf(F, a, c), AsInt(F, a) + AsInt(F, c))
    BY <1>3, <2>1, AddWord
  <2> QED
    BY <1>3, <2>6, <2>7, <2>8
<1> QED
  BY <1>2, <1>3

\* Products and quotients.
LEMMA MulWord ==
    ASSUME NEW F, IsFormat(F), NEW a \in PrecisionWords(F), NEW b \in PrecisionWords(F)
    PROVE  /\ Mul(F, a, b) \in PrecisionWords(F)
           /\ Mul(F, a, b) = NaR(F) <=> NaR(F) \in {a, b}
           /\ Mul(F, a, b) = 0 <=> NaR(F) \notin {a, b} /\ 0 \in {a, b}
           /\ {0, NaR(F)} \cap {a, b} = {} =>
                 (Negative(F, Mul(F, a, b)) <=> (Negative(F, a) # Negative(F, b)))
<1>1. NaR(F) \in PrecisionWords(F) /\ NaR(F) # 0 /\ 0 \in PrecisionWords(F)
  BY ZeroWord
<1>2. CASE NaR(F) \in {a, b}
  <2>1. Mul(F, a, b) = NaR(F)
    BY <1>2 DEF Mul
  <2> QED
    BY <1>1, <1>2, <2>1
<1>3. CASE NaR(F) \notin {a, b} /\ 0 \in {a, b}
  <2>1. Mul(F, a, b) = 0
    BY <1>3 DEF Mul
  <2> QED
    BY <1>1, <1>3, <2>1
<1>4. CASE NaR(F) \notin {a, b} /\ 0 \notin {a, b}
  <2>1. Numeric(F, a) /\ Numeric(F, b)
    BY <1>4 DEF Numeric
  <2>2. Numeric(F, Mul(F, a, b)) /\ (Negative(F, Mul(F, a, b)) <=> (Negative(F, a) # Negative(F, b)))
    BY <2>1, MulNumber
  <2> QED
    BY <1>4, <2>2 DEF Numeric
<1> QED
  BY <1>2, <1>3, <1>4

LEMMA DivWord ==
    ASSUME NEW F, IsFormat(F), NEW a \in PrecisionWords(F), NEW b \in PrecisionWords(F)
    PROVE  /\ Div(F, a, b) \in PrecisionWords(F)
           /\ Div(F, a, b) = NaR(F) <=> NaR(F) \in {a, b} \/ b = 0
           /\ Div(F, a, b) = 0 <=> NaR(F) \notin {a, b} /\ a = 0 /\ b # 0
           /\ {0, NaR(F)} \cap {a, b} = {} =>
                 (Negative(F, Div(F, a, b)) <=> (Negative(F, a) # Negative(F, b)))
<1>1. NaR(F) \in PrecisionWords(F) /\ NaR(F) # 0 /\ 0 \in PrecisionWords(F)
  BY ZeroWord
<1>2. CASE NaR(F) \in {a, b} \/ b = 0
  <2>1. Div(F, a, b) = NaR(F)
    BY <1>2 DEF Div
  <2> QED
    BY <1>1, <1>2, <2>1
<1>3. CASE NaR(F) \notin {a, b} /\ b # 0 /\ a = 0
  <2>1. Div(F, a, b) = 0
    BY <1>3 DEF Div
  <2> QED
    BY <1>1, <1>3, <2>1
<1>4. CASE NaR(F) \notin {a, b} /\ 0 \notin {a, b}
  <2>1. Numeric(F, a) /\ Numeric(F, b)
    BY <1>4 DEF Numeric
  <2>2. Numeric(F, Div(F, a, b)) /\ (Negative(F, Div(F, a, b)) <=> (Negative(F, a) # Negative(F, b)))
    BY <2>1, DivNumber
  <2> QED
    BY <1>4, <2>2 DEF Numeric
<1> QED
  BY <1>2, <1>3, <1>4

-----------------------------------------------------------------------------
(* The numbers that words stand for.                                       *)

LEMMA OneBits ==
    ASSUME NEW a \in Nat, NEW m \in Nat, NEW q \in Nat, m <= q, q < a, NEW j \in 0 .. 2^m - 1
    PROVE  Bit(2^a - 2^m + j, q) = 1
<1> DEFINE c == 2^(a - q - 1)
           b == 2^q
           d == 2^m
           u == 2^a - 2^m + j
<1>1. a - q - 1 \in Nat /\ (a - q - 1) + 1 = a - q /\ a - q \in Nat /\ q <= a
  OBVIOUS
<1>2. 2^a = 2^(a - q) * b /\ 2^(a - q) = 2 * c
  BY <1>1, PowerSplit, PowerStep
<1>3. c \in Nat /\ b \in Nat /\ b >= 1 /\ d \in Nat /\ d >= 1 /\ d <= b
  BY <1>1, PowerType, PowerMonotone
<1> HIDE DEF c, b, d
<1>4. u = b * (2 * c - 1) + (b - d + j)
  <2>1. 2^a = (2 * c) * b
    BY <1>2
  <2>2. (2 * c) * b = b * (2 * c - 1) + b
    BY <1>3
  <2>3. u = 2^a - d + j /\ j \in Int /\ b * (2 * c - 1) \in Int
    BY <1>3 DEF d
  <2> QED
    BY <1>3, <2>1, <2>2, <2>3
<1>5. b - d + j \in 0 .. b - 1 /\ 2 * c - 1 \in Int /\ u \in Int
  <2>1. j \in 0 .. d - 1
    BY DEF d
  <2>2. b - d + j \in 0 .. b - 1 /\ 2 * c - 1 \in Int /\ b * (2 * c - 1) \in Int
    BY <1>3, <2>1
  <2> HIDE DEF u
  <2> QED
    BY <1>4, <2>2
<1> HIDE DEF u
<1>6. u \div b = 2 * c - 1
  BY <1>3, <1>4, <1>5, DivisionUnique
<1>7. (2 * c - 1) % 2 = 1
  BY <1>3
<1> QED
  BY <1>6, <1>7 DEF Bit, b, u

LEMMA ZeroBit ==
    ASSUME NEW a \in Nat, NEW m \in Nat, m < a, NEW j \in 0 .. 2^m - 1
    PROVE  Bit(2^a - 2^(m + 1) + j, m) = 0
<1> DEFINE c == 2^(a - (m + 1))
           b == 2^m
           u == 2^a - 2^(m + 1) + j
<1>1. a - (m + 1) \in Nat /\ m + 1 \in Nat /\ m + 1 <= a
  OBVIOUS
<1>2. 2^a = c * 2^(m + 1) /\ 2^(m + 1) = 2 * b
  BY <1>1, PowerSplit, PowerStep
<1>3. c \in Nat /\ b \in Nat /\ b >= 1
  BY <1>1, PowerType
<1>4. j \in 0 .. b - 1
  OBVIOUS
<1>5. u = 2^a - 2^(m + 1) + j
  OBVIOUS
<1> HIDE DEF c, b, u
<1>6. u = b * (2 * c - 2) + j /\ 2 * c - 2 \in Int /\ b * (2 * c - 2) \in Int
  <2>1. c * (2 * b) = b * (2 * c - 2) + 2 * b
    BY <1>3
  <2>2. 2 * c - 2 \in Int /\ b * (2 * c - 2) \in Int /\ j \in Int
    BY <1>3, <1>4
  <2> QED
    BY <1>2, <1>3, <1>5, <2>1, <2>2
<1>7. u \in Int
  BY <1>4, <1>6
<1>8. u \div b = 2 * c - 2
  BY <1>3, <1>4, <1>6, <1>7, DivisionUnique
<1>9. (2 * c - 2) % 2 = 0
  BY <1>3
<1> QED
  BY <1>8, <1>9 DEF Bit, b, u

\* The bits of a word: equal ones along the regime, and the other one at its end.
LEMMA BitsOfShape ==
    ASSUME NEW w \in Nat, w >= 2, NEW u, NEW k, NEW j, Shaped(w, u, k, j)
    PROVE  LET r == RegimeLength(k) IN
           /\ r \in 1 .. w - 1
           /\ \A i \in 1 .. r : Bit(u, w - 1 - i) = IF k < 0 THEN 0 ELSE 1
           /\ r = w - 1 \/ Bit(u, w - 2 - r) = IF k < 0 THEN 1 ELSE 0
           /\ BitsLeft(w, k) = IF r = w - 1 THEN 0 ELSE w - 2 - r
<1> DEFINE r == RegimeLength(k)
<1>1. k \in -(w - 2) .. w - 2 /\ j \in 0 .. 2^BitsLeft(w, k) - 1 /\ u = RegimeStart(w, k) + j
  BY DEF Shaped
<1>2. CASE k < 0
  <2> DEFINE m == w - 2 + k
  <2>1. m \in Nat /\ r = -k /\ r \in 1 .. w - 1 /\ r # w - 1 /\ w - 2 - r = m /\ BitsLeft(w, k) = m
    BY <1>1, <1>2 DEF RegimeLength, BitsLeft
  <2>2. u = 2^m + j /\ j \in 0 .. 2^m - 1
    BY <1>1, <1>2, <2>1 DEF RegimeStart
  <2>3. m + 1 \in Nat /\ \A i \in 1 .. r : w - 1 - i \in Nat /\ m + 1 <= w - 1 - i
    BY <1>1, <1>2, <2>1
  <2> HIDE DEF m, r
  <2>4. 2^(m + 1) = 2 * 2^m /\ 2^m \in Nat /\ 2^m >= 1
    BY <2>1, PowerStep, PowerType
  <2>5. u \in Nat /\ 2^m <= u /\ u < 2 * 2^m
    BY <2>2, <2>4
  <2>6. Bit(u, m) = 1
    <3>1. u \div 2^m = 1
      BY <2>4, <2>5, QuotientOne
    <3> QED
      BY <3>1 DEF Bit
  <2>7. ASSUME NEW i \in 1 .. r PROVE Bit(u, w - 1 - i) = 0
    <3>1. 2^(m + 1) <= 2^(w - 1 - i) /\ 2^(w - 1 - i) \in Nat
      BY <2>3, PowerMonotone, PowerType
    <3>2. u \in 0 .. 2^(w - 1 - i) - 1
      BY <2>4, <2>5, <3>1
    <3>3. u \div 2^(w - 1 - i) = 0
      BY <3>1, <3>2, SmallDivision
    <3> QED
      BY <3>3 DEF Bit
  <2> QED
    BY <1>2, <2>1, <2>6, <2>7 DEF r
<1>3. CASE k >= 0
  <2> DEFINE m == w - 2 - k
             a == w - 1
  <2>1. m \in Nat /\ a \in Nat /\ r = k + 1 /\ r \in 1 .. w - 1 /\ m <= a /\ ~ (k < 0)
    BY <1>1, <1>3 DEF RegimeLength
  <2>2. u = 2^a - 2^m + j
    BY <1>1, <1>3 DEF RegimeStart
  <2>3. (r = w - 1 => m = 0) /\ (r # w - 1 => m - 1 \in Nat /\ w - 2 - r = m - 1 /\ (m - 1) + 1 = m)
        /\ \A i \in 1 .. r : w - 1 - i \in Nat /\ m <= w - 1 - i /\ w - 1 - i < a
    BY <1>1, <1>3, <2>1
  <2>4. BitsLeft(w, k) = IF r = w - 1 THEN 0 ELSE m - 1
    BY <1>1, <1>3, <2>1 DEF BitsLeft
  <2>5. w - 2 - r = m - 1
    BY <1>1, <2>1
  <2> HIDE DEF m, r, a
  <2>6. j \in 0 .. 2^m - 1
    <3>1. CASE r = w - 1
      BY <1>1, <2>3, <2>4, <3>1
    <3>2. CASE r # w - 1
      <4>1. 2^m = 2 * 2^(m - 1) /\ 2^(m - 1) \in Nat
        <5>1. 2^((m - 1) + 1) = 2 * 2^(m - 1) /\ 2^(m - 1) \in Nat
          BY <2>3, <3>2, PowerStep, PowerType
        <5> QED
          BY <2>3, <3>2, <5>1
      <4> QED
        BY <1>1, <2>4, <3>2, <4>1
    <3> QED
      BY <3>1, <3>2
  <2>7. ASSUME NEW i \in 1 .. r PROVE Bit(u, w - 1 - i) = 1
    <3> DEFINE q == w - 1 - i
    <3>1. q \in Nat /\ m <= q /\ q < a
      BY <2>3
    <3> HIDE DEF q
    <3>2. Bit(2^a - 2^m + j, q) = 1
      BY <2>1, <2>6, <3>1, OneBits
    <3> QED
      BY <2>2, <3>2 DEF q
  <2>8. ASSUME r # w - 1 PROVE Bit(u, w - 2 - r) = 0
    <3> DEFINE l == m - 1
    <3>1. l \in Nat /\ l + 1 = m /\ w - 2 - r = l /\ BitsLeft(w, k) = l
      BY <2>3, <2>4, <2>8
    <3> HIDE DEF l
    <3>2. j \in 0 .. 2^l - 1 /\ l < a
      BY <1>1, <2>1, <3>1
    <3>3. Bit(2^a - 2^(l + 1) + j, l) = 0
      BY <2>1, <3>1, <3>2, ZeroBit
    <3> QED
      BY <2>2, <3>1, <3>3
  <2> QED
    BY <2>1, <2>4, <2>5, <2>7, <2>8 DEF r
<1> QED
  BY <1>1, <1>2, <1>3

LEMMA RunOf ==
    ASSUME NEW w \in Nat, w >= 2, NEW u, NEW k, NEW j, Shaped(w, u, k, j)
    PROVE  /\ RegimeLength(k) =
                 CHOOSE i \in 1 .. w - 1 :
                    /\ \A l \in 1 .. i : Bit(u, w - 1 - l) = Bit(u, w - 2)
                    /\ i = w - 1 \/ Bit(u, w - 2 - i) # Bit(u, w - 2)
           /\ Bit(u, w - 2) = IF k < 0 THEN 0 ELSE 1
<1> DEFINE r == RegimeLength(k)
           b == Bit(u, w - 2)
           Is(i) == /\ \A l \in 1 .. i : Bit(u, w - 1 - l) = b
                    /\ i = w - 1 \/ Bit(u, w - 2 - i) # b
<1>1. /\ r \in 1 .. w - 1
      /\ \A i \in 1 .. r : Bit(u, w - 1 - i) = IF k < 0 THEN 0 ELSE 1
      /\ r = w - 1 \/ Bit(u, w - 2 - r) = IF k < 0 THEN 1 ELSE 0
  BY BitsOfShape
<1>2. b = IF k < 0 THEN 0 ELSE 1
  <2>1. 1 \in 1 .. r /\ w - 1 - 1 = w - 2
    BY <1>1
  <2>2. Bit(u, w - 1 - 1) = IF k < 0 THEN 0 ELSE 1
    BY <1>1, <2>1
  <2> QED
    BY <2>1, <2>2
<1> HIDE DEF r, b
<1>3. Is(r)
  BY <1>1, <1>2
<1>4. ASSUME NEW i \in 1 .. w - 1, Is(i) PROVE i = r
  <2>1. ASSUME i < r PROVE FALSE
    <3>1. i + 1 \in 1 .. r /\ w - 1 - (i + 1) = w - 2 - i /\ i # w - 1
      BY <1>1, <2>1
    <3>2. Bit(u, w - 1 - (i + 1)) = b
      BY <1>3, <3>1
    <3> QED
      BY <1>4, <3>1, <3>2
  <2>2. ASSUME r < i PROVE FALSE
    <3>1. r + 1 \in 1 .. i /\ w - 1 - (r + 1) = w - 2 - r /\ r # w - 1
      BY <1>1, <2>2
    <3>2. Bit(u, w - 1 - (r + 1)) = b
      BY <1>4, <3>1
    <3> QED
      BY <1>3, <3>1, <3>2
  <2> QED
    BY <1>1, <2>1, <2>2
<1> HIDE DEF Is
<1>5. r = CHOOSE i \in 1 .. w - 1 : Is(i)
  BY <1>1, <1>3, <1>4
<1> QED
  BY <1>2, <1>5, Zenon DEF Is, r, b
LEMMA RestOfShape ==
    ASSUME NEW w \in Nat, w >= 2, NEW u, NEW k, NEW j, Shaped(w, u, k, j)
    PROVE  u % 2^BitsLeft(w, k) = j
<1> DEFINE l == BitsLeft(w, k)
           b == 2^l
<1>1. k \in -(w - 2) .. w - 2 /\ j \in 0 .. b - 1 /\ u = RegimeStart(w, k) + j
  BY DEF Shaped
<1>2. b \in Nat /\ b >= 1 /\ l \in Nat
  BY <1>1, ShapeSizes
<1>3. \E q \in Int : RegimeStart(w, k) = q * b
  <2>1. CASE k < 0
    <3>1. RegimeStart(w, k) = 2^l /\ 2^l = 1 * b
      BY <1>1, <1>2, <2>1 DEF RegimeStart, BitsLeft
    <3> QED
      BY <3>1
  <2>2. CASE k = w - 2
    <3>1. l = 0 /\ b = 1
      BY <1>1, <2>2, PowerZero DEF BitsLeft
    <3>2. RegimeStart(w, k) \in Nat
      BY <1>1, ShapeSizes
    <3>3. RegimeStart(w, k) = RegimeStart(w, k) * b
      BY <3>1, <3>2
    <3> QED
      BY <3>2, <3>3
  <2>3. CASE k >= 0 /\ k # w - 2
    <3>1. l = w - 3 - k /\ l + 1 = w - 2 - k /\ w - 1 \in Nat /\ l + 1 \in Nat /\ l + 1 <= w - 1
          /\ (w - 1) - (l + 1) \in Nat
      BY <1>1, <2>3 DEF BitsLeft
    <3> DEFINE c == 2^((w - 1) - (l + 1))
    <3>2. RegimeStart(w, k) = 2^(w - 1) - 2^(l + 1)
      BY <1>1, <2>3, <3>1 DEF RegimeStart
    <3>3. 2^(l + 1) = 2 * b /\ 2^(w - 1) = c * 2^(l + 1) /\ c \in Nat
      BY <1>2, <3>1, PowerStep, PowerSplit, PowerType
    <3> HIDE DEF b, c, l
    <3>4. c * (2 * b) - 2 * b = (2 * c - 2) * b /\ 2 * c - 2 \in Int
      BY <1>2, <3>3
    <3> QED
      BY <3>2, <3>3, <3>4
  <2> QED
    BY <1>1, <2>1, <2>2, <2>3
<1> HIDE DEF b
<1>4. PICK q \in Int : RegimeStart(w, k) = q * b
  BY <1>3
<1>5. (q * b + j) % b = j % b /\ j % b = j
  <2>1. j \in Int /\ b > 0 /\ j \in 0 .. b - 1
    BY <1>1, <1>2
  <2> QED
    BY <1>2, <2>1, DivisionOfSum, SmallDivision
<1> QED
  BY <1>1, <1>4, <1>5 DEF b

\* The number of a word, from its regime and what is left behind it.
ShapeValue(w, es, k, j) ==
    LET l == BitsLeft(w, k)
        e == IF es >= l THEN l ELSE es
        f == l - e
    IN  [num |-> 2^f + (j % 2^f),
         pow |-> k * 2^es + (j \div 2^f) * 2^(es - e) - f]

LEMMA ValueOf ==
    ASSUME NEW w \in Nat, w >= 2, NEW es \in Nat, NEW u, NEW k, NEW j, Shaped(w, u, k, j)
    PROVE  Value(w, es, u) = ShapeValue(w, es, k, j)
<1> DEFINE run == CHOOSE i \in 1 .. w - 1 :
                     /\ \A h \in 1 .. i : Bit(u, w - 1 - h) = Bit(u, w - 2)
                     /\ i = w - 1 \/ Bit(u, w - 2 - i) # Bit(u, w - 2)
           left == Max({0, w - 2 - run})
           ebits == Min({es, left})
           fbits == left - ebits
           rest == u % 2^left
           kk == IF Bit(u, w - 2) = 1 THEN run - 1 ELSE -run
<1>1. Value(w, es, u) = [num |-> 2^fbits + (rest % 2^fbits),
                         pow |-> kk * 2^es + (rest \div 2^fbits) * 2^(es - ebits) - fbits]
  BY Zenon DEF Value, Bit
<1>2. run = RegimeLength(k) /\ Bit(u, w - 2) = IF k < 0 THEN 0 ELSE 1
  BY RunOf, Zenon
<1>3. k \in -(w - 2) .. w - 2 /\ RegimeLength(k) \in 1 .. w - 1
      /\ BitsLeft(w, k) = IF RegimeLength(k) = w - 1 THEN 0 ELSE w - 2 - RegimeLength(k)
  BY BitsOfShape DEF Shaped
<1> HIDE DEF run
<1>4. kk = k
  BY <1>2, <1>3 DEF RegimeLength
<1>5. left = BitsLeft(w, k)
  <2>1. w - 2 - run \in Int /\ 0 \in Int
    BY <1>2, <1>3
  <2>2. left = IF 0 >= w - 2 - run THEN 0 ELSE w - 2 - run
    BY <2>1, MaxOfTwo
  <2> QED
    BY <1>2, <1>3, <2>2
<1> HIDE DEF left, kk
<1>6. left \in Nat
  BY <1>3, <1>5
<1>7. ebits = IF es >= left THEN left ELSE es
  BY <1>6, MaxOfTwo
<1>8. rest = j
  BY <1>5, RestOfShape
<1> HIDE DEF ebits, rest
<1> QED
  BY <1>1, <1>4, <1>5, <1>7, <1>8, Zenon DEF ShapeValue

-----------------------------------------------------------------------------
(* Numbers as heights.                                                     *)

\* The number v is g / 2^p * 2^s.
Stands(v, p, s, g) ==
    /\ s \in Int /\ Significand(p, g)
    /\ v.num \in Nat /\ v.pow \in Int
    /\ s - v.pow \in 0 .. p
    /\ v.num \in 2^(s - v.pow) .. 2 * 2^(s - v.pow) - 1
    /\ g = v.num * 2^(p - (s - v.pow))

\* A logarithm is not above what is left of the number after k bits, and k.
LEMMA LogarithmBelow ==
    ASSUME NEW i \in Nat, NEW k \in Nat, NEW m \in Nat, 2^i <= m
    PROVE  i <= k + (m \div 2^k) /\ m \div 2^k \in Nat
<1> DEFINE K == 2^k
           q == m \div K
<1>1. K \in Nat /\ K > 0
  BY PowerType
<1>2. q \in Nat /\ m = K * q + (m % K) /\ m % K \in 0 .. K - 1
  <2> HIDE DEF K
  <2> QED
    BY <1>1, Division, DivisionType
<1>3. CASE i <= k
  <2> HIDE DEF q
  <2> QED
    BY <1>2, <1>3
<1>4. CASE i > k
  <2> DEFINE d == i - k
             D == 2^d
  <2>1. d \in Nat /\ k + d = i
    BY <1>4
  <2> HIDE DEF d
  <2>2. 2^(k + d) = K * D /\ D \in Nat /\ D > d
    BY <2>1, PowerSum, PowerExceeds
  <2>3. K * D <= m
    BY <2>1, <2>2
  <2> HIDE DEF K, D, q
  <2>4. D < q + 1
    <3>1. m < K * q + K
      BY <1>1, <1>2
    <3>2. D * K < (q + 1) * K <=> D < q + 1
      BY <1>1, <1>2, <2>2, ScaledOrder
    <3>3. D * K = K * D /\ (q + 1) * K = K * q + K /\ K * D \in Int /\ K * q \in Int
      BY <1>1, <1>2, <2>2
    <3> DEFINE X == K * q
               Y == K * D
    <3>4. Y <= m /\ m < X + K /\ (Y < X + K <=> D < q + 1) /\ X \in Int /\ Y \in Int
      BY <2>3, <3>1, <3>2, <3>3, Zenon
    <3> HIDE DEF X, Y
    <3> QED
      BY <1>1, <3>4
  <2>5. i <= k + q /\ q \in Nat
    <3>1. D \in Nat /\ D > d
      BY <2>2
    <3> QED
      BY <1>2, <2>1, <2>4, <3>1
  <2> QED
    BY <2>5 DEF q, K
<1> QED
  BY <1>2, <1>3, <1>4

LEMMA SizeIs ==
    ASSUME NEW v, NEW p \in Nat, NEW s, NEW g, Stands(v, p, s, g)
    PROVE  Size(v) = s /\ v.num >= 1
<1> DEFINE f == s - v.pow
           m == v.num
<1>1. f \in Nat /\ m \in Nat /\ m \in 2^f .. 2 * 2^f - 1 /\ v.pow \in Int /\ s \in Int /\ s = v.pow + f
  BY DEF Stands
<1> DEFINE bound == 30 + (m \div 2^30)
<1>2. Size(v) = v.pow + (CHOOSE i \in 0 .. bound : m \div 2^i = 1)
  BY DEF Size
<1> HIDE DEF f, m
<1>3. 2^f \in Nat /\ 2^f > f /\ 2^f >= 1
  BY <1>1, PowerExceeds, PowerType
<1>4. f \in 0 .. bound /\ m \div 2^f = 1 /\ bound \in Nat
  <2>1. 2^f <= m /\ 30 \in Nat
    BY <1>1
  <2>2. f <= 30 + (m \div 2^30) /\ m \div 2^30 \in Nat
    BY <1>1, <2>1, LogarithmBelow, Zenon
  <2> DEFINE y == m \div 2^30
  <2> HIDE DEF y
  <2>3. f \in 0 .. 30 + y /\ 30 + y \in Nat
    BY <1>1, <2>2 DEF y
  <2>4. m \div 2^f = 1
    BY <1>1, <1>3, QuotientOne
  <2> QED
    BY <2>3, <2>4 DEF y
<1> HIDE DEF bound
<1>5. ASSUME NEW i \in 0 .. bound, m \div 2^i = 1 PROVE i = f
  <2>1. 2^i \in Nat /\ 2^i > 0 /\ i \in Nat /\ 2^(i + 1) = 2 * 2^i /\ 2^(f + 1) = 2 * 2^f
    BY <1>1, <1>4, PowerType, PowerStep
  <2>2. 2^i <= m /\ m < 2 * 2^i
    BY <1>1, <1>5, <2>1, QuotientOne
  <2>3. 2^f <= m /\ m < 2 * 2^f
    BY <1>1, <1>3
  <2> QED
    BY <1>1, <2>1, <2>2, <2>3, LeadingUnique
<1>6. (CHOOSE i \in 0 .. bound : m \div 2^i = 1) = f
  BY <1>4, <1>5
<1>7. Size(v) = s
  BY <1>1, <1>2, <1>6
<1>8. m >= 1
  BY <1>1, <1>3
<1> QED
  BY <1>7, <1>8 DEF m

\* m and n compare at the finer one of their scales as they do at a scale p.
ComparesAlike(m, n, p, d, e) ==
    /\ m * 2^(e - d) < n <=> m * 2^(p - d) < n * 2^(p - e)
    /\ m * 2^(e - d) = n <=> m * 2^(p - d) = n * 2^(p - e)
    /\ n < m * 2^(e - d) <=> n * 2^(p - e) < m * 2^(p - d)

LEMMA ScaledCompare ==
    ASSUME NEW m \in Nat, NEW n \in Nat, NEW p \in Nat, NEW d \in Nat, NEW e \in Nat, d <= e, e <= p
    PROVE  ComparesAlike(m, n, p, d, e)
<1> DEFINE a == 2^(e - d)
           b == 2^(p - e)
           c == 2^(p - d)
           x == m * a
<1>1. e - d \in Nat /\ p - e \in Nat /\ (e - d) + (p - e) = p - d
  OBVIOUS
<1>2. 2^((e - d) + (p - e)) = 2^(e - d) * 2^(p - e) /\ a \in Nat /\ b \in Nat /\ b > 0
  BY <1>1, PowerSum, PowerType
<1>3. c = a * b
  BY <1>1, <1>2
<1> HIDE DEF a, b, c
<1>4. m * c = x * b /\ x \in Int /\ n \in Int
  <2>1. m * (a * b) = (m * a) * b /\ m * a \in Int
    BY <1>2
  <2> QED
    BY <1>3, <2>1
<1> HIDE DEF x
<1>5. (x * b < n * b <=> x < n) /\ (x * b = n * b <=> x = n)
  BY <1>2, <1>4, ScaledOrder
<1>6. n * b < x * b <=> n < x
  BY <1>2, <1>4, ScaledOrder
<1>7. (x < n <=> m * c < n * b) /\ (x = n <=> m * c = n * b) /\ (n < x <=> n * b < m * c)
  BY <1>4, <1>5, <1>6
<1> QED
  BY <1>7 DEF a, b, c, x, ComparesAlike

\* The comparison of two numbers is the one of their heights.
LEMMA LessIs ==
    ASSUME NEW v, NEW w, NEW p \in Nat, NEW s, NEW g, NEW t, NEW h,
           Stands(v, p, s, g), Stands(w, p, t, h)
    PROVE  /\ Less(v, w) <=> Height(p, s, g) < Height(p, t, h)
           /\ Same(v, w) <=> Height(p, s, g) = Height(p, t, h)
           /\ Height(p, s, g) \in Int
<1>1. Size(v) = s /\ Size(w) = t /\ s \in Int /\ t \in Int /\ Significand(p, g) /\ Significand(p, h)
  BY SizeIs DEF Stands
<1>2. /\ Height(p, s, g) < Height(p, t, h) <=> s < t \/ (s = t /\ g < h)
      /\ Height(p, s, g) = Height(p, t, h) <=> s = t /\ g = h
      /\ Height(p, s, g) \in Int
  BY <1>1, HeightOrder
<1>3. CASE s # t
  BY <1>1, <1>2, <1>3 DEF Less, Same
<1>4. CASE s = t
  <2> DEFINE m == v.num
             n == w.num
             d == s - v.pow
             e == s - w.pow
  <2>1. /\ m \in Nat /\ n \in Nat /\ d \in 0 .. p /\ e \in 0 .. p
        /\ g = m * 2^(p - d) /\ h = n * 2^(p - e)
        /\ v.pow \in Int /\ w.pow \in Int /\ v.pow - w.pow = e - d /\ w.pow - v.pow = d - e
    BY <1>1, <1>4 DEF Stands
  <2>2. v.pow - w.pow \in Int /\ w.pow - v.pow \in Int /\ 0 \in Int
    BY <2>1
  <2>3. /\ Aligned(v, w) = m * 2^(IF 0 >= v.pow - w.pow THEN 0 ELSE v.pow - w.pow)
        /\ Aligned(w, v) = n * 2^(IF 0 >= w.pow - v.pow THEN 0 ELSE w.pow - v.pow)
    BY <2>2, MaxOfTwo DEF Aligned
  <2> HIDE DEF m, n, d, e
  <2>4. Aligned(v, w) = (IF e >= d THEN m * 2^(e - d) ELSE m)
        /\ Aligned(w, v) = (IF d >= e THEN n * 2^(d - e) ELSE n)
    <3>1. (IF 0 >= v.pow - w.pow THEN 0 ELSE v.pow - w.pow) = (IF e >= d THEN e - d ELSE 0)
          /\ (IF 0 >= w.pow - v.pow THEN 0 ELSE w.pow - v.pow) = (IF d >= e THEN d - e ELSE 0)
      BY <2>1
    <3>2. m * 1 = m /\ n * 1 = n
      BY <2>1
    <3> QED
      BY <2>3, <3>1, <3>2, PowerZero
  <2>5. (Aligned(v, w) < Aligned(w, v) <=> g < h) /\ (Aligned(v, w) = Aligned(w, v) <=> g = h)
    <3>1. CASE d <= e
      <4>1. Aligned(w, v) = n
        <5>1. d = e => n * 2^(d - e) = n
          <6>1. d = e => d - e = 0 /\ n * 1 = n
            BY <2>1
          <6> QED
            BY <6>1, PowerZero
        <5> QED
          BY <2>1, <2>4, <3>1, <5>1
      <4>2. Aligned(v, w) = m * 2^(e - d)
        BY <2>1, <2>4, <3>1
      <4>3. d <= e /\ e <= p /\ d \in Nat /\ e \in Nat
        BY <2>1, <3>1
      <4>4. ComparesAlike(m, n, p, d, e)
        BY <2>1, <4>3, ScaledCompare
      <4> QED
        BY <2>1, <4>1, <4>2, <4>4, Zenon DEF ComparesAlike
    <3>2. CASE e < d
      <4>1. Aligned(v, w) = m
        BY <2>1, <2>4, <3>2
      <4>2. Aligned(w, v) = n * 2^(d - e)
        BY <2>1, <2>4, <3>2
      <4>3. m \in Nat /\ n \in Nat /\ p \in Nat /\ e <= d /\ d <= p /\ e \in Nat /\ d \in Nat
        BY <2>1, <3>2
      <4>4. ComparesAlike(n, m, p, e, d)
        BY <4>3, ScaledCompare
      <4> QED
        BY <2>1, <4>1, <4>2, <4>4 DEF ComparesAlike
    <3> QED
      BY <2>1, <3>1, <3>2
  <2> QED
    BY <1>1, <1>2, <1>4, <2>5 DEF Less, Same
<1> QED
  BY <1>3, <1>4

\* What a word stands for has the height of its shape, at any precision that holds its
\* fraction.
LEMMA ValueStands ==
    ASSUME NEW w \in Nat, w >= 2, NEW es \in Nat, NEW p \in Nat, p >= w - 2,
           NEW u, NEW k, NEW j, Shaped(w, u, k, j)
    PROVE  \E s, g : /\ Stands(Value(w, es, u), p, s, g)
                     /\ Height(p, s, g) = ShapeHeight(w, es, p, k, j)
<1> DEFINE l == BitsLeft(w, k)
           e == IF es >= l THEN l ELSE es
           f == l - e
           a == 2^(es - e)
           b == 2^f
           c == 2^(p - f)
           q == j \div b
           r == j % b
           s == k * 2^es + q * a
           g == (b + r) * c
<1>1. k \in -(w - 2) .. w - 2 /\ j \in 0 .. 2^l - 1
  BY DEF Shaped
<1>2. l \in 0 .. w - 2 /\ 2^l \in Nat
  BY <1>1, ShapeSizes
<1>3. Value(w, es, u) = [num |-> b + r, pow |-> k * 2^es + (q * a - f)]
  <2>1. Value(w, es, u) = ShapeValue(w, es, k, j)
    BY ValueOf
  <2> QED
    BY <2>1, Zenon DEF ShapeValue
<1>4. /\ f \in Nat /\ f <= p /\ p - f \in Nat /\ es - e \in Nat /\ (f = 0 \/ es - e = 0)
      /\ es + p - l \in Nat /\ (es - e) + (p - f) = es + p - l /\ es + p \in Nat
  BY <1>2
<1>5. a \in Nat /\ b \in Nat /\ b >= 1 /\ c \in Nat /\ c >= 1 /\ 2^es \in Nat
      /\ (f = 0 => b = 1) /\ (es - e = 0 => a = 1)
  <2> HIDE DEF e, f
  <2>1. 2^f \in Nat /\ 2^f >= 1 /\ 2^(p - f) \in Nat /\ 2^(p - f) >= 1 /\ 2^(es - e) \in Nat /\ 2^es \in Nat
    BY <1>4, PowerType
  <2> QED
    BY <2>1, PowerZero
<1>6. 2^p = c * b /\ 2^p \in Nat /\ 2^(es + p) = 2^es * 2^p /\ 2^(es + p - l) = a * c
  <2> HIDE DEF e, f, l
  <2>1. 2^p = 2^(p - f) * 2^f
    BY <1>4, PowerSplit
  <2>2. 2^((es - e) + (p - f)) = 2^(es - e) * 2^(p - f)
    BY <1>4, PowerSum
  <2>3. 2^(es + p) = 2^es * 2^p /\ 2^p \in Nat
    BY PowerSum, PowerType
  <2> QED
    BY <1>4, <2>1, <2>2, <2>3
<1>7. q \in Nat /\ r \in 0 .. b - 1 /\ j = b * q + r /\ j \in Nat /\ k \in Int
  <2>1. j \in Nat /\ j \in Int /\ k \in Int
    BY <1>1, <1>2
  <2> HIDE DEF b
  <2> QED
    BY <1>5, <2>1, Division, DivisionType
<1>8. r * a = r
  <2>1. CASE f = 0
    <3>1. r = 0
      BY <1>5, <1>7, <2>1
    <3> HIDE DEF r, a
    <3> QED
      BY <1>5, <3>1
  <2>2. CASE es - e = 0
    <3>1. a = 1 /\ r \in Int
      BY <1>5, <1>7, <2>2
    <3> HIDE DEF r, a
    <3> QED
      BY <3>1
  <2> QED
    BY <1>4, <2>1, <2>2
<1> DEFINE E == 2^es
           P == 2^p
<1> HIDE DEF a, b, c, q, r, e
<1>9. s \in Int /\ s - f \in Int /\ s - (s - f) = f /\ b + r \in Nat
      /\ k * 2^es + (q * a - f) = s - f
  <2>1. k * 2^es \in Int /\ q * a \in Int /\ f \in Int
    BY <1>4, <1>5, <1>7
  <2> HIDE DEF f
  <2> QED
    BY <1>5, <1>7, <2>1
<1>10. g \in P .. 2 * P - 1
  <2>1. b + r \in Int /\ b <= b + r /\ b + r < 2 * b /\ 2 * b \in Int /\ b \in Int
    BY <1>5, <1>7
  <2> DEFINE m == b + r
  <2> HIDE DEF m
  <2>2. b * c <= m * c /\ m * c < (2 * b) * c
    <3>1. m \in Int /\ b <= m /\ m < 2 * b
      BY <2>1 DEF m
    <3> QED
      BY <1>5, <2>1, <3>1, ScaledOrder
  <2>3. b * c = P /\ (2 * b) * c = 2 * P /\ m * c \in Int /\ g = m * c /\ P \in Int
    <3>1. m \in Int
      BY <2>1 DEF m
    <3>2. c * b = b * c /\ (2 * b) * c = 2 * (b * c) /\ m * c \in Int
      BY <1>5, <3>1
    <3> QED
      BY <1>6, <3>2 DEF m
  <2> HIDE DEF g, P
  <2> QED
    BY <2>2, <2>3
<1>11. Stands(Value(w, es, u), p, s, g)
  <2> DEFINE v == Value(w, es, u)
  <2>1. v.num = b + r /\ v.pow = s - f
    BY <1>3, <1>9
  <2>2. Significand(p, g)
    BY <1>10 DEF Significand
  <2>3. s - v.pow = f /\ f \in 0 .. p
    BY <1>4, <1>9, <2>1
  <2>4. b + r \in b .. 2 * b - 1
    BY <1>5, <1>7
  <2>5. v.num \in 2^(s - v.pow) .. 2 * 2^(s - v.pow) - 1 /\ g = v.num * 2^(p - (s - v.pow))
    BY <2>1, <2>3, <2>4 DEF b, c
  <2> HIDE DEF v, g, s, f
  <2> QED
    BY <1>9, <2>1, <2>2, <2>3, <2>5 DEF Stands, v
<1>12. Height(p, s, g) = ShapeHeight(w, es, p, k, j)
  <2>1. Height(p, s, g) = s * P + (g - P)
    BY DEF Height
  <2>2. ShapeHeight(w, es, p, k, j) = k * (E * P) + j * (a * c)
    BY <1>6 DEF ShapeHeight
  <2>3. s = k * E + q * a /\ g = (b + r) * c /\ P = c * b /\ j = b * q + r /\ r * a = r
    BY <1>6, <1>7, <1>8
  <2>4. E \in Int /\ P \in Int /\ a \in Int /\ b \in Int /\ c \in Int /\ q \in Int /\ r \in Int /\ k \in Int
        /\ j \in Int
    BY <1>5, <1>6, <1>7
  <2> HIDE DEF s, g, E, P
  <2>5. s * P = k * (E * P) + (q * a) * P
    BY <2>3, <2>4
  <2>6. g - P = r * c
    BY <2>3, <2>4
  <2>7. j * (a * c) = (q * a) * P + r * c
    <3>1. j * (a * c) = (b * q) * (a * c) + r * (a * c)
      BY <2>3, <2>4
    <3>2. (b * q) * (a * c) = (q * a) * (c * b)
      BY <2>4
    <3>3. r * (a * c) = (r * a) * c
      BY <2>4
    <3> QED
      BY <2>3, <3>1, <3>2, <3>3
  <2>8. k * (E * P) \in Int /\ (q * a) * P \in Int /\ r * c \in Int
    BY <2>4
  <2> QED
    BY <2>1, <2>2, <2>5, <2>6, <2>7, <2>8
<1> QED
  BY <1>11, <1>12

\* Words are ordered like the numbers they stand for.
LEMMA ValuesInOrder ==
    ASSUME NEW w \in Nat, w >= 2, NEW es \in Nat,
           NEW u \in 1 .. 2^(w - 1) - 1, NEW v \in 1 .. 2^(w - 1) - 1
    PROVE  Less(Value(w, es, u), Value(w, es, v)) <=> u < v
<1> DEFINE p == w - 2
<1>1. PICK k, j : Shaped(w, u, k, j)
  BY ShapeExists
<1>2. PICK l, i : Shaped(w, v, l, i)
  BY ShapeExists
<1>3. p \in Nat /\ p >= w - 2 /\ es + p >= w - 2
  OBVIOUS
<1> HIDE DEF p
<1>4. PICK s, g : Stands(Value(w, es, u), p, s, g) /\ Height(p, s, g) = ShapeHeight(w, es, p, k, j)
  BY <1>1, <1>3, ValueStands
<1>5. PICK t, h : Stands(Value(w, es, v), p, t, h) /\ Height(p, t, h) = ShapeHeight(w, es, p, l, i)
  BY <1>2, <1>3, ValueStands
<1>6. Less(Value(w, es, u), Value(w, es, v)) <=> Height(p, s, g) < Height(p, t, h)
  BY <1>3, <1>4, <1>5, LessIs
<1>7. u < v <=> ShapeHeight(w, es, p, k, j) < ShapeHeight(w, es, p, l, i)
  BY <1>1, <1>2, <1>3, ShapeHeightOrder
<1> QED
  BY <1>4, <1>5, <1>6, <1>7

-----------------------------------------------------------------------------
(* The order of words.                                                     *)

LEMMA DigitsOf ==
    ASSUME NEW F, IsFormat(F), NEW u, Numeric(F, u)
    PROVE  /\ Digits(F, u) \in 1 .. 2^(F.x - 1) - 1
           /\ Magnitude(F, u) = Digits(F, u) * Ulp(F)
           /\ Minus(F, u) <=> Negative(F, u)
<1>1. u \in PrecisionWords(F) /\ u # NaR(F) /\ u # 0
  BY DEF Numeric
<1>2. u \in Nat /\ NaR(F) \in Nat
  BY <1>1, WordKinds
<1>3. Minus(F, u) <=> Negative(F, u)
  BY <1>1, <1>2 DEF Minus, Negative, NaR
<1>4. Neg(F, u) = 2^F.n - u
  BY <1>1, Negation
<1>5. Digits(F, u) = Magnitude(F, u) \div Ulp(F)
  BY <1>3, <1>4 DEF Digits, Magnitude, Signed, Ulp
<1>6. PICK d \in 1 .. 2^(F.x - 1) - 1 : Magnitude(F, u) = d * Ulp(F)
  BY MagnitudeWord DEF PositiveWords
<1>7. Ulp(F) \in Nat /\ Ulp(F) > 0 /\ 2^(F.x - 1) \in Nat
  BY Sizes
<1>8. (d * Ulp(F)) \div Ulp(F) = d
  <2> DEFINE U == Ulp(F)
             y == d * U
  <2>1. U \in Nat /\ U > 0 /\ d \in Int
    BY <1>6, <1>7
  <2> HIDE DEF U
  <2>2. y \in Int /\ y = U * d + 0 /\ 0 \in 0 .. U - 1
    BY <2>1
  <2> HIDE DEF y
  <2>3. y \div U = d
    BY <2>1, <2>2, DivisionUnique
  <2> QED
    BY <2>3 DEF y, U
<1> QED
  BY <1>3, <1>5, <1>6, <1>8

LEMMA NumbersInOrder ==
    ASSUME NEW F, IsFormat(F), NEW u, NEW v, Numeric(F, u), Numeric(F, v)
    PROVE  Less(Number(F, u), Number(F, v)) <=> Magnitude(F, u) < Magnitude(F, v)
<1> DEFINE d == Digits(F, u)
           e == Digits(F, v)
           U == Ulp(F)
<1>1. /\ d \in 1 .. 2^(F.x - 1) - 1 /\ e \in 1 .. 2^(F.x - 1) - 1
      /\ Magnitude(F, u) = d * U /\ Magnitude(F, v) = e * U
  BY DigitsOf
<1>2. F.x \in Nat /\ F.x >= 2 /\ F.es \in Nat
  BY DEF IsFormat
<1>3. U \in Nat /\ U > 0 /\ 2^(F.x - 1) \in Nat
  BY Sizes
<1>4. Number(F, u) = Value(F.x, F.es, d) /\ Number(F, v) = Value(F.x, F.es, e)
  BY DEF Number
<1> HIDE DEF d, e, U
<1>5. Less(Value(F.x, F.es, d), Value(F.x, F.es, e)) <=> d < e
  BY <1>1, <1>2, ValuesInOrder
<1>6. d * U < e * U <=> d < e
  BY <1>1, <1>3, ScaledOrder
<1> QED
  BY <1>1, <1>4, <1>5, <1>6

\* The order of the numbers, with NaR below them, is the order of the words as signed
\* integers.
LEMMA BelowIs ==
    ASSUME NEW F, IsFormat(F), NEW u \in PrecisionWords(F), NEW v \in PrecisionWords(F)
    PROVE  BelowWord(F, u, v) <=> AsInt(F, u) < AsInt(F, v)
<1> DEFINE i == AsInt(F, u)
           j == AsInt(F, v)
           N == NaR(F)
<1>1. /\ u \in Nat /\ v \in Nat /\ u < 2 * N /\ v < 2 * N /\ N \in Nat /\ N # 0
      /\ i \in Int /\ j \in Int /\ (Negative(F, u) <=> i < 0) /\ (Negative(F, v) <=> j < 0)
      /\ (u = 0 <=> i = 0) /\ (v = 0 <=> j = 0)
      /\ (Negative(F, u) <=> u >= N) /\ (Negative(F, v) <=> v >= N)
  BY WordKinds, ZeroWord, Sizes DEF Negative
<1>2. i = (IF u >= N THEN u - 2 * N ELSE u) /\ j = (IF v >= N THEN v - 2 * N ELSE v)
  BY Sizes DEF AsInt, Negative
<1>3. N = 2^(F.n - 1)
  BY DEF NaR
<1>4. (Minus(F, u) <=> u > N) /\ (Minus(F, v) <=> v > N)
  BY <1>3 DEF Minus
<1>5. (IsNumber(F, u) <=> u # 0 /\ u # N) /\ (IsNumber(F, v) <=> v # 0 /\ v # N)
  BY <1>3 DEF IsNumber
<1>6. BelowWord(F, u, v) =
        CASE N \in {u, v} -> u = N /\ v # u
          [] IsNumber(F, u) /\ v = 0 -> Minus(F, u)
          [] u = 0 /\ v # N -> v # 0 /\ ~ Minus(F, v)
          [] IsNumber(F, u) /\ IsNumber(F, v) ->
                IF Minus(F, u) # Minus(F, v) THEN Minus(F, u)
                ELSE IF Minus(F, u) THEN Less(Number(F, v), Number(F, u))
                ELSE Less(Number(F, u), Number(F, v))
  BY <1>3, Zenon DEF BelowWord
<1>7. CASE N \in {u, v}
  <2>1. BelowWord(F, u, v) <=> u = N /\ v # u
    BY <1>1, <1>5, <1>6, <1>7
  <2> HIDE DEF i, j, N
  <2> QED
    BY <1>1, <1>2, <1>7, <2>1 DEF i, j
<1>8. CASE N \notin {u, v} /\ v = 0
  <2>1. u # 0 => (BelowWord(F, u, v) <=> Minus(F, u))
    BY <1>1, <1>5, <1>6, <1>8
  <2>2. u = 0 => (BelowWord(F, u, v) <=> FALSE)
    BY <1>1, <1>5, <1>6, <1>8
  <2> HIDE DEF i, j, N
  <2> QED
    BY <1>1, <1>2, <1>4, <1>8, <2>1, <2>2 DEF i, j
<1>9. CASE N \notin {u, v} /\ v # 0 /\ u = 0
  <2>1. BelowWord(F, u, v) <=> ~ Minus(F, v)
    BY <1>1, <1>5, <1>6, <1>9
  <2> HIDE DEF i, j, N
  <2> QED
    BY <1>1, <1>2, <1>4, <1>9, <2>1 DEF i, j
<1>10. CASE N \notin {u, v} /\ v # 0 /\ u # 0
  <2>1. BelowWord(F, u, v) <=>
            IF Minus(F, u) # Minus(F, v) THEN Minus(F, u)
            ELSE IF Minus(F, u) THEN Less(Number(F, v), Number(F, u))
            ELSE Less(Number(F, u), Number(F, v))
    BY <1>5, <1>6, <1>10
  <2>2. Numeric(F, u) /\ Numeric(F, v)
    BY <1>10 DEF Numeric
  <2> DEFINE m == Magnitude(F, u)
             n == Magnitude(F, v)
  <2>3. /\ Less(Number(F, u), Number(F, v)) <=> m < n
        /\ Less(Number(F, v), Number(F, u)) <=> n < m
    BY <2>2, NumbersInOrder
  <2>4. /\ i = (IF Negative(F, u) THEN -m ELSE m) /\ j = (IF Negative(F, v) THEN -n ELSE n)
        /\ m \in Nat /\ n \in Nat /\ m > 0 /\ n > 0
    BY <2>2, WordKinds, MagnitudeWord, PositiveWord
  <2>5. (Minus(F, u) <=> Negative(F, u)) /\ (Minus(F, v) <=> Negative(F, v))
        /\ Minus(F, u) \in BOOLEAN /\ Minus(F, v) \in BOOLEAN
    <3>1. Minus(F, u) \in BOOLEAN /\ Minus(F, v) \in BOOLEAN
      BY DEF Minus
    <3> QED
      BY <2>2, <3>1, DigitsOf
  <2> HIDE DEF i, j, m, n
  <2>6. BelowWord(F, u, v) <=> i < j
    <3>1. CASE Negative(F, u) /\ Negative(F, v)
      <4>1. Minus(F, u) /\ Minus(F, v) /\ ~ (Minus(F, u) # Minus(F, v))
        BY <2>5, <3>1
      <4>2. BelowWord(F, u, v) <=> n < m
        BY <2>1, <2>3, <4>1
      <4>3. i = -m /\ j = -n
        BY <2>4, <3>1
      <4> QED
        BY <2>4, <4>2, <4>3
    <3>2. CASE Negative(F, u) /\ ~ Negative(F, v)
      <4>1. Minus(F, u) /\ ~ Minus(F, v) /\ Minus(F, u) # Minus(F, v)
        BY <2>5, <3>2
      <4>2. BelowWord(F, u, v)
        BY <2>1, <4>1
      <4>3. i = -m /\ j = n
        BY <2>4, <3>2
      <4> QED
        BY <2>4, <4>2, <4>3
    <3>3. CASE ~ Negative(F, u) /\ Negative(F, v)
      <4>1. ~ Minus(F, u) /\ Minus(F, v) /\ Minus(F, u) # Minus(F, v)
        BY <2>5, <3>3
      <4>2. ~ BelowWord(F, u, v)
        BY <2>1, <4>1
      <4>3. i = m /\ j = -n
        BY <2>4, <3>3
      <4> QED
        BY <2>4, <4>2, <4>3
    <3>4. CASE ~ Negative(F, u) /\ ~ Negative(F, v)
      <4>1. ~ Minus(F, u) /\ ~ Minus(F, v) /\ ~ (Minus(F, u) # Minus(F, v))
        BY <2>5, <3>4
      <4>2. BelowWord(F, u, v) <=> m < n
        BY <2>1, <2>3, <4>1
      <4>3. i = m /\ j = n
        BY <2>4, <3>4
      <4> QED
        BY <2>4, <4>2, <4>3
    <3> QED
      BY <3>1, <3>2, <3>3, <3>4
  <2> QED
    BY <2>6 DEF i, j
<1> QED
  BY <1>7, <1>8, <1>9, <1>10

-----------------------------------------------------------------------------
(* The boundaries between two words are words of one bit more.             *)

\* The word u of shape k and j is the word of m bits more of shape k and i.
WidensTo(w, m, u, k, j, i) ==
    /\ Shaped(w + m, u * 2^m, k, i)
    /\ \A es, p \in Nat : es + p >= w + m - 2 =>
          ShapeHeight(w + m, es, p, k, i) = ShapeHeight(w, es, p, k, j)

LEMMA ShapeWidened ==
    ASSUME NEW w \in Nat, w >= 2, NEW m \in Nat, NEW u, NEW k, NEW j, Shaped(w, u, k, j)
    PROVE  \E i : WidensTo(w, m, u, k, j, i)
<1> DEFINE v == w + m
           d == BitsLeft(v, k) - BitsLeft(w, k)
           M == 2^m
           D == 2^d
           i == j * D
<1>1. k \in -(w - 2) .. w - 2 /\ j \in 0 .. 2^BitsLeft(w, k) - 1 /\ u = RegimeStart(w, k) + j
  BY DEF Shaped
<1>2. v \in Nat /\ v >= 2 /\ k \in -(v - 2) .. v - 2
  BY <1>1
<1>3. /\ BitsLeft(w, k) \in Nat /\ 2^BitsLeft(w, k) \in Nat /\ RegimeStart(w, k) \in Nat
      /\ BitsLeft(v, k) \in 0 .. v - 2 /\ 2^BitsLeft(v, k) \in Nat
  BY <1>1, <1>2, ShapeSizes
<1>4. d \in Nat /\ (d = m \/ (k = w - 2 /\ BitsLeft(w, k) = 0))
  <2>1. CASE k < 0
    BY <1>1, <2>1 DEF BitsLeft
  <2>2. CASE k >= 0 /\ k # w - 2
    BY <1>1, <2>2 DEF BitsLeft
  <2>3. CASE k >= 0 /\ k = w - 2
    BY <1>1, <2>3 DEF BitsLeft
  <2> QED
    BY <1>1, <2>1, <2>2, <2>3
<1>5. M \in Nat /\ M >= 1 /\ D \in Nat /\ D >= 1
  <2> HIDE DEF d
  <2> QED
    BY <1>4, PowerType
<1>6. j * M = i /\ j \in Nat /\ i \in Nat
  <2>1. j \in Nat
    BY <1>1, <1>3
  <2>2. CASE d = m
    <3> HIDE DEF d
    <3>1. D = M
      BY <2>2
    <3> HIDE DEF D, M
    <3> QED
      BY <1>5, <2>1, <3>1
  <2>3. CASE BitsLeft(w, k) = 0
    <3>1. j = 0
      BY <1>1, <2>3, PowerZero
    <3> HIDE DEF D, M
    <3> QED
      BY <1>5, <3>1
  <2> QED
    BY <1>4, <2>2, <2>3
<1>7. RegimeStart(v, k) = RegimeStart(w, k) * M
  <2>1. CASE k < 0
    <3>1. w - 2 + k \in Nat /\ v - 2 + k = (w - 2 + k) + m
      BY <1>1, <2>1
    <3>2. 2^((w - 2 + k) + m) = 2^(w - 2 + k) * M
      BY <3>1, PowerSum
    <3> QED
      BY <2>1, <3>1, <3>2 DEF RegimeStart
  <2>2. CASE k >= 0
    <3> DEFINE a == w - 1
               b == w - 2 - k
    <3>1. a \in Nat /\ v - 1 = a + m /\ b \in Nat /\ v - 2 - k = b + m
      BY <1>1, <2>2
    <3>2. RegimeStart(w, k) = 2^a - 2^b /\ RegimeStart(v, k) = 2^(v - 1) - 2^(v - 2 - k)
      <4>1. ~ (k < 0)
        BY <1>1, <2>2
      <4> QED
        BY <4>1 DEF RegimeStart
    <3> HIDE DEF a, b, v
    <3>3. 2^(a + m) = 2^a * M /\ 2^(b + m) = 2^b * M /\ 2^a \in Nat /\ 2^b \in Nat
      BY <3>1, PowerSum, PowerType
    <3> DEFINE A == 2^a
               B == 2^b
    <3>4. A * M - B * M = (A - B) * M
      <4> HIDE DEF A, B, M
      <4>1. A \in Nat /\ B \in Nat
        BY <3>3 DEF A, B
      <4> QED
        BY <1>5, <4>1
    <3> QED
      BY <3>1, <3>2, <3>3, <3>4
  <2> QED
    BY <1>1, <2>1, <2>2
<1>8. u * M = RegimeStart(v, k) + i
  <2> HIDE DEF M, i, v
  <2> QED
    BY <1>1, <1>3, <1>5, <1>6, <1>7
<1> DEFINE L == 2^BitsLeft(w, k)
<1>9. i \in 0 .. 2^BitsLeft(v, k) - 1
  <2>1. BitsLeft(v, k) = BitsLeft(w, k) + d
    BY <1>3
  <2>2. 2^BitsLeft(v, k) = L * D
    <3> HIDE DEF d
    <3> QED
      BY <1>3, <1>4, <2>1, PowerSum
  <2>3. j < L /\ j \in Int /\ L \in Int /\ D > 0
    BY <1>1, <1>3, <1>5
  <2> HIDE DEF L, D, v
  <2>4. j * D < L * D /\ L * D \in Int
    BY <1>5, <2>3, ScaledOrder
  <2> QED
    BY <1>6, <2>2, <2>4
<1>10. Shaped(v, u * M, k, i)
  BY <1>2, <1>8, <1>9 DEF Shaped
<1>11. ASSUME NEW es \in Nat, NEW p \in Nat, es + p >= v - 2
       PROVE  ShapeHeight(v, es, p, k, i) = ShapeHeight(w, es, p, k, j)
  <2> DEFINE c == es + p - BitsLeft(v, k)
  <2>1. c \in Nat /\ es + p - BitsLeft(w, k) = d + c
    BY <1>3, <1>11
  <2>2. 2^(d + c) = D * 2^c /\ 2^c \in Nat
    <3> HIDE DEF d, c
    <3> QED
      BY <1>4, <2>1, PowerSum, PowerType
  <2> DEFINE C == 2^c
  <2>3. i * C = j * (D * C)
    <3> HIDE DEF D, C
    <3>1. C \in Nat
      BY <2>2 DEF C
    <3> QED
      BY <1>5, <1>6, <3>1
  <2> QED
    BY <2>1, <2>2, <2>3 DEF ShapeHeight
<1> QED
  BY <1>10, <1>11 DEF WidensTo

\* The word on the boundary above a word that is not the greatest one.
LEMMA ShapeBetween ==
    ASSUME NEW w \in Nat, w >= 2, NEW k \in -(w - 2) .. w - 3, NEW j \in 0 .. 2^BitsLeft(w, k) - 1
    PROVE  LET t == RegimeStart(w, k) + j IN
           /\ Shaped(w + 1, 2 * t, k, 2 * j) /\ Shaped(w + 1, 2 * t + 1, k, 2 * j + 1)
           /\ BitsLeft(w + 1, k) = BitsLeft(w, k) + 1
<1> DEFINE t == RegimeStart(w, k) + j
           L == 2^BitsLeft(w, k)
<1>1. k \in -(w - 2) .. w - 2 /\ k \in -((w + 1) - 2) .. (w + 1) - 2
  OBVIOUS
<1>2. /\ BitsLeft(w, k) \in Nat /\ L \in Nat /\ RegimeStart(w, k) \in Nat
  BY <1>1, ShapeSizes
<1>3. BitsLeft(w + 1, k) = BitsLeft(w, k) + 1
  BY DEF BitsLeft
<1>4. 2^BitsLeft(w + 1, k) = 2 * L
  BY <1>2, <1>3, PowerStep
<1>5. RegimeStart(w + 1, k) = 2 * RegimeStart(w, k)
  <2>1. CASE k < 0
    <3>1. w - 2 + k \in Nat /\ (w + 1) - 2 + k = (w - 2 + k) + 1
      BY <2>1
    <3> QED
      BY <2>1, <3>1, PowerStep DEF RegimeStart
  <2>2. CASE k >= 0
    <3> DEFINE a == w - 1
               b == w - 2 - k
    <3>1. a \in Nat /\ (w + 1) - 1 = a + 1 /\ b \in Nat /\ (w + 1) - 2 - k = b + 1 /\ ~ (k < 0)
      BY <2>2
    <3>2. RegimeStart(w, k) = 2^a - 2^b /\ RegimeStart(w + 1, k) = 2^(a + 1) - 2^(b + 1)
      BY <3>1 DEF RegimeStart
    <3> HIDE DEF a, b
    <3>3. 2^(a + 1) = 2 * 2^a /\ 2^(b + 1) = 2 * 2^b /\ 2^a \in Nat /\ 2^b \in Nat
      BY <3>1, PowerStep, PowerType
    <3> QED
      BY <3>2, <3>3
  <2> QED
    BY <2>1, <2>2
<1> HIDE DEF L
<1>6. 2 * t = 2 * RegimeStart(w, k) + 2 * j /\ 2 * t + 1 = 2 * RegimeStart(w, k) + (2 * j + 1)
      /\ 2 * j \in 0 .. 2 * L - 1 /\ 2 * j + 1 \in 0 .. 2 * L - 1
  <2>1. j \in 0 .. L - 1
    BY DEF L
  <2> QED
    BY <1>2, <2>1
<1> HIDE DEF t
<1>7. Shaped(w + 1, 2 * t, k, 2 * j) /\ Shaped(w + 1, 2 * t + 1, k, 2 * j + 1)
  BY <1>1, <1>4, <1>5, <1>6 DEF Shaped
<1> QED
  BY <1>3, <1>7 DEF t

LEMMA ShapeHeightBounds ==
    ASSUME NEW w \in Nat, w >= 2, NEW es \in Nat, NEW p \in Nat, es + p >= w - 2,
           NEW u, NEW k, NEW j, Shaped(w, u, k, j)
    PROVE  /\ k \in Int /\ j \in Nat /\ u \in 1 .. 2^(w - 1) - 1
           /\ k * 2^(es + p) <= ShapeHeight(w, es, p, k, j)
           /\ ShapeHeight(w, es, p, k, j) < (k + 1) * 2^(es + p)
           /\ ShapeHeight(w, es, p, k, j) \in Int
<1>1. k \in Int /\ j \in Nat /\ u \in 1 .. 2^(w - 1) - 1
  BY ShapeOrder
<1> DEFINE E == 2^(es + p)
           i == j * 2^(es + p - BitsLeft(w, k))
<1>2. E \in Nat /\ i \in 0 .. E - 1 /\ ShapeHeight(w, es, p, k, j) \in Int
  BY ShapeHeightDigits
<1>3. ShapeHeight(w, es, p, k, j) = k * E + i
  BY DEF ShapeHeight
<1> HIDE DEF E, i
<1>4. k * E <= k * E + i /\ k * E + i < (k + 1) * E
  <2>1. k * E \in Int /\ (k + 1) * E = k * E + E
    BY <1>1, <1>2
  <2> QED
    BY <1>2, <2>1
<1> QED
  BY <1>1, <1>2, <1>3, <1>4 DEF E

\* A number between the heights h and h + 1, nearer to h if rest is FALSE, rounds to the
\* word of x bits t: the boundaries to its neighbours are the words of one bit more.
RoundsHeight(F, t, h, rest) ==
    LET B(k, j) == ShapeHeight(F.x + 1, F.es, 2 * F.n - 2, k, j) IN
    /\ t \in 1 .. 2^(F.x - 1) - 1
    /\ t = 1 \/ \A k, j : Shaped(F.x + 1, 2 * t - 1, k, j) =>
                   B(k, j) < h \/ (B(k, j) = h /\ (rest \/ t % 2 = 0))
    /\ t = 2^(F.x - 1) - 1 \/ \A k, j : Shaped(F.x + 1, 2 * t + 1, k, j) =>
                   h < B(k, j) \/ (B(k, j) = h /\ ~ rest /\ t % 2 = 0)

\* What is cut off behind a regime, below the first bit.
CutBelow(F, scale, frac) ==
    Following(F, scale % 2^F.es, frac) % 2^(CutOff(F, RegimeOf(F, scale)) - 1)

\* The height of a number is made of its regime and of what follows it.
LEMMA HeightDigits ==
    ASSUME NEW F, IsFormat(F), NEW scale \in Int, NEW frac, Significand(2 * F.n - 2, frac)
    PROVE  LET p == 2 * F.n - 2
               k == scale \div 2^F.es
               G == Following(F, scale % 2^F.es, frac)
               E == 2^(F.es + p)
           IN  /\ k \in Int /\ E \in Nat /\ E > 0 /\ G \in 0 .. E - 1
               /\ scale % 2^F.es \in 0 .. 2^F.es - 1
               /\ Height(p, scale, frac) = k * E + G
<1> DEFINE es == F.es
           p == 2 * F.n - 2
           k == scale \div 2^es
           ex == scale % 2^es
           G == Following(F, ex, frac)
           S == 2^es
           P == 2^p
           E == 2^(es + p)
           H == Height(p, scale, frac)
<1>1. es \in Nat /\ p \in Nat
  BY DEF IsFormat
<1>2. P \in Nat /\ P > 0 /\ S \in Nat /\ S > 0 /\ E = S * P /\ E \in Nat /\ E > 0
  <2> HIDE DEF p, es
  <2>1. es + p \in Nat
    BY <1>1
  <2> QED
    BY <1>1, <2>1, PowerType, PowerSum
<1>3. frac \in P .. 2 * P - 1
  BY DEF Significand
<1> HIDE DEF S, P, E
<1>4. scale = S * k + ex /\ k \in Int /\ ex \in 0 .. S - 1
  BY <1>2, Division DEF S
<1>5. frac % P = frac - P
  <2>1. frac \in Int /\ P \in Nat /\ P > 0 /\ 1 \in Int /\ frac - P \in 0 .. P - 1 /\ frac = P * 1 + (frac - P)
    BY <1>2, <1>3
  <2> QED
    BY <2>1, DivisionUnique
<1>6. G = ex * P + (frac - P) /\ H = scale * P + (frac - P)
  BY <1>5 DEF Following, Height, P
<1> HIDE DEF k, ex, G, H
<1>7. (S * k + ex) * P = k * (S * P) + ex * P /\ k * (S * P) \in Int /\ ex * P \in Int
  BY <1>2, <1>4
<1>8. H = k * E + G
  BY <1>2, <1>3, <1>4, <1>6, <1>7
<1>9. G \in 0 .. E - 1
  <2>1. frac - P \in 0 .. P - 1
    BY <1>2, <1>3
  <2> QED
    BY <1>2, <1>4, <1>6, <2>1, DigitsBelow
<1> QED
  BY <1>2, <1>4, <1>8, <1>9 DEF S, E, H, G, k, ex

\* A number cut off behind its regime, with all that is cut off taken into account.
LEMMA RoundsInRegime ==
    ASSUME NEW F, IsFormat(F), NEW scale \in Int, NEW frac, Significand(2 * F.n - 2, frac),
           NEW more \in BOOLEAN, NEW rest \in BOOLEAN, RegimeOf(F, scale) <= F.x - 2,
           ~ Misplaced(F, RegimeOf(F, scale)),
           more <=> CutBelow(F, scale, frac) # 0 \/ rest
    PROVE  \E t : /\ Round(F, scale, frac, more) = t * Ulp(F)
                  /\ RoundsHeight(F, t, Height(2 * F.n - 2, scale, frac), rest)
<1> DEFINE x == F.x
           es == F.es
           p == 2 * F.n - 2
           k == scale \div 2^es
           reg == RegimeOf(F, scale)
           G == Following(F, scale % 2^es, frac)
           c == CutOff(F, reg)
           j == G \div 2^c
           t == RegimeStart(x, k) + j
           half == HalfBit(F, LostExpBits(F, reg), scale % 2^es, ShiftedFraction(F, reg, frac))
           C == 2^(c - 1)
           low == G % C
           E == 2^(es + p)
           H == Height(p, scale, frac)
           top == 2^(x - 1) - 1
<1>1. x \in Nat /\ x >= 2 /\ es \in Nat /\ p \in Nat /\ p >= x + 1 - 2 /\ es + p >= x + 1 - 2
      /\ 2^(x - 1) \in Nat
  <2>1. 2^(x - 1) \in Nat
    BY Sizes
  <2> QED
    BY <2>1 DEF IsFormat
<1>2. 2^p \in Nat /\ 2^p >= 1 /\ frac \in 2^p .. 2 * 2^p - 1 /\ frac \in Nat
  <2>1. 2^p \in Nat /\ 2^p >= 1
    BY <1>1, PowerType
  <2> QED
    BY <2>1 DEF Significand
<1>3. /\ k \in -(x - 2) .. x - 3
      /\ reg \in 1 .. x - 2
      /\ scale % 2^es \in 0 .. 2^es - 1
      /\ j \in 0 .. 2^BitsLeft(x, k) - 1
      /\ BitsLeft(x, k) = Room(F, reg)
      /\ half = (G \div 2^(c - 1)) % 2
      /\ Round(F, scale, frac, more) = (IF half = 1 /\ (t % 2 = 1 \/ more) THEN t + 1 ELSE t) * Ulp(F)
  BY <1>2, RoundInRegime
<1>4. /\ c \in Nat /\ c >= 1 /\ c = es + p - BitsLeft(x, k) /\ G \in 0 .. E - 1 /\ E \in Nat
  <2>1. c \in Nat /\ c > F.n /\ G \in 0 .. E - 1
    BY <1>2, <1>3, CutOffSizes
  <2>2. c = es + p - BitsLeft(x, k)
    BY <1>3 DEF CutOff
  <2>3. F.n \in Nat /\ E \in Nat
    BY <1>1, PowerType DEF IsFormat
  <2> QED
    BY <2>1, <2>2, <2>3 DEF IsFormat
<1>5. C \in Nat /\ C >= 1 /\ 2^c = 2 * C
  BY <1>4, PowerBelow
<1>6. G = (2 * j + half) * C + low /\ half \in 0 .. 1 /\ low \in 0 .. C - 1 /\ j \in Nat
  <2>1. G \in Nat /\ j \in Nat
    <3>1. 2^BitsLeft(x, k) \in Nat
      BY <1>1, <1>3, ShapeSizes
    <3> QED
      BY <1>3, <1>4, <3>1
  <2> HIDE DEF G
  <2>2. j = G \div (2 * C)
    BY <1>5
  <2> HIDE DEF C, j
  <2> DEFINE q == G \div C
  <2>3. q \in Nat /\ low \in 0 .. C - 1 /\ G = C * q + low
    BY <1>5, <2>1, Division, DivisionType
  <2>4. j = q \div 2
    <3>1. (G \div C) \div 2 = G \div (C * 2)
      BY <1>5, <2>1, DivisionTwice
    <3> QED
      BY <1>5, <2>2, <3>1
  <2>5. half = q % 2
    BY <1>3 DEF C
  <2> HIDE DEF half, low, q
  <2>6. q = 2 * j + half /\ half \in 0 .. 1
    BY <2>3, <2>4, <2>5
  <2> QED
    BY <1>5, <2>1, <2>3, <2>6
<1>7. H = k * E + G
  BY HeightDigits DEF H, G, E, k, p, es
<1>8. /\ Shaped(x + 1, 2 * t, k, 2 * j) /\ Shaped(x + 1, 2 * t + 1, k, 2 * j + 1)
      /\ BitsLeft(x + 1, k) = BitsLeft(x, k) + 1
  BY <1>1, <1>3, ShapeBetween
<1>9. Shaped(x, t, k, j) /\ t \in 1 .. top - 1 /\ t + 1 \in 1 .. top
  BY <1>1, <1>3, RegimeEndsBelow
<1> DEFINE B(l, i) == ShapeHeight(x + 1, es, p, l, i)
<1>10. \A i : B(k, i) = k * E + i * C
  <2>1. es + p - BitsLeft(x + 1, k) = c - 1
    <3>1. BitsLeft(x, k) \in Nat
      <4>1. k \in -(x - 2) .. x - 2
        BY <1>1, <1>3
      <4> QED
        BY <1>1, <4>1, ShapeSizes
    <3> HIDE DEF c, k, es, p
    <3> QED
      BY <1>1, <1>4, <1>8, <3>1
  <2> QED
    BY <2>1 DEF ShapeHeight
<1> HIDE DEF H, G, C, E, k, j, t, half, low, p, es, x, c, top
<1>11. k \in Int /\ k * E \in Int /\ t \in Nat
  BY <1>3, <1>4, <1>9
<1>12. H = k * E + (2 * j) * C + half * C + low /\ (2 * j) * C \in Int /\ (2 * j + 1) * C = (2 * j) * C + C
       /\ (2 * j + 2) * C = (2 * j) * C + 2 * C
  <2>1. j \in Int /\ half \in Int /\ C \in Int
    BY <1>5, <1>6
  <2>2. (2 * j + half) * C = (2 * j) * C + half * C /\ (2 * j) * C \in Int /\ half * C \in Int
        /\ (2 * j + 1) * C = (2 * j) * C + C /\ (2 * j + 2) * C = (2 * j) * C + 2 * C
    BY <2>1
  <2> QED
    BY <1>6, <1>7, <1>11, <2>2
<1>13. half * C = IF half = 1 THEN C ELSE 0
  BY <1>5, <1>6
\* The boundary below t.
<1>14. ASSUME NEW l, NEW i, Shaped(x + 1, 2 * t - 1, l, i)
       PROVE  B(l, i) < H
  <2>1. B(l, i) < B(k, 2 * j)
    <3>1. x + 1 \in Nat /\ x + 1 >= 2 /\ es + p >= (x + 1) - 2 /\ 2 * t - 1 < 2 * t
      BY <1>1, <1>11
    <3> QED
      BY <1>1, <1>8, <1>14, <3>1, ShapeHeightOrder
  <2>2. B(l, i) \in Int
    <3>1. x + 1 \in Nat /\ x + 1 >= 2 /\ es + p >= (x + 1) - 2
      BY <1>1
    <3> QED
      BY <1>1, <1>14, <3>1, ShapeHeightBounds
  <2>3. B(k, 2 * j) = k * E + (2 * j) * C
    BY <1>10
  <2> HIDE DEF B
  <2> QED
    BY <1>5, <1>6, <1>11, <1>12, <1>13, <2>1, <2>2, <2>3
\* The boundary above t, which is the one below t + 1.
<1>15. ASSUME NEW l, NEW i, Shaped(x + 1, 2 * t + 1, l, i)
       PROVE  B(l, i) = k * E + (2 * j) * C + C
  <2>1. l = k /\ i = 2 * j + 1
    <3>1. x + 1 \in Nat /\ x + 1 >= 2
      BY <1>1
    <3> QED
      BY <1>8, <1>15, <3>1, ShapeOrder
  <2> HIDE DEF B
  <2> QED
    BY <1>5, <1>10, <1>11, <1>12, <2>1
\* The boundary above t + 1.
<1>16. ASSUME NEW l, NEW i, Shaped(x + 1, 2 * (t + 1) + 1, l, i)
       PROVE  H < B(l, i)
  <2>1. x + 1 \in Nat /\ x + 1 >= 2 /\ es + p >= (x + 1) - 2 /\ 2 * t + 1 < 2 * (t + 1) + 1
    BY <1>1, <1>11
  <2>2. l \in Int /\ i \in Nat /\ B(l, i) \in Int /\ l * E <= B(l, i)
    BY <1>1, <1>16, <2>1, ShapeHeightBounds DEF E
  <2>3. k < l \/ (k = l /\ 2 * j + 1 < i)
    BY <1>8, <1>16, <2>1, ShapeOrder
  <2>4. CASE k < l
    <3>1. (k + 1) * E <= l * E /\ (k + 1) * E = k * E + E /\ l * E \in Int
      <4>1. k + 1 \in Int /\ k + 1 <= l /\ E > 0
        BY <1>4, <1>11, <2>2, <2>4
      <4> QED
        BY <1>4, <1>11, <2>2, <4>1, ScaledOrder
    <3> HIDE DEF B
    <3> QED
      BY <1>4, <1>7, <1>11, <2>2, <3>1
  <2>5. CASE k = l /\ 2 * j + 1 < i
    <3>1. (2 * j + 2) * C <= i * C /\ i * C \in Int
      <4>1. 2 * j + 2 \in Int /\ 2 * j + 2 <= i /\ i \in Int /\ C > 0
        BY <1>5, <1>6, <2>2, <2>5
      <4> QED
        BY <1>5, <4>1, ScaledOrder
    <3>2. B(l, i) = k * E + i * C
      BY <1>10, <2>5
    <3> HIDE DEF B
    <3> QED
      BY <1>5, <1>6, <1>11, <1>12, <1>13, <3>1, <3>2
  <2> QED
    BY <2>3, <2>4, <2>5
<1>17. CASE half = 1 /\ (t % 2 = 1 \/ more)
  <2> DEFINE z == t + 1
  <2>1. Round(F, scale, frac, more) = z * Ulp(F)
    BY <1>3, <1>17
  <2>2. \A l, i : Shaped(x + 1, 2 * z - 1, l, i) => B(l, i) < H \/ (B(l, i) = H /\ (rest \/ z % 2 = 0))
    <3> SUFFICES ASSUME NEW l, NEW i, Shaped(x + 1, 2 * z - 1, l, i)
                 PROVE  B(l, i) < H \/ (B(l, i) = H /\ (rest \/ z % 2 = 0))
      OBVIOUS
    <3>1. 2 * z - 1 = 2 * t + 1
      BY <1>11
    <3>2. B(l, i) = k * E + (2 * j) * C + C
      BY <1>15, <3>1
    <3> HIDE DEF B
    <3>3. H = k * E + (2 * j) * C + C + low
      BY <1>5, <1>6, <1>11, <1>12, <1>13, <1>17
    <3>4. CASE low # 0
      BY <1>5, <1>6, <1>11, <1>12, <3>2, <3>3, <3>4
    <3>5. CASE low = 0
      <4>1. B(l, i) = H
        BY <1>5, <1>11, <1>12, <3>2, <3>3, <3>5
      <4>2. more => rest
        BY <3>5 DEF CutBelow, low, C, c, G, es, reg
      <4>3. t % 2 = 1 => z % 2 = 0
        BY <1>11
      <4> QED
        BY <1>17, <4>1, <4>2, <4>3
    <3> QED
      BY <3>4, <3>5
  <2>3. \A l, i : Shaped(x + 1, 2 * z + 1, l, i) => H < B(l, i)
    BY <1>16
  <2> HIDE DEF z
  <2>4. RoundsHeight(F, z, H, rest)
    <3>1. z \in 1 .. 2^(F.x - 1) - 1
      BY <1>9 DEF z, top, x
    <3> QED
      BY <2>2, <2>3, <3>1 DEF RoundsHeight, x, es, p
  <2> QED
    BY <2>1, <2>4 DEF H, p
<1>18. CASE ~ (half = 1 /\ (t % 2 = 1 \/ more))
  <2>1. Round(F, scale, frac, more) = t * Ulp(F)
    BY <1>3, <1>18
  <2>2. \A l, i : Shaped(x + 1, 2 * t + 1, l, i) => H < B(l, i) \/ (B(l, i) = H /\ ~ rest /\ t % 2 = 0)
    <3> SUFFICES ASSUME NEW l, NEW i, Shaped(x + 1, 2 * t + 1, l, i)
                 PROVE  H < B(l, i) \/ (B(l, i) = H /\ ~ rest /\ t % 2 = 0)
      OBVIOUS
    <3>1. B(l, i) = k * E + (2 * j) * C + C
      BY <1>15
    <3> HIDE DEF B
    <3>2. CASE half = 0
      BY <1>5, <1>6, <1>11, <1>12, <1>13, <3>1, <3>2
    <3>3. CASE half = 1
      <4>1. ~ more /\ t % 2 = 0
        BY <1>11, <1>18, <3>3
      <4>2. low = 0 /\ ~ rest
        BY <4>1 DEF CutBelow, low, C, c, G, es, reg
      <4>3. B(l, i) = H
        BY <1>5, <1>11, <1>12, <1>13, <3>1, <3>3, <4>2
      <4> QED
        BY <4>1, <4>2, <4>3
    <3> QED
      BY <1>6, <3>2, <3>3
  <2>3. t \in 1 .. 2^(F.x - 1) - 1
    <3>1. top \in Int
      BY <1>1 DEF top
    <3> QED
      BY <1>9, <3>1 DEF top, x
  <2>4. RoundsHeight(F, t, H, rest)
    BY <1>14, <2>2, <2>3 DEF RoundsHeight, x, es, p
  <2> QED
    BY <2>1, <2>4 DEF H, p
<1> QED
  BY <1>17, <1>18

\* A regime that does not fit: the least and the greatest word are right.
LEMMA RoundsBeyond ==
    ASSUME NEW F, IsFormat(F), NEW scale \in Int, NEW frac, Significand(2 * F.n - 2, frac),
           NEW more, NEW rest, RegimeOf(F, scale) > F.x - 2
    PROVE  \E t : /\ Round(F, scale, frac, more) = t * Ulp(F)
                  /\ RoundsHeight(F, t, Height(2 * F.n - 2, scale, frac), rest)
<1> DEFINE x == F.x
           es == F.es
           p == 2 * F.n - 2
           k == scale \div 2^es
           G == Following(F, scale % 2^es, frac)
           E == 2^(es + p)
           H == Height(p, scale, frac)
           top == 2^(x - 1) - 1
           B(l, i) == ShapeHeight(x + 1, es, p, l, i)
<1>1. x \in Nat /\ x >= 2 /\ es \in Nat /\ p \in Nat /\ es + p >= (x + 1) - 2
      /\ x + 1 \in Nat /\ x + 1 >= 2
  BY DEF IsFormat
<1>2. 2^(x - 1) \in Nat /\ 2^(x - 1) >= 2 /\ 2^(x + 1) = 4 * 2^(x - 1) /\ 2^x = 2 * 2^(x - 1)
  <2>1. x - 1 \in Nat /\ (x - 1) + 1 = x /\ x \in Nat
    BY <1>1
  <2>2. 2^(x - 1) \in Nat /\ 2^(x - 1) >= 2
    BY Sizes
  <2>3. 2^x = 2 * 2^(x - 1) /\ 2^(x + 1) = 2 * 2^x
    <3> HIDE DEF x
    <3> DEFINE m == x - 1
    <3>1. 2^(m + 1) = 2 * 2^m
      <4>1. m \in Nat
        BY <2>1
      <4> HIDE DEF m
      <4> QED
        BY <4>1, PowerStep
    <3>2. 2^(x + 1) = 2 * 2^x
      BY <2>1, PowerStep
    <3> QED
      BY <2>1, <3>1, <3>2
  <2> QED
    BY <2>2, <2>3
<1>3. k \in Int /\ E \in Nat /\ E > 0 /\ G \in 0 .. E - 1 /\ H = k * E + G
  BY HeightDigits
<1>4. Round(F, scale, frac, more) = (IF k < 0 THEN 1 ELSE top) * Ulp(F)
  BY RoundBeyond
<1>5. IF k < 0 THEN -k > x - 2 ELSE k + 1 > x - 2
  BY DEF RegimeOf, RegimeLength
<1> HIDE DEF k, G, E, H
<1>6. ASSUME NEW u, NEW l, NEW i, Shaped(x + 1, u, l, i)
      PROVE  /\ l \in Int /\ B(l, i) \in Int /\ l * E \in Int /\ k * E \in Int
             /\ l > k => H < B(l, i)
             /\ l < k => B(l, i) < H
  <2>1. l \in Int /\ B(l, i) \in Int /\ l * E <= B(l, i) /\ B(l, i) < (l + 1) * E
    BY <1>1, <1>6, ShapeHeightBounds DEF E
  <2>2. l * E \in Int /\ k * E \in Int /\ (k + 1) * E = k * E + E /\ (l + 1) * E \in Int
        /\ (k + 1) * E \in Int /\ k + 1 \in Int /\ l + 1 \in Int
    BY <1>3, <2>1
  <2> HIDE DEF B
  <2>3. ASSUME l > k PROVE H < B(l, i)
    <3>1. (k + 1) * E <= l * E
      <4>1. k + 1 <= l
        BY <1>3, <2>1, <2>3
      <4> QED
        BY <1>3, <2>1, <2>2, <4>1, ScaledOrder
    <3> QED
      BY <1>3, <2>1, <2>2, <3>1
  <2>4. ASSUME l < k PROVE B(l, i) < H
    <3>1. (l + 1) * E <= k * E
      <4>1. l + 1 <= k
        BY <1>3, <2>1, <2>4
      <4> QED
        BY <1>3, <2>1, <2>2, <4>1, ScaledOrder
    <3> QED
      BY <1>3, <2>1, <2>2, <3>1
  <2> QED
    BY <2>1, <2>2, <2>3, <2>4
<1>7. CASE k < 0
  <2>1. ASSUME top # 1, NEW l, NEW i, Shaped(x + 1, 3, l, i) PROVE H < B(l, i)
    <3>1. x >= 3
      <4>1. ASSUME x = 2 PROVE FALSE
        <5>1. 2^(x - 1) = 2
          BY <4>1, PowerZero, PowerStep
        <5> QED
          BY <2>1, <5>1
      <4> QED
        BY <1>1, <4>1
    <3>2. l > -(x - 1)
      <4>1. l \in -(x - 1) .. x - 1
        BY <1>1, <2>1 DEF Shaped
      <4>2. ASSUME l = -(x - 1) PROVE FALSE
        <5>1. l < 0 /\ (x + 1) - 2 + l = 0
          BY <1>1, <3>1, <4>2
        <5>2. RegimeStart(x + 1, l) = 2^0 /\ BitsLeft(x + 1, l) = 0
          BY <5>1 DEF RegimeStart, BitsLeft
        <5>3. i \in 0 .. 2^0 - 1 /\ 3 = 2^0 + i
          BY <2>1, <5>2 DEF Shaped
        <5> QED
          BY <5>3, PowerZero
      <4> QED
        BY <1>1, <4>1, <4>2
    <3>3. k <= -(x - 1)
      BY <1>1, <1>3, <1>5, <1>7
    <3>4. l > k
      BY <1>1, <1>3, <1>6, <2>1, <3>2, <3>3
    <3> QED
      BY <1>6, <2>1, <3>4
  <2>2. RoundsHeight(F, 1, H, rest)
    <3> HIDE DEF B
    <3>1. 1 \in 1 .. 2^(F.x - 1) - 1 /\ 2 * 1 + 1 = 3
      BY <1>2
    <3>2. 1 = 2^(F.x - 1) - 1 \/ \A l, i : Shaped(F.x + 1, 2 * 1 + 1, l, i) => H < ShapeHeight(F.x + 1, F.es, 2 * F.n - 2, l, i)
      BY <2>1, <3>1 DEF B
    <3> QED
      BY <3>1, <3>2 DEF RoundsHeight
  <2> QED
    BY <1>4, <1>7, <2>2 DEF H
<1>8. CASE ~ (k < 0)
  <2>1. ASSUME top # 1, NEW l, NEW i, Shaped(x + 1, 2 * top - 1, l, i) PROVE B(l, i) < H
    <3>1. x >= 3
      <4>1. ASSUME x = 2 PROVE FALSE
        <5>1. 2^(x - 1) = 2
          BY <4>1, PowerZero, PowerStep
        <5> QED
          BY <2>1, <5>1
      <4> QED
        BY <1>1, <4>1
    <3>2. l < x - 2
      <4> DEFINE v == RegimeStart(x + 1, x - 2)
      <4>1. Shaped(x + 1, v, x - 2, 0) /\ v = 2^x - 2
        <5>1. x - 2 \in -((x + 1) - 2) .. (x + 1) - 2 /\ ~ (x - 2 < 0) /\ (x + 1) - 1 = x /\ (x + 1) - 2 - (x - 2) = 1
          BY <1>1
        <5>2. 2^BitsLeft(x + 1, x - 2) \in Nat /\ 2^BitsLeft(x + 1, x - 2) >= 1 /\ v \in Nat
          BY <1>1, <5>1, ShapeSizes
        <5>3. 2^1 = 2
          BY PowerZero, PowerStep
        <5>4. v = 2^x - 2
          BY <5>1, <5>3 DEF RegimeStart
        <5>5. v = v + 0 /\ 0 \in 0 .. 2^BitsLeft(x + 1, x - 2) - 1
          BY <5>2
        <5> HIDE DEF v
        <5> QED
          BY <5>1, <5>4, <5>5 DEF Shaped, v
      <4>2. 2 * top - 1 < v
        <5> HIDE DEF v
        <5> QED
          BY <1>2, <4>1
      <4>3. l \in Int /\ i \in Nat /\ (l < x - 2 \/ (l = x - 2 /\ i < 0))
        <5> HIDE DEF v, top
        <5> QED
          BY <1>1, <2>1, <4>1, <4>2, ShapeOrder
      <4> QED
        BY <4>3
    <3>3. k >= x - 2
      BY <1>1, <1>3, <1>5, <1>8
    <3>4. l < k
      BY <1>1, <1>3, <1>6, <2>1, <3>2, <3>3
    <3> QED
      BY <1>6, <2>1, <3>4
  <2>2. RoundsHeight(F, top, H, rest)
    <3>1. top \in 1 .. 2^(F.x - 1) - 1 /\ top = 2^(F.x - 1) - 1
      BY <1>2
    <3> HIDE DEF B, top
    <3>2. top = 1 \/ \A l, i : Shaped(F.x + 1, 2 * top - 1, l, i) => ShapeHeight(F.x + 1, F.es, 2 * F.n - 2, l, i) < H
      BY <2>1, <3>1 DEF B
    <3> QED
      BY <3>1, <3>2 DEF RoundsHeight
  <2> QED
    BY <1>4, <1>8, <2>2 DEF H
<1> QED
  BY <1>7, <1>8

-----------------------------------------------------------------------------
(* From heights to the numbers that the words stand for.                   *)

\* The words of x + 1 bits compare with v / d as their heights do with h and rest.
Compares(F, v, d, h, rest) ==
    \A b, k, j : Shaped(F.x + 1, b, k, j) =>
        LET w == Times(Value(F.x + 1, F.es, b), d)
            B == ShapeHeight(F.x + 1, F.es, 2 * F.n - 2, k, j)
        IN  /\ Less(w, v) <=> B < h \/ (B = h /\ rest)
            /\ Same(w, v) <=> B = h /\ ~ rest
            /\ Less(v, w) <=> h < B

\* A word with its sign and the digits of a positive word.
LEMMA SignedDigits ==
    ASSUME NEW F, IsFormat(F), NEW t \in 1 .. 2^(F.x - 1) - 1, NEW neg \in BOOLEAN
    PROVE  LET z == Signed(F, neg, t * Ulp(F)) IN
           /\ IsNumber(F, z) /\ Minus(F, z) = neg /\ Digits(F, z) = t
<1> DEFINE w == t * Ulp(F)
           z == Signed(F, neg, w)
<1>1. w \in PositiveWords(F)
  BY DEF PositiveWords
<1>2. Numeric(F, z) /\ (Negative(F, z) <=> neg)
  BY <1>1, SignedWord
<1>3. /\ Magnitude(F, z) = Digits(F, z) * Ulp(F) /\ (Minus(F, z) <=> Negative(F, z))
      /\ Digits(F, z) \in 1 .. 2^(F.x - 1) - 1
  BY <1>2, DigitsOf
<1>4. Minus(F, z) = neg
  <2>1. Minus(F, z) \in BOOLEAN
    BY DEF Minus
  <2> QED
    BY <1>2, <1>3, <2>1
<1>5. IsNumber(F, z)
  BY <1>2 DEF Numeric, IsNumber, NaR
<1>6. Magnitude(F, z) = w
  <2>1. w \in PrecisionWords(F) /\ w # 0 /\ w # NaR(F) /\ ~ Negative(F, w) /\ Neg(F, Neg(F, w)) = w
    <3>1. w \in PrecisionWords(F) /\ w \in Nat /\ 0 < w /\ ~ Negative(F, w) /\ Numeric(F, w)
      BY <1>1, PositiveWord
    <3>2. Neg(F, w) \in PrecisionWords(F) /\ Neg(F, w) = 2^F.n - w /\ Numeric(F, Neg(F, w))
      BY <3>1, Negation
    <3>3. Neg(F, Neg(F, w)) = 2^F.n - (2^F.n - w)
      BY <3>2, Negation DEF Numeric
    <3>4. 2^F.n \in Nat
      BY Sizes
    <3> HIDE DEF w
    <3> QED
      BY <3>1, <3>3, <3>4 DEF Numeric
  <2>2. CASE neg
    <3>1. z = Neg(F, w) /\ Negative(F, z)
      BY <1>2, <2>2 DEF Signed
    <3> QED
      BY <2>1, <3>1 DEF Magnitude, Signed
  <2>3. CASE ~ neg
    <3>1. z = w /\ ~ Negative(F, z)
      BY <1>2, <2>3 DEF Signed
    <3> QED
      BY <3>1 DEF Magnitude, Signed
  <2> QED
    BY <2>2, <2>3
<1>7. Digits(F, z) = t
  <2> DEFINE U == Ulp(F)
             y == Digits(F, z)
  <2>1. U \in Nat /\ U > 0 /\ y * U = t * U /\ 2^(F.x - 1) \in Nat
    BY <1>3, <1>6, Sizes
  <2>2. y \in Int /\ t \in Int
    BY <1>3, <2>1
  <2> HIDE DEF U, y
  <2>3. ~ (y < t) /\ ~ (t < y)
    <3>1. y * U < t * U <=> y < t
      BY <2>1, <2>2, ScaledOrder
    <3>2. t * U < y * U <=> t < y
      BY <2>1, <2>2, ScaledOrder
    <3>3. y * U \in Int /\ t * U \in Int
      BY <2>1, <2>2
    <3> QED
      BY <2>1, <3>1, <3>2, <3>3
  <2>4. y = t
    BY <2>2, <2>3
  <2> QED
    BY <2>4 DEF y
<1> QED
  BY <1>4, <1>5, <1>7

\* The word for a rounded height is the right one.
LEMMA RoundsToNumber ==
    ASSUME NEW F, IsFormat(F), NEW t, NEW h, NEW rest \in BOOLEAN, RoundsHeight(F, t, h, rest),
           NEW neg \in BOOLEAN, NEW v, NEW d, Compares(F, v, d, h, rest)
    PROVE  RoundsTo(F, Signed(F, neg, t * Ulp(F)), neg, v, d)
<1> DEFINE z == Signed(F, neg, t * Ulp(F))
           x == F.x
           B(k, j) == ShapeHeight(x + 1, F.es, 2 * F.n - 2, k, j)
           lo == Times(Value(x + 1, F.es, 2 * t - 1), d)
           hi == Times(Value(x + 1, F.es, 2 * t + 1), d)
           top == 2^(x - 1) - 1
<1>1. t \in 1 .. top
  BY DEF RoundsHeight
<1>2. IsNumber(F, z) /\ Minus(F, z) = neg /\ Digits(F, z) = t
  BY <1>1, SignedDigits
<1>3. x \in Nat /\ x + 1 \in Nat /\ x + 1 >= 2 /\ (x + 1) - 1 = x /\ 2^(x - 1) \in Nat /\ 2^x = 2 * 2^(x - 1)
  BY Sizes DEF IsFormat
<1>4. t = 1 \/ Less(lo, v) \/ (t % 2 = 0 /\ Same(lo, v))
  <2> SUFFICES ASSUME t # 1 PROVE Less(lo, v) \/ (t % 2 = 0 /\ Same(lo, v))
    OBVIOUS
  <2>1. 2 * t - 1 \in 1 .. 2^((x + 1) - 1) - 1
    BY <1>1, <1>3
  <2>2. PICK k, j : Shaped(x + 1, 2 * t - 1, k, j)
    BY <1>3, <2>1, ShapeExists
  <2>3. B(k, j) < h \/ (B(k, j) = h /\ (rest \/ t % 2 = 0))
    BY <2>2, Zenon DEF RoundsHeight
  <2>4. /\ Less(lo, v) <=> B(k, j) < h \/ (B(k, j) = h /\ rest)
        /\ Same(lo, v) <=> B(k, j) = h /\ ~ rest
    BY <2>2, Zenon DEF Compares
  <2> QED
    BY <2>3, <2>4
<1>5. t = top \/ Less(v, hi) \/ (t % 2 = 0 /\ Same(v, hi))
  <2> SUFFICES ASSUME t # top PROVE Less(v, hi) \/ (t % 2 = 0 /\ Same(v, hi))
    OBVIOUS
  <2>1. 2 * t + 1 \in 1 .. 2^((x + 1) - 1) - 1
    BY <1>1, <1>3
  <2>2. PICK k, j : Shaped(x + 1, 2 * t + 1, k, j)
    BY <1>3, <2>1, ShapeExists
  <2>3. h < B(k, j) \/ (B(k, j) = h /\ ~ rest /\ t % 2 = 0)
    BY <2>2, Zenon DEF RoundsHeight
  <2>4. /\ Same(hi, v) <=> B(k, j) = h /\ ~ rest
        /\ Less(v, hi) <=> h < B(k, j)
    BY <2>2, Zenon DEF Compares
  <2>5. Same(hi, v) <=> Same(v, hi)
    BY DEF Same
  <2> QED
    BY <2>3, <2>4, <2>5
<1> HIDE DEF z, lo, hi, top
<1> QED
  BY <1>2, <1>4, <1>5 DEF RoundsTo, z, lo, hi, top

\* The bits of the fraction that a word keeps.
LEMMA FractionOf ==
    ASSUME NEW w \in Nat, w >= 2, NEW es \in Nat, NEW p \in Nat, NEW u, NEW k, NEW j,
           Shaped(w, u, k, j), NEW s, NEW g, Stands(Value(w, es, u), p, s, g)
    PROVE  s - Value(w, es, u).pow = IF es >= BitsLeft(w, k) THEN 0 ELSE BitsLeft(w, k) - es
<1> DEFINE v == Value(w, es, u)
           l == BitsLeft(w, k)
           f == l - (IF es >= l THEN l ELSE es)
           e == s - v.pow
           m == v.num
<1>1. v = ShapeValue(w, es, k, j)
  BY ValueOf
<1>2. m = 2^f + (j % 2^f)
  <2> DEFINE q == k * 2^es + (j \div 2^f) * 2^(es - (IF es >= l THEN l ELSE es)) - f
             r == 2^f + (j % 2^f)
  <2>1. v = [num |-> r, pow |-> q]
    BY <1>1, Zenon DEF ShapeValue
  <2> HIDE DEF v, r, q
  <2>2. v.num = r
    BY <2>1
  <2> QED
    BY <2>2 DEF r
<1>3. l \in Nat /\ j \in Nat
  <2>1. k \in -(w - 2) .. w - 2
    BY DEF Shaped
  <2> QED
    BY <2>1, ShapeSizes, ShapeOrder
<1>4. f \in Nat /\ f = IF es >= l THEN 0 ELSE l - es
  BY <1>3
<1>5. e \in Nat /\ m \in Nat /\ m \in 2^e .. 2 * 2^e - 1
  BY DEF Stands
<1> HIDE DEF f, e, m
<1>6. 2^f \in Nat /\ 2^f > 0 /\ 2^(f + 1) = 2 * 2^f /\ 2^e \in Nat /\ 2^(e + 1) = 2 * 2^e
  BY <1>4, <1>5, PowerType, PowerStep
<1>7. j % 2^f \in 0 .. 2^f - 1
  BY <1>3, <1>6, Division
<1>8. f = e
  <2>1. 2^f <= m /\ m < 2^(f + 1) /\ 2^e <= m /\ m < 2^(e + 1)
    BY <1>2, <1>5, <1>6, <1>7
  <2> QED
    BY <1>4, <1>5, <2>1, LeadingUnique
<1> QED
  BY <1>4, <1>8 DEF e

\* The bits left behind a regime, in terms of its length.
FractionBits(F, f, k) == f = 0 \/ f + F.es + RegimeLength(k) = F.x - 2

\* A scanned word is the number that the word stands for.
LEMMA ScanStands ==
    ASSUME NEW F, IsFormat(F), NEW d \in 1 .. 2^(F.x - 1) - 1
    PROVE  LET s == Scan(F, d * Ulp(F))
               v == Value(F.x, F.es, d)
           IN  /\ Stands(v, F.n - 1, Scale(F, s), s.frac)
               /\ s.k \in Int /\ s.exp \in 0 .. 2^F.es - 1
               /\ Scale(F, s) - v.pow \in 0 .. F.x - 2
               /\ FractionBits(F, Scale(F, s) - v.pow, s.k)
<1> DEFINE x == F.x
           n == F.n
           es == F.es
           m == n - x
           u == d * 2^m
           sc == Scan(F, u)
           v == Value(x, es, d)
           p == n - 1
<1>1. /\ x \in Nat /\ x >= 2 /\ n \in Nat /\ es \in Nat /\ m \in Nat /\ x + m = n /\ p \in Nat
      /\ p >= x - 2 /\ es + p >= x + m - 2 /\ es + p >= x - 2
  BY DEF IsFormat
<1>2. d * Ulp(F) = u
  BY DEF Ulp
<1>3. PICK k, j : Shaped(x, d, k, j)
  BY <1>1, ShapeExists
<1>4. PICK i : WidensTo(x, m, d, k, j, i)
  BY <1>1, <1>3, ShapeWidened
<1>5. Shaped(n, u, k, i) /\ ShapeHeight(n, es, p, k, i) = ShapeHeight(x, es, p, k, j)
  BY <1>1, <1>4 DEF WidensTo
<1>6. /\ sc.k = k /\ sc.exp \in 0 .. 2^es - 1
      /\ Scale(F, sc) \in Int
      /\ Significand(p, sc.frac)
      /\ Height(p, Scale(F, sc), sc.frac) = ShapeHeight(n, es, p, k, i)
  BY <1>5, ScanOfShape
<1>7. PICK s, g : Stands(v, p, s, g) /\ Height(p, s, g) = ShapeHeight(x, es, p, k, j)
  BY <1>1, <1>3, ValueStands
<1> HIDE DEF sc, v, p, u
<1>8. s = Scale(F, sc) /\ g = sc.frac
  <2>1. s \in Int /\ Significand(p, g) /\ Height(p, s, g) = Height(p, Scale(F, sc), sc.frac)
    BY <1>5, <1>6, <1>7 DEF Stands
  <2> QED
    BY <1>1, <1>6, <2>1, HeightOrder
<1>9. s - v.pow = IF es >= BitsLeft(x, k) THEN 0 ELSE BitsLeft(x, k) - es
  BY <1>1, <1>3, <1>7, FractionOf DEF v
<1>10. k \in -(x - 2) .. x - 2
  BY <1>3 DEF Shaped
<1>11. BitsLeft(x, k) \in 0 .. x - 2 /\ (BitsLeft(x, k) = 0 \/ BitsLeft(x, k) + RegimeLength(k) = x - 2)
  BY <1>1, <1>10 DEF BitsLeft, RegimeLength
<1>12. s - v.pow \in 0 .. x - 2 /\ FractionBits(F, s - v.pow, k)
  <2>1. s - v.pow \in 0 .. x - 2
    BY <1>1, <1>9, <1>11
  <2>2. s - v.pow = 0 \/ s - v.pow + es + RegimeLength(k) = x - 2
    <3>1. RegimeLength(k) \in Int
      BY <1>10 DEF RegimeLength
    <3> QED
      BY <1>1, <1>9, <1>11, <3>1
  <2> QED
    BY <2>1, <2>2 DEF FractionBits
<1> QED
  BY <1>2, <1>6, <1>7, <1>8, <1>10, <1>12 DEF sc, v, p

\* A number brought to its place by the normalisation.
LEMMA NormalStands ==
    ASSUME NEW F, IsFormat(F), NEW scale \in Int, NEW frac \in 1 .. 2^(2 * F.n) - 1,
           NEW v, v.num \in Nat, v.pow \in Int, scale - v.pow <= 2 * F.n - 3,
           frac = v.num * 2^((2 * F.n - 2) - (scale - v.pow))
    PROVE  LET z == Normal(F, scale, frac)
               p == 2 * F.n - 2
           IN  /\ Stands(v, p, z.scale, z.frac)
               /\ z.frac = v.num * 2^(p - (z.scale - v.pow))
               /\ z.scale - v.pow \in 0 .. p
               /\ z.scale \in Int /\ z.scale <= scale + 1
               /\ frac < 2 * 2^p => z.scale <= scale
<1> DEFINE z == Normal(F, scale, frac)
           p == 2 * F.n - 2
           m == v.num
           q == v.pow
           e == scale - q
           f == z.scale - q
           A == 2^(p - e)
<1>1. p \in Nat /\ p >= 4 /\ e \in Int /\ e <= p - 1 /\ p - e \in Nat /\ p - e >= 1
      /\ F.n \in Nat /\ F.n >= 3 /\ (2 * F.n - 1) = p + 1
  BY WideSizes
<1>2. /\ z.scale \in Int /\ Significand(p, z.frac)
      /\ IF frac >= 2^(2 * F.n - 1)
         THEN z.scale = scale + 1 /\ z.frac = frac \div 2
         ELSE scale - z.scale \in Nat /\ z.frac = frac * 2^(scale - z.scale)
  BY NormalShape
<1>3. 2^(p + 1) = 2 * 2^p /\ 2^p \in Nat
  BY <1>1, PowerStep, PowerType
<1>4. frac = m * A /\ A \in Nat /\ A >= 1
  BY <1>1, PowerType
<1> HIDE DEF z, p
<1>5. z.frac = m * 2^(p - f) /\ f \in Int /\ p - f \in Nat /\ z.scale <= scale + 1
      /\ (frac < 2 * 2^p => z.scale <= scale)
  <2>1. CASE frac >= 2^(2 * F.n - 1)
    <3>1. z.scale = scale + 1 /\ z.frac = frac \div 2
      BY <1>2, <2>1
    <3>2. f = e + 1 /\ p - f = (p - e) - 1 /\ p - f \in Nat
      <4>1. f = e + 1
        BY <3>1
      <4> HIDE DEF f, e
      <4> QED
        BY <1>1, <4>1
    <3> DEFINE B == 2^(p - f)
    <3>3. A = 2 * B /\ B \in Nat
      BY <1>1, <3>2, PowerBelow
    <3> HIDE DEF A, B
    <3>4. (m * A) \div 2 = m * B
      <4>1. m * A = 2 * (m * B) + 0 /\ m * B \in Nat /\ m * A \in Int /\ 0 \in 0 .. 2 - 1 /\ 2 \in Nat /\ 2 > 0
        BY <1>4, <3>3
      <4> DEFINE y == m * A
                 r == m * B
      <4> HIDE DEF y, r
      <4>2. y = 2 * r + 0 /\ y \in Int /\ r \in Int
        BY <4>1 DEF y, r
      <4>3. y \div 2 = r
        BY <4>1, <4>2, DivisionUnique
      <4> QED
        BY <4>3 DEF y, r
    <3>5. ~ (frac < 2 * 2^p)
      BY <1>1, <1>3, <2>1
    <3> QED
      BY <1>1, <1>2, <1>4, <3>1, <3>2, <3>4, <3>5 DEF B
  <2>2. CASE ~ (frac >= 2^(2 * F.n - 1))
    <3> DEFINE d == scale - z.scale
    <3>1. d \in Nat /\ z.frac = frac * 2^d
      BY <1>2, <2>2
    <3>2. p - f = (p - e) + d /\ p - f \in Nat /\ f \in Int
      BY <1>1, <1>2, <3>1
    <3> HIDE DEF d
    <3>3. 2^((p - e) + d) = A * 2^d /\ 2^d \in Nat
      BY <1>1, <3>1, PowerSum, PowerType
    <3> DEFINE D == 2^d
    <3>4. (m * A) * D = m * (A * D)
      <4> HIDE DEF A, D
      <4>1. D \in Nat
        BY <3>3 DEF D
      <4> QED
        BY <1>4, <4>1
    <3>5. z.scale <= scale
      BY <1>2, <3>1 DEF d
    <3> QED
      BY <1>2, <1>4, <3>1, <3>2, <3>3, <3>4, <3>5
  <2> QED
    BY <2>1, <2>2
<1> DEFINE B == 2^(p - f)
           P == 2^p
<1>6. z.frac \in P .. 2 * P - 1 /\ m \in Nat /\ B \in Nat /\ B >= 1 /\ P \in Nat
  BY <1>1, <1>2, <1>5, PowerType DEF Significand
<1>7. f >= 0
  <2> SUFFICES ASSUME f < 0 PROVE FALSE
    BY <1>5
  <2>1. p + 1 \in Nat /\ p - f \in Nat /\ p + 1 <= p - f
    BY <1>1, <1>5
  <2>2. B >= 2 * P
    <3> DEFINE r == p - f
    <3> HIDE DEF r
    <3>1. 2^(p + 1) <= 2^r
      BY <2>1, PowerMonotone DEF r
    <3> QED
      BY <1>3, <3>1 DEF r
  <2> HIDE DEF B, P, f, m
  <2>3. m # 0 /\ z.frac = m * B
    <3>1. z.frac = m * B
      BY <1>5 DEF B
    <3>2. m = 0 => m * B = 0
      BY <1>6
    <3>3. P > 0
      BY <1>1, PowerType DEF P
    <3> QED
      BY <1>6, <3>1, <3>2, <3>3
  <2>4. 1 * B <= m * B /\ 1 * B = B
    <3>1. 1 \in Int /\ 1 <= m /\ m \in Int
      BY <1>6, <2>3
    <3> QED
      BY <1>6, <3>1, ScaledOrder
  <2>5. m * B \in Int
    BY <1>6
  <2> QED
    BY <1>6, <2>2, <2>3, <2>4, <2>5
<1>8. f \in 0 .. p
  BY <1>1, <1>5, <1>7
<1> DEFINE S == 2^f
<1>9. P = S * B /\ S \in Nat
  <2>1. (p - f) + f = p /\ f \in Nat /\ p - f \in Nat
    BY <1>1, <1>8
  <2> DEFINE r == p - f
  <2> HIDE DEF r, f
  <2>2. 2^(f + r) = 2^f * 2^r /\ 2^f \in Nat
    BY <2>1, PowerSum, PowerType DEF r
  <2>3. f + r = p
    BY <1>1, <2>1 DEF r
  <2> QED
    BY <2>2, <2>3 DEF r
<1>10. m \in S .. 2 * S - 1
  <2>1. z.frac = m * B
    BY <1>5
  <2> HIDE DEF B, P, S, m
  <2>2. S * B <= m * B <=> S <= m
    BY <1>6, <1>9, ScaledOrder
  <2>3. m * B < (2 * S) * B <=> m < 2 * S
    <3>1. 2 * S \in Int /\ m \in Int
      BY <1>6, <1>9
    <3> QED
      BY <1>6, <3>1, ScaledOrder
  <2>4. (2 * S) * B = 2 * (S * B) /\ m * B \in Int
    BY <1>6, <1>9
  <2> QED
    BY <1>6, <1>9, <2>1, <2>2, <2>3, <2>4
<1>11. Stands(v, p, z.scale, z.frac)
  BY <1>2, <1>5, <1>8, <1>10 DEF Stands
<1> QED
  BY <1>2, <1>5, <1>8, <1>11 DEF z, p

\* With zeros in the bits that the shift to the regime drops, nothing that is cut off
\* below the rounding bit goes unnoticed.
LEMMA StickyIs ==
    ASSUME NEW F, IsFormat(F), NEW scale \in Int, RegimeOf(F, scale) <= F.x - 2,
           NEW frac, NEW m \in Nat, frac = m * 2^(RegimeOf(F, scale) + F.es)
    PROVE  FracSticky(F, scale, frac) \/ ExpSticky(F, scale) <=> CutBelow(F, scale, frac) # 0
<1> DEFINE x == F.x
           es == F.es
           reg == RegimeOf(F, scale)
           ex == scale % 2^es
           p == 2 * F.n - 2
           P == 2^p
           q == reg + es
           Q == 2^q
           R == 2^(p - q)
           low == frac % P
           i == low \div Q
           r == 2 * F.n - 1 - x
           D == CutOff(F, reg) - 1
           lost == LostExpBits(F, reg)
           G == ex * P + low
<1>1. /\ x \in Nat /\ x >= 2 /\ F.n \in Nat /\ x <= F.n /\ es \in Nat /\ es <= 2 /\ p \in Nat /\ F.n >= es + 3
  BY DEF IsFormat
<1>2. reg \in 1 .. x - 2
  <2>1. scale \div 2^es \in Int
    <3>1. 2^es \in Nat /\ 2^es > 0
      BY <1>1, PowerType
    <3> QED
      BY <3>1, Division
  <2> DEFINE k == scale \div 2^es
  <2> HIDE DEF k
  <2>2. RegimeLength(k) \in Nat /\ RegimeLength(k) >= 1
    BY <2>1 DEF RegimeLength, k
  <2> QED
    BY <1>1, <2>2 DEF RegimeOf, k
<1>3. /\ q \in Nat /\ q <= p /\ p - q \in Nat /\ r \in Nat /\ D = q + r /\ D \in Nat
      /\ D - p = es - Room(F, reg) - 1 /\ Room(F, reg) \in Nat
  BY <1>1, <1>2 DEF Room, CutOff
<1>4. P \in Nat /\ P > 0 /\ Q \in Nat /\ Q > 0 /\ R \in Nat /\ R > 0 /\ P = R * Q
  <2> HIDE DEF p, q
  <2> QED
    BY <1>1, <1>3, PowerType, PowerSplit
<1>5. ex \in Nat
  <2>1. 2^es \in Nat /\ 2^es > 0
    BY <1>1, PowerType
  <2> QED
    BY <2>1, Division
<1>6. low = Q * (m % R) /\ m % R \in 0 .. R - 1
  <2> HIDE DEF P, Q, R
  <2>1. frac = m * Q /\ frac \in Int
    BY <1>4 DEF Q
  <2>2. frac % (Q * R) = Q * ((frac \div Q) % R) + (frac % Q)
    BY <1>4, <2>1, DivisionTwice
  <2>3. frac \div Q = m /\ frac % Q = 0
    <3>1. frac = Q * m + 0 /\ 0 \in 0 .. Q - 1 /\ m \in Int /\ frac \in Int /\ Q \in Nat /\ Q > 0
      BY <1>4, <2>1
    <3> QED
      BY <3>1, DivisionUnique, Zenon
  <2>4. Q * R = P
    BY <1>4
  <2>5. m % R \in 0 .. R - 1
    BY <1>4, Division
  <2> DEFINE y == m % R
  <2>6. low = Q * y
    <3>1. frac % P = Q * y + 0
      BY <2>2, <2>3, <2>4
    <3> HIDE DEF y
    <3>2. Q * y \in Int
      BY <1>4, <2>5 DEF y
    <3> QED
      BY <3>1, <3>2
  <2> QED
    BY <2>5, <2>6
<1>7. i = m % R /\ i \in 0 .. R - 1 /\ low = Q * i /\ low \in Nat /\ low % Q = 0 /\ low \in 0 .. P - 1
  <2> DEFINE y == m % R
  <2>1. y \in 0 .. R - 1 /\ low = Q * y
    BY <1>6
  <2> HIDE DEF y, low, P, Q, R
  <2>2. low \div Q = y /\ low % Q = 0
    <3>1. low = Q * y + 0 /\ 0 \in 0 .. Q - 1 /\ low \in Int /\ y \in Int
      BY <1>4, <2>1
    <3> QED
      BY <1>4, <3>1, DivisionUnique
  <2>3. low \in Nat
    BY <1>4, <2>1
  <2>4. low < P
    <3>1. y * Q < R * Q /\ y * Q = Q * y
      <4>1. y \in Int /\ R \in Int /\ y < R
        BY <1>4, <2>1
      <4> QED
        BY <1>4, <4>1, ScaledOrder
    <3> QED
      BY <1>4, <2>1, <3>1
  <2> QED
    BY <1>4, <2>1, <2>2, <2>3, <2>4 DEF y
<1>8. FracSticky(F, scale, frac) <=> i % 2^r # 0
  BY DEF FracSticky, ShiftedFraction
<1>9. CutBelow(F, scale, frac) = G % 2^D
  BY DEF CutBelow, Following
<1>10. ExpSticky(F, scale) <=> lost > 1 /\ ex % 2^(lost - 1) # 0
  BY DEF ExpSticky
<1>11. lost = IF Room(F, reg) >= es THEN 0 ELSE es - Room(F, reg)
  BY DEF LostExpBits, Room
<1>12. Q * i = 0 <=> i = 0
  <2> HIDE DEF Q, i
  <2>1. 0 * Q < i * Q <=> 0 < i
    BY <1>4, <1>7, ScaledOrder
  <2>2. 0 * Q = 0 /\ i * Q = Q * i
    BY <1>4, <1>7
  <2> QED
    BY <1>4, <1>7, <2>1, <2>2
<1> HIDE DEF i, low, ex, lost, q, r
<1>13. CASE Room(F, reg) >= es
  <2>1. D <= p
    BY <1>1, <1>3, <1>13
  <2>2. G % 2^D = low % 2^D
    <3> HIDE DEF D, p
    <3>1. ex \in Nat /\ p \in Nat /\ low \in 0 .. 2^p - 1 /\ D \in Nat /\ D <= p
      BY <1>1, <1>3, <1>5, <1>7, <2>1 DEF P
    <3>2. /\ (ex * 2^p + low) \div 2^D = ex * 2^(p - D) + (low \div 2^D)
          /\ (ex * 2^p + low) % 2^D = low % 2^D
      BY <3>1, FollowingDivided, ZenonT(40)
    <3> QED
      BY <3>2 DEF P
  <2> DEFINE W == 2^r
  <2>3. 2^D = Q * W /\ W \in Nat /\ W > 0
    <3>1. 2^(q + r) = 2^q * 2^r /\ 2^r \in Nat /\ 2^r > 0
      BY <1>3, PowerSum, PowerType
    <3>2. D = q + r
      BY <1>3
    <3> HIDE DEF D
    <3> QED
      BY <3>1, <3>2
  <2>4. low % (Q * W) = Q * ((low \div Q) % W) + (low % Q)
    <3>1. low \in Int /\ Q \in Nat /\ Q > 0 /\ W \in Nat /\ W > 0
      BY <1>4, <1>7, <2>3
    <3> HIDE DEF Q, W
    <3>2. /\ (low \div Q) \div W = low \div (Q * W)
          /\ low % (Q * W) = Q * ((low \div Q) % W) + (low % Q)
      BY <3>1, DivisionTwice, Zenon
    <3> QED
      BY <3>2
  <2> DEFINE y == i % W
  <2>5. G % 2^D = Q * y
    <3>1. low \div Q = i
      BY DEF i
    <3>2. y \in Int
      <4> HIDE DEF W
      <4> QED
        BY <1>7, <2>3, Division
    <3>3. G % 2^D = Q * y + 0
      BY <1>7, <2>2, <2>3, <2>4, <3>1
    <3> HIDE DEF y, Q, G, D
    <3> QED
      BY <1>4, <3>2, <3>3
  <2>6. Q * y = 0 <=> y = 0
    <3>1. y \in 0 .. W - 1
      <4> HIDE DEF W
      <4> QED
        BY <1>7, <2>3, Division
    <3> HIDE DEF Q, y
    <3>2. y \in Nat
      BY <2>3, <3>1
    <3>3. 0 * Q < y * Q <=> 0 < y
      BY <1>4, <3>2, ScaledOrder
    <3>4. 0 * Q = 0 /\ y * Q = Q * y
      BY <1>4, <3>2
    <3> QED
      BY <1>4, <3>2, <3>3, <3>4
  <2>7. ~ ExpSticky(F, scale)
    <3>1. lost = 0
      BY <1>11, <1>13
    <3>2. ~ (lost > 1)
      BY <3>1
    <3> QED
      BY <1>10, <3>2
  <2> HIDE DEF G, D, Q
  <2> QED
    BY <1>8, <1>9, <2>5, <2>6, <2>7
<1>14. CASE ~ (Room(F, reg) >= es)
  <2>1. lost = D - p + 1 /\ lost >= 1 /\ D >= p /\ lost \in Nat /\ lost - 1 = D - p
    BY <1>1, <1>3, <1>11, <1>14
  <2>2. i % 2^r = i
    <3>1. p - q <= r
      <4> HIDE DEF D
      <4>1. D = q + r
        BY <1>3
      <4> QED
        BY <1>1, <1>3, <2>1, <4>1
    <3>2. R <= 2^r /\ 2^r \in Nat
      <4> DEFINE s == p - q
      <4> HIDE DEF s
      <4>1. 2^s <= 2^r /\ 2^r \in Nat
        BY <1>3, <3>1, PowerMonotone, PowerType DEF s
      <4> QED
        BY <4>1 DEF s
    <3> DEFINE W == 2^r
    <3>3. i \in 0 .. W - 1 /\ W \in Nat
      BY <1>4, <1>7, <3>2
    <3> HIDE DEF W
    <3>4. i % W = i
      BY <3>3, SmallDivision
    <3> QED
      BY <3>4 DEF W
  <2>3. FracSticky(F, scale, frac) <=> low # 0
    BY <1>7, <1>8, <1>12, <2>2
  <2>4. CASE lost = 1
    <3>1. D = p
      <4> HIDE DEF D, p
      <4> QED
        BY <1>1, <1>3, <2>1, <2>4
    <3>2. G % 2^p = low % 2^p
      <4> HIDE DEF p
      <4>1. ex \in Nat /\ p \in Nat /\ low \in 0 .. 2^p - 1 /\ p <= p
        BY <1>1, <1>5, <1>7 DEF P
      <4>2. /\ (ex * 2^p + low) \div 2^p = ex * 2^(p - p) + (low \div 2^p)
            /\ (ex * 2^p + low) % 2^p = low % 2^p
        BY <4>1, FollowingDivided, ZenonT(40)
      <4> QED
        BY <4>2 DEF P
    <3>3. low % P = low
      <4> HIDE DEF P
      <4> QED
        BY <1>4, <1>7, SmallDivision
    <3>4. ~ ExpSticky(F, scale)
      BY <1>10, <2>4
    <3> QED
      BY <1>9, <2>3, <3>1, <3>2, <3>3, <3>4
  <2>5. CASE lost > 1
    <3>1. D > p
      BY <1>1, <1>3, <2>1, <2>5
    <3>2. G % 2^D = (ex % 2^(D - p)) * P + low
      <4> HIDE DEF p, D
      <4>1. ex \in Nat /\ p \in Nat /\ low \in 0 .. 2^p - 1 /\ D \in Nat /\ D > p
        BY <1>1, <1>3, <1>5, <1>7, <3>1 DEF P
      <4>2. /\ (ex * 2^p + low) \div 2^D = ex \div 2^(D - p)
            /\ (ex * 2^p + low) % 2^D = (ex % 2^(D - p)) * 2^p + low
        BY <4>1, ExponentDivided, ZenonT(40)
      <4> QED
        BY <4>2 DEF P
    <3> DEFINE y == ex % 2^(D - p)
    <3>3. ExpSticky(F, scale) <=> y # 0
      BY <1>10, <2>1, <2>5
    <3>4. y \in Nat
      <4>1. D - p \in Nat
        BY <1>1, <1>3, <3>1
      <4> DEFINE W == 2^(D - p)
      <4>2. W \in Nat /\ W > 0
        BY <4>1, PowerType
      <4> HIDE DEF W
      <4>3. ex % W \in 0 .. W - 1
        BY <1>5, <4>2, Division
      <4> QED
        BY <4>2, <4>3 DEF W
    <3> HIDE DEF y, P, G, D
    <3>5. y * P \in Nat /\ (y * P = 0 <=> y = 0)
      <4>1. 0 * P < y * P <=> 0 < y
        BY <1>4, <3>4, ScaledOrder
      <4>2. 0 * P = 0 /\ y * P \in Nat
        BY <1>4, <3>4
      <4> QED
        BY <1>4, <3>4, <4>1, <4>2
    <3> QED
      BY <1>7, <1>9, <2>3, <3>2, <3>3, <3>5 DEF y
  <2> QED
    BY <2>1, <2>4, <2>5
<1> QED
  BY <1>13, <1>14

-----------------------------------------------------------------------------
(* Products.                                                               *)

\* A number compares with the words of one bit more as its height does with theirs.
LEMMA ComparesNumber ==
    ASSUME NEW F, IsFormat(F), NEW v, NEW s, NEW g, Stands(v, 2 * F.n - 2, s, g)
    PROVE  Compares(F, v, Unity, Height(2 * F.n - 2, s, g), FALSE)
<1> DEFINE p == 2 * F.n - 2
           x == F.x
           h == Height(p, s, g)
<1>1. x + 1 \in Nat /\ x + 1 >= 2 /\ F.es \in Nat /\ p \in Nat /\ p >= (x + 1) - 2
  BY DEF IsFormat
<1> SUFFICES ASSUME NEW b, NEW k, NEW j, Shaped(x + 1, b, k, j)
             PROVE  LET w == Times(Value(x + 1, F.es, b), Unity)
                        B == ShapeHeight(x + 1, F.es, p, k, j)
                    IN  /\ Less(w, v) <=> B < h \/ (B = h /\ FALSE)
                        /\ Same(w, v) <=> B = h /\ ~ FALSE
                        /\ Less(v, w) <=> h < B
  BY Zenon DEF Compares
<1> DEFINE u == Value(x + 1, F.es, b)
           w == Times(u, Unity)
           B == ShapeHeight(x + 1, F.es, p, k, j)
<1>2. PICK t, f : Stands(u, p, t, f) /\ Height(p, t, f) = B
  BY <1>1, ValueStands
<1>3. Stands(w, p, t, f)
  <2> HIDE DEF u, p
  <2>1. u.num \in Nat /\ u.pow \in Int
    BY <1>2 DEF Stands
  <2>2. w.num = u.num * 1 /\ w.pow = u.pow + 0
    BY DEF Times, Unity
  <2>3. w.num = u.num /\ w.pow = u.pow
    BY <2>1, <2>2
  <2> HIDE DEF w
  <2> QED
    BY <1>2, <2>3 DEF Stands
<1> HIDE DEF u, w, B, p, h
<1>4. Stands(v, p, s, g)
  BY DEF p
<1>5. /\ Less(w, v) <=> Height(p, t, f) < Height(p, s, g)
      /\ Same(w, v) <=> Height(p, t, f) = Height(p, s, g)
  BY <1>1, <1>3, <1>4, LessIs
<1>6. Less(v, w) <=> Height(p, s, g) < Height(p, t, f)
  BY <1>1, <1>3, <1>4, LessIs
<1> QED
  BY <1>2, <1>5, <1>6 DEF w, B, h, u

\* The regime of a product is not longer than those of its factors together.
LEMMA RegimeOfProduct ==
    ASSUME NEW S \in {1, 2, 4}, NEW k \in Int, NEW l \in Int, NEW d \in 0 .. S - 1, NEW e \in 0 .. S - 1,
           NEW q \in Int, NEW r \in 0 .. S - 1,
           k * S + d + (l * S + e) <= S * q + r, S * q + r <= k * S + d + (l * S + e) + 1
    PROVE  RegimeLength(q) <= RegimeLength(k) + RegimeLength(l) + 1
<1>1. k + l <= q /\ q <= k + l + 1
  BY DEF RegimeLength
<1> QED
  BY <1>1 DEF RegimeLength

\* The bits of a product and the carry leave room for its regime and its exponent.
LEMMA RoomOfProduct ==
    ASSUME NEW F, IsFormat(F), NEW k \in Int, NEW l \in Int, NEW f \in 0 .. F.x - 2, NEW g \in 0 .. F.x - 2,
           FractionBits(F, f, k), FractionBits(F, g, l),
           NEW reg \in Int, reg <= F.x - 2, reg <= RegimeLength(k) + RegimeLength(l) + 1
    PROVE  f + g + 1 + (reg + F.es) <= 2 * F.n - 2
<1>1. RegimeLength(k) \in Nat /\ RegimeLength(l) \in Nat
  BY DEF RegimeLength
<1>2. F.x \in Nat /\ F.n \in Nat /\ F.x <= F.n /\ F.es \in 0 .. 2 /\ F.n >= F.es + 3
  BY DEF IsFormat
<1> DEFINE a == RegimeLength(k)
           b == RegimeLength(l)
           x == F.x
           n == F.n
           es == F.es
<1>3. (f = 0 \/ f + es + a = x - 2) /\ (g = 0 \/ g + es + b = x - 2)
  BY DEF FractionBits
<1>4. f \in Int /\ g \in Int /\ f >= 0 /\ g >= 0 /\ f <= x - 2 /\ g <= x - 2 /\ reg <= x - 2 /\ reg <= a + b + 1
  BY <1>2
<1> HIDE DEF a, b, x, n, es
<1>5. a \in Int /\ b \in Int /\ a >= 0 /\ b >= 0 /\ x \in Int /\ n \in Int /\ es \in Int /\ x <= n /\ es >= 0
      /\ n >= es + 3 /\ es <= 2
  BY <1>1, <1>2 DEF a, b, x, n, es
<1>6. f + g + 1 + (reg + es) <= 2 * n - 2
  BY <1>3, <1>4, <1>5
<1> QED
  BY <1>6 DEF n, es

\* A number with enough zeros behind its last bit.
LEMMA ZerosBehind ==
    ASSUME NEW m \in Nat, NEW c \in Int, NEW q \in Nat, c >= q
    PROVE  \E i \in Nat : m * 2^c = i * 2^q
<1> DEFINE d == c - q
<1>1. d \in Nat /\ d + q = c
  OBVIOUS
<1> HIDE DEF d
<1>2. 2^(d + q) = 2^d * 2^q /\ 2^d \in Nat /\ 2^q \in Nat
  BY <1>1, PowerSum, PowerType
<1> DEFINE D == 2^d
           Q == 2^q
           i == m * D
<1>3. m * (D * Q) = i * Q /\ i \in Nat
  <2> HIDE DEF D, Q
  <2>1. D \in Nat /\ Q \in Nat
    BY <1>2 DEF D, Q
  <2> QED
    BY <2>1
<1>4. m * 2^c = i * 2^q
  <2>1. 2^c = D * Q
    BY <1>1, <1>2
  <2> HIDE DEF i, D
  <2> QED
    BY <1>3, <2>1
<1> HIDE DEF i
<1> QED
  BY <1>3, <1>4

LEMMA SmallPowers ==
    ASSUME NEW es \in 0 .. 2
    PROVE  2^es \in {1, 2, 4} /\ 2^es \in Nat /\ 2^es > 0
<1>1. 2^0 = 1
  BY PowerZero
<1>2. 2^(0 + 1) = 2 * 2^0
  BY PowerStep
<1>3. 2^(1 + 1) = 2 * 2^1
  BY PowerStep
<1>4. 2^1 = 2
  BY <1>1, <1>2
<1>5. 2^2 = 4
  BY <1>3, <1>4
<1>6. es = 0 \/ es = 1 \/ es = 2
  OBVIOUS
<1>7. 2^es = 1 \/ 2^es = 2 \/ 2^es = 4
  BY <1>1, <1>4, <1>5, <1>6, Zenon
<1> QED
  BY <1>7

\* The product of two scanned words is the number that the words' product is, with
\* zeros behind it where the regime and the exponent go.
LEMMA ProductStands ==
    ASSUME NEW F, IsFormat(F), NEW d \in 1 .. 2^(F.x - 1) - 1, NEW e \in 1 .. 2^(F.x - 1) - 1
    PROVE  LET z == Product(F, d * Ulp(F), e * Ulp(F))
               v == Times(Value(F.x, F.es, d), Value(F.x, F.es, e))
           IN  /\ z.scale \in Int /\ Stands(v, 2 * F.n - 2, z.scale, z.frac)
               /\ RegimeOf(F, z.scale) <= F.x - 2 =>
                     \E m \in Nat : z.frac = m * 2^(RegimeOf(F, z.scale) + F.es)
<1> DEFINE x == F.x
           es == F.es
           p == 2 * F.n - 2
           y == F.n - 1
           A == Scan(F, d * Ulp(F))
           B == Scan(F, e * Ulp(F))
           a == Value(x, es, d)
           b == Value(x, es, e)
           s == Scale(F, A)
           t == Scale(F, B)
           f == s - a.pow
           g == t - b.pow
           scale == s + t
           frac == A.frac * B.frac
           z == Normal(F, scale, frac)
           v == Times(a, b)
<1>1. /\ Stands(a, y, s, A.frac) /\ A.k \in Int /\ A.exp \in 0 .. 2^es - 1
      /\ f \in 0 .. x - 2 /\ FractionBits(F, f, A.k)
  BY ScanStands, Zenon
<1>2. /\ Stands(b, y, t, B.frac) /\ B.k \in Int /\ B.exp \in 0 .. 2^es - 1
      /\ g \in 0 .. x - 2 /\ FractionBits(F, g, B.k)
  BY ScanStands, Zenon
<1>3. Product(F, d * Ulp(F), e * Ulp(F)) = z
  BY DEF Product, ProductOf
<1>4. v.num = a.num * b.num /\ v.pow = a.pow + b.pow
  BY DEF Times
<1>5. s = A.k * 2^es + A.exp /\ t = B.k * 2^es + B.exp
  BY DEF Scale
<1> HIDE DEF A, B, a, b, s, t
<1>6. /\ s \in Int /\ a.num \in Nat /\ a.pow \in Int /\ A.frac = a.num * 2^(y - f) /\ Significand(y, A.frac)
      /\ t \in Int /\ b.num \in Nat /\ b.pow \in Int /\ B.frac = b.num * 2^(y - g) /\ Significand(y, B.frac)
  BY <1>1, <1>2, Zenon DEF Stands
<1>7. /\ x \in Nat /\ x >= 2 /\ F.n \in Nat /\ F.n >= 3 /\ x <= F.n /\ es \in 0 .. 2 /\ p \in Nat /\ y \in Nat
      /\ F.n >= es + 3
  BY DEF IsFormat
<1>8. f \in Nat /\ g \in Nat /\ y - f \in Nat /\ y - g \in Nat /\ (y - f) + (y - g) = p - (f + g)
      /\ f + g <= 2 * F.n - 3 /\ p - (f + g) \in Nat
  <2> HIDE DEF f, g
  <2> QED
    BY <1>1, <1>2, <1>7
<1>9. v.num \in Nat /\ v.pow \in Int /\ scale \in Int /\ scale - v.pow = f + g
  <2> HIDE DEF v
  <2> QED
    BY <1>4, <1>6
<1>10. frac = v.num * 2^(p - (scale - v.pow))
  <2> DEFINE C == 2^(y - f)
             D == 2^(y - g)
  <2>1. 2^(p - (f + g)) = C * D /\ C \in Nat /\ D \in Nat
    <3> DEFINE i == y - f
               j == y - g
    <3>1. i \in Nat /\ j \in Nat /\ p - (f + g) = i + j
      BY <1>8
    <3> HIDE DEF i, j
    <3>2. 2^(i + j) = 2^i * 2^j /\ 2^i \in Nat /\ 2^j \in Nat
      BY <3>1, PowerSum, PowerType
    <3>3. 2^(p - (f + g)) = 2^(i + j)
      BY <3>1
    <3> QED
      BY <3>2, <3>3 DEF i, j
  <2> HIDE DEF C, D
  <2>2. frac = (a.num * C) * (b.num * D)
    BY <1>6 DEF C, D
  <2>3. (a.num * C) * (b.num * D) = (a.num * b.num) * (C * D)
    <3> DEFINE i == a.num
               j == b.num
    <3> HIDE DEF i, j
    <3>1. i \in Nat /\ j \in Nat
      BY <1>6 DEF i, j
    <3>2. (i * C) * (j * D) = (i * j) * (C * D)
      BY <2>1, <3>1
    <3> QED
      BY <3>2 DEF i, j
  <2>4. 2^(p - (scale - v.pow)) = C * D
    BY <1>9, <2>1
  <2> HIDE DEF v, frac
  <2> QED
    BY <1>4, <2>2, <2>3, <2>4
<1> DEFINE c == 2^y
<1>11. c \in Nat /\ c >= 4 /\ 2^p = c * c /\ 2^(2 * F.n) = 4 * (c * c)
  BY WideSizes
<1>12. frac \in c * c .. 4 * (c * c) - 1 /\ frac \in Nat
  <2>1. A.frac \in c .. 2 * c - 1 /\ B.frac \in c .. 2 * c - 1
    BY <1>6 DEF Significand
  <2> HIDE DEF c
  <2> QED
    BY <1>11, <2>1, SignificandProduct
<1> DEFINE P == c * c
<1>13. P \in Nat /\ P >= 1 /\ 2^p = P /\ 2^(2 * F.n) = 4 * P /\ frac \in P .. 4 * P - 1
  <2>1. 2^p >= 1
    BY <1>7, PowerType
  <2> HIDE DEF c
  <2> QED
    BY <1>11, <1>12, <2>1
<1> HIDE DEF c, P, z, v, frac, f, g, scale
<1>14. frac \in 1 .. 2^(2 * F.n) - 1 /\ frac \in Nat
  BY <1>13
<1>15. /\ Stands(v, p, z.scale, z.frac)
       /\ z.frac = v.num * 2^(p - (z.scale - v.pow))
       /\ z.scale - v.pow \in 0 .. p
       /\ z.scale \in Int /\ z.scale <= scale + 1
  <2>1. scale - v.pow <= 2 * F.n - 3
    BY <1>8, <1>9
  <2> QED
    BY <1>9, <1>10, <1>14, <2>1, NormalStands DEF z
<1>16. scale <= z.scale
  <2>1. IF frac >= 2^(2 * F.n - 1)
        THEN z.scale = scale + 1 /\ z.frac = frac \div 2
        ELSE scale - z.scale \in Nat /\ z.frac = frac * 2^(scale - z.scale)
    BY <1>9, <1>14, NormalShape DEF z
  <2>2. CASE frac >= 2^(2 * F.n - 1)
    BY <1>9, <2>1, <2>2
  <2>3. CASE ~ (frac >= 2^(2 * F.n - 1))
    <3> DEFINE i == scale - z.scale
               I == 2^i
    <3>1. i \in Nat /\ z.frac = frac * I
      BY <2>1, <2>3
    <3>2. z.frac < 2 * P
      BY <1>13, <1>15 DEF Stands, Significand
    <3>3. i = 0
      <4> SUFFICES ASSUME i # 0 PROVE FALSE
        OBVIOUS
      <4> HIDE DEF i
      <4>1. i >= 1 /\ i \in Nat
        BY <3>1
      <4>2. I >= 2 /\ I \in Nat
        BY <4>1, PowerBelow
      <4> HIDE DEF I
      <4>3. 2 * frac <= I * frac
        BY <1>14, <1>13, <4>2, ScaledOrder
      <4>4. I * frac = frac * I
        BY <1>14, <4>2
      <4>5. frac * I \in Int
        BY <1>14, <4>2
      <4> QED
        BY <1>13, <3>1, <3>2, <4>3, <4>4, <4>5
    <3> QED
      BY <1>9, <1>15, <3>3
  <2> QED
    BY <2>2, <2>3
<1>17. ASSUME RegimeOf(F, z.scale) <= x - 2
       PROVE  \E m \in Nat : z.frac = m * 2^(RegimeOf(F, z.scale) + es)
  <2> DEFINE S == 2^es
             q == z.scale \div S
             r == z.scale % S
             reg == RegimeLength(q)
  <2>1. S \in {1, 2, 4} /\ S \in Nat /\ S > 0
    BY <1>7, SmallPowers
  <2>2. q \in Int /\ r \in 0 .. S - 1 /\ z.scale = S * q + r
    <3> HIDE DEF S
    <3> QED
      BY <1>15, <2>1, Division
  <2>3. RegimeOf(F, z.scale) = reg /\ reg <= x - 2
    BY <1>17 DEF RegimeOf
  <2>4. reg \in Nat
    <3> HIDE DEF q
    <3> QED
      BY <2>2 DEF RegimeLength
  <2>5. reg <= RegimeLength(A.k) + RegimeLength(B.k) + 1
    <3> HIDE DEF S, q, r
    <3>1. /\ A.k * S + A.exp + (B.k * S + B.exp) <= S * q + r
          /\ S * q + r <= A.k * S + A.exp + (B.k * S + B.exp) + 1
      BY <1>5, <1>15, <1>16, <2>2 DEF S, scale
    <3> QED
      BY <1>1, <1>2, <2>1, <2>2, <3>1, RegimeOfProduct DEF S
  <2> HIDE DEF reg
  <2>6. f + g + 1 + (reg + es) <= p
    BY <1>1, <1>2, <2>3, <2>4, <2>5, RoomOfProduct
  <2>7. p - (z.scale - v.pow) >= reg + es /\ p - (z.scale - v.pow) \in Int /\ reg + es \in Nat
    <3>1. z.scale - v.pow <= f + g + 1
      BY <1>9, <1>15
    <3> QED
      BY <1>7, <1>8, <1>9, <1>15, <2>4, <2>6, <3>1
  <2>8. \E m \in Nat : v.num * 2^(p - (z.scale - v.pow)) = m * 2^(reg + es)
    BY <1>9, <2>7, ZerosBehind
  <2> QED
    BY <1>15, <2>3, <2>8
<1> QED
  BY <1>3, <1>15, <1>17 DEF z, v, p, x, es, a, b

\* One exponent bit that is cut off is the rounding bit; there is none below it.
LEMMA NoExpSticky ==
    ASSUME NEW F, IsFormat(F), F.es <= 1, NEW scale, RegimeOf(F, scale) \in Int,
           RegimeOf(F, scale) <= F.x - 2
    PROVE  ~ ExpSticky(F, scale)
<1> DEFINE reg == RegimeOf(F, scale)
           lost == LostExpBits(F, reg)
<1>1. lost = (IF F.x - 2 - reg >= F.es THEN 0 ELSE F.es - (F.x - 2 - reg))
  BY DEF LostExpBits
<1>2. F.x \in Nat /\ F.es \in Nat
  BY DEF IsFormat
<1>3. ExpSticky(F, scale) => lost > 1
  BY DEF ExpSticky
<1> HIDE DEF lost, reg
<1>4. ~ (lost > 1)
  BY <1>1, <1>2 DEF reg
<1> QED
  BY <1>3, <1>4

\* The formats of products that take all that is cut off into account: the others are
\* posit32 and posit_2 at its full width.
Keeps(F) == F.es = 2 => F.px /\ F.x # F.n

\* The end of a function on a number whose rounding is known to be right.
LEMMA RoundStickyRounds ==
    ASSUME NEW F, IsFormat(F), ~ (F.px /\ F.x = F.n /\ F.es = 2),
           NEW z, z.scale \in Int, Significand(2 * F.n - 2, z.frac),
           RegimeOf(F, z.scale) <= F.x - 2 =>
               \E m \in Nat : z.frac = m * 2^(RegimeOf(F, z.scale) + F.es),
           NEW more, NEW rest \in BOOLEAN,
           RegimeOf(F, z.scale) <= F.x - 2 =>
               (FracSticky(F, z.scale, z.frac) \/ more
                   <=> FracSticky(F, z.scale, z.frac) \/ ExpSticky(F, z.scale) \/ rest)
    PROVE  \E t : /\ RoundSticky(F, z, more) = t * Ulp(F)
                  /\ RoundsHeight(F, t, Height(2 * F.n - 2, z.scale, z.frac), rest)
<1> DEFINE sticky == FracSticky(F, z.scale, z.frac) \/ more
           h == Height(2 * F.n - 2, z.scale, z.frac)
<1>1. RoundSticky(F, z, more) = Round(F, z.scale, z.frac, sticky)
  BY DEF RoundSticky
<1>2. RegimeOf(F, z.scale) \in Int
  <2> DEFINE S == 2^F.es
             k == z.scale \div S
  <2>1. S \in Nat /\ S > 0
    BY PowerType DEF IsFormat
  <2> HIDE DEF S
  <2>2. k \in Int
    BY <2>1, Division
  <2> HIDE DEF k
  <2> QED
    BY <2>2 DEF RegimeOf, RegimeLength, k, S
<1>3. F.x \in Int
  BY DEF IsFormat
<1>4. CASE RegimeOf(F, z.scale) > F.x - 2
  <2> HIDE DEF sticky
  <2>1. \E t : Round(F, z.scale, z.frac, sticky) = t * Ulp(F) /\ RoundsHeight(F, t, h, rest)
    BY <1>4, RoundsBeyond
  <2> QED
    BY <1>1, <2>1
<1>5. CASE RegimeOf(F, z.scale) <= F.x - 2
  <2>1. PICK m \in Nat : z.frac = m * 2^(RegimeOf(F, z.scale) + F.es)
    BY <1>5
  <2>2. FracSticky(F, z.scale, z.frac) \/ ExpSticky(F, z.scale) <=> CutBelow(F, z.scale, z.frac) # 0
    BY <1>5, <2>1, StickyIs
  <2>3. sticky <=> CutBelow(F, z.scale, z.frac) # 0 \/ rest
    BY <1>5, <2>2
  <2>4. sticky \in BOOLEAN
    OBVIOUS
  <2>5. ~ Misplaced(F, RegimeOf(F, z.scale))
    BY DEF Misplaced
  <2> HIDE DEF sticky
  <2>6. \E t : Round(F, z.scale, z.frac, sticky) = t * Ulp(F) /\ RoundsHeight(F, t, h, rest)
    BY <1>5, <2>3, <2>4, <2>5, RoundsInRegime
  <2> QED
    BY <1>1, <2>6
<1> QED
  BY <1>2, <1>3, <1>4, <1>5

\* The product of two numbers is the exact one, rounded once.
LEMMA MulRounds ==
    ASSUME NEW F, IsFormat(F), Keeps(F), NEW a, NEW b, Numeric(F, a), Numeric(F, b)
    PROVE  RoundsTo(F, Mul(F, a, b), SignDiffers(F, a, b), Times(Number(F, a), Number(F, b)), Unity)
<1> DEFINE d == Digits(F, a)
           e == Digits(F, b)
           neg == SignDiffers(F, a, b)
           v == Times(Value(F.x, F.es, d), Value(F.x, F.es, e))
           z == Product(F, d * Ulp(F), e * Ulp(F))
           h == Height(2 * F.n - 2, z.scale, z.frac)
           more == F.px /\ ExpSticky(F, z.scale)
<1>1. /\ d \in 1 .. 2^(F.x - 1) - 1 /\ Magnitude(F, a) = d * Ulp(F)
      /\ e \in 1 .. 2^(F.x - 1) - 1 /\ Magnitude(F, b) = e * Ulp(F)
  BY DigitsOf
<1>2. neg \in BOOLEAN
  BY DEF SignDiffers
<1>3. Mul(F, a, b) = Signed(F, neg, RoundSticky(F, z, more))
  BY <1>1 DEF Mul, Numeric, RoundProduct
<1>4. Times(Number(F, a), Number(F, b)) = v
  BY DEF Number
<1> HIDE DEF d, e, neg
<1>5. /\ z.scale \in Int /\ Stands(v, 2 * F.n - 2, z.scale, z.frac)
      /\ RegimeOf(F, z.scale) <= F.x - 2 =>
            \E m \in Nat : z.frac = m * 2^(RegimeOf(F, z.scale) + F.es)
  BY <1>1, ProductStands, Zenon
<1> HIDE DEF z, v
<1>6. Significand(2 * F.n - 2, z.frac)
  BY <1>5 DEF Stands
<1>7. ASSUME RegimeOf(F, z.scale) <= F.x - 2 PROVE more <=> ExpSticky(F, z.scale)
  <2>1. CASE F.px
    BY <2>1
  <2>2. CASE ~ F.px
    <3>1. F.es <= 1
      BY <2>2 DEF Keeps, IsFormat
    <3>2. RegimeOf(F, z.scale) \in Int
      <4> DEFINE S == 2^F.es
                 k == z.scale \div S
      <4>1. S \in Nat /\ S > 0
        BY PowerType DEF IsFormat
      <4> HIDE DEF S
      <4>2. k \in Int
        BY <1>5, <4>1, Division
      <4> HIDE DEF k
      <4> QED
        BY <4>2 DEF RegimeOf, RegimeLength, k, S
    <3>3. ~ ExpSticky(F, z.scale)
      BY <1>7, <3>1, <3>2, NoExpSticky
    <3> QED
      BY <2>2, <3>3
  <2> QED
    BY <2>1, <2>2
<1>8. ~ (F.px /\ F.x = F.n /\ F.es = 2)
  BY DEF Keeps
<1>9. RegimeOf(F, z.scale) <= F.x - 2 =>
        (FracSticky(F, z.scale, z.frac) \/ more
            <=> FracSticky(F, z.scale, z.frac) \/ ExpSticky(F, z.scale) \/ FALSE)
  BY <1>7
<1>10. \E t : RoundSticky(F, z, more) = t * Ulp(F) /\ RoundsHeight(F, t, h, FALSE)
  BY <1>5, <1>6, <1>8, <1>9, RoundStickyRounds
<1>11. PICK t : RoundSticky(F, z, more) = t * Ulp(F) /\ RoundsHeight(F, t, h, FALSE)
  BY <1>10
<1>12. Compares(F, v, Unity, h, FALSE)
  BY <1>5, ComparesNumber
<1> HIDE DEF h, more
<1>13. RoundsTo(F, Signed(F, neg, t * Ulp(F)), neg, v, Unity)
  BY <1>2, <1>11, <1>12, RoundsToNumber
<1> QED
  BY <1>3, <1>4, <1>11, <1>13 DEF neg, h, more

-----------------------------------------------------------------------------
(* Comparison in units of a power of two.                                  *)

\* A number whose last bit is not below the unit 2^m, in units.
InUnits(v, m) == v.num * 2^(v.pow - m)

IsPositive(v) == v.num \in Nat /\ v.num >= 1 /\ v.pow \in Int

LEMMA UnitsStand ==
    ASSUME NEW v, IsPositive(v), NEW m \in Int, m <= v.pow
    PROVE  \E s \in Int :
              /\ s >= m /\ InUnits(v, m) \in Nat
              /\ 2^(s - m) <= InUnits(v, m) /\ InUnits(v, m) < 2^(s - m + 1)
              /\ \A p \in Nat : p >= s - m =>
                    \E g : Stands(v, p, s, g) /\ g = InUnits(v, m) * 2^(p - (s - m))
<1> DEFINE n == v.num
           c == v.pow - m
           C == 2^c
           N == n * C
<1>1. n \in Nat /\ n >= 1 /\ v.pow \in Int /\ c \in Nat /\ n < 2^(n + 1) /\ InUnits(v, m) = N
  <2>1. n \in Nat /\ n >= 1 /\ v.pow \in Int
    BY DEF IsPositive
  <2> HIDE DEF n
  <2>2. 2^(n + 1) > n + 1 /\ 2^(n + 1) \in Nat
    BY <2>1, PowerExceeds
  <2>3. n < 2^(n + 1)
    BY <2>1, <2>2
  <2> QED
    BY <2>1, <2>3 DEF InUnits, n
<1>2. PICK f \in 0 .. n : 2^f <= n /\ n < 2^(f + 1)
  <2> HIDE DEF n
  <2> QED
    BY <1>1, LeadingPower
<1> HIDE DEF n, c
<1> DEFINE s == v.pow + f
           S == 2^f
<1>3. f \in Nat /\ s \in Int /\ s - m = f + c /\ s >= m /\ s - v.pow = f /\ s - m \in Nat
  <2> DEFINE y == v.pow
  <2>1. y \in Int /\ m \in Int /\ c = y - m /\ s = y + f /\ m <= y /\ f \in Nat
    BY <1>1, <1>2 DEF c
  <2> HIDE DEF y, s
  <2>2. f \in Nat /\ s \in Int /\ s - m = f + c /\ s >= m /\ s - y = f /\ s - m \in Nat
    BY <2>1
  <2> QED
    BY <2>2 DEF y
<1>4. S \in Nat /\ C \in Nat /\ C > 0 /\ 2^(f + c) = S * C /\ 2^(f + 1) = 2 * S /\ 2^(f + c + 1) = 2 * (S * C)
  <2>1. 2^(f + c) = S * C /\ S \in Nat /\ C \in Nat /\ C > 0
    <3>1. f \in Nat /\ c \in Nat
      BY <1>1, <1>3
    <3> HIDE DEF s, N
    <3>2. 2^(f + c) = 2^f * 2^c /\ 2^f \in Nat /\ 2^c \in Nat /\ 2^c > 0
      BY <3>1, PowerSum, PowerType
    <3> QED
      BY <3>2
  <2>2. 2^((f + c) + 1) = 2 * 2^(f + c) /\ 2^(f + 1) = 2 * S
    BY <1>1, <1>3, PowerStep
  <2> QED
    BY <2>1, <2>2
<1>5. N \in Nat /\ S * C <= N /\ N < 2 * (S * C)
  <2> HIDE DEF S, C
  <2>1. S * C <= n * C <=> S <= n
    BY <1>1, <1>4, ScaledOrder
  <2>2. n * C < (2 * S) * C <=> n < 2 * S
    BY <1>1, <1>4, ScaledOrder
  <2>3. (2 * S) * C = 2 * (S * C) /\ n * C \in Nat
    BY <1>1, <1>4
  <2>4. S <= n /\ n < 2 * S
    BY <1>2, <1>4 DEF S
  <2> QED
    BY <2>1, <2>2, <2>3, <2>4
<1> HIDE DEF N, S, C, s
<1>6. 2^(s - m) <= N /\ N < 2^(s - m + 1)
  BY <1>3, <1>4, <1>5
<1>7. ASSUME NEW p \in Nat, p >= s - m
      PROVE  \E g : Stands(v, p, s, g) /\ g = N * 2^(p - (s - m))
  <2> DEFINE D == 2^(p - (s - m))
             g == N * D
  <2>1. p - (s - m) \in Nat /\ c + (p - (s - m)) = p - f /\ f + (p - f) = p /\ p - f \in Nat /\ f \in 0 .. p
    BY <1>1, <1>3, <1>7
  <2>2. D \in Nat /\ 2^(p - f) = C * D
    <3> DEFINE i == p - (s - m)
    <3>1. i \in Nat /\ c + i = p - f
      BY <2>1
    <3> HIDE DEF i
    <3>2. 2^(c + i) = 2^c * 2^i /\ 2^i \in Nat
      BY <1>1, <3>1, PowerSum, PowerType
    <3>3. 2^(c + i) = 2^(p - f)
      BY <3>1
    <3> QED
      BY <3>2, <3>3 DEF i, C
  <2>3. g = n * 2^(p - f)
    <3> HIDE DEF D
    <3>1. (n * C) * D = n * (C * D)
      BY <1>1, <1>4, <2>2
    <3> QED
      BY <2>2, <3>1 DEF N
  <2> DEFINE E == 2^(p - f)
  <2>4. E \in Nat /\ E > 0 /\ 2^p = S * E
    <3> DEFINE i == p - f
    <3>1. i \in Nat /\ f + i = p
      BY <2>1
    <3> HIDE DEF i
    <3>2. 2^(f + i) = 2^f * 2^i /\ 2^i \in Nat /\ 2^i > 0
      BY <1>3, <3>1, PowerSum, PowerType
    <3> QED
      BY <3>1, <3>2 DEF i, S
  <2> HIDE DEF g, D, E
  <2>5. S <= n /\ n < 2 * S
    BY <1>2, <1>4 DEF S
  <2>6. g \in 2^p .. 2 * 2^p - 1
    <3>1. S * E <= n * E <=> S <= n
      BY <1>1, <1>4, <2>4, ScaledOrder
    <3>2. n * E < (2 * S) * E <=> n < 2 * S
      BY <1>1, <1>4, <2>4, ScaledOrder
    <3>3. (2 * S) * E = 2 * (S * E) /\ n * E \in Nat /\ S * E \in Nat
      BY <1>1, <1>4, <2>4
    <3>4. g = n * E
      BY <2>3 DEF E
    <3> QED
      BY <2>4, <2>5, <3>1, <3>2, <3>3, <3>4
  <2>7. n \in S .. 2 * S - 1
    BY <1>1, <1>4, <2>5
  <2>8. Stands(v, p, s, g)
    <3>1. v.num = n
      BY DEF n
    <3> QED
      BY <1>1, <1>3, <2>1, <2>3, <2>6, <2>7, <3>1 DEF Stands, Significand, S
  <2>9. g = N * 2^(p - (s - m))
    BY DEF g, D
  <2> QED
    BY <2>8, <2>9
<1> QED
  BY <1>1, <1>3, <1>5, <1>6, <1>7

LEMMA UnitsCompare ==
    ASSUME NEW v, IsPositive(v), NEW w, IsPositive(w), NEW m \in Int, m <= v.pow, m <= w.pow
    PROVE  /\ Less(v, w) <=> InUnits(v, m) < InUnits(w, m)
           /\ Same(v, w) <=> InUnits(v, m) = InUnits(w, m)
           /\ InUnits(v, m) \in Nat /\ InUnits(w, m) \in Nat
<1> DEFINE a == InUnits(v, m)
           b == InUnits(w, m)
<1>1. PICK s \in Int :
         /\ s >= m /\ a \in Nat
         /\ 2^(s - m) <= a /\ a < 2^(s - m + 1)
         /\ \A p \in Nat : p >= s - m => \E g : Stands(v, p, s, g) /\ g = a * 2^(p - (s - m))
  BY UnitsStand
<1>2. PICK t \in Int :
         /\ t >= m /\ b \in Nat
         /\ 2^(t - m) <= b /\ b < 2^(t - m + 1)
         /\ \A p \in Nat : p >= t - m => \E g : Stands(w, p, t, g) /\ g = b * 2^(p - (t - m))
  BY UnitsStand
<1> DEFINE i == s - m
           j == t - m
           p == i + j
<1>3. i \in Nat /\ j \in Nat /\ p \in Nat /\ p >= i /\ p >= j /\ (s < t <=> i < j) /\ (s = t <=> i = j)
  BY <1>1, <1>2
<1> HIDE DEF a, b
<1>4. PICK g : Stands(v, p, s, g) /\ g = a * 2^(p - i)
  BY <1>1, <1>3
<1>5. PICK h : Stands(w, p, t, h) /\ h = b * 2^(p - j)
  BY <1>2, <1>3
<1> HIDE DEF p
<1>6. /\ Less(v, w) <=> Height(p, s, g) < Height(p, t, h)
      /\ Same(v, w) <=> Height(p, s, g) = Height(p, t, h)
  BY <1>3, <1>4, <1>5, LessIs
<1>7. Significand(p, g) /\ Significand(p, h)
  BY <1>4, <1>5 DEF Stands
<1>8. /\ Height(p, s, g) < Height(p, t, h) <=> s < t \/ (s = t /\ g < h)
      /\ Height(p, s, g) = Height(p, t, h) <=> s = t /\ g = h
  BY <1>1, <1>2, <1>3, <1>7, HeightOrder
<1>9. 2^i <= a /\ a < 2^(i + 1) /\ 2^j <= b /\ b < 2^(j + 1)
  BY <1>1, <1>2
<1> HIDE DEF i, j
<1>10. 2^i \in Nat /\ 2^j \in Nat /\ 2^(i + 1) \in Nat /\ 2^(j + 1) \in Nat
  BY <1>3, PowerType
<1>11. ASSUME i < j PROVE a < b
  <2>1. 2^(i + 1) <= 2^j
    BY <1>3, <1>11, PowerMonotone
  <2> QED
    BY <1>1, <1>2, <1>9, <1>10, <2>1
<1>12. ASSUME j < i PROVE b < a
  <2>1. 2^(j + 1) <= 2^i
    BY <1>3, <1>12, PowerMonotone
  <2> QED
    BY <1>1, <1>2, <1>9, <1>10, <2>1
<1>13. ASSUME i = j PROVE (g < h <=> a < b) /\ (g = h <=> a = b)
  <2> DEFINE D == 2^(p - i)
  <2>1. p - i \in Nat
    BY <1>3
  <2>2. D \in Nat /\ D > 0
    BY <2>1, PowerType
  <2>3. g = a * D /\ h = b * D
    BY <1>4, <1>5, <1>13
  <2> HIDE DEF D
  <2>4. (a * D < b * D <=> a < b) /\ (a * D = b * D <=> a = b)
    BY <1>1, <1>2, <2>2, ScaledOrder
  <2> QED
    BY <2>3, <2>4
<1>14. (Less(v, w) <=> a < b) /\ (Same(v, w) <=> a = b)
  <2>1. CASE i = j
    BY <1>3, <1>6, <1>8, <1>13, <2>1
  <2>2. CASE i < j
    BY <1>1, <1>2, <1>3, <1>6, <1>8, <1>11, <2>2
  <2>3. CASE j < i
    BY <1>1, <1>2, <1>3, <1>6, <1>8, <1>12, <2>3
  <2> QED
    BY <1>3, <2>1, <2>2, <2>3
<1> QED
  BY <1>1, <1>2, <1>14 DEF a, b

-----------------------------------------------------------------------------
(* Quotients.                                                              *)

\* A number of units against a quotient with its remainder, in units K of the former.
LEMMA QuotientCompares ==
    ASSUME NEW X \in Nat, NEW q \in Nat, NEW K \in Nat, K >= 1, NEW g \in Nat, g >= 1,
           NEW r \in 0 .. g - 1, X <= q * K \/ X >= q * K + K
    PROVE  LET Y == q * K IN
           /\ X * g < (g * q + r) * K <=> X < Y \/ (X = Y /\ r # 0)
           /\ X * g = (g * q + r) * K <=> X = Y /\ r = 0
           /\ (g * q + r) * K < X * g <=> Y < X
<1> DEFINE Y == q * K
           R == (g * q + r) * K
           s == r * K
           Z == Y + K
<1>1. Y \in Nat /\ s \in Nat /\ r \in Nat /\ R = Y * g + s /\ Z \in Nat /\ R \in Nat /\ X * g \in Nat /\ Y * g \in Nat
  <2>1. Y \in Nat /\ r \in Nat
    OBVIOUS
  <2>2. s \in Nat
    BY <2>1
  <2>3. (g * q + r) * K = (q * K) * g + r * K
    BY <2>1
  <2> QED
    BY <2>1, <2>2, <2>3
<1>2. s < K * g /\ (r = 0 => s = 0) /\ (r # 0 => s > 0) /\ K * g \in Nat
  <2>1. r * K < g * K
    BY <1>1, ScaledOrder
  <2>2. 0 < r => 0 * K < r * K
    BY <1>1, ScaledOrder
  <2>3. K * g = g * K /\ K * g \in Nat /\ 0 * K = 0
    OBVIOUS
  <2>4. r = 0 => s = 0
    BY <2>3
  <2>5. r # 0 => s > 0
    BY <1>1, <2>2, <2>3
  <2> QED
    BY <2>1, <2>3, <2>4, <2>5
<1>3. Z * g = Y * g + K * g
  BY <1>1
<1>4. X <= Y \/ Z <= X
  OBVIOUS
<1> HIDE DEF Y, R, s, Z
<1>5. (X * g < Y * g <=> X < Y) /\ (X * g = Y * g <=> X = Y) /\ (Z * g <= X * g <=> Z <= X)
  BY <1>1, ScaledOrder
<1>6. Z = Y + K
  BY DEF Z
<1> DEFINE A == X * g
           B == Y * g
           C == K * g
           D == Z * g
<1>7. A \in Nat /\ B \in Nat /\ C \in Nat /\ D = B + C /\ R = B + s /\ s < C /\ s \in Nat
      /\ (A < B <=> X < Y) /\ (A = B <=> X = Y) /\ (D <= A <=> Z <= X)
  BY <1>1, <1>2, <1>3, <1>5
<1> HIDE DEF A, B, C, D
<1>8. (A < R <=> X < Y \/ (X = Y /\ r # 0)) /\ (A = R <=> X = Y /\ r = 0) /\ (R < A <=> Y < X)
  <2>1. CASE X < Y
    BY <1>1, <1>7, <2>1
  <2>2. CASE X = Y
    BY <1>1, <1>2, <1>7, <2>2
  <2>3. CASE Z <= X
    BY <1>1, <1>6, <1>7, <2>3
  <2> QED
    BY <1>1, <1>4, <2>1, <2>2, <2>3
<1> QED
  BY <1>8 DEF Y, R, A

\* The digits of a word are no more than its exponent leaves.
LEMMA DigitsOfValue ==
    ASSUME NEW w \in Nat, w >= 3, NEW es \in Nat, NEW u, NEW k, NEW j, Shaped(w, u, k, j),
           NEW h \in Nat, h >= 1, h >= w - 2 - es
    PROVE  /\ IsPositive(Value(w, es, u)) /\ Value(w, es, u).num < 2^h
<1> DEFINE v == Value(w, es, u)
           l == BitsLeft(w, k)
           f == IF es >= l THEN 0 ELSE l - es
<1>1. k \in -(w - 2) .. w - 2
  BY DEF Shaped
<1>2. l \in 0 .. w - 3
  BY <1>1 DEF BitsLeft
<1>3. PICK s, g : Stands(v, w, s, g)
  <2>1. w >= w - 2 /\ w >= 2
    OBVIOUS
  <2> QED
    BY <2>1, ValueStands
<1>4. s - v.pow = f
  <2>1. w >= 2
    OBVIOUS
  <2> QED
    BY <1>3, <2>1, FractionOf
<1> HIDE DEF v, l
<1>5. f \in Nat /\ f + 1 <= h
  BY <1>2
<1> HIDE DEF f
<1>6. v.num \in Nat /\ v.pow \in Int /\ v.num \in 2^f .. 2 * 2^f - 1
  BY <1>3, <1>4 DEF Stands
<1>7. 2^f \in Nat /\ 2^f >= 1 /\ 2^(f + 1) = 2 * 2^f /\ 2^(f + 1) <= 2^h /\ 2^h \in Nat
  BY <1>5, PowerType, PowerStep, PowerMonotone
<1> QED
  BY <1>6, <1>7 DEF IsPositive, v

\* The quotient of two significands, in digits.
LEMMA QuotientDigits ==
    ASSUME NEW c \in Nat, c >= 1, NEW f \in c .. 2 * c - 1, NEW g \in c .. 2 * c - 1,
           NEW h \in Nat, h >= 1
    PROVE  LET q == (f * 2^h) \div g IN
           /\ q \in 2^(h - 1) .. 2^(h + 1) - 1
           /\ f * 2^h = g * q + ((f * 2^h) % g)
           /\ (f * 2^h) % g \in 0 .. g - 1
<1> DEFINE H == 2^h
           B == 2^(h - 1)
           y == f * H
           q == y \div g
           r == y % g
<1>1. H \in Nat /\ B \in Nat /\ B >= 1 /\ H = 2 * B /\ 2^(h + 1) = 2 * H
  <2>1. h - 1 \in Nat /\ (h - 1) + 1 = h
    OBVIOUS
  <2>2. 2^((h - 1) + 1) = 2 * 2^(h - 1) /\ 2^(h - 1) \in Nat /\ 2^(h - 1) >= 1
    BY <2>1, PowerStep, PowerType
  <2>3. 2^(h + 1) = 2 * 2^h
    BY PowerStep
  <2> QED
    BY <2>1, <2>2, <2>3
<1> HIDE DEF H, B
<1>2. f \in Nat /\ g \in Nat /\ g > 0 /\ y \in Nat
  BY <1>1
<1>3. q \in Int /\ r \in 0 .. g - 1 /\ y = g * q + r
  <2> HIDE DEF y
  <2> QED
    BY <1>2, Division
<1>4. q \in 1 .. 2 * H - 1
  BY <1>1, QuotientRange
<1>5. q >= B
  <2>1. SUFFICES ASSUME q < B PROVE FALSE
    BY <1>1, <1>3
  <2>2. g * q + r < g * (q + 1)
    BY <1>2, <1>3
  <2>3. (q + 1) * g <= B * g
    BY <1>1, <1>2, <1>3, <2>1, ScaledOrder
  <2>4. B * g < B * (2 * c)
    <3>1. g * B < (2 * c) * B
      BY <1>1, <1>2, ScaledOrder
    <3> QED
      BY <1>1, <1>2, <3>1
  <2>5. B * (2 * c) = c * H
    BY <1>1
  <2>6. c * H <= f * H
    BY <1>1, <1>2, ScaledOrder
  <2>7. (q + 1) * g = g * (q + 1) /\ g * (q + 1) \in Int /\ B * g \in Int /\ c * H \in Int
    BY <1>1, <1>2, <1>3
  <2> DEFINE e == (q + 1) * g
             i == B * g
             k == c * H
  <2>8. e \in Int /\ i \in Int /\ k \in Int /\ y < e /\ e <= i /\ i < k /\ k <= y
    BY <1>3, <2>2, <2>3, <2>4, <2>5, <2>6, <2>7
  <2> HIDE DEF e, i, k, y
  <2> QED
    BY <1>2, <2>8
<1> HIDE DEF q, r
<1>6. q \in B .. 2 * H - 1
  BY <1>1, <1>3, <1>4, <1>5
<1>7. q \in B .. 2^(h + 1) - 1
  BY <1>1, <1>6
<1> QED
  BY <1>3, <1>7, Zenon DEF H, B, q, r, y


\* A scanned word, its significand as the digits of an integer.
LEMMA ScanDigits ==
    ASSUME NEW F, IsFormat(F), NEW d \in 1 .. 2^(F.x - 1) - 1
    PROVE  LET s == Scan(F, d * Ulp(F))
               v == Value(F.x, F.es, d)
           IN  /\ IsPositive(v) /\ Scale(F, s) \in Int /\ Scale(F, s) - (F.n - 1) <= v.pow
               /\ s.frac = InUnits(v, Scale(F, s) - (F.n - 1))
               /\ s.frac \in 2^(F.n - 1) .. 2 * 2^(F.n - 1) - 1
<1> DEFINE s == Scan(F, d * Ulp(F))
           v == Value(F.x, F.es, d)
           e == Scale(F, s)
           p == F.n - 1
           b == v.pow
<1>1. Stands(v, p, e, s.frac)
  BY ScanStands
<1>2. p \in Nat
  BY DEF IsFormat
<1> HIDE DEF v, s, e, p
<1>3. /\ e \in Int /\ s.frac \in 2^p .. 2 * 2^p - 1 /\ v.num \in Nat /\ b \in Int
      /\ e - b \in 0 .. p /\ v.num \in 2^(e - b) .. 2 * 2^(e - b) - 1
      /\ s.frac = v.num * 2^(p - (e - b))
  BY <1>1 DEF Stands, Significand
<1>4. v.num >= 1
  BY <1>1, <1>2, SizeIs
<1> DEFINE i == p - (e - b)
           j == b - (e - p)
<1>5. i = j /\ e - p <= b
  <2> HIDE DEF b
  <2> QED
    BY <1>2, <1>3
<1>6. s.frac = InUnits(v, e - p)
  <2>1. s.frac = v.num * 2^j
    <3> HIDE DEF b
    <3>1. s.frac = v.num * 2^i
      BY <1>3
    <3> HIDE DEF i, j
    <3> QED
      BY <1>5, <3>1
  <2> QED
    BY <2>1 DEF InUnits
<1>7. IsPositive(v)
  BY <1>3, <1>4 DEF IsPositive
<1> QED
  BY <1>3, <1>5, <1>6, <1>7 DEF v, s, e, p

LEMMA RegimeNatural ==
    ASSUME NEW F, IsFormat(F), NEW scale \in Int
    PROVE  RegimeOf(F, scale) \in Nat /\ RegimeOf(F, scale) >= 1
<1> DEFINE S == 2^F.es
           k == scale \div S
<1>1. S \in Nat /\ S > 0
  BY PowerType DEF IsFormat
<1> HIDE DEF S
<1>2. k \in Int
  BY <1>1, Division
<1> HIDE DEF k
<1> QED
  BY <1>2 DEF RegimeOf, RegimeLength, k, S

\* The position of the leading one of a quotient, but for one bit.
QuotientHeight(F) == IF F.es = 0 THEN F.n - 1 ELSE F.n - 2

LEMMA QuotientHeightIs ==
    ASSUME NEW F, IsFormat(F)
    PROVE  LET h == QuotientHeight(F) IN
           /\ h \in Nat /\ h >= 1 /\ h >= (F.x + 1) - 2 - F.es /\ h <= 2 * F.n - 3
           /\ 2 * F.n - 2 \in Nat /\ (2 * F.n - 2) - h >= F.x - 2 + F.es
           /\ F.x \in Nat /\ F.x >= 2 /\ F.n \in Nat /\ F.es \in 0 .. 2 /\ F.n - 1 \in Nat
  BY DEF IsFormat, QuotientHeight

LEMMA QuotientStands ==
    ASSUME NEW F, IsFormat(F), NEW e \in Int, NEW h, h = QuotientHeight(F),
           NEW q \in 2^(h - 1) .. 2^(h + 1) - 1
    PROVE  LET p == 2 * F.n - 2
               z == Normal(F, e, q * 2^(p - h))
           IN  /\ z.scale \in Int /\ Stands([num |-> q, pow |-> e - h], p, z.scale, z.frac)
               /\ RegimeOf(F, z.scale) <= F.x - 2 =>
                     \E m \in Nat : z.frac = m * 2^(RegimeOf(F, z.scale) + F.es)
<1> DEFINE p == 2 * F.n - 2
           y == e - h
           v == [num |-> q, pow |-> y]
           up == 2^(p - h)
           P == 2^p
           H == 2^h
           frac == q * up
           z == Normal(F, e, frac)
<1>1. /\ h \in Nat /\ h >= 1 /\ h <= 2 * F.n - 3 /\ p \in Nat /\ p - h >= F.x - 2 + F.es
      /\ F.x \in Nat /\ F.es \in Nat /\ p - h \in Nat /\ h - 1 \in Nat /\ h + 1 \in Nat
  BY QuotientHeightIs
<1>2. up \in Nat /\ up >= 1 /\ P = up * H /\ P \in Nat /\ H \in Nat /\ 2^(h + 1) = 2 * H
      /\ 2^(h - 1) \in Nat /\ 2^(h - 1) >= 1 /\ 2^(2 * F.n) = 4 * P
  <2>1. h <= p
    BY <1>1
  <2>2. P = up * H
    BY <1>1, <2>1, PowerSplit
  <2>3. up \in Nat /\ up >= 1 /\ P \in Nat /\ H \in Nat /\ 2^(h - 1) \in Nat /\ 2^(h - 1) >= 1
    BY <1>1, PowerType
  <2>4. 2^(h + 1) = 2 * H
    BY <1>1, PowerStep
  <2>5. 2^(2 * F.n) = 4 * P
    BY WideSizes
  <2> QED
    BY <2>2, <2>3, <2>4, <2>5
<1>3. q \in Nat /\ q >= 1 /\ q < 2 * H
  BY <1>2
<1> HIDE DEF up, P, H
<1>4. frac \in 1 .. 2^(2 * F.n) - 1 /\ frac < 2 * P
  <2>1. 1 * up <= q * up
    BY <1>2, <1>3, ScaledOrder
  <2>2. q * up < (2 * H) * up
    BY <1>2, <1>3, ScaledOrder
  <2>3. (2 * H) * up = 2 * P /\ q * up \in Int /\ 1 * up = up
    BY <1>2, <1>3
  <2> QED
    BY <1>2, <2>1, <2>2, <2>3
<1>5. v.num = q /\ v.pow = y /\ y \in Int /\ e - y = h /\ p - (e - y) = p - h
  BY <1>1
<1>6. v.num \in Nat /\ v.pow \in Int /\ e - v.pow <= 2 * F.n - 3 /\ frac = v.num * 2^(p - (e - v.pow))
  <2>1. e - v.pow = h
    BY <1>5
  <2> HIDE DEF v, p
  <2> QED
    BY <1>1, <1>3, <1>5, <2>1 DEF up
<1> HIDE DEF frac, v
<1>7. /\ Stands(v, p, z.scale, z.frac)
      /\ z.frac = v.num * 2^(p - (z.scale - v.pow))
      /\ z.scale - v.pow \in 0 .. p
      /\ z.scale \in Int
      /\ frac < 2 * P => z.scale <= e
  BY <1>4, <1>6, NormalStands DEF P
<1>8. ASSUME RegimeOf(F, z.scale) <= F.x - 2
      PROVE  \E m \in Nat : z.frac = m * 2^(RegimeOf(F, z.scale) + F.es)
  <2> DEFINE reg == RegimeOf(F, z.scale)
             c == p - (z.scale - v.pow)
  <2>1. reg \in Nat
    BY <1>7, <1>8, RegimeNatural
  <2>2. z.scale - y \in 0 .. h
    BY <1>1, <1>4, <1>5, <1>7
  <2>3. c \in Nat /\ c >= reg + F.es /\ reg + F.es \in Nat
    <3> HIDE DEF reg, z, p
    <3>1. z.scale - v.pow <= h /\ z.scale - v.pow \in Int
      BY <1>5, <2>2
    <3>2. reg <= F.x - 2
      BY <1>8 DEF reg
    <3> QED
      BY <1>1, <2>1, <3>1, <3>2
  <2> HIDE DEF reg, c
  <2> DEFINE r == reg + F.es
  <2>4. v.num \in Nat /\ c \in Int /\ r \in Nat /\ c >= r
    BY <1>3, <1>5, <2>3
  <2> HIDE DEF r
  <2>5. \E i \in Nat : v.num * 2^c = i * 2^r
    BY <2>4, ZerosBehind
  <2> QED
    BY <1>7, <2>5 DEF c, reg, r
<1> QED
  BY <1>7, <1>8 DEF v, frac, up

\* The dividend against a boundary times the divisor, as the quotient against the
\* boundary, with the remainder in a tie.
LEMMA QuotientComparesWith ==
    ASSUME NEW va, IsPositive(va), NEW vb, IsPositive(vb), NEW L, IsPositive(L),
           NEW a \in Int, NEW b \in Int, NEW h \in Nat, a <= va.pow, b <= vb.pow,
           NEW q \in Nat, q >= 1, NEW rem,
           InUnits(vb, b) \in Nat, InUnits(vb, b) >= 1,
           rem \in 0 .. InUnits(vb, b) - 1,
           InUnits(va, a) * 2^h = InUnits(vb, b) * q + rem,
           L.pow >= a - b - h \/ L.num <= 2 * q
    PROVE  LET w == Times(L, vb)
               z == [num |-> q, pow |-> a - b - h]
           IN  /\ IsPositive(z)
               /\ Less(w, va) <=> Less(L, z) \/ (Same(L, z) /\ rem # 0)
               /\ Same(w, va) <=> Same(L, z) /\ rem = 0
               /\ Less(va, w) <=> Less(z, L)
<1> DEFINE Z == a - b - h
           l == L.pow
           M == IF l >= Z THEN Z ELSE l
           m == M + b
           w == Times(L, vb)
           z == [num |-> q, pow |-> Z]
           X == InUnits(L, M)
           K == 2^(Z - M)
           g == InUnits(vb, b)
           f == InUnits(va, a)
           H == 2^h
           c == va.pow
           d == vb.pow
<1>1. /\ va.num \in Nat /\ va.num >= 1 /\ c \in Int /\ vb.num \in Nat /\ vb.num >= 1 /\ d \in Int
      /\ L.num \in Nat /\ L.num >= 1 /\ l \in Int
  BY DEF IsPositive
<1>2. z.num = q /\ z.pow = Z /\ w.num = L.num * vb.num /\ w.pow = l + d
  BY DEF Times
<1>3. a <= c /\ b <= d
  OBVIOUS
<1> HIDE DEF l, c, d
<1>4. /\ Z \in Int /\ M \in Int /\ m \in Int /\ M <= Z /\ M <= l /\ m <= l + d /\ m <= c
      /\ Z - M \in Nat /\ (M = Z \/ (M = l /\ l < Z)) /\ (l + d) - m = (l - M) + (d - b)
      /\ l - M \in Nat /\ d - b \in Nat /\ c - a \in Nat
      /\ c - m = (c - a) + (h + (Z - M)) /\ m <= w.pow
  BY <1>1, <1>2, <1>3
<1> HIDE DEF Z, M, m
<1>5. H \in Nat /\ H >= 1 /\ K \in Nat /\ K >= 1
  BY <1>4, PowerType
<1>6. IsPositive(z)
  BY <1>2, <1>4 DEF IsPositive
<1>7. IsPositive(w)
  <2>1. L.num * vb.num \in Nat /\ L.num * vb.num >= 1
    <3>1. 1 * vb.num <= L.num * vb.num
      BY <1>1, ScaledOrder
    <3> QED
      BY <1>1, <3>1
  <2> HIDE DEF w
  <2> QED
    BY <1>1, <1>2, <2>1 DEF IsPositive
<1> HIDE DEF w, z
<1>8. InUnits(z, M) = q * K
  BY <1>2 DEF InUnits
<1>9. InUnits(w, m) = X * g
  <2> DEFINE i == l - M
             j == d - b
             I == 2^i
             J == 2^j
  <2>1. i \in Nat /\ j \in Nat /\ (l + d) - m = i + j
    BY <1>4
  <2> HIDE DEF i, j
  <2>2. 2^(i + j) = I * J /\ I \in Nat /\ J \in Nat
    BY <2>1, PowerSum, PowerType
  <2>3. InUnits(w, m) = (L.num * vb.num) * (I * J)
    BY <1>2, <2>1, <2>2 DEF InUnits
  <2>4. X = L.num * I /\ g = vb.num * J
    BY DEF InUnits, i, j, l, d
  <2> HIDE DEF X, g, I, J
  <2>5. (L.num * vb.num) * (I * J) = (L.num * I) * (vb.num * J)
    BY <1>1, <2>2
  <2> QED
    BY <2>3, <2>4, <2>5
<1>10. InUnits(va, m) = (g * q + rem) * K
  <2> DEFINE i == c - a
             k == Z - M
             I == 2^i
  <2>1. i \in Nat /\ k \in Nat /\ c - m = i + (h + k)
    BY <1>4
  <2> HIDE DEF i, k
  <2>2. 2^(h + k) = H * 2^k
    BY <2>1, PowerSum
  <2>3. 2^(i + (h + k)) = I * 2^(h + k) /\ I \in Nat
    <3>1. h + k \in Nat
      BY <2>1
    <3> QED
      BY <2>1, <3>1, PowerSum, PowerType
  <2>4. 2^(c - m) = I * (H * K)
    BY <2>1, <2>2, <2>3 DEF k
  <2>5. InUnits(va, m) = va.num * (I * (H * K)) /\ f = va.num * I
    BY <2>4 DEF InUnits, c, i
  <2>6. f * H = g * q + rem
    OBVIOUS
  <2> HIDE DEF f, g, H, K, I
  <2>7. va.num * (I * (H * K)) = ((va.num * I) * H) * K
    BY <1>1, <1>5, <2>3
  <2> QED
    BY <2>5, <2>6, <2>7
<1>11. X <= q * K \/ X >= q * K + K
  <2>1. CASE M = Z
    <3>1. X \in Nat
      <4>1. l - M \in Nat
        BY <1>4
      <4>2. 2^(l - M) \in Nat
        BY <4>1, PowerType
      <4> QED
        BY <1>1, <4>2 DEF InUnits, l
    <3>2. K = 1
      <4>1. Z - M = 0
        BY <1>4, <2>1
      <4> QED
        BY <4>1, PowerZero
    <3> HIDE DEF K, X
    <3> QED
      BY <3>1, <3>2
  <2>2. CASE M = l /\ l < Z
    <3>1. L.num <= 2 * q
      BY <1>1, <1>4, <2>2 DEF Z, l
    <3>2. X = L.num
      <4>1. l - M = 0
        BY <1>1, <2>2
      <4>2. X = L.num * 1
        BY <4>1, PowerZero DEF InUnits, l
      <4> QED
        BY <1>1, <4>2
    <3>3. 2 * q <= q * K
      <4>1. K >= 2
        <5>1. Z - M \in Nat /\ 1 <= Z - M
          BY <1>1, <1>4, <2>2
        <5>2. 2^1 = 2
          BY PowerZero, PowerStep
        <5> DEFINE i == Z - M
        <5> HIDE DEF i
        <5>3. 2^1 <= 2^i
          BY <5>1, PowerMonotone DEF i
        <5> QED
          BY <5>2, <5>3 DEF i
      <4>2. 2 * q <= K * q
        BY <1>5, <4>1, ScaledOrder
      <4> HIDE DEF K
      <4> QED
        BY <1>5, <4>2
    <3>4. q * K \in Nat
      BY <1>5
    <3> HIDE DEF K, X
    <3> QED
      BY <1>1, <3>1, <3>2, <3>3, <3>4
  <2> QED
    BY <1>4, <2>1, <2>2
<1>12. /\ Less(L, z) <=> X < q * K
       /\ Same(L, z) <=> X = q * K
       /\ X \in Nat
  <2>1. M <= L.pow /\ M <= z.pow
    BY <1>2, <1>4 DEF l
  <2> QED
    BY <1>4, <1>6, <1>8, <2>1, UnitsCompare
<1>13. Less(z, L) <=> q * K < X
  <2>1. M <= L.pow /\ M <= z.pow
    BY <1>2, <1>4 DEF l
  <2> QED
    BY <1>4, <1>6, <1>8, <2>1, UnitsCompare
<1>14. /\ Less(w, va) <=> X * g < (g * q + rem) * K
       /\ Same(w, va) <=> X * g = (g * q + rem) * K
  <2>1. m <= w.pow /\ m <= va.pow
    BY <1>4 DEF c
  <2> QED
    BY <1>4, <1>7, <1>9, <1>10, <2>1, UnitsCompare
<1>15. Less(va, w) <=> (g * q + rem) * K < X * g
  <2>1. m <= w.pow /\ m <= va.pow
    BY <1>4 DEF c
  <2> QED
    BY <1>4, <1>7, <1>9, <1>10, <2>1, UnitsCompare
<1>16. g \in Nat /\ g >= 1 /\ rem \in 0 .. g - 1
  OBVIOUS
<1> HIDE DEF X, K, g
<1>17. /\ X * g < (g * q + rem) * K <=> X < q * K \/ (X = q * K /\ rem # 0)
       /\ X * g = (g * q + rem) * K <=> X = q * K /\ rem = 0
       /\ (g * q + rem) * K < X * g <=> q * K < X
  BY <1>5, <1>11, <1>12, <1>16, QuotientCompares
<1> QED
  BY <1>6, <1>12, <1>13, <1>14, <1>15, <1>17 DEF w, z, Z

\* The quotient of two words compares with the boundaries as the height of the result does,
\* the remainder standing for what is cut off.
LEMMA QuotientNumber ==
    ASSUME NEW F, IsFormat(F), NEW d \in 1 .. 2^(F.x - 1) - 1, NEW e \in 1 .. 2^(F.x - 1) - 1
    PROVE  LET s == Scan(F, d * Ulp(F))
               t == Scan(F, e * Ulp(F))
               p == 2 * F.n - 2
               h == QuotientHeight(F)
               q == (s.frac * 2^h) \div t.frac
               rem == (s.frac * 2^h) % t.frac
               z == Normal(F, Scale(F, s) - Scale(F, t), q * 2^(p - h))
           IN  /\ z.scale \in Int /\ Significand(p, z.frac)
               /\ RegimeOf(F, z.scale) <= F.x - 2 =>
                     \E m \in Nat : z.frac = m * 2^(RegimeOf(F, z.scale) + F.es)
               /\ Compares(F, Value(F.x, F.es, d), Value(F.x, F.es, e),
                           Height(p, z.scale, z.frac), rem # 0)
<1> DEFINE s == Scan(F, d * Ulp(F))
           t == Scan(F, e * Ulp(F))
           va == Value(F.x, F.es, d)
           vb == Value(F.x, F.es, e)
           p == 2 * F.n - 2
           h == QuotientHeight(F)
           f == s.frac
           g == t.frac
           q == (f * 2^h) \div g
           rem == (f * 2^h) % g
           sa == Scale(F, s)
           sb == Scale(F, t)
           a == sa - (F.n - 1)
           b == sb - (F.n - 1)
           c == 2^(F.n - 1)
           z == Normal(F, sa - sb, q * 2^(p - h))
           y == (sa - sb) - h
           v == [num |-> q, pow |-> y]
           H == Height(p, z.scale, z.frac)
<1>1. /\ IsPositive(va) /\ sa \in Int /\ a <= va.pow /\ f = InUnits(va, a) /\ f \in c .. 2 * c - 1
      /\ IsPositive(vb) /\ sb \in Int /\ b <= vb.pow /\ g = InUnits(vb, b) /\ g \in c .. 2 * c - 1
  BY ScanDigits
<1>2. /\ h \in Nat /\ h >= 1 /\ h >= (F.x + 1) - 2 - F.es /\ p \in Nat
      /\ F.x \in Nat /\ F.x >= 2 /\ F.n \in Nat /\ F.es \in Nat /\ F.n - 1 \in Nat
  BY QuotientHeightIs
<1>3. c \in Nat /\ c >= 1
  BY <1>2, PowerType
<1> HIDE DEF s, t, va, vb, p, h, c
<1> HIDE DEF f, g, sa, sb
<1>4. q \in 2^(h - 1) .. 2^(h + 1) - 1 /\ f * 2^h = g * q + rem /\ rem \in 0 .. g - 1
  <2>1. c \in Nat /\ c >= 1 /\ f \in c .. 2 * c - 1 /\ g \in c .. 2 * c - 1 /\ h \in Nat /\ h >= 1
    BY <1>1, <1>2, <1>3
  <2> QED
    BY <2>1, QuotientDigits, Zenon
<1>5. a \in Int /\ b \in Int /\ sa - sb \in Int /\ a - b - h = y /\ y \in Int
  BY <1>1, <1>2
<1>6. /\ z.scale \in Int /\ Stands(v, p, z.scale, z.frac)
      /\ RegimeOf(F, z.scale) <= F.x - 2 =>
            \E m \in Nat : z.frac = m * 2^(RegimeOf(F, z.scale) + F.es)
  <2> HIDE DEF q
  <2> QED
    BY <1>2, <1>4, <1>5, QuotientStands DEF p, h
<1>7. 2^(h - 1) \in Nat /\ 2^h \in Nat /\ 2^h = 2 * 2^(h - 1) /\ 2^(h - 1) >= 1
  <2>1. h - 1 \in Nat /\ (h - 1) + 1 = h
    BY <1>2
  <2>2. 2^((h - 1) + 1) = 2 * 2^(h - 1) /\ 2^(h - 1) \in Nat /\ 2^(h - 1) >= 1
    BY <2>1, PowerStep, PowerType
  <2> QED
    BY <2>1, <2>2
<1>8. q \in Nat /\ q >= 1
  <2> HIDE DEF q
  <2> QED
    BY <1>4, <1>7
<1> HIDE DEF q, rem, a, b, z, v, H, y
<1>9. Compares(F, v, Unity, H, FALSE)
  BY <1>6, ComparesNumber DEF H, p
<1>10. ASSUME NEW u, NEW k, NEW j, Shaped(F.x + 1, u, k, j)
       PROVE  LET w == Times(Value(F.x + 1, F.es, u), vb)
                  B == ShapeHeight(F.x + 1, F.es, p, k, j)
              IN  /\ Less(w, va) <=> B < H \/ (B = H /\ rem # 0)
                  /\ Same(w, va) <=> B = H /\ ~ (rem # 0)
                  /\ Less(va, w) <=> H < B
  <2> DEFINE L == Value(F.x + 1, F.es, u)
             w == Times(L, vb)
             B == ShapeHeight(F.x + 1, F.es, p, k, j)
             LU == Times(L, Unity)
  <2>1. /\ Less(LU, v) <=> B < H \/ (B = H /\ FALSE)
        /\ Same(LU, v) <=> B = H /\ ~ FALSE
        /\ Less(v, LU) <=> H < B
    BY <1>9, <1>10, Zenon DEF Compares, p
  <2>2. IsPositive(L)
    <3>1. F.x + 1 \in Nat /\ F.x + 1 >= 3
      BY <1>2
    <3> QED
      BY <1>2, <1>10, <3>1, DigitsOfValue
  <2>3. LU = [num |-> L.num, pow |-> L.pow]
    <3> HIDE DEF L
    <3>1. L.num * 1 = L.num /\ L.pow + 0 = L.pow
      BY <2>2 DEF IsPositive
    <3> QED
      BY <3>1 DEF Times, Unity
  <2>4. (Less(LU, v) <=> Less(L, v)) /\ (Same(LU, v) <=> Same(L, v)) /\ (Less(v, LU) <=> Less(v, L))
    <3> HIDE DEF L, LU
    <3>1. LU.num = L.num /\ LU.pow = L.pow
      BY <2>3
    <3>2. Size(LU) = Size(L) /\ Aligned(LU, v) = Aligned(L, v) /\ Aligned(v, LU) = Aligned(v, L)
      BY <3>1, Zenon DEF Size, Aligned
    <3> QED
      BY <3>2, Zenon DEF Less, Same
  <2>5. L.num <= 2 * q
    <3>1. L.num < 2^h /\ L.num \in Nat
      <4>1. F.x + 1 \in Nat /\ F.x + 1 >= 3
        BY <1>2
      <4> QED
        BY <1>2, <1>10, <4>1, DigitsOfValue DEF IsPositive
    <3>2. q >= 2^(h - 1)
      <4> DEFINE C == 2^(h - 1)
                 D == 2^(h + 1)
      <4>1. q \in C .. D - 1
        BY <1>4
      <4> HIDE DEF C, D
      <4>2. q >= C
        BY <4>1
      <4> QED
        BY <4>2 DEF C
    <3> HIDE DEF L
    <3> QED
      BY <1>7, <1>8, <3>1, <3>2
  <2> HIDE DEF LU, L
  <2>6. InUnits(vb, b) \in Nat /\ InUnits(vb, b) >= 1
    BY <1>1, <1>3
  <2>7. /\ Less(w, va) <=> Less(L, v) \/ (Same(L, v) /\ rem # 0)
        /\ Same(w, va) <=> Same(L, v) /\ rem = 0
        /\ Less(va, w) <=> Less(v, L)
    <3>1. v = [num |-> q, pow |-> a - b - h]
      BY <1>5 DEF v
    <3>2. rem \in 0 .. InUnits(vb, b) - 1 /\ InUnits(va, a) * 2^h = InUnits(vb, b) * q + rem
      BY <1>1, <1>4
    <3> QED
      BY <1>1, <1>2, <1>5, <1>8, <2>2, <2>5, <2>6, <3>1, <3>2, QuotientComparesWith
  <2> HIDE DEF w, B
  <2>8. /\ Less(w, va) <=> B < H \/ (B = H /\ rem # 0)
        /\ Same(w, va) <=> B = H /\ ~ (rem # 0)
        /\ Less(va, w) <=> H < B
    BY <2>1, <2>4, <2>7
  <2> QED
    BY <2>8, Zenon DEF w, B, L
<1>11. Compares(F, va, vb, H, rem # 0)
  BY <1>10, Zenon DEF Compares, p
<1>12. Significand(p, z.frac)
  BY <1>6 DEF Stands
<1>13. /\ z.scale \in Int /\ Significand(p, z.frac)
       /\ RegimeOf(F, z.scale) <= F.x - 2 =>
             \E m \in Nat : z.frac = m * 2^(RegimeOf(F, z.scale) + F.es)
       /\ Compares(F, va, vb, Height(p, z.scale, z.frac), rem # 0)
  BY <1>6, <1>11, <1>12 DEF H
<1> QED
  BY <1>13, Zenon DEF z, q, rem, f, g, sa, sb, s, t, va, vb, p, h

\* The quotient of two numbers is the exact one, rounded once.
LEMMA DivRounds ==
    ASSUME NEW F, IsFormat(F), ~ (F.px /\ F.x = F.n /\ F.es = 2),
           NEW a, NEW b, Numeric(F, a), Numeric(F, b)
    PROVE  RoundsTo(F, Div(F, a, b), SignDiffers(F, a, b), Number(F, a), Number(F, b))
<1> DEFINE d == Digits(F, a)
           e == Digits(F, b)
           neg == SignDiffers(F, a, b)
           va == Value(F.x, F.es, d)
           vb == Value(F.x, F.es, e)
           s == Scan(F, d * Ulp(F))
           t == Scan(F, e * Ulp(F))
           p == 2 * F.n - 2
           h == QuotientHeight(F)
           q == (s.frac * 2^h) \div t.frac
           rem == (s.frac * 2^h) % t.frac
           z == Normal(F, Scale(F, s) - Scale(F, t), q * 2^(p - h))
           H == Height(p, z.scale, z.frac)
           more == ExpSticky(F, z.scale) \/ rem # 0
           rest == rem # 0
<1>1. /\ d \in 1 .. 2^(F.x - 1) - 1 /\ Magnitude(F, a) = d * Ulp(F)
      /\ e \in 1 .. 2^(F.x - 1) - 1 /\ Magnitude(F, b) = e * Ulp(F)
  BY DigitsOf
<1>2. neg \in BOOLEAN
  BY DEF SignDiffers
<1>3. Div(F, a, b) = Signed(F, neg, QuotientOf(F, s, t))
  BY <1>1 DEF Div, Numeric
<1>4. QuotientOf(F, s, t) = RoundSticky(F, z, more)
  BY Zenon DEF QuotientOf, RoundQuotient, QuotientHeight
<1>5. Number(F, a) = va /\ Number(F, b) = vb
  BY DEF Number
<1> HIDE DEF d, e, neg
<1>6. /\ z.scale \in Int /\ Significand(p, z.frac)
      /\ RegimeOf(F, z.scale) <= F.x - 2 =>
            \E m \in Nat : z.frac = m * 2^(RegimeOf(F, z.scale) + F.es)
      /\ Compares(F, va, vb, H, rest)
  BY <1>1, QuotientNumber, Zenon
<1> HIDE DEF z, s, t, va, vb, H
<1>7. rest \in BOOLEAN /\ (more <=> (ExpSticky(F, z.scale) \/ rest))
  OBVIOUS
<1> HIDE DEF rest, more
<1>8. \E u : RoundSticky(F, z, more) = u * Ulp(F) /\ RoundsHeight(F, u, H, rest)
  <2>1. FracSticky(F, z.scale, z.frac) \/ more
            <=> FracSticky(F, z.scale, z.frac) \/ ExpSticky(F, z.scale) \/ rest
    BY <1>7
  <2>2. more \in BOOLEAN
    BY <1>7 DEF more
  <2> QED
    BY <1>6, <1>7, <2>1, RoundStickyRounds DEF H
<1>9. PICK u : RoundSticky(F, z, more) = u * Ulp(F) /\ RoundsHeight(F, u, H, rest)
  BY <1>8
<1>10. RoundsTo(F, Signed(F, neg, u * Ulp(F)), neg, va, vb)
  BY <1>2, <1>6, <1>7, <1>9, RoundsToNumber
<1> QED
  BY <1>3, <1>4, <1>5, <1>9, <1>10 DEF neg

-----------------------------------------------------------------------------
(* Where the exponent is cut off.                                          *)

\* The word of t units or the one below it has a regime that leaves no room for the exponent.
Crowded(F, t) ==
    \E y \in {t - 1, t} :
        y \in 1 .. 2^(F.x - 1) - 1 /\ LostExpBits(F, RunLength(F, y * Ulp(F))) > 0

LEMMA RunOfDigits ==
    ASSUME NEW F, IsFormat(F), NEW t, NEW k, NEW j, Shaped(F.x, t, k, j)
    PROVE  t \in 1 .. 2^(F.x - 1) - 1 /\ RunLength(F, t * Ulp(F)) = RegimeLength(k)
<1> DEFINE x == F.x
           m == F.n - x
           u == t * 2^m
<1>1. x \in Nat /\ x >= 2 /\ m \in Nat /\ x + m = F.n
  BY DEF IsFormat
<1>2. t * Ulp(F) = u
  BY DEF Ulp
<1>3. PICK i : WidensTo(x, m, t, k, j, i)
  <2> HIDE DEF m
  <2> QED
    BY <1>1, ShapeWidened
<1>4. Shaped(F.n, u, k, i)
  BY <1>1, <1>3 DEF WidensTo
<1>5. RunLength(F, u) = RegimeLength(k)
  BY <1>4, RunOfShape
<1>6. t \in 1 .. 2^(x - 1) - 1
  BY <1>1, ShapeOrder
<1> QED
  BY <1>2, <1>5, <1>6

LEMMA RoundCrowds ==
    ASSUME NEW F, IsFormat(F), NEW scale \in Int, NEW frac \in Nat, NEW more,
           RegimeOf(F, scale) <= F.x - 2, LostExpBits(F, RegimeOf(F, scale)) > 0
    PROVE  \E t : Round(F, scale, frac, more) = t * Ulp(F) /\ t \in Nat /\ Crowded(F, t)
<1> DEFINE k == scale \div 2^F.es
           reg == RegimeOf(F, scale)
           G == Following(F, scale % 2^F.es, frac)
           j == IF Misplaced(F, reg) THEN 0 ELSE G \div 2^CutOff(F, reg)
           t == RegimeStart(F.x, k) + j
           half == HalfBit(F, LostExpBits(F, reg), scale % 2^F.es, ShiftedFraction(F, reg, frac))
           y == IF half = 1 /\ (t % 2 = 1 \/ more) THEN t + 1 ELSE t
<1>1. /\ k \in -(F.x - 2) .. F.x - 3
      /\ j \in 0 .. 2^BitsLeft(F.x, k) - 1
      /\ Round(F, scale, frac, more) = y * Ulp(F)
  BY RoundInRegime, Zenon
<1>2. F.x \in Nat /\ F.x >= 2
  BY DEF IsFormat
<1>3. Shaped(F.x, t, k, j)
  <2> HIDE DEF k, j
  <2>1. k \in -(F.x - 2) .. F.x - 2
    BY <1>1, <1>2
  <2> QED
    BY <1>1, <2>1 DEF Shaped
<1>4. t \in 1 .. 2^(F.x - 1) - 1 /\ RunLength(F, t * Ulp(F)) = reg
  <2>1. reg = RegimeLength(k)
    BY DEF RegimeOf
  <2> HIDE DEF reg, k, t, j
  <2> QED
    BY <1>3, <2>1, RunOfDigits
<1>5. y = t \/ y = t + 1
  OBVIOUS
<1> HIDE DEF t, y
<1>6. t \in {y - 1, y} /\ y \in Nat
  <2>1. t \in Nat
    <3>1. 2^(F.x - 1) \in Nat
      BY Sizes
    <3> QED
      BY <1>4, <3>1
  <2> QED
    BY <1>5, <2>1
<1>7. Crowded(F, y)
  BY <1>4, <1>6 DEF Crowded
<1> QED
  BY <1>1, <1>6, <1>7

\* The end of a function: the rounding is right, or the exponent has no room.
LEMMA RoundStickyOrCrowded ==
    ASSUME NEW F, IsFormat(F),
           NEW z, z.scale \in Int, Significand(2 * F.n - 2, z.frac),
           RegimeOf(F, z.scale) <= F.x - 2 =>
               \E m \in Nat : z.frac = m * 2^(RegimeOf(F, z.scale) + F.es),
           NEW more, NEW rest \in BOOLEAN,
           LostExpBits(F, RegimeOf(F, z.scale)) = 0 => (more <=> rest)
    PROVE  \E t : /\ RoundSticky(F, z, more) = t * Ulp(F) /\ t \in Nat
                  /\ \/ RoundsHeight(F, t, Height(2 * F.n - 2, z.scale, z.frac), rest)
                     \/ Crowded(F, t)
<1> DEFINE sticky == FracSticky(F, z.scale, z.frac) \/ more
           h == Height(2 * F.n - 2, z.scale, z.frac)
           reg == RegimeOf(F, z.scale)
           lost == LostExpBits(F, reg)
<1>1. RoundSticky(F, z, more) = Round(F, z.scale, z.frac, sticky)
  BY DEF RoundSticky
<1>2. reg \in Nat /\ F.x \in Int /\ F.es \in 0 .. 2
  BY RegimeNatural DEF IsFormat
<1>3. lost \in Nat
  <2> HIDE DEF reg
  <2> QED
    BY <1>2 DEF LostExpBits
<1>4. 2^(F.x - 1) \in Nat
  BY Sizes
<1>5. CASE reg > F.x - 2
  <2> HIDE DEF sticky
  <2>1. PICK t : Round(F, z.scale, z.frac, sticky) = t * Ulp(F) /\ RoundsHeight(F, t, h, rest)
    BY <1>5, RoundsBeyond
  <2>2. t \in Nat
    BY <1>4, <2>1 DEF RoundsHeight
  <2> QED
    BY <1>1, <2>1, <2>2
<1>6. CASE reg <= F.x - 2 /\ lost > 0
  <2> HIDE DEF sticky
  <2>1. z.frac \in Nat
    <3>1. 2^(2 * F.n - 2) \in Nat
      BY WideSizes
    <3> QED
      BY <3>1 DEF Significand
  <2>2. \E t : Round(F, z.scale, z.frac, sticky) = t * Ulp(F) /\ t \in Nat /\ Crowded(F, t)
    BY <1>6, <2>1, RoundCrowds
  <2> QED
    BY <1>1, <2>2
<1>7. CASE reg <= F.x - 2 /\ lost = 0
  <2>1. PICK m \in Nat : z.frac = m * 2^(RegimeOf(F, z.scale) + F.es)
    BY <1>7
  <2>2. FracSticky(F, z.scale, z.frac) \/ ExpSticky(F, z.scale) <=> CutBelow(F, z.scale, z.frac) # 0
    BY <1>7, <2>1, StickyIs
  <2>3. ~ ExpSticky(F, z.scale)
    BY <1>7 DEF ExpSticky
  <2>4. sticky <=> CutBelow(F, z.scale, z.frac) # 0 \/ rest
    BY <1>7, <2>2, <2>3
  <2>5. sticky \in BOOLEAN
    OBVIOUS
  <2>6. ~ Misplaced(F, RegimeOf(F, z.scale))
    BY <1>7 DEF Misplaced
  <2> HIDE DEF sticky
  <2>7. PICK t : Round(F, z.scale, z.frac, sticky) = t * Ulp(F) /\ RoundsHeight(F, t, h, rest)
    BY <1>7, <2>4, <2>5, <2>6, RoundsInRegime
  <2>8. t \in Nat
    BY <1>4, <2>7 DEF RoundsHeight
  <2> QED
    BY <1>1, <2>7, <2>8
<1> QED
  BY <1>2, <1>3, <1>5, <1>6, <1>7

\* The word z is v / d, rounded once, or the exponent of z or of the word below has no room.
RoundedOrCrowded(F, z, neg, v, d) ==
    RoundsTo(F, z, neg, v, d) \/ \E t \in Nat : z = Signed(F, neg, t * Ulp(F)) /\ Crowded(F, t)

LEMMA MulRoundsOrCrowded ==
    ASSUME NEW F, IsFormat(F), NEW a, NEW b, Numeric(F, a), Numeric(F, b)
    PROVE  RoundedOrCrowded(F, Mul(F, a, b), SignDiffers(F, a, b),
                            Times(Number(F, a), Number(F, b)), Unity)
<1> DEFINE d == Digits(F, a)
           e == Digits(F, b)
           neg == SignDiffers(F, a, b)
           v == Times(Value(F.x, F.es, d), Value(F.x, F.es, e))
           z == Product(F, d * Ulp(F), e * Ulp(F))
           h == Height(2 * F.n - 2, z.scale, z.frac)
           more == F.px /\ ExpSticky(F, z.scale)
<1>1. /\ d \in 1 .. 2^(F.x - 1) - 1 /\ Magnitude(F, a) = d * Ulp(F)
      /\ e \in 1 .. 2^(F.x - 1) - 1 /\ Magnitude(F, b) = e * Ulp(F)
  BY DigitsOf
<1>2. neg \in BOOLEAN
  BY DEF SignDiffers
<1>3. Mul(F, a, b) = Signed(F, neg, RoundSticky(F, z, more))
  BY <1>1 DEF Mul, Numeric, RoundProduct
<1>4. Times(Number(F, a), Number(F, b)) = v
  BY DEF Number
<1> HIDE DEF d, e, neg
<1>5. /\ z.scale \in Int /\ Stands(v, 2 * F.n - 2, z.scale, z.frac)
      /\ RegimeOf(F, z.scale) <= F.x - 2 =>
            \E m \in Nat : z.frac = m * 2^(RegimeOf(F, z.scale) + F.es)
  BY <1>1, ProductStands, Zenon
<1> HIDE DEF z, v
<1>6. Significand(2 * F.n - 2, z.frac)
  BY <1>5 DEF Stands
<1>7. LostExpBits(F, RegimeOf(F, z.scale)) = 0 => (more <=> FALSE)
  BY DEF ExpSticky
<1> HIDE DEF more
<1>8. PICK t : /\ RoundSticky(F, z, more) = t * Ulp(F) /\ t \in Nat
               /\ RoundsHeight(F, t, h, FALSE) \/ Crowded(F, t)
  <2>1. \E t : /\ RoundSticky(F, z, more) = t * Ulp(F) /\ t \in Nat
               /\ RoundsHeight(F, t, h, FALSE) \/ Crowded(F, t)
    BY <1>5, <1>6, <1>7, RoundStickyOrCrowded
  <2> QED
    BY <2>1
<1>9. Compares(F, v, Unity, h, FALSE)
  BY <1>5, ComparesNumber
<1> HIDE DEF h
<1>10. ASSUME RoundsHeight(F, t, h, FALSE)
       PROVE  RoundsTo(F, Signed(F, neg, t * Ulp(F)), neg, v, Unity)
  BY <1>2, <1>9, <1>10, RoundsToNumber
<1> QED
  BY <1>3, <1>4, <1>8, <1>10 DEF neg, RoundedOrCrowded

LEMMA DivRoundsOrCrowded ==
    ASSUME NEW F, IsFormat(F), NEW a, NEW b, Numeric(F, a), Numeric(F, b)
    PROVE  RoundedOrCrowded(F, Div(F, a, b), SignDiffers(F, a, b), Number(F, a), Number(F, b))
<1> DEFINE d == Digits(F, a)
           e == Digits(F, b)
           neg == SignDiffers(F, a, b)
           va == Value(F.x, F.es, d)
           vb == Value(F.x, F.es, e)
           s == Scan(F, d * Ulp(F))
           t == Scan(F, e * Ulp(F))
           p == 2 * F.n - 2
           h == QuotientHeight(F)
           q == (s.frac * 2^h) \div t.frac
           rem == (s.frac * 2^h) % t.frac
           z == Normal(F, Scale(F, s) - Scale(F, t), q * 2^(p - h))
           H == Height(p, z.scale, z.frac)
           more == ExpSticky(F, z.scale) \/ rem # 0
           rest == rem # 0
<1>1. /\ d \in 1 .. 2^(F.x - 1) - 1 /\ Magnitude(F, a) = d * Ulp(F)
      /\ e \in 1 .. 2^(F.x - 1) - 1 /\ Magnitude(F, b) = e * Ulp(F)
  BY DigitsOf
<1>2. neg \in BOOLEAN
  BY DEF SignDiffers
<1>3. Div(F, a, b) = Signed(F, neg, QuotientOf(F, s, t))
  BY <1>1 DEF Div, Numeric
<1>4. QuotientOf(F, s, t) = RoundSticky(F, z, more)
  BY Zenon DEF QuotientOf, RoundQuotient, QuotientHeight
<1>5. Number(F, a) = va /\ Number(F, b) = vb
  BY DEF Number
<1> HIDE DEF d, e, neg
<1>6. /\ z.scale \in Int /\ Significand(p, z.frac)
      /\ RegimeOf(F, z.scale) <= F.x - 2 =>
            \E m \in Nat : z.frac = m * 2^(RegimeOf(F, z.scale) + F.es)
      /\ Compares(F, va, vb, H, rest)
  BY <1>1, QuotientNumber, Zenon
<1> HIDE DEF z, s, t, va, vb, H
<1>7. rest \in BOOLEAN /\ (more <=> (ExpSticky(F, z.scale) \/ rest))
  OBVIOUS
<1> HIDE DEF rest, more
<1>8. LostExpBits(F, RegimeOf(F, z.scale)) = 0 => (more <=> rest)
  BY <1>7 DEF ExpSticky
<1>9. PICK u : /\ RoundSticky(F, z, more) = u * Ulp(F) /\ u \in Nat
               /\ RoundsHeight(F, u, H, rest) \/ Crowded(F, u)
  <2>1. \E u : /\ RoundSticky(F, z, more) = u * Ulp(F) /\ u \in Nat
               /\ RoundsHeight(F, u, H, rest) \/ Crowded(F, u)
    BY <1>6, <1>7, <1>8, RoundStickyOrCrowded DEF H
  <2> QED
    BY <2>1
<1>10. ASSUME RoundsHeight(F, u, H, rest)
       PROVE  RoundsTo(F, Signed(F, neg, u * Ulp(F)), neg, va, vb)
  BY <1>2, <1>6, <1>7, <1>10, RoundsToNumber
<1> QED
  BY <1>3, <1>4, <1>5, <1>9, <1>10 DEF neg, RoundedOrCrowded

-----------------------------------------------------------------------------
(* The boundaries next to a word.                                          *)

\* A word and the one below it: the shape of the lower one fills what is between their heights.
LEMMA ShapeBelow ==
    ASSUME NEW w \in Nat, w >= 2, NEW es \in Nat, NEW P \in Nat, es + P >= w - 2,
           NEW d, NEW k, NEW j, Shaped(w, d, k, j), d > 1
    PROVE  \E l, i :
              /\ Shaped(w, d - 1, l, i) /\ l <= w - 3 /\ l \in -(w - 2) .. w - 2
              /\ BitsLeft(w, l) <= BitsLeft(w, k) + 1
              /\ BitsLeft(w, l) = BitsLeft(w, k) + 1 => d % 2 = 0
              /\ ShapeHeight(w, es, P, k, j) = ShapeHeight(w, es, P, l, i) + 2^(es + P - BitsLeft(w, l))
<1>1. d \in 1 .. 2^(w - 1) - 1 /\ k \in Int /\ j \in Nat /\ k \in -(w - 2) .. w - 2
  BY ShapeOrder DEF Shaped
<1>2. 2^(w - 1) \in Nat
  BY PowerType
<1>3. d - 1 \in 1 .. 2^(w - 1) - 1 /\ d - 1 < d /\ d \in Nat
  BY <1>1, <1>2
<1>4. PICK l, i : Shaped(w, d - 1, l, i)
  BY <1>3, ShapeExists
<1>5. /\ l \in -(w - 2) .. w - 2 /\ i \in 0 .. 2^BitsLeft(w, l) - 1 /\ d - 1 = RegimeStart(w, l) + i
      /\ j \in 0 .. 2^BitsLeft(w, k) - 1 /\ d = RegimeStart(w, k) + j
  BY <1>4 DEF Shaped
<1>6. l < k \/ (l = k /\ i < j)
  BY <1>3, <1>4, ShapeOrder
<1> DEFINE a == BitsLeft(w, l)
           b == BitsLeft(w, k)
           A == 2^a
           B == 2^b
           R == RegimeStart(w, l)
           T == RegimeStart(w, k)
<1>7. /\ a \in 0 .. w - 2 /\ A \in Nat /\ A >= 1 /\ R \in Nat
      /\ b \in 0 .. w - 2 /\ B \in Nat /\ B >= 1 /\ T \in Nat
  BY <1>1, <1>5, ShapeSizes
<1>8. l < k => R + A <= T
  BY <1>1, <1>5, RegimesInOrder
<1> DEFINE E == 2^(es + P)
           D == 2^(es + P - a)
<1>9. E \in Nat /\ D \in Nat /\ A * D = E
  <2> HIDE DEF a
  <2>1. a \in Nat /\ es + P \in Nat /\ a <= es + P
    BY <1>7
  <2> DEFINE e == es + P
  <2>2. e \in Nat /\ a <= e
    BY <2>1
  <2> HIDE DEF e
  <2>3. 2^e = 2^(e - a) * 2^a /\ 2^e \in Nat /\ e - a \in Nat
    BY <2>1, <2>2, PowerSplit, PowerType
  <2>4. 2^(e - a) \in Nat
    BY <2>3, PowerType
  <2> DEFINE D_ == 2^(e - a)
  <2> HIDE DEF D_
  <2>5. 2^e = A * D_
    BY <1>7, <2>3, <2>4 DEF D_
  <2>6. es + P - a = e - a
    BY <2>1 DEF e
  <2> QED
    BY <2>3, <2>4, <2>5, <2>6 DEF e, D_
<1>10. ShapeHeight(w, es, P, k, j) = k * E + j * 2^(es + P - b) /\ ShapeHeight(w, es, P, l, i) = l * E + i * D
  BY DEF ShapeHeight
<1>11. CASE l = k
  <2>1. i + 1 = j
    BY <1>3, <1>5, <1>7, <1>11
  <2>2. k <= w - 3
    <3>1. B > 1
      <4>1. i >= 0 /\ i \in Int /\ j <= B - 1 /\ j \in Int
        BY <1>1, <1>5, <1>7
      <4> HIDE DEF A, B, R, T, a, b
      <4> QED
        BY <1>7, <2>1, <4>1
    <3>2. b # 0
      <4> HIDE DEF b
      <4>1. ASSUME b = 0 PROVE B = 1
        BY <4>1, PowerZero
      <4> HIDE DEF B
      <4> QED
        BY <3>1, <4>1
    <3> QED
      BY <1>1, <3>2 DEF BitsLeft
  <2>3. k * E + j * D = (l * E + i * D) + D
    <3> HIDE DEF E, D
    <3> QED
      BY <1>1, <1>5, <1>7, <1>9, <1>11, <2>1
  <2> QED
    BY <1>4, <1>5, <1>7, <1>10, <1>11, <2>2, <2>3
<1>12. CASE l < k
  <2>1. i = A - 1 /\ j = 0 /\ R + A = T
    <3> HIDE DEF A, B, R, T, a, b
    <3>1. i \in Int /\ i <= A - 1 /\ d - 1 = R + i /\ d = T + j /\ j >= 0 /\ j \in Int
      BY <1>5, <1>7 DEF A, B, R, T, a, b
    <3> QED
      BY <1>3, <1>7, <1>8, <1>12, <3>1
  <2>2. k = l + 1
    <3>1. ASSUME l + 1 < k PROVE FALSE
      <4>1. l + 1 \in -(w - 2) .. w - 2
        BY <1>1, <1>5, <3>1
      <4>2. /\ RegimeStart(w, l) + 2^BitsLeft(w, l) <= RegimeStart(w, l + 1)
            /\ RegimeStart(w, l + 1) + 2^BitsLeft(w, l + 1) <= RegimeStart(w, k)
            /\ 2^BitsLeft(w, l + 1) \in Nat /\ 2^BitsLeft(w, l + 1) >= 1 /\ RegimeStart(w, l + 1) \in Nat
        <5>1. l < l + 1
          BY <1>5
        <5> QED
          BY <1>1, <1>5, <3>1, <4>1, <5>1, RegimesInOrder, ShapeSizes
      <4> HIDE DEF A, R, T
      <4>3. R + A <= RegimeStart(w, l + 1) /\ RegimeStart(w, l + 1) + 2^BitsLeft(w, l + 1) <= T
        BY <4>2 DEF R, A, T
      <4> QED
        BY <1>7, <2>1, <4>2, <4>3
    <3> QED
      BY <1>1, <1>5, <1>12, <3>1
  <2>3. a <= b + 1 /\ (a = b + 1 => k >= 1 /\ k <= w - 3)
    <3>1. CASE k < 0
      BY <1>1, <1>5, <2>2, <3>1 DEF BitsLeft
    <3>2. CASE k = 0
      BY <1>1, <1>5, <2>2, <3>2 DEF BitsLeft
    <3>3. CASE k > 0 /\ k # w - 2
      BY <1>1, <1>5, <2>2, <3>3 DEF BitsLeft
    <3>4. CASE k > 0 /\ k = w - 2
      BY <1>1, <1>5, <2>2, <3>4 DEF BitsLeft
    <3> QED
      BY <1>1, <3>1, <3>2, <3>3, <3>4
  <2>4. ASSUME a = b + 1 PROVE d % 2 = 0
    <3>1. k >= 1 /\ k <= w - 3
      BY <2>3, <2>4
    <3> DEFINE m == w - 3 - k
               n == w - 2
               M == 2^m
               N == 2^n
    <3>2. m \in Nat /\ n \in Nat /\ w - 2 - k = m + 1 /\ w - 1 = n + 1
      BY <1>1, <3>1
    <3>3. T = 2^(w - 1) - 2^(w - 2 - k)
      <4>1. ~ (k < 0)
        BY <1>1, <3>1
      <4> QED
        BY <4>1 DEF RegimeStart
    <3> HIDE DEF m, n
    <3>4. 2^(m + 1) = 2 * M /\ 2^(n + 1) = 2 * N /\ M \in Nat /\ N \in Nat
      BY <3>2, PowerStep, PowerType
    <3>5. d = 2 * (N - M) /\ N - M \in Int
      <4> HIDE DEF M, N, T
      <4>1. d = T + 0
        BY <1>5, <2>1 DEF T
      <4>2. T = 2 * N - 2 * M
        BY <3>2, <3>3, <3>4
      <4> QED
        BY <3>4, <4>1, <4>2, <1>3
    <3> HIDE DEF M, N
    <3> QED
      BY <3>5
  <2>5. k * E + j * 2^(es + P - b) = (l * E + i * D) + D
    <3>1. j * 2^(es + P - b) = 0
      <4>1. 2^(es + P - b) \in Nat
        BY ShapeHeightDigits
      <4> DEFINE C == 2^(es + P - b)
      <4> HIDE DEF C
      <4> QED
        BY <2>1, <4>1 DEF C
    <3>2. (l * E + (A - 1) * D) + D = l * E + A * D /\ (l + 1) * E = l * E + E
      <4> HIDE DEF E, D, A
      <4>1. (A - 1) * D + D = A * D
        BY <1>7, <1>9
      <4> QED
        BY <1>5, <1>7, <1>9, <4>1
    <3> HIDE DEF E, D, A, a, b
    <3>3. k * E = l * E + E
      BY <2>2, <3>2
    <3>4. k * E \in Int /\ l * E + i * D \in Int
      BY <1>1, <1>5, <1>7, <1>9, <2>1
    <3> QED
      BY <1>9, <2>1, <3>1, <3>2, <3>3, <3>4
  <2>6. l <= w - 3
    BY <1>1, <1>5, <1>12
  <2> HIDE DEF a, b, E, D
  <2> QED
    BY <1>4, <1>5, <1>10, <2>3, <2>4, <2>5, <2>6 DEF a, b, D
<1> QED
  BY <1>1, <1>5, <1>6, <1>11, <1>12

\* Half of what lies between two words of a regime.
LEMMA HalfStep ==
    ASSUME NEW w \in Nat, w >= 2, NEW es \in Nat, NEW P \in Nat, es + P >= w,
           NEW k \in -(w - 2) .. w - 3, NEW j \in 0 .. 2^BitsLeft(w, k) - 1
    PROVE  LET H == ShapeHeight(w, es, P, k, j)
               b == BitsLeft(w, k)
               Y == 2^((es + P) - (b + 1))
           IN  /\ b \in Nat /\ b + 2 <= es + P /\ Y \in Nat /\ H \in Int
               /\ 2^(es + P - b) = 2 * Y
               /\ ShapeHeight(w + 1, es, P, k, 2 * j + 1) = H + Y
<1> DEFINE H == ShapeHeight(w, es, P, k, j)
           b == BitsLeft(w, k)
           Y == 2^((es + P) - (b + 1))
           E == 2^(es + P)
<1>1. k \in -(w - 2) .. w - 2
  OBVIOUS
<1>2. b \in 0 .. w - 2 /\ 2^b \in Nat
  BY <1>1, ShapeSizes
<1>3. BitsLeft(w + 1, k) = b + 1
  BY ShapeBetween
<1> HIDE DEF b
<1>4. (es + P) - (b + 1) \in Nat /\ es + P - b = ((es + P) - (b + 1)) + 1 /\ es + P \in Nat /\ b + 2 <= es + P
  BY <1>2
<1> DEFINE c == (es + P) - (b + 1)
<1>5. c \in Nat /\ es + P - b = c + 1
  BY <1>4
<1>6. 2^c \in Nat /\ 2^(c + 1) = 2 * 2^c /\ E \in Nat
  BY <1>4, <1>5, PowerType, PowerStep
<1>7. es + P - (b + 1) = c
  BY <1>2
<1>8. H = k * E + j * 2^(c + 1)
  BY <1>5 DEF ShapeHeight, b
<1>9. ShapeHeight(w + 1, es, P, k, 2 * j + 1) = k * E + (2 * j + 1) * 2^c
  BY <1>3, <1>7 DEF ShapeHeight
<1>10. j \in Nat
  BY <1>2 DEF b
<1> DEFINE C == 2^c
<1> HIDE DEF c, E, H
<1>11. C \in Nat /\ 2^(c + 1) = 2 * C
  BY <1>6
<1> HIDE DEF C
<1>12. (2 * j + 1) * C = j * (2 * C) + C /\ j * (2 * C) \in Int /\ k * E \in Int
  BY <1>1, <1>6, <1>10, <1>11
<1>13. ShapeHeight(w + 1, es, P, k, 2 * j + 1) = H + C /\ H \in Int
  <2>1. ShapeHeight(w + 1, es, P, k, 2 * j + 1) = k * E + (2 * j + 1) * C
    BY <1>9 DEF C
  <2>2. H = k * E + j * (2 * C)
    BY <1>8, <1>11
  <2> QED
    BY <1>11, <1>12, <2>1, <2>2
<1>14. 2^(es + P - b) = 2 * C
  BY <1>5, <1>11
<1> QED
  BY <1>2, <1>4, <1>11, <1>13, <1>14 DEF C, c, H, b

\* The words of one bit more above and below a word, and how far off they are.
LEMMA Boundaries ==
    ASSUME NEW w \in Nat, w >= 2, NEW es \in Nat, NEW P \in Nat, es + P >= w,
           NEW d, NEW k, NEW j, Shaped(w, d, k, j), NEW c, NEW i
    PROVE  LET H == ShapeHeight(w, es, P, k, j)
               B == ShapeHeight(w + 1, es, P, c, i)
               b == BitsLeft(w, k)
               N == 2^((es + P) - (b + 2))
           IN  /\ N \in Nat /\ H \in Int
               /\ d < 2^(w - 1) - 1 /\ Shaped(w + 1, 2 * d + 1, c, i) => B = H + 2 * N
               /\ d > 1 /\ Shaped(w + 1, 2 * d - 1, c, i) => B < H - N \/ (B = H - N /\ d % 2 = 0)
<1> DEFINE H == ShapeHeight(w, es, P, k, j)
           B == ShapeHeight(w + 1, es, P, c, i)
           b == BitsLeft(w, k)
           e == (es + P) - (b + 2)
           N == 2^e
<1>1. d \in 1 .. 2^(w - 1) - 1 /\ k \in Int /\ j \in Nat
      /\ k \in -(w - 2) .. w - 2 /\ j \in 0 .. 2^b - 1 /\ d = RegimeStart(w, k) + j
  BY ShapeOrder DEF Shaped
<1>2. b \in 0 .. w - 2
  BY <1>1, ShapeSizes
<1>3. e \in Nat /\ (es + P) - (b + 1) = e + 1
  <2> HIDE DEF b
  <2> QED
    BY <1>2
<1>4. N \in Nat /\ N > 0 /\ 2^(e + 1) = 2 * N
  <2> HIDE DEF e
  <2> QED
    BY <1>3, PowerType, PowerStep
<1>5. H \in Int
  <2>1. es + P >= w - 2
    OBVIOUS
  <2> QED
    BY <2>1, ShapeHeightDigits
<1>6. ASSUME NEW u, NEW l, NEW m, Shaped(w + 1, u, l, m), Shaped(w + 1, u, c, i)
      PROVE  c = l /\ i = m
  <2>1. w + 1 \in Nat /\ w + 1 >= 2
    OBVIOUS
  <2> QED
    BY <1>6, <2>1, ShapeOrder
<1>7. ASSUME d < 2^(w - 1) - 1, Shaped(w + 1, 2 * d + 1, c, i) PROVE B = H + 2 * N
  <2>1. k # w - 2
    <3>1. ASSUME k = w - 2 PROVE FALSE
      <4>1. ~ (w - 2 < 0) /\ w - 2 - (w - 2) = 0
        OBVIOUS
      <4>2. RegimeStart(w, k) = 2^(w - 1) - 1
        BY <3>1, <4>1, PowerZero DEF RegimeStart
      <4>3. 2^(w - 1) \in Nat
        BY PowerType
      <4> QED
        BY <1>1, <1>7, <4>2, <4>3
    <3> QED
      BY <3>1
  <2>2. k \in -(w - 2) .. w - 3
    BY <1>1, <2>1
  <2>3. Shaped(w + 1, 2 * d + 1, k, 2 * j + 1)
    BY <1>1, <2>2, ShapeBetween
  <2>4. c = k /\ i = 2 * j + 1
    BY <1>6, <1>7, <2>3
  <2>5. ShapeHeight(w + 1, es, P, k, 2 * j + 1) = H + 2^((es + P) - (b + 1))
    BY <1>1, <2>2, HalfStep
  <2> QED
    BY <1>3, <1>4, <2>4, <2>5
<1>8. ASSUME d > 1, Shaped(w + 1, 2 * d - 1, c, i) PROVE B < H - N \/ (B = H - N /\ d % 2 = 0)
  <2>1. es + P >= w - 2
    OBVIOUS
  <2>2. PICK l, m :
           /\ Shaped(w, d - 1, l, m) /\ l <= w - 3 /\ l \in -(w - 2) .. w - 2
           /\ BitsLeft(w, l) <= b + 1
           /\ BitsLeft(w, l) = b + 1 => d % 2 = 0
           /\ H = ShapeHeight(w, es, P, l, m) + 2^(es + P - BitsLeft(w, l))
    BY <1>8, <2>1, ShapeBelow
  <2>3. l \in -(w - 2) .. w - 3 /\ m \in 0 .. 2^BitsLeft(w, l) - 1 /\ d - 1 = RegimeStart(w, l) + m
    BY <2>2 DEF Shaped
  <2> DEFINE t == RegimeStart(w, l) + m
             f == BitsLeft(w, l)
             Y == 2^((es + P) - (f + 1))
             G == ShapeHeight(w, es, P, l, m)
  <2>4. Shaped(w + 1, 2 * t + 1, l, 2 * m + 1)
    BY <2>3, ShapeBetween
  <2>5. 2 * t + 1 = 2 * d - 1
    <3> HIDE DEF t
    <3>1. d - 1 = t
      BY <2>3 DEF t
    <3> QED
      BY <1>1, <3>1
  <2>6. c = l /\ i = 2 * m + 1
    BY <1>6, <1>8, <2>4, <2>5
  <2>7. /\ f \in Nat /\ f + 2 <= es + P /\ Y \in Nat /\ G \in Int /\ 2^(es + P - f) = 2 * Y
        /\ ShapeHeight(w + 1, es, P, l, 2 * m + 1) = G + Y
    <3> HIDE DEF H, B, b, e, N, t
    <3>1. f \in Nat /\ f + 2 <= es + P /\ Y \in Nat /\ G \in Int
      BY <2>3, HalfStep
    <3>2. 2^(es + P - f) = 2 * Y
      BY <2>3, HalfStep
    <3>3. ShapeHeight(w + 1, es, P, l, 2 * m + 1) = G + Y
      BY <2>3, HalfStep
    <3> QED
      BY <3>1, <3>2, <3>3
  <2>8. B = H - Y
    <3>1. H = G + 2 * Y /\ B = G + Y
      BY <2>2, <2>6, <2>7
    <3> HIDE DEF G, Y, H, B
    <3> QED
      BY <2>7, <3>1
  <2>9. CASE f = b + 1
    <3>1. (es + P) - (f + 1) = e
      BY <1>2, <2>9
    <3>2. Y = N
      BY <3>1
    <3> QED
      BY <2>2, <2>8, <2>9, <3>2
  <2>10. CASE f # b + 1
    <3> DEFINE q == (es + P) - (f + 1)
    <3>1. q \in Nat /\ e + 1 <= q /\ e + 1 \in Nat
      <4> HIDE DEF b, f
      <4>1. f <= b
        BY <1>2, <2>2, <2>7, <2>10 DEF f
      <4> QED
        BY <1>2, <1>3, <2>7, <4>1
    <3> HIDE DEF q, e
    <3>2. 2^(e + 1) <= 2^q
      BY <3>1, PowerMonotone
    <3>3. 2 * N <= Y
      BY <1>4, <3>2 DEF q
    <3> HIDE DEF N, Y, H, B
    <3> QED
      BY <1>4, <1>5, <2>7, <2>8, <3>3
  <2> QED
    BY <2>9, <2>10
<1> QED
  BY <1>4, <1>5, <1>7, <1>8

-----------------------------------------------------------------------------
(* Numbers near a word.                                                    *)

\* The height h, at the precision P, is nearer to the word of the digits d than any
\* boundary to the words next to it, however near these are.
Nearest(F, P, d, h) ==
    /\ d \in 1 .. 2^(F.x - 1) - 1 /\ h \in Int
    /\ \E k, j :
          LET H == ShapeHeight(F.x, F.es, P, k, j)
              N == 2^((F.es + P) - (BitsLeft(F.x, k) + 2))
          IN  Shaped(F.x, d, k, j) /\ H - N <= h /\ h < H + 2 * N

\* Such a height lies between the boundaries of the word.
LEMMA NearestBounds ==
    ASSUME NEW F, IsFormat(F), NEW P \in Nat, F.es + P >= F.x, NEW d, NEW h, Nearest(F, P, d, h),
           NEW c, NEW i
    PROVE  LET B == ShapeHeight(F.x + 1, F.es, P, c, i) IN
           /\ d < 2^(F.x - 1) - 1 /\ Shaped(F.x + 1, 2 * d + 1, c, i) => h < B
           /\ d > 1 /\ Shaped(F.x + 1, 2 * d - 1, c, i) => B < h \/ (B = h /\ d % 2 = 0)
<1> DEFINE x == F.x
           es == F.es
           B == ShapeHeight(x + 1, es, P, c, i)
           H(k, j) == ShapeHeight(x, es, P, k, j)
           N(k) == 2^((es + P) - (BitsLeft(x, k) + 2))
<1>1. x \in Nat /\ x >= 2 /\ es \in Nat /\ es + P >= x
  BY DEF IsFormat
<1>2. PICK k, j : Shaped(x, d, k, j) /\ H(k, j) - N(k) <= h /\ h < H(k, j) + 2 * N(k)
  BY Zenon DEF Nearest
<1>3. h \in Int
  BY DEF Nearest
<1> HIDE DEF x, es
<1>4. /\ N(k) \in Nat /\ H(k, j) \in Int
      /\ d < 2^(x - 1) - 1 /\ Shaped(x + 1, 2 * d + 1, c, i) => B = H(k, j) + 2 * N(k)
      /\ d > 1 /\ Shaped(x + 1, 2 * d - 1, c, i) =>
            B < H(k, j) - N(k) \/ (B = H(k, j) - N(k) /\ d % 2 = 0)
  <2> HIDE DEF B
  <2>1. N(k) \in Nat /\ H(k, j) \in Int
    BY <1>1, <1>2, Boundaries
  <2>2. d < 2^(x - 1) - 1 /\ Shaped(x + 1, 2 * d + 1, c, i) => B = H(k, j) + 2 * N(k)
    BY <1>1, <1>2, Boundaries DEF B
  <2>3. d > 1 /\ Shaped(x + 1, 2 * d - 1, c, i) =>
            B < H(k, j) - N(k) \/ (B = H(k, j) - N(k) /\ d % 2 = 0)
    BY <1>1, <1>2, Boundaries DEF B
  <2> QED
    BY <2>1, <2>2, <2>3
<1> DEFINE M == N(k)
           G == H(k, j)
<1>5. M \in Nat /\ G \in Int /\ G - M <= h /\ h < G + 2 * M
  BY <1>2, <1>4
<1>6. d < 2^(x - 1) - 1 /\ Shaped(x + 1, 2 * d + 1, c, i) => B = G + 2 * M
  BY <1>4
<1>7. d > 1 /\ Shaped(x + 1, 2 * d - 1, c, i) => B < G - M \/ (B = G - M /\ d % 2 = 0)
  BY <1>4
<1> HIDE DEF M, G, H, N
<1>8. d > 1 /\ Shaped(x + 1, 2 * d - 1, c, i) => B \in Int
  <2> SUFFICES ASSUME d > 1, Shaped(x + 1, 2 * d - 1, c, i) PROVE B \in Int
    OBVIOUS
  <2>1. x + 1 \in Nat /\ x + 1 >= 2 /\ es + P >= (x + 1) - 2
    BY <1>1
  <2> QED
    BY <1>1, <2>1, ShapeHeightBounds
<1> HIDE DEF B
<1>9. d < 2^(x - 1) - 1 /\ Shaped(x + 1, 2 * d + 1, c, i) => h < B
  BY <1>5, <1>6
<1>10. d > 1 /\ Shaped(x + 1, 2 * d - 1, c, i) => B < h \/ (B = h /\ d % 2 = 0)
  BY <1>3, <1>5, <1>7, <1>8
<1> QED
  BY <1>9, <1>10 DEF B, x, es

\* So it is the word that the height rounds to.
LEMMA NearestRounds ==
    ASSUME NEW F, IsFormat(F), NEW d, NEW h, Nearest(F, 2 * F.n - 2, d, h)
    PROVE  RoundsHeight(F, d, h, FALSE)
<1> DEFINE x == F.x
           p == 2 * F.n - 2
           B(k, j) == ShapeHeight(x + 1, F.es, p, k, j)
           top == 2^(x - 1) - 1
<1>1. p \in Nat /\ F.es + p >= x
  BY DEF IsFormat
<1>2. d \in 1 .. top /\ top \in Int
  BY Sizes DEF Nearest
<1>3. Nearest(F, p, d, h)
  OBVIOUS
<1> HIDE DEF p, B, top, x
<1>4. \A k, j : d # 1 /\ Shaped(x + 1, 2 * d - 1, k, j) => B(k, j) < h \/ (B(k, j) = h /\ d % 2 = 0)
  <2> TAKE k, j
  <2>1. d # 1 => d > 1
    BY <1>2
  <2> QED
    BY <1>1, <1>3, <2>1, NearestBounds DEF B, x
<1>5. \A k, j : d # top /\ Shaped(x + 1, 2 * d + 1, k, j) => h < B(k, j)
  <2> SUFFICES ASSUME NEW k, NEW j, d # top, Shaped(x + 1, 2 * d + 1, k, j) PROVE h < B(k, j)
    OBVIOUS
  <2>1. d < top
    BY <1>2
  <2>2. d < 2^(F.x - 1) - 1 /\ Shaped(F.x + 1, 2 * d + 1, k, j)
    BY <2>1 DEF top, x
  <2> QED
    BY <1>1, <1>3, <2>2, NearestBounds DEF B, x
<1> QED
  BY <1>2, <1>4, <1>5, Zenon DEF RoundsHeight, B, x, top, p

\* There is one word to round to.
LEMMA RoundsUnique ==
    ASSUME NEW F, IsFormat(F), NEW t, NEW d, NEW h \in Int,
           RoundsHeight(F, t, h, FALSE), RoundsHeight(F, d, h, FALSE), t < d
    PROVE  FALSE
<1> DEFINE x == F.x
           p == 2 * F.n - 2
           B(k, j) == ShapeHeight(x + 1, F.es, p, k, j)
           top == 2^(x - 1) - 1
<1>1. /\ x \in Nat /\ x + 1 \in Nat /\ x + 1 >= 2 /\ (x + 1) - 1 = x /\ 2^(x - 1) \in Nat
      /\ 2^x = 2 * 2^(x - 1) /\ F.es \in Nat /\ p \in Nat /\ F.es + p >= (x + 1) - 2
  BY Sizes DEF IsFormat
<1>2. t \in 1 .. top /\ d \in 1 .. top
  BY DEF RoundsHeight
<1>3. t # top /\ d # 1 /\ 2 * t + 1 \in 1 .. 2^((x + 1) - 1) - 1 /\ 2 * d - 1 \in 1 .. 2^((x + 1) - 1) - 1
  BY <1>1, <1>2
<1>4. PICK k, j : Shaped(x + 1, 2 * t + 1, k, j)
  BY <1>1, <1>3, ShapeExists
<1>5. PICK l, i : Shaped(x + 1, 2 * d - 1, l, i)
  BY <1>1, <1>3, ShapeExists
<1>6. h < B(k, j) \/ (B(k, j) = h /\ t % 2 = 0)
  BY <1>3, <1>4, Zenon DEF RoundsHeight
<1>7. B(l, i) < h \/ (B(l, i) = h /\ d % 2 = 0)
  BY <1>3, <1>5, Zenon DEF RoundsHeight
<1> DEFINE a == 2 * t + 1
           b == 2 * d - 1
<1>8. a < b \/ a = b
  BY <1>2
<1>9. Shaped(x + 1, a, k, j) /\ Shaped(x + 1, b, l, i)
  BY <1>4, <1>5
<1> HIDE DEF a, b, p, x
<1>10. (a < b <=> B(k, j) < B(l, i)) /\ (a = b <=> B(k, j) = B(l, i))
  BY <1>1, <1>9, ShapeHeightOrder
<1>11. B(k, j) \in Int /\ B(l, i) \in Int
  BY <1>1, <1>9, ShapeHeightBounds
<1> HIDE DEF B
<1>12. a = b /\ t % 2 = 0 /\ d % 2 = 0
  BY <1>6, <1>7, <1>8, <1>10, <1>11
<1>13. d = t + 1
  BY <1>2, <1>12 DEF a, b
<1> QED
  BY <1>2, <1>12, <1>13

\* And no other word is.
LEMMA NearestIs ==
    ASSUME NEW F, IsFormat(F), NEW t, NEW d, NEW h, Nearest(F, 2 * F.n - 2, d, h),
           RoundsHeight(F, t, h, FALSE)
    PROVE  t = d
<1>1. RoundsHeight(F, d, h, FALSE) /\ h \in Int
  BY NearestRounds DEF Nearest
<1>2. 2^(F.x - 1) \in Nat
  BY Sizes
<1>3. t \in Int /\ d \in Int
  BY <1>1, <1>2 DEF RoundsHeight
<1>4. ~ (t < d) /\ ~ (d < t)
  BY <1>1, RoundsUnique
<1> QED
  BY <1>3, <1>4

\* A number that stands so near to a word, at whatever precision, rounds to it.
LEMMA NearestNumber ==
    ASSUME NEW F, IsFormat(F), NEW P \in Nat, P >= F.x, NEW v, NEW s, NEW g, Stands(v, P, s, g),
           NEW d, Nearest(F, P, d, Height(P, s, g)), NEW neg \in BOOLEAN
    PROVE  RoundsTo(F, Signed(F, neg, d * Ulp(F)), neg, v, Unity)
<1> DEFINE x == F.x
           z == Signed(F, neg, d * Ulp(F))
           h == Height(P, s, g)
           top == 2^(x - 1) - 1
           W(u) == Times(Value(x + 1, F.es, u), Unity)
<1>1. /\ x \in Nat /\ x + 1 \in Nat /\ x + 1 >= 2 /\ (x + 1) - 1 = x /\ 2^(x - 1) \in Nat
      /\ 2^x = 2 * 2^(x - 1) /\ F.es \in Nat /\ P >= (x + 1) - 2 /\ F.es + P >= x
  BY Sizes DEF IsFormat
<1>2. d \in 1 .. top
  BY DEF Nearest
<1>3. IsNumber(F, z) /\ Minus(F, z) = neg /\ Digits(F, z) = d
  BY <1>2, SignedDigits
<1>4. ASSUME NEW u, NEW k, NEW j, Shaped(x + 1, u, k, j)
      PROVE  LET B == ShapeHeight(x + 1, F.es, P, k, j) IN
             /\ (Less(W(u), v) <=> B < h) /\ (Same(W(u), v) <=> B = h) /\ (Less(v, W(u)) <=> h < B)
  <2> DEFINE c == Value(x + 1, F.es, u)
             w == W(u)
  <2>1. PICK t, f : Stands(c, P, t, f) /\ Height(P, t, f) = ShapeHeight(x + 1, F.es, P, k, j)
    BY <1>1, <1>4, ValueStands
  <2>2. Stands(w, P, t, f)
    <3> HIDE DEF c
    <3>1. c.num \in Nat /\ c.pow \in Int
      BY <2>1 DEF Stands
    <3>2. w.num = c.num * 1 /\ w.pow = c.pow + 0
      BY DEF Times, Unity, c
    <3>3. w.num = c.num /\ w.pow = c.pow
      BY <3>1, <3>2
    <3> HIDE DEF w
    <3> QED
      BY <2>1, <3>3 DEF Stands
  <2> HIDE DEF c, w, h
  <2>3. /\ Less(w, v) <=> Height(P, t, f) < Height(P, s, g)
        /\ Same(w, v) <=> Height(P, t, f) = Height(P, s, g)
    BY <2>2, LessIs
  <2>4. Less(v, w) <=> Height(P, s, g) < Height(P, t, f)
    BY <2>2, LessIs
  <2> QED
    BY <2>1, <2>3, <2>4 DEF w, h
<1> HIDE DEF W, z
<1>5. d = 1 \/ Less(W(2 * d - 1), v) \/ (d % 2 = 0 /\ Same(W(2 * d - 1), v))
  <2> SUFFICES ASSUME d # 1 PROVE Less(W(2 * d - 1), v) \/ (d % 2 = 0 /\ Same(W(2 * d - 1), v))
    OBVIOUS
  <2>1. 2 * d - 1 \in 1 .. 2^((x + 1) - 1) - 1 /\ d > 1
    BY <1>1, <1>2
  <2>2. PICK k, j : Shaped(x + 1, 2 * d - 1, k, j)
    BY <1>1, <2>1, ShapeExists
  <2> DEFINE B == ShapeHeight(x + 1, F.es, P, k, j)
  <2>3. B < h \/ (B = h /\ d % 2 = 0)
    BY <1>1, <2>1, <2>2, NearestBounds
  <2>4. (Less(W(2 * d - 1), v) <=> B < h) /\ (Same(W(2 * d - 1), v) <=> B = h)
    BY <1>4, <2>2
  <2> QED
    BY <2>3, <2>4
<1>6. d = top \/ Less(v, W(2 * d + 1)) \/ (d % 2 = 0 /\ Same(v, W(2 * d + 1)))
  <2> SUFFICES ASSUME d # top PROVE Less(v, W(2 * d + 1))
    OBVIOUS
  <2>1. 2 * d + 1 \in 1 .. 2^((x + 1) - 1) - 1 /\ d < top
    BY <1>1, <1>2
  <2>2. PICK k, j : Shaped(x + 1, 2 * d + 1, k, j)
    BY <1>1, <2>1, ShapeExists
  <2> DEFINE B == ShapeHeight(x + 1, F.es, P, k, j)
  <2>3. h < B
    BY <1>1, <2>1, <2>2, NearestBounds
  <2>4. Less(v, W(2 * d + 1)) <=> h < B
    BY <1>4, <2>2
  <2> QED
    BY <2>3, <2>4
<1> HIDE DEF top
<1> QED
  BY <1>3, <1>5, <1>6, Zenon DEF RoundsTo, z, W, top

-----------------------------------------------------------------------------
(* A small term added to a number or taken from it.                        *)

\* r is not above 2^(P+1) once it is shifted to the left by shift.
LEMMA SmallTerm ==
    ASSUME NEW P \in Nat, NEW shift \in Nat, NEW r \in Nat, r * 2^shift < 2^(P + 1),
           NEW c \in Nat, c <= shift, c <= P + 1
    PROVE  r < 2^((P + 1) - c) /\ 2^((P + 1) - c) \in Nat
<1> DEFINE C == 2^c
           D == 2^((P + 1) - c)
           S == 2^shift
           T == 2^(P + 1)
<1>1. C <= S
  BY PowerMonotone
<1>2. T = D * C
  <2> DEFINE q == P + 1
  <2>1. q \in Nat /\ c <= q
    OBVIOUS
  <2> HIDE DEF q
  <2>2. 2^q = 2^(q - c) * 2^c
    BY <2>1, PowerSplit
  <2> QED
    BY <2>2 DEF q
<1>3. C \in Nat /\ C > 0 /\ S \in Nat /\ D \in Nat
  <2> DEFINE q == (P + 1) - c
  <2>1. q \in Nat
    OBVIOUS
  <2> HIDE DEF q
  <2>2. 2^q \in Nat
    BY <2>1, PowerType
  <2> QED
    BY <2>2, PowerType DEF q
<1>4. r * S < T
  OBVIOUS
<1> HIDE DEF C, D, S, T
<1>5. r * C <= r * S
  BY <1>1, <1>3
<1>6. r * C < D * C
  <2>1. r * C \in Int /\ r * S \in Int /\ D * C \in Int
    BY <1>3
  <2> QED
    BY <1>2, <1>4, <1>5, <2>1
<1>7. r < D
  BY <1>3, <1>6, ScaledOrder
<1> QED
  BY <1>3, <1>7 DEF D

\* What a carry, or none, makes of the height.
LEMMA CarryHeight ==
    ASSUME NEW P \in Nat, NEW s \in Int, NEW g, Significand(P, g), NEW r \in Nat, 2 * r <= 2^P
    PROVE  LET m == g + r
               A == 2^P
           IN  /\ m < 2 * A => /\ Significand(P, m)
                               /\ Height(P, s, m) = Height(P, s, g) + r
               /\ m >= 2 * A => /\ m < 4 * A /\ Significand(P, m \div 2)
                                /\ Height(P, s, g) <= Height(P, s + 1, m \div 2)
                                /\ Height(P, s + 1, m \div 2) <= Height(P, s, g) + r
<1> DEFINE A == 2^P
           m == g + r
           h == m \div 2
<1>1. A \in Nat
  BY PowerType
<1>2. g \in A .. 2 * A - 1 /\ 2 * r <= A
  BY DEF Significand
<1> HIDE DEF A
<1>3. g \in Int /\ m \in Int
  BY <1>1, <1>2
<1>4. h \in Int /\ (m = 2 * h \/ m = 2 * h + 1)
  BY <1>3
<1>5. Height(P, s, g) = s * A + (g - A) /\ Height(P, s, m) = s * A + (m - A)
      /\ Height(P, s + 1, h) = (s + 1) * A + (h - A)
  BY DEF Height, A
<1> DEFINE B == s * A
<1>6. B \in Int /\ (s + 1) * A = B + A
  BY <1>1
<1>7. (Significand(P, m) <=> m \in A .. 2 * A - 1) /\ (Significand(P, h) <=> h \in A .. 2 * A - 1)
  BY DEF Significand, A
<1>8. m = g + r
  OBVIOUS
<1> HIDE DEF B, h, m
<1>9. Height(P, s, g) = B + (g - A) /\ Height(P, s, m) = B + (m - A)
      /\ Height(P, s + 1, h) = B + h
  BY <1>1, <1>4, <1>5, <1>6 DEF B
<1>10. m < 2 * A => Significand(P, m) /\ Height(P, s, m) = Height(P, s, g) + r
  BY <1>1, <1>2, <1>3, <1>6, <1>7, <1>8, <1>9
<1>11. m >= 2 * A => /\ m < 4 * A /\ Significand(P, h)
                     /\ Height(P, s, g) <= Height(P, s + 1, h)
                     /\ Height(P, s + 1, h) <= Height(P, s, g) + r
  BY <1>1, <1>2, <1>3, <1>4, <1>6, <1>7, <1>8, <1>9
<1> QED
  BY <1>10, <1>11 DEF A, m, h

\* What a borrow, or none, makes of the height.
LEMMA BorrowHeight ==
    ASSUME NEW P \in Nat, NEW s \in Int, NEW g, Significand(P, g), NEW r \in Nat, 2 * r <= 2^P
    PROVE  LET m == g - r
               A == 2^P
           IN  /\ m >= A => Significand(P, m) /\ Height(P, s, m) = Height(P, s, g) - r
               /\ m < A => /\ 2 * m >= A /\ Significand(P, 2 * m)
                           /\ Height(P, s - 1, 2 * m) <= Height(P, s, g)
                           /\ Height(P, s, g) - 2 * r <= Height(P, s - 1, 2 * m)
<1> DEFINE A == 2^P
           m == g - r
<1>1. A \in Nat
  BY PowerType
<1>2. g \in A .. 2 * A - 1 /\ 2 * r <= A
  BY DEF Significand
<1> HIDE DEF A
<1>3. g \in Int /\ m \in Int
  BY <1>1, <1>2
<1>4. Height(P, s, g) = s * A + (g - A) /\ Height(P, s, m) = s * A + (m - A)
      /\ Height(P, s - 1, 2 * m) = (s - 1) * A + (2 * m - A)
  BY DEF Height, A
<1> DEFINE B == s * A
<1>5. B \in Int /\ (s - 1) * A = B - A
  BY <1>1
<1>6. (Significand(P, m) <=> m \in A .. 2 * A - 1) /\ (Significand(P, 2 * m) <=> 2 * m \in A .. 2 * A - 1)
  BY DEF Significand, A
<1>7. m = g - r
  OBVIOUS
<1> HIDE DEF B, m
<1>8. Height(P, s, g) = B + (g - A) /\ Height(P, s, m) = B + (m - A)
      /\ Height(P, s - 1, 2 * m) = B + (2 * m - 2 * A)
  BY <1>1, <1>3, <1>4, <1>5 DEF B
<1>9. m >= A => Significand(P, m) /\ Height(P, s, m) = Height(P, s, g) - r
  BY <1>1, <1>2, <1>3, <1>5, <1>6, <1>7, <1>8
<1>10. m < A => /\ 2 * m >= A /\ Significand(P, 2 * m)
                /\ Height(P, s - 1, 2 * m) <= Height(P, s, g)
                /\ Height(P, s, g) - 2 * r <= Height(P, s - 1, 2 * m)
  BY <1>1, <1>2, <1>3, <1>5, <1>6, <1>7, <1>8
<1> QED
  BY <1>9, <1>10 DEF A, m

\* A height so little above or below that of a word is nearest to the word.
LEMMA FarIsNearest ==
    ASSUME NEW F, IsFormat(F), NEW P \in Nat, P >= F.x + 1, NEW d, NEW k, NEW j, Shaped(F.x, d, k, j),
           NEW shift \in Nat, NEW r \in Nat, r * 2^shift < 2^(P + 1), NEW h \in Int
    PROVE  LET H == ShapeHeight(F.x, F.es, P, k, j)
               b == BitsLeft(F.x, k)
           IN  /\ b \in Nat /\ H \in Int
               /\ shift >= b + 2 => 2 * r <= 2^P /\ (H <= h /\ h <= H + r => Nearest(F, P, d, h))
               /\ shift >= b + 4 => 2 * r <= 2^P /\ (H - 2 * r <= h /\ h <= H => Nearest(F, P, d, h))
<1> DEFINE x == F.x
           es == F.es
           H == ShapeHeight(x, es, P, k, j)
           b == BitsLeft(x, k)
           N == 2^((es + P) - (b + 2))
           q == P - (b + 2)
           A == 2^P
<1>1. x \in Nat /\ x >= 2 /\ es \in Nat /\ es + P >= x - 2 /\ P >= x + 1
  BY DEF IsFormat
<1>2. d \in 1 .. 2^(x - 1) - 1 /\ k \in -(x - 2) .. x - 2
  BY <1>1, ShapeOrder DEF Shaped
<1>3. b \in 0 .. x - 2 /\ H \in Int
  BY <1>1, <1>2, ShapeSizes, ShapeHeightDigits
<1> HIDE DEF b, H, x, es
<1>4. /\ q \in Nat /\ q + 1 \in Nat /\ q >= 1 /\ (P + 1) - (b + 2) = q + 1 /\ (P + 1) - (b + 4) = q - 1
      /\ (es + P) - (b + 2) \in Nat /\ q <= (es + P) - (b + 2) /\ q - 1 \in Nat /\ (q - 1) + 1 = q
      /\ b + 2 <= P + 1 /\ b + 4 <= P + 1 /\ q + 1 <= P /\ q <= P /\ q + 2 <= P
  BY <1>1, <1>3
<1> DEFINE e == (es + P) - (b + 2)
           f == q - 1
<1>5. 2^q <= N
  <2> HIDE DEF q, e
  <2>1. 2^q <= 2^e
    BY <1>4, PowerMonotone DEF e
  <2> QED
    BY <2>1 DEF e
<1>6. /\ 2^q \in Nat /\ 2^(q + 1) = 2 * 2^q /\ 2^q = 2 * 2^f /\ 2^f \in Nat /\ A \in Nat /\ N \in Nat
      /\ 2^((q + 1) + 1) = 2 * 2^(q + 1) /\ 2^((q + 1) + 1) <= A
  <2> DEFINE c == q + 1
             a == c + 1
  <2>1. c \in Nat /\ a \in Nat /\ a <= P /\ f \in Nat /\ f + 1 = q /\ e \in Nat
    BY <1>4
  <2> HIDE DEF q, f, c, e
  <2>2. 2^(c + 1) = 2 * 2^c
    BY <2>1, PowerStep
  <2>3. 2^(f + 1) = 2 * 2^f /\ 2^f \in Nat
    BY <2>1, PowerStep, PowerType
  <2>4. 2^(q + 1) = 2 * 2^q /\ 2^q \in Nat
    BY <1>4, PowerStep, PowerType
  <2>5. 2^a <= 2^P
    <3> HIDE DEF a
    <3> QED
      BY <2>1, PowerMonotone
  <2>6. A \in Nat /\ 2^e \in Nat
    BY <2>1, PowerType
  <2> QED
    BY <2>1, <2>2, <2>3, <2>4, <2>5, <2>6 DEF c, e
<1> DEFINE Q == 2^q
           R == 2^f
<1>7. /\ Q \in Nat /\ 2^(q + 1) = 2 * Q /\ Q = 2 * R /\ R \in Nat /\ A \in Nat /\ N \in Nat /\ Q <= N
      /\ 4 * Q <= A
  <2>1. 2^((q + 1) + 1) = 4 * Q
    BY <1>6
  <2> QED
    BY <1>5, <1>6, <2>1
<1>8. ASSUME H - N <= h, h < H + 2 * N PROVE Nearest(F, P, d, h)
  BY <1>2, <1>8 DEF Nearest, H, b, x, es
<1>9. ASSUME shift >= b + 2 PROVE 2 * r <= A /\ (H <= h /\ h <= H + r => Nearest(F, P, d, h))
  <2> DEFINE c == b + 2
  <2>1. c \in Nat /\ c <= shift /\ c <= P + 1
    BY <1>3, <1>4, <1>9
  <2> HIDE DEF c, q
  <2>2. r < 2^((P + 1) - c)
    BY <2>1, SmallTerm
  <2>3. r < 2 * Q
    BY <1>4, <1>7, <2>2 DEF c
  <2> HIDE DEF Q, R, A, N
  <2> QED
    BY <1>3, <1>7, <1>8, <2>3
<1>10. ASSUME shift >= b + 4 PROVE 2 * r <= A /\ (H - 2 * r <= h /\ h <= H => Nearest(F, P, d, h))
  <2> DEFINE c == b + 4
  <2>1. c \in Nat /\ c <= shift /\ c <= P + 1
    BY <1>3, <1>4, <1>10
  <2> HIDE DEF c, q
  <2>2. r < 2^((P + 1) - c)
    BY <2>1, SmallTerm
  <2>3. r < R
    BY <1>4, <1>7, <2>2 DEF c
  <2>4. r \in Nat
    OBVIOUS
  <2> HIDE DEF Q, R, A, N
  <2>5. H - N <= H - 2 * r /\ 2 * r <= A /\ H < H + 2 * N
    BY <1>3, <1>7, <2>3, <2>4
  <2> QED
    BY <1>3, <1>7, <1>8, <2>5
<1> QED
  BY <1>3, <1>9, <1>10 DEF H, b, x, es

-----------------------------------------------------------------------------
(* The end of addition and subtraction, which forgets exponent bits that   *)
(* are cut off.                                                            *)

\* posit_2 at its full width, where an exponent bit gets lost.
FullWidth(F) == F.px /\ F.x = F.n /\ F.es = 2

\* Where an exponent bit below the rounding bit is cut off and counts, the fraction is
\* sticky as well.
Told(F, z) ==
    /\ RegimeOf(F, z.scale) <= F.x - 2
    /\ LostExpBits(F, RegimeOf(F, z.scale)) = 2
    /\ z.scale % 4 = 3
    => FracSticky(F, z.scale, z.frac)

\* The word is the nearest one to the height h or one without room for the exponent.
PacksTo(F, u, h) ==
    \E t \in Nat : /\ u = t * Ulp(F)
                   /\ RoundsHeight(F, t, h, FALSE) \/ (FullWidth(F) /\ Crowded(F, t))

\* A bit of the exponent counts only if the one above it is set.
LEMMA ExpStickyCounts ==
    ASSUME NEW F, IsFormat(F), NEW z, z.scale \in Int, Told(F, z),
           RegimeOf(F, z.scale) <= F.x - 2, ExpSticky(F, z.scale), ~ FracSticky(F, z.scale, z.frac)
    PROVE  RoundSticky(F, z, FALSE) = RoundSticky(F, z, TRUE)
<1> DEFINE reg == RegimeOf(F, z.scale)
           lost == LostExpBits(F, reg)
           ex == z.scale % 2^F.es
           fr == ShiftedFraction(F, reg, z.frac)
<1>1. reg \in Nat /\ F.x \in Int /\ F.es \in 0 .. 2
  BY RegimeNatural DEF IsFormat
<1>2. lost \in Nat /\ lost <= F.es /\ lost > 1
  <2>1. lost > 1
    BY DEF ExpSticky
  <2> HIDE DEF reg
  <2>2. lost \in Nat /\ lost <= F.es
    <3>1. reg <= F.x - 2
      BY DEF reg
    <3> QED
      BY <1>1, <3>1 DEF LostExpBits
  <2> QED
    BY <2>1, <2>2
<1>3. lost = 2 /\ F.es = 2
  <2> HIDE DEF lost
  <2> QED
    BY <1>1, <1>2
<1>4. 2^2 = 4 /\ 2^1 = 2
  OBVIOUS
<1>5. ex \in 0 .. 3 /\ ex = z.scale % 4
  <2>1. z.scale % 4 \in 0 .. 3
    OBVIOUS
  <2> QED
    BY <1>3, <1>4, <2>1
<1>6. ex % 2 # 0
  <2>1. ex % 2^(lost - 1) # 0
    BY DEF ExpSticky
  <2>2. lost - 1 = 1
    BY <1>3
  <2> HIDE DEF lost, ex
  <2> QED
    BY <1>4, <2>1, <2>2
<1>7. ex # 3
  BY <1>3, <1>5 DEF Told
<1>8. ex = 1
  <2> HIDE DEF ex
  <2> QED
    BY <1>5, <1>6, <1>7
<1>9. HalfBit(F, lost, ex, fr) = 0
  <2>1. lost # 0 /\ lost - 1 = 1
    BY <1>3
  <2>2. Bit(1, 1) = 0
    BY <1>4 DEF Bit
  <2> HIDE DEF lost, fr, ex, reg
  <2> QED
    BY <1>8, <2>1, <2>2 DEF HalfBit
<1>10. ASSUME NEW more PROVE Round(F, z.scale, z.frac, more) = Round(F, z.scale, z.frac, TRUE)
  <2>1. RegimeLength(z.scale \div 2^F.es) = reg
    BY DEF RegimeOf
  <2> HIDE DEF reg, ex
  <2>2. HalfBit(F, lost, ex, fr) # 1
    BY <1>9
  <2> QED
    BY <2>1, <2>2 DEF Round, LayOut, RoundUp, reg, ex
<1> HIDE DEF reg, lost, ex, fr
<1>11. Round(F, z.scale, z.frac, FracSticky(F, z.scale, z.frac) \/ FALSE)
         = Round(F, z.scale, z.frac, FracSticky(F, z.scale, z.frac) \/ TRUE)
  BY <1>10
<1> QED
  BY <1>11 DEF RoundSticky

\* Packing rounds to the nearest word or to one without room for the exponent, as long as
\* the cut-off bits that it does not look at are told by the fraction.
LEMMA PackRounds ==
    ASSUME NEW F, IsFormat(F), NEW z, z.scale \in Int, Significand(2 * F.n - 2, z.frac),
           RegimeOf(F, z.scale) <= F.x - 2 =>
               \E m \in Nat : z.frac = m * 2^(RegimeOf(F, z.scale) + F.es),
           Told(F, z)
    PROVE  PacksTo(F, Packed(F, z), Height(2 * F.n - 2, z.scale, z.frac))
<1> DEFINE h == Height(2 * F.n - 2, z.scale, z.frac)
           fs == FracSticky(F, z.scale, z.frac)
           es == ExpSticky(F, z.scale)
<1>1. Packed(F, z) = RoundSticky(F, z, FALSE)
  <2>1. fs \in BOOLEAN
    BY DEF FracSticky
  <2>2. (fs \/ FALSE) = fs
    BY <2>1
  <2> QED
    BY <2>2 DEF Packed, Pack, RoundSticky
<1>2. RegimeOf(F, z.scale) \in Nat /\ F.x \in Int /\ 2^(F.x - 1) \in Nat
  BY RegimeNatural, Sizes DEF IsFormat
<1>3. CASE FullWidth(F)
  <2>1. \E t : /\ RoundSticky(F, z, FALSE) = t * Ulp(F) /\ t \in Nat
               /\ RoundsHeight(F, t, h, FALSE) \/ Crowded(F, t)
    BY RoundStickyOrCrowded
  <2> QED
    BY <1>1, <1>3, <2>1 DEF PacksTo
<1>4. CASE ~ FullWidth(F)
  <2> DEFINE more == RegimeOf(F, z.scale) <= F.x - 2 /\ es /\ ~ fs
  <2>1. RoundSticky(F, z, FALSE) = RoundSticky(F, z, more)
    <3>1. CASE more
      <4>1. RoundSticky(F, z, FALSE) = RoundSticky(F, z, TRUE)
        BY <3>1, ExpStickyCounts
      <4>2. more = TRUE
        BY <3>1
      <4> QED
        BY <4>1, <4>2
    <3>2. CASE ~ more
      <4>1. more = FALSE
        BY <3>2
      <4> QED
        BY <4>1
    <3> QED
      BY <3>1, <3>2
  <2>2. RegimeOf(F, z.scale) <= F.x - 2 => (fs \/ more <=> fs \/ es \/ FALSE)
    OBVIOUS
  <2>3. ~ (F.px /\ F.x = F.n /\ F.es = 2)
    BY <1>4 DEF FullWidth
  <2> HIDE DEF more
  <2>4. PICK t : RoundSticky(F, z, more) = t * Ulp(F) /\ RoundsHeight(F, t, h, FALSE)
    BY <2>2, <2>3, RoundStickyRounds
  <2>5. t \in Nat
    BY <1>2, <2>4 DEF RoundsHeight
  <2> QED
    BY <1>1, <2>1, <2>4, <2>5 DEF PacksTo
<1> QED
  BY <1>3, <1>4

\* The bits that the regime and the exponent push out do not matter.
LEMMA PackTruncates ==
    ASSUME NEW F, IsFormat(F), NEW s \in Int, RegimeOf(F, s) <= F.x - 2,
           NEW g, Significand(2 * F.n - 2, g)
    PROVE  LET c == 2^(RegimeOf(F, s) + F.es) IN
           \E m \in Nat :
              LET f == m * c IN
              /\ c \in Nat /\ c > 0 /\ f <= g /\ g < f + c
              /\ Significand(2 * F.n - 2, f)
              /\ Pack(F, s, g) = Pack(F, s, f)
              /\ FracSticky(F, s, g) = FracSticky(F, s, f)
              /\ \E D \in Nat : 2^(2 * F.n - 2) = D * c
<1> DEFINE reg == RegimeOf(F, s)
           p == 2 * F.n - 2
           e == reg + F.es
           A == 2^p
           c == 2^e
           m == g \div c
           f == m * c
           D == 2^(p - e)
<1>1. reg \in Nat /\ e \in Nat /\ p \in Nat /\ e <= p
  <2>1. reg \in Nat /\ reg <= F.x - 2
    BY RegimeNatural
  <2> HIDE DEF reg
  <2> QED
    BY <2>1 DEF IsFormat
<1>2. A = D * c /\ D \in Nat /\ c \in Nat /\ c > 0 /\ A \in Nat
  <2> HIDE DEF e, p
  <2>1. p - e \in Nat
    BY <1>1
  <2> QED
    BY <1>1, <2>1, PowerSplit, PowerType
<1>3. g \in A .. 2 * A - 1
  BY DEF Significand
<1>4. ASSUME NEW u \in A .. 2 * A - 1 PROVE ShiftedFraction(F, reg, u) = (u \div c) - D
  <2>1. ShiftedFraction(F, reg, u) = (u % A) \div c
    BY DEF ShiftedFraction
  <2> HIDE DEF A, c, D, e, p, reg
  <2>2. u % A = u - A
    <3>1. u = A * 1 + (u - A) /\ u - A \in 0 .. A - 1 /\ u \in Int /\ A > 0
      BY <1>2
    <3> QED
      BY <1>2, <3>1, DivisionUnique
  <2>3. u \div c = D + ((u - A) \div c) /\ (u - A) \div c \in Int
    <3>1. u - A \in Int /\ u = D * c + (u - A)
      BY <1>2
    <3> DEFINE y == u - A
    <3> HIDE DEF y
    <3>2. y \in Int /\ u = D * c + y
      BY <3>1 DEF y
    <3>3. (D * c + y) \div c = D + (y \div c)
      BY <1>2, <3>2, DivisionOfSum
    <3>4. y \div c \in Int
      BY <1>2, <3>2, Division
    <3> QED
      BY <3>2, <3>3, <3>4 DEF y
  <2> DEFINE q == (u - A) \div c
  <2> HIDE DEF q
  <2>4. u \div c = D + q /\ q \in Int /\ ShiftedFraction(F, reg, u) = q
    BY <2>1, <2>2, <2>3 DEF q
  <2> QED
    BY <1>2, <2>4
<1>5. m \in Nat /\ f <= g /\ g < f + c /\ f \in A .. 2 * A - 1 /\ f \div c = m
  <2> HIDE DEF A, c, D, e, p, reg
  <2>1. g \in Nat
    BY <1>2, <1>3
  <2>2. m \in Int /\ g = c * m + (g % c) /\ g % c \in 0 .. c - 1
    BY <1>2, <2>1, Division
  <2>3. m \in Nat
    BY <1>2, <2>1, DivisionType
  <2> HIDE DEF m
  <2>4. c * m = f /\ f \in Int
    BY <1>2, <2>2
  <2>5. f <= g /\ g < f + c
    BY <1>2, <2>2, <2>4
  <2>6. m >= D
    <3>1. ASSUME m < D PROVE FALSE
      <4>1. m + 1 <= D
        BY <1>2, <2>2, <3>1
      <4>2. (m + 1) * c <= D * c /\ (m + 1) * c = f + c
        BY <1>2, <2>2, <4>1
      <4> HIDE DEF f
      <4>3. g \in Int /\ g >= A /\ A \in Int
        BY <1>2, <1>3
      <4> QED
        BY <1>2, <2>4, <2>5, <4>2, <4>3
    <3> QED
      BY <1>2, <2>2, <3>1
  <2>7. A <= f
    BY <1>2, <2>2, <2>6
  <2>8. f \div c = m
    <3>1. f = c * m + 0 /\ 0 \in 0 .. c - 1 /\ f \in Int
      BY <1>2, <2>2, <2>4
    <3> QED
      BY <1>2, <2>2, <3>1, DivisionUnique
  <2> HIDE DEF f
  <2>9. f \in A .. 2 * A - 1
    BY <1>2, <1>3, <2>4, <2>5, <2>7
  <2> QED
    BY <2>3, <2>5, <2>8, <2>9
<1>6. ShiftedFraction(F, reg, g) = ShiftedFraction(F, reg, f)
  BY <1>3, <1>4, <1>5
<1>7. FracSticky(F, s, g) = FracSticky(F, s, f)
  BY <1>6 DEF FracSticky
<1>8. Pack(F, s, g) = Pack(F, s, f)
  <2>1. RegimeLength(s \div 2^F.es) = reg
    BY DEF RegimeOf
  <2> HIDE DEF f, reg
  <2> QED
    BY <1>6, <1>7, <2>1 DEF Pack, Round, LayOut, reg
<1>9. Significand(p, f)
  BY <1>5 DEF Significand
<1> QED
  BY <1>2, <1>5, <1>7, <1>8, <1>9

\* What is so near to a word is packed to it.
LEMMA NearestPacks ==
    ASSUME NEW F, IsFormat(F), NEW z, z.scale \in Int, Significand(2 * F.n - 2, z.frac), Told(F, z),
           NEW d, Nearest(F, 2 * F.n - 2, d, Height(2 * F.n - 2, z.scale, z.frac))
    PROVE  \E t \in Nat : Packed(F, z) = t * Ulp(F) /\ (t = d \/ (FullWidth(F) /\ Crowded(F, t)))
<1> DEFINE p == 2 * F.n - 2
           s == z.scale
           reg == RegimeOf(F, s)
           e == reg + F.es
           c == 2^e
           A == 2^p
<1>1. ASSUME NEW y, PacksTo(F, Packed(F, z), Height(p, s, y)), Nearest(F, p, d, Height(p, s, y))
      PROVE  \E t \in Nat : Packed(F, z) = t * Ulp(F) /\ (t = d \/ (FullWidth(F) /\ Crowded(F, t)))
  <2>1. PICK t \in Nat : /\ Packed(F, z) = t * Ulp(F)
                         /\ RoundsHeight(F, t, Height(p, s, y), FALSE) \/ (FullWidth(F) /\ Crowded(F, t))
    BY <1>1 DEF PacksTo
  <2>2. RoundsHeight(F, t, Height(p, s, y), FALSE) => t = d
    BY <1>1, NearestIs
  <2> QED
    BY <2>1, <2>2
<1>2. reg \in Nat /\ F.x \in Int
  BY RegimeNatural DEF IsFormat
<1>3. CASE reg > F.x - 2
  <2>1. ~ (reg <= F.x - 2)
    <3> HIDE DEF reg
    <3> QED
      BY <1>2, <1>3
  <2>2. PacksTo(F, Packed(F, z), Height(p, s, z.frac))
    BY <2>1, PackRounds
  <2> QED
    BY <1>1, <2>2
<1>4. CASE reg <= F.x - 2
  <2>1. PICK m \in Nat :
           /\ c \in Nat /\ c > 0 /\ m * c <= z.frac /\ z.frac < m * c + c
           /\ Significand(p, m * c) /\ Pack(F, s, z.frac) = Pack(F, s, m * c)
           /\ FracSticky(F, s, z.frac) = FracSticky(F, s, m * c)
           /\ \E D \in Nat : A = D * c
    <3> HIDE DEF reg, c, s
    <3>1. RegimeOf(F, s) <= F.x - 2 /\ s \in Int /\ Significand(2 * F.n - 2, z.frac)
      BY <1>4 DEF reg, s
    <3> QED
      BY <3>1, PackTruncates DEF reg, c, e
  <2>2. PICK D \in Nat : A = D * c
    BY <2>1
  <2> DEFINE f == m * c
             y == [scale |-> s, frac |-> f]
  <2>3. y.scale = s /\ y.frac = f
    OBVIOUS
  <2>4. Told(F, y) /\ Packed(F, y) = Packed(F, z)
    BY <2>1, <2>3 DEF Told, Packed
  <2>5. PacksTo(F, Packed(F, z), Height(p, s, f))
    <3> HIDE DEF y, f
    <3>1. Significand(2 * F.n - 2, y.frac) /\ y.scale \in Int /\ y.frac = m * 2^(RegimeOf(F, y.scale) + F.es)
      BY <2>1, <2>3 DEF f
    <3>2. PacksTo(F, Packed(F, y), Height(2 * F.n - 2, y.scale, y.frac))
      BY <2>4, <3>1, PackRounds
    <3> QED
      BY <2>3, <2>4, <3>2
  <2>6. Nearest(F, p, d, Height(p, s, f))
    <3> DEFINE h == Height(p, s, z.frac)
               H(k, j) == ShapeHeight(F.x, F.es, p, k, j)
               b(k) == BitsLeft(F.x, k)
               N(k) == 2^((F.es + p) - (b(k) + 2))
    <3>1. PICK k, j : Shaped(F.x, d, k, j) /\ H(k, j) - N(k) <= h /\ h < H(k, j) + 2 * N(k)
      BY Zenon DEF Nearest
    <3>2. d \in 1 .. 2^(F.x - 1) - 1 /\ h \in Int
      BY DEF Nearest
    <3>3. /\ F.x \in Nat /\ F.x >= 2 /\ F.es \in Nat /\ p \in Nat /\ F.es + p >= F.x - 2 /\ p = 2 * F.n - 2
          /\ F.x <= F.n /\ F.n \in Nat /\ F.n >= 3
      BY DEF IsFormat
    <3>4. k \in -(F.x - 2) .. F.x - 2 /\ j \in Nat /\ k \in Int
      BY <3>1, <3>3, ShapeOrder DEF Shaped
    <3> DEFINE b_ == b(k)
    <3>5. b_ \in 0 .. F.x - 2
      BY <3>3, <3>4, ShapeSizes
    <3> HIDE DEF b_, reg
    <3>6. (F.es + p) - (b_ + 2) \in Nat /\ e \in Nat /\ e <= (F.es + p) - (b_ + 2)
          /\ (F.es + p) - b_ = ((F.es + p) - (b_ + 2)) + 2 /\ F.es + p = p + F.es
          /\ F.es + p - b_ = ((F.es + p) - (b_ + 2)) + 2
      BY <1>2, <1>4, <3>3, <3>5
    <3> DEFINE r == (F.es + p) - (b_ + 2)
               M == 2^r
               B == 2^(r - e)
               S == 2^F.es
    <3>7. M = B * c /\ B \in Nat /\ M \in Nat
      <4> HIDE DEF r, e
      <4>1. r \in Nat /\ e \in Nat /\ e <= r
        BY <3>6 DEF r
      <4>2. r - e \in Nat
        BY <4>1
      <4> QED
        BY <4>1, <4>2, PowerSplit, PowerType
    <3>8. 2^(r + 2) = 4 * M /\ 2^(F.es + p) = S * A /\ S \in Nat /\ A \in Nat
      <4> HIDE DEF r
      <4>1. r \in Nat /\ r + 1 \in Nat /\ r + 2 = (r + 1) + 1
        <5>1. r \in Nat
          BY <3>6 DEF r
        <5> QED
          BY <5>1
      <4> DEFINE r1 == r + 1
      <4> HIDE DEF r1
      <4>2. 2^(r1 + 1) = 2 * 2^r1
        BY <4>1, PowerStep DEF r1
      <4>3. 2^(r + 1) = 2 * 2^r /\ 2^r \in Nat
        BY <4>1, PowerStep, PowerType
      <4>4. 2^(r + 2) = 4 * M
        BY <4>1, <4>2, <4>3 DEF r1
      <4>5. 2^(F.es + p) = 2^F.es * 2^p /\ 2^F.es \in Nat /\ 2^p \in Nat
        <5> HIDE DEF p
        <5> QED
          BY <3>3, PowerSum, PowerType
      <4> QED
        BY <4>4, <4>5
    <3>9. H(k, j) = k * (S * A) + j * (4 * M)
      <4>1. F.es + p - BitsLeft(F.x, k) = r + 2
        BY <3>6 DEF b_
      <4> HIDE DEF r
      <4> QED
        BY <3>8, <4>1 DEF ShapeHeight
    <3>10. N(k) = M
      BY DEF b_
    <3>11. h = s * A + (z.frac - A) /\ Height(p, s, f) = s * A + (f - A)
      BY DEF Height
    <3> DEFINE G == H(k, j)
               h2 == Height(p, s, f)
               a == k * (S * D) + j * (4 * B) - B
               q == s * D + (m - D)
    <3>12. a \in Int /\ q \in Int /\ s \in Int /\ z.frac \in Int /\ f \in Int
      <4>1. z.frac \in A .. 2 * A - 1
        BY DEF Significand
      <4> HIDE DEF A, S, B, c
      <4>2. k * (S * D) \in Int /\ j * (4 * B) \in Int /\ s * D \in Int
        BY <2>2, <3>4, <3>7, <3>8
      <4> QED
        BY <2>1, <2>2, <3>7, <3>8, <4>1, <4>2
    <3>13. G - M = a * c
      <4> HIDE DEF A, S, B, c, M, H
      <4>1. G - M = (k * (S * (D * c)) + j * (4 * (B * c))) - B * c
        <5> HIDE DEF G
        <5>1. G = k * (S * (D * c)) + j * (4 * (B * c)) /\ M = B * c
          <6>1. A = D * c /\ M = B * c
            BY <2>2, <3>7
          <6>2. G = k * (S * A) + j * (4 * M)
            BY <3>9 DEF G
          <6> QED
            BY <6>1, <6>2
        <5> QED
          BY <5>1
      <4>2. k * (S * (D * c)) = (k * (S * D)) * c /\ j * (4 * (B * c)) = (j * (4 * B)) * c
        <5>1. S * (D * c) = (S * D) * c /\ 4 * (B * c) = (4 * B) * c /\ S * D \in Int /\ 4 * B \in Int
          BY <2>1, <2>2, <3>7, <3>8
        <5> DEFINE U == S * D
                   V == 4 * B
        <5> HIDE DEF U, V
        <5>2. U \in Int /\ V \in Int /\ c \in Int
          BY <2>1, <5>1 DEF U, V
        <5>3. k * (U * c) = (k * U) * c /\ j * (V * c) = (j * V) * c
          BY <3>4, <5>2
        <5> QED
          BY <5>1, <5>3 DEF U, V
      <4> DEFINE U == k * (S * D)
                 V == j * (4 * B)
      <4>3. U \in Int /\ V \in Int
        BY <2>2, <3>4, <3>7, <3>8
      <4> HIDE DEF U, V
      <4>4. a = U + V - B /\ G - M = (U * c + V * c) - B * c
        BY <4>1, <4>2 DEF U, V
      <4> HIDE DEF a
      <4> QED
        BY <2>1, <3>7, <4>3, <4>4
    <3>14. h2 = q * c /\ h < q * c + c /\ h2 <= h
      <4> HIDE DEF A, c, f
      <4>1. h2 = s * (D * c) + (f - D * c) /\ h = s * (D * c) + (z.frac - D * c)
        BY <2>2, <3>11
      <4>2. s * (D * c) = (s * D) * c
        BY <2>1, <2>2, <3>12
      <4> DEFINE U == s * D
      <4>3. U \in Int
        BY <2>2, <3>12
      <4> HIDE DEF U, h2, h
      <4>4. h2 = U * c + (f - D * c) /\ h = U * c + (z.frac - D * c) /\ q = U + (m - D)
        BY <4>1, <4>2 DEF U
      <4>5. f = m * c /\ f <= z.frac /\ z.frac < f + c
        BY <2>1 DEF f
      <4>6. q * c = U * c + (m * c - D * c) /\ U * c \in Int /\ D * c \in Int /\ m * c \in Int
        <5> HIDE DEF q
        <5> QED
          BY <2>1, <2>2, <4>3, <4>4
      <4> HIDE DEF q
      <4> QED
        BY <2>1, <3>12, <4>4, <4>5, <4>6
    <3>15. G - M <= h /\ h < G + 2 * M
      BY <3>1, <3>10
    <3> HIDE DEF G, h, h2, M, a, q, c
    <3>16. a <= q
      <4>1. a * c < (q + 1) * c
        <5>1. (q + 1) * c = q * c + c /\ a * c \in Int /\ q * c \in Int
          BY <2>1, <3>12
        <5> QED
          BY <2>1, <3>2, <3>13, <3>14, <3>15, <5>1
      <4>2. a < q + 1
        <5>1. q + 1 \in Int
          BY <3>12
        <5> QED
          BY <2>1, <3>12, <4>1, <5>1, ScaledOrder
      <4> QED
        BY <3>12, <4>2
    <3>17. a * c <= q * c /\ q * c \in Int /\ a * c \in Int
      BY <2>1, <3>12, <3>16
    <3>18. G \in Int
      BY <3>3, <3>1, ShapeHeightDigits DEF G
    <3>19. G - M <= h2 /\ h2 < G + 2 * M /\ h2 \in Int
      BY <3>2, <3>7, <3>13, <3>14, <3>15, <3>17, <3>18
    <3> QED
      BY <3>1, <3>2, <3>10, <3>19, Zenon DEF Nearest, G, h2
  <2> QED
    BY <1>1, <2>5, <2>6
<1> QED
  BY <1>2, <1>3, <1>4

-----------------------------------------------------------------------------
(* The terms of a sum.                                                     *)

\* The scale and the height of a number that stands for a word.
LEMMA StandsOfShape ==
    ASSUME NEW w \in Nat, w >= 2, NEW es \in Nat, NEW P \in Nat, P >= w - 2,
           NEW u, NEW k, NEW j, Shaped(w, u, k, j), NEW s, NEW g, Stands(Value(w, es, u), P, s, g)
    PROVE  Height(P, s, g) = ShapeHeight(w, es, P, k, j)
<1> DEFINE v == Value(w, es, u)
<1>1. PICK t, f : Stands(v, P, t, f) /\ Height(P, t, f) = ShapeHeight(w, es, P, k, j)
  BY ValueStands
<1> HIDE DEF v
<1>2. Size(v) = s /\ Size(v) = t
  BY <1>1, SizeIs DEF v
<1>3. g = v.num * 2^(P - (s - v.pow)) /\ f = v.num * 2^(P - (t - v.pow))
  BY <1>1 DEF Stands, v
<1> QED
  BY <1>1, <1>2, <1>3

\* A word decoded to the double width stands where its number does.
LEMMA WideStands ==
    ASSUME NEW F, IsFormat(F), NEW d \in 1 .. 2^(F.x - 1) - 1
    PROVE  LET w == Wide(F, d * Ulp(F)) IN Stands(Value(F.x, F.es, d), 2 * F.n - 2, w.scale, w.frac)
<1> DEFINE s == Scan(F, d * Ulp(F))
           v == Value(F.x, F.es, d)
           w == Wide(F, d * Ulp(F))
           e == Scale(F, s)
           f == e - v.pow
           q == F.n - 1
           p == 2 * F.n - 2
           A == 2^q
           B == 2^(q - f)
           C == 2^(p - f)
<1>1. Stands(v, q, e, s.frac)
  BY ScanStands
<1>2. w.scale = e /\ w.frac = s.frac * A
  BY DEF Wide, Widened
<1>3. q \in Nat /\ p \in Nat /\ p = q + q /\ 2^p = A * A /\ A \in Nat /\ A > 0
  BY WideSizes DEF IsFormat
<1> HIDE DEF v, s
<1>4. /\ e \in Int /\ Significand(q, s.frac) /\ v.num \in Nat /\ v.pow \in Int /\ f \in 0 .. q
      /\ v.num \in 2^f .. 2 * 2^f - 1 /\ s.frac = v.num * B
  BY <1>1 DEF Stands
<1>5. C = B * A /\ B \in Nat
  <2> HIDE DEF f, q, p
  <2>1. q - f \in Nat /\ p - f = (q - f) + q
    BY <1>3, <1>4
  <2> DEFINE c == q - f
  <2>2. c \in Nat /\ p - f = c + q
    BY <2>1
  <2> HIDE DEF c
  <2>3. 2^(c + q) = 2^c * 2^q /\ 2^c \in Nat
    BY <1>3, <2>2, PowerSum, PowerType
  <2> QED
    BY <2>2, <2>3 DEF c
<1> HIDE DEF A, B, C
<1>6. s.frac \in A .. 2 * A - 1
  BY <1>4 DEF Significand, A
<1>7. s.frac * A \in A * A .. 2 * (A * A) - 1
  <2> DEFINE y == s.frac
  <2> HIDE DEF y
  <2>1. y \in A .. 2 * A - 1
    BY <1>6 DEF y
  <2>2. A * A <= y * A /\ (y + 1) * A <= (2 * A) * A /\ y * A \in Int /\ A * A \in Int
    BY <1>3, <2>1
  <2>3. (y + 1) * A = y * A + A /\ (2 * A) * A = 2 * (A * A)
    BY <1>3, <2>1
  <2>4. y * A \in A * A .. 2 * (A * A) - 1
    BY <1>3, <2>2, <2>3
  <2> QED
    BY <2>4 DEF y
<1>8. Significand(p, s.frac * A)
  BY <1>3, <1>7 DEF Significand
<1>9. s.frac * A = v.num * C
  BY <1>3, <1>4, <1>5
<1>10. f \in 0 .. p
  <2> HIDE DEF f, p, q
  <2> QED
    BY <1>3, <1>4
<1> HIDE DEF w
<1> QED
  BY <1>2, <1>4, <1>8, <1>9, <1>10 DEF Stands, C, v, w

\* The word of the digits d stands for v: the scale s and the significand g of its
\* wide form, its regime k, and the b bits behind it, of which f are the fraction.
Term(F, d, v, s, g, k, b, f) ==
    /\ v = Value(F.x, F.es, d) /\ s = Wide(F, d * Ulp(F)).scale /\ g = Wide(F, d * Ulp(F)).frac
    /\ Stands(v, 2 * F.n - 2, s, g) /\ IsPositive(v) /\ s \in Int
    /\ k \in -(F.x - 2) .. F.x - 2 /\ b = BitsLeft(F.x, k) /\ b \in 0 .. F.x - 2
    /\ k = s \div 2^F.es
    /\ f = s - v.pow /\ f = IF F.es >= b THEN 0 ELSE b - F.es
    /\ b = 0 => s % 2^F.es = 0 /\ g = 2^(2 * F.n - 2)
    /\ \E j : Shaped(F.x, d, k, j)

\* Every positive word is a term.
LEMMA TermOf ==
    ASSUME NEW F, IsFormat(F), NEW d \in 1 .. 2^(F.x - 1) - 1
    PROVE  \E v, s, g, k, b, f : Term(F, d, v, s, g, k, b, f)
<1> DEFINE p == 2 * F.n - 2
           x == F.x
           es == F.es
           v == Value(x, es, d)
           w == Wide(F, d * Ulp(F))
           s == w.scale
           g == w.frac
           S == 2^es
           A == 2^p
           E == 2^(es + p)
           h == Height(p, s, g)
<1>1. x \in Nat /\ x >= 2 /\ p \in Nat /\ p >= x - 2 /\ es \in Nat /\ es + p >= x - 2
  BY DEF IsFormat
<1>2. PICK k, j : Shaped(x, d, k, j)
  BY <1>1, ShapeExists
<1> DEFINE b == BitsLeft(x, k)
           f == s - v.pow
<1>3. k \in -(x - 2) .. x - 2 /\ j \in 0 .. 2^b - 1
  BY <1>2 DEF Shaped
<1>4. b \in 0 .. x - 2
  BY <1>1, <1>3, ShapeSizes
<1>5. Stands(v, p, s, g)
  BY WideStands
<1>6. v.num \in Nat /\ v.pow \in Int /\ s \in Int /\ v.num >= 1 /\ Significand(p, g)
  <2> HIDE DEF v, s, g
  <2> QED
    BY <1>1, <1>5, SizeIs DEF Stands
<1>7. f = IF es >= b THEN 0 ELSE b - es
  BY <1>1, <1>2, <1>5, FractionOf
<1>8. h = ShapeHeight(x, es, p, k, j)
  BY <1>1, <1>2, <1>5, StandsOfShape
<1>9. k * E <= h /\ h < (k + 1) * E /\ h \in Int /\ k \in Int
  <2> DEFINE H == ShapeHeight(x, es, p, k, j)
  <2>1. k * E <= H /\ H < (k + 1) * E /\ H \in Int /\ k \in Int
    <3> HIDE DEF x, es, p, E
    <3> QED
      BY <1>1, <1>2, ShapeHeightBounds DEF E
  <2> HIDE DEF H, E, h
  <2> QED
    BY <1>8, <2>1 DEF H
<1> DEFINE c == s \div S
           G == Following(F, s % S, g)
<1>10. c \in Int /\ E \in Nat /\ E > 0 /\ G \in 0 .. E - 1 /\ s % S \in 0 .. S - 1 /\ h = c * E + G
  <2> HIDE DEF s, g
  <2> QED
    BY <1>6, HeightDigits
<1>11. c = k /\ h = k * E + G
  <2> HIDE DEF c, E, G, h
  <2>1. k * E < (c + 1) * E /\ c * E < (k + 1) * E
    <3>1. (c + 1) * E = c * E + E /\ c * E \in Int /\ k * E \in Int /\ (k + 1) * E \in Int
      BY <1>9, <1>10
    <3> QED
      BY <1>9, <1>10, <3>1
  <2>2. k < c + 1 /\ c < k + 1
    <3>1. c + 1 \in Int /\ k + 1 \in Int
      BY <1>9, <1>10
    <3> QED
      BY <1>9, <1>10, <2>1, <3>1, ScaledOrder
  <2> QED
    BY <1>9, <1>10, <2>2
<1>12. ASSUME b = 0 PROVE s % S = 0 /\ g = A
  <2>1. j = 0
    <3>1. 2^b = 1
      BY <1>12, PowerZero
    <3> HIDE DEF b
    <3> QED
      BY <1>3, <3>1
  <2>2. h = k * E
    <3>1. es + p - b \in Nat
      <4> HIDE DEF b
      <4> QED
        BY <1>1, <1>4
    <3> DEFINE q == es + p - b
    <3> HIDE DEF q
    <3>2. 2^q \in Nat
      BY <3>1, PowerType DEF q
    <3> DEFINE Q == 2^q
    <3> HIDE DEF Q
    <3>3. j * Q = 0
      BY <2>1, <3>2 DEF Q
    <3> HIDE DEF E
    <3>4. h = k * E + 0
      BY <1>8, <3>3 DEF ShapeHeight, Q, q, E
    <3>5. k * E \in Int
      BY <1>9, <1>10
    <3> QED
      BY <3>4, <3>5
  <2>3. G = 0
    <3> HIDE DEF G, h, E
    <3>1. k * E \in Int
      BY <1>9, <1>10
    <3> QED
      BY <1>10, <1>11, <2>2, <3>1
  <2>4. A \in Nat /\ A > 0 /\ g \in A .. 2 * A - 1
    BY <1>1, <1>6, PowerType DEF Significand
  <2>5. G = (s % S) * A + (g % A)
    BY DEF Following
  <2>6. g % A = g - A
    <3> HIDE DEF A, g
    <3>1. g = A * 1 + (g - A) /\ g - A \in 0 .. A - 1 /\ g \in Int
      BY <2>4
    <3> QED
      BY <2>4, <3>1, DivisionUnique
  <2> DEFINE y == s % S
  <2>7. y \in Nat
    BY <1>10
  <2> HIDE DEF A, g, y, G
  <2>8. y * A = 0 /\ g - A = 0
    <3>1. y * A \in Nat /\ g - A \in Nat
      BY <2>4, <2>7
    <3>2. y * A + (g - A) = 0
      BY <2>3, <2>5, <2>6 DEF y
    <3> QED
      BY <3>1, <3>2
  <2>9. y = 0
    BY <2>4, <2>7, <2>8
  <2> QED
    BY <2>4, <2>8, <2>9 DEF y
<1>13. IsPositive(v)
  BY <1>6 DEF IsPositive
<1>14. Term(F, d, v, s, g, k, b, f)
  <2> HIDE DEF v, s, g, b, f, S
  <2>1. v = Value(F.x, F.es, d) /\ s = Wide(F, d * Ulp(F)).scale /\ g = Wide(F, d * Ulp(F)).frac
    BY DEF v, s, g
  <2>2. k = s \div 2^F.es /\ (b = 0 => s % 2^F.es = 0 /\ g = 2^(2 * F.n - 2))
    BY <1>11, <1>12 DEF S
  <2>3. b = BitsLeft(F.x, k) /\ f = s - v.pow
    BY DEF b, f
  <2> QED
    BY <1>2, <1>3, <1>4, <1>5, <1>6, <1>7, <1>13, <2>1, <2>2, <2>3 DEF Term
<1> HIDE DEF v, s, g, b, f
<1> QED
  BY <1>14

\* The positive word u is v rounded, whatever the sign is, or one without room for the
\* exponent.
Yields(F, u, v) ==
    \E t \in Nat :
       /\ u = t * Ulp(F)
       /\ \/ \A neg \in BOOLEAN : RoundsTo(F, Signed(F, neg, u), neg, v, Unity)
          \/ FullWidth(F) /\ Crowded(F, t)

\* A sum or a difference that is computed exactly is rounded once.
LEMMA ExactRounds ==
    ASSUME NEW F, IsFormat(F), NEW scale \in Int, NEW frac \in 1 .. 2^(2 * F.n) - 1,
           NEW v, IsPositive(v), scale - v.pow <= 2 * F.n - 3,
           frac = v.num * 2^((2 * F.n - 2) - (scale - v.pow)),
           NEW z, z = Normal(F, scale, frac),
           RegimeOf(F, z.scale) <= F.x - 2 =>
               z.scale - v.pow + (RegimeOf(F, z.scale) + F.es) <= 2 * F.n - 2,
           Told(F, z)
    PROVE  Yields(F, Packed(F, z), v)
<1> DEFINE p == 2 * F.n - 2
           f == z.scale - v.pow
<1>1. Stands(v, p, z.scale, z.frac) /\ z.scale \in Int
  BY NormalStands DEF IsPositive
<1>2. Significand(p, z.frac) /\ f \in 0 .. p /\ v.num \in Nat /\ z.frac = v.num * 2^(p - f)
  BY <1>1 DEF Stands
<1>3. RegimeOf(F, z.scale) <= F.x - 2 =>
         \E m \in Nat : z.frac = m * 2^(RegimeOf(F, z.scale) + F.es)
  <2> SUFFICES ASSUME RegimeOf(F, z.scale) <= F.x - 2
               PROVE  \E m \in Nat : z.frac = m * 2^(RegimeOf(F, z.scale) + F.es)
    OBVIOUS
  <2> DEFINE q == RegimeOf(F, z.scale) + F.es
             c == p - f
  <2>1. RegimeOf(F, z.scale) \in Nat /\ F.es \in Nat /\ p \in Int
    BY <1>1, RegimeNatural DEF IsFormat
  <2>2. q \in Nat /\ f + q <= p
    BY <2>1
  <2>3. c \in Int /\ c >= q
    <3> HIDE DEF q, f, p
    <3> QED
      BY <1>2, <2>1, <2>2
  <2> HIDE DEF q, c
  <2>4. \E i \in Nat : v.num * 2^c = i * 2^q
    BY <1>2, <2>2, <2>3, ZerosBehind
  <2> QED
    BY <1>2, <2>4 DEF q, c
<1>4. PacksTo(F, Packed(F, z), Height(p, z.scale, z.frac))
  BY <1>1, <1>2, <1>3, PackRounds
<1>5. Compares(F, v, Unity, Height(p, z.scale, z.frac), FALSE)
  BY <1>1, ComparesNumber
<1>6. PICK t \in Nat : /\ Packed(F, z) = t * Ulp(F)
                       /\ \/ RoundsHeight(F, t, Height(p, z.scale, z.frac), FALSE)
                          \/ FullWidth(F) /\ Crowded(F, t)
  BY <1>4 DEF PacksTo
<1>7. ASSUME RoundsHeight(F, t, Height(p, z.scale, z.frac), FALSE), NEW neg \in BOOLEAN
      PROVE  RoundsTo(F, Signed(F, neg, t * Ulp(F)), neg, v, Unity)
  BY <1>5, <1>7, RoundsToNumber
<1> QED
  BY <1>6, <1>7 DEF Yields

\* A term at the scale of the larger one, in units of 2^m.
LEMMA AlignedTerm ==
    ASSUME NEW p \in Nat, NEW w, NEW s, NEW g, Stands(w, p, s, g), NEW scale \in Int, s <= scale,
           NEW m \in Int, m <= w.pow, scale - m <= p
    PROVE  /\ g \div 2^(scale - s) = InUnits(w, m) * 2^(p - (scale - m))
           /\ g = (InUnits(w, m) * 2^(p - (scale - m))) * 2^(scale - s)
           /\ InUnits(w, m) \in Nat /\ 2^(p - (scale - m)) \in Nat
<1> DEFINE a == w.num
           d == scale - s
           q == p - (scale - m)
           c == w.pow - m
           D == 2^d
           Q == 2^q
           C == 2^c
<1>1. s \in Int /\ w.pow \in Int /\ a \in Nat /\ s - w.pow \in 0 .. p /\ g = a * 2^(p - (s - w.pow))
  BY DEF Stands
<1>2. d \in Nat /\ q \in Nat /\ c \in Nat /\ p - (s - w.pow) = (c + q) + d /\ c + q \in Nat
  BY <1>1
<1> DEFINE e == c + q
<1>3. e \in Nat /\ p - (s - w.pow) = e + d
  BY <1>2
<1> HIDE DEF c, q, d
<1>4. 2^e = C * Q /\ C \in Nat /\ Q \in Nat /\ D \in Nat /\ D > 0
  <2>1. 2^(c + q) = 2^c * 2^q
    BY <1>2, PowerSum
  <2>2. 2^c \in Nat /\ 2^q \in Nat /\ 2^d \in Nat /\ 2^d >= 1
    BY <1>2, PowerType
  <2> QED
    BY <2>1, <2>2
<1> HIDE DEF e
<1>5. 2^(e + d) = 2^e * D
  BY <1>2, <1>3, PowerSum
<1>6. g = a * ((C * Q) * D)
  BY <1>1, <1>3, <1>4, <1>5
<1> HIDE DEF C, Q, D, a
<1> DEFINE y == (a * C) * Q
<1>7. a * ((C * Q) * D) = y * D /\ y \in Nat /\ a * C \in Nat
  <2>1. C * Q \in Nat /\ a * (C * Q) = y
    BY <1>1, <1>4
  <2> DEFINE U == C * Q
  <2> HIDE DEF U
  <2>2. U \in Nat /\ a * U = y
    BY <2>1 DEF U
  <2>3. a * (U * D) = (a * U) * D
    BY <1>1, <1>4, <2>2
  <2>4. y \in Nat /\ a * C \in Nat
    BY <1>1, <1>4
  <2> QED
    BY <2>2, <2>3, <2>4 DEF U
<1> HIDE DEF y
<1>8. (y * D) \div D = y
  <2>1. y * D = D * y + 0 /\ 0 \in 0 .. D - 1 /\ y * D \in Int /\ y \in Int
    BY <1>4, <1>7
  <2> DEFINE u == y * D
  <2> HIDE DEF u
  <2>2. u = D * y + 0 /\ u \in Int
    BY <2>1 DEF u
  <2>3. u \div D = y
    BY <1>4, <2>1, <2>2, DivisionUnique
  <2> QED
    BY <2>3 DEF u
<1> QED
  BY <1>4, <1>6, <1>7, <1>8 DEF InUnits, y, a, C, Q, D, c, q, d

\* The sum or the difference, however small the second term is.
ExactPlus(v, w, sgn) ==
    [num |-> Aligned(v, w) + sgn * Aligned(w, v), pow |-> Min({v.pow, w.pow})]

\* It counts the smaller unit of its terms.
LEMMA ExactInUnits ==
    ASSUME NEW v, IsPositive(v), NEW w, IsPositive(w), NEW sgn
    PROVE  LET m == Min({v.pow, w.pow})
               V == ExactPlus(v, w, sgn)
           IN  /\ m \in Int /\ m <= v.pow /\ m <= w.pow /\ (m = v.pow \/ m = w.pow)
               /\ V.num = InUnits(v, m) + sgn * InUnits(w, m) /\ V.pow = m
<1> DEFINE m == Min({v.pow, w.pow})
           V == ExactPlus(v, w, sgn)
<1>1. v.pow \in Int /\ w.pow \in Int /\ v.pow - w.pow \in Int /\ w.pow - v.pow \in Int
  BY DEF IsPositive
<1>2. m = IF v.pow >= w.pow THEN w.pow ELSE v.pow
  BY <1>1, MaxOfTwo
<1>3. Max({0, v.pow - w.pow}) = v.pow - m /\ Max({0, w.pow - v.pow}) = w.pow - m
  <2>1. /\ Max({0, v.pow - w.pow}) = IF 0 >= v.pow - w.pow THEN 0 ELSE v.pow - w.pow
        /\ Max({0, w.pow - v.pow}) = IF 0 >= w.pow - v.pow THEN 0 ELSE w.pow - v.pow
    BY <1>1, MaxOfTwo
  <2> HIDE DEF m
  <2> QED
    BY <1>1, <1>2, <2>1
<1>4. V = [num |-> Aligned(v, w) + sgn * Aligned(w, v), pow |-> m]
  BY DEF ExactPlus
<1>5. Aligned(v, w) = InUnits(v, m) /\ Aligned(w, v) = InUnits(w, m)
  BY <1>3 DEF Aligned, InUnits
<1> HIDE DEF m
<1>6. m \in Int /\ m <= v.pow /\ m <= w.pow /\ (m = v.pow \/ m = w.pow)
  BY <1>1, <1>2
<1> QED
  BY <1>4, <1>5, <1>6 DEF m

\* So does the sum of the reference, unless it replaces the smaller term.
LEMMA PlusInUnits ==
    ASSUME NEW v, IsPositive(v), NEW w, IsPositive(w), NEW sgn, ~ (Size(w) < v.pow - 10)
    PROVE  LET m == Min({v.pow, w.pow})
               V == Plus(v, w, sgn)
           IN  /\ m \in Int /\ m <= v.pow /\ m <= w.pow /\ (m = v.pow \/ m = w.pow)
               /\ V.num = InUnits(v, m) + sgn * InUnits(w, m) /\ V.pow = m
<1>1. Plus(v, w, sgn) = ExactPlus(v, w, sgn)
  BY DEF Plus, ExactPlus
<1> QED
  BY <1>1, ExactInUnits

\* A regime gets no longer than the scale moves.
LEMMA RegimeMoves ==
    ASSUME NEW F, IsFormat(F), NEW s \in Int, NEW c \in Nat, NEW u \in {s + c, s - c}
    PROVE  RegimeOf(F, u) <= RegimeOf(F, s) + c /\ RegimeOf(F, u) \in Nat /\ RegimeOf(F, s) \in Nat
<1> DEFINE S == 2^F.es
           k == s \div S
           l == u \div S
<1>1. S \in {1, 2, 4} /\ u \in Int
  <2>1. F.es \in 0 .. 2
    BY DEF IsFormat
  <2>2. S \in {1, 2, 4}
    BY <2>1, SmallPowers
  <2> HIDE DEF S
  <2> QED
    BY <2>2
<1>2. RegimeOf(F, u) \in Nat /\ RegimeOf(F, s) \in Nat
  BY <1>1, RegimeNatural
<1>3. RegimeOf(F, u) = RegimeLength(l) /\ RegimeOf(F, s) = RegimeLength(k)
  BY DEF RegimeOf
<1> HIDE DEF S
<1>4. k \in Int /\ s = S * k + (s % S) /\ s % S \in 0 .. S - 1
  BY <1>1, Division
<1>5. l \in Int /\ u = S * l + (u % S) /\ u % S \in 0 .. S - 1
  BY <1>1, Division
<1> HIDE DEF k, l
<1>6. k - c <= l /\ l <= k + c
  <2> DEFINE a == s % S
             e == u % S
  <2> HIDE DEF a, e
  <2>1. s = S * k + a /\ a \in 0 .. S - 1 /\ u = S * l + e /\ e \in 0 .. S - 1
    BY <1>4, <1>5 DEF a, e
  <2>2. CASE S = 1
    BY <1>4, <1>5, <2>1, <2>2
  <2>3. CASE S = 2
    BY <1>4, <1>5, <2>1, <2>3
  <2>4. CASE S = 4
    BY <1>4, <1>5, <2>1, <2>4
  <2> QED
    BY <1>1, <2>2, <2>3, <2>4
<1>7. RegimeLength(l) <= RegimeLength(k) + c
  BY <1>4, <1>5, <1>6 DEF RegimeLength
<1> QED
  BY <1>2, <1>3, <1>7

\* What is left of a word of three bits or more.
LEMMA TermSizes ==
    ASSUME NEW F, IsFormat(F), F.x >= 3, NEW d, NEW v, NEW s, NEW g, NEW k, NEW b, NEW f,
           Term(F, d, v, s, g, k, b, f)
    PROVE  /\ b \in Nat /\ b <= F.x - 3 /\ f \in Nat /\ s \in Int /\ v.pow \in Int /\ f = s - v.pow
           /\ F.es >= b => f = 0
           /\ F.es < b => f = b - F.es
           /\ b = F.x - 2 - RegimeLength(k) \/ (k = F.x - 2 /\ b = 0)
           /\ RegimeLength(k) = RegimeOf(F, s) /\ k \in Int
           /\ F.x \in Nat /\ F.x <= F.n /\ F.n \in Nat /\ F.es \in 0 .. 2 /\ F.n >= F.es + 3
<1>1. F.x \in Nat /\ F.x <= F.n /\ F.n \in Nat /\ F.es \in 0 .. 2 /\ F.n >= F.es + 3
  BY DEF IsFormat
<1>2. /\ s \in Int /\ k \in -(F.x - 2) .. F.x - 2 /\ b = BitsLeft(F.x, k) /\ b \in 0 .. F.x - 2
      /\ k = s \div 2^F.es /\ IsPositive(v)
      /\ f = s - v.pow /\ f = IF F.es >= b THEN 0 ELSE b - F.es
  BY DEF Term
<1>3. v.pow \in Int
  BY <1>2 DEF IsPositive
<1>4. RegimeLength(k) = RegimeOf(F, s)
  BY <1>2 DEF RegimeOf
<1>5. b <= F.x - 3 /\ (b = F.x - 2 - RegimeLength(k) \/ (k = F.x - 2 /\ b = 0))
  BY <1>1, <1>2 DEF BitsLeft, RegimeLength
<1> QED
  BY <1>1, <1>2, <1>3, <1>4, <1>5

\* Near terms: everything of the exact result has its place behind the regime.
LEMMA NearRoom ==
    ASSUME NEW F, IsFormat(F), F.x >= 3,
           NEW d, NEW v, NEW s, NEW g, NEW k, NEW b, NEW f, Term(F, d, v, s, g, k, b, f),
           NEW e, NEW w, NEW t, NEW h, NEW l, NEW c, NEW q, Term(F, e, w, t, h, l, c, q),
           NEW a \in Nat, a <= 1, NEW u \in Int, u = s + a \/ u <= s, t <= s, s - t + 2 * a <= b + 3,
           RegimeOf(F, u) <= F.x - 2
    PROVE  /\ u - v.pow + (RegimeOf(F, u) + F.es) <= 2 * F.n - 2
           /\ u - w.pow + (RegimeOf(F, u) + F.es) <= 2 * F.n - 2
<1> DEFINE reg == RegimeOf(F, u)
           r == RegimeLength(k)
           m == IF u = s + a THEN a ELSE s - u
<1>1. /\ b \in Nat /\ b <= F.x - 3 /\ f \in Nat /\ s \in Int /\ v.pow \in Int /\ f = s - v.pow
      /\ F.es >= b => f = 0
      /\ F.es < b => f = b - F.es
      /\ b = F.x - 2 - r \/ (k = F.x - 2 /\ b = 0)
      /\ r = RegimeOf(F, s) /\ k \in Int
      /\ F.x \in Nat /\ F.x <= F.n /\ F.n \in Nat /\ F.es \in 0 .. 2 /\ F.n >= F.es + 3
  BY TermSizes
<1>2. /\ c \in Nat /\ c <= F.x - 3 /\ q \in Nat /\ t \in Int /\ w.pow \in Int /\ q = t - w.pow
      /\ F.es >= c => q = 0
      /\ F.es < c => q = c - F.es
  BY TermSizes
<1>3. m \in Nat /\ u \in {s + m, s - m}
  BY <1>1
<1> HIDE DEF m, reg, r
<1>4. reg <= r + m /\ reg \in Nat /\ r \in Nat
  BY <1>1, <1>3, RegimeMoves DEF reg
<1>5. reg <= F.x - 2
  BY DEF reg
<1>6. reg + b <= F.x - 2 + m
  BY <1>1, <1>3, <1>4, <1>5
<1>7. u - s + m <= 2 * a /\ u - s <= a
  <2>1. CASE u = s + a
    BY <1>1, <2>1 DEF m
  <2>2. CASE u # s + a
    BY <1>1, <2>2 DEF m
  <2> QED
    BY <2>1, <2>2
<1>8. u - v.pow = (u - s) + f /\ u - w.pow = (u - s) + (s - t) + q
  BY <1>1, <1>2
<1>9. q + F.es <= F.n - 3
  BY <1>1, <1>2
<1>10. f + F.es - b <= F.n - 3
  BY <1>1
<1> DEFINE y == u - s
           n == s - t
<1>11. y \in Int /\ n \in Int /\ y + m <= 2 * a /\ n + 2 * a <= b + 3 /\ u - v.pow = y + f /\ u - w.pow = y + n + q
  BY <1>1, <1>2, <1>7, <1>8
<1> HIDE DEF y, n
<1> DEFINE E == F.es
<1>14. y \in Int /\ n \in Int /\ f \in Int /\ q \in Int /\ reg \in Int /\ E \in Int /\ b \in Int /\ m \in Int
  BY <1>1, <1>2, <1>3, <1>4, <1>11
<1> HIDE DEF E
<1>12. (y + f) + (reg + F.es) <= 2 * F.n - 2
  <2>1. y + reg + b <= 2 * a + (F.x - 2)
    BY <1>1, <1>3, <1>4, <1>6, <1>11
  <2>2. f + F.es <= (F.n - 3) + b
    BY <1>1, <1>10
  <2>3. (y + f) + (reg + F.es) = ((y + reg + b) + (f + F.es)) - b
    <3>1. (y + f) + (reg + E) = ((y + reg + b) + (f + E)) - b
      BY <1>14
    <3> QED
      BY <3>1 DEF E
  <2>4. a \in Nat /\ a <= 1 /\ F.x + F.n + 2 * a <= 2 * F.n + 2
    BY <1>1
  <2> DEFINE U == y + reg + b
             V == f + F.es
  <2>5. U \in Int /\ V \in Int
    BY <1>1, <1>4, <1>11
  <2> HIDE DEF U, V
  <2>6. (y + f) + (reg + F.es) = (U + V) - b /\ U <= 2 * a + (F.x - 2) /\ V <= (F.n - 3) + b
    BY <2>1, <2>2, <2>3 DEF U, V
  <2> QED
    BY <1>1, <2>4, <2>5, <2>6
<1>13. (y + n + q) + (reg + F.es) <= 2 * F.n - 2
  <2>1. y + reg + b <= 2 * a + (F.x - 2)
    BY <1>1, <1>3, <1>4, <1>6, <1>11
  <2>2. q + E <= F.n - 3
    BY <1>9 DEF E
  <2>3. n + 2 * a <= b + 3
    BY <1>11
  <2> DEFINE X == F.x
             N == F.n
  <2>4. X \in Nat /\ N \in Nat /\ X <= N
    BY <1>1
  <2> HIDE DEF X, N
  <2>5. (y + n + q) + (reg + E) <= 2 * N - 2
    <3>1. y + reg + b <= 2 * a + (X - 2) /\ q + E <= N - 3
      BY <2>1, <2>2 DEF X, N
    <3> QED
      BY <1>14, <2>3, <2>4, <3>1
  <2> QED
    BY <2>5 DEF E, N
<1> QED
  BY <1>11, <1>12, <1>13 DEF reg

\* The three ways to bring the leading one to its place.
LEMMA NormalIs ==
    ASSUME NEW F, IsFormat(F), NEW scale \in Int, NEW frac \in Nat
    PROVE  LET z == Normal(F, scale, frac)
               A == 2^(2 * F.n - 2)
           IN  /\ A \in Nat
               /\ frac >= A /\ frac < 2 * A => z.scale = scale /\ z.frac = frac
               /\ frac >= 2 * A /\ frac < 4 * A => z.scale = scale + 1 /\ z.frac = frac \div 2
               /\ 2 * frac >= A /\ frac < A => z.scale = scale - 1 /\ z.frac = 2 * frac
<1> DEFINE z == Normal(F, scale, frac)
           A == 2^(2 * F.n - 2)
<1>1. A \in Nat /\ A > 0 /\ 2^(2 * F.n - 1) = 2 * A /\ 2^(2 * F.n) = 4 * A
  <2>1. 2 * F.n - 2 \in Nat
    BY DEF IsFormat
  <2> DEFINE q == 2 * F.n - 2
  <2>2. q \in Nat
    BY <2>1
  <2> HIDE DEF q
  <2>3. 2^q >= 1
    BY <2>2, PowerType
  <2> QED
    BY <2>3, WideSizes DEF q
<1>2. ASSUME frac >= 1, frac < 4 * A
      PROVE  /\ z.scale \in Int /\ z.frac \in A .. 2 * A - 1 /\ z.scale - scale \in Int
             /\ IF frac >= 2 * A
                THEN z.scale = scale + 1 /\ z.frac = frac \div 2
                ELSE scale - z.scale \in Nat /\ z.frac = frac * 2^(scale - z.scale)
  <2>1. frac \in 1 .. 2^(2 * F.n) - 1
    BY <1>1, <1>2
  <2>2. /\ z.scale \in Int /\ Significand(2 * F.n - 2, z.frac) /\ z.scale - scale \in Int
        /\ IF frac >= 2^(2 * F.n - 1)
           THEN z.scale = scale + 1 /\ z.frac = frac \div 2
           ELSE scale - z.scale \in Nat /\ z.frac = frac * 2^(scale - z.scale)
    BY <2>1, NormalShape
  <2>3. Significand(2 * F.n - 2, z.frac) <=> z.frac \in A .. 2 * A - 1
    BY DEF Significand
  <2> HIDE DEF z, A
  <2> QED
    BY <1>1, <2>2, <2>3
<1> DEFINE c == scale - z.scale
<1>3. ASSUME frac >= A, frac < 2 * A PROVE z.scale = scale /\ z.frac = frac
  <2>1. c \in Nat /\ z.frac = frac * 2^c /\ z.frac \in A .. 2 * A - 1 /\ z.scale \in Int
    <3> HIDE DEF z, A
    <3> QED
      BY <1>1, <1>2, <1>3
  <2> HIDE DEF c
  <2>2. c = 0
    <3> SUFFICES ASSUME c >= 1 PROVE FALSE
      BY <2>1
    <3>1. 2 <= 2^c /\ 2^c \in Nat
      <4>1. 2^1 <= 2^c
        BY <2>1, PowerMonotone
      <4>2. 2^1 = 2
        OBVIOUS
      <4> QED
        BY <2>1, <4>1, <4>2, PowerType
    <3> DEFINE C == 2^c
    <3>2. C \in Nat /\ 2 <= C
      BY <3>1
    <3> HIDE DEF C, A
    <3>3. frac * 2 <= frac * C /\ frac * C \in Int
      BY <3>2
    <3> QED
      BY <1>1, <1>3, <2>1, <3>3 DEF C
  <2>3. 2^c = 1
    BY <2>2, PowerZero
  <2> DEFINE C == 2^c
  <2> HIDE DEF C
  <2>4. frac * C = frac
    BY <2>3 DEF C
  <2>5. z.scale = scale
    <3> HIDE DEF z
    <3>1. z.scale \in Int
      BY <2>1
    <3> QED
      BY <2>2, <3>1 DEF c
  <2> QED
    BY <2>1, <2>4, <2>5 DEF C
<1>4. ASSUME frac >= 2 * A, frac < 4 * A PROVE z.scale = scale + 1 /\ z.frac = frac \div 2
  <2> HIDE DEF z, A
  <2> QED
    BY <1>1, <1>2, <1>4
<1>5. ASSUME 2 * frac >= A, frac < A PROVE z.scale = scale - 1 /\ z.frac = 2 * frac
  <2>1. c \in Nat /\ z.frac = frac * 2^c /\ z.frac \in A .. 2 * A - 1 /\ z.scale \in Int
    <3> HIDE DEF z, A
    <3> QED
      BY <1>1, <1>2, <1>5
  <2> HIDE DEF c
  <2>2. 2^c \in Nat
    BY <2>1, PowerType
  <2>3. c # 0
    <3> SUFFICES ASSUME c = 0 PROVE FALSE
      OBVIOUS
    <3>1. 2^c = 1
      BY PowerZero
    <3> DEFINE C == 2^c
    <3> HIDE DEF C, A
    <3>2. frac * C = frac
      BY <3>1 DEF C
    <3> QED
      BY <1>1, <1>5, <2>1, <3>2 DEF C
  <2>4. c < 2
    <3> SUFFICES ASSUME c >= 2 PROVE FALSE
      BY <2>1
    <3>1. 4 <= 2^c
      <4>1. 2^2 <= 2^c
        BY <2>1, PowerMonotone
      <4>2. 2^2 = 4
        OBVIOUS
      <4> QED
        BY <2>1, <4>1, <4>2
    <3> DEFINE C == 2^c
    <3>2. C \in Nat /\ 4 <= C
      BY <2>2, <3>1
    <3> HIDE DEF C, A
    <3>3. frac * 4 <= frac * C /\ frac * C \in Int
      BY <3>2
    <3> QED
      BY <1>1, <1>5, <2>1, <3>3 DEF C
  <2>5. c = 1
    BY <2>1, <2>3, <2>4
  <2>6. 2^c = 2
    BY <2>5
  <2> DEFINE C == 2^c
  <2> HIDE DEF C
  <2>7. frac * C = 2 * frac
    BY <2>6 DEF C
  <2>8. z.scale = scale - 1
    <3> HIDE DEF z
    <3>1. z.scale \in Int
      BY <2>1
    <3> QED
      BY <2>5, <3>1 DEF c
  <2> QED
    BY <2>1, <2>7, <2>8 DEF C
<1> QED
  BY <1>1, <1>3, <1>4, <1>5

\* Where both exponent bits are cut off, what is left of the fraction is sticky.
LEMMA StickyAbove ==
    ASSUME NEW F, IsFormat(F), NEW s \in Int, RegimeOf(F, s) <= F.x - 2,
           LostExpBits(F, RegimeOf(F, s)) = 2,
           NEW g \in Nat, g >= 2^(2 * F.n - 2) + 2^F.x, g < 2 * 2^(2 * F.n - 2)
    PROVE  FracSticky(F, s, g)
<1> DEFINE reg == RegimeOf(F, s)
           p == 2 * F.n - 2
           x == F.x
           A == 2^p
           c == 2^x
           D == 2^(p - x)
           y == g - A
<1>1. reg \in Nat /\ x \in Nat /\ F.es \in 0 .. 2 /\ F.n \in Nat /\ x <= F.n /\ F.n >= 3
  BY RegimeNatural DEF IsFormat
<1>2. reg + F.es = x
  <2> HIDE DEF reg
  <2>1. reg <= x - 2 /\ LostExpBits(F, reg) = 2
    BY DEF reg
  <2> QED
    BY <1>1, <2>1 DEF LostExpBits
<1>3. p \in Nat /\ x <= p /\ p - x \in Nat /\ 2 * F.n - 1 - x = (p - x) + 1
  BY <1>1
<1>4. A = D * c /\ D \in Nat /\ D > 0 /\ c \in Nat /\ c > 0 /\ A \in Nat /\ 2^((p - x) + 1) = 2 * D
  <2> DEFINE e == p - x
  <2>1. e \in Nat
    BY <1>3
  <2>2. 2^p = 2^(p - x) * 2^x
    <3> HIDE DEF p, x
    <3> QED
      BY <1>1, <1>3, PowerSplit
  <2>3. 2^x \in Nat /\ 2^x >= 1 /\ 2^p \in Nat
    <3> HIDE DEF p, x
    <3> QED
      BY <1>1, <1>3, PowerType
  <2> HIDE DEF e
  <2>4. 2^e \in Nat /\ 2^e >= 1 /\ 2^(e + 1) = 2 * 2^e
    BY <2>1, PowerType, PowerStep
  <2> QED
    BY <2>2, <2>3, <2>4 DEF e
<1>5. g >= A + c /\ g < 2 * A
  OBVIOUS
<1> HIDE DEF A, D, c
<1>6. y \in c .. A - 1 /\ y \in 0 .. A - 1 /\ y \in Nat /\ g = A * 1 + y
  BY <1>4, <1>5
<1> HIDE DEF y
<1>7. g % A = y
  BY <1>4, <1>6, DivisionUnique
<1>8. y \div c \in 0 .. D - 1
  BY <1>4, <1>6, QuotientBelow
<1>9. y \div c # 0
  <2>1. y = c * (y \div c) + (y % c) /\ y % c \in 0 .. c - 1
    BY <1>4, <1>6, Division
  <2> SUFFICES ASSUME y \div c = 0 PROVE FALSE
    OBVIOUS
  <2>2. c * (y \div c) = 0
    BY <1>4
  <2> QED
    BY <1>4, <1>6, <2>1, <2>2
<1>10. ShiftedFraction(F, reg, g) = y \div c
  <2> HIDE DEF reg
  <2> QED
    BY <1>2, <1>7 DEF ShiftedFraction, A, c
<1> DEFINE i == y \div c
<1> HIDE DEF i
<1>11. i % (2 * D) = i /\ i # 0
  <2>1. i \in 0 .. 2 * D - 1 /\ i # 0 /\ 2 * D \in Nat
    BY <1>4, <1>8, <1>9 DEF i
  <2> DEFINE E == 2 * D
  <2> HIDE DEF E
  <2>2. i \in 0 .. E - 1 /\ E \in Nat
    BY <2>1 DEF E
  <2> QED
    BY <2>1, <2>2, SmallDivision DEF E
<1>12. ShiftedFraction(F, reg, g) % 2^(2 * F.n - 1 - x) # 0
  BY <1>3, <1>4, <1>10, <1>11 DEF i
<1> QED
  BY <1>12 DEF FracSticky

\* Scales whose exponent is cut off, the last one of them.
LastScale(F, u, q) ==
    /\ F.es = 2 /\ q \in Int /\ (q = F.x - 3 \/ q = -(F.x - 2)) /\ u = 4 * q + 3 /\ u \in Int

\* Nothing is untold but at the last scale of the longest regimes.
LEMMA ToldUnless ==
    ASSUME NEW F, IsFormat(F), NEW z, z.scale \in Int,
           \A q : LastScale(F, z.scale, q) /\ RegimeOf(F, z.scale) <= F.x - 2
                     /\ LostExpBits(F, RegimeOf(F, z.scale)) = 2
                  => FracSticky(F, z.scale, z.frac)
    PROVE  Told(F, z)
<1> DEFINE u == z.scale
           reg == RegimeOf(F, u)
           q == u \div 4
<1>1. SUFFICES ASSUME reg <= F.x - 2, LostExpBits(F, reg) = 2, u % 4 = 3
               PROVE  LastScale(F, u, q)
  BY DEF Told
<1>2. reg \in Nat /\ F.x \in Nat /\ F.es \in 0 .. 2
  BY RegimeNatural DEF IsFormat
<1>3. F.es = 2 /\ reg = F.x - 2
  <2> HIDE DEF reg, u
  <2> QED
    BY <1>1, <1>2 DEF LostExpBits
<1>4. q \in Int /\ u = 4 * q + 3
  <2> HIDE DEF u
  <2>1. u \in Int
    BY DEF u
  <2> QED
    BY <1>1, <2>1
<1>5. reg = RegimeLength(q)
  <2>1. 2^2 = 4
    OBVIOUS
  <2> HIDE DEF u
  <2> QED
    BY <1>3, <2>1 DEF RegimeOf
<1> HIDE DEF q, reg
<1>6. q = F.x - 3 \/ q = -(F.x - 2)
  BY <1>2, <1>3, <1>4, <1>5 DEF RegimeLength
<1> QED
  BY <1>3, <1>4, <1>6 DEF LastScale

\* The words of such a regime have a zero exponent.
LEMMA NoRoom ==
    ASSUME NEW F, IsFormat(F), F.x >= 3, F.es = 2,
           NEW d, NEW v, NEW s, NEW g, NEW k, NEW b, NEW f, Term(F, d, v, s, g, k, b, f),
           k = F.x - 3 \/ k = -(F.x - 2) \/ k >= F.x - 2
    PROVE  s = 4 * k /\ s \in Int /\ k \in Int /\ g = 2^(2 * F.n - 2)
<1>1. /\ k \in -(F.x - 2) .. F.x - 2 /\ b = BitsLeft(F.x, k) /\ s \in Int /\ k = s \div 2^F.es
      /\ b = 0 => s % 2^F.es = 0 /\ g = 2^(2 * F.n - 2)
  BY DEF Term
<1>2. F.x \in Nat
  BY DEF IsFormat
<1>3. b = 0
  BY <1>1, <1>2 DEF BitsLeft
<1>4. 2^2 = 4
  OBVIOUS
<1>5. k = s \div 4 /\ s % 4 = 0 /\ g = 2^(2 * F.n - 2)
  BY <1>1, <1>3, <1>4
<1>6. s = 4 * k
  BY <1>1, <1>5
<1> QED
  BY <1>1, <1>2, <1>5, <1>6

\* A scale is a regime value and two exponent bits.
LEMMA ScaleDigits ==
    ASSUME NEW F, F.es = 2, NEW d, NEW v, NEW s, NEW g, NEW k, NEW b, NEW f,
           Term(F, d, v, s, g, k, b, f), F.x \in Nat
    PROVE  s \in Int /\ k \in Int /\ k \in -(F.x - 2) .. F.x - 2 /\ 4 * k <= s /\ s <= 4 * k + 3
<1>1. s \in Int /\ k = s \div 2^F.es /\ k \in -(F.x - 2) .. F.x - 2
  BY DEF Term
<1>2. 2^2 = 4
  OBVIOUS
<1>3. k = s \div 4
  BY <1>1, <1>2
<1> QED
  BY <1>1, <1>3

\* A sum is never there: its larger term would be.
LEMMA ToldSum ==
    ASSUME NEW F, IsFormat(F), F.x >= 3,
           NEW d, NEW v, NEW s, NEW g, NEW k, NEW b, NEW f, Term(F, d, v, s, g, k, b, f),
           NEW z, z.scale = s \/ z.scale = s + 1
    PROVE  Told(F, z)
<1>1. s \in Int /\ F.x \in Nat
  BY DEF Term, IsFormat
<1>2. ASSUME NEW q, LastScale(F, z.scale, q) PROVE FALSE
  <2>1. /\ F.es = 2 /\ q \in Int /\ (q = F.x - 3 \/ q = -(F.x - 2)) /\ z.scale = 4 * q + 3
    BY <1>2 DEF LastScale
  <2>2. s \in Int /\ k \in Int /\ 4 * k <= s /\ s <= 4 * k + 3
    BY <1>1, <2>1, ScaleDigits
  <2>3. k = q
    BY <2>1, <2>2
  <2>4. s = 4 * k
    BY <2>1, <2>3, NoRoom
  <2> QED
    BY <2>1, <2>2, <2>3, <2>4
<1>3. z.scale \in Int
  BY <1>1
<1> QED
  BY <1>2, <1>3, ToldUnless

\* Neither is a difference with a small term, without a sticky fraction.
LEMMA ToldBorrow ==
    ASSUME NEW F, IsFormat(F), F.x >= 3,
           NEW d, NEW v, NEW s, NEW g, NEW k, NEW b, NEW f, Term(F, d, v, s, g, k, b, f),
           NEW r \in Nat, 8 * r <= 2^(2 * F.n - 2), NEW z, z = Normal(F, s, g - r)
    PROVE  Told(F, z)
<1> DEFINE A == 2^(2 * F.n - 2)
           m == g - r
<1>1. s \in Int /\ F.x \in Nat /\ F.n \in Nat /\ F.x <= F.n /\ F.n >= 3
  BY DEF Term, IsFormat
<1>2. A \in Nat /\ g \in A .. 2 * A - 1 /\ 8 * r <= A
  BY WideSizes DEF Term, Stands, Significand
<1> HIDE DEF A
<1>3. m \in Nat /\ m < 2 * A /\ 2 * m >= A /\ 4 * (2 * m) >= 7 * A
  BY <1>2
<1>4. (m >= A => z.scale = s) /\ (m < A => z.scale = s - 1 /\ z.frac = 2 * m)
  <2> HIDE DEF m
  <2>1. z = Normal(F, s, m)
    BY DEF m
  <2> QED
    BY <1>1, <1>2, <1>3, <2>1, NormalIs DEF A
<1>5. z.scale \in Int
  BY <1>1, <1>2, <1>3, <1>4
<1>6. ASSUME NEW q, LastScale(F, z.scale, q), RegimeOf(F, z.scale) <= F.x - 2,
             LostExpBits(F, RegimeOf(F, z.scale)) = 2
      PROVE  FracSticky(F, z.scale, z.frac)
  <2>1. /\ F.es = 2 /\ q \in Int /\ (q = F.x - 3 \/ q = -(F.x - 2)) /\ z.scale = 4 * q + 3
    BY <1>6 DEF LastScale
  <2>2. CASE m >= A
    <3>1. z.scale = s
      BY <1>4, <2>2
    <3>2. s \in Int /\ k \in Int /\ 4 * k <= s /\ s <= 4 * k + 3
      BY <1>1, <2>1, ScaleDigits
    <3>3. k = q
      BY <2>1, <3>1, <3>2
    <3>4. s = 4 * k
      BY <2>1, <3>3, NoRoom
    <3> QED
      BY <2>1, <3>1, <3>2, <3>3, <3>4
  <2>3. CASE m < A
    <3>1. z.frac = 2 * m /\ z.frac \in Nat /\ z.frac < 2 * A
      BY <1>2, <1>3, <1>4, <2>3
    <3> DEFINE c == 2^F.x
    <3>2. 2 * c <= A /\ c \in Nat
      <4> DEFINE p == 2 * F.n - 2
                 y == F.x + 1
      <4>1. p \in Nat /\ y \in Nat /\ y <= p
        BY <1>1
      <4> HIDE DEF p, y
      <4>2. 2^y <= 2^p
        BY <4>1, PowerMonotone
      <4>3. 2^(F.x + 1) = 2 * 2^F.x /\ 2^F.x \in Nat
        BY <1>1, PowerStep, PowerType
      <4> QED
        BY <4>2, <4>3 DEF A, p, y
    <3> HIDE DEF c
    <3>3. z.frac >= A + c
      BY <1>2, <1>3, <3>1, <3>2
    <3> QED
      BY <1>5, <1>6, <3>1, <3>3, StickyAbove DEF A, c
  <2> QED
    BY <1>2, <1>3, <2>2, <2>3
<1> QED
  BY <1>5, <1>6, ToldUnless

\* The last place of the words above the least regime.
LEMMA PowAbove ==
    ASSUME NEW F, IsFormat(F), F.x >= 3, F.es = 2,
           NEW d, NEW v, NEW s, NEW g, NEW k, NEW b, NEW f, Term(F, d, v, s, g, k, b, f),
           k > -(F.x - 2)
    PROVE  v.pow >= 4 * (-(F.x - 2)) + 4 /\ v.pow \in Int
<1>1. /\ b \in Nat /\ f \in Nat /\ s \in Int /\ v.pow \in Int /\ f = s - v.pow
      /\ F.es >= b => f = 0
      /\ F.es < b => f = b - F.es
      /\ F.x \in Nat
  BY TermSizes
<1>2. 4 * k <= s /\ k \in -(F.x - 2) .. F.x - 2 /\ k \in Int
  BY <1>1, ScaleDigits
<1>3. b = BitsLeft(F.x, k)
  BY DEF Term
<1>4. (k < 0 => b = F.x - 2 + k) /\ (k >= 0 => b <= F.x - 2 - k)
  BY <1>1, <1>2, <1>3 DEF BitsLeft
<1>5. v.pow = s - f
  BY <1>1
<1> DEFINE X == F.x
<1>6. X \in Nat /\ X >= 3 /\ k > -(X - 2) /\ 4 * k <= s
      /\ (f = 0 \/ f = b - 2) /\ (k < 0 => b = X - 2 + k) /\ (k >= 0 => b <= X - 2 - k)
  BY <1>1, <1>2, <1>4
<1> HIDE DEF X
<1>7. v.pow >= 4 * (-(X - 2)) + 4
  <2>1. CASE f = 0
    BY <1>1, <1>2, <1>5, <1>6, <2>1
  <2>2. CASE f = b - 2 /\ k < 0
    BY <1>1, <1>2, <1>5, <1>6, <2>2
  <2>3. CASE f = b - 2 /\ k >= 0
    BY <1>1, <1>2, <1>5, <1>6, <2>3
  <2> QED
    BY <1>2, <1>6, <2>1, <2>2, <2>3
<1> QED
  BY <1>1, <1>7 DEF X

\* Nor is a difference of two near terms.
LEMMA ToldNear ==
    ASSUME NEW F, IsFormat(F), F.x >= 3,
           NEW d, NEW v, NEW s, NEW g, NEW k, NEW b, NEW f, Term(F, d, v, s, g, k, b, f),
           NEW e, NEW w, NEW t, NEW h, NEW l, NEW c, NEW y, Term(F, e, w, t, h, l, c, y),
           t < s \/ (t = s /\ h < g), s - t <= 3,
           NEW z, z.scale \in Int, z.scale <= s,
           NEW m, m = v.pow \/ m = w.pow, m <= z.scale
    PROVE  Told(F, z)
<1>1. F.x \in Nat
  BY DEF IsFormat
<1>2. ASSUME NEW q, LastScale(F, z.scale, q) PROVE FALSE
  <2>1. /\ F.es = 2 /\ q \in Int /\ (q = F.x - 3 \/ q = -(F.x - 2)) /\ z.scale = 4 * q + 3
    BY <1>2 DEF LastScale
  <2>2. s \in Int /\ k \in Int /\ k \in -(F.x - 2) .. F.x - 2 /\ 4 * k <= s /\ s <= 4 * k + 3
    BY <1>1, <2>1, ScaleDigits
  <2>3. t \in Int /\ l \in Int /\ l \in -(F.x - 2) .. F.x - 2 /\ 4 * l <= t /\ t <= 4 * l + 3
    BY <1>1, <2>1, ScaleDigits
  <2>4. k # q
    <3> SUFFICES ASSUME k = q PROVE FALSE
      OBVIOUS
    <3>1. s = 4 * k
      BY <2>1, NoRoom
    <3> QED
      BY <2>1, <2>2, <3>1
  <2>5. k > q /\ s >= 4 * q + 4 /\ t >= 4 * q + 1
    BY <2>1, <2>2, <2>3, <2>4
  <2>6. l # q
    <3> SUFFICES ASSUME l = q PROVE FALSE
      OBVIOUS
    <3>1. t = 4 * l
      BY <2>1, NoRoom
    <3> QED
      BY <2>3, <2>5, <3>1
  <2>7. l > q /\ t >= 4 * q + 4
    BY <2>1, <2>3, <2>5, <2>6
  <2>8. CASE q = F.x - 3
    <3>1. k = F.x - 2 /\ l = F.x - 2
      <4>1. k > F.x - 3 /\ l > F.x - 3
        BY <2>5, <2>7, <2>8
      <4>2. k \in Int /\ k <= F.x - 2 /\ l \in Int /\ l <= F.x - 2
        BY <1>1, <2>2, <2>3
      <4> QED
        BY <1>1, <4>1, <4>2
    <3>2. s = 4 * k /\ g = 2^(2 * F.n - 2)
      BY <1>1, <2>1, <3>1, NoRoom
    <3>3. t = 4 * l /\ h = 2^(2 * F.n - 2)
      BY <1>1, <2>1, <3>1, NoRoom
    <3>4. g \in Nat
      BY <3>2, WideSizes
    <3>5. s = t /\ h = g
      BY <3>1, <3>2, <3>3
    <3> QED
      BY <2>2, <3>4, <3>5
  <2>9. CASE q = -(F.x - 2)
    <3>1. v.pow >= 4 * q + 4 /\ v.pow \in Int
      BY <2>1, <2>5, <2>9, PowAbove
    <3>2. w.pow >= 4 * q + 4 /\ w.pow \in Int
      BY <2>1, <2>7, <2>9, PowAbove
    <3> QED
      BY <2>1, <3>1, <3>2
  <2> QED
    BY <2>1, <2>8, <2>9
<1> QED
  BY <1>2, ToldUnless

-----------------------------------------------------------------------------
(* Near terms.                                                             *)

\* Two terms whose scales are near are aligned without a loss.
LEMMA NearTerms ==
    ASSUME NEW F, IsFormat(F), F.x >= 3,
           NEW d, NEW v, NEW s, NEW g, NEW k, NEW b, NEW f, Term(F, d, v, s, g, k, b, f),
           NEW e, NEW w, NEW t, NEW h, NEW l, NEW c, NEW q, Term(F, e, w, t, h, l, c, q),
           t <= s, s - t <= b + 3, NEW sgn
    PROVE  LET p == 2 * F.n - 2
               V == Plus(v, w, sgn)
           IN  \E m \in Int, a \in Nat, i \in Nat, Q \in Nat :
                  /\ m = v.pow \/ m = w.pow
                  /\ m <= v.pow /\ m <= w.pow /\ s - m <= 2 * F.n - 3
                  /\ Q >= 1 /\ Q = 2^(p - (s - m))
                  /\ g = a * Q /\ h \div 2^(s - t) = i * Q
                  /\ V.num = a + sgn * i /\ V.pow = m
<1> DEFINE p == 2 * F.n - 2
           m == Min({v.pow, w.pow})
           Q == 2^(p - (s - m))
           a == InUnits(v, m)
           i == InUnits(w, m)
<1>1. /\ b \in Nat /\ b <= F.x - 3 /\ f \in Nat /\ s \in Int /\ v.pow \in Int /\ f = s - v.pow
      /\ F.es >= b => f = 0
      /\ F.es < b => f = b - F.es
      /\ F.x \in Nat /\ F.x <= F.n /\ F.n \in Nat /\ F.es \in 0 .. 2 /\ F.n >= F.es + 3
  BY TermSizes
<1>2. /\ c \in Nat /\ c <= F.x - 3 /\ q \in Nat /\ t \in Int /\ w.pow \in Int /\ q = t - w.pow
      /\ F.es >= c => q = 0
      /\ F.es < c => q = c - F.es
  BY TermSizes
<1>3. IsPositive(v) /\ IsPositive(w) /\ Stands(v, p, s, g) /\ Stands(w, p, t, h)
  BY DEF Term
<1>4. p \in Nat
  BY <1>1
<1>5. Size(w) = t
  BY <1>3, <1>4, SizeIs
<1>6. ~ (Size(w) < v.pow - 10)
  BY <1>1, <1>2, <1>5
<1>7. /\ m \in Int /\ m <= v.pow /\ m <= w.pow /\ (m = v.pow \/ m = w.pow)
      /\ Plus(v, w, sgn).num = a + sgn * i /\ Plus(v, w, sgn).pow = m
  <2> HIDE DEF p
  <2> QED
    BY <1>3, <1>6, PlusInUnits
<1> HIDE DEF m
<1>8. s - m <= 2 * F.n - 3
  <2>1. CASE m = v.pow
    BY <1>1, <2>1
  <2>2. CASE m = w.pow
    <3>1. s - m = (s - t) + q
      BY <1>1, <1>2, <2>2
    <3>2. (s - t) + q <= (b + 3) + q /\ q <= F.x - 3
      BY <1>1, <1>2
    <3> QED
      BY <1>1, <1>2, <1>7, <3>1, <3>2
  <2> QED
    BY <1>7, <2>1, <2>2
<1>9. s - m <= p /\ p - (s - m) \in Nat
  BY <1>1, <1>7, <1>8
<1>10. g = (a * Q) * 2^(s - s) /\ a \in Nat /\ Q \in Nat
  <2> DEFINE S == s
             R == 2^(p - (S - m))
  <2>1. S \in Int /\ s <= S /\ S - m <= p
    BY <1>1, <1>9
  <2> HIDE DEF p, S
  <2>2. m \in Int /\ m <= v.pow
    BY <1>7
  <2> HIDE DEF m
  <2>3. g = (a * R) * 2^(S - s)
    BY <1>3, <1>4, <2>1, <2>2, AlignedTerm
  <2>4. a \in Nat
    BY <1>3, <1>4, <2>1, <2>2, AlignedTerm
  <2>5. R \in Nat
    BY <1>3, <1>4, <2>1, <2>2, AlignedTerm
  <2> HIDE DEF a
  <2> QED
    BY <2>3, <2>4, <2>5 DEF S
<1>11. h \div 2^(s - t) = i * Q /\ i \in Nat
  <2> HIDE DEF p, i, Q
  <2> QED
    BY <1>1, <1>2, <1>3, <1>4, <1>7, <1>9, AlignedTerm DEF i, Q
<1>12. g = a * Q
  <2>1. 2^(s - s) = 1
    <3>1. s - s = 0
      BY <1>1
    <3> QED
      BY <3>1, PowerZero
  <2> DEFINE y == a * Q
  <2>2. y \in Nat
    <3> HIDE DEF a, Q
    <3> QED
      BY <1>10
  <2> HIDE DEF y
  <2>3. g = y * 1
    BY <1>10, <2>1 DEF y
  <2> QED
    BY <2>2, <2>3 DEF y
<1>13. Q >= 1
  <2> DEFINE n == p - (s - m)
  <2>1. n \in Nat
    BY <1>9
  <2> HIDE DEF n
  <2>2. 2^n >= 1
    BY <2>1, PowerType
  <2> QED
    BY <2>2 DEF n
<1> DEFINE V == Plus(v, w, sgn)
<1>14. V.num = a + sgn * i /\ V.pow = m
  BY <1>7
<1> HIDE DEF a, i, V
<1>15. Q = 2^(p - (s - m))
  OBVIOUS
<1> HIDE DEF Q
<1>16. /\ m = v.pow \/ m = w.pow
       /\ m <= v.pow /\ m <= w.pow /\ s - m <= 2 * F.n - 3
       /\ Q >= 1 /\ Q = 2^(p - (s - m))
       /\ g = a * Q /\ h \div 2^(s - t) = i * Q
       /\ V.num = a + sgn * i /\ V.pow = m
  BY <1>7, <1>8, <1>11, <1>12, <1>13, <1>14, <1>15
<1>17. m \in Int /\ a \in Nat /\ i \in Nat /\ Q \in Nat
  BY <1>7, <1>10, <1>11
<1> HIDE DEF p
<1>18. \E m_ \in Int, a_ \in Nat, i_ \in Nat, Q_ \in Nat :
                  /\ m_ = v.pow \/ m_ = w.pow
                  /\ m_ <= v.pow /\ m_ <= w.pow /\ s - m_ <= 2 * F.n - 3
                  /\ Q_ >= 1 /\ Q_ = 2^(p - (s - m_))
                  /\ g = a_ * Q_ /\ h \div 2^(s - t) = i_ * Q_
                  /\ V.num = a_ + sgn * i_ /\ V.pow = m_
  BY <1>16, <1>17, Zenon
<1> QED
  BY <1>18 DEF p, V

\* Near terms are added exactly and rounded once.
LEMMA NearSum ==
    ASSUME NEW F, IsFormat(F), F.x >= 3,
           NEW d, NEW v, NEW s, NEW g, NEW k, NEW b, NEW f, Term(F, d, v, s, g, k, b, f),
           NEW e, NEW w, NEW t, NEW h, NEW l, NEW c, NEW q, Term(F, e, w, t, h, l, c, q),
           t <= s, s - t <= b + 1
    PROVE  Yields(F, Packed(F, Normal(F, s, g + (h \div 2^(s - t)))), Plus(v, w, 1))
<1> DEFINE p == 2 * F.n - 2
           A == 2^p
           V == Plus(v, w, 1)
           r == h \div 2^(s - t)
           frac == g + r
           z == Normal(F, s, frac)
<1>1. /\ b \in Nat /\ s \in Int /\ t \in Int /\ v.pow \in Int /\ w.pow \in Int /\ F.n \in Nat /\ p \in Nat
      /\ F.x \in Nat
  <2>1. b \in Nat /\ s \in Int /\ v.pow \in Int /\ F.n \in Nat /\ F.n >= 3 /\ F.x \in Nat
    BY TermSizes DEF IsFormat
  <2>2. t \in Int /\ w.pow \in Int
    BY TermSizes
  <2> QED
    BY <2>1, <2>2
<1>2. s - t <= b + 3 /\ s - t \in Nat
  BY <1>1
<1>3. PICK m \in Int, a \in Nat, i \in Nat, Q \in Nat :
                  /\ m = v.pow \/ m = w.pow
                  /\ m <= v.pow /\ m <= w.pow /\ s - m <= 2 * F.n - 3
                  /\ Q >= 1 /\ Q = 2^(p - (s - m))
                  /\ g = a * Q /\ r = i * Q
                  /\ V.num = a + 1 * i /\ V.pow = m
  <2> DEFINE sgn == 1
  <2> HIDE DEF sgn
  <2>1. \E m \in Int, a \in Nat, i \in Nat, Q \in Nat :
                  /\ m = v.pow \/ m = w.pow
                  /\ m <= v.pow /\ m <= w.pow /\ s - m <= 2 * F.n - 3
                  /\ Q >= 1 /\ Q = 2^((2 * F.n - 2) - (s - m))
                  /\ g = a * Q /\ (h \div 2^(s - t)) = i * Q
                  /\ Plus(v, w, sgn).num = a + sgn * i /\ Plus(v, w, sgn).pow = m
    BY <1>2, NearTerms
  <2> QED
    BY <2>1 DEF sgn
<1>4. IsPositive(v) /\ Significand(p, g) /\ Significand(p, h)
  BY DEF Term, Stands
<1>5. A \in Nat /\ g \in A .. 2 * A - 1 /\ 2^(2 * F.n) = 4 * A /\ A >= 1
  <2>1. A \in Nat /\ A >= 1
    BY <1>1, PowerType
  <2> QED
    BY <1>4, <2>1, WideSizes DEF Significand
<1>6. r \in 0 .. 2 * A - 1
  <2> HIDE DEF p
  <2> QED
    BY <1>1, <1>2, <1>4, AlignedBelow
<1> HIDE DEF r
<1>7. frac \in 1 .. 2^(2 * F.n) - 1 /\ frac \in Nat /\ frac >= A /\ frac < 4 * A
  <2> HIDE DEF A
  <2> QED
    BY <1>5, <1>6
<1>8. V.num = a + i /\ V.num \in Nat /\ frac = V.num * Q /\ V.num >= 1
  <2>1. V.num = a + i
    BY <1>3
  <2> HIDE DEF V
  <2>2. frac = (a + i) * Q
    BY <1>3
  <2>3. a >= 1
    <3> HIDE DEF A
    <3>1. ASSUME a = 0 PROVE FALSE
      <4>1. g = 0
        BY <1>3, <3>1
      <4> QED
        BY <1>5, <4>1
    <3> QED
      BY <3>1
  <2> QED
    BY <2>1, <2>2, <2>3
<1>9. IsPositive(V) /\ V.pow = m
  <2> HIDE DEF V
  <2> QED
    BY <1>3, <1>8 DEF IsPositive
<1>10. z.scale = s \/ z.scale = s + 1
  <2> HIDE DEF frac, A
  <2>1. frac < 2 * A \/ frac >= 2 * A
    BY <1>5, <1>7
  <2> QED
    BY <1>1, <1>7, <2>1, NormalIs DEF A
<1>11. Told(F, z)
  BY <1>10, ToldSum
<1> HIDE DEF z
<1>12. RegimeOf(F, z.scale) <= F.x - 2 =>
               z.scale - V.pow + (RegimeOf(F, z.scale) + F.es) <= 2 * F.n - 2
  <2> SUFFICES ASSUME RegimeOf(F, z.scale) <= F.x - 2
               PROVE  z.scale - V.pow + (RegimeOf(F, z.scale) + F.es) <= 2 * F.n - 2
    OBVIOUS
  <2> DEFINE u == z.scale
  <2>1. u \in Int /\ (u = s + 1 \/ u <= s) /\ s - t + 2 * 1 <= b + 3 /\ 1 \in Nat /\ 1 <= 1
    BY <1>1, <1>10
  <2>2. RegimeOf(F, u) <= F.x - 2
    OBVIOUS
  <2> HIDE DEF u
  <2>3. u - v.pow + (RegimeOf(F, u) + F.es) <= 2 * F.n - 2
    BY <2>1, <2>2, NearRoom
  <2>4. u - w.pow + (RegimeOf(F, u) + F.es) <= 2 * F.n - 2
    BY <2>1, <2>2, NearRoom
  <2> HIDE DEF V
  <2> QED
    BY <1>3, <2>3, <2>4 DEF u
<1>13. s - V.pow <= 2 * F.n - 3 /\ frac = V.num * 2^((2 * F.n - 2) - (s - V.pow))
  <2> HIDE DEF V, frac
  <2> QED
    BY <1>3, <1>8, <1>9
<1>14. z = Normal(F, s, frac)
  BY DEF z
<1> HIDE DEF V, frac
<1>15. Yields(F, Packed(F, z), V)
  BY <1>1, <1>7, <1>9, <1>11, <1>12, <1>13, <1>14, ExactRounds
<1> QED
  BY <1>15 DEF z, V, frac, r

\* A number that is moved right by four digits or more is small.
LEMMA FourDigits ==
    ASSUME NEW p \in Nat, NEW h, Significand(p, h), NEW d \in Nat, d >= 4
    PROVE  8 * (h \div 2^d) <= 2^p
<1> DEFINE A == 2^p
           D == 2^d
           C == 2^(d - 4)
           r == h \div D
<1>1. A \in Nat /\ h \in A .. 2 * A - 1 /\ h \in Nat
  <2>1. A \in Nat
    BY PowerType
  <2> QED
    BY <2>1 DEF Significand
<1>2. C \in Nat /\ C >= 1
  <2>1. d - 4 \in Nat
    OBVIOUS
  <2> QED
    BY <2>1, PowerType
<1>3. D = 16 * C
  <2>1. 2^(4 + (d - 4)) = 2^4 * 2^(d - 4)
    <3> DEFINE c == d - 4
    <3>1. c \in Nat
      OBVIOUS
    <3> HIDE DEF c
    <3>2. 2^(4 + c) = 2^4 * 2^c
      BY <3>1, PowerSum
    <3> QED
      BY <3>2 DEF c
  <2>2. 2^4 = 16
    BY SMT
  <2>3. 4 + (d - 4) = d
    OBVIOUS
  <2> QED
    BY <2>1, <2>2, <2>3
<1> HIDE DEF A, D, C
<1>4. D \in Nat /\ D > 0 /\ D >= 16
  BY <1>2, <1>3
<1> HIDE DEF r
<1>5. r \in Nat /\ r * D <= h
  BY <1>1, <1>4, DivisionType DEF r
<1>6. r * 16 <= r * D
  BY <1>4, <1>5
<1>7. 8 * r <= A
  <2>1. r * D \in Int /\ r * 16 \in Int
    BY <1>4, <1>5
  <2> QED
    BY <1>1, <1>5, <1>6, <2>1
<1> QED
  BY <1>7 DEF r, A, D

\* Near terms are subtracted exactly and the difference is rounded once.
LEMMA NearDifference ==
    ASSUME NEW F, IsFormat(F), F.x >= 3,
           NEW d, NEW v, NEW s, NEW g, NEW k, NEW b, NEW f, Term(F, d, v, s, g, k, b, f),
           NEW e, NEW w, NEW t, NEW h, NEW l, NEW c, NEW q, Term(F, e, w, t, h, l, c, q),
           t < s \/ (t = s /\ h < g), s - t <= b + 3
    PROVE  Yields(F, Packed(F, Normal(F, s, g - (h \div 2^(s - t)))), Plus(v, w, -1))
<1> DEFINE p == 2 * F.n - 2
           A == 2^p
           V == Plus(v, w, -1)
           r == h \div 2^(s - t)
           frac == g - r
           z == Normal(F, s, frac)
<1>1. /\ b \in Nat /\ s \in Int /\ t \in Int /\ v.pow \in Int /\ w.pow \in Int /\ F.n \in Nat /\ p \in Nat
      /\ F.x \in Nat
  <2>1. b \in Nat /\ s \in Int /\ v.pow \in Int /\ F.n \in Nat /\ F.n >= 3 /\ F.x \in Nat
    BY TermSizes DEF IsFormat
  <2>2. t \in Int /\ w.pow \in Int
    BY TermSizes
  <2> QED
    BY <2>1, <2>2
<1>2. s - t <= b + 3 /\ s - t \in Nat /\ t <= s
  BY <1>1
<1>3. PICK m \in Int, a \in Nat, i \in Nat, Q \in Nat :
                  /\ m = v.pow \/ m = w.pow
                  /\ m <= v.pow /\ m <= w.pow /\ s - m <= 2 * F.n - 3
                  /\ Q >= 1 /\ Q = 2^(p - (s - m))
                  /\ g = a * Q /\ r = i * Q
                  /\ V.num = a + (-1) * i /\ V.pow = m
  <2> DEFINE sgn == -1
  <2> HIDE DEF sgn
  <2>1. \E m \in Int, a \in Nat, i \in Nat, Q \in Nat :
                  /\ m = v.pow \/ m = w.pow
                  /\ m <= v.pow /\ m <= w.pow /\ s - m <= 2 * F.n - 3
                  /\ Q >= 1 /\ Q = 2^((2 * F.n - 2) - (s - m))
                  /\ g = a * Q /\ (h \div 2^(s - t)) = i * Q
                  /\ Plus(v, w, sgn).num = a + sgn * i /\ Plus(v, w, sgn).pow = m
    BY <1>2, NearTerms
  <2> QED
    BY <2>1 DEF sgn
<1>4. IsPositive(v) /\ Significand(p, g) /\ Significand(p, h)
  BY DEF Term, Stands
<1>5. A \in Nat /\ g \in A .. 2 * A - 1 /\ 2^(2 * F.n) = 4 * A /\ A >= 1
  <2>1. A \in Nat /\ A >= 1
    BY <1>1, PowerType
  <2> QED
    BY <1>4, <2>1, WideSizes DEF Significand
<1>6. r \in Nat /\ r < g
  <2> HIDE DEF p
  <2>1. r \in 0 .. 2 * A - 1
    BY <1>1, <1>2, <1>4, AlignedBelow
  <2>2. s - t > 0 \/ h < g
    BY <1>1
  <2>3. r < g
    BY <1>1, <1>2, <1>4, <2>2, AlignedBelow
  <2> HIDE DEF r, A
  <2> QED
    BY <1>5, <2>1, <2>3
<1>7. s - t >= 4 => 8 * r <= A
  <2> HIDE DEF p
  <2> QED
    BY <1>1, <1>2, <1>4, FourDigits
<1> HIDE DEF r
<1>8. frac \in 1 .. 2^(2 * F.n) - 1 /\ frac \in Nat /\ frac < 2 * A
  <2> HIDE DEF A
  <2> QED
    BY <1>5, <1>6
<1>9. V.num = a - i /\ V.num \in Nat /\ frac = V.num * Q /\ V.num >= 1
  <2>1. V.num = a - i
    BY <1>3
  <2> HIDE DEF V
  <2>2. frac = (a - i) * Q
    BY <1>3
  <2>3. a - i >= 1
    <3> HIDE DEF A
    <3>1. ASSUME a <= i PROVE FALSE
      <4>1. a * Q <= i * Q
        BY <1>3, <3>1
      <4>2. a * Q \in Int /\ i * Q \in Int
        BY <1>3
      <4> QED
        BY <1>3, <1>6, <4>1, <4>2
    <3> QED
      BY <3>1
  <2> QED
    BY <2>1, <2>2, <2>3
<1>10. IsPositive(V) /\ V.pow = m
  <2> HIDE DEF V
  <2> QED
    BY <1>3, <1>9 DEF IsPositive
<1>11. s - V.pow <= 2 * F.n - 3 /\ frac = V.num * 2^((2 * F.n - 2) - (s - V.pow))
  <2> HIDE DEF V, frac
  <2> QED
    BY <1>3, <1>9, <1>10
<1>12. z.scale \in Int /\ z.scale <= s /\ m <= z.scale
  <2> HIDE DEF V, frac
  <2>1. V.num \in Nat /\ V.pow \in Int
    BY <1>10 DEF IsPositive
  <2>2. z.scale \in Int /\ z.scale - V.pow \in 0 .. p
    BY <1>1, <1>8, <1>11, <2>1, NormalStands
  <2>3. frac < 2 * 2^p => z.scale <= s
    BY <1>1, <1>8, <1>11, <2>1, NormalStands
  <2>4. z.scale <= s
    BY <1>8, <2>3
  <2> HIDE DEF z, p
  <2> QED
    BY <1>1, <1>3, <1>10, <2>2, <2>4
<1>13. Told(F, z)
  <2>1. CASE s - t >= 4
    <3>1. z = Normal(F, s, g - r)
      OBVIOUS
    <3>2. 8 * r <= 2^(2 * F.n - 2)
      BY <1>7, <2>1
    <3> HIDE DEF z
    <3> QED
      BY <1>6, <3>1, <3>2, ToldBorrow
  <2>2. CASE s - t <= 3
    <3> HIDE DEF z
    <3> QED
      BY <1>3, <1>12, <2>2, ToldNear
  <2> QED
    BY <1>1, <2>1, <2>2
<1> DEFINE u == z.scale
<1>14. RegimeOf(F, u) <= F.x - 2 => u - V.pow + (RegimeOf(F, u) + F.es) <= 2 * F.n - 2
  <2> SUFFICES ASSUME RegimeOf(F, u) <= F.x - 2
               PROVE  u - V.pow + (RegimeOf(F, u) + F.es) <= 2 * F.n - 2
    OBVIOUS
  <2>1. u \in Int /\ (u = s + 0 \/ u <= s) /\ s - t + 2 * 0 <= b + 3 /\ 0 \in Nat /\ 0 <= 1
    BY <1>1, <1>12
  <2>2. RegimeOf(F, u) <= F.x - 2
    OBVIOUS
  <2> HIDE DEF u
  <2>3. u - v.pow + (RegimeOf(F, u) + F.es) <= 2 * F.n - 2
    BY <1>2, <2>1, <2>2, NearRoom
  <2>4. u - w.pow + (RegimeOf(F, u) + F.es) <= 2 * F.n - 2
    BY <1>2, <2>1, <2>2, NearRoom
  <2> HIDE DEF V
  <2> QED
    BY <1>3, <2>3, <2>4
<1>15. RegimeOf(F, z.scale) <= F.x - 2 =>
               z.scale - V.pow + (RegimeOf(F, z.scale) + F.es) <= 2 * F.n - 2
  BY <1>14
<1>16. z = Normal(F, s, frac)
  BY DEF z
<1> HIDE DEF V, frac, u, z
<1>17. Yields(F, Packed(F, z), V)
  BY <1>1, <1>8, <1>10, <1>11, <1>13, <1>15, <1>16, ExactRounds
<1> QED
  BY <1>17 DEF z, V, frac, r

\* A number in units whose multiple is a significand stands for it.
LEMMA StandsThere ==
    ASSUME NEW P \in Nat, NEW V, V.num \in Nat, V.pow \in Int, NEW s \in Int, s - V.pow \in 0 .. P,
           NEW y, Significand(P, y), y = V.num * 2^(P - (s - V.pow))
    PROVE  Stands(V, P, s, y)
<1> DEFINE c == s - V.pow
           A == 2^P
           C == 2^c
           Q == 2^(P - c)
           n == V.num
<1>1. c \in Nat /\ P - c \in Nat /\ c <= P
  OBVIOUS
<1> HIDE DEF c
<1>2. A = C * Q /\ C \in Nat /\ C >= 1 /\ Q \in Nat /\ Q >= 1 /\ A \in Nat
  <2>1. A = 2^(P - (P - c)) * Q
    <3> DEFINE e == P - c
    <3>1. e \in Nat /\ e <= P
      BY <1>1
    <3> HIDE DEF e
    <3>2. 2^P = 2^(P - e) * 2^e
      BY <3>1, PowerSplit
    <3> QED
      BY <3>2 DEF e
  <2>2. P - (P - c) = c
    BY <1>1
  <2>3. C \in Nat /\ C >= 1
    BY <1>1, PowerType
  <2>4. Q \in Nat /\ Q >= 1
    <3> DEFINE e == P - c
    <3>1. e \in Nat
      BY <1>1
    <3> HIDE DEF e
    <3>2. 2^e \in Nat /\ 2^e >= 1
      BY <3>1, PowerType
    <3> QED
      BY <3>2 DEF e
  <2>5. A \in Nat
    BY PowerType
  <2> QED
    BY <2>1, <2>2, <2>3, <2>4, <2>5
<1>3. y = n * Q /\ y >= A /\ y < 2 * A /\ n \in Nat
  <2>1. y = n * Q
    BY DEF c
  <2>2. y \in A .. 2 * A - 1
    BY DEF Significand
  <2> HIDE DEF A, Q
  <2> QED
    BY <1>2, <2>1, <2>2
<1> HIDE DEF A, C, Q, n
<1>4. n >= C
  <2>1. ASSUME n < C PROVE FALSE
    <3>1. n * Q <= (C - 1) * Q
      BY <1>2, <1>3, <2>1
    <3>2. (C - 1) * Q = C * Q - Q
      BY <1>2
    <3> QED
      BY <1>2, <1>3, <3>1, <3>2
  <2> QED
    BY <1>2, <1>3, <2>1
<1>5. n < 2 * C
  <2>1. ASSUME n >= 2 * C PROVE FALSE
    <3>1. n * Q >= (2 * C) * Q
      BY <1>2, <1>3, <2>1
    <3>2. (2 * C) * Q = 2 * (C * Q)
      BY <1>2
    <3> QED
      BY <1>2, <1>3, <3>1, <3>2
  <2> QED
    BY <1>2, <1>3, <2>1
<1>6. n \in C .. 2 * C - 1
  BY <1>2, <1>3, <1>4, <1>5
<1> QED
  BY <1>6 DEF Stands, n, C, c

\* In fine units the height of a term and the share of a small one.
LEMMA FarUnits ==
    ASSUME NEW F, IsFormat(F), F.x >= 3,
           NEW d, NEW v, NEW s, NEW g, NEW k, NEW b, NEW f, Term(F, d, v, s, g, k, b, f),
           NEW m \in Int, m <= v.pow, NEW i \in Nat, NEW c \in Nat, i * 2^c < 2^((s - m) + 1)
    PROVE  LET P == (s - m) + (F.x + 2)
               R == 2^(F.x + 2)
               a == InUnits(v, m)
               H == Height(P, s, a * R)
           IN  /\ s - m \in Nat /\ P \in Nat /\ P >= F.x + 1 /\ R \in Nat /\ R >= 1
               /\ a \in Nat /\ Stands(v, P, s, a * R) /\ i * R \in Nat /\ H \in Int
               /\ c >= b + 2 => /\ 2 * (i * R) <= 2^P
                                /\ \A h \in Int : H <= h /\ h <= H + i * R => Nearest(F, P, d, h)
               /\ c >= b + 4 => /\ 2 * (i * R) <= 2^P
                                /\ \A h \in Int : H - 2 * (i * R) <= h /\ h <= H => Nearest(F, P, d, h)
<1> DEFINE n == s - m
           x == F.x + 2
           P == n + x
           R == 2^x
           a == InUnits(v, m)
           H == Height(P, s, a * R)
           r == i * R
<1>1. s \in Int /\ IsPositive(v) /\ Size(v) = s /\ F.x \in Nat /\ F.es \in Nat
  <2>1. s \in Int /\ F.x \in Nat /\ F.es \in 0 .. 2 /\ F.n \in Nat /\ F.n >= F.es + 3
    BY TermSizes
  <2>2. 2 * F.n - 2 \in Nat
    BY <2>1
  <2>3. Stands(v, 2 * F.n - 2, s, g) /\ IsPositive(v)
    BY DEF Term
  <2>4. Size(v) = s
    BY <2>2, <2>3, SizeIs
  <2> QED
    BY <2>1, <2>3, <2>4
<1>2. n \in Nat /\ a \in Nat /\ \A p \in Nat : p >= n => \E y : Stands(v, p, s, y) /\ y = a * 2^(p - n)
  <2>1. PICK u \in Int :
              /\ u >= m /\ InUnits(v, m) \in Nat
              /\ \A p \in Nat : p >= u - m =>
                    \E y : Stands(v, p, u, y) /\ y = InUnits(v, m) * 2^(p - (u - m))
    BY <1>1, UnitsStand
  <2> DEFINE q == u - m
  <2>2. q \in Nat
    BY <2>1
  <2> HIDE DEF q
  <2>3. PICK y : Stands(v, q, u, y)
    BY <2>1, <2>2 DEF q
  <2>4. Size(v) = u
    BY <2>2, <2>3, SizeIs
  <2>5. u = s
    BY <1>1, <2>4
  <2> QED
    BY <2>1, <2>2, <2>5 DEF q
<1>3. x \in Nat /\ P \in Nat /\ P >= F.x + 1 /\ P >= n /\ P - n = x
  <2> HIDE DEF n
  <2> QED
    BY <1>1, <1>2
<1>4. Stands(v, P, s, a * R)
  <2> HIDE DEF P, a, n
  <2>1. PICK y : Stands(v, P, s, y) /\ y = a * 2^(P - n)
    BY <1>2, <1>3
  <2> QED
    BY <1>3, <2>1
<1>5. R \in Nat /\ R >= 1
  <2> HIDE DEF x
  <2> QED
    BY <1>3, PowerType
<1>6. r \in Nat
  BY <1>5
<1>7. r * 2^c < 2^(P + 1)
  <2> DEFINE C == 2^c
             N == 2^(n + 1)
  <2>1. 2^(P + 1) = N * R
    <3> HIDE DEF n, x
    <3>1. 2^((n + 1) + x) = N * R
      BY <1>2, <1>3, PowerSum
    <3>2. (n + 1) + x = P + 1
      BY <1>2, <1>3
    <3> QED
      BY <3>1, <3>2
  <2>2. C \in Nat /\ N \in Nat
    <3> HIDE DEF n
    <3> QED
      BY <1>2, PowerType
  <2>3. i * C < N
    OBVIOUS
  <2> HIDE DEF C, N, R
  <2>4. r * C = (i * C) * R
    BY <1>5, <2>2
  <2>5. (i * C) * R < N * R
    <3> DEFINE y == i * C
    <3>1. y \in Nat /\ y < N
      BY <2>2, <2>3
    <3> HIDE DEF y
    <3>2. y * R < N * R
      BY <1>5, <2>2, <3>1
    <3> QED
      BY <3>2 DEF y
  <2> QED
    BY <2>1, <2>4, <2>5 DEF C
<1>8. PICK j : Shaped(F.x, d, k, j)
  BY DEF Term
<1>9. H = ShapeHeight(F.x, F.es, P, k, j) /\ b = BitsLeft(F.x, k)
  <2>1. v = Value(F.x, F.es, d) /\ b = BitsLeft(F.x, k)
    BY DEF Term
  <2> DEFINE y == a * R
  <2>2. Stands(v, P, s, y)
    BY <1>4
  <2> HIDE DEF y, P
  <2>3. P >= F.x - 2 /\ F.x >= 2
    BY <1>1, <1>3
  <2>4. Height(P, s, y) = ShapeHeight(F.x, F.es, P, k, j)
    BY <1>1, <1>3, <1>8, <2>1, <2>2, <2>3, StandsOfShape
  <2> QED
    BY <2>1, <2>4 DEF y
<1> HIDE DEF P, r, H
<1>10. ASSUME NEW h \in Int
       PROVE  /\ H \in Int
              /\ c >= b + 2 => 2 * r <= 2^P /\ (H <= h /\ h <= H + r => Nearest(F, P, d, h))
              /\ c >= b + 4 => 2 * r <= 2^P /\ (H - 2 * r <= h /\ h <= H => Nearest(F, P, d, h))
  BY <1>3, <1>6, <1>7, <1>8, <1>9, FarIsNearest
<1>11. H \in Int /\ (c >= b + 2 => 2 * r <= 2^P) /\ (c >= b + 4 => 2 * r <= 2^P)
  <2>1. 0 \in Int
    OBVIOUS
  <2> HIDE DEF n, a, R, x
  <2> QED
    BY <1>10, <2>1
<1>13. c >= b + 2 => \A h \in Int : H <= h /\ h <= H + r => Nearest(F, P, d, h)
  <2> SUFFICES ASSUME c >= b + 2, NEW h \in Int, H <= h /\ h <= H + r PROVE Nearest(F, P, d, h)
    BY Zenon
  <2> QED
    BY <1>10
<1>14. c >= b + 4 => \A h \in Int : H - 2 * r <= h /\ h <= H => Nearest(F, P, d, h)
  <2> SUFFICES ASSUME c >= b + 4, NEW h \in Int, H - 2 * r <= h /\ h <= H PROVE Nearest(F, P, d, h)
    BY Zenon
  <2> QED
    BY <1>10
<1> HIDE DEF n, a, R, x
<1>12. /\ n \in Nat /\ P \in Nat /\ P >= F.x + 1 /\ R \in Nat /\ R >= 1
       /\ a \in Nat /\ Stands(v, P, s, a * R) /\ r \in Nat /\ H \in Int
       /\ c >= b + 2 => /\ 2 * r <= 2^P
                        /\ \A h \in Int : H <= h /\ h <= H + r => Nearest(F, P, d, h)
       /\ c >= b + 4 => /\ 2 * r <= 2^P
                        /\ \A h \in Int : H - 2 * r <= h /\ h <= H => Nearest(F, P, d, h)
  BY <1>2, <1>3, <1>4, <1>5, <1>6, <1>11, <1>13, <1>14, Zenon
<1> QED
  BY <1>12 DEF P, r, H, n, a, R, x

\* A number with a nearest word is rounded to it.
LEMMA NearestYields ==
    ASSUME NEW F, IsFormat(F), NEW P \in Nat, P >= F.x + 1, NEW V, NEW s, NEW y, Stands(V, P, s, y),
           NEW d, Nearest(F, P, d, Height(P, s, y)), NEW neg \in BOOLEAN
    PROVE  RoundsTo(F, Signed(F, neg, d * Ulp(F)), neg, V, Unity)
<1>1. P >= F.x
  BY DEF IsFormat
<1> QED
  BY <1>1, NearestNumber

\* A number and a far smaller one added to it round to the word of the first.
LEMMA FarNumberSum ==
    ASSUME NEW F, IsFormat(F), F.x >= 3,
           NEW d, NEW v, NEW s, NEW g, NEW k, NEW b, NEW f, Term(F, d, v, s, g, k, b, f),
           NEW m \in Int, m <= v.pow, NEW i \in Nat, NEW c \in Nat, i * 2^c < 2^((s - m) + 1),
           c >= b + 2, NEW V, V.num = InUnits(v, m) + i, V.pow = m, NEW neg \in BOOLEAN
    PROVE  RoundsTo(F, Signed(F, neg, d * Ulp(F)), neg, V, Unity)
<1> DEFINE n == s - m
           x == F.x + 2
           P == n + x
           R == 2^x
           a == InUnits(v, m)
           G == a * R
           H == Height(P, s, G)
           r == i * R
           A == 2^P
<1>1. /\ n \in Nat /\ P \in Nat /\ P >= F.x + 1 /\ R \in Nat /\ R >= 1
      /\ a \in Nat /\ Stands(v, P, s, G) /\ r \in Nat /\ H \in Int /\ 2 * r <= A
      /\ \A h \in Int : H <= h /\ h <= H + r => Nearest(F, P, d, h)
  BY FarUnits
<1>2. s \in Int /\ F.x \in Nat
  BY TermSizes
<1>3. x \in Nat /\ P - n = x /\ P - (n + 1) = x - 1 /\ x - 1 \in Nat
  <2> HIDE DEF n
  <2> QED
    BY <1>1, <1>2
<1>4. R = 2 * 2^(x - 1) /\ 2^(x - 1) \in Nat
  <2> HIDE DEF x
  <2> QED
    BY <1>3, PowerStep, PowerBelow
<1>5. Significand(P, G) /\ G \in Nat /\ A \in Nat /\ Height(P, s, G) \in Int
  <2>1. Significand(P, G)
    BY <1>1 DEF Stands
  <2>2. A \in Nat
    <3> HIDE DEF P
    <3> QED
      BY <1>1, PowerType
  <2>3. G \in Nat
    <3> HIDE DEF a, R
    <3> QED
      BY <1>1
  <2> QED
    BY <1>1, <2>1, <2>2, <2>3
<1> HIDE DEF P
<1> DEFINE y == G + r
<1>6. /\ y < 2 * A => Significand(P, y) /\ Height(P, s, y) = Height(P, s, G) + r
      /\ y >= 2 * A => /\ y < 4 * A /\ Significand(P, y \div 2)
                       /\ Height(P, s, G) <= Height(P, s + 1, y \div 2)
                       /\ Height(P, s + 1, y \div 2) <= Height(P, s, G) + r
  BY <1>1, <1>2, <1>5, CarryHeight
<1>7. V.num = a + i /\ V.num \in Nat /\ V.pow = m /\ V.pow \in Int /\ y = V.num * R
  <2>1. V.num = a + i
    OBVIOUS
  <2> HIDE DEF a, R
  <2> QED
    BY <1>1, <2>1
<1>8. s - V.pow = n /\ s + 1 - V.pow = n + 1 /\ n \in 0 .. P /\ n + 1 \in 0 .. P
  <2>1. s - V.pow = n /\ s + 1 - V.pow = n + 1
    BY <1>2
  <2> HIDE DEF n
  <2> QED
    BY <1>1, <1>2, <1>3, <2>1
<1> HIDE DEF n, x, R, a, G, A
<1>9. CASE y < 2 * A
  <2>1. y = V.num * 2^(P - (s - V.pow))
    BY <1>3, <1>7, <1>8 DEF R
  <2>2. s - V.pow \in 0 .. P
    BY <1>8
  <2>3. Stands(V, P, s, y)
    <3> HIDE DEF y
    <3> QED
      BY <1>1, <1>2, <1>6, <1>7, <1>9, <2>1, <2>2, StandsThere
  <2> DEFINE h == Height(P, s, y)
  <2>4. h = H + r
    BY <1>6, <1>9
  <2> HIDE DEF h, H, r
  <2>5. Nearest(F, P, d, h)
    BY <1>1, <2>4
  <2> HIDE DEF y
  <2> QED
    BY <1>1, <2>3, <2>5, NearestYields DEF h
<1>10. CASE y >= 2 * A
  <2> DEFINE z == y \div 2
             N == V.num
             Q == 2^(x - 1)
  <2>1. z = N * Q
    <3>1. y = 2 * (N * Q) /\ N * Q \in Int
      <4> HIDE DEF N, Q, y
      <4>1. N \in Nat /\ Q \in Nat /\ y = N * R /\ R = 2 * Q
        BY <1>4, <1>7 DEF N, Q
      <4> QED
        BY <4>1
    <3> DEFINE e == N * Q
    <3> HIDE DEF e, y
    <3>2. y = 2 * e + 0 /\ e \in Int /\ 0 \in 0 .. 2 - 1 /\ y \in Int
      BY <3>1 DEF e
    <3>3. y \div 2 = e
      BY <3>2, DivisionUnique
    <3> QED
      BY <3>3 DEF e
  <2>2. z = V.num * 2^(P - (s + 1 - V.pow))
    BY <1>3, <1>8, <2>1
  <2>3. s + 1 - V.pow \in 0 .. P /\ s + 1 \in Int
    BY <1>2, <1>8
  <2>4. Significand(P, z)
    BY <1>6, <1>10
  <2> HIDE DEF N, Q
  <2>5. Stands(V, P, s + 1, z)
    <3> HIDE DEF z
    <3> DEFINE u == s + 1
    <3>1. u \in Int /\ u - V.pow \in 0 .. P /\ z = V.num * 2^(P - (u - V.pow))
      <4>1. u - V.pow = s + 1 - V.pow
        BY <1>2, <1>7
      <4> QED
        BY <2>2, <2>3, <4>1
    <3> HIDE DEF u
    <3>2. Stands(V, P, u, z)
      BY <1>1, <1>7, <2>4, <3>1, StandsThere
    <3> QED
      BY <3>2 DEF u
  <2> DEFINE h == Height(P, s + 1, z)
  <2>6. H <= h /\ h <= H + r
    BY <1>6, <1>10
  <2>7. h \in Int
    <3>1. z \in Int
      <4> HIDE DEF z
      <4> QED
        BY <1>5, <2>4 DEF Significand, A
    <3> HIDE DEF z
    <3> QED
      BY <1>2, <1>5, <3>1 DEF Height, A
  <2> HIDE DEF h, H, r
  <2>8. Nearest(F, P, d, h)
    BY <1>1, <2>6, <2>7
  <2> HIDE DEF z
  <2> DEFINE u == s + 1
  <2>9. Stands(V, P, u, z) /\ Nearest(F, P, d, Height(P, u, z))
    BY <2>5, <2>8 DEF h
  <2> HIDE DEF u
  <2> QED
    BY <1>1, <2>9, NearestYields
<1>11. y \in Int
  <2> HIDE DEF r
  <2> QED
    BY <1>1, <1>5
<1> QED
  <2> HIDE DEF y
  <2> QED
    BY <1>5, <1>9, <1>10, <1>11

\* So do a number and a far smaller one taken from it.
LEMMA FarNumberDifference ==
    ASSUME NEW F, IsFormat(F), F.x >= 3,
           NEW d, NEW v, NEW s, NEW g, NEW k, NEW b, NEW f, Term(F, d, v, s, g, k, b, f),
           NEW m \in Int, m <= v.pow, NEW i \in Nat, NEW c \in Nat, i * 2^c < 2^((s - m) + 1),
           c >= b + 4, NEW V, V.num = InUnits(v, m) - i, V.pow = m, NEW neg \in BOOLEAN
    PROVE  RoundsTo(F, Signed(F, neg, d * Ulp(F)), neg, V, Unity)
<1> DEFINE n == s - m
           x == F.x + 2
           P == n + x
           R == 2^x
           a == InUnits(v, m)
           G == a * R
           H == Height(P, s, G)
           r == i * R
           A == 2^P
<1>1. /\ n \in Nat /\ P \in Nat /\ P >= F.x + 1 /\ R \in Nat /\ R >= 1
      /\ a \in Nat /\ Stands(v, P, s, G) /\ r \in Nat /\ H \in Int /\ 2 * r <= A
      /\ \A h \in Int : H - 2 * r <= h /\ h <= H => Nearest(F, P, d, h)
  BY FarUnits
<1>2. s \in Int /\ F.x \in Nat /\ b \in Nat
  BY TermSizes
<1>3. x \in Nat /\ P - n = x /\ P - (n - 1) = x + 1
  <2> HIDE DEF n
  <2> QED
    BY <1>1, <1>2
<1>4. 2^(x + 1) = 2 * R
  <2> HIDE DEF x
  <2> QED
    BY <1>3, PowerStep
<1>5. Significand(P, G) /\ G \in Nat /\ A \in Nat /\ A >= 1 /\ G >= A
  <2>1. Significand(P, G)
    BY <1>1 DEF Stands
  <2>2. A \in Nat /\ A >= 1
    <3> HIDE DEF P
    <3> QED
      BY <1>1, PowerType
  <2>3. G \in A .. 2 * A - 1
    BY <2>1 DEF Significand
  <2> HIDE DEF G, A
  <2> QED
    BY <1>1, <2>1, <2>2, <2>3
<1>6. i >= 1 => n >= 1
  <2> SUFFICES ASSUME i >= 1, n = 0 PROVE FALSE
    <3> HIDE DEF n
    <3> QED
      BY <1>1
  <2>1. 2^((s - m) + 1) = 2
    <3>1. 2^(n + 1) = 2 * 2^n /\ 2^n = 1
      BY PowerZero, <1>1, PowerStep
    <3> QED
      BY <3>1
  <2> DEFINE C == 2^c
  <2>2. C \in Nat /\ C > c
    BY PowerExceeds
  <2>3. i * C < 2
    BY <2>1
  <2> HIDE DEF C, n
  <2>4. i * C >= C
    BY <2>2
  <2>5. i * C \in Int
    BY <2>2
  <2> QED
    BY <1>2, <2>2, <2>3, <2>4, <2>5
<1> HIDE DEF P
<1> DEFINE y == G - r
<1>7. /\ y >= A => Significand(P, y) /\ Height(P, s, y) = Height(P, s, G) - r
      /\ y < A => /\ 2 * y >= A /\ Significand(P, 2 * y)
                  /\ Height(P, s - 1, 2 * y) <= Height(P, s, G)
                  /\ Height(P, s, G) - 2 * r <= Height(P, s - 1, 2 * y)
  BY <1>1, <1>2, <1>5, BorrowHeight
<1>8. y \in Int /\ y >= 1
  <2>1. y \in Int
    <3> HIDE DEF G, r
    <3> QED
      BY <1>1, <1>5
  <2> HIDE DEF y, A
  <2> QED
    BY <1>5, <1>7, <2>1
<1>9. V.num = a - i /\ V.num \in Nat /\ V.pow = m /\ V.pow \in Int /\ y = V.num * R
  <2>1. V.num = a - i
    OBVIOUS
  <2>2. y = (a - i) * R
    <3> HIDE DEF a, R
    <3> QED
      BY <1>1
  <2> HIDE DEF a, R, y
  <2>3. a >= i
    <3>1. ASSUME a < i PROVE FALSE
      <4>1. (a - i) * R <= (-1) * R
        BY <1>1, <3>1
      <4> QED
        BY <1>1, <1>8, <2>2, <4>1
    <3> QED
      BY <1>1, <3>1
  <2> QED
    BY <1>1, <2>1, <2>2, <2>3
<1>10. s - V.pow = n /\ n \in 0 .. P
  <2>1. s - V.pow = n
    BY <1>2
  <2> HIDE DEF n
  <2> QED
    BY <1>1, <1>2, <1>3, <2>1
<1>11. y < A => n >= 1
  <2> SUFFICES ASSUME y < A PROVE n >= 1
    OBVIOUS
  <2>1. i >= 1
    <3> SUFFICES ASSUME i = 0 PROVE FALSE
      OBVIOUS
    <3>1. r = 0
      <4> HIDE DEF R
      <4> QED
        BY <1>1
    <3> HIDE DEF r, G, A
    <3> QED
      BY <1>5, <3>1
  <2> QED
    BY <1>6, <2>1
<1> HIDE DEF n, x, R, a, G, A
<1>12. CASE y >= A
  <2>1. y = V.num * 2^(P - (s - V.pow))
    BY <1>3, <1>9, <1>10 DEF R
  <2>2. s - V.pow \in 0 .. P
    BY <1>10
  <2>3. Stands(V, P, s, y)
    <3> HIDE DEF y
    <3> QED
      BY <1>1, <1>2, <1>7, <1>9, <1>12, <2>1, <2>2, StandsThere
  <2> DEFINE h == Height(P, s, y)
  <2>4. h = H - r
    BY <1>7, <1>12
  <2> HIDE DEF h, H, r
  <2>5. Nearest(F, P, d, h)
    BY <1>1, <2>4
  <2> HIDE DEF y
  <2> QED
    BY <1>1, <2>3, <2>5, NearestYields DEF h
<1>13. CASE y < A
  <2> DEFINE z == 2 * y
             u == s - 1
  <2>1. u \in Int /\ u - V.pow = n - 1 /\ n - 1 \in 0 .. P
    <3>1. n >= 1
      BY <1>11, <1>13
    <3>2. n \in Int /\ P \in Int
      BY <1>1
    <3>3. u \in Int /\ u - V.pow = n - 1
      BY <1>2, <1>9, <1>10
    <3> HIDE DEF u
    <3> QED
      BY <1>10, <3>1, <3>2, <3>3
  <2>2. z = V.num * 2^(P - (u - V.pow))
    <3>1. 2^(P - (u - V.pow)) = 2 * R
      BY <1>3, <1>4, <2>1
    <3> DEFINE N == V.num
    <3>2. N \in Nat /\ y = N * R
      BY <1>9
    <3> HIDE DEF N, y
    <3>3. z = N * (2 * R)
      BY <1>1, <3>2
    <3> QED
      BY <3>1, <3>3 DEF N
  <2>3. Significand(P, z)
    BY <1>7, <1>13
  <2> DEFINE h == Height(P, u, z)
  <2>4. H - 2 * r <= h /\ h <= H
    BY <1>7, <1>13
  <2>5. z \in Int
    <3> HIDE DEF y
    <3> QED
      BY <1>8
  <2> HIDE DEF u, z
  <2>6. Stands(V, P, u, z)
    BY <1>1, <1>9, <2>1, <2>2, <2>3, StandsThere
  <2>7. h \in Int
    BY <1>5, <2>1, <2>5 DEF Height, A
  <2> HIDE DEF h, H, r
  <2>8. Nearest(F, P, d, h)
    BY <1>1, <2>4, <2>7
  <2>9. Stands(V, P, u, z) /\ Nearest(F, P, d, Height(P, u, z))
    BY <2>6, <2>8 DEF h
  <2> QED
    BY <1>1, <2>9, NearestYields
<1> QED
  <2> HIDE DEF y
  <2> QED
    BY <1>5, <1>8, <1>12, <1>13

\* A number in units is bounded by its size.
LEMMA UnitsBelow ==
    ASSUME NEW w, IsPositive(w), NEW p \in Nat, NEW t, NEW h, Stands(w, p, t, h),
           NEW m \in Int, m <= w.pow
    PROVE  InUnits(w, m) \in Nat /\ t - m \in Nat /\ t \in Int /\ InUnits(w, m) < 2^((t - m) + 1)
<1>1. Size(w) = t
  BY SizeIs
<1>2. PICK u \in Int :
              /\ u >= m /\ InUnits(w, m) \in Nat
              /\ 2^(u - m) <= InUnits(w, m) /\ InUnits(w, m) < 2^(u - m + 1)
              /\ \A q \in Nat : q >= u - m =>
                    \E y : Stands(w, q, u, y) /\ y = InUnits(w, m) * 2^(q - (u - m))
  BY UnitsStand
<1> DEFINE q == u - m
<1>3. q \in Nat
  BY <1>2
<1> HIDE DEF q
<1>4. PICK y : Stands(w, q, u, y)
  BY <1>2, <1>3 DEF q
<1>5. u = t
  BY <1>1, <1>3, <1>4, SizeIs
<1> QED
  BY <1>2, <1>3, <1>5 DEF q

\* V is v and sgn times a number that is the given number of digits or more below v.
FarBelow(V, v, s, sgn, gap) ==
    \E m \in Int, i \in Nat, D \in Nat :
       /\ m <= v.pow /\ D >= gap /\ i * 2^D < 2^((s - m) + 1)
       /\ V.num = InUnits(v, m) + sgn * i /\ V.pow = m

\* A sum or a difference of far terms in units.
LEMMA FarExact ==
    ASSUME NEW F, IsFormat(F), F.x >= 3,
           NEW d, NEW v, NEW s, NEW g, NEW k, NEW b, NEW f, Term(F, d, v, s, g, k, b, f),
           NEW e, NEW w, NEW t, NEW h, NEW l, NEW y, NEW q, Term(F, e, w, t, h, l, y, q),
           t <= s, NEW sgn \in Int
    PROVE  FarBelow(ExactPlus(v, w, sgn), v, s, sgn, s - t)
<1> DEFINE V == ExactPlus(v, w, sgn)
           p == 2 * F.n - 2
<1>1. /\ s \in Int /\ v.pow \in Int
      /\ F.x \in Nat /\ F.x <= F.n /\ F.n \in Nat
  BY TermSizes
<1>2. t \in Int /\ w.pow \in Int
  BY TermSizes
<1>3. IsPositive(v) /\ IsPositive(w) /\ Stands(v, p, s, g) /\ Stands(w, p, t, h) /\ p \in Nat
  BY <1>1 DEF Term
<1> DEFINE m == Min({v.pow, w.pow})
           i == InUnits(w, m)
           D == s - t
<1>4. m \in Int /\ m <= v.pow /\ m <= w.pow /\ V.num = InUnits(v, m) + sgn * InUnits(w, m) /\ V.pow = m
  BY <1>3, ExactInUnits
<1> HIDE DEF m
<1>5. i \in Nat /\ t - m \in Nat /\ i < 2^((t - m) + 1)
  <2> HIDE DEF p
  <2> QED
    BY <1>3, <1>4, UnitsBelow
<1>6. D \in Nat /\ D >= s - t
  BY <1>1, <1>2
<1>7. i * 2^D < 2^((s - m) + 1)
  <2> DEFINE z == (t - m) + 1
             N == 2^z
             C == 2^D
  <2>1. z \in Nat /\ z + D = (s - m) + 1
    <3>1. z \in Nat
      BY <1>5
    <3>2. z + D = (s - m) + 1
      BY <1>1, <1>2, <1>4
    <3> QED
      BY <3>1, <3>2
  <2>2. i < N
    BY <1>5
  <2> HIDE DEF z, D, i
  <2>3. 2^(z + D) = N * C /\ N \in Nat /\ C \in Nat /\ C >= 1
    BY <1>6, <2>1, PowerSum, PowerType
  <2> HIDE DEF N, C
  <2>4. i * C < N * C
    BY <1>5, <2>2, <2>3
  <2> QED
    BY <2>1, <2>3, <2>4 DEF C
<1> HIDE DEF D, V, i
<1>8. /\ m <= v.pow /\ D >= s - t /\ i * 2^D < 2^((s - m) + 1)
      /\ V.num = InUnits(v, m) + sgn * i /\ V.pow = m
  BY <1>4, <1>6, <1>7 DEF i
<1>9. FarBelow(V, v, s, sgn, s - t)
  BY <1>4, <1>5, <1>6, <1>8, Zenon DEF FarBelow
<1> QED
  BY <1>9 DEF V

\* The sum or the difference of the reference: the smaller term, or the one that is
\* taken instead, is as far below the larger one.
LEMMA FarPlus ==
    ASSUME NEW F, IsFormat(F), F.x >= 3,
           NEW d, NEW v, NEW s, NEW g, NEW k, NEW b, NEW f, Term(F, d, v, s, g, k, b, f),
           NEW e, NEW w, NEW t, NEW h, NEW l, NEW y, NEW q, Term(F, e, w, t, h, l, y, q),
           t <= s, NEW sgn \in Int
    PROVE  \/ FarBelow(Plus(v, w, sgn), v, s, sgn, s - t)
           \/ FarBelow(Plus(v, w, sgn), v, s, sgn, b + 8)
<1> DEFINE V == Plus(v, w, sgn)
           p == 2 * F.n - 2
<1>1. /\ b \in Nat /\ b <= F.x - 3 /\ f \in Nat /\ s \in Int /\ v.pow \in Int /\ f = s - v.pow
      /\ F.es >= b => f = 0
      /\ F.es < b => f = b - F.es
      /\ F.x \in Nat /\ F.x <= F.n /\ F.n \in Nat /\ F.es \in 0 .. 2 /\ F.n >= F.es + 3
  BY TermSizes
<1>2. t \in Int /\ w.pow \in Int
  BY TermSizes
<1>3. IsPositive(v) /\ IsPositive(w) /\ Stands(v, p, s, g) /\ Stands(w, p, t, h) /\ p \in Nat
  BY <1>1 DEF Term
<1>4. CASE Size(w) < v.pow - 10
  <2> DEFINE m == v.pow - 10
             D == f + 10
  <2>1. V = [num |-> 1024 * v.num + sgn, pow |-> v.pow - 10]
    BY <1>4 DEF Plus
  <2>2. m \in Int /\ m <= v.pow /\ D \in Nat /\ D >= b + 8 /\ s - m = D /\ v.pow - m = 10
    BY <1>1
  <2>3. InUnits(v, m) = 1024 * v.num
    <3>1. 2^10 = 1024
      BY SMT
    <3>2. v.num \in Nat
      BY <1>3 DEF IsPositive
    <3> HIDE DEF m
    <3>3. InUnits(v, m) = v.num * 1024
      <4>1. ASSUME NEW c, c = 10 PROVE 2^c = 1024
        BY <3>1, <4>1, Zenon
      <4>2. v.pow - m = 10
        BY <2>2
      <4>3. 2^(v.pow - m) = 1024
        BY <4>1, <4>2
      <4> QED
        BY <4>3 DEF InUnits
    <3> QED
      BY <3>2, <3>3
  <2>4. 1 * 2^D < 2^((s - m) + 1)
    <3> HIDE DEF D
    <3>1. 2^(D + 1) = 2 * 2^D /\ 2^D \in Nat /\ 2^D >= 1
      BY <2>2, PowerStep, PowerType
    <3>2. (s - m) + 1 = D + 1
      BY <2>2
    <3> QED
      BY <3>1, <3>2
  <2>5. V.num = InUnits(v, m) + sgn * 1 /\ V.pow = m
    BY <2>1, <2>3
  <2> HIDE DEF m, D, V
  <2>6. /\ m <= v.pow /\ D >= b + 8 /\ 1 * 2^D < 2^((s - m) + 1)
        /\ V.num = InUnits(v, m) + sgn * 1 /\ V.pow = m
    BY <2>2, <2>4, <2>5
  <2>7. 1 \in Nat
    OBVIOUS
  <2>8. FarBelow(V, v, s, sgn, b + 8)
    BY <2>2, <2>6, <2>7, Zenon DEF FarBelow
  <2> QED
    BY <2>8 DEF V
<1>5. CASE ~ (Size(w) < v.pow - 10)
  <2>1. V = ExactPlus(v, w, sgn)
    BY <1>5 DEF Plus, ExactPlus
  <2> QED
    BY <2>1, FarExact
<1> QED
  BY <1>4, <1>5

\* The height of a term at the double width and the share of a small one.
LEMMA FarHeights ==
    ASSUME NEW F, IsFormat(F), F.x >= 3,
           NEW d, NEW v, NEW s, NEW g, NEW k, NEW b, NEW f, Term(F, d, v, s, g, k, b, f),
           NEW shift \in Nat, NEW r \in Nat, r * 2^shift < 2^((2 * F.n - 2) + 1)
    PROVE  LET p == 2 * F.n - 2
               H == Height(p, s, g)
           IN  /\ p \in Nat /\ H \in Int /\ Significand(p, g) /\ d \in Nat
               /\ shift >= b + 2 => /\ 2 * r <= 2^p
                                    /\ \A h \in Int : H <= h /\ h <= H + r => Nearest(F, p, d, h)
               /\ shift >= b + 4 => /\ 2 * r <= 2^p
                                    /\ \A h \in Int : H - 2 * r <= h /\ h <= H => Nearest(F, p, d, h)
<1> DEFINE p == 2 * F.n - 2
           H == Height(p, s, g)
<1>1. F.x \in Nat /\ F.es \in Nat /\ F.x <= F.n /\ F.n \in Nat /\ F.n >= 3
  <2>1. F.x \in Nat /\ F.x <= F.n /\ F.n \in Nat /\ F.es \in 0 .. 2 /\ F.n >= F.es + 3
    BY TermSizes
  <2> QED
    BY <2>1
<1>2. p \in Nat /\ p >= F.x + 1 /\ p >= F.x - 2 /\ F.x >= 2
  BY <1>1
<1>3. PICK j : Shaped(F.x, d, k, j)
  BY DEF Term
<1>4. v = Value(F.x, F.es, d) /\ b = BitsLeft(F.x, k) /\ Stands(v, p, s, g)
  BY DEF Term
<1>5. Significand(p, g)
  BY <1>4 DEF Stands
<1>6. d \in Nat
  <2>1. d \in 1 .. 2^(F.x - 1) - 1
    BY <1>1, <1>2, <1>3, ShapeOrder
  <2> QED
    BY <2>1
<1> HIDE DEF p
<1>7. H = ShapeHeight(F.x, F.es, p, k, j)
  BY <1>1, <1>2, <1>3, <1>4, StandsOfShape
<1>8. r * 2^shift < 2^(p + 1)
  BY DEF p
<1> HIDE DEF H
<1>9. ASSUME NEW h \in Int
      PROVE  /\ H \in Int
             /\ shift >= b + 2 => 2 * r <= 2^p /\ (H <= h /\ h <= H + r => Nearest(F, p, d, h))
             /\ shift >= b + 4 => 2 * r <= 2^p /\ (H - 2 * r <= h /\ h <= H => Nearest(F, p, d, h))
  BY <1>2, <1>3, <1>4, <1>7, <1>8, FarIsNearest
<1>10. H \in Int /\ (shift >= b + 2 => 2 * r <= 2^p) /\ (shift >= b + 4 => 2 * r <= 2^p)
  <2>1. 0 \in Int
    OBVIOUS
  <2> QED
    BY <1>9, <2>1
<1>11. shift >= b + 2 => \A h \in Int : H <= h /\ h <= H + r => Nearest(F, p, d, h)
  <2> SUFFICES ASSUME shift >= b + 2, NEW h \in Int, H <= h /\ h <= H + r PROVE Nearest(F, p, d, h)
    BY Zenon
  <2> QED
    BY <1>9
<1>12. shift >= b + 4 => \A h \in Int : H - 2 * r <= h /\ h <= H => Nearest(F, p, d, h)
  <2> SUFFICES ASSUME shift >= b + 4, NEW h \in Int, H - 2 * r <= h /\ h <= H PROVE Nearest(F, p, d, h)
    BY Zenon
  <2> QED
    BY <1>9
<1>13. /\ p \in Nat /\ H \in Int /\ Significand(p, g) /\ d \in Nat
       /\ shift >= b + 2 => /\ 2 * r <= 2^p
                            /\ \A h \in Int : H <= h /\ h <= H + r => Nearest(F, p, d, h)
       /\ shift >= b + 4 => /\ 2 * r <= 2^p
                            /\ \A h \in Int : H - 2 * r <= h /\ h <= H => Nearest(F, p, d, h)
  BY <1>2, <1>5, <1>6, <1>10, <1>11, <1>12, Zenon
<1> QED
  BY <1>13 DEF p, H

\* The word that is nearest is the result.
LEMMA YieldsNearest ==
    ASSUME NEW F, IsFormat(F), NEW z, z.scale \in Int, Significand(2 * F.n - 2, z.frac), Told(F, z),
           NEW d \in Nat, Nearest(F, 2 * F.n - 2, d, Height(2 * F.n - 2, z.scale, z.frac)), NEW V,
           \A neg \in BOOLEAN : RoundsTo(F, Signed(F, neg, d * Ulp(F)), neg, V, Unity)
    PROVE  Yields(F, Packed(F, z), V)
<1>1. PICK t \in Nat : Packed(F, z) = t * Ulp(F) /\ (t = d \/ (FullWidth(F) /\ Crowded(F, t)))
  BY NearestPacks
<1> QED
  BY <1>1 DEF Yields

\* A far term is absorbed by a sum.
LEMMA FarSum ==
    ASSUME NEW F, IsFormat(F), F.x >= 3,
           NEW d, NEW v, NEW s, NEW g, NEW k, NEW b, NEW f, Term(F, d, v, s, g, k, b, f),
           NEW e, NEW w, NEW t, NEW h, NEW l, NEW y, NEW q, Term(F, e, w, t, h, l, y, q),
           s - t >= b + 2, NEW r \in Nat, r * 2^(s - t) < 2^((2 * F.n - 2) + 1)
    PROVE  Yields(F, Packed(F, Normal(F, s, g + r)), Plus(v, w, 1))
<1> DEFINE p == 2 * F.n - 2
           A == 2^p
           H == Height(p, s, g)
           frac == g + r
           z == Normal(F, s, frac)
           V == Plus(v, w, 1)
<1>1. s \in Int /\ b \in Nat /\ t \in Int
  <2>1. s \in Int /\ b \in Nat
    BY TermSizes
  <2>2. t \in Int
    BY TermSizes
  <2> QED
    BY <2>1, <2>2
<1>2. s - t \in Nat
  BY <1>1
<1>3. p \in Nat /\ H \in Int /\ Significand(p, g) /\ d \in Nat /\ 2 * r <= A
  BY <1>2, FarHeights
<1>4. \A i \in Int : H <= i /\ i <= H + r => Nearest(F, p, d, i)
  <2> DEFINE shift == s - t
  <2>1. shift \in Nat /\ shift >= b + 2 /\ r * 2^shift < 2^((2 * F.n - 2) + 1)
    BY <1>2
  <2> HIDE DEF shift
  <2> QED
    BY <2>1, FarHeights
<1>5. A \in Nat /\ g \in Nat /\ g >= A /\ g < 2 * A
  <2>1. A \in Nat
    <3> HIDE DEF p
    <3> QED
      BY <1>3, PowerType
  <2>2. g \in A .. 2 * A - 1
    BY <1>3 DEF Significand
  <2> HIDE DEF A
  <2> QED
    BY <2>1, <2>2
<1>6. frac \in Nat /\ frac >= A /\ frac < 4 * A
  <2> HIDE DEF A
  <2> QED
    BY <1>3, <1>5
<1>7. /\ frac < 2 * A => /\ Significand(p, frac)
                         /\ Height(p, s, frac) = H + r
      /\ frac >= 2 * A => /\ Significand(p, frac \div 2)
                          /\ H <= Height(p, s + 1, frac \div 2)
                          /\ Height(p, s + 1, frac \div 2) <= H + r
  <2> HIDE DEF p
  <2> QED
    BY <1>1, <1>3, CarryHeight
<1>8. /\ frac < 2 * A => z.scale = s /\ z.frac = frac
      /\ frac >= 2 * A => z.scale = s + 1 /\ z.frac = frac \div 2
  <2> HIDE DEF frac
  <2>1. /\ frac >= A /\ frac < 2 * A => z.scale = s /\ z.frac = frac
        /\ frac >= 2 * A /\ frac < 4 * A => z.scale = s + 1 /\ z.frac = frac \div 2
    BY <1>1, <1>6, NormalIs
  <2> HIDE DEF z, A
  <2> QED
    BY <1>6, <2>1
<1> HIDE DEF z, A, frac, H
<1>9. z.scale \in Int /\ Significand(p, z.frac) /\ (z.scale = s \/ z.scale = s + 1)
      /\ H <= Height(p, z.scale, z.frac) /\ Height(p, z.scale, z.frac) <= H + r
  BY <1>1, <1>3, <1>5, <1>6, <1>7, <1>8
<1>10. Told(F, z)
  BY <1>9, ToldSum
<1>11. Height(p, z.scale, z.frac) \in Int
  <2>1. z.frac \in Int /\ 2^p \in Int
    BY <1>5, <1>9 DEF Significand, A
  <2> QED
    BY <1>9, <2>1 DEF Height
<1>12. Nearest(F, p, d, Height(p, z.scale, z.frac))
  BY <1>4, <1>9, <1>11
<1>13. ASSUME NEW neg \in BOOLEAN PROVE RoundsTo(F, Signed(F, neg, d * Ulp(F)), neg, V, Unity)
  <2> DEFINE sgn == 1
  <2>1. sgn \in Int /\ t <= s
    BY <1>1
  <2> HIDE DEF sgn
  <2>5. FarBelow(Plus(v, w, sgn), v, s, sgn, s - t) \/ FarBelow(Plus(v, w, sgn), v, s, sgn, b + 8)
    BY <2>1, FarPlus
  <2>2. PICK m \in Int, i \in Nat, D \in Nat :
              /\ m <= v.pow /\ (D >= s - t \/ D >= b + 8) /\ i * 2^D < 2^((s - m) + 1)
              /\ Plus(v, w, sgn).num = InUnits(v, m) + sgn * i /\ Plus(v, w, sgn).pow = m
    BY <2>5, Zenon DEF FarBelow
  <2>3. V.num = InUnits(v, m) + i /\ V.pow = m
    <3> DEFINE W == Plus(v, w, sgn)
    <3>1. V = W /\ sgn = 1
      BY DEF sgn
    <3> HIDE DEF W, V
    <3>2. W.num = InUnits(v, m) + sgn * i /\ W.pow = m
      BY <2>2 DEF W
    <3>3. sgn * i = i
      BY <3>1
    <3> QED
      BY <3>1, <3>2, <3>3
  <2>4. D >= b + 2
    BY <1>1, <2>2
  <2> HIDE DEF V
  <2> QED
    BY <2>2, <2>3, <2>4, FarNumberSum
<1> HIDE DEF V
<1>14. Yields(F, Packed(F, z), V)
  BY <1>3, <1>9, <1>10, <1>12, <1>13, YieldsNearest DEF p
<1> QED
  BY <1>14 DEF z, V, frac

\* A number changed by one that is far below it rounds to the word it had.
LEMMA FarRounds ==
    ASSUME NEW F, IsFormat(F), F.x >= 3,
           NEW d, NEW v, NEW s, NEW g, NEW k, NEW b, NEW f, Term(F, d, v, s, g, k, b, f),
           NEW sgn \in {-1, 1}, NEW V, NEW gap \in Int, gap >= b + 4,
           FarBelow(V, v, s, sgn, gap), NEW neg \in BOOLEAN
    PROVE  RoundsTo(F, Signed(F, neg, d * Ulp(F)), neg, V, Unity)
<1>1. b \in Nat
  BY TermSizes
<1>2. PICK m \in Int, i \in Nat, D \in Nat :
         /\ m <= v.pow /\ D >= gap /\ i * 2^D < 2^((s - m) + 1)
         /\ V.num = InUnits(v, m) + sgn * i /\ V.pow = m
  BY Zenon DEF FarBelow
<1>3. D >= b + 4 /\ D >= b + 2
  BY <1>1, <1>2
<1>4. InUnits(v, m) \in Nat
  <2>1. IsPositive(v) /\ Stands(v, 2 * F.n - 2, s, g)
    BY DEF Term
  <2>2. 2 * F.n - 2 \in Nat
    <3>1. F.n \in Nat /\ F.x <= F.n /\ F.x \in Nat
      BY TermSizes
    <3> QED
      BY <3>1
  <2> QED
    BY <1>2, <2>1, <2>2, UnitsBelow
<1> DEFINE a == InUnits(v, m)
<1> HIDE DEF a
<1>5. a \in Nat /\ V.num = a + sgn * i
  BY <1>2, <1>4 DEF a
<1>6. ASSUME sgn = 1 PROVE V.num = a + i
  BY <1>5, <1>6
<1>7. ASSUME sgn = -1 PROVE V.num = a - i
  BY <1>5, <1>7
<1>8. ASSUME sgn = 1 PROVE RoundsTo(F, Signed(F, neg, d * Ulp(F)), neg, V, Unity)
  BY <1>2, <1>3, <1>6, <1>8, FarNumberSum DEF a
<1>9. ASSUME sgn = -1 PROVE RoundsTo(F, Signed(F, neg, d * Ulp(F)), neg, V, Unity)
  BY <1>2, <1>3, <1>7, <1>9, FarNumberDifference DEF a
<1> QED
  BY <1>8, <1>9

\* The difference with a far term is rounded to the larger term.
LEMMA FarAbsorbed ==
    ASSUME NEW F, IsFormat(F), F.x >= 3,
           NEW d, NEW v, NEW s, NEW g, NEW k, NEW b, NEW f, Term(F, d, v, s, g, k, b, f),
           NEW e, NEW w, NEW t, NEW h, NEW l, NEW y, NEW q, Term(F, e, w, t, h, l, y, q),
           s - t >= b + 4
    PROVE  /\ Yields(F, d * Ulp(F), Plus(v, w, -1)) /\ d \in Nat
           /\ \A neg \in BOOLEAN : RoundsTo(F, Signed(F, neg, d * Ulp(F)), neg, Plus(v, w, -1), Unity)
<1> DEFINE V == Plus(v, w, -1)
<1>1. s \in Int /\ b \in Nat /\ t \in Int
  <2>1. s \in Int /\ b \in Nat
    BY TermSizes
  <2>2. t \in Int
    BY TermSizes
  <2> QED
    BY <2>1, <2>2
<1>2. d \in Nat
  <2>1. F.x \in Nat
    BY TermSizes
  <2>2. PICK j : Shaped(F.x, d, k, j)
    BY DEF Term
  <2>3. d \in 1 .. 2^(F.x - 1) - 1
    BY <2>1, <2>2, ShapeOrder
  <2> QED
    BY <2>3
<1>3. ASSUME NEW neg \in BOOLEAN PROVE RoundsTo(F, Signed(F, neg, d * Ulp(F)), neg, V, Unity)
  <2> DEFINE sgn == -1
  <2>1. sgn \in {-1, 1} /\ sgn \in Int /\ t <= s /\ s - t \in Int /\ b + 8 \in Int /\ b + 8 >= b + 4
    BY <1>1
  <2> HIDE DEF sgn
  <2>2. FarBelow(Plus(v, w, sgn), v, s, sgn, s - t) \/ FarBelow(Plus(v, w, sgn), v, s, sgn, b + 8)
    BY <2>1, FarPlus
  <2>3. RoundsTo(F, Signed(F, neg, d * Ulp(F)), neg, Plus(v, w, sgn), Unity)
    BY <2>1, <2>2, FarRounds
  <2> QED
    BY <2>3 DEF sgn
<1> HIDE DEF V
<1>4. Yields(F, d * Ulp(F), V)
  BY <1>2, <1>3 DEF Yields
<1> QED
  BY <1>2, <1>3, <1>4 DEF V

\* Whatever is left of a far term after the shift, the packed difference is the word of the
\* larger one, or one without room for the exponent.
LEMMA FarDifference ==
    ASSUME NEW F, IsFormat(F), F.x >= 3,
           NEW d, NEW v, NEW s, NEW g, NEW k, NEW b, NEW f, Term(F, d, v, s, g, k, b, f),
           NEW e, NEW w, NEW t, NEW h, NEW l, NEW y, NEW q, Term(F, e, w, t, h, l, y, q),
           s - t >= b + 4, NEW r \in Nat, r * 2^(s - t) < 2^((2 * F.n - 2) + 1)
    PROVE  Yields(F, Packed(F, Normal(F, s, g - r)), Plus(v, w, -1))
<1> DEFINE p == 2 * F.n - 2
           A == 2^p
           H == Height(p, s, g)
           frac == g - r
           z == Normal(F, s, frac)
           V == Plus(v, w, -1)
<1>1. s \in Int /\ b \in Nat /\ t \in Int
  <2>1. s \in Int /\ b \in Nat
    BY TermSizes
  <2>2. t \in Int
    BY TermSizes
  <2> QED
    BY <2>1, <2>2
<1>2. s - t \in Nat
  BY <1>1
<1> DEFINE shift == s - t
<1>3. p \in Nat /\ H \in Int /\ Significand(p, g) /\ d \in Nat /\ 2 * r <= A
      /\ \A i \in Int : H - 2 * r <= i /\ i <= H => Nearest(F, p, d, i)
  <2>1. shift \in Nat /\ shift >= b + 4 /\ r * 2^shift < 2^((2 * F.n - 2) + 1)
    BY <1>2
  <2> HIDE DEF shift
  <2> QED
    BY <2>1, FarHeights
<1>4. A \in Nat /\ g \in Nat /\ g >= A /\ g < 2 * A
  <2>1. A \in Nat
    <3> HIDE DEF p
    <3> QED
      BY <1>3, PowerType
  <2>2. g \in A .. 2 * A - 1
    BY <1>3 DEF Significand
  <2> HIDE DEF A
  <2> QED
    BY <2>1, <2>2
<1>5. 8 * r <= A
  <2> DEFINE C == 2^(shift - 4)
             S == 2^shift
  <2>1. S = 16 * C /\ C \in Nat /\ C >= 1
    <3> DEFINE c == shift - 4
    <3>1. c \in Nat /\ 4 + c = shift
      BY <1>1
    <3> HIDE DEF c, shift
    <3>2. 2^(4 + c) = 2^4 * 2^c
      BY <3>1, PowerSum
    <3>3. 2^4 = 16
      BY SMT
    <3>4. 2^c \in Nat /\ 2^c >= 1
      BY <3>1, PowerType
    <3> QED
      BY <3>1, <3>2, <3>3, <3>4 DEF c
  <2>2. 2^(p + 1) = 2 * A
    <3> HIDE DEF p
    <3> QED
      BY <1>3, PowerStep
  <2>3. r * S < 2 * A
    BY <2>2
  <2> HIDE DEF S, C, A
  <2>4. r * S = 16 * (r * C) /\ r * C >= r /\ r * C \in Nat
    BY <2>1
  <2> QED
    BY <1>4, <2>3, <2>4
<1>6. frac \in Nat /\ 2 * frac >= A /\ frac < 2 * A
  <2> HIDE DEF A
  <2> QED
    BY <1>3, <1>4
<1>7. /\ frac >= A => /\ Significand(p, frac)
                      /\ Height(p, s, frac) = H - r
      /\ frac < A => /\ Significand(p, 2 * frac)
                     /\ Height(p, s - 1, 2 * frac) <= H
                     /\ H - 2 * r <= Height(p, s - 1, 2 * frac)
  <2> HIDE DEF p
  <2> QED
    BY <1>1, <1>3, BorrowHeight
<1>8. /\ frac >= A => z.scale = s /\ z.frac = frac
      /\ frac < A => z.scale = s - 1 /\ z.frac = 2 * frac
  <2> HIDE DEF frac
  <2>1. /\ frac >= A /\ frac < 2 * A => z.scale = s /\ z.frac = frac
        /\ 2 * frac >= A /\ frac < A => z.scale = s - 1 /\ z.frac = 2 * frac
    BY <1>1, <1>6, NormalIs
  <2> HIDE DEF z, A
  <2> QED
    BY <1>6, <2>1
<1>9. Told(F, z)
  <2>1. z = Normal(F, s, g - r)
    OBVIOUS
  <2>2. 8 * r <= 2^(2 * F.n - 2)
    BY <1>5
  <2> HIDE DEF z
  <2> QED
    BY <2>1, <2>2, ToldBorrow
<1> HIDE DEF z, A, frac, H, shift
<1>10. z.scale \in Int /\ Significand(p, z.frac)
       /\ H - 2 * r <= Height(p, z.scale, z.frac) /\ Height(p, z.scale, z.frac) <= H
  BY <1>1, <1>3, <1>4, <1>6, <1>7, <1>8
<1>11. Height(p, z.scale, z.frac) \in Int
  <2>1. z.frac \in Int /\ 2^p \in Int
    BY <1>4, <1>10 DEF Significand, A
  <2> QED
    BY <1>10, <2>1 DEF Height
<1>12. Nearest(F, p, d, Height(p, z.scale, z.frac))
  BY <1>3, <1>10, <1>11
<1>13. \A neg \in BOOLEAN : RoundsTo(F, Signed(F, neg, d * Ulp(F)), neg, V, Unity)
  BY FarAbsorbed
<1> HIDE DEF V
<1>14. Yields(F, Packed(F, z), V)
  BY <1>3, <1>9, <1>10, <1>12, <1>13, YieldsNearest DEF p
<1> QED
  BY <1>14 DEF z, V, frac
===============================================================================
