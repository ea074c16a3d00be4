-------------------------- MODULE PositObjectsProofs --------------------------
(***************************************************************************)
(* What holds of the objects of PositObjects for every width, every        *)
(* precision and every word: they keep a word of their precision, a result *)
(* is NaR, zero or negative only where it must be, and it is the exact one *)
(* rounded once.                                                           *)
(***************************************************************************)
EXTENDS PositObjects, PositArithmeticProofs

-----------------------------------------------------------------------------
(* Sums and differences of two words, their terms near or far.              *)

\* The shifts are cut off only where the smaller term is far.
Aligns(F) == F.addMax >= F.n - 1 /\ F.subMax >= F.n

\* A word as a term.
LEMMA TermOfWord ==
    ASSUME NEW F, IsFormat(F), NEW d \in 1 .. 2^(F.x - 1) - 1
    PROVE  \E k, b, f : Term(F, d, Value(F.x, F.es, d), Wide(F, d * Ulp(F)).scale,
                             Wide(F, d * Ulp(F)).frac, k, b, f)
<1>1. PICK v, s, g, k, b, f : Term(F, d, v, s, g, k, b, f)
  BY TermOf
<1>2. /\ v = Value(F.x, F.es, d) /\ s = Wide(F, d * Ulp(F)).scale
      /\ g = Wide(F, d * Ulp(F)).frac
  BY <1>1 DEF Term
<1> QED
  BY <1>1, <1>2

\* What is left of a significand that is moved right is small.
LEMMA MovedRight ==
    ASSUME NEW p \in Nat, NEW h, Significand(p, h), NEW c \in Nat
    PROVE  (h \div 2^c) \in Nat /\ (h \div 2^c) * 2^c < 2^(p + 1) /\ 0 * 2^c < 2^(p + 1)
<1> DEFINE A == 2^p
           C == 2^c
           r == h \div C
<1>1. A \in Nat /\ A >= 1 /\ C \in Nat /\ C > 0 /\ 2^(p + 1) = 2 * A
  <2>1. A \in Nat /\ A >= 1 /\ C \in Nat /\ C >= 1 /\ 2^(p + 1) = 2 * A
    BY PowerType, PowerStep
  <2> QED
    BY <2>1
<1>2. h \in Nat /\ h < 2 * A
  <2>1. h \in A .. 2 * A - 1
    BY DEF Significand
  <2> HIDE DEF A
  <2> QED
    BY <1>1, <2>1
<1> HIDE DEF A, C
<1>3. r \in Nat /\ C * r <= h
  BY <1>1, <1>2, DivisionType
<1> HIDE DEF r
<1>4. r * C < 2 * A /\ 0 * C < 2 * A
  <2>1. r * C = C * r /\ r * C \in Int
    BY <1>1, <1>3
  <2>2. 0 * C = 0
    BY <1>1
  <2> QED
    BY <1>1, <1>2, <1>3, <2>1, <2>2
<1> QED
  BY <1>1, <1>3, <1>4 DEF r, C

\* The aligned sum of two positive words is the rounded sum of their numbers.
LEMMA AlignedSumYields ==
    ASSUME NEW F, IsFormat(F), Aligns(F), F.x >= 3,
           NEW d \in 1 .. 2^(F.x - 1) - 1, NEW e \in 1 .. 2^(F.x - 1) - 1,
           Wide(F, e * Ulp(F)).scale <= Wide(F, d * Ulp(F)).scale
    PROVE  Yields(F, Packed(F, AlignedSum(F, Wide(F, d * Ulp(F)), Wide(F, e * Ulp(F)))),
                  Plus(Value(F.x, F.es, d), Value(F.x, F.es, e), 1))
<1> DEFINE v == Value(F.x, F.es, d)
           w == Value(F.x, F.es, e)
           s == Wide(F, d * Ulp(F)).scale
           t == Wide(F, e * Ulp(F)).scale
           g == Wide(F, d * Ulp(F)).frac
           h == Wide(F, e * Ulp(F)).frac
           V == Plus(v, w, 1)
           shift == s - t
           u == Packed(F, AlignedSum(F, Wide(F, d * Ulp(F)), Wide(F, e * Ulp(F))))
<1>1. PICK k, b, f : Term(F, d, v, s, g, k, b, f)
  BY TermOfWord
<1>2. PICK l, y, q : Term(F, e, w, t, h, l, y, q)
  BY TermOfWord
<1>3. u = Packed(F, Normal(F, s, g + (IF shift > F.addMax THEN 0 ELSE h \div 2^shift)))
  BY DEF AlignedSum
<1>4. t <= s
  OBVIOUS
<1> HIDE DEF v, w, s, t, g, h, u
<1>5. s \in Int /\ b \in Nat /\ b <= F.x - 3 /\ F.n \in Nat /\ F.x \in Nat /\ F.x <= F.n
  BY <1>1, TermSizes
<1>6. t \in Int
  BY <1>2, TermSizes
<1>7. shift \in Nat /\ 2 * F.n - 2 \in Nat /\ F.addMax \in Nat /\ F.addMax >= F.n - 1
  <2>1. 2 * F.n - 2 \in Nat
    BY <1>5
  <2>2. shift \in Nat
    BY <1>4, <1>5, <1>6
  <2> QED
    BY <2>1, <2>2 DEF IsFormat, Aligns
<1>8. (h \div 2^shift) \in Nat /\ (h \div 2^shift) * 2^shift < 2^((2 * F.n - 2) + 1)
      /\ 0 * 2^shift < 2^((2 * F.n - 2) + 1)
  <2>1. Significand(2 * F.n - 2, h)
    BY <1>2 DEF Term, Stands
  <2> DEFINE p == 2 * F.n - 2
  <2> HIDE DEF p, shift
  <2>2. Significand(p, h) /\ p \in Nat
    BY <1>7, <2>1 DEF p
  <2> QED
    BY <1>7, <2>2, MovedRight DEF p
<1>9. ASSUME shift <= b + 1 PROVE Yields(F, u, V)
  <2>1. ~ (shift > F.addMax)
    <3> HIDE DEF shift
    <3> QED
      BY <1>5, <1>7, <1>9
  <2>2. u = Packed(F, Normal(F, s, g + (h \div 2^(s - t))))
    BY <1>3, <2>1
  <2>3. s - t <= b + 1
    BY <1>9
  <2> QED
    BY <1>1, <1>2, <1>4, <2>2, <2>3, NearSum
<1>10. ASSUME shift >= b + 2 PROVE Yields(F, u, V)
  <2> DEFINE r == IF shift > F.addMax THEN 0 ELSE h \div 2^shift
  <2>1. r \in Nat /\ r * 2^shift < 2^((2 * F.n - 2) + 1)
    BY <1>8
  <2>2. u = Packed(F, Normal(F, s, g + r))
    BY <1>3
  <2> HIDE DEF r
  <2>3. s - t >= b + 2 /\ r * 2^(s - t) < 2^((2 * F.n - 2) + 1)
    BY <1>10, <2>1
  <2> QED
    BY <1>1, <1>2, <2>1, <2>2, <2>3, FarSum
<1>11. Yields(F, u, V)
  <2>1. shift <= b + 1 \/ shift >= b + 2
    <3> HIDE DEF shift
    <3> QED
      BY <1>5, <1>7
  <2> QED
    BY <1>9, <1>10, <2>1
<1> QED
  BY <1>11 DEF u, v, w

\* The aligned difference of two positive words is the rounded difference of their numbers.
LEMMA AlignedDifferenceYields ==
    ASSUME NEW F, IsFormat(F), Aligns(F), F.x >= 3,
           NEW d \in 1 .. 2^(F.x - 1) - 1, NEW e \in 1 .. 2^(F.x - 1) - 1, e < d
    PROVE  Yields(F, AlignedDifference(F, d * Ulp(F), Wide(F, d * Ulp(F)), Wide(F, e * Ulp(F))),
                  Plus(Value(F.x, F.es, d), Value(F.x, F.es, e), -1))
<1> DEFINE v == Value(F.x, F.es, d)
           w == Value(F.x, F.es, e)
           s == Wide(F, d * Ulp(F)).scale
           t == Wide(F, e * Ulp(F)).scale
           g == Wide(F, d * Ulp(F)).frac
           h == Wide(F, e * Ulp(F)).frac
           V == Plus(v, w, -1)
           shift == s - t
           u == AlignedDifference(F, d * Ulp(F), Wide(F, d * Ulp(F)), Wide(F, e * Ulp(F)))
<1>1. PICK k, b, f : Term(F, d, v, s, g, k, b, f)
  BY TermOfWord
<1>2. PICK l, y, q : Term(F, e, w, t, h, l, y, q)
  BY TermOfWord
<1>3. u = IF shift > F.subMax THEN d * Ulp(F) ELSE Packed(F, Normal(F, s, g - (h \div 2^shift)))
  BY DEF AlignedDifference
<1>4. t < s \/ (t = s /\ h < g)
  <2>1. d * Ulp(F) \in PositiveWords(F) /\ e * Ulp(F) \in PositiveWords(F)
    BY DEF PositiveWords
  <2>2. e * Ulp(F) < d * Ulp(F)
    <3>1. Ulp(F) \in Nat /\ Ulp(F) >= 1
      BY Sizes
    <3> DEFINE m == Ulp(F)
    <3> HIDE DEF m
    <3>2. d \in Nat /\ e \in Nat /\ m \in Nat /\ m >= 1
      <4>1. d \in Nat /\ e \in Nat
        OBVIOUS
      <4> QED
        BY <3>1, <4>1 DEF m
    <3>3. e * m < d * m
      BY <3>2
    <3> QED
      BY <3>3 DEF m
  <2> QED
    BY <2>1, <2>2, WideOrder
<1> HIDE DEF v, w, s, t, g, h, u
<1>5. s \in Int /\ b \in Nat /\ b <= F.x - 3 /\ F.n \in Nat /\ F.x \in Nat /\ F.x <= F.n
  BY <1>1, TermSizes
<1>6. t \in Int
  BY <1>2, TermSizes
<1>7. shift \in Nat /\ 2 * F.n - 2 \in Nat /\ F.subMax \in Nat /\ F.subMax >= F.n
  <2>1. 2 * F.n - 2 \in Nat
    BY <1>5
  <2>2. shift \in Nat
    BY <1>4, <1>5, <1>6
  <2> QED
    BY <2>1, <2>2 DEF IsFormat, Aligns
<1>8. (h \div 2^shift) \in Nat /\ (h \div 2^shift) * 2^shift < 2^((2 * F.n - 2) + 1)
  <2>1. Significand(2 * F.n - 2, h)
    BY <1>2 DEF Term, Stands
  <2> DEFINE p == 2 * F.n - 2
  <2> HIDE DEF p, shift
  <2>2. Significand(p, h) /\ p \in Nat
    BY <1>7, <2>1 DEF p
  <2> QED
    BY <1>7, <2>2, MovedRight DEF p
<1>9. ASSUME shift <= b + 3 PROVE Yields(F, u, V)
  <2>1. ~ (shift > F.subMax)
    <3> HIDE DEF shift
    <3> QED
      BY <1>5, <1>7, <1>9
  <2>2. u = Packed(F, Normal(F, s, g - (h \div 2^(s - t))))
    BY <1>3, <2>1
  <2>3. s - t <= b + 3
    BY <1>9
  <2> QED
    BY <1>1, <1>2, <1>4, <2>2, <2>3, NearDifference
<1>10. ASSUME shift >= b + 4 PROVE Yields(F, u, V)
  <2>1. s - t >= b + 4
    BY <1>10
  <2>2. CASE shift > F.subMax
    <3>1. u = d * Ulp(F)
      BY <1>3, <2>2
    <3>2. Yields(F, d * Ulp(F), V)
      BY <1>1, <1>2, <2>1, FarAbsorbed
    <3> QED
      BY <3>1, <3>2
  <2>3. CASE ~ (shift > F.subMax)
    <3> DEFINE r == h \div 2^shift
    <3>1. r \in Nat /\ r * 2^(s - t) < 2^((2 * F.n - 2) + 1)
      BY <1>8
    <3>2. u = Packed(F, Normal(F, s, g - r))
      BY <1>3, <2>3
    <3> HIDE DEF r
    <3> QED
      BY <1>1, <1>2, <2>1, <3>1, <3>2, FarDifference
  <2> QED
    BY <2>2, <2>3
<1>11. Yields(F, u, V)
  <2>1. shift <= b + 3 \/ shift >= b + 4
    <3> HIDE DEF shift
    <3> QED
      BY <1>5, <1>7
  <2> QED
    BY <1>9, <1>10, <2>1
<1> QED
  BY <1>11 DEF u, v, w

\* With two bits there is one positive word, and every number is rounded to it.
LEMMA OneWordYields ==
    ASSUME NEW F, IsFormat(F), F.x = 2, NEW V
    PROVE  Yields(F, Ulp(F), V)
<1>1. 2^(F.x - 1) - 1 = 1
  <2>1. 2^(0 + 1) = 2 * 2^0 /\ 2^0 = 1
    BY PowerStep, PowerZero
  <2>2. F.x - 1 = 0 + 1
    OBVIOUS
  <2> QED
    BY <2>1, <2>2
<1>2. Ulp(F) = 1 * Ulp(F) /\ Ulp(F) \in Nat
  <2>1. Ulp(F) \in Nat
    BY Sizes
  <2> QED
    BY <2>1
<1>3. ASSUME NEW neg \in BOOLEAN PROVE RoundsTo(F, Signed(F, neg, Ulp(F)), neg, V, Unity)
  <2> DEFINE z == Signed(F, neg, Ulp(F))
             t == 1
  <2>1. t \in 1 .. 2^(F.x - 1) - 1
    BY <1>1
  <2>2. IsNumber(F, Signed(F, neg, t * Ulp(F))) /\ Minus(F, Signed(F, neg, t * Ulp(F))) = neg
        /\ Digits(F, Signed(F, neg, t * Ulp(F))) = t
    <3> HIDE DEF t
    <3> QED
      BY <2>1, SignedDigits
  <2>3. t * Ulp(F) = Ulp(F)
    BY <1>2
  <2>4. IsNumber(F, z) /\ Minus(F, z) = neg /\ Digits(F, z) = 1
    BY <2>2, <2>3
  <2>5. Digits(F, z) = 2^(F.x - 1) - 1
    BY <1>1, <2>4
  <2> HIDE DEF z
  <2>6. RoundsTo(F, z, neg, V, Unity)
    BY <2>4, <2>5, Zenon DEF RoundsTo
  <2> QED
    BY <2>6 DEF z
<1>4. 1 \in Nat
  OBVIOUS
<1> QED
  BY <1>2, <1>3, <1>4, Zenon DEF Yields

\* Numbers are the same where their words are.
LEMMA SameNumbers ==
    ASSUME NEW F, IsFormat(F), NEW a, Numeric(F, a), NEW b, Numeric(F, b)
    PROVE  /\ Same(Number(F, a), Number(F, b)) <=> Magnitude(F, a) = Magnitude(F, b)
           /\ Less(Number(F, a), Number(F, b)) <=> Magnitude(F, a) < Magnitude(F, b)
           /\ Magnitude(F, a) \in Nat /\ Magnitude(F, b) \in Nat
<1> DEFINE p == 2 * F.n - 2
           d == Digits(F, a)
           e == Digits(F, b)
           v == Number(F, a)
           w == Number(F, b)
           y == Wide(F, d * Ulp(F))
           z == Wide(F, e * Ulp(F))
           H == Height(p, y.scale, y.frac)
           K == Height(p, z.scale, z.frac)
<1>1. d \in 1 .. 2^(F.x - 1) - 1 /\ e \in 1 .. 2^(F.x - 1) - 1
  BY DigitsOf
<1>2. Stands(v, p, y.scale, y.frac) /\ Stands(w, p, z.scale, z.frac) /\ p \in Nat
  <2>1. p \in Nat
    BY WideSizes
  <2> HIDE DEF d, e
  <2>2. Stands(Value(F.x, F.es, d), 2 * F.n - 2, y.scale, y.frac)
    BY <1>1, WideStands
  <2>3. Stands(Value(F.x, F.es, e), 2 * F.n - 2, z.scale, z.frac)
    BY <1>1, WideStands
  <2> QED
    BY <2>1, <2>2, <2>3 DEF Number, d, e
<1> HIDE DEF v, w, y, z, p, d, e
<1>3. (Less(v, w) <=> H < K) /\ (Same(v, w) <=> H = K) /\ H \in Int
  BY <1>2, LessIs
<1>4. (Less(w, v) <=> K < H) /\ K \in Int
  BY <1>2, LessIs
<1> HIDE DEF H, K
<1> DEFINE m == Magnitude(F, a)
           n == Magnitude(F, b)
<1>5. (Less(v, w) <=> m < n) /\ (Less(w, v) <=> n < m)
  BY NumbersInOrder DEF v, w
<1>6. m \in Nat /\ n \in Nat
  BY MagnitudeWord, PositiveWord
<1> HIDE DEF m, n
<1>7. Same(v, w) <=> m = n
  BY <1>3, <1>4, <1>5, <1>6
<1> QED
  BY <1>5, <1>6, <1>7 DEF m, n, v, w

\* The number of a word does not depend on its sign.
LEMMA NumberOfMagnitude ==
    ASSUME NEW F, IsFormat(F), NEW a, Numeric(F, a)
    PROVE  \E d \in 1 .. 2^(F.x - 1) - 1 :
              Magnitude(F, a) = d * Ulp(F) /\ Number(F, a) = Value(F.x, F.es, d)
  BY DigitsOf DEF Number

\* The sum for two words of one sign.
SumOf(v, w, sgn) == IF Less(v, w) THEN Plus(w, v, sgn) ELSE Plus(v, w, sgn)

\* The sum of two words of one sign.
LEMMA AddMagsYields ==
    ASSUME NEW F, IsFormat(F), Aligns(F), NEW a, NEW b, Numeric(F, a), Numeric(F, b),
           Negative(F, a) <=> Negative(F, b)
    PROVE  \E u : /\ AddMags(F, a, b) = Signed(F, Negative(F, a), u)
                  /\ Yields(F, u, SumOf(Number(F, a), Number(F, b), 1))
<1> DEFINE sign == Negative(F, a)
           ua == Signed(F, sign, a)
           ub == Signed(F, sign, b)
           u == {ua, ub}
           one == \E v \in u : Bit(v, F.n - 2) = 1
           g == Max({ua, ub})
           l == Min({ua, ub})
           z == IF F.x > 2 THEN Packed(F, AlignedSum(F, Wide(F, g), Wide(F, l)))
                ELSE IF one THEN Ulp(F) ELSE 0
           v == Number(F, a)
           w == Number(F, b)
<1>1. ua = Magnitude(F, a) /\ ub = Magnitude(F, b)
  BY DEF Magnitude, Signed
<1>2. ua \in PositiveWords(F) /\ ub \in PositiveWords(F)
  BY <1>1, MagnitudeWord
<1>3. AddMags(F, a, b) = Signed(F, sign, z)
  BY Zenon DEF AddMags
<1>4. F.x \in Nat /\ F.x >= 2
  BY DEF IsFormat
<1>5. PICK d \in 1 .. 2^(F.x - 1) - 1 : Magnitude(F, a) = d * Ulp(F) /\ v = Value(F.x, F.es, d)
  BY NumberOfMagnitude
<1>6. PICK e \in 1 .. 2^(F.x - 1) - 1 : Magnitude(F, b) = e * Ulp(F) /\ w = Value(F.x, F.es, e)
  BY NumberOfMagnitude
<1> HIDE DEF ua, ub, sign, v, w
<1>7. (Less(v, w) <=> ua < ub) /\ ua \in Nat /\ ub \in Nat
  BY <1>1, SameNumbers DEF v, w
<1>8. Yields(F, z, SumOf(v, w, 1))
  <2>1. ASSUME F.x > 2 PROVE Yields(F, z, SumOf(v, w, 1))
    <3>1. g = (IF ua >= ub THEN ua ELSE ub) /\ l = (IF ua >= ub THEN ub ELSE ua)
      BY <1>7, MaxOfTwo
    <3> HIDE DEF g, l
    <3>2. F.x >= 3
      BY <1>4, <2>1
    <3>3. Wide(F, ua).scale \in Int /\ Wide(F, ub).scale \in Int
      BY <1>2, WideWord
    <3>4. ASSUME Less(v, w) PROVE Yields(F, Packed(F, AlignedSum(F, Wide(F, g), Wide(F, l)))
                                           , SumOf(v, w, 1))
      <4>1. ua < ub /\ g = ub /\ l = ua
        BY <1>7, <3>1, <3>4
      <4>2. Wide(F, ua).scale <= Wide(F, ub).scale
        <5>1. Wide(F, ua).scale < Wide(F, ub).scale \/ Wide(F, ua).scale = Wide(F, ub).scale
          BY <1>2, <4>1, WideOrder
        <5> QED
          BY <3>3, <5>1
      <4>3. Wide(F, d * Ulp(F)).scale <= Wide(F, e * Ulp(F)).scale
        BY <1>1, <1>5, <1>6, <4>2
      <4>4. Yields(F, Packed(F, AlignedSum(F, Wide(F, e * Ulp(F)), Wide(F, d * Ulp(F)))),
                   Plus(Value(F.x, F.es, e), Value(F.x, F.es, d), 1))
        BY <3>2, <4>3, AlignedSumYields
      <4>5. SumOf(v, w, 1) = Plus(w, v, 1)
        BY <3>4 DEF SumOf
      <4> QED
        BY <1>1, <1>5, <1>6, <4>1, <4>4, <4>5
    <3>5. ASSUME ~ Less(v, w) PROVE Yields(F, Packed(F, AlignedSum(F, Wide(F, g), Wide(F, l)))
                                             , SumOf(v, w, 1))
      <4>1. (ub < ua \/ ub = ua) /\ g = ua /\ l = ub
        BY <1>7, <3>1, <3>5
      <4>2. Wide(F, ub).scale <= Wide(F, ua).scale
        <5>1. CASE ub < ua
          <6>1. Wide(F, ub).scale < Wide(F, ua).scale \/ Wide(F, ub).scale = Wide(F, ua).scale
            BY <1>2, <5>1, WideOrder
          <6> QED
            BY <3>3, <6>1
        <5>2. CASE ub = ua
          BY <3>3, <5>2
        <5> QED
          BY <4>1, <5>1, <5>2
      <4>3. Wide(F, e * Ulp(F)).scale <= Wide(F, d * Ulp(F)).scale
        BY <1>1, <1>5, <1>6, <4>2
      <4>4. Yields(F, Packed(F, AlignedSum(F, Wide(F, d * Ulp(F)), Wide(F, e * Ulp(F)))),
                   Plus(Value(F.x, F.es, d), Value(F.x, F.es, e), 1))
        BY <3>2, <4>3, AlignedSumYields
      <4>5. SumOf(v, w, 1) = Plus(v, w, 1)
        BY <3>5 DEF SumOf
      <4> QED
        BY <1>1, <1>5, <1>6, <4>1, <4>4, <4>5
    <3> QED
      BY <2>1, <3>4, <3>5
  <2>2. ASSUME F.x = 2 PROVE Yields(F, z, SumOf(v, w, 1))
    <3>1. Bit(ua, F.n - 2) = 1
      BY <1>2, <2>2, TwoBits
    <3>2. one
      BY <3>1
    <3>3. Yields(F, Ulp(F), SumOf(v, w, 1))
      BY <2>2, OneWordYields
    <3> HIDE DEF one
    <3> QED
      BY <2>2, <3>2, <3>3
  <2> QED
    BY <1>4, <2>1, <2>2
<1> QED
  BY <1>3, <1>8 DEF sign, v, w

\* The difference of two words of one sign, a negated one included.
LEMMA SubMagsYields ==
    ASSUME NEW F, IsFormat(F), Aligns(F), NEW a, NEW b, Numeric(F, a), Numeric(F, b),
           Magnitude(F, a) # Magnitude(F, b)
    PROVE  \E u : /\ SubMags(F, a, b) =
                        Signed(F, IF Less(Number(F, a), Number(F, b)) THEN ~ Negative(F, a)
                                  ELSE Negative(F, a), u)
                  /\ Yields(F, u, SumOf(Number(F, a), Number(F, b), -1))
<1> DEFINE ua == Magnitude(F, a)
           ub == Magnitude(F, b)
           sign == IF ua < ub THEN ~ Negative(F, a) ELSE Negative(F, a)
           big == Max({ua, ub})
           small == Min({ua, ub})
           same == Bit(ua, F.n - 2) = Bit(ub, F.n - 2)
           z == IF F.x = 2 THEN IF same THEN 0 ELSE Ulp(F)
                ELSE AlignedDifference(F, big, Wide(F, big), Wide(F, small))
           v == Number(F, a)
           w == Number(F, b)
           m == Ulp(F)
           V == SumOf(v, w, -1)
<1>1. ua \in PositiveWords(F) /\ ub \in PositiveWords(F) /\ ua \in Nat /\ ub \in Nat
  BY MagnitudeWord, PositiveWord
<1>2. SubMags(F, a, b) = IF ua = ub THEN 0 ELSE Signed(F, sign, z)
  BY Zenon DEF SubMags
<1>3. F.x # 2
  BY <1>1, TwoBits
<1>4. F.x >= 3
  BY <1>3 DEF IsFormat
<1>5. PICK d \in 1 .. 2^(F.x - 1) - 1 : ua = d * Ulp(F) /\ v = Value(F.x, F.es, d)
  BY NumberOfMagnitude
<1>6. PICK e \in 1 .. 2^(F.x - 1) - 1 : ub = e * Ulp(F) /\ w = Value(F.x, F.es, e)
  BY NumberOfMagnitude
<1>7. Less(v, w) <=> ua < ub
  <2>1. Less(Number(F, a), Number(F, b)) <=> Magnitude(F, a) < Magnitude(F, b)
    BY NumbersInOrder
  <2> QED
    BY <2>1
<1>8. big = (IF ua >= ub THEN ua ELSE ub) /\ small = (IF ua >= ub THEN ub ELSE ua)
  <2>1. ua \in Int /\ ub \in Int
    BY <1>1
  <2> HIDE DEF ua, ub
  <2> QED
    BY <2>1, MaxOfTwo
<1>9. ua # ub
  OBVIOUS
<1>10. z = AlignedDifference(F, big, Wide(F, big), Wide(F, small))
  BY <1>3
<1> HIDE DEF ua, ub, big, small, z, v, w
<1>11. m \in Nat /\ m >= 1 /\ d \in Nat /\ e \in Nat
  <2>1. m \in Nat /\ m >= 1
    BY Sizes
  <2>2. d \in Nat /\ e \in Nat
    BY <1>5, <1>6
  <2> QED
    BY <2>1, <2>2
<1>12. (d < e <=> ua < ub) /\ (e < d <=> ub < ua)
  <2>1. ua = d * m /\ ub = e * m
    BY <1>5, <1>6
  <2> HIDE DEF m
  <2>2. d < e => d * m < e * m
    BY <1>11
  <2>3. e < d => e * m < d * m
    BY <1>11
  <2>4. d = e => d * m = e * m
    OBVIOUS
  <2> QED
    BY <1>1, <1>11, <2>1, <2>2, <2>3, <2>4
<1>13. ASSUME ua < ub PROVE Yields(F, z, V)
  <2>1. big = ub /\ small = ua /\ d < e
    BY <1>1, <1>8, <1>12, <1>13
  <2>2. Yields(F, AlignedDifference(F, e * Ulp(F), Wide(F, e * Ulp(F)), Wide(F, d * Ulp(F))),
               Plus(Value(F.x, F.es, e), Value(F.x, F.es, d), -1))
    BY <1>4, <2>1, AlignedDifferenceYields
  <2>3. V = Plus(w, v, -1)
    BY <1>7, <1>13 DEF SumOf
  <2> QED
    BY <1>5, <1>6, <1>10, <2>1, <2>2, <2>3
<1>14. ASSUME ub < ua PROVE Yields(F, z, V)
  <2>1. big = ua /\ small = ub /\ e < d /\ ~ (ua < ub)
    BY <1>1, <1>8, <1>12, <1>14
  <2>2. Yields(F, AlignedDifference(F, d * Ulp(F), Wide(F, d * Ulp(F)), Wide(F, e * Ulp(F))),
               Plus(Value(F.x, F.es, d), Value(F.x, F.es, e), -1))
    BY <1>4, <2>1, AlignedDifferenceYields
  <2>3. V = Plus(v, w, -1)
    BY <1>7, <2>1 DEF SumOf
  <2> QED
    BY <1>5, <1>6, <1>10, <2>1, <2>2, <2>3
<1>15. Yields(F, z, V)
  BY <1>1, <1>9, <1>13, <1>14
<1>16. sign = IF Less(v, w) THEN ~ Negative(F, a) ELSE Negative(F, a)
  BY <1>7
<1>17. SubMags(F, a, b) = Signed(F, sign, z)
  BY <1>2, <1>9
<1> HIDE DEF V
<1> QED
  BY <1>15, <1>16, <1>17 DEF V, v, w

\* The word that has the digits and the sign of a word.
LEMMA SignedDigitsAre ==
    ASSUME NEW F, IsFormat(F), NEW a, Numeric(F, a)
    PROVE  Signed(F, Negative(F, a), Digits(F, a) * Ulp(F)) = a
<1>1. a \in PrecisionWords(F) /\ a # 0
  BY DEF Numeric
<1>2. Neg(F, a) \in PrecisionWords(F) /\ Neg(F, a) = 2^F.n - a
  BY <1>1, Negation
<1>3. a \in Nat /\ 2^F.n \in Nat /\ a < 2^F.n
  <2>1. a \in Nat /\ a < 2^F.n
    BY <1>1, WordKinds
  <2>2. 2^F.n \in Nat
    <3>1. F.n \in Nat
      BY DEF IsFormat
    <3> QED
      BY <3>1, PowerType
  <2> QED
    BY <2>1, <2>2
<1> DEFINE y == Neg(F, a)
<1>4. y # 0
  BY <1>2, <1>3
<1>5. Neg(F, y) = 2^F.n - y
  <2>1. y \in PrecisionWords(F)
    BY <1>2
  <2> HIDE DEF y
  <2> QED
    BY <1>4, <2>1, Negation
<1>6. Neg(F, y) = a
  BY <1>2, <1>3, <1>5
<1>7. Magnitude(F, a) = IF Negative(F, a) THEN y ELSE a
  BY DEF Magnitude, Signed
<1>8. Digits(F, a) * Ulp(F) = IF Negative(F, a) THEN y ELSE a
  BY <1>7, DigitsOf
<1> HIDE DEF y
<1> QED
  BY <1>6, <1>8 DEF Signed

\* A word is its number, rounded.
LEMMA WordRounds ==
    ASSUME NEW F, IsFormat(F), NEW a, Numeric(F, a)
    PROVE  RoundsTo(F, a, Minus(F, a), Number(F, a), Unity)
<1> DEFINE d == Digits(F, a)
           v == Value(F.x, F.es, d)
           P == F.x + 1
           neg == Negative(F, a)
<1>1. d \in 1 .. 2^(F.x - 1) - 1 /\ Magnitude(F, a) = d * Ulp(F) /\ (Minus(F, a) <=> neg)
  BY DigitsOf
<1>2. F.x \in Nat /\ F.x >= 2 /\ F.es \in Nat /\ P \in Nat /\ P >= F.x + 1 /\ P >= F.x - 2 /\ P >= F.x
  BY DEF IsFormat
<1> HIDE DEF d, P
<1>3. PICK k, j : Shaped(F.x, d, k, j)
  BY <1>1, <1>2, ShapeExists
<1>4. PICK s, g : Stands(v, P, s, g) /\ Height(P, s, g) = ShapeHeight(F.x, F.es, P, k, j)
  BY <1>2, <1>3, ValueStands
<1> DEFINE H == ShapeHeight(F.x, F.es, P, k, j)
           b == BitsLeft(F.x, k)
           c == b + 2
           r == 0
<1>5. r \in Nat /\ b \in Nat /\ c \in Nat /\ c >= b + 2 /\ H \in Int
  <2>1. b \in Nat
    <3>1. k \in -(F.x - 2) .. F.x - 2
      BY <1>3 DEF Shaped
    <3>2. BitsLeft(F.x, k) \in 0 .. F.x - 2
      BY <1>2, <3>1, ShapeSizes
    <3> QED
      BY <1>2, <3>2
  <2>2. H \in Int
    <3>1. F.es + P >= F.x - 2
      BY <1>2
    <3>2. ShapeHeight(F.x, F.es, P, k, j) \in Int
      BY <1>2, <1>3, <3>1, ShapeHeightDigits
    <3> QED
      BY <3>2
  <2> HIDE DEF b, H
  <2>3. c \in Nat /\ c >= b + 2
    BY <2>1
  <2> QED
    BY <2>1, <2>2, <2>3
<1>6. r * 2^c < 2^(P + 1)
  <2>1. 2^c \in Nat
    <3> HIDE DEF c
    <3> QED
      BY <1>5, PowerType
  <2>2. P + 1 \in Nat
    BY <1>2
  <2>3. 2^(P + 1) \in Nat /\ 2^(P + 1) >= 1
    BY <2>2, PowerType
  <2> DEFINE C == 2^c
             N == 2^(P + 1)
  <2>4. C \in Nat /\ N \in Nat /\ N >= 1
    BY <2>1, <2>3
  <2> HIDE DEF C, N
  <2>5. 0 * C < N
    BY <2>4
  <2> QED
    BY <2>5 DEF C, N
<1>7. H <= H /\ H <= H + r
  <2> HIDE DEF H
  <2> QED
    BY <1>5
<1> HIDE DEF r, c
<1>8. Nearest(F, P, d, H)
  <2> DEFINE h == H
  <2>1. h \in Int /\ h = H
    BY <1>5
  <2> HIDE DEF h
  <2>2. c >= b + 2 => 2 * r <= 2^P /\ (H <= h /\ h <= H + r => Nearest(F, P, d, h))
    BY <1>2, <1>3, <1>5, <1>6, <2>1, FarIsNearest
  <2>3. H <= h /\ h <= H + r
    BY <1>7, <2>1
  <2>4. Nearest(F, P, d, h)
    <3> HIDE DEF H, b
    <3> QED
      BY <1>5, <2>2, <2>3
  <2> QED
    BY <2>4 DEF h
<1>9. neg \in BOOLEAN
  BY DEF Negative
<1> HIDE DEF neg, v
<1>10. RoundsTo(F, Signed(F, neg, d * Ulp(F)), neg, v, Unity)
  <2>1. Nearest(F, P, d, Height(P, s, g))
    BY <1>4, <1>8
  <2> HIDE DEF H
  <2> QED
    BY <1>2, <1>4, <1>9, <2>1, NearestNumber
<1>11. Signed(F, neg, d * Ulp(F)) = a
  BY SignedDigitsAre DEF neg, d
<1>12. Minus(F, a) = neg /\ Number(F, a) = v
  <2>1. Minus(F, a) \in BOOLEAN
    BY DEF Minus
  <2> QED
    BY <1>1, <1>9, <2>1 DEF Number, v, d
<1> QED
  BY <1>10, <1>11, <1>12

\* A negated word has the number of the word and the other sign.
LEMMA NegatedNumber ==
    ASSUME NEW F, IsFormat(F), NEW a, Numeric(F, a)
    PROVE  /\ Numeric(F, Neg(F, a)) /\ Number(F, Neg(F, a)) = Number(F, a)
           /\ Magnitude(F, Neg(F, a)) = Magnitude(F, a)
           /\ Minus(F, Neg(F, a)) = ~ Minus(F, a)
           /\ Negative(F, Neg(F, a)) <=> ~ Negative(F, a)
<1> DEFINE b == Neg(F, a)
           d == Digits(F, a)
           e == Digits(F, b)
           m == Ulp(F)
<1>1. a \in PrecisionWords(F) /\ a # 0 /\ a # NaR(F)
  BY DEF Numeric
<1>2. Numeric(F, b) /\ (Negative(F, b) <=> ~ Negative(F, a)) /\ b = 2^F.n - a
  BY <1>1, Negation
<1>3. b \in PrecisionWords(F) /\ b # 0
  BY <1>2 DEF Numeric
<1>4. Neg(F, b) = 2^F.n - b
  <2> HIDE DEF b
  <2> QED
    BY <1>3, Negation
<1>5. Neg(F, b) = a
  <2>1. a \in Nat /\ 2^F.n \in Nat
    <3>1. a \in Nat
      BY <1>1, WordKinds
    <3>2. F.n \in Nat
      BY DEF IsFormat
    <3> QED
      BY <3>1, <3>2, PowerType
  <2> HIDE DEF b
  <2> QED
    BY <1>2, <1>4, <2>1
<1>6. Magnitude(F, b) = Magnitude(F, a)
  <2>1. Negative(F, a) \in BOOLEAN /\ Negative(F, b) \in BOOLEAN
    BY DEF Negative
  <2>2. b = Neg(F, a)
    OBVIOUS
  <2> HIDE DEF b
  <2> QED
    BY <1>2, <1>5, <2>1, <2>2 DEF Magnitude, Signed
<1> HIDE DEF b
<1>7. /\ d \in 1 .. 2^(F.x - 1) - 1 /\ Magnitude(F, a) = d * m /\ (Minus(F, a) <=> Negative(F, a))
      /\ e \in 1 .. 2^(F.x - 1) - 1 /\ Magnitude(F, b) = e * m /\ (Minus(F, b) <=> Negative(F, b))
  <2>1. d \in 1 .. 2^(F.x - 1) - 1 /\ Magnitude(F, a) = d * m /\ (Minus(F, a) <=> Negative(F, a))
    BY DigitsOf
  <2>2. e \in 1 .. 2^(F.x - 1) - 1 /\ Magnitude(F, b) = e * m /\ (Minus(F, b) <=> Negative(F, b))
    BY <1>2, DigitsOf
  <2> QED
    BY <2>1, <2>2
<1>8. d = e
  <2>1. m \in Nat /\ m >= 1
    BY Sizes
  <2>2. d \in Nat /\ e \in Nat /\ d * m = e * m
    BY <1>6, <1>7
  <2> HIDE DEF d, e, m
  <2>3. ASSUME d < e PROVE FALSE
    <3>1. d * m < e * m
      BY <2>1, <2>2, <2>3
    <3>2. e * m \in Int
      BY <2>1, <2>2
    <3> QED
      BY <2>2, <3>1, <3>2
  <2>4. ASSUME e < d PROVE FALSE
    <3>1. e * m < d * m
      BY <2>1, <2>2, <2>4
    <3>2. e * m \in Int
      BY <2>1, <2>2
    <3> QED
      BY <2>2, <3>1, <3>2
  <2> QED
    BY <2>2, <2>3, <2>4
<1>9. Number(F, b) = Number(F, a)
  BY <1>8 DEF Number
<1>10. Minus(F, b) = ~ Minus(F, a)
  <2>1. Minus(F, a) \in BOOLEAN /\ Minus(F, b) \in BOOLEAN
    BY DEF Minus
  <2> QED
    BY <1>2, <1>7, <2>1
<1> QED
  BY <1>2, <1>6, <1>9, <1>10 DEF b

\* The reference takes another small term for one that cannot be seen in the result: the
\* sum with either of them, and the difference, is rounded to the word of the larger term.
LEMMA ReplacedTerm ==
    ASSUME NEW F, IsFormat(F), NEW a, Numeric(F, a), NEW b, Numeric(F, b),
           Size(Number(F, b)) < Number(F, a).pow - 10, NEW sgn \in {-1, 1}
    PROVE  /\ RoundsTo(F, a, Minus(F, a), Plus(Number(F, a), Number(F, b), sgn), Unity)
           /\ RoundsTo(F, a, Minus(F, a), ExactPlus(Number(F, a), Number(F, b), sgn), Unity)
<1> DEFINE d == Digits(F, a)
           e == Digits(F, b)
           v == Number(F, a)
           w == Number(F, b)
           p == 2 * F.n - 2
           neg == Negative(F, a)
<1>1. d \in 1 .. 2^(F.x - 1) - 1 /\ (Minus(F, a) <=> neg) /\ v = Value(F.x, F.es, d)
  BY DigitsOf DEF Number
<1>2. e \in 1 .. 2^(F.x - 1) - 1 /\ w = Value(F.x, F.es, e)
  BY DigitsOf DEF Number
<1>3. F.x \in Nat /\ F.x >= 2 /\ p \in Nat
  BY DEF IsFormat
<1>4. Signed(F, neg, d * Ulp(F)) = a
  BY SignedDigitsAre
<1>5. neg \in BOOLEAN /\ Minus(F, a) = neg
  BY <1>1 DEF Negative, Minus
<1> HIDE DEF d, e, p, v, w, neg
<1>6. PICK s, g, k, c, f : Term(F, d, v, s, g, k, c, f)
  <2>1. \E x, s, g, k, c, f : Term(F, d, x, s, g, k, c, f)
    BY <1>1, TermOf
  <2>2. \A x, s, g, k, c, f : Term(F, d, x, s, g, k, c, f) => x = v
    BY <1>1 DEF Term
  <2> QED
    BY <2>1, <2>2
<1>7. PICK t, h, l, y, q : Term(F, e, w, t, h, l, y, q)
  <2>1. \E x, t, h, l, y, q : Term(F, e, x, t, h, l, y, q)
    BY <1>2, TermOf
  <2>2. \A x, t, h, l, y, q : Term(F, e, x, t, h, l, y, q) => x = w
    BY <1>2 DEF Term
  <2> QED
    BY <2>1, <2>2
<1>8. Stands(v, p, s, g) /\ Stands(w, p, t, h)
  BY <1>6, <1>7 DEF Term, p
<1>9. t < v.pow - 10 /\ v.pow <= s /\ s \in Int /\ t \in Int /\ v.pow \in Int
  <2>1. Size(w) = t
    BY <1>3, <1>8, SizeIs
  <2>2. v.pow <= s /\ s \in Int /\ t \in Int /\ v.pow \in Int
    BY <1>3, <1>8 DEF Stands
  <2> QED
    BY <2>1, <2>2 DEF v, w
<1>10. F.x >= 3
  <2>1. SUFFICES ASSUME F.x = 2 PROVE FALSE
    BY <1>3
  <2>2. 2^(F.x - 1) - 1 = 1
    <3>1. 2^(0 + 1) = 2 * 2^0 /\ 2^0 = 1
      BY PowerStep, PowerZero
    <3>2. F.x - 1 = 0 + 1
      BY <2>1
    <3> QED
      BY <2>1, <3>1, <3>2
  <2>3. d = 1 /\ e = 1
    BY <1>1, <1>2, <2>2
  <2>4. v = w
    BY <1>1, <1>2, <2>3
  <2>5. Size(v) = s /\ Size(w) = t
    BY <1>3, <1>8, SizeIs
  <2> QED
    BY <1>9, <2>4, <2>5
<1>11. c \in Nat /\ s - t \in Int /\ s - t >= c + 4 /\ c + 8 \in Int /\ c + 8 >= c + 4
  <2>1. /\ c \in Nat /\ f \in Nat /\ f = s - v.pow /\ F.es \in 0 .. 2
        /\ F.es >= c => f = 0
        /\ F.es < c => f = c - F.es
    BY <1>6, <1>10, TermSizes
  <2>2. c <= f + 2
    BY <2>1
  <2>3. s - t > (s - v.pow) + 10
    BY <1>9
  <2> QED
    BY <1>9, <2>1, <2>2, <2>3
<1>12. t <= s /\ sgn \in Int
  BY <1>9
<1>13. \/ FarBelow(Plus(v, w, sgn), v, s, sgn, s - t)
       \/ FarBelow(Plus(v, w, sgn), v, s, sgn, c + 8)
  BY <1>6, <1>7, <1>10, <1>12, FarPlus
<1>14. FarBelow(ExactPlus(v, w, sgn), v, s, sgn, s - t)
  BY <1>6, <1>7, <1>10, <1>12, FarExact
<1>15. RoundsTo(F, Signed(F, neg, d * Ulp(F)), neg, Plus(v, w, sgn), Unity)
  BY <1>5, <1>6, <1>10, <1>11, <1>13, FarRounds
<1>16. RoundsTo(F, Signed(F, neg, d * Ulp(F)), neg, ExactPlus(v, w, sgn), Unity)
  BY <1>5, <1>6, <1>10, <1>11, <1>14, FarRounds
<1> QED
  BY <1>4, <1>5, <1>15, <1>16 DEF v, w

-----------------------------------------------------------------------------
(* The types are formats.                                                  *)

LEMMA Formats ==
    /\ IsFormat(P8) /\ IsFormat(P16) /\ IsFormat(P32)
    /\ \A x \in 2 .. W32 : IsFormat(PX1(x)) /\ IsFormat(PX2(x))
<1>1. W8 \in Nat /\ W16 \in Nat /\ W32 \in Nat /\ W8 >= 4 /\ W16 >= 4 /\ W32 >= 5
  BY WidthAssumption
<1>2. IsFormat(P8)
  BY <1>1 DEF P8, posit8_t, IsFormat
<1>3. IsFormat(P16)
  BY <1>1 DEF P16, posit16_t, IsFormat
<1>4. IsFormat(P32)
  BY <1>1 DEF P32, posit32_t, IsFormat
<1>5. ASSUME NEW x \in 2 .. W32 PROVE IsFormat(PX1(x)) /\ IsFormat(PX2(x))
  <2>1. IsFormat(PX1(x))
    BY <1>1 DEF PX1, posit_1_t, IsFormat
  <2>2. IsFormat(PX2(x))
    BY <1>1 DEF PX2, posit_2_t, IsFormat
  <2> QED
    BY <2>1, <2>2
<1> QED
  BY <1>2, <1>3, <1>4, <1>5

\* The functions of the library, with their operators in place.
LEMMA Functions ==
    ASSUME NEW a, NEW b, NEW x
    PROVE  /\ p8_add(a, b) = AddOf(P8, a, b) /\ p8_sub(a, b) = SubOf(P8, a, b)
           /\ p16_add(a, b) = AddOf(P16, a, b) /\ p16_sub(a, b) = SubOf(P16, a, b)
           /\ p32_add(a, b) = AddOf(P32, a, b) /\ p32_sub(a, b) = SubOf(P32, a, b)
           /\ pX1_add(a, b, x) = AddOf(PX1(x), a, b) /\ pX1_sub(a, b, x) = SubOf(PX1(x), a, b)
           /\ pX2_add(a, b, x) = AddOf(PX2(x), a, b) /\ pX2_sub(a, b, x) = SubOf(PX2(x), a, b)
<1>1. p8_add(a, b) = AddOf(P8, a, b) /\ p8_sub(a, b) = SubOf(P8, a, b)
  BY Zenon DEF p8_add, p8_sub, Add, Sub, AddOf, SubOf, softposit_addMagsP8, softposit_subMagsP8
<1>2. p16_add(a, b) = AddOf(P16, a, b) /\ p16_sub(a, b) = SubOf(P16, a, b)
  BY Zenon DEF p16_add, p16_sub, Add, Sub, AddOf, SubOf, softposit_addMagsP16, softposit_subMagsP16
<1>3. p32_add(a, b) = AddOf(P32, a, b) /\ p32_sub(a, b) = SubOf(P32, a, b)
  BY Zenon DEF p32_add, p32_sub, Add, Sub, AddOf, SubOf, softposit_addMagsP32, softposit_subMagsP32
<1>4. pX1_add(a, b, x) = AddOf(PX1(x), a, b) /\ pX1_sub(a, b, x) = SubOf(PX1(x), a, b)
  BY Zenon DEF pX1_add, pX1_sub, Add, Sub, AddOf, SubOf, softposit_addMagsPX1, softposit_subMagsPX1
<1>5. pX2_add(a, b, x) = AddOf(PX2(x), a, b) /\ pX2_sub(a, b, x) = SubOf(PX2(x), a, b)
  BY Zenon DEF pX2_add, pX2_sub, Add, Sub, AddOf, SubOf, softposit_addMagsPX2, softposit_subMagsPX2
<1> QED
  BY <1>1, <1>2, <1>3, <1>4, <1>5
-----------------------------------------------------------------------------
(* What the members of the classes return.                                 *)

Kinds == {"posit8", "posit16", "posit32", "posit_1", "posit_2"}

AnObject(o) == o.type \in Kinds /\ o.x \in 2 .. W32

LEMMA FormatOf ==
    ASSUME NEW o, AnObject(o)
    PROVE  /\ IsFormat(Format(o)) /\ Values(Format(o)) = PrecisionWords(Format(o))
           /\ o.type = "posit8" => Format(o) = P8
           /\ o.type = "posit16" => Format(o) = P16
           /\ o.type = "posit32" => Format(o) = P32
           /\ o.type = "posit_1" => Format(o) = PX1(o.x)
           /\ o.type = "posit_2" => Format(o) = PX2(o.x)
<1>1. /\ o.type = "posit8" => Format(o) = P8
      /\ o.type = "posit16" => Format(o) = P16
      /\ o.type = "posit32" => Format(o) = P32
      /\ o.type = "posit_1" => Format(o) = PX1(o.x)
      /\ o.type = "posit_2" => Format(o) = PX2(o.x)
  BY DEF Format
<1>2. IsFormat(Format(o))
  BY <1>1, Formats DEF AnObject, Kinds
<1>3. Values(Format(o)) = PrecisionWords(Format(o))
  BY DEF Values, PrecisionWords
<1> QED
  BY <1>1, <1>2, <1>3

LEMMA OneWord ==
    ASSUME NEW F, IsFormat(F)
    PROVE  One(F) \in PrecisionWords(F)
<1>1. F.n \in Nat /\ F.x \in Nat /\ F.x >= 2 /\ F.x <= F.n
  BY DEF IsFormat
<1>2. F.n - F.x \in Nat /\ F.n - 2 \in Nat /\ F.x - 2 \in Nat /\ F.n - F.x <= F.n - 2
      /\ (F.n - 2) - (F.n - F.x) = F.x - 2 /\ F.x - 2 <= F.x - 1 /\ F.x - 1 \in Nat
  BY <1>1
<1>3. 2^(F.n - 2) = 2^(F.x - 2) * 2^(F.n - F.x)
  BY <1>2, PowerSplit
<1>4. 2^(F.x - 2) \in 0 .. 2^F.x - 1
  <2>1. 2^(F.x - 2) \in Nat /\ 2^(F.x - 2) <= 2^(F.x - 1)
    BY <1>2, PowerType, PowerMonotone
  <2>2. 2^(F.x - 1) \in Nat /\ 2^(F.x - 1) >= 2 /\ 2^F.x = 2 * 2^(F.x - 1)
    BY Sizes
  <2> QED
    BY <2>1, <2>2
<1> QED
  BY <1>3, <1>4 DEF One, PrecisionWords, Ulp

LEMMA ArithOf ==
    ASSUME NEW o, AnObject(o), NEW a
    PROVE  LET F == Format(o) IN
           /\ Arith("add", o, a) = AddOf(F, o.value, a)
           /\ Arith("sub", o, a) = SubOf(F, o.value, a)
           /\ Arith("mul", o, a) = Mul(F, o.value, a)
           /\ Arith("div", o, a) = Div(F, o.value, a)
<1>1. CASE o.type = "posit8"
  <2>1. Format(o) = P8 /\ \A op : Arith(op, o, a) = posit8_arith(op, o.value, a)
    BY <1>1, FormatOf DEF Arith
  <2> QED
    BY <2>1, Functions DEF posit8_arith, p8_mul, p8_div
<1>2. CASE o.type = "posit16"
  <2>1. Format(o) = P16 /\ \A op : Arith(op, o, a) = posit16_arith(op, o.value, a)
    BY <1>2, FormatOf DEF Arith
  <2> QED
    BY <2>1, Functions DEF posit16_arith, p16_mul, p16_div
<1>3. CASE o.type = "posit32"
  <2>1. Format(o) = P32 /\ \A op : Arith(op, o, a) = posit32_arith(op, o.value, a)
    BY <1>3, FormatOf DEF Arith
  <2> QED
    BY <2>1, Functions DEF posit32_arith, p32_mul, p32_div
<1>4. CASE o.type = "posit_1"
  <2>1. Format(o) = PX1(o.x) /\ \A op : Arith(op, o, a) = posit_1_arith(op, o.value, a, o.x)
    BY <1>4, FormatOf DEF Arith
  <2> QED
    BY <2>1, Functions DEF posit_1_arith, pX1_mul, pX1_div
<1>5. CASE o.type = "posit_2"
  <2>1. Format(o) = PX2(o.x) /\ \A op : Arith(op, o, a) = posit_2_arith(op, o.value, a, o.x)
    BY <1>5, FormatOf DEF Arith
  <2> QED
    BY <2>1, Functions DEF posit_2_arith, pX2_mul, pX2_div
<1> QED
  BY <1>1, <1>2, <1>3, <1>4, <1>5 DEF AnObject, Kinds

LEMMA StepOf ==
    ASSUME NEW o, AnObject(o), o.type # "posit_1"
    PROVE  LET F == Format(o) IN
           /\ Step("inc", o) = AddOf(F, o.value, One(F))
           /\ Step("dec", o) = SubOf(F, o.value, One(F))
<1>1. CASE o.type = "posit8"
  <2>1. Format(o) = P8 /\ \A op : Step(op, o) = posit8_step(op, o.value)
    BY <1>1, FormatOf DEF Step
  <2> QED
    BY <2>1, Functions DEF posit8_step
<1>2. CASE o.type = "posit16"
  <2>1. Format(o) = P16 /\ \A op : Step(op, o) = posit16_step(op, o.value)
    BY <1>2, FormatOf DEF Step
  <2> QED
    BY <2>1, Functions DEF posit16_step
<1>3. CASE o.type = "posit32"
  <2>1. Format(o) = P32 /\ \A op : Step(op, o) = posit32_step(op, o.value)
    BY <1>3, FormatOf DEF Step
  <2> QED
    BY <2>1, Functions DEF posit32_step
<1>4. CASE o.type = "posit_2"
  <2>1. Format(o) = PX2(o.x) /\ \A op : Step(op, o) = posit_2_step(op, o.value, o.x)
    BY <1>4, FormatOf DEF Step
  <2>2. One(PX2(o.x)) = One(P32)
    BY DEF One, PX2, P32, posit_2_t, posit32_t
  <2> QED
    BY <2>1, <2>2, Functions DEF posit_2_step
<1> QED
  BY <1>1, <1>2, <1>3, <1>4 DEF AnObject, Kinds

LEMMA FmaOf ==
    ASSUME NEW o, AnObject(o), NEW a, NEW b, NEW z \in Fma(o, a, b)
    PROVE  \E junk : z = MulAdd(Format(o), a, b, o.value, junk)
<1>1. CASE o.type = "posit8"
  <2>1. Format(o) = P8 /\ Fma(o, a, b) = posit8_fma(o.value, a, b)
    BY <1>1, FormatOf DEF Fma
  <2> QED
    BY <2>1 DEF posit8_fma, p8_mulAdd, softposit_mulAddP8
<1>2. CASE o.type = "posit16"
  <2>1. Format(o) = P16 /\ Fma(o, a, b) = posit16_fma(o.value, a, b)
    BY <1>2, FormatOf DEF Fma
  <2> QED
    BY <2>1 DEF posit16_fma, p16_mulAdd, softposit_mulAddP16
<1>3. CASE o.type = "posit32"
  <2>1. Format(o) = P32 /\ Fma(o, a, b) = posit32_fma(o.value, a, b)
    BY <1>3, FormatOf DEF Fma
  <2> QED
    BY <2>1 DEF posit32_fma, p32_mulAdd, softposit_mulAddP32
<1>4. CASE o.type = "posit_1"
  <2>1. Format(o) = PX1(o.x) /\ Fma(o, a, b) = pX1_mulAdd(a, b, o.value, o.x)
    BY <1>4, FormatOf DEF Fma
  <2> QED
    BY <2>1 DEF pX1_mulAdd, softposit_mulAddPX1
<1>5. CASE o.type = "posit_2"
  <2>1. Format(o) = PX2(o.x) /\ Fma(o, a, b) = posit_2_fma(o.value, a, b, o.x)
    BY <1>5, FormatOf DEF Fma
  <2> QED
    BY <2>1 DEF posit_2_fma, pX2_mulAdd, softposit_mulAddPX2
<1> QED
  BY <1>1, <1>2, <1>3, <1>4, <1>5 DEF AnObject, Kinds

-----------------------------------------------------------------------------
(* Signs and NaRs.                                                         *)

Signed_(F, u) == IF Minus(F, u) THEN u - 2^F.n ELSE u

Like(F, nar, z, d) ==
    IF nar THEN z = NaR(F)
    ELSE /\ z # NaR(F)
         /\ z = 0 <=> d = 0
         /\ Minus(F, z) <=> d < 0

LEMMA SignedIs ==
    ASSUME NEW F, IsFormat(F), NEW u \in PrecisionWords(F), u # NaR(F)
    PROVE  Signed_(F, u) = AsInt(F, u) /\ AsInt(F, u) \in Int /\ (u = 0 <=> AsInt(F, u) = 0)
           /\ (Minus(F, u) <=> Negative(F, u)) /\ (Negative(F, u) <=> AsInt(F, u) < 0)
<1>1. /\ u \in Nat /\ NaR(F) \in Nat /\ AsInt(F, u) \in Int /\ (u = 0 <=> AsInt(F, u) = 0)
      /\ Negative(F, u) <=> AsInt(F, u) < 0
  BY WordKinds
<1>2. Minus(F, u) <=> Negative(F, u)
  BY <1>1 DEF Minus, Negative, NaR
<1>3. Signed_(F, u) = AsInt(F, u)
  BY <1>2 DEF Signed_, AsInt
<1> QED
  BY <1>1, <1>2, <1>3

LEMMA SignOfProduct ==
    ASSUME NEW i \in Int, NEW j \in Int
    PROVE  /\ i * j = 0 <=> i = 0 \/ j = 0
           /\ i # 0 /\ j # 0 => (i * j < 0 <=> ~ (i < 0 <=> j < 0))
<1>1. ASSUME NEW m \in Nat, NEW n \in Nat, m > 0, n > 0 PROVE m * n > 0
  <2>1. 0 \in Int /\ m \in Int /\ 0 < m
    BY <1>1
  <2>2. 0 * n < m * n /\ 0 * n = 0
    BY <1>1, <2>1, ScaledOrder
  <2> QED
    BY <2>2
<1>2. CASE i = 0 \/ j = 0
  BY <1>2
<1>3. CASE i > 0 /\ j > 0
  <2>1. i * j > 0
    BY <1>1, <1>3
  <2> QED
    BY <1>3, <2>1
<1>4. CASE i < 0 /\ j > 0
  <2>1. (-i) * j > 0
    BY <1>1, <1>4
  <2>2. (-i) * j = -(i * j) /\ i * j \in Int
    OBVIOUS
  <2>3. i * j < 0
    BY <2>1, <2>2
  <2> QED
    BY <1>4, <2>3
<1>5. CASE i > 0 /\ j < 0
  <2>1. i * (-j) > 0
    BY <1>1, <1>5
  <2>2. i * (-j) = -(i * j) /\ i * j \in Int
    OBVIOUS
  <2>3. i * j < 0
    BY <2>1, <2>2
  <2> QED
    BY <1>5, <2>3
<1>6. CASE i < 0 /\ j < 0
  <2>1. (-i) * (-j) > 0
    BY <1>1, <1>6
  <2>2. (-i) * (-j) = i * j /\ i * j \in Int
    OBVIOUS
  <2> QED
    BY <1>6, <2>1, <2>2
<1> QED
  BY <1>2, <1>3, <1>4, <1>5, <1>6

LEMMA ResultsLike ==
    ASSUME NEW F, IsFormat(F), NEW v \in PrecisionWords(F), NEW a \in PrecisionWords(F)
    PROVE  /\ Like(F, NaR(F) \in {v, a}, AddOf(F, v, a), Signed_(F, v) + Signed_(F, a))
           /\ Like(F, NaR(F) \in {v, a}, SubOf(F, v, a), Signed_(F, v) - Signed_(F, a))
           /\ Like(F, NaR(F) \in {v, a}, Mul(F, v, a), Signed_(F, v) * Signed_(F, a))
           /\ Like(F, NaR(F) \in {v, a} \/ a = 0, Div(F, v, a), Signed_(F, v) * Signed_(F, a))
<1>1. CASE NaR(F) \in {v, a}
  BY <1>1, AddWord, SubWord, MulWord, DivWord DEF Like
<1>2. CASE NaR(F) \notin {v, a}
  <2> DEFINE i == AsInt(F, v)
             j == AsInt(F, a)
  <2>1. /\ Signed_(F, v) = i /\ i \in Int /\ (v = 0 <=> i = 0) /\ (Negative(F, v) <=> i < 0)
        /\ Signed_(F, a) = j /\ j \in Int /\ (a = 0 <=> j = 0) /\ (Negative(F, a) <=> j < 0)
        /\ Negative(F, v) \in BOOLEAN /\ Negative(F, a) \in BOOLEAN
    BY <1>2, SignedIs, WordKinds
  <2>2. ASSUME NEW z \in PrecisionWords(F), NEW d, SignOf(F, z, d)
        PROVE  Like(F, NaR(F) \in {v, a}, z, d)
    <3>1. z # NaR(F) /\ (z = 0 <=> d = 0) /\ (Negative(F, z) <=> d < 0)
      BY <2>2 DEF SignOf
    <3>2. Minus(F, z) <=> Negative(F, z)
      BY <3>1, SignedIs
    <3> QED
      BY <1>2, <3>1, <3>2 DEF Like
  <2>3. Like(F, NaR(F) \in {v, a}, AddOf(F, v, a), i + j)
    BY <1>2, <2>2, AddWord
  <2>4. Like(F, NaR(F) \in {v, a}, SubOf(F, v, a), i - j)
    BY <1>2, <2>2, SubWord
  <2>5. (i * j = 0 <=> i = 0 \/ j = 0) /\ (i # 0 /\ j # 0 => (i * j < 0 <=> ~ (i < 0 <=> j < 0)))
    BY <2>1, SignOfProduct
  <2>6. ~ Negative(F, 0)
    BY ZeroWord
  <2>7. Like(F, NaR(F) \in {v, a}, Mul(F, v, a), i * j)
    <3> DEFINE z == Mul(F, v, a)
    <3>1. z \in PrecisionWords(F) /\ z # NaR(F) /\ (z = 0 <=> v = 0 \/ a = 0)
      BY <1>2, MulWord
    <3>2. v # 0 /\ a # 0 => (Negative(F, z) <=> (Negative(F, v) # Negative(F, a)))
      BY <1>2, MulWord
    <3>3. z = 0 <=> i * j = 0
      BY <2>1, <2>5, <3>1
    <3>4. Negative(F, z) <=> i * j < 0
      <4>1. CASE z = 0
        <5>1. ~ (i * j < 0)
          BY <3>3, <4>1
        <5> QED
          BY <2>6, <4>1, <5>1
      <4>2. CASE z # 0
        <5> HIDE DEF z
        <5> QED
          BY <2>1, <2>5, <3>1, <3>2, <4>2
      <4> QED
        BY <4>1, <4>2
    <3>5. SignOf(F, z, i * j)
      BY <3>1, <3>3, <3>4 DEF SignOf
    <3> QED
      BY <2>2, <3>1, <3>5
  <2>8. Like(F, NaR(F) \in {v, a} \/ a = 0, Div(F, v, a), i * j)
    <3>1. CASE a = 0
      BY <3>1, DivWord DEF Like
    <3>2. CASE a # 0
      <4> DEFINE z == Div(F, v, a)
      <4>1. z \in PrecisionWords(F) /\ z # NaR(F) /\ (z = 0 <=> v = 0)
        BY <1>2, <3>2, DivWord
      <4>2. v # 0 => (Negative(F, z) <=> (Negative(F, v) # Negative(F, a)))
        BY <1>2, <3>2, DivWord
      <4>3. z = 0 <=> i * j = 0
        BY <2>1, <2>5, <3>2, <4>1
      <4>4. Negative(F, z) <=> i * j < 0
        <5>1. CASE z = 0
          <6>1. ~ (i * j < 0)
            BY <4>3, <5>1
          <6> QED
            BY <2>6, <5>1, <6>1
        <5>2. CASE z # 0
          <6> HIDE DEF z
          <6> QED
            BY <2>1, <2>5, <3>2, <4>1, <4>2, <5>2
        <5> QED
          BY <5>1, <5>2
      <4>5. SignOf(F, z, i * j)
        BY <4>1, <4>3, <4>4 DEF SignOf
      <4>6. Like(F, NaR(F) \in {v, a}, z, i * j)
        BY <2>2, <4>1, <4>5
      <4> QED
        BY <3>2, <4>6 DEF Like
    <3> QED
      BY <3>1, <3>2
  <2> HIDE DEF i, j
  <2> QED
    BY <2>1, <2>3, <2>4, <2>7, <2>8
<1> QED
  BY <1>1, <1>2

-----------------------------------------------------------------------------
(* The inductive invariant.                                                *)

\* The object keeps its type and its precision; the words are TypeOK's.
Typed == obj \in [type : Types, x : 2 .. W32, value : Nat]

Numbers_ == {"add", "sub", "mul", "div", "fma", "inc", "dec"}

Results(c) == c.op \in Numbers_

\* SignsAndNaRs for an object and a call.
SignsAt(o, c) ==
    LET F    == Format(o)
        step == c.op \in {"inc", "dec"}
        v    == IF step THEN c.a ELSE o.value
        a    == IF step THEN One(F) ELSE c.a
        nar  == NaR(F) \in {v, a} \/ (c.op = "div" /\ a = 0)
    IN  /\ c.op \in {"add", "inc"} => Like(F, nar, c.res, Signed_(F, v) + Signed_(F, a))
        /\ c.op \in {"sub", "dec"} => Like(F, nar, c.res, Signed_(F, v) - Signed_(F, a))
        /\ c.op \in {"mul", "div"} => Like(F, nar, c.res, Signed_(F, v) * Signed_(F, a))
        /\ c.op = "fma" => (c.res = NaR(F) <=> NaR(F) \in {v, a, c.b})

LEMMA SignsAre == SignsAndNaRs <=> SignsAt(obj, call)
  BY Zenon DEF SignsAndNaRs, SignsAt, Like, Signed_, Returned

IInv == Typed /\ TypeOK /\ SignsAndNaRs

LEMMA InObject ==
    ASSUME Typed
    PROVE  AnObject(obj)
  BY ObjectsAssumption DEF Typed, AnObject, Kinds

LEMMA ValueIsNatural ==
    ASSUME NEW F, IsFormat(F), NEW z \in Values(F)
    PROVE  z \in Nat
<1>1. z \in PrecisionWords(F)
  BY DEF Values, PrecisionWords
<1> QED
  BY <1>1, WordKinds

LEMMA InitInvariant == Init => IInv
<1> SUFFICES ASSUME Init PROVE IInv
  OBVIOUS
<1>0. PICK t \in Types :
        \E x \in IF t \in {"posit_1", "posit_2"} THEN Precisions ELSE {W32} :
        \E v \in Values(Format(Object(t, x, 0))) : obj = Object(t, x, v)
  BY DEF Init
<1>1. PICK x \in IF t \in {"posit_1", "posit_2"} THEN Precisions ELSE {W32} :
        \E v \in Values(Format(Object(t, x, 0))) : obj = Object(t, x, v)
  BY <1>0
<1>2. PICK v \in Values(Format(Object(t, x, 0))) : obj = Object(t, x, v)
  BY <1>1
<1>3. x \in 2 .. W32 /\ t \in Kinds
  BY ObjectsAssumption, WidthAssumption DEF Kinds
<1>4. Format(Object(t, x, 0)) = Format(obj) /\ obj.value = v
  BY <1>2 DEF Format, Object
<1>5. AnObject(obj)
  BY <1>2, <1>3 DEF AnObject, Object
<1>6. v \in Nat
  BY <1>4, <1>5, FormatOf, ValueIsNatural
<1>7. Typed
  BY <1>2, <1>3, <1>6 DEF Typed, Object
<1>8. call.op = "none"
  BY DEF Init, Idle
<1>9. TypeOK
  BY <1>4, <1>8 DEF TypeOK
<1>10. SignsAndNaRs
  BY <1>8, SignsAre DEF SignsAt
<1> QED
  BY <1>7, <1>9, <1>10 DEF IInv

\* A call with a result of the type, as the signs and NaRs ask for it.
LEMMA CallKeepsInvariant ==
    ASSUME IInv, obj' = obj, call'.op \in Numbers_ => call'.res \in Values(Format(obj)),
           SignsAt(obj, call')
    PROVE  IInv'
<1>1. Typed'
  BY DEF IInv, Typed
<1>2. TypeOK'
  BY DEF IInv, TypeOK, Numbers_
<1>3. SignsAndNaRs'
  <2>1. SignsAndNaRs' <=> SignsAt(obj', call')
    BY Zenon DEF SignsAndNaRs, SignsAt, Like, Signed_, Returned
  <2> QED
    BY <2>1
<1> QED
  BY <1>1, <1>2, <1>3 DEF IInv

LEMMA OperatorKeepsInvariant ==
    ASSUME IInv, NEW op \in {"add", "sub", "mul", "div"}, Operator(op)
    PROVE  IInv'
<1> DEFINE F == Format(obj)
           v == obj.value
<1>1. AnObject(obj) /\ TypeOK
  BY InObject DEF IInv
<1>2. IsFormat(F) /\ Values(F) = PrecisionWords(F) /\ v \in PrecisionWords(F)
  BY <1>1, FormatOf DEF TypeOK
<1>3. PICK a \in Values(F) : Returns([op |-> op, a |-> a, res |-> Arith(op, obj, a)])
  BY DEF Operator
<1>4. obj' = obj /\ call'.op = op /\ call'.a = a /\ call'.res = Arith(op, obj, a)
  BY <1>3 DEF Returns
<1>5. /\ Arith("add", obj, a) = AddOf(F, v, a) /\ Arith("sub", obj, a) = SubOf(F, v, a)
      /\ Arith("mul", obj, a) = Mul(F, v, a) /\ Arith("div", obj, a) = Div(F, v, a)
  BY <1>1, ArithOf
<1> HIDE DEF F, v
<1>6. call'.res \in Values(F)
  <2>1. /\ AddOf(F, v, a) \in PrecisionWords(F) /\ SubOf(F, v, a) \in PrecisionWords(F)
        /\ Mul(F, v, a) \in PrecisionWords(F) /\ Div(F, v, a) \in PrecisionWords(F)
    BY <1>2, AddWord, SubWord, MulWord, DivWord
  <2> QED
    BY <1>2, <1>4, <1>5, <2>1
<1>7. /\ Like(F, NaR(F) \in {v, a}, AddOf(F, v, a), Signed_(F, v) + Signed_(F, a))
      /\ Like(F, NaR(F) \in {v, a}, SubOf(F, v, a), Signed_(F, v) - Signed_(F, a))
      /\ Like(F, NaR(F) \in {v, a}, Mul(F, v, a), Signed_(F, v) * Signed_(F, a))
      /\ Like(F, NaR(F) \in {v, a} \/ a = 0, Div(F, v, a), Signed_(F, v) * Signed_(F, a))
  BY <1>2, ResultsLike
<1>8. SignsAt(obj, call')
  <2>1. SignsAt(obj, call') <=>
          LET nar == NaR(F) \in {v, a} \/ (op = "div" /\ a = 0)
              z   == call'.res
          IN  /\ op = "add" => Like(F, nar, z, Signed_(F, v) + Signed_(F, a))
              /\ op = "sub" => Like(F, nar, z, Signed_(F, v) - Signed_(F, a))
              /\ op \in {"mul", "div"} => Like(F, nar, z, Signed_(F, v) * Signed_(F, a))
    BY <1>4 DEF SignsAt, F, v
  <2>2. CASE op = "add"
    <3>1. call'.res = AddOf(F, v, a)
      BY <1>4, <1>5, <2>2
    <3>2. (NaR(F) \in {v, a} \/ (op = "div" /\ a = 0)) <=> NaR(F) \in {v, a}
      BY <2>2
    <3> QED
      BY <1>7, <2>1, <2>2, <3>1, <3>2 DEF Like
  <2>3. CASE op = "sub"
    <3>1. call'.res = SubOf(F, v, a)
      BY <1>4, <1>5, <2>3
    <3>2. (NaR(F) \in {v, a} \/ (op = "div" /\ a = 0)) <=> NaR(F) \in {v, a}
      BY <2>3
    <3> QED
      BY <1>7, <2>1, <2>3, <3>1, <3>2 DEF Like
  <2>4. CASE op = "mul"
    <3>1. call'.res = Mul(F, v, a)
      BY <1>4, <1>5, <2>4
    <3>2. (NaR(F) \in {v, a} \/ (op = "div" /\ a = 0)) <=> NaR(F) \in {v, a}
      BY <2>4
    <3> QED
      BY <1>7, <2>1, <2>4, <3>1, <3>2 DEF Like
  <2>5. CASE op = "div"
    <3>1. call'.res = Div(F, v, a)
      BY <1>4, <1>5, <2>5
    <3>2. (NaR(F) \in {v, a} \/ (op = "div" /\ a = 0)) <=> NaR(F) \in {v, a} \/ a = 0
      BY <2>5
    <3> QED
      BY <1>7, <2>1, <2>5, <3>1, <3>2 DEF Like
  <2> QED
    BY <2>2, <2>3, <2>4, <2>5
<1> QED
  BY <1>4, <1>6, <1>8, CallKeepsInvariant DEF F

LEMMA FmaKeepsInvariant ==
    ASSUME IInv, FusedMultiplyAdd
    PROVE  IInv'
<1> DEFINE F == Format(obj)
           v == obj.value
<1>1. AnObject(obj) /\ TypeOK
  BY InObject DEF IInv
<1>2. IsFormat(F) /\ Values(F) = PrecisionWords(F) /\ v \in PrecisionWords(F)
  BY <1>1, FormatOf DEF TypeOK
<1>3. PICK a \in Values(F), b \in Values(F) : \E z \in Fma(obj, a, b) :
         Returns([op |-> "fma", a |-> a, b |-> b, res |-> z])
  BY DEF FusedMultiplyAdd
<1>4. PICK z \in Fma(obj, a, b) : Returns([op |-> "fma", a |-> a, b |-> b, res |-> z])
  BY <1>3
<1>5. obj' = obj /\ call'.op = "fma" /\ call'.a = a /\ call'.b = b /\ call'.res = z
  BY <1>4 DEF Returns
<1>6. PICK junk : z = MulAdd(F, a, b, v, junk)
  BY <1>1, FmaOf
<1> HIDE DEF F, v
<1>7. z \in PrecisionWords(F) /\ (z = NaR(F) <=> NaR(F) \in {a, b, v})
  BY <1>2, <1>6, MulAddWord
<1>8. SignsAt(obj, call')
  <2>1. SignsAt(obj, call') <=> (z = NaR(F) <=> NaR(F) \in {v, a, b})
    BY <1>5 DEF SignsAt, F, v
  <2> QED
    BY <1>7, <2>1
<1> QED
  BY <1>2, <1>5, <1>7, <1>8, CallKeepsInvariant DEF F

LEMMA StepKeepsInvariant ==
    ASSUME IInv, StepByOne
    PROVE  IInv'
<1> DEFINE F == Format(obj)
           v == obj.value
           o == One(F)
<1>1. AnObject(obj) /\ TypeOK /\ Typed
  BY InObject DEF IInv
<1>2. IsFormat(F) /\ Values(F) = PrecisionWords(F) /\ v \in PrecisionWords(F)
  BY <1>1, FormatOf DEF TypeOK
<1>3. PICK op \in {"inc", "dec"} : /\ obj' = [obj EXCEPT !.value = Step(op, obj)]
                                   /\ call' = [op |-> op, a |-> v, res |-> Step(op, obj)]
  BY DEF StepByOne
<1> DEFINE z == Step(op, obj)
<1>4. call'.op = op /\ call'.a = v /\ call'.res = z
  BY <1>3
<1>5. obj'.type = obj.type /\ obj'.x = obj.x /\ obj'.value = z
  BY <1>1, <1>3 DEF Typed
<1>6. Format(obj') = F
  BY <1>5 DEF Format
<1>7. Step("inc", obj) = AddOf(F, v, o) /\ Step("dec", obj) = SubOf(F, v, o)
  BY <1>1, StepOf DEF StepByOne
<1>8. o \in PrecisionWords(F)
  BY <1>2, OneWord
<1>9. z \in Values(F)
  <2> HIDE DEF F, v, o
  <2>1. AddOf(F, v, o) \in PrecisionWords(F) /\ SubOf(F, v, o) \in PrecisionWords(F)
    BY <1>2, <1>8, AddWord, SubWord
  <2>2. op = "inc" \/ op = "dec"
    BY <1>3
  <2> QED
    BY <1>2, <1>7, <2>1, <2>2
<1>10. Typed'
  <2>1. z \in Nat
    BY <1>2, <1>9, ValueIsNatural
  <2> HIDE DEF z
  <2> QED
    BY <1>1, <1>3, <2>1 DEF Typed, z
<1>11. TypeOK'
  <2> HIDE DEF F, z
  <2>1. obj'.value \in Values(Format(obj')) /\ call'.res \in Values(Format(obj'))
    BY <1>4, <1>5, <1>6, <1>9
  <2> QED
    BY <2>1 DEF TypeOK
<1>12. SignsAndNaRs'
  <2>1. SignsAndNaRs' <=> SignsAt(obj', call')
    BY Zenon DEF SignsAndNaRs, SignsAt, Like, Signed_, Returned
  <2> HIDE DEF F, v, o, z
  <2>2. /\ Like(F, NaR(F) \in {v, o}, AddOf(F, v, o), Signed_(F, v) + Signed_(F, o))
        /\ Like(F, NaR(F) \in {v, o}, SubOf(F, v, o), Signed_(F, v) - Signed_(F, o))
    BY <1>2, <1>8, ResultsLike
  <2>3. CASE op = "inc"
    <3>1. z = AddOf(F, v, o)
      BY <1>7, <2>3 DEF z
    <3>2. SignsAt(obj', call') <=> Like(F, NaR(F) \in {v, o} \/ FALSE, z, Signed_(F, v) + Signed_(F, o))
      BY <1>4, <1>6, <2>3 DEF SignsAt, o
    <3> QED
      BY <2>1, <2>2, <3>1, <3>2 DEF Like
  <2>4. CASE op = "dec"
    <3>1. z = SubOf(F, v, o)
      BY <1>7, <2>4 DEF z
    <3>2. SignsAt(obj', call') <=> Like(F, NaR(F) \in {v, o} \/ FALSE, z, Signed_(F, v) - Signed_(F, o))
      BY <1>4, <1>6, <2>4 DEF SignsAt, o
    <3> QED
      BY <2>1, <2>2, <3>1, <3>2 DEF Like
  <2> QED
    BY <1>3, <2>3, <2>4
<1> QED
  BY <1>10, <1>11, <1>12 DEF IInv

LEMMA NextInvariant == IInv /\ [Next]_vars => IInv'
<1> SUFFICES ASSUME IInv, [Next]_vars PROVE IInv'
  OBVIOUS
<1>1. Typed /\ TypeOK /\ SignsAndNaRs
  BY DEF IInv
<1>2. ASSUME Plus_ \/ Minus_ \/ Times_ \/ Divide PROVE IInv'
  BY <1>2, OperatorKeepsInvariant DEF Plus_, Minus_, Times_, Divide
<1>3. CASE FusedMultiplyAdd
  BY <1>3, FmaKeepsInvariant
<1>4. CASE Compare
  <2>1. PICK a : Returns([op |-> "compare", a |-> a, res |-> Comparison(obj, a)])
    BY <1>4 DEF Compare
  <2>2. obj' = obj /\ call'.op = "compare"
    BY <2>1 DEF Returns
  <2> QED
    BY <2>2, CallKeepsInvariant DEF SignsAt, Numbers_
<1>5. CASE StepByOne
  BY <1>5, StepKeepsInvariant
<1>6. CASE Assign
  <2> DEFINE z == call.res
  <2>1. obj' = [obj EXCEPT !.value = z] /\ call'.op = "none" /\ z \in Values(Format(obj))
    BY <1>1, <1>6 DEF Assign, Idle, TypeOK
  <2>2. z \in Nat
    BY <1>1, <2>1, InObject, FormatOf, ValueIsNatural
  <2> HIDE DEF z
  <2>3. obj'.type = obj.type /\ obj'.x = obj.x /\ obj'.value = z /\ Typed'
    BY <1>1, <2>1, <2>2 DEF Typed
  <2>4. Format(obj') = Format(obj)
    BY <2>3 DEF Format
  <2>5. TypeOK'
    BY <2>1, <2>3, <2>4 DEF TypeOK
  <2>6. SignsAndNaRs'
    BY <2>1 DEF SignsAndNaRs, Returned
  <2> QED
    BY <2>3, <2>5, <2>6 DEF IInv
<1>7. CASE Drop
  <2>1. obj' = obj /\ call'.op = "none"
    BY <1>7 DEF Drop, Idle
  <2> QED
    BY <2>1, CallKeepsInvariant DEF SignsAt, Numbers_
<1>8. CASE UNCHANGED vars
  <2>1. obj' = obj /\ call' = call
    BY <1>8 DEF vars
  <2>2. Typed' /\ TypeOK'
    BY <1>1, <2>1 DEF Typed, TypeOK
  <2>3. SignsAndNaRs'
    <3>1. SignsAndNaRs' <=> SignsAt(obj', call')
      BY Zenon DEF SignsAndNaRs, SignsAt, Like, Signed_, Returned
    <3> QED
      BY <1>1, <2>1, <3>1, SignsAre
  <2> QED
    BY <2>2, <2>3 DEF IInv
<1> QED
  BY <1>2, <1>3, <1>4, <1>5, <1>6, <1>7, <1>8 DEF Next

-----------------------------------------------------------------------------
(* The order of the words.                                                 *)

\* The six comparisons, from the order of the words as signed integers.
LEMMA ComparisonOf ==
    ASSUME NEW o, AnObject(o), o.type # "posit_1", NEW a
    PROVE  LET i == AsInt(Format(o), o.value)
               j == AsInt(Format(o), a)
           IN  Comparison(o, a) =
                 [lt |-> i < j, le |-> i <= j, eq |-> i = j, ne |-> ~ (i = j), gt |-> j < i, ge |-> j <= i]
<1>1. CASE o.type = "posit8"
  <2>1. Format(o) = P8 /\ Comparison(o, a) = posit8_compare(o.value, a)
    BY <1>1, FormatOf DEF Comparison
  <2> QED
    BY <2>1, Zenon DEF posit8_compare, p8_lt, p8_le, p8_eq, Lt, Le, Eq
<1>2. CASE o.type = "posit16"
  <2>1. Format(o) = P16 /\ Comparison(o, a) = posit16_compare(o.value, a)
    BY <1>2, FormatOf DEF Comparison
  <2> QED
    BY <2>1, Zenon DEF posit16_compare, p16_lt, p16_le, p16_eq, Lt, Le, Eq
<1>3. CASE o.type = "posit32"
  <2>1. Format(o) = P32 /\ Comparison(o, a) = posit32_compare(o.value, a)
    BY <1>3, FormatOf DEF Comparison
  <2> QED
    BY <2>1, Zenon DEF posit32_compare, p32_lt, p32_le, p32_eq, Lt, Le, Eq
<1>4. CASE o.type = "posit_2"
  <2>1. Format(o) = PX2(o.x) /\ Comparison(o, a) = posit_2_compare(o.value, a)
    BY <1>4, FormatOf DEF Comparison
  <2>2. ASSUME NEW u PROVE AsInt(PX2(o.x), u) = AsInt(P32, u)
    BY DEF AsInt, Negative, NaR, PX2, P32, posit_2_t, posit32_t
  <2>3. posit_2_compare(o.value, a) =
          LET i == AsInt(P32, o.value)
              j == AsInt(P32, a)
          IN  [lt |-> i < j, le |-> i <= j, eq |-> i = j, ne |-> ~ (i = j), gt |-> j < i, ge |-> j <= i]
    BY Zenon DEF posit_2_compare, pX2_lt, pX2_le, pX2_eq, Lt, Le, Eq
  <2> QED
    BY <2>1, <2>2, <2>3
<1> QED
  BY <1>1, <1>2, <1>3, <1>4 DEF AnObject, Kinds

LEMMA BelowIsBoolean ==
    ASSUME NEW F, NEW u, NEW v
    PROVE  BelowWord(F, u, v) \in BOOLEAN
<1>1. /\ Minus(F, u) \in BOOLEAN /\ Minus(F, v) \in BOOLEAN
      /\ IsNumber(F, u) \in BOOLEAN /\ IsNumber(F, v) \in BOOLEAN
      /\ IsNumber(F, u) <=> u # 0 /\ u # 2^(F.n - 1)
      /\ IsNumber(F, v) <=> v # 0 /\ v # 2^(F.n - 1)
  BY DEF Minus, IsNumber
<1>2. ASSUME NEW a, NEW b PROVE Less(a, b) \in BOOLEAN
  <2>1. CASE Size(a) # Size(b)
    BY <2>1 DEF Less
  <2>2. CASE Size(a) = Size(b)
    BY <2>2 DEF Less
  <2> QED
    BY <2>1, <2>2
<1> DEFINE N == 2^(F.n - 1)
<1>3. BelowWord(F, u, v) =
        CASE N \in {u, v} -> u = N /\ v # u
          [] IsNumber(F, u) /\ v = 0 -> Minus(F, u)
          [] u = 0 /\ v # N -> v # 0 /\ ~ Minus(F, v)
          [] IsNumber(F, u) /\ IsNumber(F, v) ->
                IF Minus(F, u) # Minus(F, v) THEN Minus(F, u)
                ELSE IF Minus(F, u) THEN Less(Number(F, v), Number(F, u))
                ELSE Less(Number(F, u), Number(F, v))
  BY Zenon DEF BelowWord
<1> HIDE DEF N
<1>4. CASE N \in {u, v}
  BY <1>1, <1>3, <1>4 DEF N
<1>5. CASE N \notin {u, v} /\ v = 0
  BY <1>1, <1>3, <1>5 DEF N
<1>6. CASE N \notin {u, v} /\ v # 0 /\ u = 0
  BY <1>1, <1>3, <1>6 DEF N
<1>7. CASE N \notin {u, v} /\ v # 0 /\ u # 0
  BY <1>1, <1>2, <1>3, <1>7 DEF N
<1> QED
  BY <1>4, <1>5, <1>6, <1>7

LEMMA ComparisonOrders ==
    ASSUME NEW F, IsFormat(F), NEW u \in PrecisionWords(F), NEW v \in PrecisionWords(F),
           NEW r, LET i == AsInt(F, u)
                      j == AsInt(F, v)
                  IN  r = [lt |-> i < j, le |-> i <= j, eq |-> i = j, ne |-> ~ (i = j),
                           gt |-> j < i, ge |-> j <= i]
    PROVE  LET Below(w, z) == BelowWord(F, w, z) IN
           r = [lt |-> Below(u, v), gt |-> Below(v, u), eq |-> u = v, ne |-> u # v,
                le |-> ~ Below(v, u), ge |-> ~ Below(u, v)]
<1> DEFINE i == AsInt(F, u)
           j == AsInt(F, v)
<1>1. i \in Int /\ j \in Int
  BY WordKinds
<1>2. (BelowWord(F, u, v) <=> i < j) /\ (BelowWord(F, v, u) <=> j < i)
  BY BelowIs
<1>3. i = j <=> u = v
  <2>1. /\ u \in Nat /\ u < 2^F.n /\ v \in Nat /\ v < 2^F.n /\ 2^F.n \in Nat
        /\ Negative(F, u) <=> i < 0
        /\ Negative(F, v) <=> j < 0
    BY WordKinds, Sizes
  <2>2. i = (IF Negative(F, u) THEN u - 2^F.n ELSE u) /\ j = (IF Negative(F, v) THEN v - 2^F.n ELSE v)
    BY DEF AsInt
  <2> HIDE DEF i, j
  <2> QED
    BY <2>1, <2>2
<1>4. BelowWord(F, u, v) \in BOOLEAN /\ BelowWord(F, v, u) \in BOOLEAN
  BY BelowIsBoolean
<1>5. BelowWord(F, u, v) = (i < j) /\ BelowWord(F, v, u) = (j < i)
  BY <1>1, <1>2, <1>4
<1>6. (~ BelowWord(F, u, v)) = (j <= i) /\ (~ BelowWord(F, v, u)) = (i <= j)
  BY <1>1, <1>2, <1>4
<1>7. r = [lt |-> i < j, le |-> i <= j, eq |-> i = j, ne |-> ~ (i = j), gt |-> j < i, ge |-> j <= i]
  OBVIOUS
<1>8. (i = j) = (u = v)
  BY <1>3
<1>9. ASSUME NEW a, NEW b, NEW c, NEW d, NEW e, NEW f
      PROVE  [lt |-> a, le |-> b, eq |-> c, ne |-> d, gt |-> e, ge |-> f]
                 = [lt |-> a, gt |-> e, eq |-> c, ne |-> d, le |-> b, ge |-> f]
  OBVIOUS
<1>10. r = [lt |-> BelowWord(F, u, v), le |-> ~ BelowWord(F, v, u), eq |-> u = v, ne |-> ~ (u = v),
            gt |-> BelowWord(F, v, u), ge |-> ~ BelowWord(F, u, v)]
  <2> HIDE DEF i, j
  <2> QED
    BY <1>5, <1>6, <1>7, <1>8, Zenon
<1>11. (u # v) = (~ (u = v))
  OBVIOUS
<1> QED
  BY <1>9, <1>10, <1>11, Zenon
LEMMA CompareKeepsOrder ==
    ASSUME IInv, Compare
    PROVE  OrderOfValues'
<1> DEFINE F == Format(obj)
<1>1. AnObject(obj) /\ TypeOK /\ obj.type # "posit_1"
  BY InObject DEF IInv, Compare
<1>2. IsFormat(F) /\ Values(F) = PrecisionWords(F) /\ obj.value \in PrecisionWords(F)
  BY <1>1, FormatOf DEF TypeOK
<1>3. PICK a \in Values(F) : Returns([op |-> "compare", a |-> a, res |-> Comparison(obj, a)])
  BY DEF Compare
<1>4. obj' = obj /\ call'.op = "compare" /\ call'.a = a /\ call'.res = Comparison(obj, a)
  BY <1>3 DEF Returns
<1> DEFINE r == Comparison(obj, a)
           u == obj.value
           Below(w, z) == BelowWord(F, w, z)
<1>5. r = [lt |-> Below(u, a), gt |-> Below(a, u), eq |-> u = a, ne |-> u # a,
           le |-> ~ Below(a, u), ge |-> ~ Below(u, a)]
  BY <1>1, <1>2, ComparisonOf, ComparisonOrders
<1> QED
  BY <1>4, <1>5 DEF OrderOfValues

LEMMA NextOrder == IInv /\ OrderOfValues /\ [Next]_vars => OrderOfValues'
<1> SUFFICES ASSUME IInv, OrderOfValues, [Next]_vars PROVE OrderOfValues'
  OBVIOUS
<1>1. ASSUME call'.op # "compare" PROVE OrderOfValues'
  BY <1>1 DEF OrderOfValues, Returned
<1>2. CASE Plus_ \/ Minus_ \/ Times_ \/ Divide
  BY <1>1, <1>2 DEF Plus_, Minus_, Times_, Divide, Operator, Returns
<1>3. CASE FusedMultiplyAdd
  BY <1>1, <1>3 DEF FusedMultiplyAdd, Returns
<1>4. CASE Compare
  BY <1>4, CompareKeepsOrder
<1>5. CASE StepByOne
  BY <1>1, <1>5 DEF StepByOne
<1>6. CASE Assign \/ Drop
  BY <1>1, <1>6 DEF Assign, Drop, Idle
<1>7. CASE UNCHANGED vars
  BY <1>7 DEF vars, OrderOfValues, Returned
<1> QED
  BY <1>2, <1>3, <1>4, <1>5, <1>6, <1>7 DEF Next


-----------------------------------------------------------------------------
(* The rounding.                                                           *)

\* A word whose exponent has no room is one whose exponent is cut off.
LEMMA CrowdedIsCut ==
    ASSUME NEW F, IsFormat(F), NEW neg \in BOOLEAN, NEW t \in Nat, Crowded(F, t)
    PROVE  Cut(F, Signed(F, neg, t * Ulp(F)))
<1> DEFINE z == Signed(F, neg, t * Ulp(F))
           top == 2^(F.x - 1)
<1>1. PICK y \in {t - 1, t} : y \in 1 .. top - 1 /\ LostExpBits(F, RunLength(F, y * Ulp(F))) > 0
  BY DEF Crowded
<1>2. top \in Nat /\ Ulp(F) \in Nat /\ Ulp(F) > 0 /\ NaR(F) = top * Ulp(F) /\ 2^F.x = 2 * top
  BY Sizes
<1>3. Magnitude(F, z) = t * Ulp(F)
  <2>1. CASE t \in 1 .. top - 1
    <3>1. t * Ulp(F) \in PositiveWords(F)
      BY <2>1 DEF PositiveWords
    <3>2. Numeric(F, z)
      BY <3>1, SignedWord
    <3>3. Digits(F, z) = t
      BY <2>1, SignedDigits
    <3> QED
      BY <3>2, <3>3, DigitsOf
  <2>2. CASE t = top
    <3>1. t * Ulp(F) = NaR(F) /\ NaR(F) \in PrecisionWords(F)
      <4>1. top \in 0 .. 2^F.x - 1
        BY <1>1, <1>2, <2>2
      <4> QED
        BY <1>2, <2>2, <4>1 DEF PrecisionWords
    <3>2. Neg(F, NaR(F)) = NaR(F)
      BY <3>1, Negation
    <3> HIDE DEF top
    <3> QED
      BY <3>1, <3>2 DEF Magnitude, Signed
  <2> QED
    BY <1>1, <1>2, <2>1, <2>2
<1>4. Magnitude(F, z) \div Ulp(F) = t
  <2> DEFINE m == Ulp(F)
  <2> HIDE DEF m, z
  <2>1. (t * m) \div m = t
    <3>1. m \in Nat /\ m > 0 /\ t \in Int
      BY <1>2 DEF m
    <3>2. 0 \in 0 .. m - 1 /\ t * m \in Int /\ t * m = m * t + 0
      BY <3>1
    <3> QED
      BY <3>1, <3>2, DivisionUnique
  <2> QED
    BY <1>3, <2>1 DEF m
<1> DEFINE c == y - t
<1>5. c \in {-1, 0, 1} /\ t + c = y
  BY <1>1
<1> HIDE DEF c, z, top
<1>6. (Magnitude(F, z) \div Ulp(F)) + c = y
  BY <1>4, <1>5
<1>7. y \in 1 .. 2^(F.x - 1) - 1 /\ LostExpBits(F, RunLength(F, y * Ulp(F))) > 0
  BY <1>1 DEF top
<1>8. Cut(F, z)
  BY <1>5, <1>6, <1>7 DEF Cut
<1> QED
  BY <1>8 DEF z

\* What RightlyRounded asks of the call c on the object o.
MayFail(o, c) == Full(o) \/ (o.type = "posit32" /\ c.op = "mul")

RightAt(o, c) == Right(o, c) \/ (MayFail(o, c) /\ Cut(Format(o), c.res))

\* The formats in which no exponent bit gets lost.
LEMMA FormatKeeps ==
    ASSUME NEW o, AnObject(o), ~ Full(o)
    PROVE  LET F == Format(o) IN
           ~ (F.px /\ F.x = F.n /\ F.es = 2) /\ (o.type # "posit32" => Keeps(F))
<1>1. CASE o.type = "posit8"
  BY <1>1, FormatOf DEF P8, posit8_t, Keeps
<1>2. CASE o.type = "posit16"
  BY <1>2, FormatOf DEF P16, posit16_t, Keeps
<1>3. CASE o.type = "posit32"
  BY <1>3, FormatOf DEF P32, posit32_t
<1>4. CASE o.type = "posit_1"
  BY <1>4, FormatOf DEF PX1, posit_1_t, Keeps
<1>5. CASE o.type = "posit_2"
  BY <1>5, FormatOf DEF PX2, posit_2_t, Keeps, Full
<1> QED
  BY <1>1, <1>2, <1>3, <1>4, <1>5 DEF AnObject, Kinds

\* A result that is rounded, or where the exponent has no room.
LEMMA RoundedIsRight ==
    ASSUME NEW F, IsFormat(F), NEW z, NEW neg \in BOOLEAN, NEW v, NEW d,
           RoundedOrCrowded(F, z, neg, v, d)
    PROVE  RoundsTo(F, z, neg, v, d) \/ Cut(F, z)
  BY CrowdedIsCut DEF RoundedOrCrowded

LEMMA ProductRight ==
    ASSUME NEW o, AnObject(o), o.value \in PrecisionWords(Format(o)),
           NEW c, c.op = "mul", c.a \in PrecisionWords(Format(o)),
           c.res = Mul(Format(o), o.value, c.a)
    PROVE  RightAt(o, c)
<1> DEFINE F == Format(o)
           v == o.value
           a == c.a
           neg == Minus(F, v) # Minus(F, a)
           w == Times(Number(F, v), Number(F, a))
<1>1. IsFormat(F)
  BY FormatOf
<1>2. Right(o, c) <=> IF NaR(F) \in {v, a} THEN c.res = NaR(F)
                      ELSE IF 0 \in {v, a} THEN c.res = 0
                      ELSE RoundsTo(F, c.res, neg, w, Unity)
  <2>1. {v, a} \cup {} = {v, a}
    OBVIOUS
  <2> QED
    BY <2>1 DEF Right, Result
<1>3. MayFail(o, c) <=> Full(o) \/ o.type = "posit32"
  BY DEF MayFail
<1>4. CASE NaR(F) \in {v, a}
  <2>1. c.res = NaR(F)
    BY <1>4 DEF Mul
  <2> QED
    BY <1>2, <1>4, <2>1 DEF RightAt
<1>5. CASE NaR(F) \notin {v, a} /\ 0 \in {v, a}
  <2>1. c.res = 0
    BY <1>5 DEF Mul
  <2> QED
    BY <1>2, <1>5, <2>1 DEF RightAt
<1>6. CASE NaR(F) \notin {v, a} /\ 0 \notin {v, a}
  <2>1. Numeric(F, v) /\ Numeric(F, a)
    BY <1>6 DEF Numeric
  <2>2. Minus(F, v) <=> Negative(F, v)
    BY <1>1, <2>1, DigitsOf
  <2>3. Minus(F, a) <=> Negative(F, a)
    BY <1>1, <2>1, DigitsOf
  <2>4. neg \in BOOLEAN /\ SignDiffers(F, v, a) = neg
    BY <2>2, <2>3 DEF SignDiffers, Minus, Negative
  <2> HIDE DEF F, v, a, neg, w
  <2>5. CASE MayFail(o, c)
    <3>1. RoundedOrCrowded(F, Mul(F, v, a), neg, w, Unity)
      BY <1>1, <2>1, <2>4, MulRoundsOrCrowded DEF w
    <3>2. RoundsTo(F, c.res, neg, w, Unity) \/ Cut(F, c.res)
      BY <1>1, <2>4, <3>1, RoundedIsRight DEF F, v, a
    <3> QED
      BY <1>2, <1>6, <2>5, <3>2 DEF RightAt, F
  <2>6. CASE ~ MayFail(o, c)
    <3>1. Keeps(F)
      BY <1>3, <2>6, FormatKeeps DEF F
    <3>2. RoundsTo(F, Mul(F, v, a), neg, w, Unity)
      BY <1>1, <2>1, <2>4, <3>1, MulRounds DEF w
    <3> QED
      BY <1>2, <1>6, <3>2 DEF RightAt, F, v, a
  <2> QED
    BY <2>5, <2>6
<1> QED
  BY <1>4, <1>5, <1>6

LEMMA QuotientRight ==
    ASSUME NEW o, AnObject(o), o.value \in PrecisionWords(Format(o)),
           NEW c, c.op = "div", c.a \in PrecisionWords(Format(o)),
           c.res = Div(Format(o), o.value, c.a)
    PROVE  RightAt(o, c)
<1> DEFINE F == Format(o)
           v == o.value
           a == c.a
           neg == Minus(F, v) # Minus(F, a)
<1>1. IsFormat(F)
  BY FormatOf
<1>2. Right(o, c) <=> IF NaR(F) \in {v, a} \/ a = 0 THEN c.res = NaR(F)
                      ELSE IF v = 0 THEN c.res = 0
                      ELSE RoundsTo(F, c.res, neg, Number(F, v), Number(F, a))
  <2>1. {v, a} \cup {} = {v, a}
    OBVIOUS
  <2> QED
    BY <2>1 DEF Right, Result
<1>3. MayFail(o, c) <=> Full(o)
  BY DEF MayFail
<1>4. CASE NaR(F) \in {v, a} \/ a = 0
  <2>1. c.res = NaR(F)
    BY <1>4 DEF Div
  <2> QED
    BY <1>2, <1>4, <2>1 DEF RightAt
<1>5. CASE ~ (NaR(F) \in {v, a} \/ a = 0) /\ v = 0
  <2>1. c.res = 0
    BY <1>5 DEF Div
  <2> QED
    BY <1>2, <1>5, <2>1 DEF RightAt
<1>6. CASE ~ (NaR(F) \in {v, a} \/ a = 0) /\ v # 0
  <2>1. Numeric(F, v) /\ Numeric(F, a)
    BY <1>6 DEF Numeric
  <2>2. Minus(F, v) <=> Negative(F, v)
    BY <1>1, <2>1, DigitsOf
  <2>3. Minus(F, a) <=> Negative(F, a)
    BY <1>1, <2>1, DigitsOf
  <2>4. neg \in BOOLEAN /\ SignDiffers(F, v, a) = neg
    BY <2>2, <2>3 DEF SignDiffers, Minus, Negative
  <2> HIDE DEF F, v, a, neg
  <2>5. CASE MayFail(o, c)
    <3>1. RoundedOrCrowded(F, Div(F, v, a), neg, Number(F, v), Number(F, a))
      BY <1>1, <2>1, <2>4, DivRoundsOrCrowded
    <3>2. RoundsTo(F, c.res, neg, Number(F, v), Number(F, a)) \/ Cut(F, c.res)
      BY <1>1, <2>4, <3>1, RoundedIsRight DEF F, v, a
    <3> QED
      BY <1>2, <1>6, <2>5, <3>2 DEF RightAt, F
  <2>6. CASE ~ MayFail(o, c)
    <3>1. ~ (F.px /\ F.x = F.n /\ F.es = 2)
      BY <1>3, <2>6, FormatKeeps DEF F
    <3>2. RoundsTo(F, Div(F, v, a), neg, Number(F, v), Number(F, a))
      BY <1>1, <2>1, <2>4, <3>1, DivRounds
    <3> QED
      BY <1>2, <1>6, <3>2 DEF RightAt, F, v, a
  <2> QED
    BY <2>5, <2>6
<1> QED
  BY <1>4, <1>5, <1>6

LEMMA FormatAligns ==
    ASSUME NEW o, AnObject(o)
    PROVE  Aligns(Format(o))
<1>1. W8 \in Nat /\ W16 \in Nat /\ W32 \in Nat /\ W8 >= 4 /\ W16 >= 4 /\ W32 >= 5
  BY WidthAssumption
<1>2. CASE o.type = "posit8"
  BY <1>1, <1>2, FormatOf DEF P8, posit8_t, Aligns
<1>3. CASE o.type = "posit16"
  BY <1>1, <1>3, FormatOf DEF P16, posit16_t, Aligns
<1>4. CASE o.type = "posit32"
  BY <1>1, <1>4, FormatOf DEF P32, posit32_t, Aligns
<1>5. CASE o.type = "posit_1"
  BY <1>1, <1>5, FormatOf DEF PX1, posit_1_t, Aligns
<1>6. CASE o.type = "posit_2"
  BY <1>1, <1>6, FormatOf DEF PX2, posit_2_t, Aligns
<1> QED
  BY <1>2, <1>3, <1>4, <1>5, <1>6 DEF AnObject, Kinds

\* A word that a sum yields is the rounded sum, or one without room for the exponent.
LEMMA YieldsRight ==
    ASSUME NEW o, AnObject(o), NEW u, NEW V, Yields(Format(o), u, V), NEW neg \in BOOLEAN
    PROVE  LET F == Format(o)
               z == Signed(F, neg, u)
           IN  RoundsTo(F, z, neg, V, Unity) \/ (Full(o) /\ Cut(F, z))
<1> DEFINE F == Format(o)
           z == Signed(F, neg, u)
<1>1. IsFormat(F)
  BY FormatOf
<1>2. PICK t \in Nat :
        /\ u = t * Ulp(F)
        /\ \/ \A s \in BOOLEAN : RoundsTo(F, Signed(F, s, u), s, V, Unity)
           \/ FullWidth(F) /\ Crowded(F, t)
  BY Zenon DEF Yields
<1>3. FullWidth(F) => Full(o)
  BY FormatKeeps DEF FullWidth
<1> HIDE DEF F
<1>4. Crowded(F, t) => Cut(F, z)
  BY <1>1, <1>2, CrowdedIsCut
<1>5. RoundsTo(F, z, neg, V, Unity) \/ (Full(o) /\ Cut(F, z))
  BY <1>2, <1>3, <1>4
<1> QED
  BY <1>5 DEF F

\* The sum of two numbers, or a word without room for the exponent.
SumRight(o, z, v, m, w) ==
    LET F == Format(o) IN
    \/ Sums(F, z, Minus(F, v), Number(F, v), m, w, RoundsTo)
    \/ Full(o) /\ Cut(F, z)

LEMMA AddOfRight ==
    ASSUME NEW o, AnObject(o), NEW v, NEW a, Numeric(Format(o), v), Numeric(Format(o), a)
    PROVE  SumRight(o, AddOf(Format(o), v, a), v, Minus(Format(o), a), Number(Format(o), a))
<1> DEFINE F == Format(o)
           V == Number(F, v)
           W == Number(F, a)
           z == AddOf(F, v, a)
           m == Minus(F, v)
           n == Minus(F, a)
<1>1. IsFormat(F) /\ Aligns(F)
  BY FormatOf, FormatAligns
<1>2. m \in BOOLEAN /\ n \in BOOLEAN /\ (m <=> Negative(F, v)) /\ (n <=> Negative(F, a))
  <2>1. (m <=> Negative(F, v)) /\ (n <=> Negative(F, a))
    BY <1>1, DigitsOf
  <2> QED
    BY <2>1 DEF Minus
<1>3. z = IF Negative(F, v) = Negative(F, a) THEN AddMags(F, v, a) ELSE SubMags(F, v, a)
  BY DEF AddOf, Numeric
<1>4. SumRight(o, z, v, n, W) <=>
        \/ IF m = n THEN RoundsTo(F, z, m, SumOf(V, W, 1), Unity)
           ELSE IF Same(V, W) THEN z = 0
           ELSE RoundsTo(F, z, IF Less(V, W) THEN n ELSE m, SumOf(V, W, -1), Unity)
        \/ Full(o) /\ Cut(F, z)
  <2> HIDE DEF z
  <2> QED
    BY Zenon DEF SumRight, Sums, SumOf
<1>5. (Negative(F, v) = Negative(F, a)) <=> (m = n)
  BY <1>2 DEF Negative
<1> HIDE DEF F, V, W, z, m, n
<1>6. CASE m = n
  <2>1. z = AddMags(F, v, a) /\ (Negative(F, v) <=> Negative(F, a))
    BY <1>2, <1>3, <1>5, <1>6
  <2>2. PICK u : /\ AddMags(F, v, a) = Signed(F, Negative(F, v), u)
                 /\ Yields(F, u, SumOf(V, W, 1))
    BY <1>1, <2>1, AddMagsYields DEF F, V, W
  <2>3. z = Signed(F, m, u)
    BY <1>2, <2>1, <2>2 DEF Negative
  <2>4. RoundsTo(F, z, m, SumOf(V, W, 1), Unity) \/ (Full(o) /\ Cut(F, z))
    BY <1>2, <2>2, <2>3, YieldsRight DEF F
  <2>5. SumRight(o, z, v, n, W)
    BY <1>4, <1>6, <2>4
  <2> QED
    BY <2>5 DEF z, n, W, F
<1>7. CASE m # n
  <2>1. z = SubMags(F, v, a)
    BY <1>3, <1>5, <1>7
  <2>2. (Same(V, W) <=> Magnitude(F, v) = Magnitude(F, a))
    BY <1>1, SameNumbers DEF F, V, W
  <2>3. CASE Same(V, W)
    <3>1. z = 0
      BY <2>1, <2>2, <2>3 DEF SubMags
    <3>2. SumRight(o, z, v, n, W)
      BY <1>4, <1>7, <2>3, <3>1
    <3> QED
      BY <3>2 DEF z, n, W, F
  <2>4. CASE ~ Same(V, W)
    <3> DEFINE s == IF Less(V, W) THEN n ELSE m
    <3>1. PICK u : /\ SubMags(F, v, a) = Signed(F, IF Less(V, W) THEN ~ Negative(F, v)
                                                   ELSE Negative(F, v), u)
                   /\ Yields(F, u, SumOf(V, W, -1))
      BY <1>1, <2>2, <2>4, SubMagsYields DEF F, V, W
    <3>2. s \in BOOLEAN
      BY <1>2
    <3>3. z = Signed(F, s, u)
      BY <1>2, <1>7, <2>1, <3>1 DEF Negative
    <3> HIDE DEF s
    <3>4. RoundsTo(F, z, s, SumOf(V, W, -1), Unity) \/ (Full(o) /\ Cut(F, z))
      BY <3>1, <3>2, <3>3, YieldsRight DEF F
    <3>5. SumRight(o, z, v, n, W)
      BY <1>4, <1>7, <2>4, <3>4 DEF s
    <3> QED
      BY <3>5 DEF z, n, W, F
  <2> QED
    BY <2>3, <2>4
<1> QED
  BY <1>6, <1>7

\* What RightlyRounded asks of a sum, or of a difference where minus holds.
SumResult(o, z, v, a, minus) ==
    LET F == Format(o) IN
    IF NaR(F) \in {v, a} THEN z = NaR(F)
    ELSE IF a = 0 THEN z = v
    ELSE IF v = 0 THEN RoundsTo(F, z, Minus(F, a) # minus, Number(F, a), Unity)
    ELSE SumRight(o, z, v, Minus(F, a) # minus, Number(F, a))

LEMMA ResultOfSum ==
    ASSUME NEW o, NEW c, NEW v, NEW a, NEW minus \in BOOLEAN,
           \/ /\ c.op \in {"add", "sub"} /\ v = o.value /\ a = c.a
              /\ (minus <=> c.op = "sub")
           \/ /\ c.op \in {"inc", "dec"} /\ v = c.a /\ a = One(Format(o))
              /\ (minus <=> c.op = "dec"),
           SumResult(o, c.res, v, a, minus)
    PROVE  RightAt(o, c)
<1> DEFINE F == Format(o)
           n == Minus(F, a) # minus
           w == Number(F, a)
           sum == Sums(F, c.res, Minus(F, v), Number(F, v), n, w, RoundsTo)
<1>1. c.op # "fma" /\ c.op # "div" /\ c.op # "mul"
      /\ (c.op \in {"sub", "dec"} <=> minus) /\ c.op \in {"add", "sub", "inc", "dec"}
  OBVIOUS
<1>2. v = (IF c.op \in {"inc", "dec"} THEN c.a ELSE o.value)
      /\ a = (IF c.op \in {"inc", "dec"} THEN One(F) ELSE c.a)
  OBVIOUS
<1>3. {v, a} \cup {} = {v, a}
  OBVIOUS
<1>4. n = (Minus(F, a) # (c.op \in {"sub", "dec"}))
  BY <1>1
<1>5. Right(o, c) <=> IF NaR(F) \in {v, a} THEN c.res = NaR(F)
                      ELSE IF a = 0 THEN c.res = v
                      ELSE IF v = 0 THEN RoundsTo(F, c.res, n, w, Unity)
                      ELSE sum
  <2> HIDE DEF n, w, sum
  <2>1. Right(o, c) <=>
          IF NaR(F) \in {v, a} \cup {} THEN c.res = NaR(F)
          ELSE IF a = 0 THEN c.res = v
          ELSE IF v = 0 THEN RoundsTo(F, c.res, n, w, Unity)
          ELSE sum
    BY <1>1, <1>2, <1>4, Zenon DEF Right, Result, w, sum
  <2> QED
    BY <1>3, <2>1
<1>6. SumRight(o, c.res, v, n, w) <=> sum \/ (Full(o) /\ Cut(F, c.res))
  BY DEF SumRight
<1>7. IF NaR(F) \in {v, a} THEN c.res = NaR(F)
      ELSE IF a = 0 THEN c.res = v
      ELSE IF v = 0 THEN RoundsTo(F, c.res, n, w, Unity)
      ELSE SumRight(o, c.res, v, n, w)
  BY DEF SumResult
<1> HIDE DEF F, n, w, sum
<1>8. Right(o, c) \/ (Full(o) /\ Cut(F, c.res))
  BY <1>5, <1>6, <1>7
<1> QED
  BY <1>8 DEF RightAt, MayFail, F

LEMMA AddResult ==
    ASSUME NEW o, AnObject(o), NEW v \in PrecisionWords(Format(o)),
           NEW a \in PrecisionWords(Format(o))
    PROVE  SumResult(o, AddOf(Format(o), v, a), v, a, FALSE)
<1> DEFINE F == Format(o)
           z == AddOf(F, v, a)
<1>1. IsFormat(F) /\ v \in Nat /\ a \in Nat /\ NaR(F) # 0
  <2>1. IsFormat(F)
    BY FormatOf
  <2>2. v \in Nat /\ a \in Nat
    BY <2>1, WordKinds
  <2> HIDE DEF F
  <2>3. NaR(F) # 0
    <3>1. 2^(F.x - 1) \in Nat /\ 2^(F.x - 1) >= 2 /\ Ulp(F) \in Nat /\ Ulp(F) >= 1
          /\ NaR(F) = 2^(F.x - 1) * Ulp(F)
      BY <2>1, Sizes
    <3> DEFINE A == 2^(F.x - 1)
               B == Ulp(F)
    <3>2. A \in Nat /\ A >= 2 /\ B \in Nat /\ B >= 1 /\ NaR(F) = A * B
      BY <3>1
    <3> HIDE DEF A, B
    <3>3. A * B >= 1
      BY <3>2
    <3> QED
      BY <3>2, <3>3
  <2> QED
    BY <2>1, <2>2, <2>3
<1>2. (Minus(F, a) # FALSE) = Minus(F, a)
  <2>1. Minus(F, a) \in BOOLEAN
    BY DEF Minus
  <2> DEFINE m == Minus(F, a)
  <2> HIDE DEF m
  <2>2. m \in BOOLEAN => (m # FALSE) = m
    BY Zenon
  <2> QED
    BY <2>1, <2>2 DEF m
<1>3. CASE NaR(F) \in {v, a}
  <2>1. z = NaR(F)
    <3> HIDE DEF F
    <3> QED
      BY <1>1, <1>3 DEF AddOf
  <2> QED
    BY <1>3, <2>1 DEF SumResult
<1>4. CASE NaR(F) \notin {v, a} /\ a = 0
  <2>1. z = v + 0
    BY <1>4 DEF AddOf
  <2>2. z = v
    BY <1>1, <2>1
  <2> QED
    BY <1>4, <2>2 DEF SumResult
<1>5. CASE NaR(F) \notin {v, a} /\ a # 0 /\ v = 0
  <2>1. z = 0 + a
    BY <1>5 DEF AddOf
  <2>2. z = a
    BY <1>1, <2>1
  <2>3. RoundsTo(F, a, Minus(F, a), Number(F, a), Unity)
    BY <1>1, <1>5, WordRounds DEF Numeric
  <2>4. RoundsTo(F, z, Minus(F, a) # FALSE, Number(F, a), Unity)
    BY <1>2, <2>2, <2>3
  <2> QED
    BY <1>5, <2>4 DEF SumResult
<1>6. CASE NaR(F) \notin {v, a} /\ a # 0 /\ v # 0
  <2>1. SumRight(o, z, v, Minus(F, a), Number(F, a))
    BY <1>6, AddOfRight DEF Numeric
  <2>2. SumRight(o, z, v, Minus(F, a) # FALSE, Number(F, a))
    BY <1>2, <2>1
  <2> QED
    BY <1>6, <2>2 DEF SumResult
<1> QED
  BY <1>3, <1>4, <1>5, <1>6

LEMMA SubResult ==
    ASSUME NEW o, AnObject(o), NEW v \in PrecisionWords(Format(o)),
           NEW a \in PrecisionWords(Format(o))
    PROVE  SumResult(o, SubOf(Format(o), v, a), v, a, TRUE)
<1> DEFINE F == Format(o)
           z == SubOf(F, v, a)
           b == Neg(F, a)
<1>1. IsFormat(F) /\ v \in Nat /\ a \in Nat
  BY FormatOf, WordKinds
<1>2. Neg(F, 0) = 0 /\ (a = 0 => b = 0) /\ b \in PrecisionWords(F)
  <2>1. 0 = 0 * Ulp(F) /\ 0 \in 0 .. 2^F.x - 1
    <3>1. 2^F.x \in Nat /\ 2^F.x >= 1 /\ Ulp(F) \in Nat
      <4>1. F.x \in Nat
        BY <1>1 DEF IsFormat
      <4> QED
        BY <1>1, <4>1, PowerType, Sizes
    <3> QED
      BY <3>1
  <2>2. 0 \in PrecisionWords(F)
    BY <2>1 DEF PrecisionWords
  <2> QED
    BY <1>1, <2>2, Negation
<1>3. CASE NaR(F) \in {v, a}
  <2>1. z = NaR(F)
    BY <1>3 DEF SubOf
  <2> QED
    BY <1>3, <2>1 DEF SumResult
<1>4. CASE NaR(F) \notin {v, a} /\ a = 0
  <2>1. z = v + b
    BY <1>4 DEF SubOf
  <2>2. z = v
    BY <1>1, <1>2, <1>4, <2>1
  <2> QED
    BY <1>4, <2>2 DEF SumResult
<1>5. CASE NaR(F) \notin {v, a} /\ a # 0
  <2>1. Numeric(F, a)
    BY <1>5 DEF Numeric
  <2>2. /\ Numeric(F, b) /\ Number(F, b) = Number(F, a)
        /\ Minus(F, b) = ~ Minus(F, a) /\ (Negative(F, b) <=> ~ Negative(F, a))
    BY <1>1, <2>1, NegatedNumber
  <2>3. Minus(F, b) = (Minus(F, a) # TRUE)
    <3>1. Minus(F, a) \in BOOLEAN
      BY DEF Minus
    <3> DEFINE m == Minus(F, a)
               n == Minus(F, b)
    <3> HIDE DEF m, n
    <3>2. m \in BOOLEAN /\ n = ~ m => n = (m # TRUE)
      BY Zenon
    <3> QED
      BY <2>2, <3>1, <3>2 DEF m, n
  <2>4. CASE v = 0
    <3>1. z = 0 + b
      BY <1>5, <2>4 DEF SubOf
    <3>2. z = b
      <4>1. b \in Nat
        BY <1>1, <1>2, WordKinds
      <4> QED
        BY <3>1, <4>1
    <3>3. RoundsTo(F, b, Minus(F, b), Number(F, b), Unity)
      BY <1>1, <2>2, WordRounds
    <3>4. RoundsTo(F, z, Minus(F, a) # TRUE, Number(F, a), Unity)
      BY <2>2, <2>3, <3>2, <3>3
    <3> QED
      BY <1>5, <2>4, <3>4 DEF SumResult
  <2>5. CASE v # 0
    <3>1. Numeric(F, v)
      BY <1>5, <2>5 DEF Numeric
    <3>2. z = AddOf(F, v, b)
      <4>1. NaR(F) \notin {v, a} /\ ~ (v = 0 \/ a = 0) /\ NaR(F) \notin {v, b} /\ ~ (v = 0 \/ b = 0)
        BY <1>5, <2>2, <2>5 DEF Numeric
      <4>2. (Negative(F, v) = Negative(F, a)) <=> ~ (Negative(F, v) = Negative(F, b))
        <5>1. Negative(F, v) \in BOOLEAN /\ Negative(F, a) \in BOOLEAN /\ Negative(F, b) \in BOOLEAN
          BY DEF Negative
        <5> DEFINE l == Negative(F, v)
                   m == Negative(F, a)
                   n == Negative(F, b)
        <5> HIDE DEF l, m, n
        <5>2. l \in BOOLEAN /\ m \in BOOLEAN /\ n \in BOOLEAN /\ (n <=> ~ m)
              => ((l = m) <=> ~ (l = n))
          BY Zenon
        <5> QED
          BY <2>2, <5>1, <5>2 DEF l, m, n
      <4>3. z = IF Negative(F, v) = Negative(F, a) THEN SubMags(F, v, b) ELSE AddMags(F, v, b)
        BY <4>1 DEF SubOf
      <4>4. AddOf(F, v, b) = IF Negative(F, v) = Negative(F, b) THEN AddMags(F, v, b)
                             ELSE SubMags(F, v, b)
        BY <4>1, Zenon DEF AddOf
      <4> HIDE DEF z, b, F
      <4> QED
        BY <4>2, <4>3, <4>4
    <3>3. SumRight(o, AddOf(F, v, b), v, Minus(F, b), Number(F, b))
      BY <2>2, <3>1, AddOfRight
    <3>4. SumRight(o, z, v, Minus(F, a) # TRUE, Number(F, a))
      BY <2>2, <2>3, <3>2, <3>3
    <3> QED
      BY <1>5, <2>5, <3>4 DEF SumResult
  <2> QED
    BY <2>4, <2>5
<1> QED
  BY <1>3, <1>4, <1>5

-----------------------------------------------------------------------------
(* Every operation rounds.                                                 *)

\* Holds in every state: the last call was none of these operators, or a right one.
RoundedCall ==
    Returned({"add", "sub", "mul", "div", "inc", "dec"}) => RightAt(obj, call)

LEMMA OperatorIsRight ==
    ASSUME IInv, NEW op \in {"add", "sub", "mul", "div"}, Operator(op)
    PROVE  RoundedCall'
<1> DEFINE F == Format(obj)
           v == obj.value
<1>1. AnObject(obj) /\ TypeOK
  BY InObject DEF IInv
<1>2. IsFormat(F) /\ Values(F) = PrecisionWords(F) /\ v \in PrecisionWords(F)
  BY <1>1, FormatOf DEF TypeOK
<1>3. PICK a \in Values(F) : Returns([op |-> op, a |-> a, res |-> Arith(op, obj, a)])
  BY DEF Operator
<1>4. obj' = obj /\ call'.op = op /\ call'.a = a /\ call'.res = Arith(op, obj, a)
  BY <1>3 DEF Returns
<1>5. /\ Arith("add", obj, a) = AddOf(F, v, a) /\ Arith("sub", obj, a) = SubOf(F, v, a)
      /\ Arith("mul", obj, a) = Mul(F, v, a) /\ Arith("div", obj, a) = Div(F, v, a)
  BY <1>1, ArithOf
<1>6. ASSUME op = "add" PROVE RightAt(obj, call')
  <2>1. SumResult(obj, call'.res, v, a, FALSE)
    BY <1>1, <1>2, <1>4, <1>5, <1>6, AddResult
  <2>2. call'.op = "add" /\ v = obj.value /\ a = call'.a
    BY <1>4, <1>6
  <2> QED
    BY <2>1, <2>2, ResultOfSum
<1>7. ASSUME op = "sub" PROVE RightAt(obj, call')
  <2>1. SumResult(obj, call'.res, v, a, TRUE)
    BY <1>1, <1>2, <1>4, <1>5, <1>7, SubResult
  <2>2. call'.op = "sub" /\ v = obj.value /\ a = call'.a
    BY <1>4, <1>7
  <2> QED
    BY <2>1, <2>2, ResultOfSum
<1>8. op = "mul" => RightAt(obj, call')
  BY <1>1, <1>2, <1>4, <1>5, ProductRight
<1>9. op = "div" => RightAt(obj, call')
  BY <1>1, <1>2, <1>4, <1>5, QuotientRight
<1> QED
  BY <1>4, <1>6, <1>7, <1>8, <1>9 DEF RoundedCall

\* The object changes with the call, whose first operand is the word it had.
LEMMA StepIsRight ==
    ASSUME IInv, StepByOne
    PROVE  RoundedCall'
<1> DEFINE F == Format(obj)
           v == obj.value
           a == One(F)
<1>1. AnObject(obj) /\ TypeOK /\ Typed /\ obj.type # "posit_1"
  BY InObject DEF IInv, StepByOne
<1>2. IsFormat(F) /\ v \in PrecisionWords(F) /\ a \in PrecisionWords(F)
  BY <1>1, FormatOf, OneWord DEF TypeOK
<1>3. PICK op \in {"inc", "dec"} :
        /\ obj' = [obj EXCEPT !.value = Step(op, obj)]
        /\ call' = [op |-> op, a |-> v, res |-> Step(op, obj)]
  BY Zenon DEF StepByOne
<1>4. call'.op = op /\ call'.a = v /\ call'.res = Step(op, obj)
  BY <1>3
<1>5. obj'.type = obj.type /\ obj'.x = obj.x
  BY <1>1, <1>3 DEF Typed
<1>6. AnObject(obj') /\ Format(obj') = F
  BY <1>1, <1>5 DEF AnObject, Format
<1>7. Step("inc", obj) = AddOf(F, v, a) /\ Step("dec", obj) = SubOf(F, v, a)
  BY <1>1, StepOf
<1>8. ASSUME op = "inc" PROVE RightAt(obj', call')
  <2>1. SumResult(obj', call'.res, v, a, FALSE)
    BY <1>2, <1>4, <1>6, <1>7, <1>8, AddResult
  <2>2. call'.op = "inc" /\ v = call'.a /\ a = One(Format(obj'))
    BY <1>4, <1>6, <1>8
  <2> QED
    BY <2>1, <2>2, ResultOfSum
<1>9. ASSUME op = "dec" PROVE RightAt(obj', call')
  <2>1. SumResult(obj', call'.res, v, a, TRUE)
    BY <1>2, <1>4, <1>6, <1>7, <1>9, SubResult
  <2>2. call'.op = "dec" /\ v = call'.a /\ a = One(Format(obj'))
    BY <1>4, <1>6, <1>9
  <2> QED
    BY <2>1, <2>2, ResultOfSum
<1> QED
  BY <1>8, <1>9 DEF RoundedCall

LEMMA NextIsRight == IInv /\ RoundedCall /\ [Next]_vars => RoundedCall'
<1> SUFFICES ASSUME IInv, RoundedCall, [Next]_vars PROVE RoundedCall'
  OBVIOUS
<1>1. ASSUME call'.op \notin {"add", "sub", "mul", "div", "inc", "dec"} PROVE RoundedCall'
  BY <1>1 DEF RoundedCall, Returned
<1>2. CASE Plus_ \/ Minus_ \/ Times_ \/ Divide
  BY <1>2, OperatorIsRight DEF Plus_, Minus_, Times_, Divide
<1>3. CASE FusedMultiplyAdd
  BY <1>1, <1>3 DEF FusedMultiplyAdd, Returns
<1>4. CASE Compare
  BY <1>1, <1>4 DEF Compare, Returns
<1>5. CASE StepByOne
  BY <1>5, StepIsRight
<1>6. CASE Assign \/ Drop
  BY <1>1, <1>6 DEF Assign, Drop, Idle
<1>7. CASE UNCHANGED vars
  <2>1. obj' = obj /\ call' = call
    BY <1>7 DEF vars
  <2> QED
    BY <2>1 DEF RoundedCall, Returned
<1> QED
  BY <1>2, <1>3, <1>4, <1>5, <1>6, <1>7 DEF Next

-----------------------------------------------------------------------------
(* The theorems. *)

\* The invariant holds of every object.
THEOREM PositInvariant == Spec => []IInv
  BY InitInvariant, NextInvariant, PTL DEF Spec

\* Whatever the widths of the types, the precision and the words are, every object keeps
\* a word of its precision, and every function returns one: what the masks and the
\* saturation in the ends of the functions of SoftPosit are for.
THEOREM PositTypeCorrect == Spec => []TypeOK
<1>1. IInv => TypeOK
  BY DEF IInv
<1> QED
  BY <1>1, PositInvariant, PTL

\* No function makes a number of NaR, a NaR or a zero of a number that is none, or takes
\* the wrong sign, whatever the widths are and however much of the exponent is cut off.
THEOREM PositSigns == Spec => []SignsAndNaRs
<1>1. IInv => SignsAndNaRs
  BY DEF IInv
<1> QED
  BY <1>1, PositInvariant, PTL

\* The six comparisons of every class are the order of the numbers that the words stand
\* for, with NaR below them, whatever the widths and the precision are: comparing the
\* words as signed integers, and the words of posit_2 as those of posit32, is enough.
THEOREM PositOrder == Spec => []OrderOfValues
<1>1. Init => OrderOfValues
  BY DEF Init, Idle, OrderOfValues, Returned
<1> QED
  BY <1>1, PositInvariant, NextOrder, PTL DEF Spec

\* Whatever the widths, the precision and the operands are: every sum, difference,
\* product, quotient and step by one is the exact one, rounded once to the nearest word,
\* ties to even, never to zero or to NaR.  Where an exponent bit may get lost, a wrong
\* result is one whose regime leaves no room for the exponent.
THEOREM PositRoundings == Spec => []RightlyRounded
<1>1. Init => RoundedCall
  BY DEF Init, Idle, RoundedCall, Returned
<1>2. Spec => []RoundedCall
  BY <1>1, PositInvariant, NextIsRight, PTL DEF Spec
<1>3. RoundedCall => RightlyRounded
  BY DEF RoundedCall, RightAt, MayFail, RightlyRounded, Frail
<1> QED
  BY <1>2, <1>3, PTL
===============================================================================
