---------------------- MODULE CheckedArithmeticProofs ----------------------
(***************************************************************************)
(* Proofs, for types of any width and precision, that the integer sniffers *)
(* and those of the casts between integers react exactly when the result   *)
(* is not the mathematical one, and that those of the casts from and to    *)
(* floating point numbers miss what they are said to miss and no more.     *)
(***************************************************************************)
EXTENDS CheckedArithmetic, Numbers, TLAPS

-----------------------------------------------------------------------------
(* The remainder near the range of its divisor.                            *)

LEMMA ModRange ==
    ASSUME NEW x \in Int, NEW m \in Nat \ {0}
    PROVE  x % m \in 0 .. m - 1
  OBVIOUS

LEMMA ModUnique ==
    ASSUME NEW m \in Nat \ {0}, NEW q \in Int, NEW y \in 0 .. m - 1, q \in {-1, 0, 1}
    PROVE  (y + q * m) % m = y
<1>1. CASE q = 0
  BY <1>1
<1>2. CASE q = 1
  BY <1>2
<1>3. CASE q = -1
  BY <1>3
<1> QED
  BY <1>1, <1>2, <1>3

LEMMA WrapType ==
    ASSUME NEW h \in Nat \ {0}, NEW x \in Int
    PROVE  Wrap(x, h) \in Ints(h)
<1>1. (x + h) % (2 * h) \in 0 .. 2 * h - 1
  BY ModRange
<1> QED
  BY <1>1 DEF Wrap, Ints, MinValue, MaxValue

\* An exact result is off by at most one period.
LEMMA WrapNear ==
    ASSUME NEW h \in Nat \ {0}, NEW x \in Int, NEW q \in {-1, 0, 1},
           x - q * (2 * h) \in Ints(h)
    PROVE  Wrap(x, h) = x - q * (2 * h)
<1> DEFINE m == 2 * h
           y == x + h - q * m
<1>1. m \in Nat \ {0} /\ q \in Int
  OBVIOUS
<1>2. y \in 0 .. m - 1
  BY DEF Ints, MinValue, MaxValue
<1>3. y + q * m = x + h
  OBVIOUS
<1>4. (y + q * m) % m = y
  BY <1>1, <1>2, ModUnique
<1>5. (x + h) % m = y
  BY <1>3, <1>4
<1> QED
  BY <1>5 DEF Wrap

LEMMA SumExact ==
    ASSUME NEW h \in Nat \ {0}, NEW a \in Ints(h), NEW b \in Ints(h)
    PROVE  SumOverflows(a, b, Wrap(a + b, h)) <=> a + b \notin Ints(h)
<1> DEFINE r == Wrap(a + b, h)
<1> USE DEF Ints, MinValue, MaxValue
<1>1. CASE a + b \in Ints(h)
  <2>1. r = a + b
    BY <1>1, WrapNear, a + b - 0 * (2 * h) = a + b
  <2> QED
    BY <1>1, <2>1 DEF SumOverflows, SignsDiffer
<1>2. CASE a + b > MaxValue(h)
  <2>1. r = a + b - 1 * (2 * h)
    BY <1>2, WrapNear
  <2> QED
    BY <1>2, <2>1 DEF SumOverflows, SignsDiffer
<1>3. CASE a + b < MinValue(h)
  <2>1. r = a + b - (-1) * (2 * h)
    BY <1>3, WrapNear
  <2> QED
    BY <1>3, <2>1 DEF SumOverflows, SignsDiffer
<1> QED
  BY <1>1, <1>2, <1>3

LEMMA DifferenceExact ==
    ASSUME NEW h \in Nat \ {0}, NEW a \in Ints(h), NEW b \in Ints(h)
    PROVE  DifferenceOverflows(a, b, Wrap(a - b, h)) <=> a - b \notin Ints(h)
<1> DEFINE r == Wrap(a - b, h)
<1> USE DEF Ints, MinValue, MaxValue
<1>1. CASE a - b \in Ints(h)
  <2>1. r = a - b
    BY <1>1, WrapNear, a - b - 0 * (2 * h) = a - b
  <2> QED
    BY <1>1, <2>1 DEF DifferenceOverflows, SignsDiffer
<1>2. CASE a - b > MaxValue(h)
  <2>1. r = a - b - 1 * (2 * h)
    BY <1>2, WrapNear
  <2> QED
    BY <1>2, <2>1 DEF DifferenceOverflows, SignsDiffer
<1>3. CASE a - b < MinValue(h)
  <2>1. r = a - b - (-1) * (2 * h)
    BY <1>3, WrapNear
  <2> QED
    BY <1>3, <2>1 DEF DifferenceOverflows, SignsDiffer
<1> QED
  BY <1>1, <1>2, <1>3

LEMMA NegationExact ==
    ASSUME NEW h \in Nat \ {0}, NEW a \in Ints(h)
    PROVE  a = MinValue(h) <=> -a \notin Ints(h)
  BY DEF Ints, MinValue, MaxValue

LEMMA CastExact ==
    ASSUME NEW h \in Nat \ {0}, NEW a \in Int
    PROVE  (a < MinValue(h) \/ a > MaxValue(h)) <=> Wrap(a, h) # a
<1>1. CASE a \in Ints(h)
  <2>1. Wrap(a, h) = a
    BY <1>1, WrapNear, a - 0 * (2 * h) = a
  <2> QED
    BY <1>1, <2>1 DEF Ints, MinValue, MaxValue
<1>2. CASE a \notin Ints(h)
  BY <1>2, WrapType DEF Ints, MinValue, MaxValue
<1> QED
  BY <1>1, <1>2

LEMMA CharCastExact ==
    ASSUME NEW h \in Nat \ {0}, NEW a \in Int
    PROVE  (a < 0 \/ a > 2 * h - 1) <=> a % (2 * h) # a
<1>1. CASE a \in 0 .. 2 * h - 1
  <2>1. (a + 0 * (2 * h)) % (2 * h) = a
    BY <1>1, ModUnique
  <2> QED
    BY <1>1, <2>1
<1>2. CASE a \notin 0 .. 2 * h - 1
  BY <1>2, ModRange
<1> QED
  BY <1>1, <1>2

-----------------------------------------------------------------------------

LEMMA HalvesType ==
    /\ ByteHalf \in Nat \ {0} /\ ShortHalf \in Nat \ {0}
    /\ IntHalf \in Nat \ {0} /\ LongHalf \in Nat \ {0}
  BY HalvesAssumption

LEMMA SumsNext == SumsExact /\ [Next]_vars => SumsExact'
<1> SUFFICES ASSUME SumsExact, [Next]_vars PROVE SumsExact'
  OBVIOUS
<1> USE DEF Sniff
<1>1. ASSUME NEW a \in Ints(IntHalf), NEW b \in Ints(IntHalf), IntOperation(a, b)
      PROVE  SumsExact'
  <2>1. CASE IADD(a, b)
    <3>1. /\ opcode' = "IADD" /\ operands' = <<a, b>>
          /\ reacted' = SumOverflows(a, b, Wrap(a + b, IntHalf))
      BY <2>1 DEF IADD
    <3>2. SumOverflows(a, b, Wrap(a + b, IntHalf)) = (a + b \notin Ints(IntHalf))
      BY SumExact, HalvesType DEF SumOverflows
    <3> QED
      BY <3>1, <3>2 DEF SumsExact
  <2>2. CASE IINC(a, b)
    <3>1. /\ opcode' = "IINC" /\ operands' = <<a, b>>
          /\ reacted' = SumOverflows(a, b, Wrap(a + b, IntHalf))
      BY <2>2 DEF IINC
    <3>2. SumOverflows(a, b, Wrap(a + b, IntHalf)) = (a + b \notin Ints(IntHalf))
      BY SumExact, HalvesType DEF SumOverflows
    <3> QED
      BY <3>1, <3>2 DEF SumsExact
  <2>3. CASE ISUB(a, b)
    <3>1. /\ opcode' = "ISUB" /\ operands' = <<a, b>>
          /\ reacted' = DifferenceOverflows(a, b, Wrap(a - b, IntHalf))
      BY <2>3 DEF ISUB
    <3>2. DifferenceOverflows(a, b, Wrap(a - b, IntHalf)) = (a - b \notin Ints(IntHalf))
      BY DifferenceExact, HalvesType DEF DifferenceOverflows
    <3> QED
      BY <3>1, <3>2 DEF SumsExact
  <2>4. CASE IMUL(a, b) \/ IDIV(a, b)
    BY <2>4 DEF IMUL, IDIV, SumsExact
  <2> QED
    BY <1>1, <2>1, <2>2, <2>3, <2>4 DEF IntOperation
<1>2. ASSUME NEW a \in Ints(LongHalf), NEW b \in Ints(LongHalf), LongOperation(a, b)
      PROVE  SumsExact'
  <2>1. CASE LADD(a, b)
    <3>1. /\ opcode' = "LADD" /\ operands' = <<a, b>>
          /\ reacted' = SumOverflows(a, b, Wrap(a + b, LongHalf))
      BY <2>1 DEF LADD
    <3>2. SumOverflows(a, b, Wrap(a + b, LongHalf)) = (a + b \notin Ints(LongHalf))
      BY SumExact, HalvesType DEF SumOverflows
    <3> QED
      BY <3>1, <3>2 DEF SumsExact
  <2>2. CASE LSUB(a, b)
    <3>1. /\ opcode' = "LSUB" /\ operands' = <<a, b>>
          /\ reacted' = DifferenceOverflows(a, b, Wrap(a - b, LongHalf))
      BY <2>2 DEF LSUB
    <3>2. DifferenceOverflows(a, b, Wrap(a - b, LongHalf)) = (a - b \notin Ints(LongHalf))
      BY DifferenceExact, HalvesType DEF DifferenceOverflows
    <3> QED
      BY <3>1, <3>2 DEF SumsExact
  <2>3. CASE LMUL(a, b) \/ LDIV(a, b)
    BY <2>3 DEF LMUL, LDIV, SumsExact
  <2> QED
    BY <1>2, <2>1, <2>2, <2>3 DEF LongOperation
<1>3. ASSUME NEW a \in Ints(IntHalf), IntCast(a) PROVE SumsExact'
  <2>1. CASE INEG(a)
    BY <2>1, NegationExact, HalvesType DEF INEG, SumsExact
  <2>2. CASE I2S(a) \/ I2C(a) \/ I2B(a) \/ I2F(a)
    BY <2>2 DEF I2S, I2C, I2B, I2F, SumsExact
  <2> QED
    BY <1>3, <2>1, <2>2 DEF IntCast
<1>4. ASSUME NEW a \in Ints(LongHalf), LongCast(a) PROVE SumsExact'
  <2>1. CASE LNEG(a)
    BY <2>1, NegationExact, HalvesType DEF LNEG, SumsExact
  <2>2. CASE L2I(a) \/ L2D(a)
    BY <2>2 DEF L2I, L2D, SumsExact
  <2> QED
    BY <1>4, <2>1, <2>2 DEF LongCast
<1>5. ASSUME NEW x, FloatCast(x) \/ DoubleCast(x) PROVE SumsExact'
  BY <1>5 DEF FloatCast, DoubleCast, F2I, F2L, D2I, D2L, D2F, SumsExact
<1>6. CASE Return
  BY <1>6 DEF Return, SumsExact
<1>7. CASE UNCHANGED vars
  BY <1>7 DEF vars, SumsExact
<1> QED
  BY <1>1, <1>2, <1>3, <1>4, <1>5, <1>6, <1>7 DEF Next, Operation

\* For int and long types of any width, the exclusive-or sign tests of IADD,
\* IINC, LADD, ISUB and LSUB and the test of INEG and LNEG react exactly when
\* the mathematical result is out of bounds.
THEOREM SumSniffersExact == Spec => []SumsExact
<1>1. Init => SumsExact
  BY DEF Init, SumsExact
<1> QED
  BY <1>1, SumsNext, PTL DEF Spec

LEMMA CastsNext == IntegerCastsExact /\ [Next]_vars => IntegerCastsExact'
<1> SUFFICES ASSUME IntegerCastsExact, [Next]_vars PROVE IntegerCastsExact'
  OBVIOUS
<1> USE DEF Sniff
<1>1. ASSUME NEW a \in Ints(IntHalf), IntCast(a) PROVE IntegerCastsExact'
  <2>1. a \in Int
    BY HalvesType DEF Ints, MinValue, MaxValue
  <2>2. CASE I2S(a) \/ I2B(a)
    BY <2>1, <2>2, CastExact, HalvesType DEF I2S, I2B, IntegerCastsExact
  <2>3. CASE I2C(a)
    BY <2>1, <2>3, CharCastExact, HalvesType DEF I2C, IntegerCastsExact
  <2>4. CASE INEG(a) \/ I2F(a)
    BY <2>4 DEF INEG, I2F, IntegerCastsExact
  <2> QED
    BY <1>1, <2>2, <2>3, <2>4 DEF IntCast
<1>2. ASSUME NEW a \in Ints(LongHalf), LongCast(a) PROVE IntegerCastsExact'
  <2>1. a \in Int
    BY HalvesType DEF Ints, MinValue, MaxValue
  <2>2. CASE L2I(a)
    BY <2>1, <2>2, CastExact, HalvesType DEF L2I, IntegerCastsExact
  <2>3. CASE LNEG(a) \/ L2D(a)
    BY <2>3 DEF LNEG, L2D, IntegerCastsExact
  <2> QED
    BY <1>2, <2>2, <2>3 DEF LongCast
<1>3. ASSUME NEW a, NEW b, IntOperation(a, b) \/ LongOperation(a, b)
      PROVE  IntegerCastsExact'
  BY <1>3 DEF IntOperation, LongOperation, IADD, IINC, ISUB, IMUL, IDIV, LADD, LSUB,
              LMUL, LDIV, IntegerCastsExact
<1>4. ASSUME NEW x, FloatCast(x) \/ DoubleCast(x) PROVE IntegerCastsExact'
  BY <1>4 DEF FloatCast, DoubleCast, F2I, F2L, D2I, D2L, D2F, IntegerCastsExact
<1>5. CASE Return
  BY <1>5 DEF Return, IntegerCastsExact
<1>6. CASE UNCHANGED vars
  BY <1>6 DEF vars, IntegerCastsExact
<1> QED
  BY <1>1, <1>2, <1>3, <1>4, <1>5, <1>6 DEF Next, Operation

\* For types of any width, the range tests of L2I, I2S, I2B and of the unsigned
\* I2C react exactly when the cast changes the value.
THEOREM IntegerCastSniffersExact == Spec => []IntegerCastsExact
<1>1. Init => IntegerCastsExact
  BY DEF Init, IntegerCastsExact
<1> QED
  BY <1>1, CastsNext, PTL DEF Spec

-----------------------------------------------------------------------------
(* Products and quotients.                                                 *)

\* A wrapped result is off by a number of whole periods.
LEMMA WrapPeriods ==
    ASSUME NEW h \in Nat \ {0}, NEW x \in Int
    PROVE  \E k \in Int : x = Wrap(x, h) + k * (2 * h)
<1> DEFINE m == 2 * h
           y == x + h
<1>1. m \in Nat \ {0} /\ y \in Int
  OBVIOUS
<1>2. y \div m \in Int /\ y = m * (y \div m) + (y % m)
  <2>1. m \in Nat /\ m > 0
    OBVIOUS
  <2> HIDE DEF m, y
  <2> QED
    BY <1>1, <2>1, Division
<1>3. x = Wrap(x, h) + (y \div m) * m
  <2>1. Wrap(x, h) = (y % m) - h
    BY DEF Wrap
  <2>2. y % m \in Int /\ x = y - h
    BY <1>1, ModRange
  <2> HIDE DEF m, y
  <2>3. m * (y \div m) = (y \div m) * m
    BY <1>1, <1>2
  <2> QED
    BY <1>1, <1>2, <2>1, <2>2, <2>3
<1> QED
  BY <1>2, <1>3

\* Java's quotient leaves a remainder smaller than the divisor.
LEMMA QuotientRemainder ==
    ASSUME NEW x \in Int, NEW y \in Int, y # 0
    PROVE  /\ Quotient(x, y) \in Int
           /\ Abs(Quotient(x, y)) = Abs(x) \div Abs(y)
           /\ Abs(x - Quotient(x, y) * y) < Abs(y)
<1> DEFINE X == Abs(x)
           Y == Abs(y)
           q == X \div Y
           r == X % Y
<1>1. X \in Nat /\ Y \in Nat \ {0}
  BY DEF Abs
<1>2. q \in Nat /\ r \in Nat /\ r < Y /\ X = Y * q + r
  <2> HIDE DEF X, Y
  <2> QED
    BY <1>1, SMTT(30)
<1>3. CASE x < 0 /\ y < 0
  <2>1. X = -x /\ Y = -y /\ Quotient(x, y) = q
    BY <1>3 DEF Abs, Quotient, SignsDiffer
  <2> HIDE DEF q, r
  <2>2. x - q * y = -r
    BY <1>2, <2>1
  <2> QED
    BY <1>2, <2>1, <2>2 DEF Abs
<1>4. CASE x < 0 /\ y > 0
  <2>1. X = -x /\ Y = y /\ Quotient(x, y) = -q
    BY <1>4 DEF Abs, Quotient, SignsDiffer
  <2> HIDE DEF q, r
  <2>2. x - (-q) * y = -r
    BY <1>2, <2>1
  <2> QED
    BY <1>2, <2>1, <2>2 DEF Abs
<1>5. CASE x >= 0 /\ y < 0
  <2>1. X = x /\ Y = -y /\ Quotient(x, y) = -q
    BY <1>5 DEF Abs, Quotient, SignsDiffer
  <2> HIDE DEF q, r
  <2>2. x - (-q) * y = r
    BY <1>2, <2>1
  <2> QED
    BY <1>2, <2>1, <2>2 DEF Abs
<1>6. CASE x >= 0 /\ y > 0
  <2>1. X = x /\ Y = y /\ Quotient(x, y) = q
    BY <1>6 DEF Abs, Quotient, SignsDiffer
  <2> HIDE DEF q, r
  <2>2. x - q * y = r
    BY <1>2, <2>1
  <2> QED
    BY <1>2, <2>1, <2>2 DEF Abs
<1> QED
  BY <1>3, <1>4, <1>5, <1>6

LEMMA QuotientOfProduct ==
    ASSUME NEW a \in Int, NEW b \in Int, b # 0
    PROVE  Quotient(a * b, b) = a
<1> DEFINE q == Quotient(a * b, b)
<1>1. a * b \in Int
  OBVIOUS
<1>2. q \in Int /\ Abs(a * b - q * b) < Abs(b)
  BY <1>1, QuotientRemainder
<1> HIDE DEF q
<1>3. a * b - q * b = (a - q) * b
  BY <1>2
<1>4. CASE a - q >= 1
  <2>1. Abs((a - q) * b) >= Abs(b)
    BY <1>2, <1>4, SMTT(30) DEF Abs
  <2> QED
    BY <1>1, <1>2, <1>3, <2>1 DEF Abs
<1>5. CASE a - q <= -1
  <2>1. Abs((a - q) * b) >= Abs(b)
    BY <1>2, <1>5, SMTT(30) DEF Abs
  <2> QED
    BY <1>1, <1>2, <1>3, <2>1 DEF Abs
<1>6. CASE a - q = 0
  BY <1>2, <1>6 DEF q
<1> QED
  BY <1>2, <1>4, <1>5, <1>6

\* A divisor of at least two halves the dividend.
LEMMA QuotientSmall ==
    ASSUME NEW h \in Nat \ {0}, NEW x \in Ints(h), NEW y \in Ints(h), Abs(y) >= 2
    PROVE  Quotient(x, y) \in Ints(h)
<1> DEFINE X == Abs(x)
           Y == Abs(y)
           q == X \div Y
<1>1. X \in Nat /\ X <= h /\ Y \in Nat /\ Y >= 2 /\ x \in Int /\ y \in Int /\ y # 0
  BY DEF Abs, Ints, MinValue, MaxValue
<1>2. q \in Nat /\ Y * q <= X
  <2> HIDE DEF X, Y
  <2> QED
    BY <1>1, SMTT(30)
<1>3. Quotient(x, y) \in Int /\ Abs(Quotient(x, y)) = q
  BY <1>1, QuotientRemainder
<1> HIDE DEF X, Y, q
<1>4. 2 * q <= Y * q
  BY <1>1, <1>2, SMTT(30)
<1>5. q < h
  <2>1. Y * q \in Nat
    BY <1>1, <1>2
  <2> QED
    BY <1>1, <1>2, <1>4, <2>1
<1> QED
  BY <1>2, <1>3, <1>5 DEF Abs, Ints, MinValue, MaxValue

\* Dividing the wrapped product again finds every overflow but the one of the
\* smallest integer and -1, which the test singles out.
LEMMA ProductExact ==
    ASSUME NEW h \in Nat \ {0}, NEW a \in Ints(h), NEW b \in Ints(h)
    PROVE  ProductOverflows(a, b, h) <=> a * b \notin Ints(h)
<1> DEFINE p == a * b
           r == Wrap(p, h)
<1>0. a \in Int /\ b \in Int /\ p \in Int /\ 0 \in Ints(h)
  BY DEF Ints, MinValue, MaxValue
<1>1. r \in Ints(h) /\ r \in Int
  BY <1>0, WrapType DEF Ints, MinValue, MaxValue
<1>2. CASE b = 0
  <2>1. a * b = 0
    BY <1>0, <1>2
  <2> QED
    BY <1>0, <1>2, <2>1 DEF ProductOverflows
<1>3. CASE b # 0 /\ a * b \in Ints(h)
  <2>1. r = p
    BY <1>0, <1>3, WrapNear, p - 0 * (2 * h) = p
  <2>2. Quotient(r, b) = a
    BY <1>0, <1>3, <2>1, QuotientOfProduct
  <2>3. Wrap(a, h) = a
    BY <1>0, WrapNear, a - 0 * (2 * h) = a
  <2>4. ~(b = -1 /\ a = MinValue(h))
    BY <1>3 DEF Ints, MinValue, MaxValue
  <2> QED
    BY <1>3, <2>2, <2>3, <2>4 DEF ProductOverflows, Quot
<1>4. CASE b # 0 /\ a * b \notin Ints(h)
  <2> SUFFICES ASSUME ~(b = -1 /\ a = MinValue(h)), Quot(r, b, h) = a
               PROVE  FALSE
    BY <1>4 DEF ProductOverflows
  <2>1. b # 1 /\ b # -1
    <3>1. CASE b = 1
      BY <1>0, <1>4, <3>1
    <3>2. CASE b = -1
      <4>1. a * b = -a
        BY <1>0, <3>2
      <4> QED
        BY <1>4, <3>2, <4>1 DEF Ints, MinValue, MaxValue
    <3> QED
      BY <3>1, <3>2
  <2>2. Abs(b) >= 2
    BY <1>0, <1>4, <2>1 DEF Abs
  <2>3. Quotient(r, b) \in Ints(h) /\ Quotient(r, b) \in Int
    BY <1>1, <2>2, QuotientSmall DEF Ints, MinValue, MaxValue
  <2>4. Quotient(r, b) = a
    BY <2>3, WrapNear, Quotient(r, b) - 0 * (2 * h) = Quotient(r, b) DEF Quot
  <2>5. Abs(r - p) < Abs(b) /\ Abs(b) <= h
    <3>1. Abs(b) <= h
      BY <1>0 DEF Abs, Ints, MinValue, MaxValue
    <3> HIDE DEF r
    <3>2. Abs(r - Quotient(r, b) * b) < Abs(b)
      BY <1>0, <1>1, <1>4, QuotientRemainder
    <3> QED
      BY <2>4, <3>1, <3>2
  <2>6. PICK k \in Int : p = r + k * (2 * h)
    BY <1>0, WrapPeriods
  <2>7. k # 0
    BY <1>1, <1>4, <2>6
  <2> HIDE DEF p, r
  <2>8. k * (2 * h) >= 2 * h \/ k * (2 * h) <= -(2 * h)
    <3>1. CASE k >= 1
      BY <3>1, SMTT(30)
    <3>2. CASE k <= -1
      BY <3>2, SMTT(30)
    <3> QED
      BY <2>7, <3>1, <3>2
  <2>9. Abs(r - p) >= 2 * h
    BY <1>0, <1>1, <2>6, <2>8 DEF Abs
  <2> QED
    BY <1>0, <1>1, <2>5, <2>9 DEF Abs
<1> QED
  BY <1>2, <1>3, <1>4

\* Only the smallest integer divided by -1 has a quotient out of bounds.
LEMMA QuotientExact ==
    ASSUME NEW h \in Nat \ {0}, NEW a \in Ints(h), NEW b \in Ints(h), b # 0
    PROVE  QuotientOverflows(a, b, h) <=> Quotient(a, b) \notin Ints(h)
<1>0. a \in Int /\ b \in Int /\ -a = a * (-1) /\ a * 1 = a
  BY DEF Ints, MinValue, MaxValue
<1>1. CASE b = 1
  <2>1. Quotient(a, b) = a
    BY <1>0, <1>1, QuotientOfProduct
  <2> QED
    BY <1>1, <2>1 DEF QuotientOverflows
<1>2. CASE b = -1
  <2>1. -a \in Int /\ (-a) * (-1) = a
    BY <1>0
  <2>2. Quotient((-a) * (-1), -1) = -a
    BY <2>1, QuotientOfProduct
  <2>3. Quotient(a, b) = -a
    BY <1>2, <2>1, <2>2
  <2> QED
    BY <1>2, <2>3 DEF QuotientOverflows, Ints, MinValue, MaxValue
<1>3. CASE b # 1 /\ b # -1
  <2>1. Abs(b) >= 2
    BY <1>0, <1>3 DEF Abs
  <2> QED
    BY <1>3, <2>1, QuotientSmall DEF QuotientOverflows
<1> QED
  BY <1>1, <1>2, <1>3

LEMMA ProductsNext == ProductsExact /\ [Next]_vars => ProductsExact'
<1> SUFFICES ASSUME ProductsExact, [Next]_vars PROVE ProductsExact'
  OBVIOUS
<1> USE DEF Sniff
<1>1. ASSUME NEW a \in Ints(IntHalf), NEW b \in Ints(IntHalf), IntOperation(a, b)
      PROVE  ProductsExact'
  <2>1. CASE IMUL(a, b)
    <3>1. /\ opcode' = "IMUL" /\ operands' = <<a, b>>
          /\ reacted' = ProductOverflows(a, b, IntHalf)
      BY <2>1 DEF IMUL
    <3>2. ProductOverflows(a, b, IntHalf) = (a * b \notin Ints(IntHalf))
      BY ProductExact, HalvesType DEF ProductOverflows
    <3> QED
      BY <3>1, <3>2 DEF ProductsExact
  <2>2. CASE IDIV(a, b) /\ b # 0
    <3>1. /\ opcode' = "IDIV" /\ operands' = <<a, b>>
          /\ reacted' = QuotientOverflows(a, b, IntHalf)
      BY <2>2 DEF IDIV
    <3>2. QuotientOverflows(a, b, IntHalf) = (Quotient(a, b) \notin Ints(IntHalf))
      BY <2>2, QuotientExact, HalvesType DEF QuotientOverflows
    <3> QED
      BY <3>1, <3>2 DEF ProductsExact
  <2>3. CASE IDIV(a, b) /\ b = 0
    BY <2>3 DEF IDIV, ProductsExact
  <2>4. CASE IADD(a, b) \/ IINC(a, b) \/ ISUB(a, b)
    BY <2>4 DEF IADD, IINC, ISUB, ProductsExact
  <2> QED
    BY <1>1, <2>1, <2>2, <2>3, <2>4 DEF IntOperation
<1>2. ASSUME NEW a \in Ints(LongHalf), NEW b \in Ints(LongHalf), LongOperation(a, b)
      PROVE  ProductsExact'
  <2>1. CASE LMUL(a, b)
    <3>1. /\ opcode' = "LMUL" /\ operands' = <<a, b>>
          /\ reacted' = ProductOverflows(a, b, LongHalf)
      BY <2>1 DEF LMUL
    <3>2. ProductOverflows(a, b, LongHalf) = (a * b \notin Ints(LongHalf))
      BY ProductExact, HalvesType DEF ProductOverflows
    <3> QED
      BY <3>1, <3>2 DEF ProductsExact
  <2>2. CASE LDIV(a, b) /\ b # 0
    <3>1. /\ opcode' = "LDIV" /\ operands' = <<a, b>>
          /\ reacted' = QuotientOverflows(a, b, LongHalf)
      BY <2>2 DEF LDIV
    <3>2. QuotientOverflows(a, b, LongHalf) = (Quotient(a, b) \notin Ints(LongHalf))
      BY <2>2, QuotientExact, HalvesType DEF QuotientOverflows
    <3> QED
      BY <3>1, <3>2 DEF ProductsExact
  <2>3. CASE LDIV(a, b) /\ b = 0
    BY <2>3 DEF LDIV, ProductsExact
  <2>4. CASE LADD(a, b) \/ LSUB(a, b)
    BY <2>4 DEF LADD, LSUB, ProductsExact
  <2> QED
    BY <1>2, <2>1, <2>2, <2>3, <2>4 DEF LongOperation
<1>3. ASSUME NEW a, IntCast(a) \/ LongCast(a) PROVE ProductsExact'
  BY <1>3 DEF IntCast, LongCast, INEG, I2S, I2C, I2B, I2F, LNEG, L2I, L2D, ProductsExact
<1>4. ASSUME NEW x, FloatCast(x) \/ DoubleCast(x) PROVE ProductsExact'
  BY <1>4 DEF FloatCast, DoubleCast, F2I, F2L, D2I, D2L, D2F, ProductsExact
<1>5. CASE Return
  BY <1>5 DEF Return, ProductsExact
<1>6. CASE UNCHANGED vars
  BY <1>6 DEF vars, ProductsExact
<1> QED
  BY <1>1, <1>2, <1>3, <1>4, <1>5, <1>6 DEF Next, Operation

\* For int and long types of any width, IMUL and LMUL, which divide the wrapped
\* product again, and IDIV and LDIV react exactly when the mathematical result is
\* out of bounds.
THEOREM ProductSniffersExact == Spec => []ProductsExact
<1>1. Init => ProductsExact
  BY DEF Init, ProductsExact
<1> QED
  BY <1>1, ProductsNext, PTL DEF Spec

-----------------------------------------------------------------------------
(* Rounding to so many binary digits.                                      *)

\* The exponent of a magnitude: how many of its low-order bits are cut off.
LEMMA ExponentExists ==
    ASSUME NEW m \in Nat, NEW d \in Nat
    PROVE  \E k \in 0 .. m : m < 2^(d + k) /\ \A j \in 0 .. k - 1 : m >= 2^(d + j)
<1> DEFINE Enough == {k \in Nat : m < 2^(d + k)}
<1>1. m \in Enough
  <2>1. d + m \in Nat
    OBVIOUS
  <2>2. 2^(d + m) \in Nat /\ 2^(d + m) > d + m
    BY <2>1, PowerExceeds
  <2> QED
    BY <2>2
<1>2. PICK k \in Enough : \A j \in Enough : k <= j
  <2> HIDE DEF Enough
  <2>1. Enough \in SUBSET Nat
    BY DEF Enough
  <2> QED
    BY <1>1, <2>1, LeastNumber
<1>3. k \in 0 .. m /\ m < 2^(d + k)
  <2>1. k <= m
    <3> HIDE DEF Enough
    <3> QED
      BY <1>1, <1>2
  <2> QED
    BY <2>1
<1>4. ASSUME NEW j \in 0 .. k - 1 PROVE m >= 2^(d + j)
  <2>1. j \in Nat /\ j \notin Enough
    BY <1>2
  <2>2. ~(m < 2^(d + j)) /\ 2^(d + j) \in Nat
    BY <2>1, PowerExceeds
  <2> QED
    BY <2>2
<1> QED
  BY <1>3, <1>4

\* What Round computes: the magnitude is q steps of 2^e and a rest t, and the
\* rounded one is s steps, the nearer number or the even one of two.
RoundedTo(x, d, e, q, t, s) ==
    /\ Abs(x) < 2^(d + e)
    /\ e >= 1 => Abs(x) >= 2^(d + (e - 1))
    /\ Abs(x) = q * 2^e + t
    /\ t < 2^e
    /\ s = IF 2 * t > 2^e \/ (2 * t = 2^e /\ q % 2 = 1) THEN q + 1 ELSE q
    /\ Round(x, d) = IF x < 0 THEN -(s * 2^e) ELSE s * 2^e

LEMMA Rounding ==
    ASSUME NEW x \in Int, NEW d \in Nat
    PROVE  \E e, q, t, s \in Nat : RoundedTo(x, d, e, q, t, s)
<1> DEFINE m == Abs(x)
           Fits(k) == m < 2^(d + k) /\ \A j \in 0 .. k - 1 : m >= 2^(d + j)
           e == CHOOSE k \in 0 .. m : Fits(k)
           q == m \div 2^e
           t == m % 2^e
           s == IF 2 * t > 2^e \/ (2 * t = 2^e /\ q % 2 = 1) THEN q + 1 ELSE q
<1>1. m \in Nat
  BY DEF Abs
<1>2. e \in 0 .. m /\ Fits(e)
  <2>1. \E k \in 0 .. m : Fits(k)
    BY <1>1, ExponentExists
  <2> HIDE DEF Fits
  <2> QED
    BY <2>1, Zenon
<1>3. e \in Nat /\ m < 2^(d + e)
  BY <1>1, <1>2
<1>4. e >= 1 => m >= 2^(d + (e - 1))
  <2> HIDE DEF e
  <2> QED
    BY <1>2, <1>3
<1>5. Round(x, d) = IF x < 0 THEN -(s * 2^e) ELSE s * 2^e
  BY DEF Round
<1> HIDE DEF e
<1>6. 2^e \in Nat /\ 2^e > 0
  BY <1>3, PowerExceeds
<1>7. q \in Nat /\ t \in Nat /\ t < 2^e /\ m = q * 2^e + t
  <2> DEFINE P == 2^e
  <2>1. P \in Nat /\ P > 0
    BY <1>6
  <2> HIDE DEF m, P
  <2>2. m \div P \in Int /\ m % P \in 0 .. P - 1 /\ m = P * (m \div P) + (m % P)
    BY <1>1, <2>1, Division
  <2>3. m \div P >= 0
    BY <1>1, <2>1, <2>2, SMTT(30)
  <2>4. P * (m \div P) = (m \div P) * P
    BY <2>1, <2>2
  <2> QED
    BY <2>1, <2>2, <2>3, <2>4 DEF P
<1>8. s \in Nat
  BY <1>7
<1> HIDE DEF m, q, t, s
<1>9. RoundedTo(x, d, e, q, t, s)
  BY <1>3, <1>4, <1>5, <1>7 DEF RoundedTo, m, s
<1> QED
  BY <1>3, <1>7, <1>8, <1>9

LEMMA RoundType ==
    ASSUME NEW x \in Int, NEW d \in Nat
    PROVE  /\ Round(x, d) \in Int
           /\ x >= 0 => Round(x, d) >= 0
           /\ x < 0 => Round(x, d) <= 0
<1>1. PICK e, q, t, s \in Nat : RoundedTo(x, d, e, q, t, s)
  BY Rounding
<1>2. 2^e \in Nat
  BY PowerExceeds
<1> DEFINE P == 2^e
<1>3. s * P \in Nat
  BY <1>2
<1>4. Round(x, d) = IF x < 0 THEN -(s * P) ELSE s * P
  BY <1>1 DEF RoundedTo
<1> QED
  BY <1>3, <1>4

\* The size of the rounded number, in the steps of the rounding.
LEMMA RoundSize ==
    ASSUME NEW x \in Int, NEW d \in Nat, NEW e \in Nat, NEW q \in Nat, NEW t \in Nat,
           NEW s \in Nat, RoundedTo(x, d, e, q, t, s)
    PROVE  /\ Abs(Round(x, d)) = s * 2^e
           /\ q * 2^e <= Abs(x)
           /\ s \in {q, q + 1}
           /\ t = 0 => s = q
           /\ q < 2^d /\ s <= 2^d
<1> DEFINE P == 2^e
           D == 2^d
<1>1. P \in Nat /\ P >= 1 /\ D \in Nat
  BY PowerExceeds
<1>2. s * P \in Nat /\ Round(x, d) = IF x < 0 THEN -(s * P) ELSE s * P
  BY <1>1 DEF RoundedTo
<1>3. Abs(Round(x, d)) = s * P
  BY <1>2 DEF Abs
<1>4. Abs(x) = q * P + t /\ q * P \in Nat
  BY <1>1 DEF RoundedTo
<1>5. s \in {q, q + 1} /\ (t = 0 => s = q)
  BY <1>1 DEF RoundedTo
<1>6. q * P < D * P
  <2>1. 2^(d + e) = D * P
    BY PowerSum
  <2> QED
    BY <1>1, <1>4, <2>1 DEF RoundedTo
<1> HIDE DEF P, D
<1>7. q < D
  <2> SUFFICES ASSUME q >= D PROVE FALSE
    BY <1>1
  <2>1. q * P >= D * P
    BY <1>1, SMTT(30)
  <2> QED
    BY <1>1, <1>4, <1>6, <2>1
<1> QED
  BY <1>1, <1>3, <1>4, <1>5, <1>7 DEF P, D

\* A number that fits is not changed.
LEMMA RoundSmall ==
    ASSUME NEW x \in Int, NEW d \in Nat, Abs(x) < 2^d
    PROVE  Round(x, d) = x
<1>1. PICK e, q, t, s \in Nat : RoundedTo(x, d, e, q, t, s)
  BY Rounding
<1>2. e = 0
  <2> SUFFICES ASSUME e >= 1 PROVE FALSE
    OBVIOUS
  <2>1. e - 1 \in Nat /\ d + (e - 1) \in Nat /\ d <= d + (e - 1)
    OBVIOUS
  <2>2. 2^d <= 2^(d + (e - 1)) /\ 2^d \in Nat /\ 2^(d + (e - 1)) \in Nat
    BY <2>1, PowerMonotone, PowerExceeds
  <2>3. Abs(x) >= 2^(d + (e - 1)) /\ Abs(x) \in Nat
    BY <1>1 DEF RoundedTo, Abs
  <2> QED
    BY <2>2, <2>3
<1>3. 2^e = 1
  BY <1>2, PowerZero
<1>4. t = 0 /\ Abs(x) = q
  BY <1>1, <1>3 DEF RoundedTo
<1>5. s = q
  BY <1>1, <1>4, RoundSize
<1> QED
  BY <1>1, <1>3, <1>4, <1>5 DEF RoundedTo, Abs

\* Which exponents a magnitude at most 2^k has.
LEMMA ExponentBelow ==
    ASSUME NEW x \in Int, NEW d \in Nat, NEW e \in Nat, NEW q \in Nat, NEW t \in Nat,
           NEW s \in Nat, RoundedTo(x, d, e, q, t, s), e >= 1,
           NEW k \in Nat, Abs(x) <= 2^k
    PROVE  d + e <= k + 1
<1> SUFFICES ASSUME d + e >= k + 2 PROVE FALSE
  OBVIOUS
<1>1. d + (e - 1) \in Nat /\ k + 1 \in Nat /\ k + 1 <= d + (e - 1)
  OBVIOUS
<1>2. 2^(k + 1) <= 2^(d + (e - 1)) /\ 2^(k + 1) = 2 * 2^k
  BY <1>1, PowerMonotone, PowerStep
<1>3. 2^k \in Nat /\ 2^k > 0 /\ 2^(d + (e - 1)) \in Nat
  BY <1>1, PowerExceeds
<1>4. Abs(x) >= 2^(d + (e - 1)) /\ Abs(x) \in Nat
  BY DEF RoundedTo, Abs
<1> QED
  BY <1>2, <1>3, <1>4

\* Rounding does not cross a power of two.
LEMMA RoundBounded ==
    ASSUME NEW x \in Int, NEW d \in Nat \ {0}, NEW k \in Nat, Abs(x) <= 2^k
    PROVE  Abs(Round(x, d)) <= 2^k
<1>1. PICK e, q, t, s \in Nat : RoundedTo(x, d, e, q, t, s)
  BY Rounding
<1>2. /\ 2^e \in Nat /\ 2^e >= 1 /\ 2^k \in Nat /\ 2^d \in Nat /\ Abs(x) \in Nat
  BY PowerExceeds DEF Abs
<1>3. CASE e = 0
  <2>1. 2^e = 1 /\ t = 0 /\ s = q /\ Abs(x) = q
    <3>1. 2^e = 1
      BY <1>3, PowerZero
    <3>2. t = 0 /\ Abs(x) = q
      BY <1>1, <3>1 DEF RoundedTo
    <3> QED
      BY <1>1, <3>1, <3>2, RoundSize
  <2>2. Abs(Round(x, d)) = s * 2^e
    BY <1>1, RoundSize
  <2> QED
    BY <2>1, <2>2
<1>4. CASE e >= 1 /\ d + e <= k
  <2>1. Abs(Round(x, d)) = s * 2^e /\ s <= 2^d
    BY <1>1, RoundSize
  <2>2. s * 2^e <= 2^d * 2^e
    BY <1>2, <2>1, SMTT(30)
  <2>3. 2^d * 2^e <= 2^k
    BY <1>4, PowerSum, PowerMonotone
  <2>4. s * 2^e \in Nat /\ 2^d * 2^e \in Nat
    BY <1>2
  <2> QED
    BY <1>2, <2>1, <2>2, <2>3, <2>4
<1>5. CASE e >= 1 /\ d + e = k + 1
  <2> DEFINE P == 2^e
             H == 2^(d - 1)
  <2>1. d - 1 \in Nat /\ (d - 1) + e = k /\ d + (e - 1) = k
    BY <1>5
  <2>2. 2^k = H * P /\ H \in Nat
    BY <2>1, PowerSum, PowerExceeds
  <2>3. Abs(x) = 2^k
    <3>1. Abs(x) >= 2^(d + (e - 1))
      BY <1>1, <1>5 DEF RoundedTo
    <3> QED
      BY <1>2, <2>1, <3>1
  <2>4. q * P + t = H * P /\ t < P /\ Abs(Round(x, d)) = s * P /\ (t = 0 => s = q)
    <3>1. Abs(x) = q * P + t /\ t < P
      BY <1>1 DEF RoundedTo
    <3>2. Abs(Round(x, d)) = s * P /\ (t = 0 => s = q)
      BY <1>1, RoundSize
    <3> HIDE DEF P, H
    <3> QED
      BY <2>2, <2>3, <3>1, <3>2
  <2> HIDE DEF P, H
  <2>5. P \in Nat /\ P >= 1
    BY <1>2 DEF P
  <2>6. q = H
    <3>1. (H - q) * P = t
      BY <2>2, <2>4, <2>5
    <3>2. CASE H - q >= 1
      BY <2>2, <2>4, <2>5, <3>1, <3>2, SMTT(30)
    <3>3. CASE H - q <= -1
      BY <2>2, <2>4, <2>5, <3>1, <3>3, SMTT(30)
    <3> QED
      BY <2>2, <3>2, <3>3
  <2>7. t = 0
    BY <2>2, <2>4, <2>5, <2>6
  <2> QED
    BY <1>2, <2>2, <2>4, <2>6, <2>7
<1> QED
  <2>1. e >= 1 => d + e <= k + 1
    BY <1>1, ExponentBelow
  <2> QED
    BY <1>3, <1>4, <1>5, <2>1

\* The largest integer of a width is either exact or rounded up to the power of
\* two above it.
LEMMA RoundLargest ==
    ASSUME NEW w \in Nat, NEW d \in Nat \ {0}
    PROVE  Round(2^w - 1, d) \in {2^w - 1, 2^w}
<1> DEFINE x == 2^w - 1
<1>1. 2^w \in Nat /\ 2^w >= 1 /\ x \in Nat /\ Abs(x) = x
  BY PowerExceeds DEF Abs
<1>2. CASE w <= d
  <2>1. 2^w <= 2^d /\ 2^d \in Nat
    BY <1>2, PowerMonotone, PowerExceeds
  <2>2. Round(x, d) = x
    BY <1>1, <2>1, RoundSmall
  <2> QED
    BY <2>2
<1>3. CASE w > d
  <2>0. x \in Int
    BY <1>1
  <2> HIDE DEF x
  <2>1. PICK e, q, t, s \in Nat : RoundedTo(x, d, e, q, t, s)
    BY <2>0, Rounding
  <2>2. w <= d + e
    <3> SUFFICES ASSUME d + e < w PROVE FALSE
      OBVIOUS
    <3>1. 2^(d + e + 1) <= 2^w /\ 2^(d + e + 1) = 2 * 2^(d + e)
      <4>1. d + e \in Nat /\ d + e + 1 \in Nat /\ d + e + 1 <= w
        OBVIOUS
      <4> QED
        BY <4>1, PowerMonotone, PowerStep
    <3>2. 2^(d + e) \in Nat /\ 2^(d + e) >= 1
      BY PowerExceeds
    <3> QED
      BY <1>1, <2>1, <3>1, <3>2 DEF RoundedTo, x
  <2>3. e >= 1 /\ d + e <= w + 1
    <3>1. e >= 1
      BY <1>3, <2>2
    <3> QED
      BY <1>1, <2>1, <3>1, ExponentBelow DEF x
  <2>4. d + e # w + 1
    <3> SUFFICES ASSUME d + e = w + 1 PROVE FALSE
      OBVIOUS
    <3>1. d + (e - 1) = w
      BY <2>3
    <3> QED
      BY <1>1, <2>1, <2>3, <3>1 DEF RoundedTo, x
  <2>5. d + e = w
    BY <2>2, <2>3, <2>4
  <2> DEFINE P == 2^e
             D == 2^d
  <2>6. 2^w = D * P /\ P \in Nat /\ D \in Nat
    BY <2>5, PowerSum, PowerExceeds
  <2>7. P >= 2 /\ D % 2 = 0 /\ D >= 2
    <3>1. 2^e = 2 * 2^(e - 1) /\ 2^(e - 1) \in Nat /\ 2^(e - 1) >= 1
      <4>1. e - 1 \in Nat /\ e = (e - 1) + 1
        BY <2>3
      <4> QED
        BY <4>1, PowerStep, PowerExceeds
    <3>2. 2^d = 2 * 2^(d - 1) /\ 2^(d - 1) \in Nat /\ 2^(d - 1) >= 1
      <4>1. d - 1 \in Nat /\ d = (d - 1) + 1
        OBVIOUS
      <4> QED
        BY <4>1, PowerStep, PowerExceeds
    <3> QED
      BY <3>1, <3>2
  <2>8. q * P + t = D * P - 1 /\ t < P
    BY <1>1, <2>1, <2>6 DEF RoundedTo, x
  <2>9. /\ s = IF 2 * t > P \/ (2 * t = P /\ q % 2 = 1) THEN q + 1 ELSE q
        /\ Round(x, d) = s * P
    BY <1>1, <2>1 DEF RoundedTo
  <2> HIDE DEF P, D
  <2>10. q = D - 1
    <3>1. (D - 1 - q) * P = t - (P - 1)
      BY <2>6, <2>8
    <3>2. CASE D - 1 - q >= 1
      BY <2>6, <2>7, <2>8, <3>1, <3>2, SMTT(30)
    <3>3. CASE D - 1 - q <= -1
      BY <2>6, <2>7, <2>8, <3>1, <3>3, SMTT(30)
    <3> QED
      BY <2>6, <3>2, <3>3
  <2>11. t = P - 1
    BY <2>6, <2>8, <2>10
  <2>12. s = D
    <3>1. q % 2 = 1
      BY <2>6, <2>7, <2>10
    <3> QED
      BY <2>6, <2>7, <2>9, <2>10, <2>11, <3>1
  <2> QED
    BY <2>6, <2>9, <2>12 DEF x
<1> QED
  BY <1>2, <1>3

\* Rounding does not leave the range of a floating point type.
LEMMA RoundWithinFloats ==
    ASSUME NEW x \in Int, NEW d \in Nat \ {0}, NEW E \in Nat \ {0},
           Abs(x) <= MaxFinite(d, E)
    PROVE  Abs(Round(x, d)) <= MaxFinite(d, E)
<1>1. PICK e, q, t, s \in Nat : RoundedTo(x, d, e, q, t, s)
  BY Rounding
<1> DEFINE P == 2^e
           D == 2^d
           M == (D - 1) * 2^E
<1>2. /\ P \in Nat /\ P >= 1 /\ D \in Nat /\ D >= 1 /\ 2^E \in Nat
      /\ 2^(d + E) = D * 2^E /\ D * 2^E \in Nat
  <2>1. /\ P \in Nat /\ P > e /\ D \in Nat /\ D > d /\ 2^E \in Nat
        /\ d + E \in Nat /\ 2^(d + E) \in Nat
    BY PowerExceeds
  <2>2. 2^(d + E) = D * 2^E
    BY PowerSum
  <2> QED
    BY <2>1, <2>2
<1>3. M \in Nat /\ M <= 2^(d + E) /\ Abs(x) <= M /\ Abs(x) \in Nat
  <2>1. Abs(x) <= M /\ Abs(x) \in Nat
    BY DEF Abs, MaxFinite
  <2>2. M \in Nat /\ M = D * 2^E - 2^E
    BY <1>2
  <2> QED
    BY <1>2, <2>1, <2>2
<1>4. /\ Abs(Round(x, d)) = s * P /\ q * P <= Abs(x) /\ s \in {q, q + 1}
      /\ (t = 0 => s = q) /\ s <= D /\ Abs(x) = q * P + t
  <2>1. Abs(x) = q * P + t
    BY <1>1 DEF RoundedTo
  <2>2. /\ Abs(Round(x, d)) = s * P /\ q * P <= Abs(x) /\ s \in {q, q + 1}
        /\ (t = 0 => s = q) /\ s <= D
    <3>1. RoundedTo(x, d, e, q, t, s) /\ d \in Nat /\ x \in Int
      BY <1>1
    <3> QED
      BY <3>1, RoundSize
  <2> QED
    BY <2>1, <2>2
<1>5. CASE e = 0
  <2>1. P = 1
    BY <1>5, PowerZero
  <2>2. t = 0
    BY <1>1, <2>1 DEF RoundedTo
  <2> HIDE DEF P, M
  <2>3. s * P = Abs(x)
    BY <1>4, <2>1, <2>2
  <2> QED
    BY <1>3, <1>4, <2>3 DEF M, MaxFinite
<1>6. CASE e >= 1 /\ e < E
  <2> DEFINE H == 2^(d - 1)
  <2>1. D = 2 * H /\ H \in Nat /\ H >= 1
    <3>1. d - 1 \in Nat /\ d = (d - 1) + 1
      OBVIOUS
    <3> QED
      BY <3>1, PowerStep, PowerExceeds
  <2>2. D * P <= H * 2^E
    <3>1. d + e <= (d - 1) + E /\ d - 1 \in Nat
      BY <1>6
    <3>2. 2^(d + e) <= 2^((d - 1) + E)
      BY <3>1, PowerMonotone
    <3> QED
      BY <3>1, <3>2, PowerSum
  <2> HIDE DEF P, D, H
  <2>3. s * P <= D * P
    BY <1>2, <1>4, SMTT(30)
  <2>4. H * 2^E <= (D - 1) * 2^E
    BY <1>2, <2>1, SMTT(30)
  <2>5. s * P \in Nat /\ D * P \in Nat /\ H * 2^E \in Nat /\ (D - 1) * 2^E \in Nat
    BY <1>2, <2>1
  <2> QED
    BY <1>4, <2>2, <2>3, <2>4, <2>5 DEF MaxFinite, D
<1>7. CASE e = E
  <2>1. M = (D - 1) * P
    BY <1>7
  <2>2. M = MaxFinite(d, E)
    BY DEF MaxFinite
  <2> HIDE DEF P, D, M
  <2>3. s <= D - 1
    <3>1. q * P + t <= (D - 1) * P
      BY <1>3, <1>4, <2>1
    <3>2. q <= D - 1
      <4> SUFFICES ASSUME q >= D PROVE FALSE
        BY <1>2
      <4>1. q * P >= D * P
        BY <1>2, SMTT(30)
      <4> QED
        BY <1>2, <3>1, <4>1
    <3>3. q = D - 1 => t = 0
      BY <1>2, <3>1
    <3> QED
      BY <1>2, <1>4, <3>2, <3>3
  <2>4. s * P <= (D - 1) * P
    BY <1>2, <2>3, SMTT(30)
  <2> QED
    BY <1>4, <2>1, <2>2, <2>4
<1>8. CASE e > E
  <2>1. d + e <= (d + E) + 1 /\ d + E \in Nat
    <3>1. d + E \in Nat /\ e >= 1 /\ Abs(x) <= 2^(d + E)
      BY <1>2, <1>3, <1>8
    <3> QED
      BY <1>1, <3>1, ExponentBelow
  <2>2. e = E + 1 /\ d + (e - 1) = d + E
    BY <1>8, <2>1
  <2>3. Abs(x) >= 2^(d + E)
    BY <1>1, <2>2 DEF RoundedTo
  <2>4. M < 2^(d + E)
    <3>1. M = D * 2^E - 2^E /\ 2^E >= 1
      BY <1>2, PowerExceeds
    <3> QED
      BY <1>2, <1>3, <3>1
  <2> QED
    BY <1>2, <1>3, <2>3, <2>4
<1> QED
  BY <1>5, <1>6, <1>7, <1>8

-----------------------------------------------------------------------------
(* Casts from floating point numbers to integers.                          *)

LEMMA WidthsType ==
    /\ \E w \in Nat : IntHalf = 2^w
    /\ \E w \in Nat : LongHalf = 2^w
    /\ IntHalf < 2^DoubleDigits
    /\ {FloatDigits, DoubleDigits, FloatExponent, DoubleExponent} \subseteq Nat \ {0}
  BY WidthsAssumption, HalvesType, DigitsAssumption

LEMMA FloatShape ==
    ASSUME NEW digits \in Nat, NEW exponent \in Nat, NEW x \in Floats(digits, exponent)
    PROVE  \/ x.kind = "finite" /\ x.twice \in Int /\ x = Finite(x.twice)
           \/ x \in {NaN, Infinity(1), Infinity(-1)}
<1>1. CASE x \in {Finite(v) : v \in Finites(digits, exponent)}
  <2>1. PICK v \in Finites(digits, exponent) : x = Finite(v)
    BY <1>1
  <2>2. PICK m \in (1 - 2^digits) .. (2^digits - 1), e \in 0 .. exponent : v = m * 2^e
    BY <2>1 DEF Finites
  <2>3. 2^digits \in Nat /\ 2^e \in Nat
    BY PowerExceeds
  <2>4. m \in Int
    BY <2>3
  <2>5. v \in Int
    BY <2>2, <2>3, <2>4
  <2> QED
    BY <2>1, <2>5 DEF Finite
<1> QED
  BY <1>1 DEF Floats

LEMMA TruncatedRange ==
    ASSUME NEW x, x.twice \in Int, NEW h \in Nat \ {0}
    PROVE  /\ x.twice \in -(2 * h) .. 2 * h - 1 => Truncated(x) \in Ints(h)
           /\ Truncated(x) \in Int
<1>1. CASE x.twice < 0
  <2> DEFINE y == -x.twice
  <2>1. y \in Nat /\ y \div 2 \in Nat /\ 2 * (y \div 2) <= y
    BY <1>1
  <2>2. Truncated(x) = -(y \div 2)
    BY <1>1 DEF Truncated
  <2> QED
    BY <2>1, <2>2 DEF Ints, MinValue, MaxValue
<1>2. CASE x.twice >= 0
  <2> DEFINE y == x.twice
  <2>1. y \in Nat /\ y \div 2 \in Nat /\ 2 * (y \div 2) <= y
    BY <1>2
  <2>2. Truncated(x) = y \div 2
    BY <1>2 DEF Truncated
  <2> QED
    BY <2>1, <2>2 DEF Ints, MinValue, MaxValue
<1> QED
  BY <1>1, <1>2

\* The promoted bounds of a type stay within its width.
LEMMA BoundsPromoted ==
    ASSUME NEW w \in Nat, NEW h, h = 2^w, NEW d \in Nat \ {0}
    PROVE  /\ h \in Nat \ {0}
           /\ Round(MinValue(h), d) \in Int /\ Round(MinValue(h), d) >= -h
           /\ Round(MaxValue(h), d) \in Int /\ Round(MaxValue(h), d) <= h
           /\ h < 2^d => /\ Round(MinValue(h), d) = -h
                         /\ Round(MaxValue(h), d) = h - 1
<1>1. h \in Nat \ {0}
  BY PowerExceeds
<1>2. /\ MinValue(h) \in Int /\ MaxValue(h) \in Int
      /\ Abs(MinValue(h)) = h /\ Abs(MaxValue(h)) = h - 1
  BY <1>1 DEF MinValue, MaxValue, Abs
<1>3. Abs(Round(MinValue(h), d)) <= h /\ Abs(Round(MaxValue(h), d)) <= h
  BY <1>1, <1>2, RoundBounded
<1>4. Round(MinValue(h), d) \in Int /\ Round(MaxValue(h), d) \in Int
  BY <1>2, RoundType
<1>5. h < 2^d => Round(MinValue(h), d) = MinValue(h) /\ Round(MaxValue(h), d) = MaxValue(h)
  <2>1. 2^d \in Nat
    BY PowerExceeds
  <2> QED
    BY <1>1, <1>2, <2>1, RoundSmall
<1> QED
  BY <1>1, <1>3, <1>4, <1>5 DEF Abs, MinValue, MaxValue

LEMMA SaturationEscapes ==
    ASSUME NEW w \in Nat, NEW h, h = 2^w, NEW d \in Nat \ {0},
           NEW x, \/ x.kind = "finite" /\ x.twice \in Int /\ x = Finite(x.twice)
                  \/ x \in {NaN, Infinity(1), Infinity(-1)}
    PROVE  /\ Saturates(x, h) => OutOfBounds(x, h, d) \/ x = Finite(2 * h)
           /\ h < 2^d => /\ Saturates(x, h) => OutOfBounds(x, h, d)
                         /\ OutOfBounds(x, h, d) =>
                                \/ x.kind # "finite"
                                \/ x.twice \notin 2 * MinValue(h) .. 2 * MaxValue(h)
<1> DEFINE low == Round(MinValue(h), d)
           high == Round(MaxValue(h), d)
<1>1. /\ h \in Nat \ {0} /\ low \in Int /\ low >= -h /\ high \in Int /\ high <= h
      /\ h < 2^d => low = -h /\ high = h - 1
  BY BoundsPromoted
<1>2. OutOfBounds(x, h, d) <=>
          ~ /\ (x.kind = "finite" /\ x.twice >= 2 * low) \/ x = Infinity(1)
            /\ (x.kind = "finite" /\ x.twice <= 2 * high) \/ x = Infinity(-1)
  BY DEF OutOfBounds, AtLeast, AtMost
<1> HIDE DEF low, high
<1>3. CASE x \in {NaN, Infinity(1), Infinity(-1)}
  <2>1. NaN.kind = "NaN" /\ Infinity(1).kind = "infinite" /\ Infinity(-1).kind = "infinite"
    BY DEF NaN, Infinity
  <2>2. Infinity(1).twice = 1 /\ Infinity(-1).twice = -1
    BY DEF Infinity
  <2>3. x.kind # "finite"
    BY <1>3, <2>1
  <2>4. x # Infinity(1) \/ x # Infinity(-1)
    BY <2>2
  <2> QED
    BY <1>2, <2>3, <2>4
<1>4. CASE x.kind = "finite" /\ x.twice \in Int /\ x = Finite(x.twice)
  <2> DEFINE y == x.twice
  <2>1. Infinity(1).kind = "infinite" /\ Infinity(-1).kind = "infinite"
    BY DEF Infinity
  <2>2. x # Infinity(1) /\ x # Infinity(-1)
    BY <1>4, <2>1
  <2>3. OutOfBounds(x, h, d) <=> ~(y >= 2 * low /\ y <= 2 * high)
    BY <1>2, <1>4, <2>2
  <2>4. Saturates(x, h) => y \notin -(2 * h) .. 2 * h - 1
    BY <1>1, <1>4, TruncatedRange DEF Saturates
  <2>5. y = 2 * h => x = Finite(2 * h)
    BY <1>4
  <2> HIDE DEF y
  <2>6. y \in Int
    BY <1>4 DEF y
  <2>7. Saturates(x, h) => OutOfBounds(x, h, d) \/ x = Finite(2 * h)
    BY <1>1, <2>3, <2>4, <2>5, <2>6
  <2>8. ASSUME h < 2^d PROVE Saturates(x, h) => OutOfBounds(x, h, d)
    BY <1>1, <2>3, <2>4, <2>6, <2>8
  <2>9. ASSUME h < 2^d
        PROVE  OutOfBounds(x, h, d) => y \notin 2 * MinValue(h) .. 2 * MaxValue(h)
    BY <1>1, <2>3, <2>6, <2>9 DEF MinValue, MaxValue
  <2> QED
    BY <2>7, <2>8, <2>9 DEF y
<1> QED
  BY <1>3, <1>4

LEMMA SaturationNext == SaturationDetected /\ [Next]_vars => SaturationDetected'
<1> SUFFICES ASSUME SaturationDetected, [Next]_vars PROVE SaturationDetected'
  OBVIOUS
<1> USE DEF Sniff
<1>1. ASSUME NEW x \in Floats(FloatDigits, FloatExponent), FloatCast(x)
      PROVE  SaturationDetected'
  <2>1. \/ x.kind = "finite" /\ x.twice \in Int /\ x = Finite(x.twice)
        \/ x \in {NaN, Infinity(1), Infinity(-1)}
    BY FloatShape, WidthsType
  <2>2. CASE F2I(x)
    <3>1. /\ opcode' = "F2I" /\ operands' = <<x>>
          /\ reacted' = OutOfBounds(x, IntHalf, FloatDigits)
      BY <2>2 DEF F2I
    <3>2. Saturates(x, IntHalf) => OutOfBounds(x, IntHalf, FloatDigits) \/ x = Finite(2 * IntHalf)
      BY <2>1, SaturationEscapes, WidthsType
    <3> QED
      BY <3>1, <3>2 DEF SaturationDetected
  <2>3. CASE F2L(x)
    <3>1. /\ opcode' = "F2L" /\ operands' = <<x>>
          /\ reacted' = OutOfBounds(x, LongHalf, FloatDigits)
      BY <2>3 DEF F2L
    <3>2. Saturates(x, LongHalf) => OutOfBounds(x, LongHalf, FloatDigits) \/ x = Finite(2 * LongHalf)
      BY <2>1, SaturationEscapes, WidthsType
    <3> QED
      BY <3>1, <3>2 DEF SaturationDetected
  <2> QED
    BY <1>1, <2>2, <2>3 DEF FloatCast
<1>2. ASSUME NEW x \in Floats(DoubleDigits, DoubleExponent), DoubleCast(x)
      PROVE  SaturationDetected'
  <2>1. \/ x.kind = "finite" /\ x.twice \in Int /\ x = Finite(x.twice)
        \/ x \in {NaN, Infinity(1), Infinity(-1)}
    BY FloatShape, WidthsType
  <2>2. CASE D2I(x)
    <3>1. /\ opcode' = "D2I" /\ operands' = <<x>>
          /\ reacted' = OutOfBounds(x, IntHalf, DoubleDigits)
      BY <2>2 DEF D2I
    <3>2. /\ Saturates(x, IntHalf) => OutOfBounds(x, IntHalf, DoubleDigits)
          /\ OutOfBounds(x, IntHalf, DoubleDigits) =>
                 \/ x.kind # "finite"
                 \/ x.twice \notin 2 * MinValue(IntHalf) .. 2 * MaxValue(IntHalf)
      BY <2>1, SaturationEscapes, WidthsType
    <3> QED
      BY <3>1, <3>2 DEF SaturationDetected
  <2>3. CASE D2L(x)
    <3>1. /\ opcode' = "D2L" /\ operands' = <<x>>
          /\ reacted' = OutOfBounds(x, LongHalf, DoubleDigits)
      BY <2>3 DEF D2L
    <3>2. Saturates(x, LongHalf) => OutOfBounds(x, LongHalf, DoubleDigits) \/ x = Finite(2 * LongHalf)
      BY <2>1, SaturationEscapes, WidthsType
    <3> QED
      BY <3>1, <3>2 DEF SaturationDetected
  <2>4. CASE D2F(x)
    BY <2>4 DEF D2F, SaturationDetected
  <2> QED
    BY <1>2, <2>2, <2>3, <2>4 DEF DoubleCast
<1>3. ASSUME NEW a, NEW b, IntOperation(a, b) \/ LongOperation(a, b)
      PROVE  SaturationDetected'
  BY <1>3 DEF IntOperation, LongOperation, IADD, IINC, ISUB, IMUL, IDIV, LADD, LSUB,
              LMUL, LDIV, SaturationDetected
<1>4. ASSUME NEW a, IntCast(a) \/ LongCast(a) PROVE SaturationDetected'
  BY <1>4 DEF IntCast, LongCast, INEG, I2S, I2C, I2B, I2F, LNEG, L2I, L2D, SaturationDetected
<1>5. CASE Return
  BY <1>5 DEF Return, SaturationDetected
<1>6. CASE UNCHANGED vars
  BY <1>6 DEF vars, SaturationDetected
<1> QED
  BY <1>1, <1>2, <1>3, <1>4, <1>5, <1>6 DEF Next, Operation

\* For types of any width and precision, a cast from a floating point number to
\* an integer that saturates is noticed, except at the one value next above the
\* bound; and D2I, whose bounds a double holds exactly, raises no false alarm.
THEOREM SaturationSniffersRight == Spec => []SaturationDetected
<1>1. Init => SaturationDetected
  BY DEF Init, SaturationDetected
<1> QED
  BY <1>1, SaturationNext, PTL DEF Spec

-----------------------------------------------------------------------------
(* Casts to floating point numbers.                                        *)

LEMMA ToIntOfRounded ==
    ASSUME NEW h \in Nat \ {0}, NEW r \in -h .. h
    PROVE  ToInt(Finite(2 * r), h) = IF r = h THEN h - 1 ELSE r
<1> DEFINE x == Finite(2 * r)
<1>1. x.kind = "finite" /\ x.twice = 2 * r
  BY DEF Finite
<1>2. Truncated(x) = r
  <2>1. CASE r < 0
    BY <1>1, <2>1 DEF Truncated
  <2>2. CASE r >= 0
    BY <1>1, <2>2 DEF Truncated
  <2> QED
    BY <2>1, <2>2
<1> HIDE DEF x
<1>3. ToInt(x, h) = IF r > MaxValue(h) THEN MaxValue(h)
                    ELSE IF r < MinValue(h) THEN MinValue(h) ELSE r
  BY <1>1, <1>2 DEF ToInt
<1> QED
  BY <1>3 DEF x, MaxValue, MinValue

\* The round trip finds every loss but the one of the largest integer.
LEMMA RoundTripExact ==
    ASSUME NEW w \in Nat, NEW h, h = 2^w, NEW d \in Nat \ {0}, NEW a \in Ints(h)
    PROVE  ~RoundTrips(a, h, d) <=>
               Finite(2 * Round(a, d)) # Finite(2 * a) /\ a # MaxValue(h)
<1> DEFINE r == Round(a, d)
<1>1. h \in Nat \ {0}
  BY PowerExceeds
<1>2. a \in Int /\ a >= -h /\ a < h /\ Abs(a) <= h
  BY <1>1 DEF Ints, MinValue, MaxValue, Abs
<1>3. r \in -h .. h
  <2>1. Abs(r) <= h /\ r \in Int
    BY <1>2, RoundBounded, RoundType
  <2> HIDE DEF r
  <2> QED
    BY <1>1, <2>1 DEF Abs
<1>4. a = h - 1 => r \in {h - 1, h}
  <2>1. a = h - 1 => a = 2^w - 1
    OBVIOUS
  <2> QED
    BY <2>1, RoundLargest
<1>5. Finite(2 * r) # Finite(2 * a) <=> r # a
  <2> HIDE DEF r
  <2>1. Finite(2 * r).twice = 2 * r /\ Finite(2 * a).twice = 2 * a
    BY DEF Finite
  <2> QED
    BY <1>1, <1>2, <1>3, <2>1
<1>6. RoundTrips(a, h, d) <=> (IF r = h THEN h - 1 ELSE r) = a
  BY <1>1, <1>3, ToIntOfRounded DEF RoundTrips
<1> HIDE DEF r
<1>7. ~RoundTrips(a, h, d) <=> r # a /\ a # h - 1
  BY <1>1, <1>2, <1>3, <1>4, <1>6
<1> QED
  BY <1>5, <1>7 DEF r, MaxValue

\* A double within the range of the floats does not become infinite.
LEMMA InfiniteNoticed ==
    ASSUME NEW x, x.kind = "finite", x.twice \in Int, ToFloat(x).kind = "infinite"
    PROVE  Abs(x.twice) > MaxFinite(FloatDigits, FloatExponent)
<1> DEFINE top == MaxFinite(FloatDigits, FloatExponent)
           v == Round(x.twice, FloatDigits)
<1>1. FloatDigits \in Nat \ {0} /\ FloatExponent \in Nat \ {0}
  BY WidthsType
<1>2. top \in Int /\ v \in Int /\ Abs(x.twice) \in Int
  <2>1. 2^FloatDigits \in Nat /\ 2^FloatExponent \in Nat
    BY <1>1, PowerExceeds
  <2>2. top \in Int
    BY <2>1 DEF MaxFinite
  <2>3. v \in Int /\ Abs(x.twice) \in Int
    BY <1>1, RoundType DEF Abs
  <2> HIDE DEF top, v
  <2> QED
    BY <2>2, <2>3
<1>3. v > top \/ -v > top
  <2>1. Finite(v).kind = "finite"
    BY DEF Finite
  <2> QED
    BY <2>1 DEF ToFloat
<1>4. Abs(x.twice) <= top => Abs(v) <= top
  BY <1>1, RoundWithinFloats
<1> HIDE DEF top, v
<1>5. Abs(v) > top
  BY <1>2, <1>3 DEF Abs
<1>6. Abs(v) \in Int
  BY <1>2 DEF Abs
<1> QED
  BY <1>2, <1>4, <1>5, <1>6 DEF top

LEMMA PrecisionNext == PrecisionLossDetected /\ [Next]_vars => PrecisionLossDetected'
<1> SUFFICES ASSUME PrecisionLossDetected, [Next]_vars PROVE PrecisionLossDetected'
  OBVIOUS
<1> USE DEF Sniff
<1>1. ASSUME NEW a \in Ints(IntHalf), IntCast(a) PROVE PrecisionLossDetected'
  <2>1. CASE I2F(a)
    <3>1. /\ opcode' = "I2F" /\ operands' = <<a>>
          /\ result' = Finite(2 * Round(a, FloatDigits))
          /\ reacted' = ~RoundTrips(a, IntHalf, FloatDigits)
      BY <2>1 DEF I2F
    <3>2. PICK w \in Nat : IntHalf = 2^w
      BY WidthsType
    <3>3. ~RoundTrips(a, IntHalf, FloatDigits) <=>
              Finite(2 * Round(a, FloatDigits)) # Finite(2 * a) /\ a # MaxValue(IntHalf)
      BY <3>2, RoundTripExact, WidthsType
    <3>4. reacted' <=> result' # Finite(2 * a) /\ a # MaxValue(IntHalf)
      BY <3>1, <3>3, Zenon
    <3> QED
      BY <3>1, <3>4 DEF PrecisionLossDetected, Lossy
  <2>2. CASE INEG(a) \/ I2S(a) \/ I2C(a) \/ I2B(a)
    BY <2>2 DEF INEG, I2S, I2C, I2B, PrecisionLossDetected
  <2> QED
    BY <1>1, <2>1, <2>2 DEF IntCast
<1>2. ASSUME NEW a \in Ints(LongHalf), LongCast(a) PROVE PrecisionLossDetected'
  <2>1. CASE L2D(a)
    <3>1. /\ opcode' = "L2D" /\ operands' = <<a>>
          /\ result' = Finite(2 * Round(a, DoubleDigits))
          /\ reacted' = ~RoundTrips(a, LongHalf, DoubleDigits)
      BY <2>1 DEF L2D
    <3>2. PICK w \in Nat : LongHalf = 2^w
      BY WidthsType
    <3>3. ~RoundTrips(a, LongHalf, DoubleDigits) <=>
              Finite(2 * Round(a, DoubleDigits)) # Finite(2 * a) /\ a # MaxValue(LongHalf)
      BY <3>2, RoundTripExact, WidthsType
    <3>4. reacted' <=> result' # Finite(2 * a) /\ a # MaxValue(LongHalf)
      BY <3>1, <3>3, Zenon
    <3> QED
      BY <3>1, <3>4 DEF PrecisionLossDetected, Lossy
  <2>2. CASE LNEG(a) \/ L2I(a)
    BY <2>2 DEF LNEG, L2I, PrecisionLossDetected
  <2> QED
    BY <1>2, <2>1, <2>2 DEF LongCast
<1>3. ASSUME NEW x \in Floats(DoubleDigits, DoubleExponent), DoubleCast(x)
      PROVE  PrecisionLossDetected'
  <2>1. CASE D2F(x)
    <3>1. x.kind = "finite" => x.twice \in Int
      <4>1. NaN.kind # "finite" /\ Infinity(1).kind # "finite" /\ Infinity(-1).kind # "finite"
        BY DEF NaN, Infinity
      <4> QED
        BY <4>1, FloatShape, WidthsType
    <3>2. /\ opcode' = "D2F" /\ operands' = <<x>> /\ result' = ToFloat(x)
          /\ x.kind = "finite" /\ Abs(x.twice) > MaxFinite(FloatDigits, FloatExponent) => reacted'
      BY <2>1 DEF D2F
    <3>3. x.kind = "finite" /\ ToFloat(x).kind = "infinite" =>
              Abs(x.twice) > MaxFinite(FloatDigits, FloatExponent)
      BY <3>1, InfiniteNoticed
    <3> QED
      BY <3>2, <3>3 DEF PrecisionLossDetected
  <2>2. CASE D2I(x) \/ D2L(x)
    BY <2>2 DEF D2I, D2L, PrecisionLossDetected
  <2> QED
    BY <1>3, <2>1, <2>2 DEF DoubleCast
<1>4. ASSUME NEW x, FloatCast(x) PROVE PrecisionLossDetected'
  BY <1>4 DEF FloatCast, F2I, F2L, PrecisionLossDetected
<1>5. ASSUME NEW a, NEW b, IntOperation(a, b) \/ LongOperation(a, b)
      PROVE  PrecisionLossDetected'
  BY <1>5 DEF IntOperation, LongOperation, IADD, IINC, ISUB, IMUL, IDIV, LADD, LSUB,
              LMUL, LDIV, PrecisionLossDetected
<1>6. CASE Return
  BY <1>6 DEF Return, PrecisionLossDetected
<1>7. CASE UNCHANGED vars
  BY <1>7 DEF vars, PrecisionLossDetected, Lossy
<1> QED
  BY <1>1, <1>2, <1>3, <1>4, <1>5, <1>6, <1>7 DEF Next, Operation

\* For types of any width and precision, a double too large for a float is
\* always noticed, and the round trips of I2F and L2D find every loss of
\* precision but, perhaps, the one of the largest integer, and nothing exact.
THEOREM PrecisionSniffersRight == Spec => []PrecisionLossDetected
<1>1. Init => PrecisionLossDetected
  BY DEF Init, PrecisionLossDetected
<1> QED
  BY <1>1, PrecisionNext, PTL DEF Spec

=============================================================================
