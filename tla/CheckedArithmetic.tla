------------------------- MODULE CheckedArithmetic -------------------------
(***************************************************************************)
(* The integer and typecasting sniffers: CheckedIntBehaviour,              *)
(* CheckedLongBehaviour and CheckedCastBehaviour.  Each one computes what  *)
(* the bytecode instruction computes and reacts when the result is         *)
(* suspicious.                                                             *)
(*                                                                         *)
(* A signed type of half-range h holds -h .. h-1: h is 2^31 for int, 2^63  *)
(* for long.  A floating point type has so many significant binary digits: *)
(* 24 for float, 53 for double.                                            *)
(***************************************************************************)
EXTENDS Integers

CONSTANTS
    ByteHalf, ShortHalf, IntHalf, LongHalf,   \* half-ranges
    FloatDigits, DoubleDigits,                \* significant binary digits
    FloatExponent, DoubleExponent             \* bounds on the exponents

ASSUME HalvesAssumption ==
    {ByteHalf, ShortHalf, IntHalf, LongHalf} \subseteq Nat \ {0}

ASSUME DigitsAssumption ==
    {FloatDigits, DoubleDigits, FloatExponent, DoubleExponent} \subseteq Nat \ {0}

\* An int or a long fills its bits (2^31, 2^63), and a double holds every int.
ASSUME WidthsAssumption ==
    /\ \A h \in {IntHalf, LongHalf} : \E w \in 0 .. h : h = 2^w
    /\ IntHalf < 2^DoubleDigits

VARIABLES
    opcode,     \* the sniffer that has just returned, "none" in between
    operands,   \* what it was called with
    result,     \* what it returns
    reacted     \* has it called Reactions.react?

vars == <<opcode, operands, result, reacted>>

-----------------------------------------------------------------------------
(* Two's complement integers.                                              *)

MinValue(h) == -h
MaxValue(h) == h - 1
Ints(h) == MinValue(h) .. MaxValue(h)

\* The low-order bits of an exact result, read as a signed number.
Wrap(x, h) == ((x + h) % (2 * h)) - h

\* Is the sign bit of the exclusive or of x and y set?
SignsDiffer(x, y) == (x < 0) # (y < 0)

Abs(x) == IF x < 0 THEN -x ELSE x

\* Java's quotient, rounded towards zero.
Quotient(x, y) ==
    IF SignsDiffer(x, y) THEN -(Abs(x) \div Abs(y)) ELSE Abs(x) \div Abs(y)

Quot(x, y, h) == Wrap(Quotient(x, y), h)

-----------------------------------------------------------------------------
(* Floating point numbers, in halves: [kind, twice] with value twice / 2.  *)

Finite(v) == [kind |-> "finite", twice |-> v]
NaN == [kind |-> "NaN", twice |-> 0]
Infinity(sign) == [kind |-> "infinite", twice |-> sign]

Finites(digits, exponent) ==
    {m * 2^e : m \in (1 - 2^digits) .. (2^digits - 1), e \in 0 .. exponent}

Floats(digits, exponent) ==
    {Finite(v) : v \in Finites(digits, exponent)} \cup {NaN, Infinity(1), Infinity(-1)}

MaxFinite(digits, exponent) == (2^digits - 1) * 2^exponent

\* An integer rounded to so many digits: to nearest, ties to even.
Round(x, digits) ==
    LET m == Abs(x)
        e == CHOOSE k \in 0 .. m : m < 2^(digits + k) /\ \A j \in 0 .. k - 1 : m >= 2^(digits + j)
        q == m \div 2^e
        r == 2 * (m % 2^e)
        up == r > 2^e \/ (r = 2^e /\ q % 2 = 1)
        s == (IF up THEN q + 1 ELSE q) * 2^e
    IN  IF x < 0 THEN -s ELSE s

\* x >= y and x <= y with an integer y promoted to the type of x.
AtLeast(x, y, digits) ==
    \/ x.kind = "finite" /\ x.twice >= 2 * Round(y, digits)
    \/ x = Infinity(1)

AtMost(x, y, digits) ==
    \/ x.kind = "finite" /\ x.twice <= 2 * Round(y, digits)
    \/ x = Infinity(-1)

Truncated(x) == IF x.twice < 0 THEN -((-x.twice) \div 2) ELSE x.twice \div 2

\* Java's conversion to an integer type: 0 for NaN, saturating.
ToInt(x, h) ==
    CASE x.kind = "NaN" -> 0
      [] x.kind = "infinite" -> IF x.twice > 0 THEN MaxValue(h) ELSE MinValue(h)
      [] x.kind = "finite" -> IF Truncated(x) > MaxValue(h) THEN MaxValue(h)
                              ELSE IF Truncated(x) < MinValue(h) THEN MinValue(h)
                              ELSE Truncated(x)

-----------------------------------------------------------------------------

Init == opcode = "none" /\ operands = <<>> /\ result = 0 /\ reacted = FALSE

\* The sniffer op is called with args, returns r, and has reacted or not.
Sniff(op, args, r, suspicious) ==
    /\ opcode = "none"
    /\ opcode' = op
    /\ operands' = args
    /\ result' = r
    /\ reacted' = suspicious

\* ((a ^ r) & (b ^ r)) < 0, and the same with the operands of a difference.
SumOverflows(a, b, r) == SignsDiffer(a, r) /\ SignsDiffer(b, r)
DifferenceOverflows(a, b, r) == SignsDiffer(a, b) /\ SignsDiffer(a, r)

\* Fault: the special case b = -1 is forgotten.
ProductOverflowsPlain(a, b, h) == b # 0 /\ Quot(Wrap(a * b, h), b, h) # a

ProductOverflows(a, b, h) ==
    /\ b # 0
    /\ (b = -1 /\ a = MinValue(h)) \/ Quot(Wrap(a * b, h), b, h) # a

QuotientOverflows(a, b, h) == a = MinValue(h) /\ b = -1

IADD(a, b) ==
    LET r == Wrap(a + b, IntHalf) IN Sniff("IADD", <<a, b>>, r, SumOverflows(a, b, r))

IINC(a, b) ==
    LET r == Wrap(a + b, IntHalf) IN Sniff("IINC", <<a, b>>, r, SumOverflows(a, b, r))

\* Fault: the test of the sum for the difference.
ISUBAsSum(a, b) ==
    LET r == Wrap(a - b, IntHalf) IN Sniff("ISUB", <<a, b>>, r, SumOverflows(a, b, r))

ISUB(a, b) ==
    LET r == Wrap(a - b, IntHalf) IN Sniff("ISUB", <<a, b>>, r, DifferenceOverflows(a, b, r))

IMUL(a, b) == Sniff("IMUL", <<a, b>>, Wrap(a * b, IntHalf), ProductOverflows(a, b, IntHalf))

\* A division by zero throws before the test.
IDIV(a, b) ==
    IF b = 0 THEN Sniff("throw", <<a, b>>, 0, FALSE)
    ELSE Sniff("IDIV", <<a, b>>, Quot(a, b, IntHalf), QuotientOverflows(a, b, IntHalf))

INEG(a) == Sniff("INEG", <<a>>, Wrap(-a, IntHalf), a = MinValue(IntHalf))

LADD(a, b) ==
    LET r == Wrap(a + b, LongHalf) IN Sniff("LADD", <<a, b>>, r, SumOverflows(a, b, r))

LSUB(a, b) ==
    LET r == Wrap(a - b, LongHalf) IN Sniff("LSUB", <<a, b>>, r, DifferenceOverflows(a, b, r))

LMUL(a, b) == Sniff("LMUL", <<a, b>>, Wrap(a * b, LongHalf), ProductOverflows(a, b, LongHalf))

LDIV(a, b) ==
    IF b = 0 THEN Sniff("throw", <<a, b>>, 0, FALSE)
    ELSE Sniff("LDIV", <<a, b>>, Quot(a, b, LongHalf), QuotientOverflows(a, b, LongHalf))

LNEG(a) == Sniff("LNEG", <<a>>, Wrap(-a, LongHalf), a = MinValue(LongHalf))

-----------------------------------------------------------------------------
(* Typecasts.                                                              *)

L2I(a) == Sniff("L2I", <<a>>, Wrap(a, IntHalf), a < MinValue(IntHalf) \/ a > MaxValue(IntHalf))

I2S(a) == Sniff("I2S", <<a>>, Wrap(a, ShortHalf), a < MinValue(ShortHalf) \/ a > MaxValue(ShortHalf))

\* Fault: a char taken for a signed type.
I2CSigned(a) ==
    Sniff("I2C", <<a>>, a % (2 * ShortHalf), a < MinValue(ShortHalf) \/ a > MaxValue(ShortHalf))

\* A char is unsigned.
I2C(a) == Sniff("I2C", <<a>>, a % (2 * ShortHalf), a < 0 \/ a > 2 * ShortHalf - 1)

I2B(a) == Sniff("I2B", <<a>>, Wrap(a, ByteHalf), a < MinValue(ByteHalf) \/ a > MaxValue(ByteHalf))

\* The bounds are promoted to the floating point type before the comparison.
OutOfBounds(x, h, digits) ==
    ~(AtLeast(x, MinValue(h), digits) /\ AtMost(x, MaxValue(h), digits))

D2I(x) == Sniff("D2I", <<x>>, ToInt(x, IntHalf), OutOfBounds(x, IntHalf, DoubleDigits))

\* Fault: only the upper bound is tested.
D2LUpperBoundOnly(x) ==
    Sniff("D2L", <<x>>, ToInt(x, LongHalf), ~AtMost(x, MaxValue(LongHalf), DoubleDigits))

D2L(x) == Sniff("D2L", <<x>>, ToInt(x, LongHalf), OutOfBounds(x, LongHalf, DoubleDigits))

F2I(x) == Sniff("F2I", <<x>>, ToInt(x, IntHalf), OutOfBounds(x, IntHalf, FloatDigits))

F2L(x) == Sniff("F2L", <<x>>, ToInt(x, LongHalf), OutOfBounds(x, LongHalf, FloatDigits))

\* (float) x of a double x.
ToFloat(x) ==
    IF x.kind # "finite" THEN x
    ELSE LET v == Round(x.twice, FloatDigits)
         IN  IF v > MaxFinite(FloatDigits, FloatExponent) THEN Infinity(1)
             ELSE IF -v > MaxFinite(FloatDigits, FloatExponent) THEN Infinity(-1)
             ELSE Finite(v)

\* Fault: only the positive side is tested.
D2FPositiveOnly(x) ==
    Sniff("D2F", <<x>>, ToFloat(x),
          \/ x = Infinity(1)
          \/ x.kind = "finite" /\ x.twice > MaxFinite(FloatDigits, FloatExponent))

\* Beyond the largest float, an infinite operand included.
D2F(x) ==
    Sniff("D2F", <<x>>, ToFloat(x),
          \/ x.kind = "infinite"
          \/ x.kind = "finite" /\ Abs(x.twice) > MaxFinite(FloatDigits, FloatExponent))

\* Does a survive the conversion to so many digits and back?
RoundTrips(a, h, digits) == ToInt(Finite(2 * Round(a, digits)), h) = a

I2F(a) == Sniff("I2F", <<a>>, Finite(2 * Round(a, FloatDigits)), ~RoundTrips(a, IntHalf, FloatDigits))

L2D(a) == Sniff("L2D", <<a>>, Finite(2 * Round(a, DoubleDigits)), ~RoundTrips(a, LongHalf, DoubleDigits))

-----------------------------------------------------------------------------

\* The instrumented program goes on.
Return == opcode # "none" /\ opcode' = "none" /\ operands' = <<>> /\ result' = 0 /\ reacted' = FALSE

IntOperation(a, b) == IADD(a, b) \/ IINC(a, b) \/ ISUB(a, b) \/ IMUL(a, b) \/ IDIV(a, b)
LongOperation(a, b) == LADD(a, b) \/ LSUB(a, b) \/ LMUL(a, b) \/ LDIV(a, b)
IntCast(a) == INEG(a) \/ I2S(a) \/ I2C(a) \/ I2B(a) \/ I2F(a)
LongCast(a) == LNEG(a) \/ L2I(a) \/ L2D(a)
FloatCast(x) == F2I(x) \/ F2L(x)
DoubleCast(x) == D2I(x) \/ D2L(x) \/ D2F(x)

Operation ==
    \/ \E a, b \in Ints(IntHalf) : IntOperation(a, b)
    \/ \E a, b \in Ints(LongHalf) : LongOperation(a, b)
    \/ \E a \in Ints(IntHalf) : IntCast(a)
    \/ \E a \in Ints(LongHalf) : LongCast(a)
    \/ \E x \in Floats(FloatDigits, FloatExponent) : FloatCast(x)
    \/ \E x \in Floats(DoubleDigits, DoubleExponent) : DoubleCast(x)

Next == (opcode = "none" /\ Operation) \/ Return

Spec == Init /\ [][Next]_vars

-----------------------------------------------------------------------------

\* "Integer overflow: the result is out-of-bounds for a long or int operation"
\* (wiki-tmp/Home.md:150): the sign tests of the sums and differences and the
\* one special case of the negation react exactly when the exact result is out
\* of bounds.
SumsExact ==
    /\ opcode \in {"IADD", "IINC"} =>
          reacted = (operands[1] + operands[2] \notin Ints(IntHalf))
    /\ opcode = "LADD" => reacted = (operands[1] + operands[2] \notin Ints(LongHalf))
    /\ opcode = "ISUB" => reacted = (operands[1] - operands[2] \notin Ints(IntHalf))
    /\ opcode = "LSUB" => reacted = (operands[1] - operands[2] \notin Ints(LongHalf))
    /\ opcode = "INEG" => reacted = (-operands[1] \notin Ints(IntHalf))
    /\ opcode = "LNEG" => reacted = (-operands[1] \notin Ints(LongHalf))

\* The same for the products, found by dividing the wrapped product again, and
\* for the quotients.
ProductsExact ==
    /\ opcode = "IMUL" => reacted = (operands[1] * operands[2] \notin Ints(IntHalf))
    /\ opcode = "LMUL" => reacted = (operands[1] * operands[2] \notin Ints(LongHalf))
    /\ opcode = "IDIV" => reacted = (Quotient(operands[1], operands[2]) \notin Ints(IntHalf))
    /\ opcode = "LDIV" => reacted = (Quotient(operands[1], operands[2]) \notin Ints(LongHalf))

\* "a value loses its essence after a type conversion" (wiki-tmp/Home.md:153):
\* a cast between integer types reacts exactly when it changes the value.
IntegerCastsExact ==
    opcode \in {"L2I", "I2S", "I2C", "I2B"} => reacted = (result # operands[1])

\* Does the conversion of x to an integer type replace it by a bound or by 0?
Saturates(x, h) == x.kind # "finite" \/ Truncated(x) \notin Ints(h)

\* "a value loses its essence after a type conversion" (wiki-tmp/Home.md:153), from a
\* floating point number to an integer: nothing that saturates escapes, NaN included,
\* but the one value next above the upper bound where that bound has to be rounded
\* to be compared; and double to int, whose bounds are exact, reacts only beyond them.
SaturationDetected ==
    /\ opcode = "D2I" =>
          /\ Saturates(operands[1], IntHalf) => reacted
          /\ reacted => operands[1].kind # "finite"
                         \/ operands[1].twice \notin 2 * MinValue(IntHalf) .. 2 * MaxValue(IntHalf)
    /\ opcode \in {"D2L", "F2L"} /\ Saturates(operands[1], LongHalf) /\ ~reacted =>
          operands[1] = Finite(2 * LongHalf)
    /\ opcode = "F2I" /\ Saturates(operands[1], IntHalf) /\ ~reacted =>
          operands[1] = Finite(2 * IntHalf)

\* Is the floating point result another number than the integer it was made from?
Lossy == result # Finite(2 * operands[1])

\* The same for the conversions to floating point numbers: a finite double that
\* becomes an infinite float is always noticed; int to float and long to double
\* report nothing that is exact, and every loss of precision.  Nothing is said of the
\* loss of the largest integer, which the documentation has detected too
\* (wiki-tmp/Home.md:154-156) and which the conversion back hides.
PrecisionLossDetected ==
    /\ opcode = "D2F" /\ operands[1].kind = "finite" /\ result.kind = "infinite" => reacted
    /\ opcode \in {"I2F", "L2D"} /\ reacted => Lossy
    /\ opcode = "I2F" /\ Lossy => reacted \/ operands[1] = MaxValue(IntHalf)
    /\ opcode = "L2D" /\ Lossy => reacted \/ operands[1] = MaxValue(LongHalf)

=============================================================================
