---------------------------- MODULE WrapperPosit32 ----------------------------
(***************************************************************************)
(* COJAC's number type on top of SoftPosit: the class WrapperPosit32 and   *)
(* the native functions of Posit32Utils that it calls.                     *)
(*                                                                         *)
(* A wrapper holds the word of a posit32, carried as the bits of a Java    *)
(* float.  What SoftPosit has no function for goes through a real float:   *)
(* toFloat, the Java function, toPosit.  A float has FloatDigits binary    *)
(* digits (24) and exponents from 1 - FloatMax to FloatMax (127).          *)
(***************************************************************************)
EXTENDS PositConversions

CONSTANTS FloatDigits, FloatMax

ASSUME FloatAssumption ==
    FloatDigits \in Nat \ {0} /\ FloatMax \in Nat \ {0}

FloatMin == 1 - FloatMax

\* num / 2^k, rounded to an integer, ties to even.
HalfEven(num, k) ==
    LET down == num \div 2^k
        up   == Bit(num, k - 1) = 1 /\ (down % 2 = 1 \/ num % 2^(k - 1) # 0)
    IN  IF k > Leading(num, 64) + 1 THEN 0 ELSE IF up THEN down + 1 ELSE down

\* The cast of Java and C from double to float: below 2^FloatMin the last digit
\* stays where it is, above 2^FloatMax there is only infinity.
FloatCast(d) ==
    LET size  == d.pow + Leading(d.num, 64)
        last  == Max({size, FloatMin}) - (FloatDigits - 1)
        units == HalfEven(d.num, last - d.pow)
        cast  == IF last <= d.pow THEN d ELSE Finite(d.neg, units, last)
    IN  IF d.kind # "finite" \/ d.num = 0 THEN d
        ELSE IF cast.num = 0 THEN Finite(d.neg, 0, 0)
        ELSE IF cast.pow + Leading(cast.num, 64) > FloatMax THEN Infinity ELSE cast

\* Posit32Utils: the native functions.
add(a, b) == p32_add(a, b)
substract(a, b) == p32_sub(a, b)
multiply(a, b) == p32_mul(a, b)
divide(a, b) == p32_div(a, b)
toFloat(a) == FloatCast(convertP32ToDouble(a))
toPosit(a) == convertFloatToP32(a)
sqrt(a) == p32_sqrt(a)
equals(a, b) == p32_eq(a, b)
isLess(a, b) == p32_lt(a, b)
isLessOrEquals(a, b) == p32_le(a, b)
fma(a, b, c) == p32_mulAdd(a, b, c)

\* The methods of the class.
applyOperationWithFloatingPoints(posit32, operation(_)) == toPosit(operation(toFloat(posit32)))

toDouble(posit32) == toFloat(posit32)
fromDouble(a) == toPosit(FloatCast(a))
dadd(this, w) == add(this, w)
dsub(this, w) == substract(this, w)
dmul(this, w) == multiply(this, w)
ddiv(this, w) == divide(this, w)

dneg(this) == substract(toPosit(Finite(FALSE, 0, 0)), this)
math_sqrt(this) == sqrt(this)
math_fma(this, a, b) == fma(this, a, b)
math_abs(this) ==
    applyOperationWithFloatingPoints(this,
        LAMBDA f : IF f.kind = "finite" THEN [f EXCEPT !.neg = FALSE] ELSE f)
compareTo(this, w) == IF equals(this, w) THEN 0 ELSE IF isLess(this, w) THEN -1 ELSE 1

\* The remainder of Java: exact, with the sign of the dividend.  The dividend is
\* multiplied by two as often as its exponent says, modulo the divisor.
floatRemainder(a, b) ==
    LET rem[i \in Nat] == IF i = 0 THEN a.num % b.num ELSE (2 * rem[i - 1]) % b.num
        size(d)        == d.pow + Leading(d.num, 64)
    IN  IF a.kind # "finite" \/ b.kind = "NaN" THEN NaN
        ELSE IF b.kind = "infinity" THEN a
        ELSE IF b.num = 0 THEN NaN
        ELSE IF a.num = 0 \/ size(a) < size(b) THEN a
        ELSE IF a.pow >= b.pow THEN Finite(a.neg, rem[a.pow - b.pow], b.pow)
        ELSE Finite(a.neg, a.num % (b.num * 2^(b.pow - a.pow)), a.pow)

\* Fault: the operands are swapped.
dremSwapped(this, b) == toPosit(floatRemainder(toFloat(b), toFloat(this)))

drem(this, b) == toPosit(floatRemainder(toFloat(this), toFloat(b)))
===============================================================================
