--------------------------- MODULE PositConversions ---------------------------
(***************************************************************************)
(* The conversions of the SoftPosit library: between the posit types, from *)
(* and to integers, from and to doubles.  As in SoftPosit, one definition  *)
(* per function of the C code, under its name, over a few operators that   *)
(* hold what the functions share.                                          *)
(*                                                                         *)
(* I32 and I64 are the widths of the integers, 32 and 64 in C.  A double   *)
(* is a record: a finite one stands for num * 2^pow with its sign.         *)
(***************************************************************************)
EXTENDS SoftPosit

CONSTANTS I32, I64

\* The largest integers have a fraction bit in a posit32.
ASSUME IntAssumption ==
    /\ I32 \in Nat /\ I64 \in Nat /\ 1 < I32 /\ I32 < I64
    /\ I32 % 4 = 0 /\ I64 % 4 = 0 /\ I64 \div 4 <= W32 - 5

(***************************************************************************)
(* Between posits.                                                         *)
(***************************************************************************)

\* The positive word of G nearest to a number whose leading binary digit stands
\* for 2^scale and whose digits are those of m.
Fit(G, scale, m) ==
    LET w    == 2 * G.n - 2
        i    == Leading(m, 64)
        frac == IF i > w THEN m \div 2^(i - w) ELSE m * 2^(w - i)
        body == frac % 2^w
        reg  == RegimeOf(G, scale)
        more == \/ i > w /\ m % 2^(i - w) # 0
                \/ ExpSticky(G, scale)
                \/ IF LostExpBits(G, reg) = 0 THEN body % 2^(reg + G.es + 2 * G.n - 1 - G.x) # 0
                   ELSE body # 0
    IN  Round([G EXCEPT !.px = FALSE], scale, frac, more)

\* Zero and NaR keep their meaning, otherwise conv works on the magnitude.
Converted(F, G, a, conv(_)) ==
    IF a = 0 THEN 0
    ELSE IF a = NaR(F) THEN NaR(G)
    ELSE Signed(G, Negative(F, a), conv(Magnitude(F, a)))

\* The regime, the exponent and the fraction are taken apart and laid out anew.
Reformat(F, G, a) ==
    Converted(F, G, a, LAMBDA u : LET s == Scan(F, u) IN Fit(G, Scale(F, s), s.frac))

\* Fault: the bits behind the first x stay in the word.
ShortenedUnmasked(n, x, u) ==
    IF x < n /\ Bit(u, n - x - 1) = 1 /\ u + 2^(n - x) < 2^(n - 1) THEN u + 2^(n - x) ELSE u

\* Fault: a number too small for x bits becomes zero.
ShortenedToZero(n, x, u) ==
    LET ulp == 2^(n - x)
        up  == /\ x < n /\ u \div ulp # 2^(x - 1) - 1
               /\ Bit(u, n - x - 1) = 1
               /\ Bit(u, n - x) = 1 \/ u % 2^(n - x - 1) # 0
    IN  ((IF up THEN u + ulp ELSE u) \div ulp) * ulp

\* A word is rounded to its first x bits as it stands: the word of the largest
\* regime stays, nothing becomes zero.
Shortened(n, x, u) ==
    LET ulp  == 2^(n - x)
        up   == /\ u \div ulp # 2^(x - 1) - 1
                /\ Bit(u, n - x - 1) = 1
                /\ Bit(u, n - x) = 1 \/ u % 2^(n - x - 1) # 0
        word == ((IF up THEN u + ulp ELSE u) \div ulp) * ulp
    IN  IF x = 2 THEN ulp
        ELSE IF x = n THEN u
        ELSE IF word = 0 THEN ulp ELSE word

\* Laid out in the full width first and shortened then: the bits beyond the full
\* width, where there are any, are lost before the rounding.
Lengthen(F, G, a) ==
    LET Full == [G EXCEPT !.x = G.n, !.px = FALSE] IN
    Converted(F, G, a, LAMBDA u : Shortened(G.n, G.x, Magnitude(G, Reformat(F, Full, u))))

p8_to_p16(pA) == Reformat(P8, P16, pA)
p8_to_p32(pA) == Reformat(P8, P32, pA)
p8_to_pX1(pA, x) == Lengthen(P8, PX1(x), pA)
p8_to_pX2(pA, x) == Lengthen(P8, PX2(x), pA)
p16_to_p8(pA) == Reformat(P16, P8, pA)
p16_to_p32(pA) == Reformat(P16, P32, pA)
p16_to_pX1(pA, x) ==
    Converted(P16, PX1(x), pA, LAMBDA u : Shortened(W32, x, u * 2^(W32 - W16)))

\* A regime that is too long for x bits saturates before the word is shortened.
p16_to_pX2(pA, x) ==
    LET long(u) == RegimeOf(PX2(x), Scale(P16, Scan(P16, u))) > x - 2 IN
    IF pA # 0 /\ pA # NaR(P16) /\ long(Magnitude(P16, pA)) THEN Reformat(P16, PX2(x), pA)
    ELSE Lengthen(P16, PX2(x), pA)

p32_to_p8(pA) == Reformat(P32, P8, pA)
p32_to_p16(pA) == Reformat(P32, P16, pA)
p32_to_pX1(pA, x) == Reformat(P32, PX1(x), pA)
p32_to_pX2(pA, x) == Converted(P32, P32, pA, LAMBDA u : Shortened(W32, x, u))

\* posit_1_t and posit_2_t words are read in their full width.
pX1_to_p8(pA) == Reformat(PX1(W32), P8, pA)
pX1_to_p16(pA) ==
    Converted(P32, P16, pA, LAMBDA u : Shortened(W32, W16, u) \div 2^(W32 - W16))
pX1_to_p32(pA) == Reformat(PX1(W32), P32, pA)
pX1_to_pX1(pA, x) == Converted(P32, P32, pA, LAMBDA u : Shortened(W32, x, u))
pX1_to_pX2(pA, x) == Reformat(PX1(W32), PX2(x), pA)
pX2_to_p8(pA) == p32_to_p8(pA)
pX2_to_p16(pA) == p32_to_p16(pA)
pX2_to_p32(pA) == pA
pX2_to_pX1(pA, x) == Reformat(PX2(W32), PX1(x), pA)
pX2_to_pX2(pA, x) == p32_to_pX2(pA, x)

(***************************************************************************)
(* To integers.                                                            *)
(***************************************************************************)

\* The positive word u as an integer: rounded to nearest, ties to even, or cut
\* off at the binary point.
WholeRounded(F, u) ==
    LET s    == Scan(F, u)
        low  == F.n - 1 - Scale(F, s)
        down == s.frac \div 2^low
        up   == Bit(s.frac, low - 1) = 1 /\ (down % 2 = 1 \/ s.frac % 2^(low - 1) # 0)
    IN  IF Scale(F, s) < -1 THEN 0
        ELSE IF low <= 0 THEN s.frac * 2^(-low)
        ELSE IF up THEN down + 1 ELSE down

WholePart(F, u) ==
    LET s == Scan(F, u) IN IF Scale(F, s) < 0 THEN 0 ELSE s.frac \div 2^(F.n - 1 - Scale(F, s))

\* What does not fit below 2^bits.
TooLarge(F, u, bits) == Scale(F, Scan(F, u)) >= bits

\* Signed and unsigned results; bits is where the function saturates, if it does.
\* NaR is zero, and so is a negative number where the result has no sign.
ToSigned(F, a, bits) ==
    LET u     == Magnitude(F, a)
        whole == WholeRounded(F, u)
    IN  IF a = 0 \/ a = NaR(F) THEN 0
        ELSE IF TooLarge(F, u, bits - 1)
             THEN IF Negative(F, a) THEN -(2^(bits - 1)) ELSE 2^(bits - 1) - 1
        ELSE IF Negative(F, a) THEN -whole ELSE whole

ToUnsigned(F, a, bits) ==
    IF a = 0 \/ Negative(F, a) THEN 0
    ELSE IF TooLarge(F, a, bits) THEN 2^bits - 1
    ELSE WholeRounded(F, a)

p8_to_i32(pA) == ToSigned(P8, pA, I32)
p8_to_i64(pA) == ToSigned(P8, pA, I64)
p8_to_ui32(pA) == ToUnsigned(P8, pA, I32)
p8_to_ui64(pA) == ToUnsigned(P8, pA, I64)
p16_to_i32(pA) == ToSigned(P16, pA, I32)
p16_to_i64(pA) == ToSigned(P16, pA, I64)
p16_to_ui32(pA) == ToUnsigned(P16, pA, I32)
p16_to_ui64(pA) == ToUnsigned(P16, pA, I64)

\* A negative result is masked to I32 bits in a longer integer, except for the
\* one that saturates.
p32_to_i32(pA) ==
    LET i == ToSigned(P32, pA, I32) IN IF i = -(2^(I32 - 1)) THEN i ELSE i % 2^I32

p32_to_i64(pA) == ToSigned(P32, pA, I64)
p32_to_ui32(pA) == ToUnsigned(P32, pA, I32)
p32_to_ui64(pA) == ToUnsigned(P32, pA, I64)
pX1_to_i32(pA) == ToSigned(PX1(W32), pA, I32)
pX1_to_i64(pA) == ToSigned(PX1(W32), pA, I64)
pX1_to_ui32(pA) == ToUnsigned(PX1(W32), pA, I32)
pX1_to_ui64(pA) == ToUnsigned(PX1(W32), pA, I64)
pX2_to_i32(pA) == p32_to_i32(pA)
pX2_to_i64(pA) == p32_to_i64(pA)
pX2_to_ui32(pA) == p32_to_ui32(pA)
pX2_to_ui64(pA) == p32_to_ui64(pA)

\* The conversion that cuts off, with NaR as the smallest integer.
ToWhole(F, a, whole(_)) ==
    IF a = 0 THEN 0
    ELSE IF a = NaR(F) THEN -(2^(I64 - 1))
    ELSE LET i == whole(Magnitude(F, a)) IN IF Negative(F, a) THEN -i ELSE i

p8_int(pA) == ToWhole(P8, pA, LAMBDA u : WholePart(P8, u))

\* From 2^(n-2) on the shift count of P16 is negative: nothing is left.
p16_int(pA) ==
    ToWhole(P16, pA, LAMBDA u : IF TooLarge(P16, u, W16 - 2) THEN 0 ELSE WholePart(P16, u))

\* So is that of P32 from 2^(n-3) on, up to the two largest powers of two, for
\* which the code shifts to the left.
p32_int(pA) ==
    ToWhole(P32, pA, LAMBDA u :
        IF TooLarge(P32, u, I64 - 1) THEN 2^(I64 - 1) - 1
        ELSE IF TooLarge(P32, u, I64 - 2)
             THEN LET s == Scan(P32, u) IN s.frac * 2^(Scale(P32, s) - (W32 - 1))
        ELSE IF TooLarge(P32, u, W32 - 3) THEN 0
        ELSE WholePart(P32, u))

pX2_int(pA) == p32_int(pA)

(***************************************************************************)
(* From integers.                                                          *)
(*                                                                         *)
(* Each function writes its rounding out for the magnitude, with constants *)
(* for what lies near the ends of its range.  Here the constants are       *)
(* expressed in the widths: 0x7FB00000 is PowerWord(31), 2147483135 is     *)
(* Limit(31), 0x02FFFFFF is 3 * 2^(2n - 8) - 1.                            *)
(***************************************************************************)

Abs(i) == IF i < 0 THEN -i ELSE i

\* The loop that brings the leading one of m to bit w, and the rounding behind it,
\* which looks for the last kept bit in the fraction and not in the word.
IntWord(G, w, m) ==
    LET log  == Leading(m, w)
        k    == log \div 2^G.es
        room == G.n - 3 - G.es - k
        frac == (m - 2^log) * 2^(w - log)
        cut  == w - room
        word == RegimeBits(G, k) + (log % 2^G.es) * 2^room + frac \div 2^cut
        up   == Bit(frac, cut - 1) = 1 /\ (frac % 2^(cut - 1) # 0 \/ Bit(frac, cut) = 1)
    IN  IF up THEN word + 1 ELSE word

\* The word of 2^b.
PowerWord(b) == RegimeBits(P32, b \div 4) + (b % 4) * 2^(W32 - 5 - b \div 4)

\* Fault: a unit in the last place is taken for half a unit.
LimitTooLow(b) == 2^b - 2^(b - (W32 - 5 - (b - 1) \div 4) - 1) - 1

\* The largest integer that does not round to 2^b: half a unit in the last place of
\* the numbers below 2^b, and one, are missing.
Limit(b) == 2^b - 2^(b - (W32 - 5 - (b - 1) \div 4) - 2) - 1

\* 48 lies halfway between the two largest words of 8 bits.
IntToP8(a) ==
    IF a > 3 * 2^(W8 - 4) THEN maxpos(P8)
    ELSE IF a < 2 THEN a * 2^(W8 - 2) ELSE IntWord(P8, W8 - 2, a)

IntToP16(a) ==
    IF a > 2^(2 * W16 - 5) THEN maxpos(P16)
    ELSE IF a > 3 * 2^(2 * W16 - 8) - 1 THEN maxpos(P16) - 1
    ELSE IF a < 2 THEN a * 2^(W16 - 2) ELSE IntWord(P16, 2 * W16 - 7, a)

\* The leading one goes to bit w; the integers end at 2^b.
IntToP32(a, w, b) ==
    IF a > Limit(b) THEN PowerWord(b)
    ELSE IF a < 2 THEN a * 2^(W32 - 2) ELSE IntWord(P32, w, a)

i32_to_p8(iA) == Signed(P8, iA < 0, IntToP8(Abs(iA)))
i64_to_p8(iA) == Signed(P8, iA < 0, IntToP8(Abs(iA)))
ui32_to_p8(a) == IntToP8(a)
ui64_to_p8(a) == IntToP8(a)
i32_to_p16(iA) == Signed(P16, iA < 0, IntToP16(Abs(iA)))
i64_to_p16(iA) == Signed(P16, iA < 0, IntToP16(Abs(iA)))
ui32_to_p16(a) == IntToP16(a)
ui64_to_p16(a) == IntToP16(a)
i32_to_p32(iA) == Signed(P32, iA < 0, IntToP32(Abs(iA), I32 - 1, I32 - 1))
i64_to_p32(iA) == Signed(P32, iA < 0, IntToP32(Abs(iA), I64 - 1, I64 - 1))
ui32_to_p32(a) == IntToP32(a, I32 - 1, I32)
ui64_to_p32(a) == IntToP32(a, I64 - 1, I64)

\* & ((int32_t)0x80000000 >> (x - 1))
CutTo(x, u) == LET ulp == Ulp(PX2(x)) IN (u \div ulp) * ulp

\* With a precision: what is kept and whether it is rounded up is decided by the
\* number of exponent bits that the regime leaves.
IntToPX2(a, x, w) ==
    LET log  == Leading(a, w)
        k    == log \div 4
        exp  == log % 4
        room == W32 - 5 - k
        frac == (a - 2^log) * 2^(w - log)
        half == w - 1 - (x - 5 - k)
        reg  == RegimeBits(P32, k)
        word == CASE k = x - 3 -> reg
                  [] k = x - 4 -> reg + (exp - (exp % 2)) * 2^room
                  [] OTHER     -> CutTo(x, reg + exp * 2^room + frac \div 2^(w - room))
        last == Bit(word, W32 - x) = 1
        up   == CASE k = x - 3 -> exp = 3 \/ (exp = 2 /\ frac # 0)
                  [] k = x - 4 -> exp % 2 = 1 /\ (last \/ frac # 0)
                  [] OTHER     -> Bit(frac, half) = 1 /\ (last \/ frac % 2^half # 0)
    IN  IF a < 2 THEN a * 2^(W32 - 2)
        ELSE IF k >= x - 2 THEN CutTo(x, maxpos(P32))
        ELSE IF up THEN word + Ulp(PX2(x)) ELSE word

\* Two bits have one positive word.
OnlyOne(a) == IF a > 0 THEN 2^(W32 - 2) ELSE 0

\* What rounds to 2^(I32-1) has constants of its own.  Below its negative the word
\* is not cut to the precision; above it a mask that is too wide sets the exponent
\* bits of the precision in between.
i32_to_pX2(iA, x) ==
    LET b       == I32 - 1
        k       == b \div 4
        wide    == 2^(W32 - 1) - 2^(W32 - 5 - k)
        word(a) == IF x = 2 THEN OnlyOne(a)
                   ELSE IF a <= Limit(b) THEN IntToPX2(a, x, b)
                   ELSE IF x < k + 3 THEN CutTo(x, PowerWord(b))
                   ELSE IF x < k + 5 THEN CutTo(x, wide) ELSE PowerWord(b)
    IN  IF iA < -Limit(b) THEN Neg(P32, PowerWord(b)) ELSE Signed(P32, iA < 0, word(Abs(iA)))

\* The set of the results.  The smallest integer cannot be negated: the build that
\* wraps around finds the pattern of NaR, the one that optimises goes on with a
\* number below 2.  Next to 2^(I64-1) the word keeps its exponent bits whatever the
\* precision is, but for the shortest ones.
i64_to_pX2(iA, x) ==
    LET b       == I64 - 1
        word(a) == IF x = 2 THEN OnlyOne(a)
                   ELSE IF a <= Limit(b) THEN IntToPX2(a, x, b)
                   ELSE IF x < b \div 4 + 3 THEN CutTo(x, PowerWord(b)) ELSE PowerWord(b)
    IN  IF iA = -(2^b) THEN {NaR(P32), IF x = 2 THEN Neg(P32, 2^(W32 - 2)) ELSE 0}
        ELSE {Signed(P32, iA < 0, word(Abs(iA)))}

\* The unsigned integer with the bit pattern of NaR is taken for it.
UnsignedToPX2(a, x, bits) ==
    IF a = 2^(bits - 1) THEN NaR(P32)
    ELSE IF x = 2 THEN OnlyOne(a)
    ELSE IF a > Limit(bits) THEN CutTo(x, PowerWord(bits)) ELSE IntToPX2(a, x, bits - 1)

ui32_to_pX2(a, x) == UnsignedToPX2(a, x, I32)
ui64_to_pX2(a, x) == UnsignedToPX2(a, x, I64)

(***************************************************************************)
(* From and to doubles.                                                    *)
(***************************************************************************)

Finite(neg, num, pow) == [kind |-> "finite", neg |-> neg, num |-> num, pow |-> pow]

NaN == [kind |-> "NaN"]

Infinity == [kind |-> "infinity"]

\* What is not finite fails every comparison and ends as NaR.
FromDouble(G, d) ==
    IF d.kind # "finite" THEN NaR(G)
    ELSE IF d.num = 0 THEN 0
    ELSE Signed(G, d.neg, Fit(G, d.pow + Leading(d.num, 64), d.num))

\* Every posit is a double; NaR is what nar says.
ToDouble(F, a, nar) ==
    LET s == Scan(F, Magnitude(F, a)) IN
    IF a = 0 THEN Finite(FALSE, 0, 0)
    ELSE IF a = NaR(F) THEN nar
    ELSE Finite(Negative(F, a), s.frac, Scale(F, s) - (F.n - 1))

convertDoubleToP8(a) == FromDouble(P8, a)
convertDoubleToP16(a) == FromDouble(P16, a)
convertFloatToP16(a) == convertDoubleToP16(a)
convertDoubleToP32(a) == FromDouble(P32, a)
convertFloatToP32(a) == convertDoubleToP32(a)
convertDoubleToPX1(a, x) == FromDouble(PX1(x), a)
convertDoubleToPX2(a, x) == FromDouble(PX2(x), a)
convertP8ToDouble(a) == ToDouble(P8, a, NaN)
convertP16ToDouble(a) == ToDouble(P16, a, NaN)
convertP32ToDouble(a) == ToDouble(P32, a, NaN)
convertPX1ToDouble(a) == ToDouble(PX1(W32), a, NaN)
convertPX2ToDouble(a) == ToDouble(PX2(W32), a, Infinity)
===============================================================================
