------------------------------ MODULE PositWords ------------------------------
(***************************************************************************)
(* The bit level of the SoftPosit library behind COJAC's posit wrapper.    *)
(*                                                                         *)
(* A format F gives the width F.n of its words and the number F.es of      *)
(* exponent bits.  The library has one copy of each operation per width,   *)
(* with the masks and the positions written out as numbers; here the       *)
(* positions are expressed in F.n, so that the same text is P8 with n = 8, *)
(* P16 with n = 16 and P32 with n = 32, and a model checker can take       *)
(* shorter words with the same shape: a sign, a regime, es exponent bits   *)
(* and a fraction.                                                         *)
(*                                                                         *)
(* The loop that every operation has for the regime is Scan, and the code  *)
(* at its end that lays out regime, exponent and fraction and rounds them  *)
(* is Pack.  A significand is a number with its leading one at bit 2n-2,   *)
(* the position the library gives it in a word of twice the width.         *)
(***************************************************************************)
EXTENDS Integers

\* The formats of the fixed types, and of posit_1_t and posit_2_t, whose
\* functions take the precision x in bits: a word of n bits of which the first x
\* count.  addMax and subMax are the longest alignment shifts of addition and
\* subtraction.
posit8_t(n) ==
    [n |-> n, x |-> n, es |-> 0, px |-> FALSE, addMax |-> n - 1, subMax |-> 2 * n - 3]

posit16_t(n) ==
    [n |-> n, x |-> n, es |-> 1, px |-> FALSE, addMax |-> 2 * n - 1, subMax |-> 2 * n - 4]

posit32_t(n) ==
    [n |-> n, x |-> n, es |-> 2, px |-> FALSE, addMax |-> 2 * n - 1, subMax |-> 2 * n - 1]

posit_1_t(n, x) ==
    [n |-> n, x |-> x, es |-> 1, px |-> TRUE, addMax |-> 2 * n - 1, subMax |-> 2 * n - 4]

posit_2_t(n, x) ==
    [n |-> n, x |-> x, es |-> 2, px |-> TRUE, addMax |-> 2 * n - 1, subMax |-> 2 * n - 1]

Words(F) == 0 .. 2^F.n - 1

NaR(F) == 2^(F.n - 1)

maxpos(F) == 2^(F.n - 1) - 1

Bit(u, i) == (u \div 2^i) % 2

Negative(F, u) == u >= NaR(F)

\* Fault: the negated word is not masked.
NegUnmasked(F, u) == 2^F.n - u

\* -ui & mask
Neg(F, u) == (2^F.n - u) % 2^F.n

\* if (sign) uZ.ui = -uZ.ui & mask
Signed(F, sign, u) == IF sign THEN Neg(F, u) ELSE u

Magnitude(F, u) == Signed(F, Negative(F, u), u)

\* The word as the signed integer that the comparisons cast it to.
AsInt(F, u) == IF Negative(F, u) THEN u - 2^F.n ELSE u

\* The position of the leading one of m, below bit w.
Leading(m, w) == CHOOSE i \in 0 .. w : m \div 2^i = 1

\* The number of equal bits below the sign of the positive word u.
RunLength(F, u) ==
    LET rest == IF Bit(u, F.n - 2) = 1 THEN maxpos(F) - u ELSE u
    IN  IF rest = 0 THEN F.n - 1 ELSE F.n - 2 - Leading(rest, F.n - 2)

\* What follows a regime of value k, moved to its place behind the sign, is the
\* exponent and the significand, with its leading one at bit n-1.
Fields(F, k, tmp) ==
    LET one == 2^(F.n - 1 - F.es)
    IN  [k |-> k, exp |-> tmp \div one, frac |-> (one + (tmp % one)) * 2^F.es]

\* The fields behind a regime of r bits.
Behind(F, u, r) ==
    Fields(F, IF Bit(u, F.n - 2) = 1 THEN r - 1 ELSE -r, (u * 2^(r + 1)) % 2^(F.n - 1))

\* The loop over the regime and the split of what follows it.
Scan(F, u) == Behind(F, u, RunLength(F, u))

\* The power of two of a scanned word.
Scale(F, s) == s.k * 2^F.es + s.exp

\* The length of the regime of value k, without the bit that ends it, and its
\* bits in place.
RegimeLength(k) == IF k < 0 THEN -k ELSE k + 1

RegimeBits(F, k) ==
    IF k < 0 THEN 2^(F.n - 2) \div 2^(-k)
    ELSE maxpos(F) - (maxpos(F) \div 2^(k + 1))

\* The exponent bits that do not fit behind a regime of length reg.
LostExpBits(F, reg) == IF F.x - 2 - reg >= F.es THEN 0 ELSE F.es - (F.x - 2 - reg)

\* One unit in the last place.
Ulp(F) == 2^(F.n - F.x)

\* The fraction, shifted to make room for the regime and the exponent.
ShiftedFraction(F, reg, frac) == (frac % 2^(2 * F.n - 2)) \div 2^(reg + F.es)

\* What is laid out behind a regime of length reg, of the exponent and of the
\* shifted fraction fr.  Where posit_2_t has its full width and one exponent bit
\* does not fit, the other one is shifted by -1: undefined, and it leaves the word
\* on the machines the library is built for.
BehindRegime(F, reg, lost, exp, fr) ==
    CASE lost = 0 -> exp * 2^(F.n - 2 - reg - F.es) + (fr \div 2^(2 * F.n - F.x)) * Ulp(F)
      [] lost = 1 /\ F.px /\ F.x = F.n /\ F.es = 2 -> 0
      [] OTHER -> (exp \div 2^lost) * Ulp(F)

\* The first bit that does not fit.
HalfBit(F, lost, exp, fr) ==
    IF lost = 0 THEN Bit(fr, 2 * F.n - 1 - F.x) ELSE Bit(exp, lost - 1)

\* It rounds up unless the word is even and bitsMore says that nothing else was
\* cut off.
RoundUp(F, word, half, bitsMore) ==
    IF half = 1 /\ (Bit(word, F.n - F.x) = 1 \/ bitsMore) THEN word + Ulp(F) ELSE word

\* A regime that is too long saturates at maxpos or minpos, otherwise regime,
\* exponent and fraction are put together, as much of them as fits, and rounded.
LayOut(F, k, reg, exp, frac, bitsMore) ==
    LET lost == LostExpBits(F, reg)
        fr   == ShiftedFraction(F, reg, frac)
    IN  IF reg > F.x - 2 THEN IF k < 0 THEN Ulp(F) ELSE 2^(F.n - 1) - Ulp(F)
        ELSE RoundUp(F, RegimeBits(F, k) + BehindRegime(F, reg, lost, exp, fr),
                     HalfBit(F, lost, exp, fr), bitsMore)

\* The end of an operation: the positive word for frac / 2^(2n-2) * 2^scale.
Round(F, scale, frac, bitsMore) ==
    LET k == scale \div 2^F.es
    IN  LayOut(F, k, RegimeLength(k), scale % 2^F.es, frac, bitsMore)

\* The length of the regime of a result.
RegimeOf(F, scale) == RegimeLength(scale \div 2^F.es)

\* Exponent bits below the rounding bit that do not fit.
ExpSticky(F, scale) ==
    LET lost == LostExpBits(F, RegimeOf(F, scale))
    IN  lost > 1 /\ (scale % 2^F.es) % 2^(lost - 1) # 0

\* Fault: the mask of the bits below the rounding bit is one bit short.
FracStickyShort(F, scale, frac) ==
    ShiftedFraction(F, RegimeOf(F, scale), frac) % 2^(2 * F.n - 2 - F.x) # 0

\* The bits of the fraction below the rounding bit, after the shift that makes
\* room for the regime and the exponent.
FracSticky(F, scale, frac) ==
    ShiftedFraction(F, RegimeOf(F, scale), frac) % 2^(2 * F.n - 1 - F.x) # 0

\* Fault: bitsMore is never set, and every half is taken for a tie.
PackForgetful(F, scale, frac) == Round(F, scale, frac, FALSE)

\* The end of addition and subtraction: bitsMore is computed from the fraction
\* alone, whatever was set from the exponent before.
Pack(F, scale, frac) == Round(F, scale, frac, FracSticky(F, scale, frac))
===============================================================================
