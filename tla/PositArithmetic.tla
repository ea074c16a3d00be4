--------------------------- MODULE PositArithmetic ---------------------------
(***************************************************************************)
(* Addition, subtraction, multiplication, division, fused multiply-add,    *)
(* rounding to an integer and comparison of the fixed posit types, as      *)
(* SoftPosit computes them.  One operator per idea holds what the copies   *)
(* for P8, P16 and P32 share; where they differ the format decides.        *)
(***************************************************************************)
EXTENDS PositWords, FiniteSetsExt

\* A scanned word with its significand at the double width.
Widened(F, s) == [scale |-> Scale(F, s), frac |-> s.frac * 2^(F.n - 1)]

Wide(F, u) == Widened(F, Scan(F, u))

\* The leading one brought to bit 2n-2, by the carry to the right or by the
\* normalisation loop to the left.
Normal(F, scale, frac) ==
    LET up == Leading(frac, 2 * F.n - 1) - (2 * F.n - 2)
    IN  [scale |-> scale + up,
         frac  |-> IF up = 1 THEN frac \div 2 ELSE frac * 2^(-up)]

\* The word for a normalised number.
Packed(F, z) == Pack(F, z.scale, z.frac)

\* The significand of small is shifted to the scale of big, which is not smaller.
AlignedSum(F, big, small) ==
    LET shift == big.scale - small.scale
    IN  Normal(F, big.scale,
               big.frac + (IF shift > F.addMax THEN 0 ELSE small.frac \div 2^shift))

\* Two words of the same sign, b already negated for a subtraction.
AddMags(F, a, b) ==
    LET sign == Negative(F, a)
        u    == {Signed(F, sign, a), Signed(F, sign, b)}
        one  == \E v \in u : Bit(v, F.n - 2) = 1
    IN  Signed(F, sign, IF F.x > 2 THEN Packed(F, AlignedSum(F, Wide(F, Max(u)), Wide(F, Min(u))))
                        ELSE IF one THEN Ulp(F) ELSE 0)

\* The difference of two positive numbers; one too small to count leaves the word
\* u of the other one as it is.
AlignedDifference(F, u, big, small) ==
    LET shift == big.scale - small.scale
    IN  IF shift > F.subMax THEN u
        ELSE Packed(F, Normal(F, big.scale, big.frac - small.frac \div 2^shift))

\* Two words of opposite signs.  The result has the sign of the larger one.
SubMags(F, a, b) ==
    LET ua   == Magnitude(F, a)
        ub   == Magnitude(F, b)
        sign == IF ua < ub THEN ~ Negative(F, a) ELSE Negative(F, a)
        big  == Max({ua, ub})
        same == Bit(ua, F.n - 2) = Bit(ub, F.n - 2)
    IN  IF ua = ub THEN 0
        ELSE Signed(F, sign,
                    IF F.x = 2 THEN IF same THEN 0 ELSE Ulp(F)
                    ELSE AlignedDifference(F, big, Wide(F, big), Wide(F, Min({ua, ub}))))

\* A zero operand is tested before NaR, and the other word is what uiA | uiB is;
\* addMags and subMags are the functions of the type.
Add(F, a, b, addMags(_, _), subMags(_, _)) ==
    IF a = 0 \/ b = 0 THEN a + b
    ELSE IF NaR(F) \in {a, b} THEN NaR(F)
    ELSE IF Negative(F, a) = Negative(F, b) THEN addMags(a, b) ELSE subMags(a, b)

\* NaR is tested before a zero operand.
Sub(F, a, b, addMags(_, _), subMags(_, _)) ==
    IF NaR(F) \in {a, b} THEN NaR(F)
    ELSE IF a = 0 \/ b = 0 THEN a + Neg(F, b)
    ELSE IF Negative(F, a) = Negative(F, b) THEN subMags(a, Neg(F, b))
    ELSE addMags(a, Neg(F, b))

\* The product of two scanned words, of two positive words.
ProductOf(F, A, B) == Normal(F, Scale(F, A) + Scale(F, B), A.frac * B.frac)

Product(F, u, v) == ProductOf(F, Scan(F, u), Scan(F, v))

\* Fault: the sign of the second operand is forgotten.
SignOfFirst(F, a, b) == Negative(F, a)

SignDiffers(F, a, b) == Negative(F, a) # Negative(F, b)

\* Rounded with the fraction and more as what was cut off.
RoundSticky(F, z, more) == Round(F, z.scale, z.frac, FracSticky(F, z.scale, z.frac) \/ more)

RoundProduct(F, z) == RoundSticky(F, z, F.px /\ ExpSticky(F, z.scale))

Mul(F, a, b) ==
    IF NaR(F) \in {a, b} THEN NaR(F)
    ELSE IF a = 0 \/ b = 0 THEN 0
    ELSE Signed(F, SignDiffers(F, a, b),
                RoundProduct(F, Product(F, Magnitude(F, a), Magnitude(F, b))))

\* The remainder of a quotient and the exponent bits cut off are sticky.
RoundQuotient(F, z, remainder) ==
    RoundSticky(F, z, ExpSticky(F, z.scale) \/ remainder # 0)

\* The quotient of two scanned words has one more bit in P8 than in the other types.
QuotientOf(F, A, B) ==
    LET h   == IF F.es = 0 THEN F.n - 1 ELSE F.n - 2
        num == A.frac * 2^h
    IN  RoundQuotient(F, Normal(F, Scale(F, A) - Scale(F, B),
                                (num \div B.frac) * 2^(2 * F.n - 2 - h)),
                      num % B.frac)

Div(F, a, b) ==
    IF NaR(F) \in {a, b} \/ b = 0 THEN NaR(F)
    ELSE IF a = 0 THEN 0
    ELSE Signed(F, SignDiffers(F, a, b),
                QuotientOf(F, Scan(F, Magnitude(F, a)), Scan(F, Magnitude(F, b))))

\* Fault: the bits shifted out are forgotten.
ShiftOutSilent(F, frac, shift) ==
    [frac |-> IF shift >= 2 * F.n - 1 THEN 0 ELSE frac \div 2^shift, more |-> FALSE]

\* A significand moved right, and whether a one was shifted out: at 2n-1 and
\* beyond the C code replaces it by zero and sets bitsMore.
ShiftOut(F, frac, shift) ==
    IF shift >= 2 * F.n - 1 THEN [frac |-> 0, more |-> TRUE]
    ELSE [frac |-> frac \div 2^shift, more |-> frac % 2^shift # 0]

\* The sticky bit of the fused operation.  P32 looks one bit lower than it
\* should, and where exponent bits are cut off it sets the flag anew for two of
\* them and then reads the fraction it has not assigned yet: junk.  The types
\* with a precision forget the bits shifted out where the exponent fits.
MulAddSticky(F, scale, frac, reg, more, junk) ==
    LET lost  == LostExpBits(F, reg)
        body  == frac % 2^(2 * F.n - 2)
        below == body % 2^(reg + F.es + 2 * F.n - 1 - F.x) # 0
        kept  == IF lost = 2 THEN scale % 2 = 1 ELSE more
    IN  CASE F.px -> IF lost = 0 THEN below ELSE kept \/ body # 0
          [] ~ F.px /\ F.es = 2 -> kept \/ (lost > 0 /\ junk) \/ frac % 2^(F.n + reg) # 0
          [] OTHER -> more \/ below

\* With two bits there is no arithmetic left: the product is one unless a factor
\* is below one, and two units of opposite signs cancel.
MulAddTwoBits(F, a, b, c) ==
    LET one(u) == Bit(Magnitude(F, u), F.n - 2) = 1
        p      == IF one(a) /\ one(b) THEN Ulp(F) ELSE 0
        uc     == Magnitude(F, c)
        signP  == SignDiffers(F, a, b)
    IN  IF signP = Negative(F, c) THEN Signed(F, signP, IF p = 0 THEN uc ELSE p + (uc % p))
        ELSE IF uc = p THEN 0
        ELSE Signed(F, signP = (p > 0), Ulp(F))

RoundFused(F, z, more, junk) ==
    Round(F, z.scale, z.frac,
          MulAddSticky(F, z.scale, z.frac, RegimeOf(F, z.scale), more, junk))

\* Only the types with one exponent bit keep the bit that a carry drops.
CarryDrops(F, sum) == F.es = 1 /\ sum >= 2^(2 * F.n - 1) /\ sum % 2 = 1

FusedSum(F, scale, sum, more, junk) ==
    RoundFused(F, Normal(F, scale, sum), more \/ CarryDrops(F, sum), junk)

\* The sum or the difference of the larger term and low, the smaller one after its
\* alignment; a difference gives up one unit for the bits shifted out.
FusedTerms(F, big, low, same, junk) ==
    FusedSum(F, big.scale,
             IF same THEN big.frac + low.frac
             ELSE big.frac - low.frac - (IF low.more THEN 1 ELSE 0),
             low.more, junk)

\* The product p and the third operand w, with their signs.
Fused(F, p, w, signP, signC, junk) ==
    LET shift == p.scale - w.scale IN
    IF signP # signC /\ shift = 0 /\ p.frac = w.frac THEN 0
    ELSE IF shift > 0 \/ (shift = 0 /\ p.frac >= w.frac)
         THEN Signed(F, signP, FusedTerms(F, p, ShiftOut(F, w.frac, shift), signP = signC, junk))
    ELSE Signed(F, signC, FusedTerms(F, w, ShiftOut(F, p.frac, -shift), signP = signC, junk))

\* a * b + c with one rounding.
MulAdd(F, a, b, c, junk) ==
    LET p     == Product(F, Magnitude(F, a), Magnitude(F, b))
        signP == SignDiffers(F, a, b)
    IN  IF NaR(F) \in {a, b, c} THEN NaR(F)
        ELSE IF a = 0 \/ b = 0 THEN c
        ELSE IF F.x = 2 THEN MulAddTwoBits(F, a, b, c)
        ELSE IF c = 0 THEN Signed(F, signP, RoundFused(F, p, FALSE, junk))
        ELSE Fused(F, p, Wide(F, Magnitude(F, c)), signP, Negative(F, c), junk)

\* Rounding to an integral value.  Up to 2.5 the results are written out; a word
\* whose fraction ends above the binary point stays; otherwise the word itself is
\* rounded at its unit bit, ties to even.  posit_2_t has no word for 2 below five
\* bits, and a large negative word of at most whole bits comes back negated.
RoundToInt(F, whole, a) ==
    LET u    == Magnitude(F, a)
        sign == a > NaR(F)
        s    == Scan(F, u)
        unit == (F.n - 3 - s.k - F.es) - Scale(F, s)
        down == (u \div 2^unit) * 2^unit
        up   == Bit(u, unit - 1) = 1 /\ (Bit(u, unit) = 1 \/ u % 2^(unit - 1) # 0)
        Exactly(scale, num, den) ==
            Round([F EXCEPT !.x = F.n], scale, (num * 2^(2 * F.n - 2)) \div den, FALSE)
        two  == IF F.px /\ F.es = 2 /\ F.x <= 4 THEN Exactly(0, 1, 1) ELSE Exactly(1, 1, 1)
    IN  IF u <= Exactly(-1, 1, 1) THEN 0
        ELSE IF u < Exactly(0, 3, 2) THEN Signed(F, sign, Exactly(0, 1, 1))
        ELSE IF u <= Exactly(1, 5, 4) THEN Signed(F, sign, two)
        ELSE IF a = NaR(F) THEN a
        ELSE IF unit <= 0 THEN Signed(F, F.px /\ F.x <= whole /\ sign, a)
        ELSE Signed(F, sign, IF up THEN down + 2^unit ELSE down)

\* The integer square root, for m below 2^(2w).
Isqrt(m, w) == CHOOSE r \in 0 .. 2^w : r * r <= m /\ m < (r + 1) * (r + 1)

\* What the table of reciprocal roots and its Newton steps deliver: a value below
\* the root of m with an error of less than two units.  below tells which.
RootEstimate(m, w, below) ==
    LET r == Isqrt(m, w) IN IF below \/ r * r = m THEN r - 1 ELSE r

\* Fault: the estimate is taken as it is.
RootUnfixed(z, guard, w) == z

\* Where the guard bits of the estimate are all zero the square decides whether
\* the root lies above or below it.
RootFixed(z, guard, w) ==
    LET rem == ((z \div 2) * (z \div 2)) % 2^(w + 1)
    IN  IF z % 2^guard # 0 \/ rem = 0 THEN z
        ELSE IF rem >= 2^w THEN z + 1 ELSE z - 1

\* Rounding of the root's fraction at bit cut, ties to even.
RootRounded(z, cut) ==
    IF Bit(z, cut) = 1 /\ (Bit(z, cut + 1) = 1 \/ z % 2^cut # 0) THEN z + 2^(cut + 1) ELSE z

\* The square root of a P16 word.
SqrtP16(F, a, below) ==
    LET s     == Scan(F, a)
        half  == Scale(F, s) \div 2
        k     == half \div 2
        shift == RegimeLength(k) - 1
        m     == s.frac * 2^(F.n + 1) * (IF Scale(F, s) % 2 = 1 THEN 2 ELSE 1)
        est   == RootEstimate(m, F.n + 1, below) \div 2^shift + 1
        frac  == RootFixed(est, 3, F.n + 1) - 2^(F.n - shift)
    IN  IF Negative(F, a) THEN NaR(F)
        ELSE IF a = 0 THEN 0
        ELSE RegimeBits(F, k) + (half % 2) * 2^(F.n - 4 - shift) + RootRounded(frac, 3) \div 16

\* The square root of a P32 or posit_2_t word.  For posit_2_t the mask of the
\* rounding bit wraps around at the word's width; rounding up with the mask in
\* the top bit sets every bit above the fraction.  A fraction that is rounded up
\* to one merges with an exponent bit that is set: the fields are joined with |.
\* Where the mask does not hit, the finished word is rounded to x bits.
SqrtP32(F, a, below) ==
    LET s     == Scan(F, a)
        half  == Scale(F, s) \div 2
        k     == half \div 4
        shift == RegimeLength(k) - 1
        m     == s.frac * 2^(F.n + 1) * (IF Scale(F, s) % 2 = 1 THEN 2 ELSE 1)
        frac  == RootFixed(RootEstimate(m, F.n + 1, below) + 1, 4, F.n) % 2^F.n
        cut   == (4 + shift + F.n - F.x) % F.n
        field == RootRounded(frac, cut) \div 2^(5 + shift)
        high  == 2^(F.n - 5 - shift)
        wraps == RootRounded(frac, cut) > frac /\ cut = F.n - 1
        merge == field >= high /\ half % 2 = 1
        word  == IF wraps THEN 2^F.n - high + frac \div 2^(5 + shift)
                 ELSE RegimeBits(F, k) + (half % 4) * high
                      + (IF merge THEN field - high ELSE field)
        again == /\ F.px /\ Bit(frac, cut) = 0
                 /\ F.x < F.n /\ Bit(word, F.n - 1 - F.x) = 1
                 /\ \/ Bit(word, F.n - F.x) = 1
                    \/ word % 2^(F.n - 1 - F.x) # 0
    IN  IF Negative(F, a) THEN NaR(F)
        ELSE IF a = 0 THEN 0
        ELSE ((word \div Ulp(F) + (IF again THEN 1 ELSE 0)) * Ulp(F)) % 2^F.n

\* The table of P8, for the words 0 to 0x7F.
p8Sqrt ==
    <<0, 8, 11, 14, 16, 18, 20, 21, 23, 24, 25, 27, 28, 29, 30, 31, 32,
      33, 34, 35, 36, 37, 38, 38, 39, 40, 41, 42, 42, 43, 44, 45, 45, 46,
      47, 47, 48, 49, 49, 50, 51, 51, 52, 52, 53, 54, 54, 55, 55, 56, 57,
      57, 58, 58, 59, 59, 60, 60, 61, 61, 62, 62, 63, 63, 64, 64, 65, 65,
      66, 66, 67, 67, 68, 68, 69, 69, 70, 70, 70, 71, 71, 72, 72, 72, 73,
      73, 74, 74, 74, 75, 75, 75, 76, 76, 77, 77, 77, 79, 80, 81, 83, 84,
      85, 86, 87, 89, 90, 91, 92, 93, 94, 95, 96, 97, 98, 99, 100, 100,
      101, 102, 103, 105, 108, 110, 112, 114, 115, 120>>

SqrtP8(F, a) == IF Negative(F, a) THEN NaR(F) ELSE p8Sqrt[a + 1]

\* Comparison casts both words to signed integers.
Eq(F, a, b) == AsInt(F, a) = AsInt(F, b)

\* Fault: the words are compared without the cast to signed integers.
LtUnsigned(F, a, b) == a < b

Lt(F, a, b) == AsInt(F, a) < AsInt(F, b)

Le(F, a, b) == AsInt(F, a) <= AsInt(F, b)
===============================================================================
