------------------------------ MODULE PositQuire ------------------------------
(***************************************************************************)
(* The quires of SoftPosit: fixed-point registers that take sums of        *)
(* products of posits without rounding.  A quire is a sequence of limbs,   *)
(* the most significant one first, in two's complement; one limb of 32     *)
(* bits for quire8_t, two of 64 for quire16_t, eight of 64 for quire32_t   *)
(* and quire_2_t.  B8, B16 and B32 are the bits of a limb and L32 is the   *)
(* number of limbs of quire32_t; JunkWords are the values that a limb left *)
(* uninitialised may have.                                                 *)
(***************************************************************************)
EXTENDS SoftPosit, SequencesExt

CONSTANTS B8, B16, B32, L32, JunkWords

\* A product needs 2n-1 bits in a limb, and every product has its place.
ASSUME LimbAssumption ==
    /\ {B8, B16, B32, L32} \subseteq Nat
    /\ B8 >= 4 * (W8 - 2) + 1 /\ 2 * B16 >= 8 * (W16 - 2) + 1
    /\ L32 * B32 >= 16 * (W32 - 2) + 1
    /\ B16 >= 2 * W16 - 1 /\ B32 >= 2 * W32 - 1
    /\ 0 \in JunkWords /\ JunkWords \subseteq 0 .. 2^B16 - 1

\* The binary digits behind the point, for the square of minpos.
FractionBits(F) == 2^(F.es + 1) * (F.n - 2)

\* The position, counted from the sign, of the digit that stands for one.
UnitPosition(F, bits) == bits - 1 - FractionBits(F)

quire8_t == [F |-> P8, limbs |-> 1, bits |-> B8]
quire16_t == [F |-> P16, limbs |-> 2, bits |-> B16]
quire32_t == [F |-> P32, limbs |-> L32, bits |-> B32]

Zeros(Q) == [i \in 1 .. Q.limbs |-> 0]

QuireNaR(Q) == [Zeros(Q) EXCEPT ![1] = 2^(Q.bits - 1)]

\* The last limb that is not zero is negated and those before it are
\* complemented.
NegateLimbs(Q, z) ==
    LET last == CHOOSE i \in 1 .. Q.limbs : z[i] # 0 /\ \A j \in i + 1 .. Q.limbs : z[j] = 0
    IN  IF z = Zeros(Q) THEN z
        ELSE [i \in 1 .. Q.limbs |->
                CASE i < last -> 2^Q.bits - 1 - z[i]
                  [] i = last -> 2^Q.bits - z[i]
                  [] OTHER    -> 0]

\* Fault: the limbs are added one by one, without a carry.
AddLimbsNoCarry(Q, y, z) == [i \in 1 .. Q.limbs |-> (y[i] + z[i]) % 2^Q.bits]

\* Fault: the sum of two limbs is wider than a limb.
AddLimbsWide(Q, y, z) == [i \in 1 .. Q.limbs |-> y[i] + z[i]]

\* The limbs are added from the last one on; the carry out of the first is lost.
AddLimbs(Q, y, z) ==
    LET carry[i \in 1 .. Q.limbs + 1] ==
            IF i > Q.limbs THEN 0 ELSE (y[i] + z[i] + carry[i + 1]) \div 2^Q.bits
    IN  [i \in 1 .. Q.limbs |-> (y[i] + z[i] + carry[i + 1]) % 2^Q.bits]

\* The product p, with its leading one at bit 2n-2, at its place: in one limb and,
\* where it reaches over the end, in the next one.
Place(Q, p) ==
    LET pos  == UnitPosition(Q.F, Q.limbs * Q.bits) - p.scale
        i    == pos \div Q.bits + 1
        s    == pos % Q.bits
        top  == p.frac * 2^(Q.bits + 1 - 2 * Q.F.n)
    IN  [j \in 1 .. Q.limbs |->
            CASE j = i     -> top \div 2^s
              [] j = i + 1 -> (top * 2^(Q.bits - s)) % 2^Q.bits
              [] OTHER     -> 0]

\* quire8_t shifts the product in its single limb.
Place8(Q, p) ==
    LET left == FractionBits(Q.F) + p.scale - (2 * Q.F.n - 2)
    IN  <<IF left < 0 THEN p.frac \div 2^(-left) ELSE p.frac * 2^left>>

\* quire16_t assigns the second limb only where the product ends in the first or
\* reaches beyond it: for the long products it is uninitialised, junk.  A product
\* that fills the first limb exactly is shifted by the width of the limb, which
\* leaves it where it was.
Place16(Q, p, junk) ==
    LET pos   == UnitPosition(Q.F, 2 * Q.bits) - p.scale
        frac  == p.frac \div 4
        right == pos - (Q.bits + 3 - 2 * Q.F.n)
    IN  IF pos >= Q.bits THEN Place(Q, p)
        ELSE IF right < 0 THEN <<frac * 2^(-right), junk>>
        ELSE IF right = 0 THEN <<frac, frac>>
        ELSE <<frac \div 2^right, (frac * 2^(Q.bits - right)) % 2^Q.bits>>

\* The product is added with the sign that its operands and the operation give
\* it.  A sum that looks like NaR is cleared.
Accumulate(Q, q, a, b, minus, place(_)) ==
    LET p   == place(Product(Q.F, Magnitude(Q.F, a), Magnitude(Q.F, b)))
        sum == AddLimbs(Q, q, IF SignDiffers(Q.F, a, b) # minus THEN NegateLimbs(Q, p) ELSE p)
    IN  IF q = QuireNaR(Q) \/ NaR(Q.F) \in {a, b} THEN QuireNaR(Q)
        ELSE IF a = 0 \/ b = 0 THEN q
        ELSE IF sum = QuireNaR(Q) THEN Zeros(Q) ELSE sum

\* Whether place would leave the second limb of quire16_t unassigned.
LongProduct(a, b) ==
    /\ 0 \notin {a, b} /\ NaR(P16) \notin {a, b}
    /\ UnitPosition(P16, 2 * B16)
          - Product(P16, Magnitude(P16, a), Magnitude(P16, b)).scale < B16 + 3 - 2 * W16

Junk(a, b) == IF LongProduct(a, b) THEN JunkWords ELSE {0}

q8_fdp_add(q, pA, pB) ==
    {Accumulate(quire8_t, q, pA, pB, FALSE, LAMBDA p : Place8(quire8_t, p))}
q8_fdp_sub(q, pA, pB) ==
    {Accumulate(quire8_t, q, pA, pB, TRUE, LAMBDA p : Place8(quire8_t, p))}
q16_fdp_add(q, pA, pB) ==
    {Accumulate(quire16_t, q, pA, pB, FALSE, LAMBDA p : Place16(quire16_t, p, junk)) :
        junk \in Junk(pA, pB)}
q16_fdp_sub(q, pA, pB) ==
    {Accumulate(quire16_t, q, pA, pB, TRUE, LAMBDA p : Place16(quire16_t, p, junk)) :
        junk \in Junk(pA, pB)}
q32_fdp_add(q, pA, pB) ==
    {Accumulate(quire32_t, q, pA, pB, FALSE, LAMBDA p : Place(quire32_t, p))}
q32_fdp_sub(q, pA, pB) ==
    {Accumulate(quire32_t, q, pA, pB, TRUE, LAMBDA p : Place(quire32_t, p))}
qX2_fdp_add(q, pA, pB) == q32_fdp_add(q, pA, pB)
qX2_fdp_sub(q, pA, pB) == q32_fdp_sub(q, pA, pB)

\* The magnitude of a quire is searched for its leading one; the bits from there
\* on, as many as a limb has, are the significand, and rest says whether anything
\* follows them.
Window(Q, q) ==
    LET mag   == IF q[1] >= 2^(Q.bits - 1) THEN NegateLimbs(Q, q) ELSE q
        i     == CHOOSE j \in 1 .. Q.limbs : mag[j] # 0 /\ \A l \in 1 .. j - 1 : mag[l] = 0
        zeros == Q.bits - 1 - Leading(mag[i], Q.bits - 1)
        next  == IF i = Q.limbs THEN 0 ELSE mag[i + 1]
    IN  [scale |-> UnitPosition(Q.F, Q.limbs * Q.bits) - ((i - 1) * Q.bits + zeros),
         frac  |-> mag[i] * 2^zeros + next \div 2^(Q.bits - zeros),
         rest  |-> \/ next % 2^(Q.bits - zeros) # 0
                   \/ \E l \in i + 2 .. Q.limbs : mag[l] # 0]

\* A quire rounded to a posit of format G.  Where two exponent bits do not fit the
\* flag is set anew from the second one: what follows the window is forgotten.
QuireToPosit(Q, G, q) ==
    LET w    == Window(Q, q)
        cut  == Q.bits + 1 - 2 * G.n
        reg  == RegimeOf(G, w.scale)
        lost == LostExpBits(G, reg)
        body == w.frac % 2^(Q.bits - 1)
        more == CASE lost = 0 -> w.rest \/ body % 2^(cut + reg + G.es + 2 * G.n - 1 - G.x) # 0
                  [] lost = 1 -> w.rest \/ body # 0
                  [] OTHER    -> ExpSticky(G, w.scale) \/ body # 0
    IN  IF q = Zeros(Q) THEN 0
        ELSE IF q = QuireNaR(Q) THEN NaR(G)
        ELSE Signed(G, q[1] >= 2^(Q.bits - 1), Round(G, w.scale, w.frac \div 2^cut, more))

q8_to_p8(qA) == QuireToPosit(quire8_t, P8, qA)
q16_to_p16(qA) == QuireToPosit(quire16_t, P16, qA)
convertQ16ToP16(qA) == q16_to_p16(qA)
q32_to_p32(qA) == QuireToPosit(quire32_t, P32, qA)
qX2_to_pX2(qA, x) == QuireToPosit(quire32_t, PX2(x), qA)

\* Negation of a quire; the loop of the longer ones stops before the first limb.
q16_TwosComplement(q) ==
    IF q = QuireNaR(quire16_t) THEN q ELSE NegateLimbs(quire16_t, q)
q32_TwosComplement(q) ==
    IF q = QuireNaR(quire32_t) THEN q
    ELSE [NegateLimbs(quire32_t, [q EXCEPT ![1] = 0]) EXCEPT ![1] = q[1]]
qX2_TwosComplement(q) == q32_TwosComplement(q)
===============================================================================
