------------------------------ MODULE SoftPosit ------------------------------
(***************************************************************************)
(* The arithmetic functions of the SoftPosit library, one definition per   *)
(* function of the C code, under its name.  The library writes each of     *)
(* them once per type; here they are instances of the operators of         *)
(* PositArithmetic with the format of the type.                            *)
(*                                                                         *)
(* W8, W16 and W32 are the widths: 8, 16 and 32 in C.  posit_1_t and       *)
(* posit_2_t live in words of W32 bits and take the precision x as an      *)
(* argument.  WholeBits is the precision up to which their rounding to an  *)
(* integer flips the sign of a large negative word (8 in C).  x is between *)
(* 2 and W32: for any other precision the functions return NaR at once.    *)
(*                                                                         *)
(* A function whose result depends on an uninitialised variable, or on the *)
(* error of an estimate, is a set: the results it may return.              *)
(***************************************************************************)
EXTENDS PositArithmetic

CONSTANTS W8, W16, W32, WholeBits

ASSUME WidthAssumption ==
    /\ {W8, W16, W32, WholeBits} \subseteq Nat
    /\ W8 >= 4 /\ W16 >= 4 /\ W32 >= 5

P8 == posit8_t(W8)
P16 == posit16_t(W16)
P32 == posit32_t(W32)
PX1(x) == posit_1_t(W32, x)
PX2(x) == posit_2_t(W32, x)

\* posit8_t.
softposit_addMagsP8(uiA, uiB) == AddMags(P8, uiA, uiB)
softposit_subMagsP8(uiA, uiB) == SubMags(P8, uiA, uiB)
p8_add(a, b) == Add(P8, a, b, softposit_addMagsP8, softposit_subMagsP8)
p8_sub(a, b) == Sub(P8, a, b, softposit_addMagsP8, softposit_subMagsP8)
p8_mul(a, b) == Mul(P8, a, b)
p8_div(a, b) == Div(P8, a, b)
softposit_mulAddP8(uiA, uiB, uiC) == {MulAdd(P8, uiA, uiB, uiC, FALSE)}
p8_mulAdd(a, b, c) == softposit_mulAddP8(a, b, c)
p8_sqrt(a) == {SqrtP8(P8, a)}
p8_roundToInt(a) == RoundToInt(P8, 0, a)
p8_eq(a, b) == Eq(P8, a, b)
p8_lt(a, b) == Lt(P8, a, b)
p8_le(a, b) == Le(P8, a, b)

\* posit16_t.
softposit_addMagsP16(uiA, uiB) == AddMags(P16, uiA, uiB)
softposit_subMagsP16(uiA, uiB) == SubMags(P16, uiA, uiB)
p16_add(a, b) == Add(P16, a, b, softposit_addMagsP16, softposit_subMagsP16)
p16_sub(a, b) == Sub(P16, a, b, softposit_addMagsP16, softposit_subMagsP16)
p16_mul(a, b) == Mul(P16, a, b)
p16_div(a, b) == Div(P16, a, b)
softposit_mulAddP16(uiA, uiB, uiC) == {MulAdd(P16, uiA, uiB, uiC, FALSE)}
p16_mulAdd(a, b, c) == softposit_mulAddP16(a, b, c)
p16_sqrt(a) == {SqrtP16(P16, a, below) : below \in BOOLEAN}
p16_roundToInt(a) == RoundToInt(P16, 0, a)
p16_eq(a, b) == Eq(P16, a, b)
p16_lt(a, b) == Lt(P16, a, b)
p16_le(a, b) == Le(P16, a, b)

\* posit32_t.
softposit_addMagsP32(uiA, uiB) == AddMags(P32, uiA, uiB)
softposit_subMagsP32(uiA, uiB) == SubMags(P32, uiA, uiB)
p32_add(a, b) == Add(P32, a, b, softposit_addMagsP32, softposit_subMagsP32)
p32_sub(a, b) == Sub(P32, a, b, softposit_addMagsP32, softposit_subMagsP32)
p32_mul(a, b) == Mul(P32, a, b)
p32_div(a, b) == Div(P32, a, b)
softposit_mulAddP32(uiA, uiB, uiC) == {MulAdd(P32, uiA, uiB, uiC, junk) : junk \in BOOLEAN}
p32_mulAdd(a, b, c) == softposit_mulAddP32(a, b, c)
p32_sqrt(a) == {SqrtP32(P32, a, below) : below \in BOOLEAN}
p32_roundToInt(a) == RoundToInt(P32, 0, a)
p32_eq(a, b) == Eq(P32, a, b)
p32_lt(a, b) == Lt(P32, a, b)
p32_le(a, b) == Le(P32, a, b)

\* posit_1_t with the precision x.
softposit_addMagsPX1(uiA, uiB, x) == AddMags(PX1(x), uiA, uiB)
softposit_subMagsPX1(uiA, uiB, x) == SubMags(PX1(x), uiA, uiB)
pX1_add(a, b, x) ==
    Add(PX1(x), a, b, LAMBDA u, v : softposit_addMagsPX1(u, v, x),
                   LAMBDA u, v : softposit_subMagsPX1(u, v, x))
pX1_sub(a, b, x) ==
    Sub(PX1(x), a, b, LAMBDA u, v : softposit_addMagsPX1(u, v, x),
                   LAMBDA u, v : softposit_subMagsPX1(u, v, x))
pX1_mul(a, b, x) == Mul(PX1(x), a, b)
pX1_div(a, b, x) == Div(PX1(x), a, b)
softposit_mulAddPX1(uiA, uiB, uiC, x) == {MulAdd(PX1(x), uiA, uiB, uiC, FALSE)}
pX1_mulAdd(a, b, c, x) == softposit_mulAddPX1(a, b, c, x)
pX1_roundToInt(a, x) == RoundToInt(PX1(x), WholeBits, a)

\* posit_2_t with the precision x.
softposit_addMagsPX2(uiA, uiB, x) == AddMags(PX2(x), uiA, uiB)
softposit_subMagsPX2(uiA, uiB, x) == SubMags(PX2(x), uiA, uiB)
pX2_add(a, b, x) ==
    Add(PX2(x), a, b, LAMBDA u, v : softposit_addMagsPX2(u, v, x),
                   LAMBDA u, v : softposit_subMagsPX2(u, v, x))
pX2_sub(a, b, x) ==
    Sub(PX2(x), a, b, LAMBDA u, v : softposit_addMagsPX2(u, v, x),
                   LAMBDA u, v : softposit_subMagsPX2(u, v, x))
pX2_mul(a, b, x) == Mul(PX2(x), a, b)
pX2_div(a, b, x) == Div(PX2(x), a, b)
softposit_mulAddPX2(uiA, uiB, uiC, x) == {MulAdd(PX2(x), uiA, uiB, uiC, FALSE)}
pX2_mulAdd(a, b, c, x) == softposit_mulAddPX2(a, b, c, x)
pX2_roundToInt(a, x) == RoundToInt(PX2(x), WholeBits, a)
pX2_sqrt(a, x) == {SqrtP32(PX2(x), a, below) : below \in BOOLEAN}
pX2_eq(a, b) == Eq(P32, a, b)
pX2_lt(a, b) == Lt(P32, a, b)
pX2_le(a, b) == Le(P32, a, b)

===============================================================================
