----------------------------- MODULE QuireObjects -----------------------------
(***************************************************************************)
(* An object of one of the classes quire8, quire16, quire32 and quire_2 of *)
(* softposit_cpp.h: it is cleared, takes products of posits (qma, qms) and *)
(* is read (toPosit), in any order.  quire_2 has a precision x for the     *)
(* posit it is read into.                                                  *)
(*                                                                         *)
(* The classes implement ExactQuire: their limbs always hold the exact sum *)
(* of the products.  products and sound are history variables: the number  *)
(* of products since the quire was cleared, and whether the promise of     *)
(* ExactQuire still covers them.                                           *)
(***************************************************************************)
EXTENDS PositQuire, PositReference

CONSTANTS Classes,      \* the classes of the run
          Precisions,   \* the precisions of quire_2
          Operands,     \* the posits of each class that are multiplied
          MaxProducts   \* the products each class takes before it is cleared

VARIABLES quire, products, sound, out

vars == <<quire, products, sound, out>>

\* The C type behind a class, and the format that it is read into.
QuireType(class) ==
    CASE class = "quire8"  -> quire8_t
      [] class = "quire16" -> quire16_t
      [] OTHER             -> quire32_t

ResultFormat(q) ==
    IF q.class = "quire_2" THEN PX2(q.x) ELSE QuireType(q.class).F

clr(q) == [q EXCEPT !.value = Zeros(QuireType(q.class))]

quire8_qma(q, a, b) == q8_fdp_add(q, a, b)

\* Declared with operands of type posit16, whose words are cut to those of posit8.
quire8_qms(q, a, b) == q8_fdp_sub(q, a % 2^W8, b % 2^W8)

quire16_qma(q, a, b) == q16_fdp_add(q, a, b)
quire16_qms(q, a, b) == q16_fdp_sub(q, a, b)
quire32_qma(q, a, b) == q32_fdp_add(q, a, b)
quire32_qms(q, a, b) == q32_fdp_sub(q, a, b)
quire_2_qma(q, a, b) == qX2_fdp_add(q, a, b)
quire_2_qms(q, a, b) == qX2_fdp_sub(q, a, b)

quire8_toPosit(q) == q8_to_p8(q)
quire16_toPosit(q) == q16_to_p16(q)
quire32_toPosit(q) == q32_to_p32(q)
quire_2_toPosit(q, x) == qX2_to_pX2(q, x)

Qma(q, a, b) ==
    CASE q.class = "quire8"  -> quire8_qma(q.value, a, b)
      [] q.class = "quire16" -> quire16_qma(q.value, a, b)
      [] q.class = "quire32" -> quire32_qma(q.value, a, b)
      [] q.class = "quire_2" -> quire_2_qma(q.value, a, b)

Qms(q, a, b) ==
    CASE q.class = "quire8"  -> quire8_qms(q.value, a, b)
      [] q.class = "quire16" -> quire16_qms(q.value, a, b)
      [] q.class = "quire32" -> quire32_qms(q.value, a, b)
      [] q.class = "quire_2" -> quire_2_qms(q.value, a, b)

ToPosit(q) ==
    CASE q.class = "quire8"  -> quire8_toPosit(q.value)
      [] q.class = "quire16" -> quire16_toPosit(q.value)
      [] q.class = "quire32" -> quire32_toPosit(q.value)
      [] q.class = "quire_2" -> quire_2_toPosit(q.value, q.x)

TwosComplement(q) ==
    CASE q.class = "quire16" -> q16_TwosComplement(q.value)
      [] q.class = "quire32" -> q32_TwosComplement(q.value)
      [] q.class = "quire_2" -> qX2_TwosComplement(q.value)

(***************************************************************************)
(* The mapping to ExactQuire.                                              *)
(***************************************************************************)

\* The limbs, in two's complement, as an integer and a fraction: the limb with the
\* digit that stands for one is divided behind it.
SumOf(q) ==
    LET Q     == QuireType(q.class)
        unit  == UnitPosition(Q.F, Q.limbs * Q.bits)
        i     == unit \div Q.bits + 1
        behind == 2^(i * Q.bits - 1 - unit)
        Joined(limbs, start) == FoldLeft(LAMBDA s, l : s * 2^Q.bits + l, start, limbs)
        sign  == IF q.value[1] >= 2^(Q.bits - 1) THEN -1 ELSE 0
    IN  [whole |-> Joined(SubSeq(q.value, 1, i - 1), sign) * (2^Q.bits \div behind)
                   + q.value[i] \div behind,
         part  |-> Joined(SubSeq(q.value, i + 1, Q.limbs), q.value[i] % behind)]

\* From products of 2^LongestProduct on quire16 is not exact.
LongestProduct == UnitPosition(P16, 2 * B16) - (B16 + 3 - 2 * W16)

\* The bits above the largest product, but for the sign, take the carries.
Capacity(Q) ==
    2^(UnitPosition(Q.F, Q.limbs * Q.bits) - FractionBits(Q.F)) - 1

\* What the object of a class promises, as ExactQuire has it.
Promise ==
    [c \in Classes, x \in Precisions \cup {W32} |->
        LET Q == QuireType(c) IN
        [n        |-> Q.F.n,
         es       |-> Q.F.es,
         x        |-> ResultFormat([class |-> c, x |-> x]).x,
         words    |-> Operands[c],
         fraction |-> FractionBits(Q.F),
         capacity |-> Capacity(Q),
         longest  |-> IF c = "quire16" THEN LongestProduct ELSE FractionBits(Q.F) + 1,
         negates  |-> c = "quire16",
         frail    |-> IF Q.F.es = 2 THEN 2 ELSE 0]]

Exact ==
    INSTANCE ExactQuire WITH
        type  <- Promise[quire.class, quire.x],
        total <- SumOf(quire),
        nar   <- quire.value = QuireNaR(QuireType(quire.class)),
        out   <- out \div Ulp(ResultFormat(quire))

(***************************************************************************)
(* The object.                                                             *)
(***************************************************************************)

\* The products that ExactQuire does not cover.
Covered(q, a, b) ==
    (q.class = "quire16" /\ 0 \notin {a, b} /\ NaR(P16) \notin {a, b}) =>
        Product(P16, Magnitude(P16, a), Magnitude(P16, b)).scale < LongestProduct

Init ==
    /\ \E c \in Classes : \E x \in IF c = "quire_2" THEN Precisions ELSE {W32} :
          quire = [class |-> c, x |-> x, value |-> Zeros(QuireType(c))]
    /\ products = 0 /\ sound = TRUE /\ out = 0

Clr ==
    /\ quire' = clr(quire)
    /\ products' = 0 /\ sound' = TRUE /\ out' = 0

Multiply(accumulate(_, _, _)) ==
    /\ products < MaxProducts[quire.class]
    /\ \E a, b \in Operands[quire.class] :
          /\ \E v \in accumulate(quire, a, b) : quire' = [quire EXCEPT !.value = v]
          /\ products' = products + 1
          /\ sound' = (sound /\ products' <= Capacity(QuireType(quire.class))
                             /\ Covered(quire, a, b))
    /\ out' = 0

QuireMulAdd == Multiply(Qma)

QuireMulSub == Multiply(Qms)

\* quire8_t has no function for this; the one of the long quires does not reach the
\* first limb.
Negate ==
    /\ quire.class # "quire8"
    /\ quire' = [quire EXCEPT !.value = TwosComplement(quire)]
    /\ sound' = (sound /\ quire.class = "quire16")
    /\ out' = 0 /\ UNCHANGED products

ReadPosit == out' = ToPosit(quire) /\ UNCHANGED <<quire, products, sound>>

Next == Clr \/ QuireMulAdd \/ QuireMulSub \/ Negate \/ ReadPosit

Spec == Init /\ [][Next]_vars

(***************************************************************************)
(* Properties.                                                             *)
(***************************************************************************)

\* The limbs of a quire stay within their width, whatever is carried between them,
\* and a posit that is read is a word of its type.
TypeOK ==
    /\ quire.value \in [1 .. QuireType(quire.class).limbs -> 0 .. 2^QuireType(quire.class).bits - 1]
    /\ products \in 0 .. MaxProducts[quire.class]
    /\ sound \in BOOLEAN
    /\ out \in Words(ResultFormat(quire))

\* The quires implement ExactQuire: over any sequence of qma, qms, negation and clr
\* the limbs hold the exact sum of the products, as long as the promise covers them,
\* NaR stays until the quire is cleared, and toPosit rounds the sum once.
ExactSpec == Exact!Spec

\* The README says that a quire accumulates products without rounding: after one
\* product, of any operands, the quire holds that product.
OneProductExact ==
    (products = 1 /\ quire.value # QuireNaR(QuireType(quire.class))) =>
        \E a, b \in Operands[quire.class] \ {NaR(QuireType(quire.class).F)}, minus \in BOOLEAN :
            SumOf(quire) = Exact!Term(a, b, minus)
===============================================================================
