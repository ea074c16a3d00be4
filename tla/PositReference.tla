--------------------------- MODULE PositReference ---------------------------
(***************************************************************************)
(* What a posit word stands for and which word is the right one for a      *)
(* number, written down from the definition of the posits and without the  *)
(* operators that model the library.                                       *)
(*                                                                         *)
(* A positive number is a record [num, pow] that stands for num * 2^pow.   *)
(* Numbers are compared by their sizes first, so that the integers stay    *)
(* small whatever the exponents are.                                       *)
(***************************************************************************)
EXTENDS Integers, FiniteSetsExt

\* The number that the positive word u of n bits with es exponent bits stands for.
Value(n, es, u) ==
    LET bit(i) == (u \div 2^i) % 2
        run    == CHOOSE i \in 1 .. n - 1 :
                     /\ \A j \in 1 .. i : bit(n - 1 - j) = bit(n - 2)
                     /\ i = n - 1 \/ bit(n - 2 - i) # bit(n - 2)
        left   == Max({0, n - 2 - run})
        ebits  == Min({es, left})
        fbits  == left - ebits
        rest   == u % 2^left
        k      == IF bit(n - 2) = 1 THEN run - 1 ELSE -run
    IN  [num |-> 2^fbits + (rest % 2^fbits),
         pow |-> k * 2^es + (rest \div 2^fbits) * 2^(es - ebits) - fbits]

Unity == [num |-> 1, pow |-> 0]

Times(v, w) == [num |-> v.num * w.num, pow |-> v.pow + w.pow]

\* The exponent of the largest power of two that is not above v.  The bound, which
\* serves any v.num, keeps the model checker from trying all numbers up to it.
Size(v) == v.pow + (CHOOSE i \in 0 .. 30 + (v.num \div 2^30) : v.num \div 2^i = 1)

Aligned(v, w) == v.num * 2^Max({0, v.pow - w.pow})

Less(v, w) ==
    IF Size(v) # Size(w) THEN Size(v) < Size(w) ELSE Aligned(v, w) < Aligned(w, v)

Same(v, w) == Size(v) = Size(w) /\ Aligned(v, w) = Aligned(w, v)

\* v + w, or v - w for the smaller w.  A term that is too small to reach any
\* boundary between two words is replaced by another such term.
Plus(v, w, sgn) ==
    IF Size(w) < v.pow - 10 THEN [num |-> 1024 * v.num + sgn, pow |-> v.pow - 10]
    ELSE [num |-> Aligned(v, w) + sgn * Aligned(w, v), pow |-> Min({v.pow, w.pow})]

\* The remainder of v / d: the powers of two between them are taken modulo d.
Remainder(v, d) ==
    LET twos[i \in Nat] == IF i = 0 THEN 1 ELSE (2 * twos[i - 1]) % d.num IN
    IF Less(v, d) THEN v
    ELSE IF v.pow < d.pow THEN [v EXCEPT !.num = @ % (d.num * 2^(d.pow - v.pow))]
    ELSE [num |-> (v.num * twos[v.pow - d.pow]) % d.num, pow |-> d.pow]

\* A word u of a format F, a record of the width n, the precision x and the number
\* es of exponent bits: its sign, its first x bits without the sign, and the number
\* they stand for.
Minus(F, u) == u > 2^(F.n - 1)

Digits(F, u) == (IF Minus(F, u) THEN 2^F.n - u ELSE u) \div 2^(F.n - F.x)

Number(F, u) == Value(F.x, F.es, Digits(F, u))

IsNumber(F, u) == u # 0 /\ u # 2^(F.n - 1)

\* The word z is v / d, with its sign, rounded to the nearest word.  The boundary
\* between two words is the word of one bit more between them; on the boundary
\* the even word wins, and no number is rounded to zero or to NaR.
RoundsTo(F, z, neg, v, d) ==
    LET y   == Digits(F, z)
        top == 2^(F.x - 1) - 1
        lo  == Times(Value(F.x + 1, F.es, 2 * y - 1), d)
        hi  == Times(Value(F.x + 1, F.es, 2 * y + 1), d)
    IN  /\ IsNumber(F, z) /\ Minus(F, z) = neg
        /\ y = 1 \/ Less(lo, v) \/ (y % 2 = 0 /\ Same(lo, v))
        /\ y = top \/ Less(v, hi) \/ (y % 2 = 0 /\ Same(v, hi))

\* The word z is one of the two next to v / d.
NextTo(F, z, neg, v, d) ==
    LET y   == Digits(F, z)
        top == 2^(F.x - 1) - 1
    IN  /\ IsNumber(F, z) /\ Minus(F, z) = neg
        /\ y = 1 \/ Less(Times(Value(F.x, F.es, y - 1), d), v)
        /\ y = top \/ Less(v, Times(Value(F.x, F.es, y + 1), d))

\* The positive word z is the square root of v rounded to the nearest word.
IsRootOf(F, z, v) ==
    LET y      == Digits(F, z)
        top    == 2^(F.x - 1) - 1
        Sq(u)  == Times(Value(F.x + 1, F.es, u), Value(F.x + 1, F.es, u))
    IN  /\ IsNumber(F, z) /\ ~ Minus(F, z)
        /\ y = 1 \/ Less(Sq(2 * y - 1), v) \/ (y % 2 = 0 /\ Same(Sq(2 * y - 1), v))
        /\ y = top \/ Less(v, Sq(2 * y + 1)) \/ (y % 2 = 0 /\ Same(v, Sq(2 * y + 1)))

\* The word u is below the word v as a number, NaR being below all numbers.
BelowWord(F, u, v) ==
    CASE 2^(F.n - 1) \in {u, v} -> u = 2^(F.n - 1) /\ v # u
      [] IsNumber(F, u) /\ v = 0 -> Minus(F, u)
      [] u = 0 /\ v # 2^(F.n - 1) -> v # 0 /\ ~ Minus(F, v)
      [] IsNumber(F, u) /\ IsNumber(F, v) ->
            IF Minus(F, u) # Minus(F, v) THEN Minus(F, u)
            ELSE IF Minus(F, u) THEN Less(Number(F, v), Number(F, u))
            ELSE Less(Number(F, u), Number(F, v))
=============================================================================
