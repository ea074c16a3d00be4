------------------------------ MODULE ExactQuire ------------------------------
(***************************************************************************)
(* What a quire promises: it holds the exact sum of the products it has    *)
(* taken, and rounds once, when it is read.                                *)
(*                                                                         *)
(* The promise has limits, which `type` names: it covers type.capacity     *)
(* products since the quire was last cleared, and only products below      *)
(* 2^type.longest.  Once it is void, `sound` is FALSE until the quire is   *)
(* cleared.  A word within type.frail of zero or of NaR may be the         *)
(* neighbour of the right one.                                             *)
(*                                                                         *)
(* A sum is a record [whole, part]: an integer and a number of units of    *)
(* 2^-type.fraction, so that both parts stay small integers.               *)
(***************************************************************************)
EXTENDS PositReference

VARIABLES type, total, nar, products, sound, out

vars == <<type, total, nar, products, sound, out>>

ZeroSum == [whole |-> 0, part |-> 0]

\* The positive number v as a sum, the sum of two, the negative of one.
AsSum(v) ==
    [whole |-> IF v.pow >= 0 THEN v.num * 2^v.pow ELSE v.num \div 2^(-v.pow),
     part  |-> IF v.pow >= 0 THEN 0 ELSE (v.num % 2^(-v.pow)) * 2^(type.fraction + v.pow)]

AddSums(s, t) ==
    [whole |-> s.whole + t.whole + (s.part + t.part) \div 2^type.fraction,
     part  |-> (s.part + t.part) % 2^type.fraction]

MinusSum(s) ==
    [whole |-> IF s.part = 0 THEN -s.whole ELSE -s.whole - 1,
     part  |-> (2^type.fraction - s.part) % 2^type.fraction]

Before(s, t) == s.whole < t.whole \/ (s.whole = t.whole /\ s.part < t.part)

\* The operands are type.words, words of type.n bits; NaR is the one in the middle.
IsNaR(u) == u = 2^(type.n - 1)

Negated(u) == u > 2^(type.n - 1)

Operand(u) == Value(type.n, type.es, IF Negated(u) THEN 2^type.n - u ELSE u)

Init ==
    /\ total = ZeroSum /\ products = 0 /\ out = 0
    /\ nar = FALSE /\ sound = TRUE

Clear ==
    /\ total' = ZeroSum /\ products' = 0 /\ nar' = FALSE /\ sound' = TRUE
    /\ out' = 0 /\ UNCHANGED type

\* What the product of a and b adds to the sum.
Term(a, b, minus) ==
    LET v == AsSum(Times(Operand(a), Operand(b))) IN
    IF 0 \in {a, b} THEN ZeroSum
    ELSE IF (Negated(a) # Negated(b)) # minus THEN MinusSum(v) ELSE v

\* One product is added, or subtracted.  NaR stays until the quire is cleared.
Accumulate ==
    \E now \in {total}, then \in {total'}, a, b \in type.words :
        /\ products' = products + 1
        /\ nar' = (nar \/ IsNaR(a) \/ IsNaR(b))
        /\ sound' = /\ sound
                    /\ products' <= type.capacity
                    /\ \/ 0 \in {a, b} \/ IsNaR(a) \/ IsNaR(b)
                       \/ Size(Times(Operand(a), Operand(b))) < type.longest
        /\ \/ ~ sound' \/ nar'
           \/ \E minus \in BOOLEAN : then = AddSums(now, Term(a, b, minus))
        /\ out' = 0 /\ UNCHANGED type

\* The sum is negated, where the type has a function for it that works.
Negate ==
    /\ sound' = (sound /\ type.negates) /\ nar' = nar
    /\ (sound' /\ ~ nar) => total' = MinusSum(total)
    /\ out' = 0 /\ UNCHANGED <<type, products>>

\* The word y of type.x bits is the one that the positive sum t is rounded to:
\* the word of one bit more between two words is where the rounding changes.
Rounded(y, t) ==
    LET Half(u) == AsSum(Value(type.x + 1, type.es, u))
        Word(u) == AsSum(Value(type.x, type.es, u))
        top     == 2^(type.x - 1) - 1
        frail   == y <= type.frail \/ y > top - type.frail
    IN  /\ y \in 1 .. top
        /\ \/ /\ y = 1 \/ Before(Half(2 * y - 1), t) \/ (y % 2 = 0 /\ Half(2 * y - 1) = t)
              /\ y = top \/ Before(t, Half(2 * y + 1)) \/ (y % 2 = 0 /\ Half(2 * y + 1) = t)
           \/ /\ frail
              /\ y = 1 \/ Before(Word(y - 1), t)
              /\ y = top \/ Before(t, Word(y + 1))

\* The quire is read: rounded, once.
Read ==
    /\ (sound /\ nar) => out' = 2^(type.x - 1)
    /\ (sound /\ ~ nar) =>
          CASE total = ZeroSum -> out' = 0
            [] Before(ZeroSum, total) -> Rounded(out', total)
            [] Before(total, ZeroSum) -> Rounded(2^type.x - out', MinusSum(total))
    /\ UNCHANGED <<type, total, nar, products, sound>>

Next ==
    \/ Clear
    \/ Read
    \/ Accumulate
    \/ Negate

Spec == Init /\ [][Next]_vars
===============================================================================
