----------------------------- MODULE PositObjects -----------------------------
(***************************************************************************)
(* Arithmetic with objects of the classes posit8, posit16, posit32 and     *)
(* posit_2 of softposit_cpp.h, and of the C type posit_1_t, which has no   *)
(* class.  An object has a word and, for the last two, a precision x.      *)
(*                                                                         *)
(* obj is an object and call is the last call on it that has returned: the *)
(* operator, its operands and its result.  The result is dropped or        *)
(* assigned to the object, which is what += and its like do.               *)
(***************************************************************************)
EXTENDS PositClasses, PositReference

CONSTANTS Types,        \* the types of the run
          Precisions,   \* the precisions of posit_1 and posit_2
          Factors       \* the words that fma multiplies, for each type

ASSUME ObjectsAssumption ==
    /\ Types \subseteq {"posit8", "posit16", "posit32", "posit_1", "posit_2"}
    /\ Precisions \subseteq 2 .. W32

VARIABLES obj, call

vars == <<obj, call>>

Idle == [op |-> "none"]

(***************************************************************************)
(* An object in use.                                                       *)
(***************************************************************************)

Init ==
    /\ call = Idle
    /\ \E t \in Types :
       \E x \in IF t \in {"posit_1", "posit_2"} THEN Precisions ELSE {W32} :
       \E v \in Values(Format(Object(t, x, 0))) :
          obj = Object(t, x, v)

Returns(c) == call' = c /\ UNCHANGED obj

Operator(op) ==
    /\ call = Idle
    /\ \E a \in Values(Format(obj)) :
          Returns([op |-> op, a |-> a, res |-> Arith(op, obj, a)])

Plus_ == Operator("add")

Minus_ == Operator("sub")

Times_ == Operator("mul")

Divide == Operator("div")

FusedMultiplyAdd ==
    /\ call = Idle
    /\ \E a, b \in Factors[obj.type] \cap Values(Format(obj)) : \E z \in Fma(obj, a, b) :
          Returns([op |-> "fma", a |-> a, b |-> b, res |-> z])

Compare ==
    /\ call = Idle /\ obj.type # "posit_1"
    /\ \E a \in Values(Format(obj)) :
          Returns([op |-> "compare", a |-> a, res |-> Comparison(obj, a)])

\* ++ and -- assign to the object at once.
StepByOne ==
    /\ call = Idle /\ obj.type # "posit_1"
    /\ \E op \in {"inc", "dec"} :
          LET z == Step(op, obj) IN
          /\ obj' = [obj EXCEPT !.value = z]
          /\ call' = [op |-> op, a |-> obj.value, res |-> z]

Assign ==
    /\ call.op \in {"add", "sub", "mul", "div", "fma"}
    /\ obj' = [obj EXCEPT !.value = call.res]
    /\ call' = Idle

Drop == call # Idle /\ call' = Idle /\ UNCHANGED obj

Next ==
    \/ Plus_ \/ Minus_ \/ Times_ \/ Divide \/ FusedMultiplyAdd
    \/ Compare \/ StepByOne \/ Assign \/ Drop

Spec == Init /\ [][Next]_vars

(***************************************************************************)
(* Properties.                                                             *)
(***************************************************************************)

\* The object keeps a word of its precision, and the library returns one.
TypeOK ==
    /\ obj.value \in Values(Format(obj))
    /\ call.op \in {"add", "sub", "mul", "div", "fma", "inc", "dec"} =>
          call.res \in Values(Format(obj))

Returned(ops) == call.op \in ops

\* Whatever is lost in rounding, a result is NaR only if an operand is or the divisor
\* is zero, zero only where the exact result is, and has the sign of the exact result:
\* that of the product, or of the sum of the words as signed integers.
SignsAndNaRs ==
    LET F      == Format(obj)
        step   == Returned({"inc", "dec"})
        v      == IF step THEN call.a ELSE obj.value
        a      == IF step THEN One(F) ELSE call.a
        nar    == NaR(F) \in {v, a} \/ (Returned({"div"}) /\ a = 0)
        int(u) == IF Minus(F, u) THEN u - 2^F.n ELSE u
        Like(d) ==
            IF nar THEN call.res = NaR(F)
            ELSE /\ call.res # NaR(F)
                 /\ call.res = 0 <=> d = 0
                 /\ Minus(F, call.res) <=> d < 0
    IN  /\ Returned({"add", "inc"}) => Like(int(v) + int(a))
        /\ Returned({"sub", "dec"}) => Like(int(v) - int(a))
        /\ Returned({"mul", "div"}) => Like(int(v) * int(a))
        /\ Returned({"fma"}) => (call.res = NaR(F) <=> NaR(F) \in {v, a, call.b})

\* The word z is the sum of v and w, with the signs m and n, as Judge has it.
Sums(F, z, m, v, n, w, Judge(_, _, _, _, _)) ==
    LET larger == ~ Less(v, w)
        sum(s) == IF larger THEN Plus(v, w, s) ELSE Plus(w, v, s)
    IN  IF m = n THEN Judge(F, z, m, sum(1), Unity)
        ELSE IF Same(v, w) THEN z = 0
        ELSE Judge(F, z, IF larger THEN m ELSE n, sum(-1), Unity)

\* The result of the call c on the object o, as Judge has it for numbers.
Result(o, c, Judge(_, _, _, _, _)) ==
    LET F     == Format(o)
        step  == c.op \in {"inc", "dec"}
        v     == IF step THEN c.a ELSE o.value
        a     == IF step THEN One(F) ELSE c.a
        minus == c.op \in {"sub", "dec"}
        differ(s, t) == Minus(F, s) # Minus(F, t)
        words == {v, a} \cup (IF c.op = "fma" THEN {c.b} ELSE {})
        Plus_a(neg, w) ==
            IF v = 0 THEN Judge(F, c.res, neg, w, Unity)
            ELSE Sums(F, c.res, Minus(F, v), Number(F, v), neg, w, Judge)
    IN  IF NaR(F) \in words \/ (c.op = "div" /\ a = 0) THEN c.res = NaR(F)
        ELSE CASE c.op \in {"add", "sub", "inc", "dec"} ->
                    IF a = 0 THEN c.res = v ELSE Plus_a(Minus(F, a) # minus, Number(F, a))
               [] c.op = "mul" ->
                    IF 0 \in words THEN c.res = 0
                    ELSE Judge(F, c.res, differ(v, a), Times(Number(F, v), Number(F, a)), Unity)
               [] c.op = "div" ->
                    IF v = 0 THEN c.res = 0
                    ELSE Judge(F, c.res, differ(v, a), Number(F, v), Number(F, a))
               [] c.op = "fma" ->
                    IF 0 \in {a, c.b} THEN c.res = v
                    ELSE Plus_a(differ(a, c.b), Times(Number(F, a), Number(F, c.b)))

\* The result is the right one, or one of the two words next to it.
Right(o, c) == Result(o, c, RoundsTo)

Close(o, c) == Result(o, c, NextTo)

\* An exponent bit of the word z or of a word next to it is cut off by the regime.
Cut(F, z) ==
    \E d \in {-1, 0, 1} :
        LET y == Magnitude(F, z) \div Ulp(F) + d
        IN  y \in 1 .. 2^(F.x - 1) - 1
            /\ LostExpBits(F, RunLength(F, y * Ulp(F))) > 0

Full(o) == o.type = "posit_2" /\ o.x = W32

\* An exponent bit may get lost: in the product of posit32, and in every operation
\* of posit_2 at its full width.
Frail == Full(obj) \/ (obj.type = "posit32" /\ call.op = "mul")

\* Whatever the operands are, and whatever the object went through before: sum,
\* difference, product and quotient are the exact ones, rounded once to the nearest
\* word, ties to even, never to zero or to NaR.  Where an exponent bit may get lost
\* the result is wrong only if the regime leaves no room for the exponent.
RightlyRounded ==
    Returned({"add", "sub", "mul", "div", "inc", "dec"}) =>
        Right(obj, call) \/ (Frail /\ Cut(Format(obj), call.res))

\* The fused operation rounds once for posit8 and posit16; for the others it may
\* lose a sticky bit, and is then still one of the two words next to the exact
\* result.  posit_2 at its full width keeps not even that.
FusedIsClose ==
    (Returned({"fma"}) /\ ~ Full(obj)) =>
        IF obj.type \in {"posit8", "posit16"} THEN Right(obj, call) ELSE Close(obj, call)

\* The order of the words is the order of the numbers, with NaR below all of them:
\* the comparisons are one total order and agree with each other.
OrderOfValues ==
    Returned({"compare"}) =>
        LET Below(u, v) == BelowWord(Format(obj), u, v)
            u == obj.value
            v == call.a
        IN  call.res = [lt |-> Below(u, v), gt |-> Below(v, u), eq |-> u = v, ne |-> u # v,
                        le |-> ~ Below(v, u), ge |-> ~ Below(u, v)]
===============================================================================
