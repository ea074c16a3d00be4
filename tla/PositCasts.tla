------------------------------ MODULE PositCasts ------------------------------
(***************************************************************************)
(* What turns a posit into something else: the conversions between the     *)
(* types, from and to integers and doubles, roots and rounding to an       *)
(* integral value, as softposit_cpp.h offers them for objects, the         *)
(* operators with a number on the left, and COJAC's wrapper.               *)
(*                                                                         *)
(* obj is an object of a class, of the C type posit_1_t, or a wrapper.     *)
(* call is the last call: the operation, its argument and its result.  A   *)
(* result that is an object may become the next object.                    *)
(***************************************************************************)
EXTENDS WrapperPosit32, PositClasses, PositReference

CONSTANTS Precisions,   \* the precisions of posit_1 and posit_2
          Ints,         \* the integers that are converted
          LeftNumbers,  \* the integers on the left of an operator
          Doubles,      \* the doubles that are converted
          Partners      \* the words that a wrapper is combined with

VARIABLES obj, call

vars == <<obj, call>>

Idle == [op |-> "none"]

\* The types with their precisions.
Targets ==
    [type : {"posit8", "posit16", "posit32"}, x : {W32}]
        \cup [type : {"posit_1", "posit_2"}, x : Precisions]

\* A wrapper's word is that of a posit32.
FormatOf(o) == IF o.type = "wrapper" THEN P32 ELSE Format(o)

(***************************************************************************)
(* The functions p8, p16, p32 and pX2 of softposit_cpp.h, by the type of   *)
(* their argument, and the C functions for posit_1_t.                      *)
(***************************************************************************)

p8(a) ==
    CASE a.type = "posit16" -> p16_to_p8(a.value)
      [] a.type = "posit32" -> p32_to_p8(a.value)
      [] a.type = "posit_1" -> pX1_to_p8(a.value)
      [] a.type = "posit_2" -> pX2_to_p8(a.value)

p16(a) ==
    CASE a.type = "posit8"  -> p8_to_p16(a.value)
      [] a.type = "posit32" -> p32_to_p16(a.value)
      [] a.type = "posit_1" -> pX1_to_p16(a.value)
      [] a.type = "posit_2" -> pX2_to_p16(a.value)

p32(a) ==
    CASE a.type = "posit8"  -> p8_to_p32(a.value)
      [] a.type = "posit16" -> p16_to_p32(a.value)
      [] a.type = "posit_1" -> pX1_to_p32(a.value)
      [] a.type = "posit_2" -> pX2_to_p32(a.value)

pX1(a, x) ==
    CASE a.type = "posit8"  -> p8_to_pX1(a.value, x)
      [] a.type = "posit16" -> p16_to_pX1(a.value, x)
      [] a.type = "posit32" -> p32_to_pX1(a.value, x)
      [] a.type = "posit_1" -> pX1_to_pX1(a.value, x)
      [] a.type = "posit_2" -> pX2_to_pX1(a.value, x)

pX2(a, x) ==
    CASE a.type = "posit8"  -> p8_to_pX2(a.value, x)
      [] a.type = "posit16" -> p16_to_pX2(a.value, x)
      [] a.type = "posit32" -> p32_to_pX2(a.value, x)
      [] a.type = "posit_1" -> pX1_to_pX2(a.value, x)
      [] a.type = "posit_2" -> pX2_to_pX2(a.value, x)

Cast(a, t) ==
    CASE t.type = "posit8"  -> p8(a)
      [] t.type = "posit16" -> p16(a)
      [] t.type = "posit32" -> p32(a)
      [] t.type = "posit_1" -> pX1(a, t.x)
      [] t.type = "posit_2" -> pX2(a, t.x)

\* int32_t keeps the last I32 bits of the longer integer that p32_to_i32 returns.
Int32(i) == LET m == i % 2^I32 IN IF m >= 2^(I32 - 1) THEN m - 2^I32 ELSE m

uint32(a) ==
    CASE a.type = "posit8"  -> p8_to_ui32(a.value)
      [] a.type = "posit16" -> p16_to_ui32(a.value)
      [] a.type = "posit32" -> p32_to_ui32(a.value)
      [] a.type = "posit_1" -> pX1_to_ui32(a.value)
      [] a.type = "posit_2" -> pX2_to_ui32(a.value)

int32(a) ==
    CASE a.type = "posit8"  -> p8_to_i32(a.value)
      [] a.type = "posit16" -> p16_to_i32(a.value)
      [] a.type = "posit32" -> Int32(p32_to_i32(a.value))
      [] a.type = "posit_1" -> pX1_to_i32(a.value)
      [] a.type = "posit_2" -> Int32(pX2_to_i32(a.value))

uint64(a) ==
    CASE a.type = "posit8"  -> p8_to_ui64(a.value)
      [] a.type = "posit16" -> p16_to_ui64(a.value)
      [] a.type = "posit32" -> p32_to_ui64(a.value)
      [] a.type = "posit_1" -> pX1_to_ui64(a.value)
      [] a.type = "posit_2" -> pX2_to_ui64(a.value)

int64(a) ==
    CASE a.type = "posit8"  -> p8_to_i64(a.value)
      [] a.type = "posit16" -> p16_to_i64(a.value)
      [] a.type = "posit32" -> p32_to_i64(a.value)
      [] a.type = "posit_1" -> pX1_to_i64(a.value)
      [] a.type = "posit_2" -> pX2_to_i64(a.value)

toInt(a) ==
    CASE a.type = "posit8"  -> p8_int(a.value)
      [] a.type = "posit16" -> p16_int(a.value)
      [] a.type = "posit32" -> p32_int(a.value)
      [] a.type = "posit_2" -> pX2_int(a.value)

\* p8, p16, p32 and pX2 for an integer, by its kind k.
p8Int(k, i) ==
    CASE k = "i32"  -> i32_to_p8(i)
      [] k = "i64"  -> i64_to_p8(i)
      [] k = "ui32" -> ui32_to_p8(i)
      [] k = "ui64" -> ui64_to_p8(i)

p16Int(k, i) ==
    CASE k = "i32"  -> i32_to_p16(i)
      [] k = "i64"  -> i64_to_p16(i)
      [] k = "ui32" -> ui32_to_p16(i)
      [] k = "ui64" -> ui64_to_p16(i)

p32Int(k, i) ==
    CASE k = "i32"  -> i32_to_p32(i)
      [] k = "i64"  -> i64_to_p32(i)
      [] k = "ui32" -> ui32_to_p32(i)
      [] k = "ui64" -> ui64_to_p32(i)

\* These are the sets of what may be returned.
pX2Int(k, i, x) ==
    CASE k = "i32"  -> {i32_to_pX2(i, x)}
      [] k = "i64"  -> i64_to_pX2(i, x)
      [] k = "ui32" -> {ui32_to_pX2(i, x)}
      [] k = "ui64" -> {ui64_to_pX2(i, x)}

fromInt(t, k, i) ==
    CASE t.type = "posit8"  -> {p8Int(k, i)}
      [] t.type = "posit16" -> {p16Int(k, i)}
      [] t.type = "posit32" -> {p32Int(k, i)}
      [] t.type = "posit_2" -> pX2Int(k, i, t.x)

\* The constructor, the assignment and the functions that take a double; toDouble.
ofDouble(t, d) ==
    CASE t.type = "posit8"  -> convertDoubleToP8(d)
      [] t.type = "posit16" -> convertDoubleToP16(d)
      [] t.type = "posit32" -> convertDoubleToP32(d)
      [] t.type = "posit_1" -> convertDoubleToPX1(d, t.x)
      [] t.type = "posit_2" -> convertDoubleToPX2(d, t.x)
      [] t.type = "wrapper" -> fromDouble(d)

asDouble(a) ==
    CASE a.type = "posit8"  -> convertP8ToDouble(a.value)
      [] a.type = "posit16" -> convertP16ToDouble(a.value)
      [] a.type = "posit32" -> convertP32ToDouble(a.value)
      [] a.type = "posit_1" -> convertPX1ToDouble(a.value)
      [] a.type = "posit_2" -> convertPX2ToDouble(a.value)
      [] a.type = "wrapper" -> toDouble(a.value)

\* sqrt and rint; each may return one of several words.
rootOf(a) ==
    CASE a.type = "posit8"  -> p8_sqrt(a.value)
      [] a.type = "posit16" -> p16_sqrt(a.value)
      [] a.type = "posit32" -> p32_sqrt(a.value)
      [] a.type = "posit_2" -> pX2_sqrt(a.value, a.x)
      [] a.type = "wrapper" -> math_sqrt(a.value)

rint(a) ==
    CASE a.type = "posit8"  -> p8_roundToInt(a.value)
      [] a.type = "posit16" -> p16_roundToInt(a.value)
      [] a.type = "posit32" -> p32_roundToInt(a.value)
      [] a.type = "posit_1" -> pX1_roundToInt(a.value, a.x)
      [] a.type = "posit_2" -> pX2_roundToInt(a.value, a.x)

\* An operator with an integer or a double on the left: the number is converted to
\* the type of the object on the right first.
intLeft(op, i, b) == {Arith(op, Object(b.type, b.x, z), b.value) : z \in fromInt(b, "i32", i)}
longLeft(op, i, b) == {Arith(op, Object(b.type, b.x, z), b.value) : z \in fromInt(b, "i64", i)}
doubleLeft(op, d, b) == Arith(op, Object(b.type, b.x, ofDouble(b, d)), b.value)

(***************************************************************************)
(* The calls.                                                              *)
(***************************************************************************)

Init ==
    /\ call = Idle
    /\ \E t \in Targets \cup {[type |-> "wrapper", x |-> W32]} :
       \E v \in Values(FormatOf(t)) : obj = Object(t.type, t.x, v)

Returns(c) == call' = c /\ UNCHANGED obj

IsPosit == obj.type # "wrapper"

CastTo ==
    /\ call = Idle /\ IsPosit
    /\ \E t \in Targets :
          /\ t.type # obj.type \/ t.type \in {"posit_1", "posit_2"}
          /\ Returns([op |-> "cast", res |-> Object(t.type, t.x, Cast(obj, t))])

\* toRInt is int64.
ToInteger ==
    /\ call = Idle /\ IsPosit
    /\ \/ Returns([op |-> "ui32", res |-> uint32(obj)])
       \/ Returns([op |-> "i32", res |-> int32(obj)])
       \/ Returns([op |-> "ui64", res |-> uint64(obj)])
       \/ Returns([op |-> "i64", res |-> int64(obj)])
       \/ obj.type # "posit_1" /\ Returns([op |-> "toInt", res |-> toInt(obj)])

\* The smallest and the largest integer of a kind.
Bottom(k) == CASE k = "i32" -> -(2^(I32 - 1)) [] k = "i64" -> -(2^(I64 - 1)) [] OTHER -> 0

Top(k) ==
    CASE k = "i32"  -> 2^(I32 - 1) - 1
      [] k = "ui32" -> 2^I32 - 1
      [] k = "i64"  -> 2^(I64 - 1) - 1
      [] k = "ui64" -> 2^I64 - 1

\* A number is assigned to an object that holds zero; what it held does not matter.
FromInteger ==
    /\ call = Idle /\ obj.type \notin {"posit_1", "wrapper"} /\ obj.value = 0
    /\ \E k \in {"i32", "i64", "ui32", "ui64"} : \E i \in Ints :
          /\ i \in Bottom(k) .. Top(k)
          /\ \E z \in fromInt(obj, k, i) :
                Returns([op |-> "ofInt", kind |-> k, arg |-> i, res |-> Object(obj.type, obj.x, z)])

OfDouble ==
    /\ call = Idle /\ obj.value = 0
    /\ \E d \in Doubles :
          Returns([op |-> "ofDouble", arg |-> d, res |-> Object(obj.type, obj.x, ofDouble(obj, d))])

AsDouble == call = Idle /\ Returns([op |-> "asDouble", res |-> asDouble(obj)])

Sqrt ==
    /\ call = Idle /\ obj.type # "posit_1"
    /\ \E z \in rootOf(obj) : Returns([op |-> "sqrt", res |-> Object(obj.type, obj.x, z)])

Rint ==
    /\ call = Idle /\ IsPosit
    /\ Returns([op |-> "rint", res |-> Object(obj.type, obj.x, rint(obj))])

\* The operators with a number on the left, for a few small numbers.
LeftOperator ==
    /\ call = Idle /\ obj.type \notin {"posit_1", "wrapper"}
    /\ \E op \in {"add", "sub", "mul", "div"}, i \in LeftNumbers :
          \/ \E z \in intLeft(op, i, obj)
                    \cup IF obj.type \in {"posit32", "posit_2"} THEN longLeft(op, i, obj) ELSE {} :
                Returns([op |-> "left", kind |-> op, arg |-> i, res |-> Object(obj.type, obj.x, z)])
          \/ Returns([op |-> "left", kind |-> op, arg |-> i,
                      res |-> Object(obj.type, obj.x,
                                     doubleLeft(op, Finite(i < 0, Abs(i), 0), obj))])

ToNaR ==
    /\ call = Idle /\ obj.type \notin {"posit_1", "wrapper"}
    /\ Returns([op |-> "toNaR", res |-> Object(obj.type, obj.x, NaR(Format(obj)))])

\* The methods of the wrapper.
WrapperUnary ==
    /\ call = Idle /\ obj.type = "wrapper"
    /\ \/ Returns([op |-> "dneg", res |-> [obj EXCEPT !.value = dneg(obj.value)]])
       \/ Returns([op |-> "abs", res |-> [obj EXCEPT !.value = math_abs(obj.value)]])

WrapperBinary ==
    /\ call = Idle /\ obj.type = "wrapper"
    /\ \E w \in Partners :
          \/ Returns([op |-> "drem", arg |-> w, res |-> [obj EXCEPT !.value = drem(obj.value, w)]])
          \/ Returns([op |-> "compareTo", arg |-> w, res |-> compareTo(obj.value, w)])
          \/ \E z \in {dadd(obj.value, w), dsub(obj.value, w), dmul(obj.value, w),
                       ddiv(obj.value, w)} \cup math_fma(obj.value, w, w) :
                Returns([op |-> "arith", arg |-> w, res |-> [obj EXCEPT !.value = z]])

\* The result becomes the object, or is dropped.
Keep ==
    /\ call.op \in {"cast", "ofInt", "ofDouble", "sqrt", "rint", "left", "toNaR",
                    "dneg", "abs", "drem", "arith"}
    /\ obj' = call.res /\ call' = Idle

Drop == call # Idle /\ call' = Idle /\ UNCHANGED obj

Next ==
    \/ CastTo \/ ToInteger \/ FromInteger \/ OfDouble \/ AsDouble \/ Sqrt \/ Rint
    \/ LeftOperator \/ ToNaR \/ WrapperUnary \/ WrapperBinary \/ Keep \/ Drop

Spec == Init /\ [][Next]_vars

(***************************************************************************)
(* Properties.                                                             *)
(***************************************************************************)

\* A word of its type and precision.
Proper(o) == o.value \in Values(FormatOf(o))

ReturnsObject ==
    call.op \in {"cast", "ofInt", "ofDouble", "sqrt", "rint", "left", "toNaR",
                 "dneg", "abs", "drem", "arith"}

\* The integers next to the ends of their type, and the precisions that have no
\* room for the exponent bits of such a number, for which the conversions to
\* posit_2 use constants that do not fit the precision.
Mislaid(c) ==
    /\ c.op = "ofInt" /\ c.res.type = "posit_2"
    /\ LET bits   == IF c.kind = "i32" THEN I32 ELSE I64
           lacked == (bits - 1) \div 4 + 5 - c.res.x
       IN  /\ Abs(c.arg) > Limit(bits - 1)
           /\ \/ c.kind = "i32" /\ lacked > 0 /\ (lacked = 1 \/ c.arg < 0)
              \/ c.kind = "i64" /\ lacked \in {1, 2}

\* An object holds a word of its type.  It has the object's precision, as long as
\* none of the integers above has been assigned to a posit_2.
TypeOK ==
    /\ obj.value \in Words(FormatOf(obj))
    /\ ReturnsObject => call.res.value \in Words(FormatOf(call.res))
    /\ (ReturnsObject /\ Proper(obj) /\ ~ Mislaid(call)) => Proper(call.res)

\* The word z of the format G is the number v with its sign, rounded once.
Rightly(G, z, neg, v) == RoundsTo(G, z, neg, v, Unity)

\* A cast from one posit type to another rounds once, whatever the two types and
\* precisions are: a longer type takes the number as it is, a shorter one the
\* nearest word.  Every posit is a double.
CastsRight ==
    (call.op \in {"cast", "asDouble"} /\ IsPosit /\ Proper(obj)) =>
        LET F == Format(obj)
            v == Number(F, obj.value)
        IN  IF call.op = "cast"
            THEN LET G == Format(call.res)
                     z == call.res.value
                 IN  CASE obj.value = 0      -> z = 0
                       [] obj.value = NaR(F) -> z = NaR(G)
                       [] IsNumber(F, obj.value) -> Rightly(G, z, Minus(F, obj.value), v)
            ELSE IsNumber(F, obj.value) =>
                    Same(v, call.res) /\ call.res.neg = Minus(F, obj.value)

Whole(i) == [num |-> Abs(i), pow |-> 0]

\* The integers whose bit pattern the conversions to posit_2 take for NaR.
TakenForNaR(c) ==
    /\ c.res.type = "posit_2"
    /\ \/ c.kind = "ui32" /\ c.arg = 2^(I32 - 1)
       \/ c.kind = "ui64" /\ c.arg = 2^(I64 - 1)
       \/ c.kind = "i64" /\ c.arg = -(2^(I64 - 1))

\* The posit made from an integer is the nearest one.
NearestToInt(c) ==
    IF c.arg = 0 THEN c.res.value = 0
    ELSE Rightly(Format(c.res), c.res.value, c.arg < 0, Whole(c.arg))

\* A posit made from an integer or a double is the nearest one.  Nothing is said of
\* two groups of integers, those that get the word of another precision or the
\* wrong one of their own, and those that are taken for NaR, though the README of
\* SoftPosit (lines 12 and 13) has them tested.
PositsRight ==
    /\ (call.op = "ofInt" /\ ~ Mislaid(call) /\ ~ TakenForNaR(call)) => NearestToInt(call)
    /\ (call.op = "ofDouble" /\ IsPosit) =>
          LET G == Format(call.res) IN
          IF call.arg.kind # "finite" THEN call.res.value = NaR(G)
          ELSE IF call.arg.num = 0 THEN call.res.value = 0
          ELSE Rightly(G, call.res.value, call.arg.neg, call.arg)

\* m is the integer nearest to v, ties to even, or the integral part of v.
NearestInt(m, v) ==
    LET lo == [num |-> 2 * m - 1, pow |-> -1]
        hi == [num |-> 2 * m + 1, pow |-> -1]
    IN  /\ m > 0 => Less(lo, v) \/ (m % 2 = 0 /\ Same(lo, v))
        /\ Less(v, hi) \/ (m % 2 = 0 /\ Same(hi, v))

IntegralPart(m, v) == (m > 0 => ~ Less(v, Whole(m))) /\ Less(v, Whole(m + 1))

\* Where toInt shifts by a negative count.
ShiftedAway(F, v) ==
    /\ F.es > 0 /\ Size(v) >= F.n - 1 - F.es
    /\ F.es = 2 => Size(v) < I64 - 2

\* The integer of a call: the nearest one to the posit, or the integral part for
\* toInt; what is too large saturates, and what is negative is zero for an unsigned
\* type.
RightInteger(c) ==
    LET F   == Format(obj)
        v   == Number(F, obj.value)
        neg == Minus(F, obj.value)
        top == Top(IF c.op = "toInt" THEN "i64" ELSE c.op)
    IN  CASE obj.value = 0 -> c.res = 0
          [] obj.value = NaR(F) -> c.res = IF c.op = "toInt" THEN -(2^(I64 - 1)) ELSE 0
          [] IsNumber(F, obj.value) ->
                IF neg /\ c.op \in {"ui32", "ui64"} THEN c.res = 0
                ELSE IF Less(Whole(top), v)
                     THEN c.res = IF ~ neg THEN top ELSE IF c.op = "toInt" THEN -top ELSE -top - 1
                ELSE /\ c.res # 0 => (c.res < 0) = neg
                     /\ IF c.op = "toInt" THEN IntegralPart(Abs(c.res), v)
                        ELSE NearestInt(Abs(c.res), v)

\* An integer made from a posit is the right one, but for toInt of the large posits
\* of 16 and 32 bits: of these nothing is said, though the README of SoftPosit (line
\* 30) has the operations of posit16 tested.
IntegersRight ==
    (call.op \in {"i32", "i64", "ui32", "ui64", "toInt"} /\ Proper(obj)) =>
        \/ call.op = "toInt" /\ IsNumber(Format(obj), obj.value)
              /\ ShiftedAway(Format(obj), Number(Format(obj), obj.value))
        \/ RightInteger(call)

\* Both directions of the conversions between posits and numbers.
NumbersRight == PositsRight /\ IntegersRight

\* A short posit that rint negates: a negative one so large that the full width has
\* no digits behind the point either.
NegatedByRint(F, u) ==
    /\ F.px /\ F.x <= WholeBits /\ Minus(F, u)
    /\ Number([F EXCEPT !.x = F.n], u).pow >= 0

\* The word z is that of the integral value nearest to the number of the word u,
\* with its sign.
NearestIntegral(F, z, u) ==
    LET v        == Number(F, u)
        w        == Number(F, z)
        integral == IF w.pow >= 0 THEN w.num * 2^w.pow ELSE w.num \div 2^(-w.pow)
    IN  IF z = 0 THEN NearestInt(0, v)
        ELSE /\ IsNumber(F, z) /\ Minus(F, z) = Minus(F, u)
             /\ IF v.pow >= 0 THEN Same(w, v)
                ELSE NearestInt(integral, v) /\ Same(w, Whole(integral))

\* The square root is the nearest word for every error that the estimate may have,
\* and rint the integral value nearest to the number.  Nothing is said of the short
\* negative posits that rint negates, though the README of SoftPosit (line 12) has
\* rint tested in all precisions.
RootsAndRintRight ==
    (call.op \in {"sqrt", "rint"} /\ Proper(obj)) =>
        LET F == FormatOf(obj)
            u == obj.value
            z == call.res.value
        IN  CASE u = 0 -> z = 0
              [] u = NaR(F) -> z = NaR(F)
              [] call.op = "sqrt" /\ IsNumber(F, u) ->
                    IF Minus(F, u) THEN z = NaR(F) ELSE IsRootOf(F, z, Number(F, u))
              [] call.op = "rint" /\ IsNumber(F, u) ->
                    NegatedByRint(F, u) \/ NearestIntegral(F, z, u)

\* The float just below v, or v itself, and the next float.
FloatBelow(v) ==
    LET cut == Max({0, Size(v) - v.pow - (FloatDigits - 1)})
    IN  [num |-> v.num \div 2^cut, pow |-> v.pow + cut]

FloatAbove(v) == [FloatBelow(v) EXCEPT !.num = @ + 1]

\* The float that is v, or the two next to it.
Floats(v) == IF Same(v, FloatBelow(v)) THEN {v} ELSE {FloatBelow(v), FloatAbove(v)}

\* The wrapper computes dneg with posits and is exact.  What goes through floats, the
\* absolute value, the remainder and the conversions from and to doubles, is the
\* exact result rounded once where every operand is a float, and otherwise the
\* exact result, rounded once, for floats next to the operands.  A remainder is
\* zero only if the exact one of the two floats is.  A double beyond the range of floats, for which
\* posits saturate, becomes NaR or zero.  compareTo is a total order with NaR as
\* the smallest value.
WrapperThroughFloats ==
    obj.type = "wrapper" =>
        LET u == obj.value
            v == Number(P32, u)
            z == call.res.value
            Near(neg, n) == \E f \in Floats(n) : Rightly(P32, z, neg, f)
        IN  CASE call.op = "dneg" ->
                    IF IsNumber(P32, u) THEN Rightly(P32, z, ~ Minus(P32, u), v) ELSE z = u
              [] call.op = "abs" -> IF IsNumber(P32, u) THEN Near(FALSE, v) ELSE z = u
              [] call.op = "asDouble" ->
                    IF u = 0 THEN call.res.num = 0
                    ELSE IF u = NaR(P32) THEN call.res = NaN
                    ELSE call.res.neg = Minus(P32, u) /\ \E f \in Floats(v) : Same(call.res, f)
              [] call.op = "ofDouble" ->
                    LET d == call.arg IN
                    IF d.kind # "finite" THEN z = NaR(P32)
                    ELSE IF d.num = 0 THEN z = 0
                    ELSE IF Size(d) > FloatMax THEN z = NaR(P32)
                    ELSE IF Size(d) < FloatMin - FloatDigits THEN z = 0
                    ELSE IF Size(d) >= FloatMin /\ Size(d) < FloatMax THEN Near(d.neg, d)
                    ELSE TRUE
              [] call.op = "drem" ->
                    IF NaR(P32) \in {u, call.arg} \/ call.arg = 0 THEN z = NaR(P32)
                    ELSE IF u = 0 THEN z = 0
                    ELSE \E f \in Floats(v), g \in Floats(Number(P32, call.arg)) :
                            LET r == Remainder(f, g) IN
                            IF r.num = 0 THEN z = 0 ELSE Rightly(P32, z, Minus(P32, u), r)
              [] call.op = "compareTo" ->
                    call.res = IF BelowWord(P32, u, call.arg) THEN -1
                               ELSE IF BelowWord(P32, call.arg, u) THEN 1 ELSE 0
              [] OTHER -> TRUE
===============================================================================
