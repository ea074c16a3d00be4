---------------------------- MODULE Recommendation ----------------------------
(***************************************************************************)
(* The recommendations of the numerical profiler and the data they judge:  *)
(* Recommendation and ProfileData.  The values of the program are          *)
(* multiples of 1/Unit, an integer of the model being such a multiple, and *)
(* infinite from Infinity on; NaN is left out.  The mean and the deviation *)
(* are kept as what the judgements ask of them: sum is the mean times      *)
(* count, and spread says that m2 is not zero.                             *)
(***************************************************************************)
EXTENDS Integers

CONSTANTS Infinity,    \* an integer above every finite value
          Unit         \* the integer that stands for the value 1

ASSUME InfinityAssumption == Infinity \in Nat \ {0}

ASSUME UnitAssumption == Unit \in Nat \ {0}

\* Nothing is larger than the infinite values.
Values == -Infinity .. Infinity

Recommendations ==
    {"FMA", "SCALB", "LOG1P", "EXPM1", "INTPOW", "PYTH_TO_HYPOT", "HYPOT_TO_PYTH",
     "USELESS_ABS", "SIN_APPROX", "COS_APPROX", "TAN_APPROX"}

\* The recommendations without a judgement: a match is enough.
DirectMatch == {"FMA", "SCALB"}

Profiled == Recommendations \ DirectMatch

Magnitude(v) == IF v < 0 THEN -v ELSE v
Infinite(v) == Magnitude(v) >= Infinity
Larger(v, w) == IF v < w THEN w ELSE v
Smaller(v, w) == IF v < w THEN v ELSE w

-----------------------------------------------------------------------------

Fields == {"min", "max", "count", "sum", "spread", "overflow"}

Data ==
    [min : Int, max : Int, count : Nat, sum : Int, spread : BOOLEAN, overflow : BOOLEAN]

NoData ==
    [min |-> Infinity, max |-> -Infinity, count |-> 0, sum |-> 0,
     spread |-> FALSE, overflow |-> FALSE]

\* Fault: the last value alone decides about the overflow.
UpdatedOverflow(data, rec, v) ==
    [min      |-> Smaller(data.min, v),
     max      |-> Larger(data.max, v),
     count    |-> data.count + 1,
     sum      |-> data.sum + v,
     spread   |-> data.spread \/ Infinite(v),
     overflow |-> rec \in {"PYTH_TO_HYPOT", "HYPOT_TO_PYTH"} /\ Infinite(v)]

\* The updater of a recommendation: HYPOT and SQRT look for an overflow as well.
\* A value spreads if it differs from the mean of those before it; an infinite one
\* makes m2 NaN, which is as little below a bound.
Updated(data, rec, v) ==
    [min      |-> Smaller(data.min, v),
     max      |-> Larger(data.max, v),
     count    |-> data.count + 1,
     sum      |-> data.sum + v,
     spread   |-> \/ data.spread
                  \/ Infinite(v)
                  \/ data.count > 0 /\ v * data.count # data.sum,
     overflow |-> \/ data.overflow
                  \/ rec \in {"PYTH_TO_HYPOT", "HYPOT_TO_PYTH"} /\ Infinite(v)]

MAX_POW_REPLACEMENT == 5

\* The largest value below the first of the thresholds of a trigonometric function,
\* which are given in decimals.
Threshold(rec) ==
    LET Decimals(k) == (k * Unit) \div 100000
    IN  CASE rec = "SIN_APPROX" -> Decimals(85375)
          [] rec = "COS_APPROX" -> Decimals(126124)
          [] OTHER -> Decimals(63165)

\* std < 1.0E-05, from what finish computed of the data; no value gives NaN.
Finished(data) == data.count > 0 /\ ~data.spread

\* Whether the recommendation is worth being made, small being the outcome of
\* finish.
isRelevant(rec, data, small) ==
    \/ rec \in {"LOG1P", "EXPM1"} /\ data.sum = 0 /\ small
    \/ /\ rec = "INTPOW" /\ data.min = data.max /\ data.max % Unit = 0
       /\ Magnitude(data.max) <= MAX_POW_REPLACEMENT * Unit
    \/ rec = "PYTH_TO_HYPOT" /\ data.overflow
    \/ rec = "HYPOT_TO_PYTH" /\ ~data.overflow
    \/ rec = "USELESS_ABS" /\ (data.max <= 0 \/ data.min >= 0)
    \/ /\ rec \in {"SIN_APPROX", "COS_APPROX", "TAN_APPROX"}
       /\ Larger(Magnitude(data.min), Magnitude(data.max)) <= Threshold(rec)

===============================================================================
