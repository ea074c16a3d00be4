------------------------------ MODULE SymbPattern ------------------------------
(***************************************************************************)
(* The patterns of the numerical profiler: the expressions that            *)
(* WrapperSymbolic records, the patterns of the recommendations and        *)
(* SymbPattern.match.  An expression carries its value, as the profiler    *)
(* has evaluate() return it.  Values are those of Recommendation, products   *)
(* rounded down to the next, and the value of a function other than the    *)
(* ones below is of no interest.                                           *)
(***************************************************************************)
EXTENDS Recommendation

CONSTANT Constants     \* the values of the constants of the program

ASSUME ConstantsAssumption == Constants \subseteq Values

\* No subexpression, the right operand of an operator that takes one.
Null == [oper |-> "NULL"]

\* The pattern of any expression, and the one whose value is wanted.
ANY == [oper |-> "ANY", goal |-> FALSE]
GoalANY == [oper |-> "ANY", goal |-> TRUE]

\* Fault: the products are forgotten.
CommutativeSums == {"ADD", "HYPOT"}

\* The operators whose operands may be exchanged.
Commutative == {"ADD", "MUL", "HYPOT"}

Bounded(v) == IF v >= Infinity THEN Infinity ELSE IF v <= -Infinity THEN -Infinity ELSE v

Times(l, r) == Bounded((l * r) \div Unit)

\* The value that the constructor of an operator computes from those of its
\* operands.
Apply(oper, l, r) ==
    CASE oper = "ADD"  -> Bounded(l + r)
      [] oper = "SUB"  -> Bounded(l - r)
      [] oper = "MUL"  -> Times(l, r)
      [] oper = "ABS"  -> Magnitude(l)
      [] OTHER -> 0

NOP(v) == [oper |-> "NOP", value |-> v]

Unary(oper, e) ==
    [oper |-> oper, value |-> Apply(oper, e.value, 0), left |-> e, right |-> Null]

Binary(oper, e, f) ==
    [oper |-> oper, value |-> Apply(oper, e.value, f.value), left |-> e, right |-> f]

\* A pattern for an operator; goal says whether its operands are wanted.
Pattern(oper, left, right, goal) ==
    [oper |-> oper, left |-> left, right |-> right, goal |-> goal]

Product == Pattern("MUL", ANY, ANY, FALSE)

\* The pattern of every recommendation.
PatternOf(rec) ==
    CASE rec = "FMA"    -> Pattern("ADD", Product, ANY, FALSE)
      [] rec = "SCALB"  -> Pattern("MUL", ANY, Pattern("POW", NOP(2 * Unit), ANY, FALSE), FALSE)
      [] rec = "LOG1P"  -> Pattern("LOG", Pattern("ADD", NOP(Unit), GoalANY, FALSE), Null, FALSE)
      [] rec = "EXPM1"  -> Pattern("SUB", Pattern("EXP", ANY, ANY, TRUE), NOP(Unit), FALSE)
      [] rec = "INTPOW" -> Pattern("POW", ANY, ANY, TRUE)
      [] rec = "PYTH_TO_HYPOT" ->
             Pattern("SQRT", Pattern("ADD", Product, Product, FALSE), Null, TRUE)
      [] rec = "HYPOT_TO_PYTH" -> Pattern("HYPOT", ANY, ANY, TRUE)
      [] rec = "USELESS_ABS"   -> Pattern("ABS", ANY, ANY, TRUE)
      [] rec = "SIN_APPROX"    -> Pattern("SIN", ANY, ANY, TRUE)
      [] rec = "COS_APPROX"    -> Pattern("COS", ANY, ANY, TRUE)
      [] rec = "TAN_APPROX"    -> Pattern("TAN", ANY, ANY, TRUE)

\* An operand that is not there has no value to save.
NaN == "NaN"

\* The goal before anything is saved in it.
NoGoal == [left |-> 0, right |-> 0]

\* The values that a match of pattern and candidate leaves in the goal.
saveCandidateValue(pattern, candidate, goal) ==
    LET leaf == candidate.oper = "NOP" \/ pattern.oper = "ANY"
        right == IF candidate.oper = "NOP" \/ candidate.right = Null THEN NaN
                 ELSE candidate.right.value
    IN  IF ~ pattern.goal THEN goal
        ELSE [left |-> IF leaf THEN candidate.value ELSE candidate.left.value, right |-> right]

RECURSIVE Match(_, _, _)

\* Whether the candidate has the form of the pattern, and the goal with what was
\* saved on the way: the operands of a commutative operator are tried both ways,
\* and a first try that fails may leave its values in the goal.
Match(pattern, candidate, goal) ==
    IF pattern = Null THEN [ok |-> candidate = Null, goal |-> goal]
    ELSE IF pattern.oper = "ANY"
         THEN [ok |-> TRUE, goal |-> saveCandidateValue(pattern, candidate, goal)]
    ELSE IF pattern.oper # candidate.oper THEN [ok |-> FALSE, goal |-> goal]
    ELSE IF pattern.oper = "NOP" THEN [ok |-> pattern.value = candidate.value, goal |-> goal]
    ELSE LET Operands(c, d, g) ==
                 LET l == Match(pattern.left, c, g)
                     r == Match(pattern.right, d, l.goal)
                 IN  [ok |-> l.ok /\ r.ok, goal |-> IF l.ok THEN r.goal ELSE l.goal]
             straight == Operands(candidate.left, candidate.right, goal)
             crossed  == Operands(candidate.right, candidate.left, straight.goal)
             found    == IF ~ straight.ok /\ pattern.oper \in Commutative THEN crossed
                         ELSE straight
         IN  [ok |-> found.ok,
              goal |-> IF found.ok THEN saveCandidateValue(pattern, candidate, found.goal)
                       ELSE found.goal]

\* The additional condition of sqrt(a*a + b*b): both products are squares.
Validated(rec, e) ==
    rec = "PYTH_TO_HYPOT" =>
        \A product \in {e.left.left, e.left.right} : product.left.value = product.right.value

\* SymbPattern.match: the goal of a match, or no answer.
match(rec, e) ==
    LET m == Match(PatternOf(rec), e, NoGoal)
    IN  [ok |-> m.ok /\ Validated(rec, e), goal |-> m.goal]

\* What the updater of the recommendation records for a match.
Recorded(rec, goal) ==
    CASE rec = "INTPOW" -> goal.right
      [] rec = "HYPOT_TO_PYTH" -> Bounded(Times(goal.left, goal.left) + Times(goal.right, goal.right))
      [] OTHER -> goal.left

(***************************************************************************)
(* The expressions of a program                                            *)
(***************************************************************************)

Leaves == {NOP(v) : v \in Constants}

Functions1 == {"EXP", "ABS", "SIN", "COS", "TAN"}

\* One operator over constants.
Simple ==
    {Unary(o, e) : o \in Functions1, e \in Leaves}
        \cup {Binary(o, e, f) : o \in {"ADD", "MUL", "POW", "HYPOT"}, e \in Leaves, f \in Leaves}

Products == {e \in Simple : e.oper = "MUL"}

\* The expressions whose last operator was just applied, as handle gets them: one
\* operator, or one over these.
Expressions ==
    Simple
        \cup {Unary("LOG", e) : e \in Simple}
        \cup {Binary("SUB", e, f) : e \in Simple, f \in Leaves}
        \cup {Binary(o, e, f) : o \in {"ADD", "MUL"}, e \in Simple, f \in Leaves}
        \cup {Binary(o, f, e) : o \in {"ADD", "MUL"}, e \in Simple, f \in Leaves}
        \cup {Unary("SQRT", Binary("ADD", e, f)) : e \in Products, f \in Products}

\* What a recommendation is for, written from its text, and the values it is to
\* look at: the operands of op whose value is v.
One(e) == e = NOP(Unit)

Sought(rec, e) ==
    LET Either(A(_, _)) == A(e.left, e.right) \/ A(e.right, e.left)
        terms == {<<e.left.left, e.left.right>>, <<e.left.right, e.left.left>>}
        square(f) == f.oper = "MUL" /\ f.left.value = f.right.value
    IN  CASE rec = "FMA"   -> e.oper = "ADD" /\ Either(LAMBDA f, g : f.oper = "MUL")
          [] rec = "SCALB" -> /\ e.oper = "MUL"
                              /\ Either(LAMBDA f, g : f.oper = "POW" /\ f.left = NOP(2 * Unit))
          [] rec = "LOG1P" -> /\ e.oper = "LOG" /\ e.left.oper = "ADD"
                              /\ \E t \in terms : One(t[1])
          [] rec = "EXPM1" -> e.oper = "SUB" /\ e.left.oper = "EXP" /\ One(e.right)
          [] rec = "PYTH_TO_HYPOT" ->
                 /\ e.oper = "SQRT" /\ e.left.oper = "ADD"
                 /\ square(e.left.left) /\ square(e.left.right)
          [] rec = "INTPOW" -> e.oper = "POW"
          [] rec = "HYPOT_TO_PYTH" -> e.oper = "HYPOT"
          [] rec = "USELESS_ABS" -> e.oper = "ABS"
          [] rec = "SIN_APPROX" -> e.oper = "SIN"
          [] rec = "COS_APPROX" -> e.oper = "COS"
          [] rec = "TAN_APPROX" -> e.oper = "TAN"

\* The values that may be recorded for an expression of the sought form.
Wanted(rec, e) ==
    CASE rec = "LOG1P" -> {t[2].value : t \in {u \in {<<e.left.left, e.left.right>>,
                                                      <<e.left.right, e.left.left>>} : One(u[1])}}
      [] rec = "EXPM1" -> {e.left.left.value}
      [] rec = "INTPOW" -> {e.right.value}
      [] rec = "PYTH_TO_HYPOT" ->
             {Bounded(e.left.left.value + e.left.right.value)}
      [] rec = "HYPOT_TO_PYTH" ->
             {Bounded(Times(e.left.value, e.left.value)
                          + Times(e.right.value, e.right.value))}
      [] OTHER -> {e.left.value}

(***************************************************************************)
(* A recommendation is found for exactly the expressions that its text     *)
(* describes, whatever the order of the operands of a sum or a product,    *)
(* what is recorded is the value its text speaks of, and no expression     *)
(* has two recommendations (SymbPattern.match, NumericalProfiler.handle).  *)
(***************************************************************************)
PatternsExact ==
    \A e \in Expressions :
        /\ \A rec \in Recommendations :
               /\ match(rec, e).ok <=> Sought(rec, e)
               /\ match(rec, e).ok /\ rec \notin {"FMA", "SCALB"} =>
                      Recorded(rec, match(rec, e).goal) \in Wanted(rec, e)
        /\ \A rec1, rec2 \in Recommendations :
               match(rec1, e).ok /\ match(rec2, e).ok => rec1 = rec2
===============================================================================
