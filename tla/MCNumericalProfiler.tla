-------------------------- MODULE MCNumericalProfiler --------------------------
(* What the threads of the profiler handle is what SymbPattern finds in the  *)
(* expressions of a program over a few constants.                            *)
EXTENDS NumericalProfiler, SymbPattern, TLC

\* In halves: -1, 0, 0.5, 1, 2 and 10.
MCConstants == {-2, 0, 1, 2, 4, 20}

\* Everything that match finds, and a choice of it for the threads.
Found ==
    {[rec |-> m[1], value |-> Recorded(m[1], match(m[1], m[2]).goal)] :
         m \in {n \in Recommendations \X Expressions : match(n[1], n[2]).ok}}

MCHandled ==
    {h \in Found : \/ h.rec = "FMA"
                   \/ h.rec = "LOG1P" /\ h.value \in {-1, 0, 1}
                   \/ h.rec = "USELESS_ABS" /\ h.value \in {-2, 1}
                   \/ h.rec \in {"PYTH_TO_HYPOT", "HYPOT_TO_PYTH"} /\ h.value \in {2, Infinity}
                   \/ h.rec = "INTPOW" /\ h.value \in {1, 2, 20}}

\* The threads report an expression exactly for the recommendation that describes it,
\* with the value its text speaks of (SymbPattern.match): PatternsExact depends on no
\* state and is looked at before the first match.
PatternsRight == matches = 0 => PatternsExact

\* The threads differ by nothing.
AnyThread == Permutations(Threads)

==============================================================================
