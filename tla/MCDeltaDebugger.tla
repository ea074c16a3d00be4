-------------------------- MODULE MCDeltaDebugger --------------------------
(* Judges for the model checker: every family over three instructions,     *)
(* monotone or not; over all instructions the judges of the unit tests     *)
(* (SimulatedExecutor), which accept the supersets of one or two sets; and *)
(* over five instructions those that let go of one instruction at a time,  *)
(* in any order, the expensive case for ddMin.                             *)
EXTENDS DeltaDebugger, TLC

Supersets(expected) == {s \in SUBSET AllInstructions : \E x \in expected : x \subseteq s}

Chain(p) == {{p[k] : k \in j .. 4} : j \in 1 .. 3}

MCJudges ==
    SUBSET SUBSET (0 .. 2)
        \cup {Supersets({x, y}) : x, y \in SUBSET AllInstructions}
        \cup {Chain(p) : p \in Permutations(0 .. 4)}

=============================================================================
