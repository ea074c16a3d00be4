----------------------------- MODULE MCDeltaApp -----------------------------
(* Sessions over at most three instructions, from no file, from one of     *)
(* another version of the program, and from a solution of an earlier day.  *)
EXTENDS DeltaApp

Supersets(expected) == {s \in SUBSET AllInstructions : \E x \in expected : x \subseteq s}

\* Judges that accept the supersets of one or two sets, and some that refuse
\* a program the more of it stays in double.
MCJudges ==
    {Supersets({x, y}) : x, y \in SUBSET AllInstructions}
        \cup {{{0, 1}, {0, 1, 2}, {1}}, {{0}, {1, 2}, {0, 1, 2}}, {{0, 2}, {0, 1}}, {}}

MCFirstFiles == {Unreadable, Listing(2, {0}), Listing(3, {0, 1, 2})}

=============================================================================
