----------------------------- MODULE MCPositCasts -----------------------------
(***************************************************************************)
(* PositCasts with posit8 in its real width and posits, integers and       *)
(* floats of shorter widths in the same order as in C and Java.            *)
(***************************************************************************)
EXTENDS PositCasts

\* The powers of two, their small multiples, which hold the limits of the
\* conversions and patterns that need rounding, and the neighbours of both.
MCInts ==
    {s * (2^k + d) : s \in {-1, 1}, k \in 0 .. I64, d \in {-1, 0, 1}}
        \cup {s * (m * 2^k + d) : s \in {-1, 1}, m \in {3, 5, 7, 11, 15, 21, 27},
                 k \in 0 .. I64 - 3, d \in {-1, 0, 1}}

MCLeftNumbers == {-3, 2}

\* From below the smallest float to above the largest one.
MCDoubles ==
    {NaN, Infinity, Finite(FALSE, 0, 0)}
        \cup {Finite(neg, num, pow) : neg \in BOOLEAN, pow \in -46 .. 44,
                 num \in {1, 3, 5, 7, 11, 13, 21, 27, 31, 65, 97, 127}}

MCPartners == {0, 1, 100, 250, 256, 257, 300, 511, 512, 513, 700, 800, 1023}
===============================================================================
