---------------------------- MODULE MCPositObjects ----------------------------
(***************************************************************************)
(* PositObjects with posit8 in its real width and shorter words for the    *)
(* other types.                                                            *)
(***************************************************************************)
EXTENDS PositObjects

\* One, words next to it, the smallest and the largest ones, and some between, of
\* both signs.
MCFactors ==
    [t \in Types |->
        CASE t = "posit8"  -> {1, 51, 64, 85, 127, 200, 255}
          [] t = "posit16" -> {1, 2, 37, 48, 63, 77, 127}
          [] OTHER -> {0, 1, 4, 6, 8, 13, 15, 16, 18, 21, 24, 29, 31, 32, 36, 48, 61, 63}]
===============================================================================
