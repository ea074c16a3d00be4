---------------------------- MODULE MCQuireObjects ----------------------------
(***************************************************************************)
(* QuireObjects with the shortest posits that have all their parts.        *)
(***************************************************************************)
EXTENDS QuireObjects

\* The smallest and the largest words, one and its neighbours, NaR and negative
\* words.
MCOperands ==
    [c \in Classes |->
        CASE c = "quire8"  -> {3, 7, 8, 9}
          [] c = "quire16" -> {1, 3, 4, 6, 7, 8, 15}
          [] OTHER         -> {1, 5, 8, 13, 15, 16, 31}]

\* quire8 goes one product beyond what its carry bits hold.
MCMaxProducts == [c \in Classes |-> IF c = "quire8" THEN 8 ELSE 2]
===============================================================================
