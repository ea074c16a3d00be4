------------------------ MODULE MCInstructionListing ------------------------
(* Two classes for the model checker: the first has a method without line  *)
(* numbers after one with two lines, the second a loop, whose line comes   *)
(* again after its body.                                                   *)
EXTENDS InstructionListing, TLC

CONSTANTS A, B

Method(k) == [kind |-> "method", value |-> k]
Line(k) == [kind |-> "line", value |-> k]
Insn(kind) == [kind |-> kind, value |-> 0]

Straight == <<Method(1), Line(5), Insn("other"), Insn("wanted"), Line(6), Insn("wanted"),
              Insn("wanted"), Method(2), Insn("wanted")>>

Loop == <<Method(1), Line(5), Insn("wanted"), Line(6), Insn("other"), Line(5), Insn("wanted")>>

MCCode == (A :> Straight) @@ (B :> Loop)

=============================================================================
