--------------------------- MODULE DeltaDebugger ---------------------------
(***************************************************************************)
(* The ddMin search of com.github.cojac.deltadebugging.DeltaDebugger.      *)
(*                                                                         *)
(* A candidate is a set of instruction indices that stay in double         *)
(* precision; every other listed instruction is computed in float.  The    *)
(* judge is the user's program: it accepts a candidate (exit value 0) or   *)
(* refuses it.  A recursive call of ddMin is always in tail position, so   *)
(* the search is a loop over the arguments (set, n) of the current call.   *)
(***************************************************************************)
EXTENDS Integers, Sequences, FiniteSets

CONSTANTS
    MaxInstructions,  \* bound on the number of instructions an editor lists
    Judges            \* the judges considered, each the family it accepts

ASSUME MaxInstructionsAssumption == MaxInstructions \in Nat

AllInstructions == 0 .. MaxInstructions - 1

ASSUME JudgesAssumption == Judges \subseteq SUBSET SUBSET AllInstructions

VARIABLES
    judge,               \* the candidates the user's program accepts
    nbrOfInstructions,   \* be.getNbrOfInstructions()
    pc,                  \* where the search stands
    set, n,              \* the arguments of the current ddMin call
    subsetList,          \* its local variable, in the order of splitSet
    loop,                \* which isSetValid call of ddMin is being made
    i,                   \* the position in subsetList of that loop
    edited,              \* the last set handed to be.editBehaviours
    ret,                 \* what launchDeltaDebugging returns
    runs                 \* history: executions of the judge, up to MostRuns + 1

ddVars == <<judge, nbrOfInstructions, pc, set, n, subsetList, loop, i,
            edited, ret, runs>>

-----------------------------------------------------------------------------
(* splitSet: consecutive runs of set bits, the first r one longer.         *)

Least(a, b) == IF a <= b THEN a ELSE b
Greatest(a, b) == IF a >= b THEN a ELSE b

\* The number of bits of s below bit e: the bit nextSetBit reaches after
\* Rank(e, s) others.
Rank(e, s) == Cardinality({x \in s : x < e})

\* How many bits the subsets before the j-th (from 0) have taken.
FirstRank(j, q, r) == j * q + Least(j, r)

\* Subset number j (from 1) of the splitting of s into k subsets.
SubsetOf(s, k, j) ==
    LET q == Cardinality(s) \div k
        r == Cardinality(s) % k
    IN  {e \in s : /\ FirstRank(j - 1, q, r) <= Rank(e, s)
                   /\ Rank(e, s) < FirstRank(j, q, r)}

SplitSet(s, k) ==
    LET m == Least(Cardinality(s), k)
    IN  [j \in 1 .. m |-> SubsetOf(s, m, j)]

-----------------------------------------------------------------------------

Universe == 0 .. nbrOfInstructions - 1

\* The granularity doubles until the pieces are single instructions, which
\* costs at most 4 (k - 2) executions for k instructions, and stays there
\* while instructions are dropped: 2 j executions for every size j from k
\* down to 2, and one more for the last instruction.
MostRuns ==
    LET k == nbrOfInstructions
    IN  IF k < 2 THEN k ELSE k * k + 5 * k - 9

\* The set isSetValid is called with: the empty set when one instruction is
\* left, a subset in the first loop, its xor with set in the second one.
Candidate ==
    CASE loop = "empty"       -> {}
      [] loop = "subsets"     -> subsetList[i]
      [] loop = "complements" -> set \ subsetList[i]

DDInit ==
    /\ judge \in Judges
    /\ nbrOfInstructions \in 0 .. MaxInstructions
    /\ pc = "idle"
    /\ set = {} /\ n = 2
    /\ subsetList = <<>> /\ loop = "none" /\ i = 1
    /\ edited = {} /\ ret = {} /\ runs = 0

\* A (tail) call of ddMin(s, k).
Call(s, k) ==
    /\ set' = s
    /\ n' = k
    /\ pc' = "ddMin"
    /\ loop' = "none"
    /\ UNCHANGED <<judge, nbrOfInstructions, subsetList, i, ret>>

\* ddMin returns s, and so does launchDeltaDebugging.
Return(s) ==
    /\ ret' = s
    /\ pc' = "done"
    /\ loop' = "none"
    /\ UNCHANGED <<judge, nbrOfInstructions, set, n, subsetList, i>>

\* The next isSetValid call: position j of loop l.
Try(l, j) ==
    /\ loop' = l
    /\ i' = j
    /\ pc' = "edit"
    /\ UNCHANGED <<judge, nbrOfInstructions, set, n, ret>>

\* Fault: BitSet.set(from, to) taken to include its last index.
LaunchInclusive ==
    /\ pc = "idle"
    /\ Call(0 .. nbrOfInstructions, 2)
    /\ UNCHANGED <<edited, runs>>

Launch ==
    /\ pc = "idle"
    /\ Call(Universe, 2)
    /\ UNCHANGED <<edited, runs>>

DdMin ==
    /\ pc = "ddMin"
    /\ \/ /\ set = {}
          /\ Return(set)
       \/ /\ Cardinality(set) = 1
          /\ Try("empty", 1)
          /\ UNCHANGED subsetList
       \/ /\ Cardinality(set) > 1
          /\ subsetList' = SplitSet(set, n)
          /\ Try("subsets", 1)
    /\ UNCHANGED <<edited, runs>>

\* First half of isSetValid: the editor writes the behaviours file.
EditBehaviours ==
    /\ pc = "edit"
    /\ edited' = Candidate
    /\ pc' = "exec"
    /\ UNCHANGED <<judge, nbrOfInstructions, set, n, subsetList, loop, i, ret, runs>>

\* Faults: the rest of the set instead of the part; back to the coarsest
\* granularity after a part has been dropped.
AcceptedRest ==
    \/ loop = "empty"       /\ Return({})
    \/ loop = "subsets"     /\ Call(set \ Candidate, 2)
    \/ loop = "complements" /\ Call(Candidate, Greatest(n - 1, 2))

AcceptedRestart ==
    \/ loop = "empty"       /\ Return({})
    \/ loop = "subsets"     /\ Call(Candidate, 2)
    \/ loop = "complements" /\ Call(Candidate, 2)

\* The judge accepts: ddMin goes on with the candidate.
Accepted ==
    \/ loop = "empty"       /\ Return({})
    \/ loop = "subsets"     /\ Call(Candidate, 2)
    \/ loop = "complements" /\ Call(Candidate, Greatest(n - 1, 2))

\* The judge refuses: the next candidate, the next loop, or no candidate left.
Refused ==
    \/ loop = "empty" /\ Return(set)
    \/ /\ loop \in {"subsets", "complements"}
       /\ i < Len(subsetList)
       /\ Try(loop, i + 1)
       /\ UNCHANGED subsetList
    \/ /\ loop = "subsets"
       /\ i = Len(subsetList)
       /\ Try("complements", 1)
       /\ UNCHANGED subsetList
    \/ /\ loop = "complements"
       /\ i = Len(subsetList)
       /\ pc' = "refine"
       /\ loop' = "none"
       /\ UNCHANGED <<judge, nbrOfInstructions, set, n, subsetList, i, ret>>

\* Second half of isSetValid: the verdict of one execution of the judge.
Verdict(valid) ==
    /\ pc = "exec"
    /\ runs' = Least(runs + 1, MostRuns + 1)
    /\ IF valid THEN Accepted ELSE Refused
    /\ UNCHANGED edited

Execute == Verdict(edited \in judge)

\* Faults: no refinement up to single instructions; no refinement at all.
RefineTooShort ==
    /\ pc = "refine"
    /\ \/ /\ 2 * n < Cardinality(set)
          /\ Call(set, 2 * n)
          /\ UNCHANGED edited
       \/ /\ 2 * n >= Cardinality(set)
          /\ edited' = set
          /\ Return(set)
    /\ UNCHANGED runs

RefineSameGranularity ==
    /\ pc = "refine"
    /\ \/ /\ n < Cardinality(set)
          /\ Call(set, n)
          /\ UNCHANGED edited
       \/ /\ n >= Cardinality(set)
          /\ edited' = set
          /\ Return(set)
    /\ UNCHANGED runs

\* No candidate of this granularity is accepted: a finer one, or a minimum.
Refine ==
    /\ pc = "refine"
    /\ \/ /\ n < Cardinality(set)
          /\ Call(set, 2 * n)
          /\ UNCHANGED edited
       \/ /\ n >= Cardinality(set)
          /\ edited' = set
          /\ Return(set)
    /\ UNCHANGED runs

Done == pc = "done" /\ UNCHANGED ddVars

DDNext == Launch \/ DdMin \/ EditBehaviours \/ Execute \/ Refine \/ Done

DDSpec == DDInit /\ [][DDNext]_ddVars

-----------------------------------------------------------------------------

DDTypeOK ==
    /\ judge \in SUBSET SUBSET AllInstructions
    /\ nbrOfInstructions \in 0 .. MaxInstructions
    /\ pc \in {"idle", "ddMin", "edit", "exec", "refine", "done"}
    /\ set \in SUBSET Universe
    /\ n \in Nat /\ n >= 2
    /\ subsetList \in Seq(SUBSET Universe)
    /\ loop \in {"none", "empty", "subsets", "complements"}
    /\ i \in Nat /\ i >= 1
    /\ edited \in SUBSET Universe
    /\ ret \in SUBSET Universe
    /\ runs \in 0 .. MostRuns + 1

\* "Finds one local minimum set that still valid" (DeltaDebugger.java:45),
\* first half: every set the search narrows down to is one the judge has
\* accepted, and so is the result; only the full set is never executed.
StillValid ==
    /\ pc \notin {"idle", "done"} => set = Universe \/ set \in judge
    /\ pc = "done" => ret = Universe \/ ret \in judge

\* Second half: the result is a local minimum.  Turning any single
\* instruction of it to float as well makes the judge refuse, for every
\* judge, monotone or not.
OneMinimal ==
    pc = "done" => \A e \in ret : ret \ {e} \notin judge

\* A run of the judge is a run of a whole virtual machine.  Whatever the judge
\* answers, the search executes it at most a quadratic number of times.
QuadraticRuns == runs <= MostRuns

=============================================================================
