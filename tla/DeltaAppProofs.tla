--------------------------- MODULE DeltaAppProofs ---------------------------
(***************************************************************************)
(* Proofs, for any number of instructions and any family of judges, that   *)
(* ddMin returns a valid local minimum (DeltaDebugger.java:45), after no   *)
(* more executions than it may cost; and, for any judge, first file,       *)
(* program size and number of failures and kills, of the invariants of     *)
(* DeltaApp: what a session leaves in the behaviours file and what it says *)
(* at its end.  With an up-to-date file and no failure, the session's      *)
(* search is the one of DeltaDebugger.                                     *)
(***************************************************************************)
EXTENDS DeltaApp, FiniteSetTheorems, TLAPS

-----------------------------------------------------------------------------
(* Ranks: the position of a bit among the bits of a set.                   *)

LEMMA RankType ==
    ASSUME NEW S \in SUBSET Nat, IsFiniteSet(S), NEW e \in S
    PROVE  Rank(e, S) \in Nat /\ Rank(e, S) < Cardinality(S)
<1> DEFINE B == {x \in S : x < e}
<1>1. B \in SUBSET S /\ e \notin B
  OBVIOUS
<1>2. IsFiniteSet(B) /\ Cardinality(B) <= Cardinality(S) /\ Cardinality(B) # Cardinality(S)
  BY <1>1, FS_Subset
<1>3. Cardinality(B) \in Nat /\ Cardinality(S) \in Nat
  BY <1>2, FS_CardinalityType
<1> QED
  BY <1>2, <1>3 DEF Rank

LEMMA RankMonotone ==
    ASSUME NEW S \in SUBSET Nat, IsFiniteSet(S), NEW e \in S, NEW f \in S, e < f
    PROVE  Rank(e, S) < Rank(f, S)
<1> DEFINE B == {x \in S : x < e}
           C == {x \in S : x < f}
<1>0. e \in Nat /\ f \in Nat /\ \A x \in S : x \in Nat
  OBVIOUS
<1>a. \A x \in S : x < e => x < f
  BY <1>0
<1>b. ~(e < e)
  BY <1>0
<1>1. C \in SUBSET S /\ B \in SUBSET C /\ e \in C /\ e \notin B
  BY <1>a, <1>b
<1>2. IsFiniteSet(C)
  BY <1>1, FS_Subset
<1>3. IsFiniteSet(B) /\ Cardinality(B) <= Cardinality(C) /\ Cardinality(B) # Cardinality(C)
  BY <1>1, <1>2, FS_Subset
<1>4. Cardinality(B) \in Nat /\ Cardinality(C) \in Nat
  BY <1>2, <1>3, FS_CardinalityType
<1> QED
  BY <1>3, <1>4 DEF Rank

LEMMA RankInjective ==
    ASSUME NEW S \in SUBSET Nat, IsFiniteSet(S), NEW e \in S, NEW f \in S,
           Rank(e, S) = Rank(f, S)
    PROVE  e = f
<1>1. CASE e < f
  BY <1>1, RankMonotone, RankType
<1>2. CASE f < e
  BY <1>2, RankMonotone, RankType
<1> QED
  BY <1>1, <1>2

-----------------------------------------------------------------------------
(* splitSet                                                                *)

LEMMA SplitShape ==
    ASSUME NEW S, IsFiniteSet(S), Cardinality(S) > 1, NEW k \in Nat, k >= 2
    PROVE  /\ SplitSet(S, k) \in Seq(SUBSET S)
           /\ Len(SplitSet(S, k)) = Least(Cardinality(S), k)
           /\ Len(SplitSet(S, k)) >= 2
<1> DEFINE m == Least(Cardinality(S), k)
<1>1. m \in Nat /\ m >= 2
  BY FS_CardinalityType DEF Least
<1>2. SplitSet(S, k) = [j \in 1 .. m |-> SubsetOf(S, m, j)]
  BY DEF SplitSet
<1>3. \A j \in 1 .. m : SubsetOf(S, m, j) \in SUBSET S
  BY DEF SubsetOf
<1> HIDE DEF m
<1>4. SplitSet(S, k) \in [1 .. m -> SUBSET S]
  BY <1>2, <1>3
<1>5. SplitSet(S, k) \in Seq(SUBSET S) /\ Len(SplitSet(S, k)) = m
  BY <1>1, <1>4
<1> QED
  BY <1>1, <1>5 DEF m

\* At full granularity the pieces are the single instructions.
LEMMA SplitIntoSingletons ==
    ASSUME NEW S \in SUBSET Nat, IsFiniteSet(S), Cardinality(S) > 1,
           NEW k \in Nat, k >= Cardinality(S), NEW e \in S
    PROVE  \E j \in 1 .. Len(SplitSet(S, k)) : SplitSet(S, k)[j] = {e}
<1> DEFINE c == Cardinality(S)
           j == Rank(e, S) + 1
<1>1. c \in Nat /\ c > 1
  BY FS_CardinalityType
<1>2. Least(Cardinality(S), k) = c
  BY <1>1 DEF Least
<1>3. j \in 1 .. c
  BY <1>1, RankType
<1>4. SplitSet(S, k) = [p \in 1 .. c |-> SubsetOf(S, c, p)]
  BY <1>2 DEF SplitSet
<1>5. Len(SplitSet(S, k)) = c
  <2>1. k >= 2
    BY <1>1
  <2> QED
    BY <1>2, <2>1, SplitShape
<1>6. c \div c = 1 /\ c % c = 0
  BY <1>1
<1>7. FirstRank(j - 1, 1, 0) = j - 1 /\ FirstRank(j, 1, 0) = j
  BY <1>1, <1>3 DEF FirstRank, Least
<1>8. SubsetOf(S, c, j) = {x \in S : j - 1 <= Rank(x, S) /\ Rank(x, S) < j}
  BY <1>6, <1>7 DEF SubsetOf
<1>9. \A x \in S : j - 1 <= Rank(x, S) /\ Rank(x, S) < j <=> x = e
  <2> SUFFICES ASSUME NEW x \in S
               PROVE  j - 1 <= Rank(x, S) /\ Rank(x, S) < j <=> x = e
    OBVIOUS
  <2>1. Rank(x, S) \in Nat /\ Rank(e, S) \in Nat
    BY RankType
  <2>2. j - 1 <= Rank(x, S) /\ Rank(x, S) < j <=> Rank(x, S) = Rank(e, S)
    BY <2>1
  <2> QED
    BY <2>2, RankInjective
<1>10. SubsetOf(S, c, j) = {e}
  BY <1>8, <1>9
<1> QED
  BY <1>3, <1>4, <1>5, <1>10

-----------------------------------------------------------------------------
(* Type correctness, with the shape of the state between two steps.        *)

Trying == pc \in {"edit", "exec"}

DDShape ==
    /\ Trying => \/ loop = "empty" /\ Cardinality(set) = 1
                 \/ /\ loop \in {"subsets", "complements"}
                    /\ Cardinality(set) > 1
                    /\ subsetList = SplitSet(set, n)
                    /\ i \in 1 .. Len(subsetList)
    /\ pc = "refine" => Cardinality(set) > 1 /\ subsetList = SplitSet(set, n)
    /\ pc = "exec" => edited = Candidate

DDInd == DDTypeOK /\ DDShape

LEMMA MostRunsType ==
    ASSUME NEW k \in Nat, nbrOfInstructions = k
    PROVE  MostRuns \in Nat
<1>1. CASE k < 2
  BY <1>1 DEF MostRuns
<1>2. CASE k >= 2
  <2>1. k * k \in Nat /\ k * k >= 2 * k
    BY <1>2, SMTT(30)
  <2> QED
    BY <1>2, <2>1 DEF MostRuns
<1> QED
  BY <1>1, <1>2

LEMMA UniverseFinite ==
    ASSUME DDTypeOK, NEW S \in SUBSET Universe
    PROVE  IsFiniteSet(S) /\ Cardinality(S) \in Nat /\ S \in SUBSET Nat
<1>1. nbrOfInstructions \in Nat
  BY MaxInstructionsAssumption DEF DDTypeOK
<1>2. IsFiniteSet(Universe)
  BY <1>1, FS_Interval DEF Universe
<1>3. IsFiniteSet(S)
  BY <1>2, FS_Subset
<1> QED
  BY <1>1, <1>3, FS_CardinalityType DEF Universe

\* What is tried is a part of the current set.
LEMMA CandidateType ==
    ASSUME DDInd, Trying
    PROVE  Candidate \in SUBSET set
<1>1. CASE loop = "empty"
  BY <1>1 DEF Candidate
<1>2. CASE loop \in {"subsets", "complements"}
  <2>1. Cardinality(set) > 1 /\ subsetList = SplitSet(set, n) /\ i \in 1 .. Len(subsetList)
    BY <1>2 DEF DDInd, DDShape
  <2>2. SplitSet(set, n) \in Seq(SUBSET set)
    BY <2>1, UniverseFinite, SplitShape DEF DDInd, DDTypeOK
  <2>3. subsetList[i] \in SUBSET set
    BY <2>1, <2>2
  <2> QED
    BY <1>2, <2>3 DEF Candidate
<1> QED
  BY <1>1, <1>2 DEF DDInd, DDShape

LEMMA IndInit == DDInit => DDInd
<1> SUFFICES ASSUME DDInit PROVE DDInd
  OBVIOUS
<1>1. nbrOfInstructions \in Nat
  BY MaxInstructionsAssumption DEF DDInit
<1>2. runs \in 0 .. MostRuns + 1
  BY <1>1, MostRunsType DEF DDInit
<1>3. DDTypeOK
  BY <1>1, <1>2, JudgesAssumption DEF DDInit, DDTypeOK, Universe
<1> QED
  BY <1>3 DEF DDInd, DDInit, DDShape, Trying

\* A verdict moves the search on, whatever the answer.
LEMMA IndVerdict ==
    ASSUME DDInd, NEW valid \in BOOLEAN, Verdict(valid)
    PROVE  DDInd'
<1> USE DEF Verdict, DDInd
<1>1. runs' \in 0 .. MostRuns' + 1
  <2>1. nbrOfInstructions \in Nat /\ nbrOfInstructions' = nbrOfInstructions
    BY MaxInstructionsAssumption
    DEF DDTypeOK, Accepted, Refused, Call, Return, Try
  <2>2. MostRuns \in Nat /\ MostRuns' = MostRuns
    BY <2>1, MostRunsType DEF MostRuns
  <2> QED
    BY <2>2 DEF DDTypeOK, Least
<1>2. Candidate \in SUBSET Universe
  BY CandidateType DEF Trying, DDTypeOK
<1>3. Len(subsetList) \in Nat /\ Greatest(n - 1, 2) \in Nat /\ Greatest(n - 1, 2) >= 2
  BY DEF DDTypeOK, Greatest
<1>4. CASE Accepted
  <2>1. CASE Return({})
    BY <1>1, <2>1 DEF Return, DDTypeOK, DDShape, Trying, Universe
  <2>2. CASE Call(Candidate, 2)
    BY <1>1, <1>2, <2>2 DEF Call, DDTypeOK, DDShape, Trying, Universe
  <2>3. CASE Call(Candidate, Greatest(n - 1, 2))
    BY <1>1, <1>2, <1>3, <2>3 DEF Call, DDTypeOK, DDShape, Trying, Universe
  <2> QED
    BY <1>4, <2>1, <2>2, <2>3 DEF Accepted
<1>5. CASE Refused
  <2>1. CASE Return(set)
    BY <1>1, <2>1 DEF Return, DDTypeOK, DDShape, Trying, Universe
  <2>2. CASE /\ loop \in {"subsets", "complements"} /\ i < Len(subsetList)
             /\ Try(loop, i + 1) /\ UNCHANGED subsetList
    <3>1. DDTypeOK'
      BY <1>1, <2>2 DEF Try, DDTypeOK, Universe
    <3>2. i + 1 \in 1 .. Len(subsetList)
      BY <1>3, <2>2 DEF DDTypeOK
    <3> QED
      BY <2>2, <3>1, <3>2 DEF Try, DDShape, Trying
  <2>3. CASE /\ loop = "subsets" /\ i = Len(subsetList)
             /\ Try("complements", 1) /\ UNCHANGED subsetList
    <3>1. DDTypeOK'
      BY <1>1, <2>3 DEF Try, DDTypeOK, Universe
    <3>2. 1 \in 1 .. Len(subsetList)
      BY <1>3, <2>3 DEF DDTypeOK
    <3> QED
      BY <2>3, <3>1, <3>2 DEF Try, DDShape, Trying
  <2>4. CASE /\ loop = "complements" /\ i = Len(subsetList)
             /\ pc' = "refine" /\ loop' = "none"
             /\ UNCHANGED <<judge, nbrOfInstructions, set, n, subsetList, i, ret>>
    <3>1. DDTypeOK'
      BY <1>1, <2>4 DEF DDTypeOK, Universe
    <3> QED
      BY <2>4, <3>1 DEF DDShape, Trying
  <2> QED
    BY <1>5, <2>1, <2>2, <2>3, <2>4 DEF Refused
<1> QED
  BY <1>4, <1>5

LEMMA IndNext == DDInd /\ [DDNext]_ddVars => DDInd'
<1> SUFFICES ASSUME DDInd, [DDNext]_ddVars PROVE DDInd'
  OBVIOUS
<1> USE DEF DDInd
<1>1. CASE Launch
  BY <1>1 DEF Launch, Call, DDTypeOK, DDShape, Trying, Universe, MostRuns
<1>2. CASE DdMin
  <2>1. CASE set = {} /\ Return(set) /\ UNCHANGED <<edited, runs>>
    BY <2>1 DEF Return, DDTypeOK, DDShape, Trying, Universe, MostRuns
  <2>2. CASE /\ Cardinality(set) = 1 /\ Try("empty", 1) /\ UNCHANGED subsetList
             /\ UNCHANGED <<edited, runs>>
    BY <2>2 DEF Try, DDTypeOK, DDShape, Trying, Universe, MostRuns
  <2>3. CASE /\ Cardinality(set) > 1 /\ subsetList' = SplitSet(set, n)
             /\ Try("subsets", 1) /\ UNCHANGED <<edited, runs>>
    <3>1. set \in SUBSET Universe /\ IsFiniteSet(set) /\ n \in Nat /\ n >= 2
      BY UniverseFinite DEF DDTypeOK
    <3>2. /\ SplitSet(set, n) \in Seq(SUBSET set)
          /\ Len(SplitSet(set, n)) >= 2
      BY <2>3, <3>1, SplitShape
    <3>3. SplitSet(set, n) \in Seq(SUBSET Universe)
      BY <3>1, <3>2
    <3> QED
      BY <2>3, <3>2, <3>3 DEF Try, DDTypeOK, DDShape, Trying, Universe, MostRuns
  <2> QED
    BY <1>2, <2>1, <2>2, <2>3 DEF DdMin
<1>3. CASE EditBehaviours
  <2>1. Candidate \in SUBSET Universe
    BY <1>3, CandidateType DEF EditBehaviours, Trying, DDTypeOK
  <2> QED
    BY <1>3, <2>1 DEF EditBehaviours, DDTypeOK, DDShape, Trying, Universe, MostRuns, Candidate
<1>4. CASE Execute
  <2> HIDE DEF DDInd
  <2>1. Verdict(edited \in judge) /\ (edited \in judge) \in BOOLEAN
    BY <1>4 DEF Execute
  <2> QED
    BY <2>1, IndVerdict
<1>5. CASE Refine
  <2>1. CASE Call(set, 2 * n) /\ UNCHANGED <<edited, runs>>
    <3>1. 2 * n \in Nat /\ 2 * n >= 2
      BY DEF DDTypeOK
    <3> QED
      BY <2>1, <3>1 DEF Call, DDTypeOK, DDShape, Trying, Universe, MostRuns
  <2>2. CASE edited' = set /\ Return(set) /\ UNCHANGED runs
    BY <2>2 DEF Return, DDTypeOK, DDShape, Trying, Universe, MostRuns
  <2> QED
    BY <1>5, <2>1, <2>2 DEF Refine
<1>6. CASE UNCHANGED ddVars
  BY <1>6 DEF ddVars, DDTypeOK, DDShape, Trying, Universe, MostRuns, Candidate
<1> QED
  BY <1>1, <1>2, <1>3, <1>4, <1>5, <1>6 DEF DDNext, Done

\* The search keeps its types for any number of instructions: the set, the
\* candidates and the result stay within the listed instructions and the
\* granularity never falls below 2.
THEOREM DDTypeCorrect == DDSpec => []DDTypeOK
  BY IndInit, IndNext, PTL DEF DDSpec, DDInd

-----------------------------------------------------------------------------
(* Validity: the search only moves to a set it has just seen accepted.     *)

LEMMA ValidNext == DDInd /\ StillValid /\ [DDNext]_ddVars => StillValid'
<1> SUFFICES ASSUME DDInd, StillValid, [DDNext]_ddVars PROVE StillValid'
  OBVIOUS
<1> USE DEF StillValid, Universe
<1>1. CASE Launch
  BY <1>1 DEF Launch, Call
<1>2. CASE DdMin
  BY <1>2 DEF DdMin, Return, Try
<1>3. CASE EditBehaviours
  BY <1>3 DEF EditBehaviours
<1>4. CASE Execute
  <2>1. edited = Candidate /\ pc = "exec" /\ (loop = "empty" => Candidate = {})
    BY <1>4 DEF Execute, Verdict, DDInd, DDShape, Candidate
  <2>2. CASE edited \in judge /\ Accepted
    BY <2>1, <2>2 DEF Accepted, Return, Call
  <2>3. CASE edited \notin judge /\ Refused
    BY <2>1, <2>3 DEF Refused, Return, Try
  <2> QED
    BY <1>4, <2>2, <2>3 DEF Execute, Verdict
<1>5. CASE Refine
  BY <1>5 DEF Refine, Call, Return
<1>6. CASE UNCHANGED ddVars
  BY <1>6 DEF ddVars
<1> QED
  BY <1>1, <1>2, <1>3, <1>4, <1>5, <1>6 DEF DDNext, Done

\* "Finds one local minimum set that still valid", first half: for every
\* judge, what launchDeltaDebugging returns is the full set or was accepted.
THEOREM ResultStillValid == DDSpec => []StillValid
<1>1. DDInit => StillValid
  BY DEF DDInit, StillValid
<1> QED
  BY <1>1, IndInit, IndNext, ValidNext, PTL DEF DDSpec

-----------------------------------------------------------------------------
(* Minimality: the complements loop remembers, in its position, the parts  *)
(* that cannot be left out; when the parts are single instructions and the *)
(* loop is over, the set is a local minimum.                               *)

\* The first m parts cannot be left out.
Needed(m) == \A j \in 1 .. m : set \ subsetList[j] \notin judge

MinInv ==
    /\ Trying /\ loop = "complements" => Needed(i - 1)
    /\ pc = "refine" => Needed(Len(subsetList))
    /\ OneMinimal

LEMMA MinNext == DDInd /\ MinInv /\ [DDNext]_ddVars => MinInv'
<1> SUFFICES ASSUME DDInd, MinInv, [DDNext]_ddVars PROVE MinInv'
  OBVIOUS
<1> USE DEF MinInv, Trying
<1>1. CASE Launch
  BY <1>1 DEF Launch, Call, OneMinimal
<1>2. CASE DdMin
  BY <1>2 DEF DdMin, Return, Try, OneMinimal
<1>3. CASE EditBehaviours
  BY <1>3 DEF EditBehaviours, OneMinimal, Needed
<1>4. CASE Execute
  <2>1. edited = Candidate /\ pc = "exec"
    BY <1>4 DEF Execute, Verdict, DDInd, DDShape
  <2>2. CASE edited \in judge /\ Accepted
    BY <2>1, <2>2 DEF Accepted, Return, Call, OneMinimal
  <2>3. CASE edited \notin judge /\ Refused
    <3>1. i \in Nat /\ Len(subsetList) \in Nat
      BY DEF DDInd, DDTypeOK
    <3>2. loop = "complements" => Needed(i)
      <4> SUFFICES ASSUME loop = "complements", NEW j \in 1 .. i
                   PROVE  set \ subsetList[j] \notin judge
        BY DEF Needed
      <4>1. CASE j = i
        BY <2>1, <2>3, <4>1 DEF Candidate
      <4>2. CASE j \in 1 .. i - 1
        BY <2>1, <4>2 DEF Needed
      <4> QED
        BY <3>1, <4>1, <4>2
    <3>3. CASE loop = "empty" /\ Return(set)
      <4>1. Cardinality(set) = 1 /\ IsFiniteSet(set)
        BY <2>1, <3>3, UniverseFinite DEF DDInd, DDShape, DDTypeOK
      <4>2. PICK x : set = {x}
        BY <4>1, FS_Singleton
      <4>3. {} \notin judge
        BY <2>1, <2>3, <3>3 DEF Candidate
      <4> QED
        BY <3>3, <4>2, <4>3 DEF Return, OneMinimal
    <3>4. CASE /\ loop \in {"subsets", "complements"} /\ i < Len(subsetList)
               /\ Try(loop, i + 1) /\ UNCHANGED subsetList
      <4>1. loop' = "complements" => Needed(i - 1)'
        BY <3>1, <3>2, <3>4 DEF Try, Needed
      <4> QED
        BY <3>4, <4>1 DEF Try, OneMinimal
    <3>5. CASE /\ loop = "subsets" /\ i = Len(subsetList)
               /\ Try("complements", 1) /\ UNCHANGED subsetList
      BY <3>5 DEF Try, Needed, OneMinimal
    <3>6. CASE /\ loop = "complements" /\ i = Len(subsetList)
               /\ pc' = "refine" /\ loop' = "none"
               /\ UNCHANGED <<judge, nbrOfInstructions, set, n, subsetList, i, ret>>
      BY <3>2, <3>6 DEF Needed, OneMinimal
    <3> QED
      BY <2>3, <3>3, <3>4, <3>5, <3>6 DEF Refused
  <2> QED
    BY <1>4, <2>2, <2>3 DEF Execute, Verdict
<1>5. CASE Refine
  <2>1. CASE Call(set, 2 * n)
    BY <2>1 DEF Call, OneMinimal
  <2>2. CASE n >= Cardinality(set) /\ Return(set)
    <3>1. /\ pc = "refine" /\ Cardinality(set) > 1 /\ subsetList = SplitSet(set, n)
          /\ set \in SUBSET Universe /\ n \in Nat
      BY <1>5 DEF Refine, DDInd, DDShape, DDTypeOK
    <3>2. IsFiniteSet(set) /\ set \in SUBSET Nat
      BY <3>1, UniverseFinite DEF DDInd
    <3>3. ASSUME NEW e \in set PROVE set \ {e} \notin judge
      <4>0. \E j \in 1 .. Len(SplitSet(set, n)) : SplitSet(set, n)[j] = {e}
        BY <2>2, <3>1, <3>2, SplitIntoSingletons
      <4>1. PICK j \in 1 .. Len(subsetList) : subsetList[j] = {e}
        BY <3>1, <4>0
      <4> QED
        BY <3>1, <4>1 DEF Needed
    <3> QED
      BY <2>2, <3>3 DEF Return, OneMinimal
  <2> QED
    BY <1>5, <2>1, <2>2 DEF Refine
<1>6. CASE UNCHANGED ddVars
  BY <1>6 DEF ddVars, OneMinimal, Needed
<1> QED
  BY <1>1, <1>2, <1>3, <1>4, <1>5, <1>6 DEF DDNext, Done

\* Second half: for every judge, monotone or not, and any number of
\* instructions, no single instruction of the result can be dropped.
THEOREM ResultOneMinimal == DDSpec => []OneMinimal
<1>1. DDInit => MinInv
  BY DEF DDInit, MinInv, Trying, OneMinimal
<1>2. MinInv => OneMinimal
  BY DEF MinInv
<1> QED
  BY <1>1, <1>2, IndInit, IndNext, MinNext, PTL DEF DDSpec

-----------------------------------------------------------------------------
(* The parts of splitSet: none is empty, none leaves too little for the    *)
(* m - 1 others.                                                           *)

\* Every rank below the number of bits is the rank of a bit.
LEMMA RankOnto ==
    ASSUME NEW S \in SUBSET Nat, IsFiniteSet(S), NEW p \in 0 .. Cardinality(S) - 1
    PROVE  \E e \in S : Rank(e, S) = p
<1> DEFINE c == Cardinality(S)
           f == [e \in S |-> Rank(e, S)]
<1>1. c \in Nat
  BY FS_CardinalityType
<1>2. f \in [S -> 0 .. c - 1]
  BY <1>1, RankType
<1>3. f \in Injection(S, 0 .. c - 1)
  BY <1>2, RankInjective DEF Injection, IsInjective
<1>4. IsFiniteSet(0 .. c - 1) /\ Cardinality(0 .. c - 1) = c
  BY <1>1, FS_Interval
<1>5. f \in Surjection(S, 0 .. c - 1)
  <2> HIDE DEF f
  <2> QED
    BY <1>3, <1>4, FS_Injection
<1> QED
  BY <1>5 DEF Surjection

\* The bits of a set whose ranks lie in an interval are at most as many.
LEMMA RanksWithin ==
    ASSUME NEW S \in SUBSET Nat, IsFiniteSet(S), NEW a \in Nat, NEW b \in Nat, a < b
    PROVE  Cardinality({e \in S : a <= Rank(e, S) /\ Rank(e, S) < b}) <= b - a
<1> DEFINE T == {e \in S : a <= Rank(e, S) /\ Rank(e, S) < b}
           f == [e \in T |-> Rank(e, S)]
<1>0. \A e \in T : e \in S /\ Rank(e, S) \in a .. b - 1
  BY RankType
<1>1. f \in [T -> a .. b - 1]
  BY <1>0
<1>2. f \in Injection(T, a .. b - 1)
  <2>1. \A x, y \in T : f[x] = f[y] => x = y
    BY <1>0, RankInjective
  <2>2. DOMAIN f = T
    OBVIOUS
  <2> HIDE DEF f, T
  <2> QED
    BY <1>1, <2>1, <2>2 DEF Injection, IsInjective
<1>3. IsFiniteSet(a .. b - 1) /\ Cardinality(a .. b - 1) = b - a
  <2>1. a \in Int /\ b - 1 \in Int /\ b - 1 - a + 1 = b - a /\ ~(a > b - 1)
    OBVIOUS
  <2> HIDE DEF f, T
  <2> QED
    BY <2>1, FS_Interval
<1>4. Cardinality(T) <= Cardinality(a .. b - 1)
  <2> HIDE DEF f, T
  <2> QED
    BY <1>2, <1>3, FS_Injection
<1> QED
  BY <1>3, <1>4

LEMMA PartSize ==
    ASSUME NEW S \in SUBSET Nat, IsFiniteSet(S),
           NEW m \in 2 .. Cardinality(S), NEW j \in 1 .. m
    PROVE  /\ IsFiniteSet(SubsetOf(S, m, j))
           /\ Cardinality(SubsetOf(S, m, j)) \in Nat
           /\ SubsetOf(S, m, j) # {}
           /\ Cardinality(SubsetOf(S, m, j)) <= Cardinality(S) - m + 1
<1> DEFINE c == Cardinality(S)
           q == c \div m
           r == c % m
           a == FirstRank(j - 1, q, r)
           b == FirstRank(j, q, r)
<1>1. c \in Nat /\ m \in Nat /\ m >= 2 /\ m <= c /\ j \in Nat /\ 1 <= j /\ j <= m
  BY FS_CardinalityType
<1>2. q \in Nat /\ r \in Nat /\ r < m /\ c = q * m + r
  BY <1>1, SMTT(30)
<1>3. q >= 1
  <2>1. q = 0 => q * m = 0
    BY <1>1
  <2> QED
    BY <1>1, <1>2, <2>1
<1>4. SubsetOf(S, m, j) = {e \in S : a <= Rank(e, S) /\ Rank(e, S) < b}
  BY DEF SubsetOf
<1> HIDE DEF q, r
<1>5. (j - 1) * q \in Nat /\ j * q = (j - 1) * q + q
  BY <1>1, <1>2, SMTT(30)
<1>6. j * q + (m - j) * q = q * m /\ (m - j) * q \in Nat
  BY <1>1, <1>2, SMTT(30)
<1>7. a \in Nat /\ b \in Nat /\ a < b /\ b <= c
  BY <1>1, <1>2, <1>3, <1>5, <1>6 DEF FirstRank, Least
<1>8. b - a <= c - m + 1
  <2>1. (q - 1) * (m - 1) >= 0 /\ (q - 1) * (m - 1) = q * m - q - m + 1
    BY <1>1, <1>2, <1>3, SMTT(30)
  <2>2. CASE r = 0
    <3>1. b - a = q
      BY <1>1, <1>2, <1>5, <2>2 DEF FirstRank, Least
    <3> HIDE DEF a, b
    <3> QED
      BY <1>1, <1>2, <2>1, <2>2, <3>1
  <2>3. CASE r >= 1
    <3>1. b - a <= q + 1
      BY <1>1, <1>2, <1>5 DEF FirstRank, Least
    <3> HIDE DEF a, b
    <3> QED
      BY <1>1, <1>2, <1>7, <2>1, <2>3, <3>1
  <2> QED
    BY <1>2, <2>2, <2>3
<1> HIDE DEF a, b
<1>9. SubsetOf(S, m, j) \in SUBSET S
  BY <1>4
<1>10. IsFiniteSet(SubsetOf(S, m, j)) /\ Cardinality(SubsetOf(S, m, j)) \in Nat
  BY <1>9, FS_Subset, FS_CardinalityType
<1>11. SubsetOf(S, m, j) # {}
  <2>1. a \in 0 .. Cardinality(S) - 1
    BY <1>1, <1>7
  <2>2. PICK e \in S : Rank(e, S) = a
    BY <2>1, RankOnto
  <2> QED
    BY <1>4, <1>7, <2>2
<1>12. Cardinality(SubsetOf(S, m, j)) <= b - a
  BY <1>4, <1>7, RanksWithin
<1> QED
  BY <1>1, <1>7, <1>8, <1>10, <1>11, <1>12

-----------------------------------------------------------------------------
(* The cost of the search: a budget of executions that every move of the   *)
(* search can afford.                                                      *)

\* What the search costs at most from c instructions on when the pieces are
\* single instructions: all of them, and all complements, for every size from
\* c down to 2, and the last instruction.
Sweep(c) == IF c = 0 THEN 0 ELSE c * c + c - 1

\* And with k pieces: 2 k executions before every doubling of k.
Ahead(c, k) == IF k >= c THEN Sweep(c) ELSE Sweep(c) + 4 * (c - 1) - 2 * k

LEMMA AheadType ==
    ASSUME NEW c \in Nat, NEW k \in Nat
    PROVE  c * c \in Nat /\ Ahead(c, k) \in Int /\ Ahead(c, k) >= 0
<1>1. c * c \in Nat /\ (c >= 1 => c * c >= c)
  BY SMTT(30)
<1> QED
  BY <1>1 DEF Ahead, Sweep

\* The first call is within the bound.
LEMMA LaunchAffordable ==
    ASSUME NEW k \in Nat, nbrOfInstructions = k
    PROVE  Ahead(k, 2) <= MostRuns
<1>1. CASE k < 2
  BY <1>1 DEF Ahead, Sweep, MostRuns
<1>2. CASE k = 2
  BY <1>2 DEF Ahead, Sweep, MostRuns
<1>3. CASE k > 2
  <2>1. k * k \in Nat
    BY AheadType
  <2> QED
    BY <1>3, <2>1 DEF Ahead, Sweep, MostRuns
<1> QED
  BY <1>1, <1>2, <1>3

\* A round of both loops can be afforded.
LEMMA RoundAffordable ==
    ASSUME NEW c \in Nat, NEW k \in Nat, c >= 2, k >= 2
    PROVE  2 * Least(c, k) <= Ahead(c, k)
<1>1. c * c \in Nat /\ c * c >= 2 * c
  BY SMTT(30)
<1> QED
  BY <1>1 DEF Ahead, Sweep, Least

\* After a refused round, doubling the granularity can be afforded.
LEMMA DoublingAffordable ==
    ASSUME NEW c \in Nat, NEW k \in Nat, c >= 2, k >= 2, k < c
    PROVE  Ahead(c, 2 * k) <= Ahead(c, k) - 2 * k
<1>1. c * c \in Nat
  BY AheadType
<1> QED
  BY <1>1 DEF Ahead, Sweep

\* Going on with a part pays for the parts tried until it was accepted.
LEMMA PartAffordable ==
    ASSUME NEW c \in Nat, NEW k \in Nat, c >= 2, k >= 2,
           NEW p \in Nat, p <= c - Least(c, k) + 1
    PROVE  Ahead(p, 2) + Least(c, k) <= Ahead(c, k)
<1>1. c * c \in Nat /\ p * p \in Nat /\ c * c >= 2 * c
  BY SMTT(30)
<1>2. p <= c => p * p <= c * c
  BY SMTT(30)
<1>3. CASE k >= c
  BY <1>1, <1>3 DEF Ahead, Sweep, Least
<1>4. CASE k < c
  BY <1>1, <1>2, <1>4 DEF Ahead, Sweep, Least
<1> QED
  BY <1>3, <1>4

\* The executions of a round, once they are spent.
LEMMA RoundPaid ==
    ASSUME NEW spent \in Nat, NEW most \in Nat, NEW m \in Nat, NEW j \in Nat, j <= m,
           NEW before \in Int, NEW after \in Int,
           after + 2 * m <= before, spent + before - m - (j - 1) <= most
    PROVE  spent + 1 + after <= most
OBVIOUS

\* So does going on without a part for a whole round, with one piece less.
LEMMA RestAffordable ==
    ASSUME NEW c \in Nat, NEW k \in Nat, c >= 2, k >= 2,
           NEW d \in Nat, d <= c - 1
    PROVE  Ahead(d, Greatest(k - 1, 2)) + 2 * Least(c, k) <= Ahead(c, k)
<1>1. c * c \in Nat /\ d * d \in Nat
  BY SMTT(30)
<1>2. d * d <= c * c - 2 * c + 1
  <2>1. d * d <= (c - 1) * (c - 1)
    BY SMTT(30)
  <2>2. (c - 1) * (c - 1) = c * c - 2 * c + 1
    BY SMTT(30)
  <2> QED
    BY <2>1, <2>2
<1>3. CASE k >= c
  BY <1>1, <1>2, <1>3 DEF Ahead, Sweep, Least, Greatest
<1>4. CASE k < c
  BY <1>1, <1>2, <1>4 DEF Ahead, Sweep, Least, Greatest
<1> QED
  BY <1>3, <1>4

Budget == Ahead(Cardinality(set), n)

\* What has been spent and what lies ahead stay within the bound together.
Affordable ==
    /\ pc = "idle" => runs = 0
    /\ pc = "ddMin" => runs + Budget <= MostRuns
    /\ Trying /\ loop = "empty" => runs + 1 <= MostRuns
    /\ Trying /\ loop = "subsets" => runs + Budget - (i - 1) <= MostRuns
    /\ Trying /\ loop = "complements" =>
           runs + Budget - Len(subsetList) - (i - 1) <= MostRuns
    /\ pc = "refine" => runs + Budget - 2 * Len(subsetList) <= MostRuns
    /\ runs <= MostRuns

\* The numbers of a state, between any two steps.
LEMMA BudgetType ==
    ASSUME DDInd
    PROVE  /\ nbrOfInstructions \in Nat /\ MostRuns \in Nat /\ runs \in Nat
           /\ IsFiniteSet(set) /\ Cardinality(set) \in Nat /\ set \in SUBSET Nat
           /\ n \in Nat /\ n >= 2 /\ i \in Nat /\ i >= 1
           /\ Budget \in Int /\ Budget >= 0
           /\ Len(subsetList) \in Nat
<1>1. nbrOfInstructions \in Nat
  BY MaxInstructionsAssumption DEF DDInd, DDTypeOK
<1>2. MostRuns \in Nat
  BY <1>1, MostRunsType
<1>3. IsFiniteSet(set) /\ Cardinality(set) \in Nat /\ set \in SUBSET Nat
  BY UniverseFinite DEF DDInd, DDTypeOK
<1>4. n \in Nat /\ n >= 2 /\ i \in Nat /\ i >= 1 /\ Len(subsetList) \in Nat /\ runs \in Nat
  BY <1>2 DEF DDInd, DDTypeOK
<1>5. Budget \in Int /\ Budget >= 0
  BY <1>3, <1>4, AheadType DEF Budget
<1> QED
  BY <1>1, <1>2, <1>3, <1>4, <1>5

\* In either loop, and after them, a whole round is at most the budget.
LEMMA RoundOfLoops ==
    ASSUME DDInd, (Trying /\ loop \in {"subsets", "complements"}) \/ pc = "refine"
    PROVE  /\ Cardinality(set) >= 2
           /\ subsetList = SplitSet(set, n)
           /\ Len(subsetList) = Least(Cardinality(set), n)
           /\ 2 * Len(subsetList) <= Budget
           /\ pc # "refine" => i <= Len(subsetList)
<1>1. Cardinality(set) > 1 /\ subsetList = SplitSet(set, n)
  BY DEF DDInd, DDShape, Trying
<1>2. Len(subsetList) = Least(Cardinality(set), n)
  BY <1>1, BudgetType, SplitShape
<1>3. 2 * Len(subsetList) <= Budget
  BY <1>1, <1>2, BudgetType, RoundAffordable DEF Budget
<1>4. pc # "refine" => i <= Len(subsetList)
  BY BudgetType DEF DDInd, DDShape
<1> QED
  BY <1>1, <1>2, <1>3, <1>4, BudgetType

\* The sizes of what is tried: a part is small, and leaves a smaller rest.
LEMMA TriedSize ==
    ASSUME DDInd, Trying, loop \in {"subsets", "complements"}
    PROVE  /\ Cardinality(Candidate) \in Nat
           /\ loop = "subsets" =>
                  Cardinality(Candidate) <= Cardinality(set) - Len(subsetList) + 1
           /\ loop = "complements" => Cardinality(Candidate) <= Cardinality(set) - 1
<1> DEFINE c == Cardinality(set)
           m == Len(subsetList)
           part == subsetList[i]
<1>1. /\ IsFiniteSet(set) /\ set \in SUBSET Nat
      /\ c \in Nat /\ c >= 2 /\ n \in Nat /\ n >= 2
      /\ m = Least(c, n) /\ subsetList = SplitSet(set, n) /\ i \in 1 .. m
  BY BudgetType, RoundOfLoops DEF Trying
<1>2. m \in 2 .. c
  BY <1>1 DEF Least
<1>3. part = SubsetOf(set, m, i)
  BY <1>1 DEF SplitSet
<1>4. IsFiniteSet(part) /\ Cardinality(part) \in Nat /\ part # {} /\ Cardinality(part) <= c - m + 1
  BY <1>1, <1>2, <1>3, PartSize
<1>5. CASE loop = "subsets"
  BY <1>4, <1>5 DEF Candidate
<1>6. CASE loop = "complements"
  <2>1. part \in SUBSET set
    BY <1>3 DEF SubsetOf
  <2>2. set \ part \in SUBSET set /\ set \ part # set
    BY <1>4, <2>1
  <2>3. /\ Cardinality(set \ part) \in Nat
        /\ Cardinality(set \ part) <= c /\ Cardinality(set \ part) # c
    BY <1>1, <2>2, FS_Subset, FS_CardinalityType
  <2> QED
    BY <1>1, <1>6, <2>3 DEF Candidate
<1> QED
  BY <1>5, <1>6

LEMMA AffordableNext == DDInd /\ Affordable /\ [DDNext]_ddVars => Affordable'
<1> SUFFICES ASSUME DDInd, Affordable, [DDNext]_ddVars PROVE Affordable'
  OBVIOUS
<1> DEFINE c == Cardinality(set)
           m == Len(subsetList)
<1>0. /\ nbrOfInstructions \in Nat /\ MostRuns \in Nat /\ runs \in Nat /\ m \in Nat
      /\ c \in Nat /\ n \in Nat /\ n >= 2 /\ i \in Nat /\ i >= 1
      /\ Budget \in Int /\ Budget >= 0
  BY BudgetType
<1>1. CASE Launch
  <2>1. Cardinality(Universe) = nbrOfInstructions
    <3>1. 0 \in Int /\ nbrOfInstructions - 1 \in Int
          /\ nbrOfInstructions - 1 - 0 + 1 = nbrOfInstructions
          /\ (0 > nbrOfInstructions - 1 => nbrOfInstructions = 0)
      BY <1>0
    <3> HIDE DEF c, m
    <3> QED
      BY <3>1, FS_Interval DEF Universe
  <2>2. Ahead(nbrOfInstructions, 2) <= MostRuns
    BY <1>0, LaunchAffordable
  <2>3. Budget' = Ahead(nbrOfInstructions, 2) /\ MostRuns' = MostRuns
    BY <1>1, <2>1 DEF Launch, Call, Budget, MostRuns
  <2>4. pc' = "ddMin" /\ runs' = 0
    BY <1>1 DEF Launch, Call, Affordable
  <2>5. runs' + Budget' <= MostRuns' /\ runs' <= MostRuns'
    <3>1. Ahead(nbrOfInstructions, 2) \in Int
      BY <1>0, AheadType
    <3> QED
      BY <1>0, <2>2, <2>3, <2>4, <3>1
  <2> QED
    BY <2>4, <2>5 DEF Affordable, Trying
<1>2. CASE DdMin
  <2>1. runs + Budget <= MostRuns /\ runs' = runs
    BY <1>2 DEF DdMin, Affordable
  <2>2. CASE Return(set)
    BY <2>1, <2>2 DEF Return, Affordable, Trying, MostRuns
  <2>3. CASE c = 1 /\ Try("empty", 1)
    <3>1. Budget >= 1
      BY <1>0, <2>3 DEF Budget, Ahead, Sweep
    <3>2. pc' = "edit" /\ loop' = "empty" /\ MostRuns' = MostRuns
      BY <2>3 DEF Try, MostRuns
    <3> QED
      BY <1>0, <2>1, <3>1, <3>2 DEF Affordable, Trying
  <2>4. CASE c > 1 /\ Try("subsets", 1)
    <3>1. /\ pc' = "edit" /\ loop' = "subsets" /\ i' = 1
          /\ MostRuns' = MostRuns /\ Budget' = Budget
      BY <2>4 DEF Try, MostRuns, Budget
    <3> QED
      BY <1>0, <2>1, <3>1 DEF Affordable, Trying
  <2> QED
    BY <1>2, <2>2, <2>3, <2>4 DEF DdMin
<1>3. CASE EditBehaviours
  BY <1>3 DEF EditBehaviours, Affordable, Trying, MostRuns, Budget
<1>4. CASE Execute
  <2>1. Trying /\ pc = "exec" /\ edited = Candidate
    BY <1>4 DEF Execute, Verdict, Trying, DDInd, DDShape
  <2>2. CASE loop = "empty"
    <3>1. pc' = "done" /\ MostRuns' = MostRuns
      BY <1>4, <2>2 DEF Execute, Verdict, Accepted, Refused, Return, MostRuns
    <3>2. runs' <= MostRuns
      BY <1>0, <1>4, <2>1, <2>2 DEF Execute, Verdict, Least, Affordable
    <3> QED
      BY <3>1, <3>2 DEF Affordable, Trying
  <2>3. CASE loop \in {"subsets", "complements"}
    <3>1. /\ c >= 2 /\ m = Least(c, n) /\ 2 * m <= Budget /\ i <= m
      BY <2>1, <2>3, RoundOfLoops
    <3>2. runs + 1 <= MostRuns /\ runs' = runs + 1
      <4>1. runs + 1 <= MostRuns
        BY <1>0, <2>1, <2>3, <3>1 DEF Affordable
      <4> QED
        BY <1>0, <1>4, <4>1 DEF Execute, Verdict, Least
    <3>3. CASE edited \in judge
      <4>1. CASE loop = "subsets"
        <5>1. Cardinality(Candidate) \in Nat /\ Cardinality(Candidate) <= c - m + 1
          BY <2>1, <4>1, TriedSize
        <5>2. Ahead(Cardinality(Candidate), 2) + m <= Budget
          BY <1>0, <3>1, <5>1, PartAffordable DEF Budget
        <5>3. /\ pc' = "ddMin" /\ MostRuns' = MostRuns
              /\ Budget' = Ahead(Cardinality(Candidate), 2)
          BY <1>4, <3>3, <4>1 DEF Execute, Verdict, Accepted, Call, Budget, MostRuns
        <5>4. Budget' \in Int
          BY <5>1, <5>3, AheadType
        <5>5. runs + Budget - (i - 1) <= MostRuns
          BY <2>1, <4>1 DEF Affordable
        <5>6. runs' + Budget' <= MostRuns'
          BY <1>0, <3>1, <3>2, <5>2, <5>3, <5>4, <5>5
        <5> QED
          BY <3>2, <5>3, <5>6 DEF Affordable, Trying
      <4>2. CASE loop = "complements"
        <5>1. Cardinality(Candidate) \in Nat /\ Cardinality(Candidate) <= c - 1
          BY <2>1, <4>2, TriedSize
        <5>2. Ahead(Cardinality(Candidate), Greatest(n - 1, 2)) + 2 * m <= Budget
          BY <1>0, <3>1, <5>1, RestAffordable DEF Budget
        <5>3. /\ pc' = "ddMin" /\ MostRuns' = MostRuns
              /\ Budget' = Ahead(Cardinality(Candidate), Greatest(n - 1, 2))
          BY <1>4, <3>3, <4>2 DEF Execute, Verdict, Accepted, Call, Budget, MostRuns
        <5>4. Budget' \in Int
          <6>1. Greatest(n - 1, 2) \in Nat
            BY <1>0 DEF Greatest
          <6> QED
            BY <5>1, <5>3, <6>1, AheadType
        <5>5. runs + Budget - m - (i - 1) <= MostRuns
          BY <2>1, <4>2 DEF Affordable
        <5>6. runs' + Budget' <= MostRuns'
          <6>1. i <= m /\ Budget' + 2 * m <= Budget
            BY <3>1, <5>2, <5>3
          <6>2. runs + 1 + Budget' <= MostRuns
            BY <1>0, <5>4, <5>5, <6>1, RoundPaid
          <6> QED
            BY <3>2, <5>3, <6>2
        <5> QED
          BY <3>2, <5>3, <5>6 DEF Affordable, Trying
      <4> QED
        BY <2>3, <4>1, <4>2
    <3>4. CASE edited \notin judge
      <4>0. Refused
        BY <1>4, <3>4 DEF Execute, Verdict
      <4>1. /\ loop = "subsets" => runs + Budget - (i - 1) <= MostRuns
            /\ loop = "complements" => runs + Budget - m - (i - 1) <= MostRuns
        BY <2>1 DEF Affordable
      <4>2. CASE /\ i < Len(subsetList)
                 /\ Try(loop, i + 1) /\ UNCHANGED subsetList
        <5>1. /\ pc' = "edit" /\ loop' = loop /\ i' = i + 1 /\ Len(subsetList)' = m
              /\ MostRuns' = MostRuns /\ Budget' = Budget
          BY <4>2 DEF Try, MostRuns, Budget
        <5> QED
          BY <1>0, <2>3, <3>2, <4>1, <5>1 DEF Affordable, Trying
      <4>3. CASE /\ loop = "subsets" /\ i = Len(subsetList)
                 /\ Try("complements", 1) /\ UNCHANGED subsetList
        <5>1. /\ pc' = "edit" /\ loop' = "complements" /\ i' = 1 /\ Len(subsetList)' = m
              /\ MostRuns' = MostRuns /\ Budget' = Budget
          BY <4>3 DEF Try, MostRuns, Budget
        <5> QED
          BY <1>0, <3>2, <4>1, <4>3, <5>1 DEF Affordable, Trying
      <4>4. CASE /\ loop = "complements" /\ i = Len(subsetList)
                 /\ pc' = "refine" /\ loop' = "none"
                 /\ UNCHANGED <<judge, nbrOfInstructions, set, n, subsetList, i, ret>>
        <5>1. Len(subsetList)' = m /\ MostRuns' = MostRuns /\ Budget' = Budget
          BY <4>4 DEF MostRuns, Budget
        <5> QED
          BY <1>0, <3>2, <4>1, <4>4, <5>1 DEF Affordable, Trying
      <4> QED
        BY <2>3, <4>0, <4>2, <4>3, <4>4 DEF Refused
    <3> QED
      BY <3>3, <3>4
  <2> QED
    BY <2>1, <2>2, <2>3 DEF DDInd, DDShape
<1>5. CASE Refine
  <2>1. runs' = runs /\ runs + Budget - 2 * m <= MostRuns
    BY <1>5 DEF Refine, Affordable
  <2>2. CASE n < c /\ Call(set, 2 * n)
    <3>1. c >= 2 /\ m = n
      BY <1>0, <1>5, <2>2, RoundOfLoops DEF Refine, Least
    <3>2. Ahead(c, 2 * n) <= Budget - 2 * n
      BY <1>0, <2>2, <3>1, DoublingAffordable DEF Budget
    <3>3. pc' = "ddMin" /\ MostRuns' = MostRuns /\ Budget' = Ahead(c, 2 * n)
      BY <2>2 DEF Call, MostRuns, Budget
    <3>4. Budget' \in Int
      BY <1>0, <3>3, AheadType
    <3>5. runs + Budget' <= MostRuns
      BY <1>0, <2>1, <3>1, <3>2, <3>3, <3>4
    <3> QED
      BY <1>0, <2>1, <3>3, <3>5 DEF Affordable, Trying
  <2>3. CASE Return(set)
    BY <2>1, <2>3 DEF Return, Affordable, Trying, MostRuns
  <2> QED
    BY <1>5, <2>2, <2>3 DEF Refine
<1>6. CASE UNCHANGED ddVars
  BY <1>6 DEF ddVars, Affordable, Trying, MostRuns, Budget
<1> QED
  BY <1>1, <1>2, <1>3, <1>4, <1>5, <1>6 DEF DDNext, Done

\* Whatever the judge answers, and however many instructions are listed, the
\* search of ddMin (DeltaDebugger.java:69) starts the user's program at most
\* k * k + 5 * k - 9 times for k >= 2 instructions: it always ends the round
\* it has begun within that budget.
THEOREM SearchCostsAtMostQuadratic == DDSpec => []QuadraticRuns
<1>1. DDInit => Affordable
  <2> SUFFICES ASSUME DDInit PROVE Affordable
    OBVIOUS
  <2>1. MostRuns \in Nat
    BY IndInit, BudgetType
  <2> QED
    BY <2>1 DEF DDInit, Affordable, Trying
<1>2. Affordable => QuadraticRuns
  BY DEF Affordable, QuadraticRuns
<1> QED
  BY <1>1, <1>2, IndInit, IndNext, AffordableNext, PTL DEF DDSpec



-----------------------------------------------------------------------------
(* Type correctness, with the state of a search that has not begun.        *)

\* DeltaDebugger does not exist before main has run the float version.
Unborn == /\ pc = "idle" /\ set = {} /\ n = 2 /\ subsetList = <<>>
          /\ loop = "none" /\ i = 1 /\ edited = {} /\ ret = {} /\ runs = 0

Session ==
    /\ programSize \in 1 .. MaxInstructions
    /\ target \in {"mainclass", "jar", "neither", "incomplete"}
    /\ file \in Files
    /\ document \in BOOLEAN
    /\ appPc \in {"start", "list", "editFloat", "runFloat", "search", "runResult", "end"}
    /\ process \in {"none", "running", "exited"}
    /\ unwritten \in 0 .. MaxOutput
    /\ piped \in 0 .. PipeCapacity
    /\ failures \in 0 .. MaxFailures
    /\ sessions \in 1 .. MaxSessions
    /\ outcome \in {"none", "usage", "succeed", "failed", "exception", "killed"}

AppInd ==
    /\ DDInd /\ Session
    /\ appPc \in {"start", "list", "editFloat", "runFloat"} => Unborn

LEMMA EditedType ==
    ASSUME DDTypeOK, NEW s \in SUBSET Universe
    PROVE  Edited(s) \in Files /\ Edited(s) = [readable |-> TRUE, listed |-> nbrOfInstructions, ignore |-> s]
<1>1. nbrOfInstructions \in 0 .. MaxInstructions
  BY DEF DDTypeOK
<1>2. Universe \subseteq AllInstructions
  BY <1>1, MaxInstructionsAssumption DEF Universe, AllInstructions
<1>3. s \cap Universe = s
  OBVIOUS
<1> QED
  BY <1>1, <1>2, <1>3 DEF Edited, Listing, Files

\* The search that has not begun keeps its types when the editor is created.
LEMMA UnbornInd ==
    Unborn /\ judge \in SUBSET SUBSET AllInstructions /\ nbrOfInstructions \in 0 .. MaxInstructions
        => DDInd
<1> SUFFICES ASSUME Unborn, judge \in SUBSET SUBSET AllInstructions,
                    nbrOfInstructions \in 0 .. MaxInstructions
             PROVE  DDInd
  OBVIOUS
<1>1. nbrOfInstructions \in Nat
  BY MaxInstructionsAssumption
<1>2. MostRuns \in Nat
  BY <1>1, MostRunsType
<1>3. DDTypeOK
  BY <1>2 DEF Unborn, DDTypeOK
<1> QED
  BY <1>3 DEF DDInd, Unborn, DDShape, Trying

LEMMA AppIndInit == AppInit => AppInd
<1> SUFFICES ASSUME AppInit PROVE AppInd
  OBVIOUS
<1>1. DDInd
  BY IndInit DEF AppInit
<1>2. /\ PipeCapacity \in Nat /\ MaxOutput \in Nat /\ MaxFailures \in Nat
      /\ MaxSessions \in Nat /\ MaxSessions >= 1
  BY AppBoundsAssumption
<1>3. file \in Files /\ target \in {"mainclass", "jar", "neither", "incomplete"}
  BY UserAssumption DEF AppInit
<1>4. Session
  <2>1. /\ programSize \in 1 .. MaxInstructions /\ document = FALSE /\ appPc = "start"
        /\ process = "none" /\ unwritten = 0 /\ piped = 0
        /\ failures = 0 /\ sessions = 1 /\ outcome = "none"
    BY DEF AppInit
  <2>2. /\ unwritten \in 0 .. MaxOutput /\ piped \in 0 .. PipeCapacity
        /\ failures \in 0 .. MaxFailures /\ sessions \in 1 .. MaxSessions
    BY <1>2, <2>1
  <2>4. document \in BOOLEAN
    BY <2>1, Zenon
  <2>3. /\ appPc \in {"start", "list", "editFloat", "runFloat", "search", "runResult", "end"}
        /\ process \in {"none", "running", "exited"}
        /\ outcome \in {"none", "usage", "succeed", "failed", "exception", "killed"}
    BY <2>1
  <2> QED
    BY <1>3, <2>1, <2>2, <2>3, <2>4, Zenon DEF Session
<1> QED
  BY <1>1, <1>4 DEF AppInd, AppInit, DDInit, Unborn

\* The steps of the search but for the verdicts are steps of DeltaDebugger.
LEMMA SearchInd == AppInd /\ Search => AppInd'
<1> SUFFICES ASSUME AppInd, Search PROVE AppInd'
  OBVIOUS
<1>1. /\ appPc = "search"
      /\ UNCHANGED <<programSize, target, document, appPc, childVars, failures, sessions, outcome>>
  BY DEF Search
<1>2. DDInd'
  BY IndNext DEF Search, DDNext, AppInd
<1>3. file' \in Files
  <2>1. CASE UNCHANGED file
    BY <2>1 DEF AppInd, Session
  <2>2. CASE EditBehaviours /\ file' = Edited(edited')
    <3>1. edited' \in SUBSET Universe
      BY <2>2, CandidateType DEF EditBehaviours, AppInd, DDInd, DDTypeOK, Trying
    <3> QED
      BY <2>2, <3>1, EditedType DEF AppInd, DDInd
  <2>3. CASE file' = Edited(set)
    BY <2>3, EditedType DEF AppInd, DDInd, DDTypeOK
  <2> QED
    BY <2>1, <2>2, <2>3 DEF Search
<1> QED
  BY <1>1, <1>2, <1>3 DEF AppInd, Session, childVars

\* What main does with the answer of an execution keeps the types.
LEMMA AnswerInd ==
    ASSUME AppInd, NEW valid \in BOOLEAN, Answer(valid),
           UNCHANGED <<programSize, target, file, document, unwritten, sessions>>,
           process' = "none", piped' \in 0 .. PipeCapacity, failures' \in 0 .. MaxFailures
    PROVE  AppInd'
<1>1. CASE appPc = "list" /\ GoTo("editFloat") /\ UNCHANGED ddVars
  BY <1>1, IndNext DEF AppInd, Session, GoTo, Unborn, ddVars
<1>2. CASE /\ appPc = "runFloat" /\ UNCHANGED ddVars
           /\ IF valid THEN End("succeed") ELSE GoTo("search")
  BY <1>2, IndNext DEF AppInd, Session, GoTo, End, Unborn, ddVars
<1>3. CASE appPc = "search" /\ Verdict(valid) /\ UNCHANGED <<appPc, outcome>>
  BY <1>3, IndVerdict DEF AppInd, Session
<1>4. CASE /\ appPc = "runResult" /\ UNCHANGED ddVars
           /\ End(IF valid THEN "succeed" ELSE "failed")
  BY <1>4, IndNext DEF AppInd, Session, End, Unborn, ddVars
<1> QED
  BY <1>1, <1>2, <1>3, <1>4 DEF Answer

LEMMA AppIndNext == AppInd /\ [AppNext]_appVars => AppInd'
<1> SUFFICES ASSUME AppInd, [AppNext]_appVars PROVE AppInd'
  OBVIOUS
<1>0. /\ PipeCapacity \in Nat /\ MaxOutput \in Nat /\ MaxFailures \in Nat
      /\ MaxSessions \in Nat /\ MaxSessions >= 1
  BY AppBoundsAssumption
<1>1. CASE Main
  <2>1. Unborn' /\ nbrOfInstructions' \in 0 .. MaxInstructions /\ UNCHANGED judge
    BY <1>1 DEF Main, AppInd, Session, Files, DDInd, DDTypeOK, Unborn
  <2>2. judge' \in SUBSET SUBSET AllInstructions
    BY <2>1 DEF AppInd, DDInd, DDTypeOK
  <2>3. (Unborn /\ judge \in SUBSET SUBSET AllInstructions /\ nbrOfInstructions \in 0 .. MaxInstructions
            => DDInd)'
    BY UnbornInd, PTL
  <2>4. DDInd'
    BY <2>1, <2>2, <2>3
  <2>5. Session'
    BY <1>1 DEF Main, AppInd, Session, Files, End, GoTo, childVars
  <2> QED
    BY <2>1, <2>4, <2>5 DEF AppInd
<1>2. CASE NoListingCommand
  BY <1>2, IndNext DEF NoListingCommand, AppInd, Session, End, childVars, Unborn, ddVars
<1>3. CASE Start
  BY <1>3, IndNext DEF Start, AppInd, Session, Unborn, ddVars
<1>4. CASE ChildPrints
  <2>1. unwritten' \in 0 .. MaxOutput /\ piped' \in 0 .. PipeCapacity
    BY <1>0, <1>4 DEF ChildPrints, AppInd, Session
  <2> QED
    BY <1>4, <2>1, IndNext DEF ChildPrints, AppInd, Session, Unborn, ddVars
<1>5. CASE ChildExits
  <2>1. Listing(programSize, Program) \in Files
    BY MaxInstructionsAssumption DEF AppInd, Session, Listing, Program, Files, AllInstructions
  <2>2. file' \in Files
    BY <1>5, <2>1 DEF ChildExits, AppInd, Session
  <2> QED
    BY <1>5, <2>2, IndNext DEF ChildExits, AppInd, Session, Unborn, ddVars
<1>6. CASE WaitFor
  <2>1. (Doubles(file) \in judge) \in BOOLEAN
    OBVIOUS
  <2>2. 0 \in 0 .. PipeCapacity
    BY <1>0
  <2>3. Answer(Doubles(file) \in judge)
    BY <1>6 DEF WaitFor
  <2>4. UNCHANGED <<programSize, target, file, document, unwritten, sessions, failures>>
        /\ process' = "none" /\ piped' = 0
    BY <1>6 DEF WaitFor
  <2>5. failures' \in 0 .. MaxFailures
    BY <2>4 DEF AppInd, Session
  <2> QED
    BY <2>1, <2>2, <2>3, <2>4, <2>5, AnswerInd
<1>7. CASE StartFails
  <2>1. Answer(FALSE) /\ process = "none" /\ failures < MaxFailures
    BY <1>7 DEF StartFails
  <2>2. /\ UNCHANGED <<programSize, target, file, document, process, unwritten, piped, sessions>>
        /\ failures' = failures + 1
    BY <1>7 DEF StartFails, childVars
  <2>3. failures' \in 0 .. MaxFailures /\ piped' \in 0 .. PipeCapacity
    BY <1>0, <2>1, <2>2 DEF AppInd, Session
  <2> QED
    BY <2>1, <2>2, <2>3, AnswerInd
<1>8. CASE EditFloat
  <2>1. Edited({}) \in Files
    BY EditedType DEF AppInd, DDInd
  <2>2. file' \in Files
    BY <1>8, <2>1 DEF EditFloat, AppInd, Session
  <2> QED
    BY <1>8, <2>2, IndNext DEF EditFloat, AppInd, Session, GoTo, End, childVars, Unborn, ddVars
<1>9. CASE Search
  BY <1>9, SearchInd
<1>10. CASE EditResult
  <2>1. file' \in Files
    BY <1>10, EditedType DEF EditResult, AppInd, DDInd, DDTypeOK
  <2> QED
    BY <1>10, <2>1, IndNext DEF EditResult, AppInd, Session, GoTo, childVars, Unborn, ddVars
<1>11. CASE Kill
  <2>0. Unreadable \in Files
    BY MaxInstructionsAssumption DEF Unreadable, Files
  <2>1. file' \in Files
    BY <1>11, <2>0 DEF Kill, AppInd, Session
  <2>2. unwritten' \in 0 .. MaxOutput /\ piped' \in 0 .. PipeCapacity
    BY <1>0, <1>11 DEF Kill
  <2> QED
    BY <1>11, <2>1, <2>2, IndNext DEF Kill, AppInd, Session, End, Unborn, ddVars
<1>12. CASE Restart
  <2>1. Unborn' /\ nbrOfInstructions' = 0 /\ judge' \in SUBSET SUBSET AllInstructions
    BY <1>12 DEF Restart, Unborn, AppInd, DDInd, DDTypeOK
  <2>2. (Unborn /\ judge \in SUBSET SUBSET AllInstructions /\ nbrOfInstructions \in 0 .. MaxInstructions
            => DDInd)'
    BY UnbornInd, PTL
  <2>3. DDInd'
    BY <2>1, <2>2, MaxInstructionsAssumption
  <2>4. sessions' \in 1 .. MaxSessions
    BY <1>0, <1>12 DEF Restart, AppInd, Session
  <2> QED
    BY <1>12, <2>1, <2>3, <2>4 DEF Restart, AppInd, Session, childVars
<1>13. CASE UNCHANGED appVars
  BY <1>13, IndNext DEF appVars, sessionVars, AppInd, Session, Unborn, ddVars
<1> QED
  BY <1>1, <1>2, <1>3, <1>4, <1>5, <1>6, <1>7, <1>8, <1>9, <1>10, <1>11, <1>12, <1>13
  DEF AppNext, Progress, Finished

\* Type correctness of a session and of the search it makes, whatever children
\* fail to start and whenever the user kills it.
THEOREM AppTypeCorrect == AppSpec => []AppTypeOK
<1>1. AppInd => AppTypeOK
  BY DEF AppInd, DDInd, Session, AppTypeOK
<1> QED
  BY <1>1, AppIndInit, AppIndNext, PTL DEF AppSpec

-----------------------------------------------------------------------------
(* What the file holds, and what a session that ends says.                 *)

\* The file is what main or the search has edited last.
FileState ==
    /\ appPc = "runFloat" => file = Edited({})
    /\ appPc = "search" /\ pc = "exec" => file = Edited(edited)
    /\ appPc = "runResult" => pc = "done" /\ file = Edited(ret)

\* A child runs only while main waits for it, and what it has listed is there.
ChildState ==
    /\ process # "none" => Executing /\ target = "mainclass"
    /\ failures = 0 /\ ((appPc = "list" /\ process = "exited") \/ appPc = "editFloat") =>
          file.readable /\ file.listed = programSize

\* With an up-to-date file and every child started, the search is ddMin's.
SearchState ==
    UpToDate /\ failures = 0 /\ appPc \in {"search", "runResult"} => StillValid /\ MinInv

EndState == FileHoldsSolution /\ FailureIsReal /\ NextSessionWorks

AppInv == FileState /\ ChildState /\ SearchState /\ EndState

\* The instructions an up-to-date file leaves in double are those last edited.
LEMMA DoublesOfEdited ==
    ASSUME AppInd, UpToDate, NEW s \in SUBSET Universe, file = Edited(s)
    PROVE  Doubles(file) = s /\ Program = Universe
<1>1. file.listed = programSize /\ file.ignore = s
  BY EditedType DEF AppInd, DDInd, UpToDate
<1>2. Program = Universe
  BY DEF Program, Universe, UpToDate
<1>3. \A e \in Program : ~(e >= programSize)
  BY MaxInstructionsAssumption DEF Program, AppInd, Session
<1> QED
  BY <1>1, <1>2, <1>3 DEF Doubles

\* The executions of the search judge the candidate.
LEMMA WaitForIsExecute ==
    ASSUME AppInd, FileState, UpToDate, appPc = "search", WaitFor
    PROVE  Execute
<1>1. pc = "exec" /\ Verdict(Doubles(file) \in judge)
  BY DEF WaitFor, Executing, Answer
<1>2. edited \in SUBSET Universe
  BY DEF AppInd, DDInd, DDTypeOK
<1>3. Doubles(file) = edited
  BY <1>1, <1>2, DoublesOfEdited DEF FileState
<1> QED
  BY <1>1, <1>3 DEF Execute

LEMMA UnbornState == Unborn => StillValid /\ MinInv
  BY DEF Unborn, StillValid, MinInv, Trying, OneMinimal

\* Steps that leave the search, the file and the session's progress alone.
LEMMA SearchSame ==
    ASSUME UNCHANGED ddVars, StillValid, MinInv
    PROVE  (StillValid /\ MinInv)'
BY DEF ddVars, StillValid, MinInv, Trying, Needed, OneMinimal, Universe

LEMMA EndSame ==
    ASSUME UNCHANGED <<ddVars, programSize, target, file, document, appPc, failures, outcome>>,
           FileState, SearchState, EndState
    PROVE  FileState' /\ SearchState' /\ EndState'
<1>1. SearchState'
  BY SearchSame DEF SearchState, UpToDate, ddVars
<1>2. FileState'
  BY DEF FileState, ddVars, Edited, Listing, Universe
<1>3. UNCHANGED <<Doubles(file), judge, UpToDate, Program>>
  BY DEF ddVars, Doubles, Program, UpToDate
<1>4. EndState'
  BY <1>3 DEF EndState, FileHoldsSolution, FailureIsReal, NextSessionWorks
<1> QED
  BY <1>1, <1>2, <1>4

LEMMA AppInvInit == AppInit => AppInv
  BY DEF AppInit, AppInv, FileState, ChildState, SearchState, EndState,
     FileHoldsSolution, FailureIsReal, NextSessionWorks

LEMMA AppInvNext == AppInd /\ AppInv /\ [AppNext]_appVars => AppInv'
<1> SUFFICES ASSUME AppInd, AppInv, [AppNext]_appVars PROVE AppInv'
  OBVIOUS
<1>0. failures \in Nat /\ DDTypeOK /\ (failures = 0 => failures + 1 # 0)
  BY AppBoundsAssumption DEF AppInd, DDInd, Session
<1> USE DEF AppInv
<1>1. CASE Main
  BY <1>1 DEF Main, FileState, ChildState, SearchState, EndState, Executing, GoTo, End,
     childVars, FileHoldsSolution, FailureIsReal, NextSessionWorks
<1>2. CASE NoListingCommand
  BY <1>2 DEF NoListingCommand, FileState, ChildState, SearchState, EndState, End,
     childVars, FileHoldsSolution, FailureIsReal, NextSessionWorks
<1>3. CASE Start
  <2>1. /\ UNCHANGED <<ddVars, programSize, target, file, document, appPc, failures, outcome>>
        /\ process' = "running" /\ Executing /\ target = "mainclass"
    BY <1>3 DEF Start
  <2> QED
    BY <2>1, EndSame DEF ChildState, Executing, ddVars
<1>4. CASE ChildPrints
  <2>1. UNCHANGED <<ddVars, programSize, target, file, document, appPc, process, failures, outcome>>
    BY <1>4 DEF ChildPrints
  <2> QED
    BY <2>1, EndSame DEF ChildState, Executing, ddVars
<1>5. CASE ChildExits
  <2>1. /\ UNCHANGED <<ddVars, programSize, target, document, appPc, failures, outcome>>
        /\ process = "running" /\ process' = "exited"
        /\ file' = IF appPc = "list" THEN Listing(programSize, Program) ELSE file
    BY <1>5 DEF ChildExits
  <2>2. Executing /\ target = "mainclass" /\ appPc # "end"
    BY <2>1 DEF ChildState, Executing
  <2>3. Executing'
    BY <2>1, <2>2 DEF Executing, ddVars
  <2>4. ChildState'
    BY <2>1, <2>2, <2>3 DEF ChildState, Listing
  <2>5. CASE appPc = "list"
    BY <2>1, <2>4, <2>5 DEF FileState, SearchState, EndState,
       FileHoldsSolution, FailureIsReal, NextSessionWorks
  <2>6. CASE appPc # "list"
    BY <2>1, <2>4, <2>6, EndSame
  <2> QED
    BY <2>5, <2>6
<1>6. CASE WaitFor
  <2>1. /\ UNCHANGED <<programSize, target, file, document, failures>> /\ process' = "none"
        /\ process = "exited" /\ Answer(Doubles(file) \in judge) /\ target = "mainclass"
    BY <1>6 DEF WaitFor, ChildState
  <2>2. CASE appPc = "list" /\ GoTo("editFloat") /\ UNCHANGED ddVars
    BY <2>1, <2>2 DEF GoTo, FileState, ChildState, SearchState, EndState,
       FileHoldsSolution, FailureIsReal, NextSessionWorks
  <2>3. CASE /\ appPc = "runFloat" /\ UNCHANGED ddVars
             /\ Doubles(file) \in judge /\ End("succeed")
    <3>1. UpToDate => Doubles(file) = {}
      BY <2>3, DoublesOfEdited DEF FileState
    <3>2. UNCHANGED <<judge, Doubles(file), UpToDate>>
      BY <2>1, <2>3 DEF ddVars, Doubles, Program, UpToDate
    <3>3. FileHoldsSolution'
      BY <2>1, <2>3, <3>1, <3>2 DEF FileHoldsSolution
    <3> QED
      BY <2>1, <2>3, <3>3 DEF End, FileState, ChildState, SearchState, EndState,
         FailureIsReal, NextSessionWorks
  <2>4. CASE appPc = "runFloat" /\ UNCHANGED ddVars /\ GoTo("search")
    <3>1. StillValid /\ MinInv /\ pc = "idle"
      BY <2>4, UnbornState DEF AppInd, Unborn
    <3>2. (StillValid /\ MinInv)'
      BY <2>4, <3>1 DEF ddVars, StillValid, MinInv, Trying, Needed, OneMinimal, Universe
    <3> QED
      BY <2>1, <2>4, <3>1, <3>2 DEF GoTo, ddVars, FileState, ChildState, SearchState, EndState,
         FileHoldsSolution, FailureIsReal, NextSessionWorks
  <2>5. CASE appPc = "search" /\ Verdict(Doubles(file) \in judge) /\ UNCHANGED <<appPc, outcome>>
    <3>1. pc = "exec" /\ pc' # "exec" /\ UNCHANGED nbrOfInstructions
      BY <2>5 DEF Verdict, Accepted, Refused, Call, Return, Try
    <3>2. UpToDate => Execute
      BY <1>6, <2>5, WaitForIsExecute
    <3>3. UpToDate /\ failures = 0 => (StillValid /\ MinInv)'
      BY <2>5, <3>2, ValidNext, MinNext DEF SearchState, AppInd, DDNext
    <3> QED
      BY <2>1, <2>5, <3>1, <3>3 DEF FileState, ChildState, SearchState, EndState, UpToDate,
         FileHoldsSolution, FailureIsReal, NextSessionWorks
  <2>6. CASE /\ appPc = "runResult" /\ UNCHANGED ddVars
             /\ End(IF Doubles(file) \in judge THEN "succeed" ELSE "failed")
    <3>1. pc = "done" /\ file = Edited(ret) /\ ret \in SUBSET Universe
      BY <1>0, <2>6 DEF FileState, DDTypeOK
    <3>2. UpToDate => Doubles(file) = ret /\ Program = Universe
      BY <3>1, DoublesOfEdited
    <3>3. UpToDate /\ failures = 0 =>
             OneMinimal /\ (ret = Universe \/ ret \in judge)
      BY <2>6, <3>1 DEF SearchState, StillValid, MinInv
    <3>4. UNCHANGED <<judge, Doubles(file), UpToDate, Program, failures>>
      BY <2>1, <2>6 DEF ddVars, Doubles, Program, UpToDate
    <3>5. FileHoldsSolution'
      BY <2>6, <3>1, <3>2, <3>3, <3>4 DEF End, FileHoldsSolution, OneMinimal
    <3>6. FailureIsReal'
      BY <2>6, <3>2, <3>3, <3>4 DEF End, FailureIsReal
    <3> QED
      BY <2>1, <2>6, <3>5, <3>6 DEF End, FileState, ChildState, SearchState, EndState,
         NextSessionWorks
  <2> QED
    BY <2>1, <2>2, <2>3, <2>4, <2>5, <2>6 DEF Answer
<1>7. CASE StartFails
  <2>1. /\ UNCHANGED <<programSize, target, file, document, process>>
        /\ process = "none" /\ failures' = failures + 1
        /\ Answer(FALSE)
    BY <1>7 DEF StartFails, childVars
  <2>0. failures' # 0
    BY <1>0, <2>1
  <2>2. CASE appPc = "list" /\ GoTo("editFloat") /\ UNCHANGED ddVars
    BY <2>0, <2>1, <2>2 DEF GoTo, FileState, ChildState, SearchState, EndState,
       FileHoldsSolution, FailureIsReal, NextSessionWorks
  <2>3. CASE appPc = "runFloat" /\ UNCHANGED ddVars /\ GoTo("search")
    <3>1. pc = "idle"
      BY <2>3 DEF AppInd, Unborn
    <3> QED
      BY <2>0, <2>1, <2>3, <3>1 DEF GoTo, ddVars, FileState, ChildState, SearchState, EndState,
         FileHoldsSolution, FailureIsReal, NextSessionWorks
  <2>4. CASE appPc = "search" /\ Verdict(FALSE) /\ UNCHANGED <<appPc, outcome>>
    <3>1. pc' # "exec"
      BY <2>4 DEF Verdict, Refused, Call, Return, Try
    <3> QED
      BY <2>0, <2>1, <2>4, <3>1 DEF FileState, ChildState, SearchState, EndState,
         FileHoldsSolution, FailureIsReal, NextSessionWorks
  <2>5. CASE appPc = "runResult" /\ UNCHANGED ddVars /\ End("failed")
    BY <2>0, <2>1, <2>5 DEF End, FileState, ChildState, SearchState, EndState,
       FileHoldsSolution, FailureIsReal, NextSessionWorks
  <2> QED
    BY <2>1, <2>2, <2>3, <2>4, <2>5 DEF Answer
<1>8. CASE EditFloat
  <2>1. /\ appPc = "editFloat" /\ UNCHANGED <<ddVars, programSize, target, document, failures>>
        /\ process = "none" /\ process' = "none"
    BY <1>8 DEF EditFloat, ChildState, Executing, childVars
  <2>2. CASE file' = Edited({}) /\ GoTo("runFloat")
    <3>1. Edited({})' = Edited({})
      BY <2>1 DEF ddVars, Edited, Listing, Universe
    <3> QED
      BY <2>1, <2>2, <3>1 DEF GoTo, FileState, ChildState, SearchState, EndState,
         FileHoldsSolution, FailureIsReal, NextSessionWorks
  <2>3. CASE End("exception") /\ UNCHANGED file
    BY <2>1, <2>3 DEF End, FileState, ChildState, SearchState, EndState,
       FileHoldsSolution, FailureIsReal, NextSessionWorks
  <2> QED
    BY <1>8, <2>2, <2>3 DEF EditFloat
<1>9. CASE Search
  <2>1. /\ appPc = "search" /\ pc # "exec" /\ process = "none"
        /\ UNCHANGED <<programSize, target, document, appPc, process, failures, outcome>>
    BY <1>9 DEF Search, ChildState, Executing, childVars, Launch, DdMin, EditBehaviours, Refine
  <2>2. DDNext
    BY <1>9 DEF Search, DDNext
  <2>3. pc' = "exec" => file' = Edited(edited)'
    BY <1>9 DEF Search, Launch, DdMin, EditBehaviours, Refine, Call, Return, Try,
       Edited, Listing, Universe
  <2>4. UNCHANGED nbrOfInstructions
    BY <1>9 DEF Search, Launch, DdMin, EditBehaviours, Refine, Call, Return, Try
  <2>5. UpToDate /\ failures = 0 => (StillValid /\ MinInv)'
    BY <2>1, <2>2, ValidNext, MinNext DEF SearchState, AppInd
  <2> QED
    BY <2>1, <2>3, <2>4, <2>5 DEF FileState, ChildState, SearchState, EndState, UpToDate,
       FileHoldsSolution, FailureIsReal, NextSessionWorks
<1>10. CASE EditResult
  <2>1. /\ appPc = "search" /\ pc = "done" /\ process = "none" /\ file' = Edited(ret)
        /\ appPc' = "runResult"
        /\ UNCHANGED <<ddVars, programSize, target, document, process, failures, outcome>>
    BY <1>10 DEF EditResult, ChildState, Executing, GoTo, childVars
  <2>2. Edited(ret)' = Edited(ret) /\ pc' = pc
    BY <2>1 DEF ddVars, Edited, Listing, Universe
  <2>3. StillValid /\ MinInv => (StillValid /\ MinInv)'
    BY <2>1 DEF ddVars, StillValid, MinInv, Trying, Needed, OneMinimal, Universe
  <2> QED
    BY <2>1, <2>2, <2>3 DEF FileState, ChildState, SearchState, EndState, UpToDate, ddVars,
       FileHoldsSolution, FailureIsReal, NextSessionWorks
<1>11. CASE Kill
  <2>1. appPc' = "end" /\ outcome' = "killed" /\ process' = "none"
    BY <1>11 DEF Kill, End
  <2> QED
    BY <2>1 DEF FileState, ChildState, SearchState, EndState,
       FileHoldsSolution, FailureIsReal, NextSessionWorks
<1>12. CASE Restart
  <2>1. appPc' = "start" /\ UNCHANGED process /\ process = "none"
    BY <1>12 DEF Restart, ChildState, Executing, childVars
  <2> QED
    BY <2>1 DEF FileState, ChildState, SearchState, EndState,
       FileHoldsSolution, FailureIsReal, NextSessionWorks
<1>13. CASE UNCHANGED appVars
  BY <1>13, EndSame DEF appVars, sessionVars, ChildState, Executing, ddVars
<1> QED
  BY <1>1, <1>2, <1>3, <1>4, <1>5, <1>6, <1>7, <1>8, <1>9, <1>10, <1>11, <1>12, <1>13
  DEF AppNext, Progress, Finished

LEMMA AppInvAlways == AppSpec => []AppInv
  BY AppInvInit, AppIndInit, AppIndNext, AppInvNext, PTL DEF AppSpec

\* "The XML file is modified to hold the solution" (App.java:65): whatever the
\* judge, when a session reports success the file on disk is one it accepts,
\* and a local minimum when the file was up to date and every child started.
THEOREM FileHoldsSolutionAlways == AppSpec => []FileHoldsSolution
  BY AppInvAlways, PTL DEF AppInv, EndState

\* "Delta Debugging failed" (App.java:130) is said of no judge that accepts the
\* untransformed program, when the file was up to date and every child started.
THEOREM FailureIsRealAlways == AppSpec => []FailureIsReal
  BY AppInvAlways, PTL DEF AppInv, EndState

\* A session that dies for want of a readable file has left a listing behind.
THEOREM NextSessionWorksAlways == AppSpec => []NextSessionWorks
  BY AppInvAlways, PTL DEF AppInv, EndState

=============================================================================
