----------------------- MODULE InstructionListingProofs -----------------------
(***************************************************************************)
(* Proofs, for any classes, code and numbers of threads, of the invariants *)
(* of InstructionListing: the names that a class visitor gives are those   *)
(* that the text of the class alone gives, and what becomes of them in     *)
(* the writer, the file and the second virtual machine.                    *)
(***************************************************************************)
EXTENDS InstructionListing, Numbers, SequenceTheorems, FiniteSetTheorems, TLAPS

-----------------------------------------------------------------------------
(* The reference names, event by event.                                    *)

\* The last event of a kind lies among the events looked at, or is none.
LEMMA LastType ==
    ASSUME NEW c, NEW p \in Nat, NEW kind
    PROVE  Last(c, p, kind) \in 0 .. p
<1> DEFINE Before == {q \in 1 .. p : Code[c][q].kind = kind}
<1>1. CASE Before = {}
  BY <1>1 DEF Last
<1>2. CASE Before # {}
  <2> Before \in SUBSET (0 .. p)
    OBVIOUS
  <2> HIDE DEF Before
  <2>1. \E q \in Before : \A r \in Before : r <= q
    BY <1>2, GreatestNumber
  <2>2. (CHOOSE q \in Before : \A r \in Before : r <= q) \in Before
    BY <2>1
  <2> QED
    BY <1>2, <2>2 DEF Last, Before
<1> QED
  BY <1>1, <1>2

\* One more event is the last of its kind, and changes no other.
LEMMA LastStep ==
    ASSUME NEW c, NEW p \in Nat, NEW kind
    PROVE  Last(c, p + 1, kind) = IF Code[c][p + 1].kind = kind THEN p + 1 ELSE Last(c, p, kind)
<1> DEFINE Before(k) == {q \in 1 .. k : Code[c][q].kind = kind}
<1>1. CASE Code[c][p + 1].kind = kind
  <2>1. p + 1 \in Before(p + 1) /\ \A r \in Before(p + 1) : r <= p + 1
    BY <1>1
  <2>2. \A q \in Before(p + 1) : (\A r \in Before(p + 1) : r <= q) => q = p + 1
    BY <2>1
  <2>3. Last(c, p + 1, kind) = CHOOSE q \in Before(p + 1) : \A r \in Before(p + 1) : r <= q
    BY <2>1 DEF Last
  <2> HIDE DEF Before
  <2> QED
    BY <1>1, <2>1, <2>2, <2>3
<1>2. CASE Code[c][p + 1].kind # kind
  <2>1. Before(p + 1) = Before(p)
    BY <1>2
  <2>2. \A k : Last(c, k, kind) =
             IF Before(k) = {} THEN 0
             ELSE CHOOSE q \in Before(k) : \A r \in Before(k) : r <= q
    BY DEF Last
  <2>3. Last(c, p + 1, kind) = Last(c, p, kind)
    <3> HIDE DEF Before
    <3> QED
      BY <2>1, <2>2, Zenon
  <2> QED
    BY <1>2, <2>3
<1> QED
  BY <1>1, <1>2

CountedIn(c, k, p) == {q \in k + 1 .. p : Code[c][q].kind \in Counted}

\* The number of counted events grows by one with a counted event.
LEMMA CountedStep ==
    ASSUME NEW c, NEW p \in Nat, NEW k \in 0 .. p
    PROVE  /\ Cardinality(CountedIn(c, k, p)) \in Nat
           /\ Cardinality(CountedIn(c, k, p + 1)) =
                 IF Code[c][p + 1].kind \in Counted THEN Cardinality(CountedIn(c, k, p)) + 1
                 ELSE Cardinality(CountedIn(c, k, p))
           /\ Cardinality(CountedIn(c, p, p)) = 0
<1> DEFINE S == CountedIn(c, k, p)
<1>1. IsFiniteSet(S)
  <2>1. IsFiniteSet(k + 1 .. p)
    BY FS_Interval
  <2>2. S \in SUBSET (k + 1 .. p)
    BY DEF CountedIn
  <2> QED
    BY <2>1, <2>2, FS_Subset
<1>2. Cardinality(S) \in Nat
  BY <1>1, FS_CardinalityType
<1>3. ASSUME Code[c][p + 1].kind \in Counted
      PROVE  Cardinality(CountedIn(c, k, p + 1)) = Cardinality(S) + 1
  <2>1. CountedIn(c, k, p + 1) = S \cup {p + 1} /\ p + 1 \notin S
    BY <1>3 DEF CountedIn
  <2> HIDE DEF S
  <2>2. Cardinality(S \cup {p + 1}) = Cardinality(S) + 1
    BY <1>1, <2>1, FS_AddElement
  <2> QED
    BY <2>1, <2>2
<1>4. ASSUME Code[c][p + 1].kind \notin Counted
      PROVE  CountedIn(c, k, p + 1) = S
  BY <1>4 DEF CountedIn
<1>5. CountedIn(c, p, p) = {}
  BY DEF CountedIn
<1> QED
  BY <1>2, <1>3, <1>4, <1>5, FS_EmptySet

\* How the name of an event follows from the name of the event before it: what a
\* visitor computes step by step.
LEMMA NameStep ==
    ASSUME NEW c \in Classes, NEW p \in 0 .. Len(Code[c]) - 1
    PROVE  LET kind == Code[c][p + 1].kind
               value == Code[c][p + 1].value
               name == NameOf(c, p)
               next == NameOf(c, p + 1)
           IN  /\ kind = "method" => next = <<c, value, 0, 0>>
               /\ kind = "line" => next = <<c, name[2], value, 0>>
               /\ kind \in Counted => next = <<c, name[2], name[3], name[4] + 1>>
               /\ name[1] = c /\ name[4] \in Nat
<1> DEFINE kind == Code[c][p + 1].kind
           m == Last(c, p, "method")
           l == Last(c, p, "line")
           from == IF l > m THEN l ELSE m
           m2 == Last(c, p + 1, "method")
           l2 == Last(c, p + 1, "line")
           from2 == IF l2 > m2 THEN l2 ELSE m2
<1>1. p \in Nat
  <2>1. Len(Code[c]) \in Nat
    BY CodeAssumption
  <2> QED
    BY <2>1
<1>2. m \in 0 .. p /\ l \in 0 .. p /\ from \in 0 .. p
  BY <1>1, LastType
<1>3. /\ m2 = IF kind = "method" THEN p + 1 ELSE m
      /\ l2 = IF kind = "line" THEN p + 1 ELSE l
  BY <1>1, LastStep
<1>4. /\ NameOf(c, p) = <<c, Code[c][m].value, IF l > m THEN Code[c][l].value ELSE 0,
                          Cardinality(CountedIn(c, from, p))>>
      /\ NameOf(c, p + 1) = <<c, Code[c][m2].value, IF l2 > m2 THEN Code[c][l2].value ELSE 0,
                              Cardinality(CountedIn(c, from2, p + 1))>>
  BY DEF NameOf, CountedIn
<1> HIDE DEF m, l, m2, l2
<1>5. Cardinality(CountedIn(c, from, p)) \in Nat
  BY <1>1, <1>2, CountedStep
<1>6. CASE kind = "method"
  <2>1. m2 = p + 1 /\ l2 = l /\ l <= p /\ from2 = p + 1
    BY <1>1, <1>2, <1>3, <1>6
  <2>2. Cardinality(CountedIn(c, p + 1, p + 1)) = 0
    BY <1>1, CountedStep
  <2> QED
    BY <1>1, <1>2, <1>4, <1>5, <1>6, <2>1, <2>2 DEF Counted
<1>7. CASE kind = "line"
  <2>1. m2 = m /\ l2 = p + 1 /\ m <= p /\ from2 = p + 1
    BY <1>1, <1>2, <1>3, <1>7
  <2>2. Cardinality(CountedIn(c, p + 1, p + 1)) = 0
    BY <1>1, CountedStep
  <2> QED
    BY <1>1, <1>2, <1>4, <1>5, <1>7, <2>1, <2>2 DEF Counted
<1>8. CASE kind \in Counted
  <2>1. m2 = m /\ l2 = l /\ from2 = from
    BY <1>3, <1>8 DEF Counted
  <2>2. Cardinality(CountedIn(c, from, p + 1)) = Cardinality(CountedIn(c, from, p)) + 1
    BY <1>1, <1>2, <1>8, CountedStep
  <2> QED
    BY <1>4, <1>5, <1>8, <2>1, <2>2 DEF Counted
<1>9. CASE kind \notin {"method", "line"} \cup Counted
  BY <1>4, <1>5, <1>9
<1> QED
  BY <1>6, <1>7, <1>8, <1>9

-----------------------------------------------------------------------------
(* The inductive invariants. ControlInv is the shape of the state and what *)
(* the steps of transform and getinstance have got so far; CountersInv     *)
(* says that the counters of a visitor name the event it has come to;      *)
(* LoadInv and ListInv what follows for the second and the first machine.  *)

AllNames == UNION {Names(c) : c \in Classes}

\* What the counters of a visitor can spell.
Keys == Classes \X Nat \X Nat \X Nat

Logging(t) == pc[t] \in {"getinstance", "create", "return", "log"}
Active(t) == pc[t] = "visit" \/ Logging(t)

\* The last event that the visitor of thread t has taken into account.
Reached(t) == IF pc[t] = "visit" THEN pos[t] - 1 ELSE pos[t]

Shape ==
    /\ vm \in {"listing", "none", "loading"}
    /\ pc \in [Threads \cup {Hook} -> {"idle", "visit", "getinstance", "create",
                "return", "log", "exit", "iterate", "done"}]
    /\ class \in [Threads -> Classes]
    /\ pos \in [Threads -> Nat]
    /\ method \in [Threads -> Nat] /\ lineNb \in [Threads -> Nat] /\ insnNb \in [Threads -> Nat]
    /\ unloaded \subseteq Classes /\ loaded \subseteq Classes /\ complete \subseteq Classes
    /\ instance \in Nat
    /\ classMap \in Seq(SUBSET Keys)
    /\ writer \in [Threads \cup {Hook} -> Nat]
    /\ xml \subseteq Keys
    /\ touched \in BOOLEAN /\ raced \in BOOLEAN
    /\ file \in [readable : BOOLEAN, listed : SUBSET Keys, floats : SUBSET Keys]
    /\ file.floats \subseteq file.listed

Control ==
    /\ \A t \in Threads :
          /\ pc[t] \notin {"iterate", "done"}
          /\ pos[t] \in 1 .. Len(Code[class[t]]) + 1
          /\ Logging(t) => vm = "listing" /\ pos[t] \in Wanted(class[t])
    /\ pc[Hook] \notin {"visit", "log", "exit"}
    /\ vm # "listing" => pc[Hook] = "idle" /\ \A t \in Threads : pc[t] \in {"idle", "visit"}
    /\ vm = "none" => \A t \in Threads : pc[t] = "idle"

Writers ==
    /\ instance <= Len(classMap)
    /\ \A a \in Threads \cup {Hook} :
          /\ writer[a] <= Len(classMap)
          /\ pc[a] = "return" => instance > 0
          /\ pc[a] \in {"log", "iterate"} => writer[a] > 0

ControlInv == Shape /\ Control /\ Writers

\* The name that thread t gives to where it stands is the name of its event.
Named(t) ==
    Active(t) /\ Reached(t) > 0 =>
        <<class[t], method[t], lineNb[t], insnNb[t]>> = NameOf(class[t], Reached(t))

CountersInv == \A t \in Threads : Named(t)

EntriesInv ==
    /\ \A w \in 1 .. Len(classMap) : classMap[w] \subseteq AllNames
    /\ xml \subseteq AllNames
    /\ instrumented \subseteq UNION {{c} \X Wanted(c) : c \in Classes}

\* A class is visited by one thread, once.
Shares ==
    /\ loaded \cap unloaded = {}
    /\ vm = "none" => loaded = {}
    /\ \A t \in Threads : Active(t) => class[t] \notin unloaded \cup loaded
    /\ \A t, u \in Threads : Active(t) /\ Active(u) /\ class[t] = class[u] => t = u

Marked(c, p) == file.readable /\ NameOf(c, p) \in file.floats

\* Where the visitor has been, what is instrumented is what was marked.
LoadInv ==
    /\ vm # "loading" \/ ~file.readable => instrumented = {}
    /\ \A c \in unloaded : \A p \in Wanted(c) : <<c, p>> \notin instrumented
    /\ vm = "loading" =>
          /\ \A c \in loaded : \A p \in Wanted(c) : <<c, p>> \in instrumented <=> Marked(c, p)
          /\ \A t \in Threads : Active(t) =>
                \A p \in Wanted(class[t]) :
                    <<class[t], p>> \in instrumented <=> p < pos[t] /\ Marked(class[t], p)

\* What any of the writers created has been given.
Logged == UNION {classMap[w] : w \in 1 .. Len(classMap)}

\* What the file has kept of the classes loaded in time.
Listed == file.readable /\ \A c \in complete : Names(c) \subseteq file.listed

\* Where the visitor has been, every instruction is in the one writer there is.
ListInv ==
    /\ touched => raced
    /\ ~raced /\ vm = "listing" =>
          /\ instance = Len(classMap) /\ Len(classMap) <= 1
          /\ complete \subseteq loaded
          /\ \A c \in loaded : Names(c) \subseteq Logged
          /\ \A t \in Threads : Active(t) =>
                \A p \in Wanted(class[t]) : p < pos[t] => NameOf(class[t], p) \in Logged
    /\ pc[Hook] = "done" \/ vm # "listing" => raced \/ Listed

-----------------------------------------------------------------------------
(* The shape of the state.                                                 *)

LEMMA CodeType ==
    ASSUME NEW c \in Classes
    PROVE  /\ Len(Code[c]) \in Nat
           /\ \A p \in 1 .. Len(Code[c]) :
                  /\ Code[c][p].kind \in {"method", "line", "wanted", "other"}
                  /\ Code[c][p].value \in Nat
<1>1. Code[c] \in Seq(Event)
  BY CodeAssumption
<1>2. \A p \in 1 .. Len(Code[c]) : Code[c][p] \in Event
  BY <1>1
<1> QED
  BY <1>1, <1>2 DEF Event

\* A visitor that is about to visit an event is at one of its class.
LEMMA AtType ==
    ASSUME Shape, Control, NEW t \in Threads, NEW kind, At(t, kind)
    PROVE  /\ class[t] \in Classes /\ Len(Code[class[t]]) \in Nat
           /\ pos[t] \in 1 .. Len(Code[class[t]])
           /\ Code[class[t]][pos[t]].kind = kind /\ Code[class[t]][pos[t]].value \in Nat
           /\ pc[t] = "visit"
<1>1. class[t] \in Classes
  BY DEF Shape
<1>2. Len(Code[class[t]]) \in Nat
  BY <1>1, CodeType
<1>3. pos[t] \in 1 .. Len(Code[class[t]])
  BY <1>1, <1>2 DEF Control, At
<1> QED
  BY <1>1, <1>2, <1>3, CodeType DEF At, Current

LEMMA FreshType ==
    /\ Fresh.pc = [a \in Threads \cup {Hook} |-> "idle"]
    /\ Fresh.class \in [Threads -> Classes]
    /\ Fresh.pos = [t \in Threads |-> 1]
    /\ Fresh.counter = [t \in Threads |-> 0]
    /\ Fresh.writer = [a \in Threads \cup {Hook} |-> 0]
<1>1. (CHOOSE c \in Classes : TRUE) \in Classes
  BY CodeAssumption
<1> QED
  BY <1>1 DEF Fresh

\* A thread that logs has a writer, and a key to give it.
LEMMA LogType ==
    ASSUME Shape, Writers, NEW t \in Threads, LogInstruction(t)
    PROVE  /\ writer[t] \in 1 .. Len(classMap) /\ Len(classMap) \in Nat
           /\ Key(t, insnNb[t]) \in Keys
           /\ classMap' = [classMap EXCEPT ![writer[t]] = @ \cup {Key(t, insnNb[t])}]
           /\ classMap' \in Seq(SUBSET Keys) /\ Len(classMap') = Len(classMap)
<1>1. writer[t] \in 1 .. Len(classMap) /\ Len(classMap) \in Nat
  BY DEF Shape, Writers, LogInstruction
<1>2. Key(t, insnNb[t]) \in Keys
  BY DEF Shape, Key, Keys
<1>3. classMap' = [classMap EXCEPT ![writer[t]] = @ \cup {Key(t, insnNb[t])}]
  BY DEF LogInstruction
<1>4. classMap[writer[t]] \cup {Key(t, insnNb[t])} \in SUBSET Keys
  BY <1>1, <1>2, ElementOfSeq DEF Shape
<1>5. classMap \in Seq(SUBSET Keys)
  BY DEF Shape
<1>6. classMap' = [classMap EXCEPT ![writer[t]] = classMap[writer[t]] \cup {Key(t, insnNb[t])}]
  BY <1>3
<1>7. classMap' \in Seq(SUBSET Keys) /\ Len(classMap') = Len(classMap)
  BY <1>1, <1>4, <1>5, <1>6, ExceptSeq
<1> QED
  BY <1>1, <1>2, <1>3, <1>7

LEMMA ShapeNext == Shape /\ Control /\ Writers /\ [Next]_vars => Shape'
<1> SUFFICES ASSUME Shape, Control, Writers, [Next]_vars
    PROVE Shape'
  OBVIOUS
<1>1. ASSUME NEW t \in Threads, NEW c \in Classes, Transform(t, c) PROVE Shape'
  BY <1>1 DEF Transform, Shape, writerVars, hookVars, GoTo
<1>2. ASSUME NEW t \in Threads, VisitMethod(t) PROVE Shape'
  <2>1. Code[class[t]][pos[t]].value \in Nat
    BY <1>2, AtType DEF VisitMethod
  <2>2. /\ method' \in [Threads -> Nat] /\ lineNb' \in [Threads -> Nat]
        /\ insnNb' \in [Threads -> Nat] /\ pos' \in [Threads -> Nat]
    BY <1>2, <2>1 DEF VisitMethod, Shape, Step, Current
  <2>3. UNCHANGED <<vm, pc, class, unloaded, loaded, complete, instance, classMap, writer, xml,
                    touched, raced, file>>
    BY <1>2 DEF VisitMethod, classVars, writerVars, hookVars
  <2> QED
    BY <2>2, <2>3 DEF Shape
<1>3. ASSUME NEW t \in Threads, VisitLineNumber(t) PROVE Shape'
  <2>1. Code[class[t]][pos[t]].value \in Nat
    BY <1>3, AtType DEF VisitLineNumber
  <2>2. /\ method' \in [Threads -> Nat] /\ lineNb' \in [Threads -> Nat]
        /\ insnNb' \in [Threads -> Nat] /\ pos' \in [Threads -> Nat]
    BY <1>3, <2>1 DEF VisitLineNumber, Shape, Step, Current
  <2>3. UNCHANGED <<vm, pc, class, unloaded, loaded, complete, instance, classMap, writer, xml,
                    touched, raced, file>>
    BY <1>3 DEF VisitLineNumber, classVars, writerVars, hookVars
  <2> QED
    BY <2>2, <2>3 DEF Shape
<1>4. ASSUME NEW t \in Threads, VisitOther(t) PROVE Shape'
  <2>1. insnNb' \in [Threads -> Nat] /\ pos' \in [Threads -> Nat]
    BY <1>4 DEF VisitOther, Shape, Step
  <2>2. UNCHANGED <<vm, pc, class, method, lineNb, unloaded, loaded, complete, instance, classMap,
                    writer, xml, touched, raced, file>>
    BY <1>4 DEF VisitOther, classVars, writerVars, hookVars
  <2> QED
    BY <2>1, <2>2 DEF Shape
<1>5. ASSUME NEW t \in Threads, VisitListed(t) PROVE Shape'
  BY <1>5 DEF VisitListed, Shape, classVars, writerVars, hookVars, GoTo, At, Current
<1>6. ASSUME NEW t \in Threads, VisitLoaded(t) PROVE Shape'
  <2>1. insnNb' \in [Threads -> Nat] /\ pos' \in [Threads -> Nat]
    BY <1>6 DEF VisitLoaded, Shape, Step
  <2>2. UNCHANGED <<vm, pc, class, method, lineNb, unloaded, loaded, complete, instance, classMap,
                    writer, xml, touched, raced, file>>
    BY <1>6 DEF VisitLoaded, classVars, writerVars, hookVars
  <2> QED
    BY <2>1, <2>2 DEF Shape
<1>7. ASSUME NEW t \in Threads, VisitFails(t) PROVE Shape'
  BY <1>7 DEF VisitFails, Shape, visitor, writerVars, hookVars, GoTo, At, Current
<1>8. ASSUME NEW t \in Threads, VisitEnd(t) PROVE Shape'
  BY <1>8 DEF VisitEnd, Shape, visitor, writerVars, hookVars, GoTo
<1>9. ASSUME NEW a \in Threads \cup {Hook}, CheckInstance(a) PROVE Shape'
  BY <1>9 DEF CheckInstance, Shape, visitor, classVars, writerVars, hookVars, GoTo
<1>10. ASSUME NEW a \in Threads \cup {Hook}, CreateInstance(a) PROVE Shape'
  BY <1>10 DEF CreateInstance, Shape, visitor, classVars, GoTo
<1>11. ASSUME NEW a \in Threads \cup {Hook}, ReturnInstance(a) PROVE Shape'
  BY <1>11 DEF ReturnInstance, Shape, visitor, classVars, hookVars, GoTo
<1>12. ASSUME NEW t \in Threads, LogInstruction(t) PROVE Shape'
  <2>1. classMap' \in Seq(SUBSET Keys)
    BY <1>12, LogType
  <2>2. touched' \in BOOLEAN /\ raced' \in BOOLEAN
    BY <1>12 DEF LogInstruction, DisturbsHook, Shape
  <2>3. /\ pc' = [pc EXCEPT ![t] = "visit"] /\ pos' = [pos EXCEPT ![t] = @ + 1]
        /\ UNCHANGED <<vm, class, method, lineNb, insnNb, classVars, instance, writer, xml, file>>
    BY <1>12 DEF LogInstruction, GoTo, Step
  <2> QED
    BY <2>1, <2>2, <2>3 DEF Shape, classVars
<1>13. ASSUME NEW t \in Threads, Shutdown(t) PROVE Shape'
  BY <1>13 DEF Shutdown, Shape, visitor, writerVars, hookVars
<1>14. ASSUME NEW w \in 1 .. Len(classMap), NEW k \in classMap[w], ReadEntry(k) PROVE Shape'
  BY <1>14 DEF ReadEntry, Shape, visitor, classVars, writerVars
<1>15. ASSUME WriteFile PROVE Shape'
  BY <1>15 DEF WriteFile, Shape, visitor, classVars, writerVars, hookVars, GoTo
<1>16. ASSUME HookFails PROVE Shape'
  BY <1>16 DEF HookFails, Shape, visitor, classVars, writerVars, hookVars, GoTo
<1>17. ASSUME Halt PROVE Shape'
  <2>1. classMap' \in Seq(SUBSET Keys)
    BY <1>17 DEF Halt
  <2>2. /\ pc' = [a \in Threads \cup {Hook} |-> "idle"] /\ class' \in [Threads -> Classes]
        /\ pos' = [t \in Threads |-> 1] /\ writer' = [a \in Threads \cup {Hook} |-> 0]
        /\ method' = [t \in Threads |-> 0]
        /\ lineNb' = [t \in Threads |-> 0] /\ insnNb' = [t \in Threads |-> 0]
    BY <1>17, FreshType DEF Halt
  <2>3. vm' = "none" /\ UNCHANGED <<complete, raced, file>>
    BY <1>17 DEF Halt
  <2>4. unloaded' = Classes /\ loaded' = {} /\ instance' = 0 /\ xml' = {} /\ touched' = FALSE
    BY <1>17 DEF Halt
  <2> QED
    BY <2>1, <2>2, <2>3, <2>4 DEF Shape
<1>18. ASSUME NEW s \in SUBSET file.listed, EditAndLoad(s) PROVE Shape'
  BY <1>18 DEF EditAndLoad, Shape, visitor, classVars, writerVars, hookVars
<1>19. CASE UNCHANGED vars
  BY <1>19 DEF Shape,
     visitor, classVars, writerVars, hookVars, vars
<1> QED
  BY <1>1, <1>2, <1>3, <1>4, <1>5, <1>6, <1>7, <1>8, <1>9,
     <1>10, <1>11, <1>12, <1>13, <1>14, <1>15, <1>16, <1>17, <1>18, <1>19
     DEF Next, ClassLoading, GetInstance, Finished

\* A visitor that passes its event leaves the rest of the control as it is.
LEMMA ControlStep ==
    ASSUME Shape, Control, NEW t \in Threads, NEW kind, At(t, kind), Step(t),
           UNCHANGED <<vm, pc, class>>
    PROVE  Control'
<1>1. /\ class[t] \in Classes /\ Len(Code[class[t]]) \in Nat
      /\ pos[t] \in 1 .. Len(Code[class[t]]) /\ pc[t] = "visit"
  BY AtType
<1>2. pos'[t] = pos[t] + 1 /\ \A u \in Threads \ {t} : pos'[u] = pos[u]
  BY DEF Step, Shape
<1>3. pos'[t] \in 1 .. Len(Code[class[t]]) + 1
  BY <1>1, <1>2
<1>4. \A u \in Threads : pos'[u] \in 1 .. Len(Code[class[u]]) + 1
  BY <1>2, <1>3 DEF Control
<1>5. \A u \in Threads : Logging(u)' => Logging(u) /\ pos'[u] = pos[u]
  BY <1>1, <1>2 DEF Logging
<1> QED
  BY <1>4, <1>5 DEF Control

LEMMA ControlNext == Shape /\ Control /\ Writers /\ [Next]_vars => Control'
<1> SUFFICES ASSUME Shape, Control, Writers, [Next]_vars
    PROVE Control'
  OBVIOUS
<1> USE HookAssumption
<1>1. ASSUME NEW t \in Threads, NEW c \in Classes, Transform(t, c) PROVE Control'
  <2>1. Len(Code[c]) \in Nat
    BY CodeType
  <2> QED
    BY <1>1, <2>1, HookAssumption DEF Transform, Shape, Control, Logging, GoTo
<1>2. ASSUME NEW t \in Threads, VisitMethod(t) PROVE Control'
  BY <1>2, ControlStep DEF VisitMethod
<1>3. ASSUME NEW t \in Threads, VisitLineNumber(t) PROVE Control'
  BY <1>3, ControlStep DEF VisitLineNumber
<1>4. ASSUME NEW t \in Threads, VisitOther(t) PROVE Control'
  BY <1>4, ControlStep DEF VisitOther
<1>5. ASSUME NEW t \in Threads, VisitListed(t) PROVE Control'
  <2>1. class[t] \in Classes /\ Len(Code[class[t]]) \in Nat /\ pos[t] \in Wanted(class[t])
    BY <1>5, AtType DEF VisitListed, Wanted
  <2> QED
    BY <1>5, <2>1 DEF VisitListed, Shape, Control, Logging, GoTo, At
<1>6. ASSUME NEW t \in Threads, VisitLoaded(t) PROVE Control'
  BY <1>6, ControlStep DEF VisitLoaded
<1>7. ASSUME NEW t \in Threads, VisitFails(t) PROVE Control'
  BY <1>7 DEF VisitFails, Shape, Control, Logging, visitor, writerVars, hookVars, GoTo, At,
     Current
<1>8. ASSUME NEW t \in Threads, VisitEnd(t) PROVE Control'
  BY <1>8 DEF VisitEnd, Shape, Control, Logging, visitor, writerVars, hookVars, GoTo
<1>9. ASSUME NEW a \in Threads \cup {Hook}, CheckInstance(a) PROVE Control'
  BY <1>9 DEF CheckInstance, Shape, Control, Logging, visitor, classVars, writerVars, hookVars,
     GoTo
<1>10. ASSUME NEW a \in Threads \cup {Hook}, CreateInstance(a) PROVE Control'
  BY <1>10 DEF CreateInstance, Shape, Control, Logging, visitor, classVars, GoTo
<1>11. ASSUME NEW a \in Threads \cup {Hook}, ReturnInstance(a) PROVE Control'
  BY <1>11 DEF ReturnInstance, Shape, Control, Logging, visitor, classVars, hookVars, GoTo
<1>12. ASSUME NEW t \in Threads, LogInstruction(t) PROVE Control'
  <2>1. class[t] \in Classes /\ vm = "listing" /\ pos[t] \in Wanted(class[t])
    BY <1>12 DEF LogInstruction, Shape, Control, Logging
  <2>2. Len(Code[class[t]]) \in Nat /\ pos[t] \in 1 .. Len(Code[class[t]])
    BY <2>1, CodeType DEF Wanted
  <2>3. /\ pos' = [pos EXCEPT ![t] = @ + 1] /\ pc' = [pc EXCEPT ![t] = "visit"]
        /\ UNCHANGED <<vm, class>>
    BY <1>12 DEF LogInstruction, GoTo, Step
  <2>4. /\ pos'[t] = pos[t] + 1 /\ pc'[t] = "visit" /\ pc'[Hook] = pc[Hook]
        /\ \A u \in Threads \ {t} : pos'[u] = pos[u] /\ pc'[u] = pc[u]
    BY <2>3 DEF Shape
  <2>5. pos'[t] \in 1 .. Len(Code[class[t]]) + 1
    BY <2>2, <2>4
  <2>6. \A u \in Threads : pos'[u] \in 1 .. Len(Code[class'[u]]) + 1
    BY <2>3, <2>4, <2>5 DEF Control
  <2>7. \A u \in Threads : Logging(u)' => Logging(u) /\ pos'[u] = pos[u]
    BY <2>4 DEF Logging
  <2>8. \A u \in Threads : pc'[u] \notin {"iterate", "done"}
    BY <2>4 DEF Control
  <2> QED
    BY <2>1, <2>3, <2>4, <2>6, <2>7, <2>8 DEF Control
<1>13. ASSUME NEW t \in Threads, Shutdown(t) PROVE Control'
  BY <1>13 DEF Shutdown, Shape, Control, Logging, visitor, writerVars, hookVars
<1>14. ASSUME NEW w \in 1 .. Len(classMap), NEW k \in classMap[w], ReadEntry(k) PROVE Control'
  BY <1>14 DEF ReadEntry, Shape, Control, Logging, visitor, classVars, writerVars
<1>15. ASSUME WriteFile PROVE Control'
  BY <1>15 DEF WriteFile, Shape, Control, Logging, visitor, classVars, writerVars, hookVars,
     GoTo
<1>16. ASSUME HookFails PROVE Control'
  BY <1>16 DEF HookFails, Shape, Control, Logging, visitor, classVars, writerVars, hookVars,
     GoTo
<1>17. ASSUME Halt PROVE Control'
  <2>1. \A t \in Threads : class'[t] \in Classes /\ pos'[t] = 1 /\ pc'[t] = "idle"
    BY <1>17, FreshType DEF Halt
  <2>2. pc'[Hook] = "idle" /\ vm' = "none"
    BY <1>17, FreshType DEF Halt
  <2>3. \A t \in Threads : pos'[t] \in 1 .. Len(Code[class'[t]]) + 1
    BY <2>1, CodeType
  <2> QED
    BY <2>1, <2>2, <2>3 DEF Control, Logging
<1>18. ASSUME NEW s \in SUBSET file.listed, EditAndLoad(s) PROVE Control'
  BY <1>18 DEF EditAndLoad, Shape, Control, Logging, visitor, classVars, writerVars, hookVars
<1>19. CASE UNCHANGED vars
  BY <1>19 DEF Shape, Control, Logging,
     visitor, classVars, writerVars, hookVars, vars
<1> QED
  BY <1>1, <1>2, <1>3, <1>4, <1>5, <1>6, <1>7, <1>8, <1>9,
     <1>10, <1>11, <1>12, <1>13, <1>14, <1>15, <1>16, <1>17, <1>18, <1>19
     DEF Next, ClassLoading, GetInstance, Finished

LEMMA WritersNext == Shape /\ Control /\ Writers /\ [Next]_vars => Writers'
<1> SUFFICES ASSUME Shape, Control, Writers, [Next]_vars
    PROVE Writers'
  OBVIOUS
<1> USE HookAssumption
<1>1. ASSUME NEW t \in Threads, NEW c \in Classes, Transform(t, c) PROVE Writers'
  BY <1>1 DEF Transform, Shape, Control, Writers, Logging, writerVars, hookVars, GoTo
<1>2. ASSUME NEW t \in Threads, VisitMethod(t) PROVE Writers'
  BY <1>2 DEF VisitMethod, Shape, Control, Writers, Logging, classVars, writerVars, hookVars,
     Step, At, Current
<1>3. ASSUME NEW t \in Threads, VisitLineNumber(t) PROVE Writers'
  BY <1>3 DEF VisitLineNumber, Shape, Control, Writers, Logging, classVars, writerVars,
     hookVars, Step, At, Current
<1>4. ASSUME NEW t \in Threads, VisitOther(t) PROVE Writers'
  BY <1>4 DEF VisitOther, Shape, Control, Writers, Logging, classVars, writerVars, hookVars,
     Step, At, Current
<1>5. ASSUME NEW t \in Threads, VisitListed(t) PROVE Writers'
  BY <1>5 DEF VisitListed, Shape, Control, Writers, Logging, classVars, writerVars, hookVars,
     GoTo, At, Current
<1>6. ASSUME NEW t \in Threads, VisitLoaded(t) PROVE Writers'
  BY <1>6 DEF VisitLoaded, Shape, Control, Writers, Logging, classVars, writerVars, hookVars,
     Step, At, Current
<1>7. ASSUME NEW t \in Threads, VisitFails(t) PROVE Writers'
  BY <1>7 DEF VisitFails, Shape, Control, Writers, Logging, visitor, writerVars, hookVars, GoTo,
     At, Current
<1>8. ASSUME NEW t \in Threads, VisitEnd(t) PROVE Writers'
  BY <1>8 DEF VisitEnd, Shape, Control, Writers, Logging, visitor, writerVars, hookVars, GoTo
<1>9. ASSUME NEW a \in Threads \cup {Hook}, CheckInstance(a) PROVE Writers'
  BY <1>9 DEF CheckInstance, Shape, Control, Writers, Logging, visitor, classVars, writerVars,
     hookVars, GoTo
<1>10. ASSUME NEW a \in Threads \cup {Hook}, CreateInstance(a) PROVE Writers'
  BY <1>10 DEF CreateInstance, Shape, Control, Writers, Logging, visitor, classVars, GoTo
<1>11. ASSUME NEW a \in Threads \cup {Hook}, ReturnInstance(a) PROVE Writers'
  BY <1>11 DEF ReturnInstance, Shape, Control, Writers, Logging, visitor, classVars, hookVars,
     GoTo
<1>12. ASSUME NEW t \in Threads, LogInstruction(t) PROVE Writers'
  BY <1>12, LogType DEF LogInstruction, Shape, Writers, classVars, GoTo, Step
<1>13. ASSUME NEW t \in Threads, Shutdown(t) PROVE Writers'
  BY <1>13 DEF Shutdown, Shape, Control, Writers, Logging, visitor, writerVars, hookVars
<1>14. ASSUME NEW w \in 1 .. Len(classMap), NEW k \in classMap[w], ReadEntry(k) PROVE Writers'
  BY <1>14 DEF ReadEntry, Shape, Control, Writers, Logging, visitor, classVars, writerVars
<1>15. ASSUME WriteFile PROVE Writers'
  BY <1>15 DEF WriteFile, Shape, Control, Writers, Logging, visitor, classVars, writerVars,
     hookVars, GoTo
<1>16. ASSUME HookFails PROVE Writers'
  BY <1>16 DEF HookFails, Shape, Control, Writers, Logging, visitor, classVars, writerVars,
     hookVars, GoTo
<1>17. ASSUME Halt PROVE Writers'
  <2>1. instance' = 0 /\ Len(classMap') = 0
    BY <1>17 DEF Halt
  <2>2. \A a \in Threads \cup {Hook} : writer'[a] = 0 /\ pc'[a] = "idle"
    BY <1>17, FreshType DEF Halt
  <2> QED
    BY <2>1, <2>2 DEF Writers
<1>18. ASSUME NEW s \in SUBSET file.listed, EditAndLoad(s) PROVE Writers'
  BY <1>18 DEF EditAndLoad, Shape, Control, Writers, Logging, visitor, classVars, writerVars,
     hookVars
<1>19. CASE UNCHANGED vars
  BY <1>19 DEF Shape, Control, Writers, Logging,
     visitor, classVars, writerVars, hookVars, vars
<1> QED
  BY <1>1, <1>2, <1>3, <1>4, <1>5, <1>6, <1>7, <1>8, <1>9,
     <1>10, <1>11, <1>12, <1>13, <1>14, <1>15, <1>16, <1>17, <1>18, <1>19
     DEF Next, ClassLoading, GetInstance, Finished

LEMMA ControlInit == Init => ControlInv
<1> SUFFICES ASSUME Init PROVE ControlInv
  OBVIOUS
<1>1. Shape
  <2>1. classMap \in Seq(SUBSET Keys)
    BY DEF Init
  <2>2. /\ pc = [a \in Threads \cup {Hook} |-> "idle"] /\ class \in [Threads -> Classes]
        /\ pos = [t \in Threads |-> 1] /\ writer = [a \in Threads \cup {Hook} |-> 0]
        /\ method = [t \in Threads |-> 0]
        /\ lineNb = [t \in Threads |-> 0] /\ insnNb = [t \in Threads |-> 0]
    BY FreshType DEF Init
  <2>3. vm = "listing" /\ file = [readable |-> FALSE, listed |-> {}, floats |-> {}]
    BY DEF Init, NoFile
  <2>4. /\ unloaded = Classes /\ loaded = {} /\ complete = {} /\ instance = 0
        /\ xml = {} /\ touched = FALSE /\ raced = FALSE
    BY DEF Init
  <2> QED
    BY <2>1, <2>2, <2>3, <2>4 DEF Shape
<1>2. \A t \in Threads : pos[t] \in 1 .. Len(Code[class[t]]) + 1
  <2>1. \A t \in Threads : class[t] \in Classes /\ pos[t] = 1
    BY FreshType DEF Init
  <2> QED
    BY <2>1, CodeType
<1>3. \A a \in Threads \cup {Hook} : pc[a] = "idle" /\ writer[a] = 0
  BY FreshType DEF Init
<1>4. vm = "listing" /\ instance = 0 /\ Len(classMap) = 0
  BY DEF Init
<1>5. Control
  BY <1>2, <1>3, <1>4 DEF Control, Logging
<1>6. Writers
  BY <1>3, <1>4 DEF Writers
<1> QED
  BY <1>1, <1>5, <1>6 DEF ControlInv

LEMMA ControlAlways == Spec => []ControlInv
<1>1. ControlInv /\ [Next]_vars => ControlInv'
  BY ShapeNext, ControlNext, WritersNext DEF ControlInv
<1> QED
  BY <1>1, ControlInit, PTL DEF Spec

-----------------------------------------------------------------------------
(* What the visitors call the instructions.                                *)

LEMMA NameAt ==
    ASSUME NEW c \in Classes, NEW p \in 1 .. Len(Code[c])
    PROVE  LET kind == Code[c][p].kind
               value == Code[c][p].value
               name == NameOf(c, p - 1)
           IN  /\ kind = "method" => NameOf(c, p) = <<c, value, 0, 0>>
               /\ kind = "line" => NameOf(c, p) = <<c, name[2], value, 0>>
               /\ kind \in Counted => NameOf(c, p) = <<c, name[2], name[3], name[4] + 1>>
               /\ p = 1 => kind = "method"
<1>1. Len(Code[c]) \in Nat
  BY CodeType
<1>2. p - 1 \in 0 .. Len(Code[c]) - 1 /\ (p - 1) + 1 = p
  BY <1>1
<1>3. p = 1 => Code[c][p].kind = "method"
  BY <1>1, CodeAssumption
<1> DEFINE q == p - 1
<1>4. q \in 0 .. Len(Code[c]) - 1 /\ q + 1 = p
  BY <1>2
<1> HIDE DEF q
<1>5. LET kind == Code[c][p].kind
          value == Code[c][p].value
          name == NameOf(c, q)
      IN  /\ kind = "method" => NameOf(c, p) = <<c, value, 0, 0>>
          /\ kind = "line" => NameOf(c, p) = <<c, name[2], value, 0>>
          /\ kind \in Counted => NameOf(c, p) = <<c, name[2], name[3], name[4] + 1>>
  BY <1>4, NameStep
<1> QED
  BY <1>3, <1>5 DEF q

\* The key under which a thread logs is the name of its event.
LEMMA KeyIsName ==
    ASSUME Shape, Control, CountersInv, NEW t \in Threads, Logging(t)
    PROVE  /\ Key(t, insnNb[t]) = NameOf(class[t], pos[t])
           /\ class[t] \in Classes /\ pos[t] \in Wanted(class[t]) /\ vm = "listing"
<1>1. class[t] \in Classes /\ pos[t] \in Wanted(class[t]) /\ vm = "listing"
  BY DEF Shape, Control
<1>2. pos[t] \in Nat /\ pos[t] > 0
  BY <1>1, CodeType DEF Wanted
<1>3. Reached(t) = pos[t]
  BY DEF Logging, Reached
<1> QED
  BY <1>1, <1>2, <1>3 DEF CountersInv, Named, Active, Key

\* A visitor that counts an event calls it by its name.
LEMMA NextKey ==
    ASSUME Shape, Control, CountersInv, NEW t \in Threads, NEW kind \in Counted, At(t, kind)
    PROVE  Key(t, insnNb[t] + 1) = NameOf(class[t], pos[t])
<1> DEFINE c == class[t]
           p == pos[t]
<1>1. /\ c \in Classes /\ p \in 1 .. Len(Code[c]) /\ p \in Nat
      /\ Code[c][p].kind = kind /\ pc[t] = "visit"
  BY AtType DEF Shape
<1>2. p - 1 > 0 /\ Reached(t) = p - 1
  BY <1>1, NameAt DEF Reached, Counted
<1>3. <<c, method[t], lineNb[t], insnNb[t]>> = NameOf(c, p - 1)
  BY <1>1, <1>2 DEF CountersInv, Named, Active
<1> HIDE DEF c, p
<1>4. NameOf(c, p) = <<c, method[t], lineNb[t], insnNb[t] + 1>>
  BY <1>1, <1>3, NameAt
<1> QED
  BY <1>4 DEF c, p, Key

\* A step of one visitor leaves the names of the others as they are.
LEMMA CountersStep ==
    ASSUME Shape, CountersInv, NEW t \in Threads, Named(t)', UNCHANGED class,
           \A u \in Threads \ {t} : UNCHANGED <<pc[u], pos[u], method[u], lineNb[u], insnNb[u]>>
    PROVE  CountersInv'
<1>1. ASSUME NEW u \in Threads \ {t} PROVE Named(u)'
  <2>1. Reached(u)' = Reached(u) /\ (Active(u)' <=> Active(u))
    BY <1>1 DEF Reached, Active, Logging
  <2>2. Named(u)
    BY <1>1 DEF CountersInv
  <2> QED
    BY <1>1, <2>1, <2>2 DEF Named
<1> QED
  BY <1>1 DEF CountersInv

LEMMA CountersNext == Shape /\ Control /\ Writers /\ CountersInv /\ [Next]_vars => CountersInv'
<1> SUFFICES ASSUME Shape, Control, Writers, CountersInv, [Next]_vars
    PROVE CountersInv'
  OBVIOUS
<1> USE HookAssumption
<1>1. ASSUME NEW t \in Threads, NEW c \in Classes, Transform(t, c) PROVE CountersInv'
  <2>1. /\ pc'[t] = "visit" /\ pos'[t] = 1 /\ UNCHANGED <<method, lineNb, insnNb>>
        /\ \A u \in Threads \ {t} : UNCHANGED <<pc[u], pos[u], class[u]>>
    BY <1>1 DEF Transform, Shape, GoTo
  <2>2. Reached(t)' = 0
    BY <2>1 DEF Reached
  <2>3. \A u \in Threads \ {t} : Reached(u)' = Reached(u) /\ (Active(u)' <=> Active(u))
    BY <2>1 DEF Reached, Active, Logging
  <2> QED
    BY <2>1, <2>2, <2>3 DEF CountersInv, Named
<1>2. ASSUME NEW t \in Threads, VisitMethod(t) PROVE CountersInv'
  <2> DEFINE c == class[t]
             p == pos[t]
  <2>1. /\ c \in Classes /\ p \in 1 .. Len(Code[c]) /\ p \in Nat
        /\ Code[c][p].kind = "method" /\ pc[t] = "visit"
    BY <1>2, AtType DEF VisitMethod, Shape
  <2>2. NameOf(c, p) = <<c, Code[c][p].value, 0, 0>>
    <3> HIDE DEF c, p
    <3> QED
      BY <2>1, NameAt
  <2>3. <<class'[t], method'[t], lineNb'[t], insnNb'[t]>> = NameOf(c, p)
    BY <1>2, <2>2 DEF VisitMethod, Current, Shape
  <2> HIDE DEF c, p
  <2>4. /\ pos'[t] = p + 1 /\ pc'[t] = "visit" /\ UNCHANGED class
        /\ \A u \in Threads \ {t} :
              UNCHANGED <<pc[u], pos[u], method[u], lineNb[u], insnNb[u]>>
    BY <1>2, <2>1 DEF VisitMethod, Step, Shape, p
  <2>5. Reached(t)' = p
    BY <2>1, <2>4 DEF Reached
  <2>6. Named(t)'
    BY <2>3, <2>4, <2>5 DEF Named, c
  <2> QED
    BY <2>4, <2>6, CountersStep
<1>3. ASSUME NEW t \in Threads, VisitLineNumber(t) PROVE CountersInv'
  <2> DEFINE c == class[t]
             p == pos[t]
  <2>1. /\ c \in Classes /\ p \in 1 .. Len(Code[c]) /\ p \in Nat
        /\ Code[c][p].kind = "line" /\ pc[t] = "visit"
    BY <1>3, AtType DEF VisitLineNumber, Shape
  <2>2. NameOf(c, p) = <<c, method[t], Code[c][p].value, 0>>
    <3>1. p - 1 > 0 /\ Reached(t) = p - 1
      BY <2>1, NameAt DEF Reached
    <3>2. <<c, method[t], lineNb[t], insnNb[t]>> = NameOf(c, p - 1)
      BY <2>1, <3>1 DEF CountersInv, Named, Active
    <3> HIDE DEF c, p
    <3> QED
      BY <2>1, <3>2, NameAt DEF Counted
  <2>3. <<class'[t], method'[t], lineNb'[t], insnNb'[t]>> = NameOf(c, p)
    BY <1>3, <2>2 DEF VisitLineNumber, Current, Shape
  <2> HIDE DEF c, p
  <2>4. /\ pos'[t] = p + 1 /\ pc'[t] = "visit" /\ UNCHANGED class
        /\ \A u \in Threads \ {t} :
              UNCHANGED <<pc[u], pos[u], method[u], lineNb[u], insnNb[u]>>
    BY <1>3, <2>1 DEF VisitLineNumber, Step, Shape, p
  <2>5. Reached(t)' = p
    BY <2>1, <2>4 DEF Reached
  <2>6. Named(t)'
    BY <2>3, <2>4, <2>5 DEF Named, c
  <2> QED
    BY <2>4, <2>6, CountersStep
<1>4. ASSUME NEW t \in Threads, VisitOther(t) PROVE CountersInv'
  <2> DEFINE c == class[t]
             p == pos[t]
  <2>1. /\ c \in Classes /\ p \in 1 .. Len(Code[c]) /\ p \in Nat
        /\ Code[c][p].kind = "other" /\ pc[t] = "visit"
    BY <1>4, AtType DEF VisitOther, Shape
  <2>2. NameOf(c, p) = <<c, method[t], lineNb[t], insnNb[t] + 1>>
    BY <1>4, NextKey DEF VisitOther, Key, Counted
  <2>3. <<class'[t], method'[t], lineNb'[t], insnNb'[t]>> = NameOf(c, p)
    BY <1>4, <2>2 DEF VisitOther, Current, Shape
  <2> HIDE DEF c, p
  <2>4. /\ pos'[t] = p + 1 /\ pc'[t] = "visit" /\ UNCHANGED class
        /\ \A u \in Threads \ {t} :
              UNCHANGED <<pc[u], pos[u], method[u], lineNb[u], insnNb[u]>>
    BY <1>4, <2>1 DEF VisitOther, Step, Shape, p
  <2>5. Reached(t)' = p
    BY <2>1, <2>4 DEF Reached
  <2>6. Named(t)'
    BY <2>3, <2>4, <2>5 DEF Named, c
  <2> QED
    BY <2>4, <2>6, CountersStep
<1>5. ASSUME NEW t \in Threads, VisitListed(t) PROVE CountersInv'
  <2> DEFINE c == class[t]
             p == pos[t]
  <2>1. /\ c \in Classes /\ p \in 1 .. Len(Code[c]) /\ p \in Nat
        /\ Code[c][p].kind = "wanted" /\ pc[t] = "visit"
    BY <1>5, AtType DEF VisitListed, Shape
  <2>2. NameOf(c, p) = <<c, method[t], lineNb[t], insnNb[t] + 1>>
    BY <1>5, NextKey DEF VisitListed, Key, Counted
  <2>3. <<class'[t], method'[t], lineNb'[t], insnNb'[t]>> = NameOf(c, p)
    BY <1>5, <2>2 DEF VisitListed, Current, Shape
  <2> HIDE DEF c, p
  <2>4. /\ pos'[t] = p /\ pc'[t] = "getinstance" /\ UNCHANGED class
        /\ \A u \in Threads \ {t} :
              UNCHANGED <<pc[u], pos[u], method[u], lineNb[u], insnNb[u]>>
    BY <1>5 DEF VisitListed, GoTo, Shape, p
  <2>5. Reached(t)' = p
    BY <2>1, <2>4 DEF Reached
  <2>6. Named(t)'
    BY <2>3, <2>4, <2>5 DEF Named, c
  <2> QED
    BY <2>4, <2>6, CountersStep
<1>6. ASSUME NEW t \in Threads, VisitLoaded(t) PROVE CountersInv'
  <2> DEFINE c == class[t]
             p == pos[t]
  <2>1. /\ c \in Classes /\ p \in 1 .. Len(Code[c]) /\ p \in Nat
        /\ Code[c][p].kind = "wanted" /\ pc[t] = "visit"
    BY <1>6, AtType DEF VisitLoaded, Shape
  <2>2. NameOf(c, p) = <<c, method[t], lineNb[t], insnNb[t] + 1>>
    BY <1>6, NextKey DEF VisitLoaded, Key, Counted
  <2>3. <<class'[t], method'[t], lineNb'[t], insnNb'[t]>> = NameOf(c, p)
    BY <1>6, <2>2 DEF VisitLoaded, Current, Shape
  <2> HIDE DEF c, p
  <2>4. /\ pos'[t] = p + 1 /\ pc'[t] = "visit" /\ UNCHANGED class
        /\ \A u \in Threads \ {t} :
              UNCHANGED <<pc[u], pos[u], method[u], lineNb[u], insnNb[u]>>
    BY <1>6, <2>1 DEF VisitLoaded, Step, Shape, p
  <2>5. Reached(t)' = p
    BY <2>1, <2>4 DEF Reached
  <2>6. Named(t)'
    BY <2>3, <2>4, <2>5 DEF Named, c
  <2> QED
    BY <2>4, <2>6, CountersStep
<1>7. ASSUME NEW t \in Threads, VisitFails(t) PROVE CountersInv'
  BY <1>7 DEF VisitFails, Shape, Control, CountersInv, Named, Active, Logging, Reached, visitor,
     writerVars, hookVars, GoTo, At, Current
<1>8. ASSUME NEW t \in Threads, VisitEnd(t) PROVE CountersInv'
  BY <1>8 DEF VisitEnd, Shape, Control, CountersInv, Named, Active, Logging, Reached, visitor,
     writerVars, hookVars, GoTo
<1>9. ASSUME NEW a \in Threads \cup {Hook}, CheckInstance(a) PROVE CountersInv'
  BY <1>9 DEF CheckInstance, Shape, Control, CountersInv, Named, Active, Logging, Reached,
     visitor, classVars, writerVars, hookVars, GoTo
<1>10. ASSUME NEW a \in Threads \cup {Hook}, CreateInstance(a) PROVE CountersInv'
  BY <1>10 DEF CreateInstance, Shape, Control, CountersInv, Named, Active, Logging, Reached,
     visitor, classVars, GoTo
<1>11. ASSUME NEW a \in Threads \cup {Hook}, ReturnInstance(a) PROVE CountersInv'
  BY <1>11 DEF ReturnInstance, Shape, Control, CountersInv, Named, Active, Logging, Reached,
     visitor, classVars, hookVars, GoTo
<1>12. ASSUME NEW t \in Threads, LogInstruction(t) PROVE CountersInv'
  <2>1. /\ pc[t] = "log" /\ pos[t] \in Nat /\ pos'[t] = pos[t] + 1 /\ pc'[t] = "visit"
        /\ UNCHANGED <<class, method, lineNb, insnNb>>
        /\ \A u \in Threads \ {t} : UNCHANGED <<pc[u], pos[u]>>
    BY <1>12 DEF LogInstruction, Shape, GoTo, Step
  <2>2. Reached(t)' = Reached(t) /\ Active(t)
    BY <2>1 DEF Reached, Active, Logging
  <2>3. Named(t)
    BY DEF CountersInv
  <2>4. Named(t)'
    BY <2>1, <2>2, <2>3 DEF Named
  <2> QED
    BY <2>1, <2>4, CountersStep
<1>13. ASSUME NEW t \in Threads, Shutdown(t) PROVE CountersInv'
  BY <1>13 DEF Shutdown, Shape, Control, CountersInv, Named, Active, Logging, Reached, visitor,
     writerVars, hookVars
<1>14. ASSUME NEW w \in 1 .. Len(classMap), NEW k \in classMap[w], ReadEntry(k) PROVE CountersInv'
  BY <1>14 DEF ReadEntry, Shape, Control, CountersInv, Named, Active, Logging, Reached, visitor,
     classVars, writerVars
<1>15. ASSUME WriteFile PROVE CountersInv'
  BY <1>15 DEF WriteFile, Shape, Control, CountersInv, Named, Active, Logging, Reached, visitor,
     classVars, writerVars, hookVars, GoTo
<1>16. ASSUME HookFails PROVE CountersInv'
  BY <1>16 DEF HookFails, Shape, Control, CountersInv, Named, Active, Logging, Reached, visitor,
     classVars, writerVars, hookVars, GoTo
<1>17. ASSUME Halt PROVE CountersInv'
  <2>1. \A t \in Threads : pc'[t] = "idle"
    BY <1>17, FreshType DEF Halt
  <2> QED
    BY <2>1 DEF CountersInv, Named, Active, Logging
<1>18. ASSUME NEW s \in SUBSET file.listed, EditAndLoad(s) PROVE CountersInv'
  BY <1>18 DEF EditAndLoad, Shape, Control, CountersInv, Named, Active, Logging, Reached,
     visitor, classVars, writerVars, hookVars
<1>19. CASE UNCHANGED vars
  BY <1>19 DEF Shape, Control, CountersInv, Named, Active, Logging, Reached,
     visitor, classVars, writerVars, hookVars, vars
<1> QED
  BY <1>1, <1>2, <1>3, <1>4, <1>5, <1>6, <1>7, <1>8, <1>9,
     <1>10, <1>11, <1>12, <1>13, <1>14, <1>15, <1>16, <1>17, <1>18, <1>19
     DEF Next, ClassLoading, GetInstance, Finished

LEMMA EntriesNext ==
    Shape /\ Control /\ Writers /\ CountersInv /\ EntriesInv /\ [Next]_vars => EntriesInv'
<1> SUFFICES ASSUME Shape, Control, Writers, CountersInv, EntriesInv, [Next]_vars
    PROVE EntriesInv'
  OBVIOUS
<1>1. ASSUME NEW t \in Threads, NEW c \in Classes, Transform(t, c) PROVE EntriesInv'
  BY <1>1 DEF Transform, Shape, EntriesInv, writerVars, hookVars
<1>2. ASSUME NEW t \in Threads, VisitMethod(t) PROVE EntriesInv'
  BY <1>2 DEF VisitMethod, Shape, EntriesInv, classVars, writerVars, hookVars
<1>3. ASSUME NEW t \in Threads, VisitLineNumber(t) PROVE EntriesInv'
  BY <1>3 DEF VisitLineNumber, Shape, EntriesInv, classVars, writerVars, hookVars
<1>4. ASSUME NEW t \in Threads, VisitOther(t) PROVE EntriesInv'
  BY <1>4 DEF VisitOther, Shape, EntriesInv, classVars, writerVars, hookVars
<1>5. ASSUME NEW t \in Threads, VisitListed(t) PROVE EntriesInv'
  BY <1>5 DEF VisitListed, Shape, EntriesInv, classVars, writerVars, hookVars
<1>6. ASSUME NEW t \in Threads, VisitLoaded(t) PROVE EntriesInv'
  <2>1. class[t] \in Classes /\ pos[t] \in Wanted(class[t])
    BY <1>6, AtType DEF VisitLoaded, Wanted
  <2>2. /\ instrumented' \subseteq instrumented \cup {<<class[t], pos[t]>>}
        /\ UNCHANGED <<classMap, xml>>
    BY <1>6 DEF VisitLoaded, writerVars, hookVars
  <2> QED
    BY <2>1, <2>2 DEF EntriesInv
<1>7. ASSUME NEW t \in Threads, VisitFails(t) PROVE EntriesInv'
  BY <1>7 DEF VisitFails, Shape, EntriesInv, visitor, writerVars, hookVars
<1>8. ASSUME NEW t \in Threads, VisitEnd(t) PROVE EntriesInv'
  BY <1>8 DEF VisitEnd, Shape, EntriesInv, visitor, writerVars, hookVars
<1>9. ASSUME NEW a \in Threads \cup {Hook}, CheckInstance(a) PROVE EntriesInv'
  BY <1>9 DEF CheckInstance, Shape, EntriesInv, visitor, classVars, writerVars, hookVars
<1>10. ASSUME NEW a \in Threads \cup {Hook}, CreateInstance(a) PROVE EntriesInv'
  BY <1>10 DEF CreateInstance, Shape, EntriesInv, visitor, classVars
<1>11. ASSUME NEW a \in Threads \cup {Hook}, ReturnInstance(a) PROVE EntriesInv'
  BY <1>11 DEF ReturnInstance, Shape, EntriesInv, visitor, classVars, hookVars
<1>12. ASSUME NEW t \in Threads, LogInstruction(t) PROVE EntriesInv'
  <2>1. Key(t, insnNb[t]) \in AllNames
    <3>1. Logging(t)
      BY <1>12 DEF LogInstruction, Logging
    <3> QED
      BY <3>1, KeyIsName DEF AllNames, Names
  <2>2. /\ writer[t] \in 1 .. Len(classMap) /\ Len(classMap') = Len(classMap)
        /\ classMap' = [classMap EXCEPT ![writer[t]] = @ \cup {Key(t, insnNb[t])}]
    BY <1>12, LogType
  <2>3. UNCHANGED <<xml, instrumented>>
    BY <1>12 DEF LogInstruction
  <2> QED
    BY <2>1, <2>2, <2>3 DEF Shape, EntriesInv
<1>13. ASSUME NEW t \in Threads, Shutdown(t) PROVE EntriesInv'
  BY <1>13 DEF Shutdown, Shape, EntriesInv, visitor, writerVars, hookVars
<1>14. ASSUME NEW w \in 1 .. Len(classMap), NEW k \in classMap[w], ReadEntry(k) PROVE EntriesInv'
  BY <1>14 DEF ReadEntry, Shape, EntriesInv, visitor, classVars, writerVars
<1>15. ASSUME WriteFile PROVE EntriesInv'
  BY <1>15 DEF WriteFile, Shape, EntriesInv, visitor, classVars, writerVars, hookVars
<1>16. ASSUME HookFails PROVE EntriesInv'
  BY <1>16 DEF HookFails, Shape, EntriesInv, visitor, classVars, writerVars, hookVars
<1>17. ASSUME Halt PROVE EntriesInv'
  BY <1>17 DEF Halt, Shape, EntriesInv
<1>18. ASSUME NEW s \in SUBSET file.listed, EditAndLoad(s) PROVE EntriesInv'
  BY <1>18 DEF EditAndLoad, Shape, EntriesInv, visitor, classVars, writerVars, hookVars
<1>19. CASE UNCHANGED vars
  BY <1>19 DEF Shape, EntriesInv,
     visitor, classVars, writerVars, hookVars, vars
<1> QED
  BY <1>1, <1>2, <1>3, <1>4, <1>5, <1>6, <1>7, <1>8, <1>9,
     <1>10, <1>11, <1>12, <1>13, <1>14, <1>15, <1>16, <1>17, <1>18, <1>19
     DEF Next, ClassLoading, GetInstance, Finished

LEMMA NamesAlways == Spec => [](CountersInv /\ EntriesInv)
<1>1. Init => CountersInv /\ EntriesInv
  <2> SUFFICES ASSUME Init PROVE CountersInv /\ EntriesInv
    OBVIOUS
  <2>1. \A t \in Threads : pc[t] = "idle"
    BY FreshType DEF Init
  <2>2. Len(classMap) = 0 /\ xml = {} /\ instrumented = {}
    BY DEF Init
  <2> QED
    BY <2>1, <2>2 DEF CountersInv, Named, Active, Logging, EntriesInv
<1>2. ControlInv /\ CountersInv /\ EntriesInv /\ [Next]_vars => (CountersInv /\ EntriesInv)'
  BY CountersNext, EntriesNext DEF ControlInv
<1> QED
  BY <1>1, <1>2, ControlAlways, PTL DEF Spec

\* Type correctness: the states of the two machines, and that every name the
\* writers and the document hold is the name of an instruction to be listed.
THEOREM ListingTypeCorrect == Spec => []TypeOK
<1>1. ControlInv /\ EntriesInv => TypeOK
  BY DEF ControlInv, Shape, Control, Writers, EntriesInv, TypeOK, AllNames
<1> QED
  BY <1>1, ControlAlways, NamesAlways, PTL

-----------------------------------------------------------------------------
(* The second machine.                                                     *)

\* A visitor that passes an event which is not to be converted.
LEMMA LoadSkip ==
    ASSUME Shape, Control, LoadInv, NEW t \in Threads, NEW kind, At(t, kind), kind # "wanted",
           pos' = [pos EXCEPT ![t] = @ + 1],
           UNCHANGED <<vm, pc, class, unloaded, loaded, file, instrumented>>
    PROVE  LoadInv'
<1>1. pos[t] \in Nat /\ pos[t] \notin Wanted(class[t])
  BY AtType DEF Wanted
<1>2. \A p \in Wanted(class[t]) : p \in Nat
  <2>1. class[t] \in Classes
    BY DEF Shape
  <2> QED
    BY <2>1, CodeType DEF Wanted
<1>3. \A p \in Wanted(class[t]) : p < pos'[t] <=> p < pos[t]
  BY <1>1, <1>2 DEF Shape
<1>4. \A u \in Threads \ {t} : pos'[u] = pos[u]
  BY DEF Shape
<1>5. \A u \in Threads : \A p \in Wanted(class[u]) : p < pos'[u] <=> p < pos[u]
  BY <1>3, <1>4
<1> QED
  BY <1>5 DEF LoadInv, Marked, Active, Logging

\* A step that starts no visitor and keeps the classes keeps them shared out.
LEMMA SharesStep ==
    ASSUME Shares, UNCHANGED <<vm, class, unloaded, loaded>>,
           \A u \in Threads : Active(u)' => Active(u)
    PROVE  Shares'
BY DEF Shares

LEMMA SharesNext == Shape /\ Control /\ Writers /\ Shares /\ [Next]_vars => Shares'
<1> SUFFICES ASSUME Shape, Control, Writers, Shares, [Next]_vars
    PROVE Shares'
  OBVIOUS
<1> USE HookAssumption
<1>1. ASSUME NEW t \in Threads, NEW c \in Classes, Transform(t, c) PROVE Shares'
  <2>1. /\ c \in unloaded /\ unloaded' = unloaded \ {c} /\ class'[t] = c /\ vm # "none"
        /\ UNCHANGED <<vm, loaded>> /\ \A u \in Threads \ {t} : UNCHANGED <<pc[u], class[u]>>
    BY <1>1 DEF Transform, Shape, GoTo
  <2>2. \A u \in Threads \ {t} : Active(u)' => Active(u)
    BY <2>1 DEF Active, Logging
  <2> QED
    BY <2>1, <2>2 DEF Shares
<1>2. ASSUME NEW t \in Threads, VisitMethod(t) PROVE Shares'
  <2>1. UNCHANGED <<vm, class, unloaded, loaded>>
    BY <1>2 DEF VisitMethod, classVars
  <2>2. \A u \in Threads : Active(u)' => Active(u)
    BY <1>2 DEF VisitMethod, Shape, Active, Logging, At
  <2> QED
    BY <2>1, <2>2, SharesStep
<1>3. ASSUME NEW t \in Threads, VisitLineNumber(t) PROVE Shares'
  <2>1. UNCHANGED <<vm, class, unloaded, loaded>>
    BY <1>3 DEF VisitLineNumber, classVars
  <2>2. \A u \in Threads : Active(u)' => Active(u)
    BY <1>3 DEF VisitLineNumber, Shape, Active, Logging, At
  <2> QED
    BY <2>1, <2>2, SharesStep
<1>4. ASSUME NEW t \in Threads, VisitOther(t) PROVE Shares'
  <2>1. UNCHANGED <<vm, class, unloaded, loaded>>
    BY <1>4 DEF VisitOther, classVars
  <2>2. \A u \in Threads : Active(u)' => Active(u)
    BY <1>4 DEF VisitOther, Shape, Active, Logging, At
  <2> QED
    BY <2>1, <2>2, SharesStep
<1>5. ASSUME NEW t \in Threads, VisitListed(t) PROVE Shares'
  <2>1. UNCHANGED <<vm, class, unloaded, loaded>>
    BY <1>5 DEF VisitListed, classVars
  <2>2. \A u \in Threads : Active(u)' => Active(u)
    BY <1>5 DEF VisitListed, Shape, Active, Logging, At, GoTo
  <2> QED
    BY <2>1, <2>2, SharesStep
<1>6. ASSUME NEW t \in Threads, VisitLoaded(t) PROVE Shares'
  <2>1. UNCHANGED <<vm, class, unloaded, loaded>>
    BY <1>6 DEF VisitLoaded, classVars
  <2>2. \A u \in Threads : Active(u)' => Active(u)
    BY <1>6 DEF VisitLoaded, Shape, Active, Logging, At
  <2> QED
    BY <2>1, <2>2, SharesStep
<1>7. ASSUME NEW t \in Threads, VisitFails(t) PROVE Shares'
  <2>1. /\ pc[t] = "visit" /\ pc'[t] = "idle" /\ vm = "loading" /\ loaded' = loaded \cup {class[t]}
        /\ UNCHANGED <<vm, class, unloaded>> /\ \A u \in Threads \ {t} : UNCHANGED pc[u]
    BY <1>7 DEF VisitFails, Shape, visitor, GoTo, At
  <2>2. ~Active(t)' /\ \A u \in Threads \ {t} : Active(u)' => Active(u)
    BY <2>1 DEF Active, Logging
  <2>3. Active(t) /\ class[t] \notin unloaded
    BY <2>1 DEF Active, Shares
  <2> QED
    BY <2>1, <2>2, <2>3 DEF Shares
<1>8. ASSUME NEW t \in Threads, VisitEnd(t) PROVE Shares'
  <2>1. /\ pc[t] = "visit" /\ pc'[t] = "idle" /\ vm # "none" /\ loaded' = loaded \cup {class[t]}
        /\ UNCHANGED <<vm, class, unloaded>> /\ \A u \in Threads \ {t} : UNCHANGED pc[u]
    BY <1>8 DEF VisitEnd, Shape, Control, visitor, GoTo
  <2>2. ~Active(t)' /\ \A u \in Threads \ {t} : Active(u)' => Active(u)
    BY <2>1 DEF Active, Logging
  <2>3. Active(t) /\ class[t] \notin unloaded
    BY <2>1 DEF Active, Shares
  <2> QED
    BY <2>1, <2>2, <2>3 DEF Shares
<1>9. ASSUME NEW a \in Threads \cup {Hook}, CheckInstance(a) PROVE Shares'
  <2>1. UNCHANGED <<vm, class, unloaded, loaded>>
    BY <1>9 DEF CheckInstance, visitor, classVars
  <2>2. \A u \in Threads : Active(u)' => Active(u)
    BY <1>9 DEF CheckInstance, Shape, Active, Logging, GoTo
  <2> QED
    BY <2>1, <2>2, SharesStep
<1>10. ASSUME NEW a \in Threads \cup {Hook}, CreateInstance(a) PROVE Shares'
  <2>1. UNCHANGED <<vm, class, unloaded, loaded>>
    BY <1>10 DEF CreateInstance, visitor, classVars
  <2>2. \A u \in Threads : Active(u)' => Active(u)
    BY <1>10 DEF CreateInstance, Shape, Active, Logging, GoTo
  <2> QED
    BY <2>1, <2>2, SharesStep
<1>11. ASSUME NEW a \in Threads \cup {Hook}, ReturnInstance(a) PROVE Shares'
  <2>1. UNCHANGED <<vm, class, unloaded, loaded>>
    BY <1>11 DEF ReturnInstance, visitor, classVars
  <2>2. \A u \in Threads : Active(u)' => Active(u)
    BY <1>11 DEF ReturnInstance, Shape, Active, Logging, GoTo
  <2> QED
    BY <2>1, <2>2, SharesStep
<1>12. ASSUME NEW t \in Threads, LogInstruction(t) PROVE Shares'
  <2>1. UNCHANGED <<vm, class, unloaded, loaded>>
    BY <1>12 DEF LogInstruction, classVars
  <2>2. \A u \in Threads : Active(u)' => Active(u)
    BY <1>12 DEF LogInstruction, Shape, Active, Logging, GoTo
  <2> QED
    BY <2>1, <2>2, SharesStep
<1>13. ASSUME NEW t \in Threads, Shutdown(t) PROVE Shares'
  <2>1. /\ pc'[t] = "exit" /\ \A u \in Threads \ {t} : pc'[u] = pc[u]
        /\ UNCHANGED <<vm, class, unloaded, loaded>>
    BY <1>13 DEF Shutdown, Shape, visitor
  <2> QED
    BY <2>1 DEF Shares, Active, Logging
<1>14. ASSUME NEW w \in 1 .. Len(classMap), NEW k \in classMap[w], ReadEntry(k) PROVE Shares'
  BY <1>14 DEF ReadEntry, Shape, Control, Shares, Active, Logging, visitor, classVars,
     writerVars
<1>15. ASSUME WriteFile PROVE Shares'
  BY <1>15 DEF WriteFile, Shape, Control, Shares, Active, Logging, visitor, classVars,
     writerVars, hookVars, GoTo
<1>16. ASSUME HookFails PROVE Shares'
  BY <1>16 DEF HookFails, Shape, Control, Shares, Active, Logging, visitor, classVars,
     writerVars, hookVars, GoTo
<1>17. ASSUME Halt PROVE Shares'
  <2>1. \A t \in Threads : pc'[t] = "idle"
    BY <1>17, FreshType DEF Halt
  <2>2. loaded' = {}
    BY <1>17 DEF Halt
  <2> QED
    BY <2>1, <2>2 DEF Shares, Active, Logging
<1>18. ASSUME NEW s \in SUBSET file.listed, EditAndLoad(s) PROVE Shares'
  BY <1>18 DEF EditAndLoad, Shape, Control, Shares, Active, Logging, visitor, classVars,
     writerVars, hookVars
<1>19. CASE UNCHANGED vars
  BY <1>19 DEF Shape, Control, Shares, Active, Logging,
     visitor, classVars, writerVars, hookVars, vars
<1> QED
  BY <1>1, <1>2, <1>3, <1>4, <1>5, <1>6, <1>7, <1>8, <1>9,
     <1>10, <1>11, <1>12, <1>13, <1>14, <1>15, <1>16, <1>17, <1>18, <1>19
     DEF Next, ClassLoading, GetInstance, Finished

LEMMA LoadNext ==
    Shape /\ Control /\ Writers /\ CountersInv /\ Shares /\ LoadInv /\ [Next]_vars => LoadInv'
<1> SUFFICES ASSUME Shape, Control, Writers, CountersInv, Shares, LoadInv, [Next]_vars
    PROVE LoadInv'
  OBVIOUS
<1> USE HookAssumption
<1>1. ASSUME NEW t \in Threads, NEW c \in Classes, Transform(t, c) PROVE LoadInv'
  <2>1. /\ pc'[t] = "visit" /\ class'[t] = c /\ pos'[t] = 1 /\ c \in unloaded
        /\ \A u \in Threads \ {t} : UNCHANGED <<pc[u], class[u], pos[u]>>
        /\ unloaded' = unloaded \ {c} /\ UNCHANGED <<vm, loaded, file, instrumented>>
    BY <1>1 DEF Transform, Shape, GoTo
  <2>2. \A p \in Wanted(c) : <<c, p>> \notin instrumented /\ ~(p < 1)
    BY <2>1, CodeType DEF LoadInv, Wanted
  <2> QED
    BY <2>1, <2>2 DEF LoadInv, Marked, Active, Logging
<1>2. ASSUME NEW t \in Threads, VisitMethod(t) PROVE LoadInv'
  <2>1. /\ pos' = [pos EXCEPT ![t] = @ + 1]
        /\ UNCHANGED <<vm, pc, class, unloaded, loaded, file, instrumented>>
    BY <1>2 DEF VisitMethod, Step, classVars
  <2> QED
    BY <1>2, <2>1, LoadSkip DEF VisitMethod
<1>3. ASSUME NEW t \in Threads, VisitLineNumber(t) PROVE LoadInv'
  <2>1. /\ pos' = [pos EXCEPT ![t] = @ + 1]
        /\ UNCHANGED <<vm, pc, class, unloaded, loaded, file, instrumented>>
    BY <1>3 DEF VisitLineNumber, Step, classVars
  <2> QED
    BY <1>3, <2>1, LoadSkip DEF VisitLineNumber
<1>4. ASSUME NEW t \in Threads, VisitOther(t) PROVE LoadInv'
  <2>1. /\ pos' = [pos EXCEPT ![t] = @ + 1]
        /\ UNCHANGED <<vm, pc, class, unloaded, loaded, file, instrumented>>
    BY <1>4 DEF VisitOther, Step, classVars
  <2> QED
    BY <1>4, <2>1, LoadSkip DEF VisitOther
<1>5. ASSUME NEW t \in Threads, VisitListed(t) PROVE LoadInv'
  BY <1>5 DEF VisitListed, Shape, Control, Shares, LoadInv, Marked, Active, Logging, classVars,
     writerVars, hookVars, GoTo, At, Current
<1>6. ASSUME NEW t \in Threads, VisitLoaded(t) PROVE LoadInv'
  <2> DEFINE c == class[t]
             p == pos[t]
  <2>1. c \in Classes /\ p \in Nat /\ p \in Wanted(c) /\ pc[t] = "visit"
    BY <1>6, AtType DEF VisitLoaded, Wanted
  <2>2. Key(t, insnNb[t] + 1) = NameOf(c, p)
    BY <1>6, NextKey DEF VisitLoaded, Counted
  <2>3. /\ instrumented' = IF NameOf(c, p) \in file.floats
                            THEN instrumented \cup {<<c, p>>} ELSE instrumented
        /\ file.readable /\ vm = "loading" /\ pos' = [pos EXCEPT ![t] = @ + 1]
        /\ UNCHANGED <<vm, pc, class, unloaded, loaded, file>>
    BY <1>6, <2>2 DEF VisitLoaded, Step, classVars
  <2>4. c \notin unloaded \cup loaded /\ \A u \in Threads \ {t} : Active(u) => class[u] # c
    BY <2>1 DEF Shares, Active
  <2>5. \A q \in Wanted(c) : q \in Nat /\ (<<c, q>> \in instrumented <=> q < p /\ Marked(c, q))
    BY <2>1, <2>3, CodeType DEF LoadInv, Active, Wanted
  <2>6. pos'[t] = p + 1 /\ \A u \in Threads \ {t} : pos'[u] = pos[u]
    BY <2>3 DEF Shape
  <2> HIDE DEF c, p
  <2>7. \A q \in Wanted(c) : <<c, q>> \in instrumented' <=> q < p + 1 /\ Marked(c, q)
    BY <2>1, <2>3, <2>5 DEF Marked
  <2>8. \A d \in Classes \ {c} : \A q : <<d, q>> \in instrumented' <=> <<d, q>> \in instrumented
    BY <2>3
  <2>9. \A d \in unloaded' : \A q \in Wanted(d) : <<d, q>> \notin instrumented'
    BY <2>3, <2>4, <2>8 DEF LoadInv, Shape
  <2>10. \A d \in loaded' : \A q \in Wanted(d) : <<d, q>> \in instrumented' <=> Marked(d, q)'
    BY <2>3, <2>4, <2>8 DEF LoadInv, Shape, Marked
  <2>11. ASSUME NEW u \in Threads, Active(u)'
         PROVE  \A q \in Wanted(class'[u]) :
                    <<class'[u], q>> \in instrumented' <=> q < pos'[u] /\ Marked(class[u], q)'
    <3>0. Active(u) /\ class'[u] = class[u] /\ (\A d, q : Marked(d, q)' <=> Marked(d, q))
      BY <2>3, <2>11 DEF Active, Logging, Marked
    <3>1. CASE u = t
      BY <2>6, <2>7, <3>0, <3>1 DEF c
    <3>2. CASE u # t
      BY <2>3, <2>4, <2>6, <2>8, <3>0, <3>2 DEF LoadInv, Shape
    <3> QED
      BY <3>1, <3>2
  <2> QED
    BY <2>3, <2>9, <2>10, <2>11 DEF LoadInv
<1>7. ASSUME NEW t \in Threads, VisitFails(t) PROVE LoadInv'
  BY <1>7 DEF VisitFails, Shape, Control, Shares, LoadInv, Marked, Active, Logging, visitor,
     writerVars, hookVars, GoTo, At, Current
<1>8. ASSUME NEW t \in Threads, VisitEnd(t) PROVE LoadInv'
  <2>1. class[t] \in Classes /\ pos[t] > Len(Code[class[t]]) /\ pos[t] \in Nat
    BY <1>8 DEF VisitEnd, Shape
  <2>2. \A p \in Wanted(class[t]) : p < pos[t]
    BY <2>1, CodeType DEF Wanted
  <2>3. /\ pc[t] = "visit" /\ pc' = [pc EXCEPT ![t] = "idle"] /\ loaded' = loaded \cup {class[t]}
        /\ UNCHANGED <<vm, class, pos, unloaded, file, instrumented>>
    BY <1>8 DEF VisitEnd, GoTo, visitor
  <2>4. \A u \in Threads : Active(u)' => Active(u)
    BY <2>3 DEF Shape, Active, Logging
  <2> QED
    BY <2>2, <2>3, <2>4 DEF LoadInv, Marked, Active
<1>9. ASSUME NEW a \in Threads \cup {Hook}, CheckInstance(a) PROVE LoadInv'
  BY <1>9 DEF CheckInstance, Shape, Control, Shares, LoadInv, Marked, Active, Logging, visitor,
     classVars, writerVars, hookVars, GoTo
<1>10. ASSUME NEW a \in Threads \cup {Hook}, CreateInstance(a) PROVE LoadInv'
  BY <1>10 DEF CreateInstance, Shape, Control, Shares, LoadInv, Marked, Active, Logging,
     visitor, classVars, GoTo
<1>11. ASSUME NEW a \in Threads \cup {Hook}, ReturnInstance(a) PROVE LoadInv'
  BY <1>11 DEF ReturnInstance, Shape, Control, Shares, LoadInv, Marked, Active, Logging,
     visitor, classVars, hookVars, GoTo
<1>12. ASSUME NEW t \in Threads, LogInstruction(t) PROVE LoadInv'
  BY <1>12 DEF LogInstruction, Shape, Control, Shares, LoadInv, Marked, Active, Logging,
     classVars, GoTo, Step
<1>13. ASSUME NEW t \in Threads, Shutdown(t) PROVE LoadInv'
  BY <1>13 DEF Shutdown, Shape, Control, Shares, LoadInv, Marked, Active, Logging, visitor,
     writerVars, hookVars
<1>14. ASSUME NEW w \in 1 .. Len(classMap), NEW k \in classMap[w], ReadEntry(k) PROVE LoadInv'
  BY <1>14 DEF ReadEntry, Shape, Control, Shares, LoadInv, Marked, Active, Logging, visitor,
     classVars, writerVars
<1>15. ASSUME WriteFile PROVE LoadInv'
  BY <1>15 DEF WriteFile, Shape, Control, Shares, LoadInv, Marked, Active, Logging, visitor,
     classVars, writerVars, hookVars, GoTo
<1>16. ASSUME HookFails PROVE LoadInv'
  BY <1>16 DEF HookFails, Shape, Control, Shares, LoadInv, Marked, Active, Logging, visitor,
     classVars, writerVars, hookVars, GoTo
<1>17. ASSUME Halt PROVE LoadInv'
  <2>1. instrumented = {} /\ vm' = "none" /\ UNCHANGED <<instrumented, file>>
    BY <1>17 DEF Halt, LoadInv
  <2> QED
    BY <2>1 DEF LoadInv
<1>18. ASSUME NEW s \in SUBSET file.listed, EditAndLoad(s) PROVE LoadInv'
  BY <1>18 DEF EditAndLoad, Shape, Control, Shares, LoadInv, Marked, Active, Logging, visitor,
     classVars, writerVars, hookVars
<1>19. CASE UNCHANGED vars
  BY <1>19 DEF Shape, Control, Shares, LoadInv, Marked, Active, Logging,
     visitor, classVars, writerVars, hookVars, vars
<1> QED
  BY <1>1, <1>2, <1>3, <1>4, <1>5, <1>6, <1>7, <1>8, <1>9,
     <1>10, <1>11, <1>12, <1>13, <1>14, <1>15, <1>16, <1>17, <1>18, <1>19
     DEF Next, ClassLoading, GetInstance, Finished

LEMMA LoadAlways == Spec => [](Shares /\ LoadInv)
<1>1. Init => Shares /\ LoadInv
  <2> SUFFICES ASSUME Init PROVE Shares /\ LoadInv
    OBVIOUS
  <2>1. \A t \in Threads : pc[t] = "idle"
    BY FreshType DEF Init
  <2>2. vm = "listing" /\ loaded = {} /\ instrumented = {}
    BY DEF Init
  <2> QED
    BY <2>1, <2>2 DEF Shares, LoadInv, Active, Logging
<1>2. ControlInv /\ CountersInv /\ Shares /\ LoadInv /\ [Next]_vars => (Shares /\ LoadInv)'
  BY SharesNext, LoadNext DEF ControlInv
<1> QED
  BY <1>1, <1>2, ControlAlways, NamesAlways, PTL DEF Spec

\* The second machine converts what was marked, and nothing else: the names
\* that its visitors give the instructions are those that the first machine
\* wrote, and a class is visited once.
THEOREM FloatsAsMarkedAlways == Spec => []FloatsAsMarked
<1>1. LoadInv => FloatsAsMarked
  BY DEF LoadInv, FloatsAsMarked, Marked
<1> QED
  BY <1>1, LoadAlways, PTL

-----------------------------------------------------------------------------
(* The first machine.                                                      *)

\* A visitor that passes an event which is not to be logged.
LEMMA ListSkip ==
    ASSUME Shape, Control, ListInv, NEW t \in Threads, NEW kind, At(t, kind), kind # "wanted",
           pos' = [pos EXCEPT ![t] = @ + 1],
           UNCHANGED <<vm, pc, class, loaded, complete, writerVars, hookVars, file>>
    PROVE  ListInv'
<1>1. pos[t] \in Nat /\ pos[t] \notin Wanted(class[t])
  BY AtType DEF Wanted
<1>2. \A p \in Wanted(class[t]) : p \in Nat
  <2>1. class[t] \in Classes
    BY DEF Shape
  <2> QED
    BY <2>1, CodeType DEF Wanted
<1>3. \A p \in Wanted(class[t]) : p < pos'[t] <=> p < pos[t]
  BY <1>1, <1>2 DEF Shape
<1>4. \A u \in Threads \ {t} : pos'[u] = pos[u]
  BY DEF Shape
<1>5. \A u \in Threads : \A p \in Wanted(class[u]) : p < pos'[u] <=> p < pos[u]
  BY <1>3, <1>4
<1> QED
  BY <1>5 DEF ListInv, Listed, Logged, Active, Logging, writerVars, hookVars

\* What logInstruction adds to what is logged.
LEMMA LogAdds ==
    ASSUME Shape, Control, Writers, CountersInv, NEW t \in Threads, LogInstruction(t)
    PROVE  Logged' = Logged \cup {NameOf(class[t], pos[t])}
<1>1. writer[t] \in 1 .. Len(classMap) /\ Len(classMap') = Len(classMap)
  BY LogType
<1>2. Key(t, insnNb[t]) = NameOf(class[t], pos[t])
  BY KeyIsName DEF LogInstruction, Logging
<1> DEFINE name == NameOf(class[t], pos[t])
<1>3. \A w \in 1 .. Len(classMap) :
          classMap'[w] = IF w = writer[t] THEN classMap[w] \cup {name} ELSE classMap[w]
  <2>1. classMap' = [classMap EXCEPT ![writer[t]] = @ \cup {Key(t, insnNb[t])}]
    BY LogType
  <2>2. DOMAIN classMap = 1 .. Len(classMap)
    BY DEF Shape
  <2> QED
    BY <1>2, <2>1, <2>2
<1> HIDE DEF name
<1>4. \A x : x \in Logged' <=> x \in Logged \cup {name}
  <2> DEFINE W == 1 .. Len(classMap)
  <2>1. Logged' = UNION {classMap'[w] : w \in W} /\ Logged = UNION {classMap[w] : w \in W}
    BY <1>1 DEF Logged
  <2>2. writer[t] \in W
    BY <1>1
  <2> HIDE DEF W
  <2>3. \A w \in W : classMap'[w] = IF w = writer[t] THEN classMap[w] \cup {name} ELSE classMap[w]
    BY <1>3 DEF W
  <2>4. ASSUME NEW x, x \in Logged' PROVE x \in Logged \cup {name}
    <3>1. PICK w \in W : x \in classMap'[w]
      BY <2>1, <2>4
    <3>2. x \in classMap[w] \/ x = name
      BY <2>3, <3>1
    <3> QED
      BY <2>1, <3>2
  <2>5. ASSUME NEW x, x \in Logged PROVE x \in Logged'
    <3>1. PICK w \in W : x \in classMap[w]
      BY <2>1, <2>5
    <3>2. x \in classMap'[w]
      BY <2>3, <3>1
    <3> QED
      BY <2>1, <3>2
  <2>6. name \in Logged'
    <3>1. name \in classMap'[writer[t]]
      BY <2>2, <2>3
    <3> QED
      BY <2>1, <2>2, <3>1
  <2> QED
    BY <2>4, <2>5, <2>6
<1> QED
  BY <1>4 DEF name

\* A new writer has nothing in it.
LEMMA CreateAdds ==
    ASSUME Shape, NEW a, CreateInstance(a)
    PROVE  Logged' = Logged /\ Len(classMap') = Len(classMap) + 1
<1>1. classMap \in Seq(SUBSET Keys) /\ classMap' = Append(classMap, {})
  BY DEF Shape, CreateInstance
<1>2. /\ Len(classMap) \in Nat /\ Len(classMap') = Len(classMap) + 1
      /\ \A w \in 1 .. Len(classMap) : classMap'[w] = classMap[w]
      /\ classMap'[Len(classMap) + 1] = {}
  BY <1>1
<1>3. \A x : x \in Logged' <=> x \in Logged
  <2> TAKE x
  <2>1. x \in Logged => x \in Logged'
    BY <1>2 DEF Logged
  <2>2. ASSUME x \in Logged' PROVE x \in Logged
    <3>1. PICK w \in 1 .. Len(classMap) + 1 : x \in classMap'[w]
      BY <1>2, <2>2 DEF Logged
    <3>2. w \in 1 .. Len(classMap)
      BY <1>2, <3>1
    <3> QED
      BY <1>2, <3>1, <3>2 DEF Logged
  <2> QED
    BY <2>1, <2>2
<1> QED
  BY <1>2, <1>3

LEMMA ListNext ==
    Shape /\ Control /\ Writers /\ CountersInv /\ Shares /\ ListInv /\ [Next]_vars => ListInv'
<1> SUFFICES ASSUME Shape, Control, Writers, CountersInv, Shares, ListInv, [Next]_vars
    PROVE ListInv'
  OBVIOUS
<1> USE HookAssumption
<1>1. ASSUME NEW t \in Threads, NEW c \in Classes, Transform(t, c) PROVE ListInv'
  <2>1. /\ pc' = [pc EXCEPT ![t] = "visit"] /\ class'[t] = c /\ pos'[t] = 1
        /\ \A u \in Threads \ {t} : UNCHANGED <<pc[u], class[u], pos[u]>>
        /\ UNCHANGED <<vm, loaded, complete, writerVars, hookVars, file>>
    BY <1>1 DEF Transform, Shape, GoTo
  <2>2. \A p \in Wanted(c) : ~(p < 1)
    BY <2>1, CodeType DEF Wanted
  <2>3. pc'[Hook] = pc[Hook]
    BY <2>1 DEF Shape
  <2> QED
    BY <2>1, <2>2, <2>3 DEF ListInv, Listed, Logged, Active, Logging, writerVars, hookVars
<1>2. ASSUME NEW t \in Threads, VisitMethod(t) PROVE ListInv'
  <2>1. /\ pos' = [pos EXCEPT ![t] = @ + 1]
        /\ UNCHANGED <<vm, pc, class, loaded, complete, writerVars, hookVars, file>>
    BY <1>2 DEF VisitMethod, Step, classVars
  <2> QED
    BY <1>2, <2>1, ListSkip DEF VisitMethod
<1>3. ASSUME NEW t \in Threads, VisitLineNumber(t) PROVE ListInv'
  <2>1. /\ pos' = [pos EXCEPT ![t] = @ + 1]
        /\ UNCHANGED <<vm, pc, class, loaded, complete, writerVars, hookVars, file>>
    BY <1>3 DEF VisitLineNumber, Step, classVars
  <2> QED
    BY <1>3, <2>1, ListSkip DEF VisitLineNumber
<1>4. ASSUME NEW t \in Threads, VisitOther(t) PROVE ListInv'
  <2>1. /\ pos' = [pos EXCEPT ![t] = @ + 1]
        /\ UNCHANGED <<vm, pc, class, loaded, complete, writerVars, hookVars, file>>
    BY <1>4 DEF VisitOther, Step, classVars
  <2> QED
    BY <1>4, <2>1, ListSkip DEF VisitOther
<1>5. ASSUME NEW t \in Threads, VisitListed(t) PROVE ListInv'
  <2>1. /\ pc[t] = "visit" /\ pc' = [pc EXCEPT ![t] = "getinstance"]
        /\ UNCHANGED <<vm, class, pos, loaded, complete, writerVars, hookVars, file>>
    BY <1>5 DEF VisitListed, At, GoTo, classVars
  <2>2. pc'[Hook] = pc[Hook] /\ \A u \in Threads : Active(u)' => Active(u)
    BY <2>1 DEF Shape, Active, Logging
  <2> QED
    BY <2>1, <2>2 DEF ListInv, Listed, Logged, writerVars, hookVars
<1>6. ASSUME NEW t \in Threads, VisitLoaded(t) PROVE ListInv'
  BY <1>6 DEF VisitLoaded, Shape, Control, ListInv, Listed, Logged, Active, Logging, classVars,
     writerVars, hookVars
<1>7. ASSUME NEW t \in Threads, VisitFails(t) PROVE ListInv'
  BY <1>7 DEF VisitFails, Shape, Control, ListInv, Listed, Logged, Active, Logging, visitor,
     writerVars, hookVars, GoTo
<1>8. ASSUME NEW t \in Threads, VisitEnd(t) PROVE ListInv'
  <2>1. class[t] \in Classes /\ pos[t] > Len(Code[class[t]]) /\ pos[t] \in Nat
    BY <1>8 DEF VisitEnd, Shape
  <2>2. \A p \in Wanted(class[t]) : p < pos[t]
    BY <2>1, CodeType DEF Wanted
  <2>3. /\ pc[t] = "visit" /\ pc' = [pc EXCEPT ![t] = "idle"] /\ loaded' = loaded \cup {class[t]}
        /\ UNCHANGED <<vm, class, pos, complete, writerVars, hookVars, file>>
    BY <1>8 DEF VisitEnd, GoTo, visitor
  <2>4. pc'[Hook] = pc[Hook] /\ \A u \in Threads : Active(u)' => Active(u)
    BY <2>3 DEF Shape, Active, Logging
  <2>5. ~raced /\ vm = "listing" => Names(class[t]) \subseteq Logged
    BY <2>2, <2>3 DEF ListInv, Active, Names
  <2>6. Logged' = Logged
    BY <2>3 DEF Logged, writerVars
  <2> QED
    BY <2>3, <2>4, <2>5, <2>6 DEF ListInv, Listed, writerVars, hookVars
<1>9. ASSUME NEW a \in Threads \cup {Hook}, CheckInstance(a) PROVE ListInv'
  BY <1>9 DEF CheckInstance, Shape, Control, ListInv, Listed, Logged, Active, Logging, visitor,
     classVars, writerVars, hookVars, GoTo
<1>10. ASSUME NEW a \in Threads \cup {Hook}, CreateInstance(a) PROVE ListInv'
  <2>1. Logged' = Logged /\ Len(classMap') = Len(classMap) + 1 /\ Len(classMap) \in Nat
    BY <1>10, CreateAdds DEF Shape
  <2>2. /\ instance' = Len(classMap) + 1 /\ (raced' <=> raced \/ instance # 0)
        /\ pc' = [pc EXCEPT ![a] = "return"] /\ pc[a] = "create"
        /\ UNCHANGED <<vm, class, pos, loaded, complete, touched, file>>
    BY <1>10 DEF CreateInstance, GoTo, visitor, classVars, Shape
  <2>3. pc'[Hook] = "done" => pc[Hook] = "done"
    BY <2>2 DEF Shape
  <2>4. \A u \in Threads : Active(u)' => Active(u)
    BY <2>2 DEF Shape, Active, Logging
  <2> QED
    BY <2>1, <2>2, <2>3, <2>4 DEF ListInv, Listed, Shape
<1>11. ASSUME NEW a \in Threads \cup {Hook}, ReturnInstance(a) PROVE ListInv'
  BY <1>11 DEF ReturnInstance, Shape, Control, ListInv, Listed, Logged, Active, Logging,
     visitor, classVars, hookVars, GoTo
<1>12. ASSUME NEW t \in Threads, LogInstruction(t) PROVE ListInv'
  <2> DEFINE c == class[t]
             p == pos[t]
  <2>1. c \in Classes /\ p \in Nat /\ p \in Wanted(c) /\ pc[t] = "log" /\ Active(t)
    BY <1>12, KeyIsName DEF LogInstruction, Logging, Active, Shape
  <2>2. Logged' = Logged \cup {NameOf(c, p)}
    BY <1>12, LogAdds
  <2>3. /\ Len(classMap') = Len(classMap) /\ (raced' <=> raced \/ touched')
        /\ pc' = [pc EXCEPT ![t] = "visit"] /\ pos' = [pos EXCEPT ![t] = @ + 1]
        /\ UNCHANGED <<vm, class, loaded, complete, instance, file>>
    BY <1>12, LogType DEF LogInstruction, GoTo, Step, classVars, Shape
  <2>4. pc'[Hook] = pc[Hook]
    BY <2>3 DEF Shape
  <2>5. pos'[t] = p + 1 /\ \A u \in Threads \ {t} : pos'[u] = pos[u] /\ pc'[u] = pc[u]
    BY <2>3 DEF Shape
  <2>6. \A q \in Wanted(c) : q \in Nat
    BY <2>1, CodeType DEF Wanted
  <2>7. raced => raced'
    BY <2>3
  <2>8. ASSUME ~raced, vm = "listing",
               NEW u \in Threads, Active(u)', NEW q \in Wanted(class[u]), q < pos'[u]
        PROVE  NameOf(class[u], q) \in Logged'
    <3>1. CASE u = t
      <4>1. q < p \/ q = p
        BY <2>1, <2>5, <2>6, <2>8, <3>1
      <4>2. q < p => NameOf(c, q) \in Logged
        BY <2>1, <2>8, <3>1 DEF ListInv
      <4> QED
        BY <2>2, <3>1, <4>1, <4>2
    <3>2. CASE u # t
      <4>1. Active(u) /\ q < pos[u]
        BY <2>5, <2>8, <3>2 DEF Active, Logging
      <4> QED
        BY <2>2, <2>8, <4>1 DEF ListInv
    <3> QED
      BY <3>1, <3>2
  <2> QED
    BY <2>2, <2>3, <2>4, <2>7, <2>8 DEF ListInv, Listed
<1>13. ASSUME NEW t \in Threads, Shutdown(t) PROVE ListInv'
  <2>1. /\ pc'[t] = "exit" /\ pc'[Hook] = "getinstance"
        /\ \A u \in Threads \ {t} : pc'[u] = pc[u]
        /\ UNCHANGED <<vm, class, pos, loaded, writerVars, hookVars, file>> /\ complete' = loaded
        /\ vm = "listing"
    BY <1>13 DEF Shutdown, Shape, visitor
  <2>2. \A u \in Threads : Active(u)' => Active(u)
    BY <2>1 DEF Active, Logging
  <2> QED
    BY <2>1, <2>2 DEF ListInv, Logged, writerVars, hookVars
<1>14. ASSUME NEW w \in 1 .. Len(classMap), NEW k \in classMap[w], ReadEntry(k) PROVE ListInv'
  BY <1>14 DEF ReadEntry, Shape, Control, ListInv, Listed, Logged, Active, Logging, visitor,
     classVars, writerVars
<1>15. ASSUME WriteFile PROVE ListInv'
  <2>1. /\ vm = "listing" /\ pc[Hook] = "iterate" /\ writer[Hook] \in 1 .. Len(classMap)
    BY <1>15 DEF WriteFile, Shape, Control, Writers
  <2>2. /\ file' = [readable |-> TRUE, listed |-> xml, floats |-> {}]
        /\ pc' = [pc EXCEPT ![Hook] = "done"]
        /\ UNCHANGED <<vm, class, pos, loaded, complete, writerVars, hookVars>>
        /\ touched \/ xml = classMap[writer[Hook]]
    BY <1>15 DEF WriteFile, GoTo, visitor, classVars
  <2>3. ASSUME ~raced PROVE Listed'
    <3>1. ~touched /\ Len(classMap) <= 1 /\ complete \subseteq loaded
          /\ \A c \in loaded : Names(c) \subseteq Logged
      BY <2>1, <2>3 DEF ListInv
    <3>2. \A w \in 1 .. Len(classMap) : w = writer[Hook]
      BY <2>1, <3>1 DEF Shape
    <3>3. Logged \subseteq xml
      BY <2>2, <3>1, <3>2 DEF Logged
    <3> QED
      BY <2>2, <3>1, <3>3 DEF Listed
  <2>4. \A u \in Threads : Active(u)' => Active(u)
    BY <2>2 DEF Shape, Active, Logging
  <2> QED
    BY <2>1, <2>2, <2>3, <2>4 DEF ListInv, Logged, writerVars, hookVars
<1>16. ASSUME HookFails PROVE ListInv'
  BY <1>16 DEF HookFails, Shape, Control, ListInv, Listed, Logged, Active, Logging, visitor,
     classVars, writerVars, hookVars, GoTo
<1>17. ASSUME Halt PROVE ListInv'
  <2>1. pc[Hook] = "done" /\ vm' = "none" /\ touched' = FALSE /\ UNCHANGED <<raced, file, complete>>
    BY <1>17 DEF Halt
  <2> QED
    BY <2>1 DEF ListInv, Listed
<1>18. ASSUME NEW s \in SUBSET file.listed, EditAndLoad(s) PROVE ListInv'
  BY <1>18 DEF EditAndLoad, Shape, Control, ListInv, Listed, Logged, Active, Logging, visitor,
     classVars, writerVars, hookVars
<1>19. CASE UNCHANGED vars
  BY <1>19 DEF Shape, Control, ListInv, Listed, Logged, Active, Logging,
     visitor, classVars, writerVars, hookVars, vars
<1> QED
  BY <1>1, <1>2, <1>3, <1>4, <1>5, <1>6, <1>7, <1>8, <1>9,
     <1>10, <1>11, <1>12, <1>13, <1>14, <1>15, <1>16, <1>17, <1>18, <1>19
     DEF Next, ClassLoading, GetInstance, Finished

LEMMA ListAlways == Spec => []ListInv
<1>1. Init => ListInv
  <2> SUFFICES ASSUME Init PROVE ListInv
    OBVIOUS
  <2>1. pc[Hook] = "idle" /\ \A t \in Threads : pc[t] = "idle"
    BY FreshType DEF Init
  <2>2. /\ vm = "listing" /\ loaded = {} /\ complete = {} /\ touched = FALSE
        /\ instance = 0 /\ Len(classMap) = 0
    BY DEF Init
  <2> QED
    BY <2>1, <2>2 DEF ListInv, Active, Logging
<1>2. ControlInv /\ CountersInv /\ Shares /\ ListInv /\ [Next]_vars => ListInv'
  BY ListNext DEF ControlInv
<1> QED
  BY <1>1, <1>2, ControlAlways, NamesAlways, LoadAlways, PTL DEF Spec

\* The first machine's file lists every instruction of the classes loaded before
\* the shutdown, unless getinstance has raced with itself or the hook with a
\* thread that goes on: whatever the classes and however many threads load them,
\* there is no third way to lose an entry.
THEOREM IncompleteOnlyByRaceAlways == Spec => []IncompleteOnlyByRace
<1>1. ListInv => IncompleteOnlyByRace
  BY DEF ListInv, Listed, IncompleteOnlyByRace, ListingComplete
<1> QED
  BY <1>1, ListAlways, PTL

===============================================================================
