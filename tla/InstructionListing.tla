------------------------- MODULE InstructionListing -------------------------
(***************************************************************************)
(* The behaviours file between two virtual machines: one lists the         *)
(* instructions its class loading threads meet (BehaviourMethodVisitor,    *)
(* InstructionWriter and its shutdown hook), the delta debugger marks some *)
(* of them "FLOAT", and a second one (BehaviourLoader) converts what the   *)
(* file tells it to.                                                       *)
(***************************************************************************)
EXTENDS Integers, Sequences, FiniteSets

CONSTANTS
    Threads,   \* the threads that load classes
    Hook,      \* the thread of the shutdown hook
    Classes,   \* the classes to be instrumented
    Code       \* what a ClassReader shows of each class, in order

\* A method begins, a line begins, an instruction the behaviour wants to
\* convert, and one that is only counted.
Event == [kind : {"method", "line", "wanted", "other"}, value : Nat]

ASSUME HookAssumption == Hook \notin Threads

ASSUME CodeAssumption ==
    /\ Classes # {} /\ Code \in [Classes -> Seq(Event)]
    /\ \A c \in Classes : Len(Code[c]) > 0 => Code[c][1].kind = "method"

VARIABLES
    vm,             \* the virtual machine that runs: "listing", "none", "loading"
    pc,             \* where each thread stands in transform and getinstance
    class, pos,     \* the class a thread visits and its next event
    method, lineNb, insnNb,   \* fields of the thread's method visitor
    unloaded,       \* classes no thread has begun to load
    loaded,         \* classes loaded
    instance,       \* the field INSTANCE of InstructionWriter, 0 for null
    classMap,       \* the map of each InstructionWriter created
    writer,         \* the writer a thread has got from getinstance
    xml,            \* the entries the hook has put into its document
    touched,        \* has the map changed under the hook's iteration?
    file,           \* the behaviours file
    instrumented,   \* the instructions the second machine converts
    complete,       \* history: classes loaded before the shutdown
    raced           \* history: a second writer was created, or the hook disturbed

visitor == <<class, pos, method, lineNb, insnNb>>
classVars == <<unloaded, loaded, complete>>
writerVars == <<instance, classMap, writer>>
hookVars == <<xml, touched, raced>>
vars == <<vm, pc, visitor, classVars, writerVars, hookVars, file, instrumented>>

-----------------------------------------------------------------------------

Counted == {"wanted", "other"}

Wanted(c) == {p \in 1 .. Len(Code[c]) : Code[c][p].kind = "wanted"}

\* The event thread t is about to visit.
Current(t) == Code[class[t]][pos[t]]

At(t, kind) ==
    /\ pc[t] = "visit"
    /\ pos[t] <= Len(Code[class[t]])
    /\ Current(t).kind = kind

\* The names the file gives an instruction: className, methodName, lineNumber
\* and instructionNumber.
Key(t, nb) == <<class[t], method[t], lineNb[t], nb>>

Step(t) == pos' = [pos EXCEPT ![t] = @ + 1]

GoTo(t, p) == pc' = [pc EXCEPT ![t] = p]

NoFile == [readable |-> FALSE, listed |-> {}, floats |-> {}]

\* A virtual machine that has just started: no class, no static field set.
Fresh ==
    [pc       |-> [t \in Threads \cup {Hook} |-> "idle"],
     class    |-> [t \in Threads |-> CHOOSE c \in Classes : TRUE],
     pos      |-> [t \in Threads |-> 1],
     counter  |-> [t \in Threads |-> 0],
     writer   |-> [t \in Threads \cup {Hook} |-> 0]]

Init ==
    /\ vm = "listing"
    /\ pc = Fresh.pc
    /\ class = Fresh.class /\ pos = Fresh.pos
    /\ method = Fresh.counter /\ lineNb = Fresh.counter /\ insnNb = Fresh.counter
    /\ unloaded = Classes /\ loaded = {} /\ complete = {}
    /\ instance = 0 /\ classMap = <<>> /\ writer = Fresh.writer
    /\ xml = {} /\ touched = FALSE /\ raced = FALSE
    /\ file = NoFile
    /\ instrumented = {}

-----------------------------------------------------------------------------
(* Agent.transform: a class is read from its first to its last event.      *)

Transform(t, c) ==
    /\ vm # "none"
    /\ pc[t] = "idle"
    /\ c \in unloaded
    /\ unloaded' = unloaded \ {c}
    /\ class' = [class EXCEPT ![t] = c]
    /\ pos' = [pos EXCEPT ![t] = 1]
    /\ GoTo(t, "visit")
    /\ UNCHANGED <<vm, method, lineNb, insnNb, loaded, complete, writerVars,
                   hookVars, file, instrumented>>

\* Fault: the counters of a visitor kept for the next method of the thread.
VisitMethodKeepsCounters(t) ==
    /\ At(t, "method")
    /\ method' = [method EXCEPT ![t] = Current(t).value]
    /\ Step(t)
    /\ UNCHANGED <<vm, pc, class, lineNb, insnNb, classVars, writerVars, hookVars,
                   file, instrumented>>

\* Every method has a visitor of its own, whose counters start at 0.
VisitMethod(t) ==
    /\ At(t, "method")
    /\ method' = [method EXCEPT ![t] = Current(t).value]
    /\ lineNb' = [lineNb EXCEPT ![t] = 0]
    /\ insnNb' = [insnNb EXCEPT ![t] = 0]
    /\ Step(t)
    /\ UNCHANGED <<vm, pc, class, classVars, writerVars, hookVars, file,
                   instrumented>>

VisitLineNumber(t) ==
    /\ At(t, "line")
    /\ lineNb' = [lineNb EXCEPT ![t] = Current(t).value]
    /\ insnNb' = [insnNb EXCEPT ![t] = 0]
    /\ Step(t)
    /\ UNCHANGED <<vm, pc, class, method, classVars, writerVars, hookVars, file,
                   instrumented>>

\* An instruction no behaviour is defined for is counted and left alone.
VisitOther(t) ==
    /\ At(t, "other")
    /\ insnNb' = [insnNb EXCEPT ![t] = @ + 1]
    /\ Step(t)
    /\ UNCHANGED <<vm, pc, class, method, lineNb, classVars, writerVars, hookVars,
                   file, instrumented>>

\* An instruction to be logged; logInstruction is called on getinstance().
VisitListed(t) ==
    /\ vm = "listing"
    /\ At(t, "wanted")
    /\ insnNb' = [insnNb EXCEPT ![t] = @ + 1]
    /\ GoTo(t, "getinstance")
    /\ UNCHANGED <<vm, class, pos, method, lineNb, classVars, writerVars, hookVars,
                   file, instrumented>>

\* Fault: the instruction is looked up before it is counted.
VisitLoadedUncounted(t) ==
    /\ vm = "loading"
    /\ file.readable
    /\ At(t, "wanted")
    /\ insnNb' = [insnNb EXCEPT ![t] = @ + 1]
    /\ Step(t)
    /\ instrumented' =
          IF Key(t, insnNb[t]) \in file.floats
          THEN instrumented \cup {<<class[t], pos[t]>>} ELSE instrumented
    /\ UNCHANGED <<vm, pc, class, method, lineNb, classVars, writerVars, hookVars,
                   file>>

\* An instruction the loaded file may say to convert.
VisitLoaded(t) ==
    /\ vm = "loading"
    /\ file.readable
    /\ At(t, "wanted")
    /\ insnNb' = [insnNb EXCEPT ![t] = @ + 1]
    /\ Step(t)
    /\ instrumented' =
          IF Key(t, insnNb[t] + 1) \in file.floats
          THEN instrumented \cup {<<class[t], pos[t]>>} ELSE instrumented
    /\ UNCHANGED <<vm, pc, class, method, lineNb, classVars, writerVars, hookVars,
                   file>>

\* No file was loaded and the map is null: transform throws, and the virtual
\* machine goes on with the class as it is.
VisitFails(t) ==
    /\ vm = "loading"
    /\ ~file.readable
    /\ At(t, "wanted")
    /\ loaded' = loaded \cup {class[t]}
    /\ GoTo(t, "idle")
    /\ UNCHANGED <<vm, visitor, unloaded, complete, writerVars, hookVars, file,
                   instrumented>>

VisitEnd(t) ==
    /\ pc[t] = "visit"
    /\ pos[t] > Len(Code[class[t]])
    /\ loaded' = loaded \cup {class[t]}
    /\ GoTo(t, "idle")
    /\ UNCHANGED <<vm, visitor, unloaded, complete, writerVars, hookVars, file,
                   instrumented>>

-----------------------------------------------------------------------------
(* InstructionWriter.                                                      *)

\* getinstance reads the field, may set it, and reads it again.
CheckInstance(a) ==
    /\ pc[a] = "getinstance"
    /\ GoTo(a, IF instance = 0 THEN "create" ELSE "return")
    /\ UNCHANGED <<vm, visitor, classVars, writerVars, hookVars, file, instrumented>>

CreateInstance(a) ==
    /\ pc[a] = "create"
    /\ classMap' = Append(classMap, {})
    /\ instance' = Len(classMap) + 1
    /\ raced' = (raced \/ instance # 0)
    /\ GoTo(a, "return")
    /\ UNCHANGED <<vm, visitor, classVars, writer, xml, touched, file, instrumented>>

ReturnInstance(a) ==
    /\ pc[a] = "return"
    /\ writer' = [writer EXCEPT ![a] = instance]
    /\ GoTo(a, IF a = Hook THEN "iterate" ELSE "log")
    /\ UNCHANGED <<vm, visitor, classVars, instance, classMap, hookVars, file,
                   instrumented>>

\* Does a new entry k of writer w change the map the hook is iterating over?
DisturbsHook(w, k) == pc[Hook] = "iterate" /\ writer[Hook] = w /\ k \notin classMap[w]

\* Fault: one entry for a line.
LogFirstOfLine(t) ==
    LET w == writer[t] IN
    /\ pc[t] = "log"
    /\ classMap' = IF \E k \in classMap[w] : SubSeq(k, 1, 3) = SubSeq(Key(t, insnNb[t]), 1, 3)
                   THEN classMap ELSE [classMap EXCEPT ![w] = @ \cup {Key(t, insnNb[t])}]
    /\ touched' = (touched \/ DisturbsHook(w, Key(t, insnNb[t])))
    /\ raced' = (raced \/ touched')
    /\ Step(t)
    /\ GoTo(t, "visit")
    /\ UNCHANGED <<vm, class, method, lineNb, insnNb, classVars, instance, writer,
                   xml, file, instrumented>>

\* logInstruction, synchronized; an entry already there stays.
LogInstruction(t) ==
    LET w == writer[t] IN
    /\ pc[t] = "log"
    /\ classMap' = [classMap EXCEPT ![w] = @ \cup {Key(t, insnNb[t])}]
    /\ touched' = (touched \/ DisturbsHook(w, Key(t, insnNb[t])))
    /\ raced' = (raced \/ touched')
    /\ Step(t)
    /\ GoTo(t, "visit")
    /\ UNCHANGED <<vm, class, method, lineNb, insnNb, classVars, instance, writer,
                   xml, file, instrumented>>

\* A thread between two classes calls System.exit and never runs again; the
\* others do.
Shutdown(t) ==
    /\ vm = "listing"
    /\ pc[t] = "idle"
    /\ pc[Hook] = "idle"
    /\ pc' = [pc EXCEPT ![t] = "exit", ![Hook] = "getinstance"]
    /\ complete' = loaded
    /\ UNCHANGED <<vm, visitor, unloaded, loaded, writerVars, hookVars, file,
                   instrumented>>

\* The hook builds its document from the map, which is not locked.
ReadEntry(k) ==
    /\ pc[Hook] = "iterate"
    /\ k \in classMap[writer[Hook]] \ xml
    /\ xml' = xml \cup {k}
    /\ UNCHANGED <<vm, pc, visitor, classVars, writerVars, touched, raced,
                   file, instrumented>>

\* The document is written when the iteration ends; one that races with a
\* change of the map may end early.
WriteFile ==
    /\ pc[Hook] = "iterate"
    /\ touched \/ xml = classMap[writer[Hook]]
    /\ file' = [readable |-> TRUE, listed |-> xml, floats |-> {}]
    /\ GoTo(Hook, "done")
    /\ UNCHANGED <<vm, visitor, classVars, writerVars, hookVars, instrumented>>

\* Or it is stopped by a ConcurrentModificationException.
HookFails ==
    /\ pc[Hook] = "iterate"
    /\ touched
    /\ GoTo(Hook, "done")
    /\ UNCHANGED <<vm, visitor, classVars, writerVars, hookVars, file, instrumented>>

\* The hook is done: the virtual machine halts, whatever its threads are doing,
\* and nothing stays but the file.
Halt ==
    /\ vm = "listing"
    /\ pc[Hook] = "done"
    /\ vm' = "none"
    /\ pc' = Fresh.pc
    /\ class' = Fresh.class /\ pos' = Fresh.pos
    /\ method' = Fresh.counter /\ lineNb' = Fresh.counter /\ insnNb' = Fresh.counter
    /\ unloaded' = Classes /\ loaded' = {}
    /\ instance' = 0 /\ classMap' = <<>> /\ writer' = Fresh.writer
    /\ xml' = {} /\ touched' = FALSE
    /\ UNCHANGED <<complete, raced, file, instrumented>>

\* The delta debugger marks some entries, and a second machine loads the file.
EditAndLoad(s) ==
    /\ vm = "none"
    /\ file' = [file EXCEPT !.floats = s]
    /\ vm' = "loading"
    /\ UNCHANGED <<pc, visitor, classVars, writerVars, hookVars, instrumented>>

Finished ==
    /\ vm = "loading"
    /\ loaded = Classes
    /\ UNCHANGED vars

-----------------------------------------------------------------------------

GetInstance(a) == CheckInstance(a) \/ CreateInstance(a) \/ ReturnInstance(a)

ClassLoading(t) ==
    \/ \E c \in Classes : Transform(t, c)
    \/ VisitMethod(t) \/ VisitLineNumber(t) \/ VisitOther(t) \/ VisitListed(t)
    \/ VisitLoaded(t) \/ VisitFails(t) \/ VisitEnd(t)
    \/ GetInstance(t) \/ LogInstruction(t) \/ Shutdown(t)

Next ==
    \/ \E t \in Threads : ClassLoading(t)
    \/ GetInstance(Hook)
    \/ \E w \in 1 .. Len(classMap) : \E k \in classMap[w] : ReadEntry(k)
    \/ WriteFile \/ HookFails \/ Halt
    \/ \E s \in SUBSET file.listed : EditAndLoad(s)
    \/ Finished

Spec == Init /\ [][Next]_vars

-----------------------------------------------------------------------------

\* Reference: the name of the instruction at position p of class c, from the
\* text of the class alone.
Last(c, p, kind) ==
    LET Before == {q \in 1 .. p : Code[c][q].kind = kind}
    IN  IF Before = {} THEN 0 ELSE CHOOSE q \in Before : \A r \in Before : r <= q

NameOf(c, p) ==
    LET m == Last(c, p, "method")
        l == Last(c, p, "line")
        from == IF l > m THEN l ELSE m
    IN  <<c, Code[c][m].value, IF l > m THEN Code[c][l].value ELSE 0,
          Cardinality({q \in from + 1 .. p : Code[c][q].kind \in Counted})>>

Names(c) == {NameOf(c, p) : p \in Wanted(c)}

TypeOK ==
    /\ vm \in {"listing", "none", "loading"}
    /\ pc \in [Threads \cup {Hook} -> {"idle", "visit", "getinstance", "create",
                "return", "log", "exit", "iterate", "done"}]
    /\ class \in [Threads -> Classes]
    /\ \A t \in Threads : pos[t] \in 1 .. Len(Code[class[t]]) + 1
    /\ \A t \in Threads : {method[t], lineNb[t], insnNb[t]} \subseteq Nat
    /\ unloaded \subseteq Classes /\ loaded \subseteq Classes /\ complete \subseteq Classes
    /\ instance \in 0 .. Len(classMap)
    /\ \A a \in Threads \cup {Hook} : writer[a] \in 0 .. Len(classMap)
    /\ \A w \in 1 .. Len(classMap) : classMap[w] \subseteq UNION {Names(c) : c \in Classes}
    /\ xml \subseteq UNION {Names(c) : c \in Classes}
    /\ touched \in BOOLEAN /\ raced \in BOOLEAN
    /\ file.readable \in BOOLEAN /\ file.floats \subseteq file.listed
    /\ instrumented \subseteq UNION {{c} \X Wanted(c) : c \in Classes}

\* The second machine finds each instruction under the name the first one gave
\* it, whatever threads load the classes in whatever order in either of them:
\* a class it has loaded computes exactly the marked instructions in float,
\* none when there was no file.
FloatsAsMarked ==
    vm = "loading" =>
        \A c \in loaded : \A p \in Wanted(c) :
            <<c, p>> \in instrumented <=> file.readable /\ NameOf(c, p) \in file.floats

\* "An XML file holding every "double" statements is produced" (App.java:51-52):
\* once the first machine has halted, the file is there and lists every
\* instruction of every class that was loaded before the shutdown.
ListingComplete ==
    vm # "listing" => /\ file.readable
                      /\ \A c \in complete : Names(c) \subseteq file.listed

\* The two races, of getinstance and of the hook, are all that the listing can
\* lose entries by: without them, however the threads load their classes, it
\* is complete.
IncompleteOnlyByRace == raced \/ ListingComplete

=============================================================================
