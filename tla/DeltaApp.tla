------------------------------ MODULE DeltaApp ------------------------------
(***************************************************************************)
(* A session of com.github.cojac.deltadebugging.App: main, the singletons  *)
(* BehaviourEditor and ExecutionUtils, the child virtual machines they     *)
(* start and the behaviours file all of them share, around the ddMin       *)
(* search of DeltaDebugger.                                                *)
(*                                                                         *)
(* Instruction number k of the behaviours file is instruction k of the     *)
(* program; a file left by another version of the program lists more or    *)
(* fewer of them.                                                          *)
(***************************************************************************)
EXTENDS DeltaDebugger

CONSTANTS
    FirstFiles,     \* the behaviours files a user may start from
    Targets,        \* the options given: "mainclass", "jar", "neither", "incomplete"
    PipeCapacity,   \* lines the operating system buffers for a child
    MaxOutput,      \* bound on the lines a child prints
    MaxFailures,    \* bound on the child processes that cannot be started
    MaxSessions     \* bound on the sessions a user starts

ASSUME AppBoundsAssumption ==
    /\ {PipeCapacity, MaxOutput, MaxFailures} \subseteq Nat
    /\ MaxSessions \in Nat \ {0}

\* A file that can be parsed or not, and the instructions it lists and ignores.
Files == [readable : BOOLEAN, listed : 0 .. MaxInstructions, ignore : SUBSET AllInstructions]

ASSUME UserAssumption ==
    /\ FirstFiles \subseteq Files
    /\ Targets \subseteq {"mainclass", "jar", "neither", "incomplete"}

VARIABLES
    programSize,   \* the instructions of the judged program
    target,        \* which of -mainclass and -jar the user gives
    file,          \* the behaviours file
    document,      \* does the editor hold a parsed document?
    appPc,         \* where main stands
    process,       \* the child: "none", "running" or "exited"
    unwritten,     \* lines the child has still to print
    piped,         \* lines printed and not read yet
    failures,      \* children that could not be started
    sessions,      \* sessions started
    outcome        \* how the last session ended

sessionVars == <<programSize, target, file, document, appPc, process,
                 unwritten, piped, failures, sessions, outcome>>
childVars == <<process, unwritten, piped>>
appVars == <<ddVars, sessionVars>>

-----------------------------------------------------------------------------
(* The behaviours file.                                                    *)

Program == 0 .. programSize - 1

\* No file, or one that a writer was killed in: parsing it fails.
Unreadable == [readable |-> FALSE, listed |-> 0, ignore |-> {}]

\* A file that lists k instructions and marks ign "IGNORE", the others "FLOAT".
Listing(k, ign) == [readable |-> TRUE, listed |-> k, ignore |-> ign]

\* What a child virtual machine computes in double: the instructions marked
\* "IGNORE" and the ones the file does not list.
Doubles(f) == {e \in Program : e >= f.listed \/ e \in f.ignore}

\* editBehaviours(s): the whole document is marked and written again.
Edited(s) == Listing(nbrOfInstructions, s \cap Universe)

-----------------------------------------------------------------------------

AppInit ==
    /\ DDInit
    /\ programSize \in 1 .. MaxInstructions
    /\ nbrOfInstructions = 0
    /\ target \in Targets
    /\ file \in FirstFiles
    /\ document = FALSE
    /\ appPc = "start"
    /\ process = "none" /\ unwritten = 0 /\ piped = 0
    /\ failures = 0 /\ sessions = 1 /\ outcome = "none"

GoTo(p) == appPc' = p /\ UNCHANGED outcome

End(o) == appPc' = "end" /\ outcome' = o

\* Opt.paseArgs, then the two singletons: the editor parses the file now.
Main ==
    /\ appPc = "start"
    /\ \/ /\ target = "incomplete"
          /\ End("usage")
          /\ UNCHANGED <<nbrOfInstructions, document>>
       \/ /\ target # "incomplete"
          /\ document' = file.readable
          /\ nbrOfInstructions' = file.listed
          /\ GoTo("list")
    /\ UNCHANGED <<judge, pc, set, n, subsetList, loop, i, edited, ret, runs,
                   programSize, target, file, childVars, failures, sessions>>

-----------------------------------------------------------------------------
(* ExecutionUtils: start a child, wait for it, read what it printed.       *)

\* main is about to execute a child.
Executing ==
    \/ appPc \in {"list", "runFloat", "runResult"}
    \/ appPc = "search" /\ pc = "exec"

\* The command line of the listing has a null in place of the main class:
\* ProcessBuilder.start throws and nobody catches it.
NoListingCommand ==
    /\ appPc = "list"
    /\ target \in {"jar", "neither"}
    /\ End("exception")
    /\ UNCHANGED <<ddVars, programSize, target, file, document, childVars,
                   failures, sessions>>

Start ==
    /\ Executing
    /\ process = "none"
    /\ target = "mainclass"
    /\ process' = "running"
    /\ unwritten' \in 0 .. MaxOutput
    /\ UNCHANGED <<ddVars, programSize, target, file, document, appPc, piped,
                   failures, sessions, outcome>>

\* A line fits into the pipe; when the pipe is full the child blocks.
ChildPrints ==
    /\ process = "running"
    /\ unwritten > 0
    /\ piped < PipeCapacity
    /\ unwritten' = unwritten - 1
    /\ piped' = piped + 1
    /\ UNCHANGED <<ddVars, programSize, target, file, document, appPc, process,
                   failures, sessions, outcome>>

\* The child ends; one that lists the instructions writes the file first,
\* every behaviour "IGNORE".
ChildExits ==
    /\ process = "running"
    /\ unwritten = 0
    /\ process' = "exited"
    /\ file' = IF appPc = "list" THEN Listing(programSize, Program) ELSE file
    /\ UNCHANGED <<ddVars, programSize, target, document, appPc, unwritten,
                   piped, failures, sessions, outcome>>

\* Fault: the last execution is not judged.
AnswerUnchecked(valid) ==
    \/ /\ appPc = "list"
       /\ GoTo("editFloat")
       /\ UNCHANGED ddVars
    \/ /\ appPc = "runFloat"
       /\ IF valid THEN End("succeed") ELSE GoTo("search")
       /\ UNCHANGED ddVars
    \/ /\ appPc = "search"
       /\ Verdict(valid)
       /\ UNCHANGED <<appPc, outcome>>
    \/ /\ appPc = "runResult"
       /\ End("succeed")
       /\ UNCHANGED ddVars

\* What main does with the answer of an execution.
Answer(valid) ==
    \/ /\ appPc = "list"
       /\ GoTo("editFloat")
       /\ UNCHANGED ddVars
    \/ /\ appPc = "runFloat"
       /\ IF valid THEN End("succeed") ELSE GoTo("search")
       /\ UNCHANGED ddVars
    \/ /\ appPc = "search"
       /\ Verdict(valid)
       /\ UNCHANGED <<appPc, outcome>>
    \/ /\ appPc = "runResult"
       /\ End(IF valid THEN "succeed" ELSE "failed")
       /\ UNCHANGED ddVars

\* waitFor, printStream and exitValue.
WaitFor ==
    /\ Executing
    /\ process = "exited"
    /\ process' = "none"
    /\ piped' = 0
    /\ Answer(Doubles(file) \in judge)
    /\ UNCHANGED <<programSize, target, file, document, unwritten, failures,
                   sessions>>

\* The child cannot be started: an IOException, and success stays false.
StartFails ==
    /\ Executing
    /\ process = "none"
    /\ target = "mainclass"
    /\ failures < MaxFailures
    /\ failures' = failures + 1
    /\ Answer(FALSE)
    /\ UNCHANGED <<programSize, target, file, document, childVars, sessions>>

-----------------------------------------------------------------------------
(* The rest of main.                                                       *)

\* Fault: a document that was not parsed is saved.
EditFloatAnyway ==
    /\ appPc = "editFloat"
    /\ \/ /\ document
          /\ file' = Edited({})
          /\ GoTo("runFloat")
       \/ /\ ~document
          /\ End("exception")
          /\ file' = Unreadable
    /\ UNCHANGED <<ddVars, programSize, target, document, childVars, failures,
                   sessions>>

\* editBehaviours(new BitSet()); it fails when the file was not parsed.
EditFloat ==
    /\ appPc = "editFloat"
    /\ \/ /\ document
          /\ file' = Edited({})
          /\ GoTo("runFloat")
       \/ /\ ~document
          /\ End("exception")
          /\ UNCHANGED file
    /\ UNCHANGED <<ddVars, programSize, target, document, childVars, failures,
                   sessions>>

\* The steps of the search; the ones that edit write the file.
Search ==
    /\ appPc = "search"
    /\ \/ Launch /\ UNCHANGED file
       \/ DdMin /\ UNCHANGED file
       \/ EditBehaviours /\ file' = Edited(edited')
       \/ Refine /\ file' = IF pc' = "done" THEN Edited(set) ELSE file
    /\ UNCHANGED <<programSize, target, document, appPc, childVars, failures,
                   sessions, outcome>>

\* Fault: the file is left as the search has edited it last.
EditResultForgotten ==
    /\ appPc = "search"
    /\ pc = "done"
    /\ GoTo("runResult")
    /\ UNCHANGED <<ddVars, programSize, target, file, document, childVars,
                   failures, sessions>>

EditResult ==
    /\ appPc = "search"
    /\ pc = "done"
    /\ file' = Edited(ret)
    /\ GoTo("runResult")
    /\ UNCHANGED <<ddVars, programSize, target, document, childVars, failures,
                   sessions>>

-----------------------------------------------------------------------------
(* The user.                                                               *)

\* Is main or a child writing the file?
Writing ==
    \/ appPc = "list" /\ process = "running"
    \/ appPc = "editFloat"
    \/ appPc = "search" /\ pc \in {"edit", "refine", "done"}

\* The user interrupts the session: the terminal signals the child as well, and a
\* file being written is cut off.
Kill ==
    /\ appPc \notin {"start", "end"}
    /\ sessions < MaxSessions
    /\ End("killed")
    /\ file' \in {file} \cup (IF Writing THEN {Unreadable} ELSE {})
    /\ process' = "none" /\ unwritten' = 0 /\ piped' = 0
    /\ UNCHANGED <<ddVars, programSize, target, document, failures, sessions>>

\* Another session: a new virtual machine, nothing kept but the file.
Restart ==
    /\ appPc = "end"
    /\ outcome \in {"killed", "exception"}
    /\ sessions < MaxSessions
    /\ sessions' = sessions + 1
    /\ appPc' = "start" /\ outcome' = "none"
    /\ document' = FALSE
    /\ nbrOfInstructions' = 0
    /\ pc' = "idle" /\ set' = {} /\ n' = 2 /\ subsetList' = <<>>
    /\ loop' = "none" /\ i' = 1 /\ edited' = {} /\ ret' = {} /\ runs' = 0
    /\ UNCHANGED <<judge, programSize, target, file, childVars, failures>>

Finished ==
    /\ appPc = "end"
    /\ outcome \notin {"killed", "exception"} \/ sessions = MaxSessions
    /\ UNCHANGED appVars

-----------------------------------------------------------------------------

\* Steps of a session that nothing goes wrong in.
Progress ==
    \/ Main \/ NoListingCommand \/ Start \/ ChildPrints \/ ChildExits \/ WaitFor
    \/ EditFloat \/ Search \/ EditResult \/ Restart

AppNext == Progress \/ StartFails \/ Kill \/ Finished

\* One thread runs main and one child; both are scheduled and the judged
\* program terminates.  Failures and kills need not happen.
AppSpec == AppInit /\ [][AppNext]_appVars /\ WF_appVars(Progress)

-----------------------------------------------------------------------------

\* The file has been parsed when it listed the program as it is now.
UpToDate == document /\ nbrOfInstructions = programSize

AppTypeOK ==
    /\ DDTypeOK
    /\ programSize \in 1 .. MaxInstructions
    /\ target \in {"mainclass", "jar", "neither", "incomplete"}
    /\ file \in Files
    /\ document \in BOOLEAN
    /\ appPc \in {"start", "list", "editFloat", "runFloat", "search",
                  "runResult", "end"}
    /\ process \in {"none", "running", "exited"}
    /\ unwritten \in 0 .. MaxOutput
    /\ piped \in 0 .. PipeCapacity
    /\ failures \in 0 .. MaxFailures
    /\ sessions \in 1 .. MaxSessions
    /\ outcome \in {"none", "usage", "succeed", "failed", "exception", "killed"}

\* "The XML file is modified to hold the solution" (App.java:65): when a
\* session reports success, the file as it is on disk is one the judge
\* accepts, even when it lists another version of the program or when
\* children could not be started.  It finds "a "minimal" set of "double"
\* statements that satisfies the judge" (App.java:63-64): with an up-to-date
\* file and every child started, no single double statement of the solution
\* on disk can become a float.
FileHoldsSolution ==
    appPc = "end" /\ outcome = "succeed" =>
        /\ Doubles(file) \in judge
        /\ UpToDate /\ failures = 0 =>
              \A e \in Doubles(file) : Doubles(file) \ {e} \notin judge

\* "Delta Debugging failed" (App.java:130) is only said of a judge that
\* refuses the untransformed program itself, the search never loses it.
FailureIsReal ==
    appPc = "end" /\ outcome = "failed" /\ UpToDate /\ failures = 0 =>
        Program \notin judge

\* A session that dies because it found no readable file leaves a listing
\* behind, so that the next one can work: kills and dead sessions never make
\* the file useless for good.
NextSessionWorks ==
    appPc = "end" /\ outcome = "exception" /\ failures = 0 /\ target = "mainclass" =>
        /\ file.readable
        /\ file.listed = programSize

\* A session whose children print no more than a pipe holds comes to its end.
SessionEnds == <>[](appPc = "end")

\* "Execute the program with COJAC and behaviour [...] @return True if the
\* program execution considered as valid" (ExecutionUtils.java:131-134): an
\* execution of a program that terminates returns.
ExecutionReturns == process = "running" ~> process = "none"

\* "Execute the java program with COJAC to initialize the file that contains
\* all instructions and behaviors" (App.java:103-104): a session needs no
\* file from outside.
ListingInitialisesFile ==
    ~(appPc = "end" /\ outcome = "exception" /\ target = "mainclass" /\ failures = 0)

=============================================================================
