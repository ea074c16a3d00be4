----------------------------- MODULE Reactions -----------------------------
(***************************************************************************)
(* com.github.cojac.models.Reactions: what the threads of an instrumented  *)
(* program do when a sniffer detects a problem, next to a JMX client of    *)
(* InstrumentationStats and the shutdown hook that prints EVENTS.          *)
(*                                                                         *)
(* A location stands for the key of EVENTS, message and code line; how it  *)
(* is found in the stack trace and the layout of a report are left out.    *)
(***************************************************************************)
EXTENDS Integers, FiniteSets

CONSTANTS
    Threads,         \* the threads of the instrumented program
    Locations,       \* the keys of EVENTS
    ReactionTypes,   \* the values theReactionType may have been set to
    MaxEvents,       \* bound on the problems one thread meets
    MaxLogFailures   \* bound on the failing writes of the log file

ASSUME ReactionTypesAssumption ==
    ReactionTypes \subseteq {"PRINT", "LOG", "EXCEPTION", "CALLBACK"}

ASSUME LocationsAssumption == Locations # {}

ASSUME ReactionBoundsAssumption == MaxEvents \in Nat /\ MaxLogFailures \in Nat

VARIABLES
    theReactionType, filtering, hasStats,   \* static fields, set before main runs
    react,        \* the AtomicBoolean start() and stop() set
    EVENTS,       \* the ConcurrentMap, 0 for an absent key
    changes,      \* InstrumentationStats.changes, the next notification's number
    pc,           \* where each thread is in the reaction
    location,     \* the location of its problem
    old,          \* what putIfAbsent returned, 0 for null
    number,       \* the value of changes it has read
    hook,         \* has the shutdown hook started?
    unread,       \* the entries it has still to copy
    summary,      \* the counts it has read
    detected,     \* history: problems met by each thread
    counted,      \* history: problems handed to passesFilter, per location
    overlapped,   \* history: locations two threads have counted at a time
    reported,     \* history: reports made, per location
    lost,         \* history: reports the log file did not take, per location
    sent,         \* history: numbers of the notifications sent
    stopped,      \* history: threads whose problem has only known react = FALSE
    disobeyed     \* history: has one of those been reported?

config == <<theReactionType, filtering, hasStats>>
mapVars == <<EVENTS, counted, overlapped>>
reportVars == <<reported, lost, disobeyed>>
notifyVars == <<changes, number, sent>>
hookVars == <<hook, unread, summary>>
vars == <<config, react, mapVars, reportVars, notifyVars, hookVars, pc,
          location, old, detected, stopped>>

-----------------------------------------------------------------------------

\* What a thread's location is before its first problem; never read.
NoLocationYet == CHOOSE l \in Locations : TRUE

Init ==
    /\ theReactionType \in ReactionTypes
    /\ filtering \in BOOLEAN
    /\ hasStats \in BOOLEAN
    /\ react = TRUE
    /\ EVENTS = [l \in Locations |-> 0]
    /\ changes = 0
    /\ pc = [t \in Threads |-> "program"]
    /\ location = [t \in Threads |-> NoLocationYet]
    /\ old = [t \in Threads |-> 0]
    /\ number = [t \in Threads |-> 0]
    /\ hook = FALSE /\ unread = {} /\ summary = [l \in Locations |-> 0]
    /\ detected = [t \in Threads |-> 0]
    /\ counted = [l \in Locations |-> 0]
    /\ overlapped = {}
    /\ reported = [l \in Locations |-> 0]
    /\ lost = [l \in Locations |-> 0]
    /\ sent = {}
    /\ stopped = {} /\ disobeyed = FALSE

GoTo(t, p) == pc' = [pc EXCEPT ![t] = p]

\* The program of thread t meets a problem and calls react(message).
Detect(t, l) ==
    /\ pc[t] = "program"
    /\ detected[t] < MaxEvents
    /\ detected' = [detected EXCEPT ![t] = @ + 1]
    /\ location' = [location EXCEPT ![t] = l]
    /\ stopped' = IF react THEN stopped \ {t} ELSE stopped \cup {t}
    /\ GoTo(t, "react")
    /\ UNCHANGED <<config, react, mapVars, reportVars, notifyVars, hookVars, old>>

\* A report reaches the user: a line printed or logged, an exception thrown,
\* a callback invoked.
MakeReport(t) ==
    /\ reported' = [reported EXCEPT ![location[t]] = @ + 1]
    /\ disobeyed' = (disobeyed \/ t \in stopped)
    /\ UNCHANGED lost

\* Fault: the flag is ignored.
CheckReactIgnored(t) ==
    /\ pc[t] = "react"
    /\ theReactionType # "CALLBACK"
    /\ GoTo(t, "putIfAbsent")
    /\ UNCHANGED <<config, react, mapVars, reportVars, notifyVars, hookVars,
                   location, old, detected, stopped>>

\* The first statement of every reaction but the callback.
CheckReact(t) ==
    /\ pc[t] = "react"
    /\ theReactionType # "CALLBACK"
    /\ GoTo(t, IF react THEN "putIfAbsent" ELSE "program")
    /\ UNCHANGED <<config, react, mapVars, reportVars, notifyVars, hookVars,
                   location, old, detected, stopped>>

\* callbackOverflow: no flag, no filter, no count.
Callback(t) ==
    /\ pc[t] = "react"
    /\ theReactionType = "CALLBACK"
    /\ MakeReport(t)
    /\ GoTo(t, "program")
    /\ UNCHANGED <<config, react, mapVars, notifyVars, hookVars, location, old,
                   detected, stopped>>

-----------------------------------------------------------------------------
(* passesFilter                                                            *)

\* A thread stands between the two map accesses for location l.
BeingCounted(l) == \E t \in Threads : pc[t] = "put" /\ location[t] = l

CountOccurrence(l) ==
    /\ counted' = [counted EXCEPT ![l] = @ + 1]
    /\ overlapped' = IF BeingCounted(l) THEN overlapped \cup {l} ELSE overlapped

\* Fault: containsKey and put instead of putIfAbsent.
PutIfAbsentInTwoSteps(t) ==
    LET l == location[t] IN
    /\ pc[t] = "putIfAbsent"
    /\ old' = [old EXCEPT ![t] = EVENTS[l]]
    /\ CountOccurrence(l)
    /\ GoTo(t, "put")
    /\ UNCHANGED <<config, react, EVENTS, reportVars, notifyVars, hookVars,
                   location, detected, stopped>>

PutIfAbsent(t) ==
    LET l == location[t] IN
    /\ pc[t] = "putIfAbsent"
    /\ old' = [old EXCEPT ![t] = EVENTS[l]]
    /\ EVENTS' = IF EVENTS[l] = 0 THEN [EVENTS EXCEPT ![l] = 1] ELSE EVENTS
    /\ CountOccurrence(l)
    /\ GoTo(t, IF EVENTS[l] = 0 THEN "filter" ELSE "put")
    /\ UNCHANGED <<config, react, reportVars, notifyVars, hookVars, location,
                   detected, stopped>>

\* Fault: put(location, old) for put(location, old + 1).
PutUnincremented(t) ==
    /\ pc[t] = "put"
    /\ EVENTS' = [EVENTS EXCEPT ![location[t]] = old[t]]
    /\ GoTo(t, "filter")
    /\ UNCHANGED <<config, react, counted, overlapped, reportVars, notifyVars,
                   hookVars, location, old, detected, stopped>>

\* The new count comes from the value putIfAbsent has returned a step ago.
Put(t) ==
    /\ pc[t] = "put"
    /\ EVENTS' = [EVENTS EXCEPT ![location[t]] = old[t] + 1]
    /\ GoTo(t, "filter")
    /\ UNCHANGED <<config, react, counted, overlapped, reportVars, notifyVars,
                   hookVars, location, old, detected, stopped>>

\* Fault: the filter looks at the map again instead of the value returned.
FilterRereads(t) ==
    /\ pc[t] = "filter"
    /\ GoTo(t, CASE filtering /\ EVENTS[location[t]] = 1 -> "report"
                 [] filtering /\ EVENTS[location[t]] # 1 -> "program"
                 [] ~filtering /\ hasStats     -> "notify"
                 [] ~filtering /\ ~hasStats    -> "report")
    /\ UNCHANGED <<config, react, mapVars, reportVars, notifyVars, hookVars,
                   location, old, detected, stopped>>

Filter(t) ==
    /\ pc[t] = "filter"
    /\ GoTo(t, CASE filtering /\ old[t] = 0    -> "report"
                 [] filtering /\ old[t] # 0    -> "program"
                 [] ~filtering /\ hasStats     -> "notify"
                 [] ~filtering /\ ~hasStats    -> "report")
    /\ UNCHANGED <<config, react, mapVars, reportVars, notifyVars, hookVars,
                   location, old, detected, stopped>>

-----------------------------------------------------------------------------
(* notifyChange: changes++ is a read and a write of a plain field.         *)

ReadChanges(t) ==
    /\ pc[t] = "notify"
    /\ number' = [number EXCEPT ![t] = changes]
    /\ GoTo(t, "writeChanges")
    /\ UNCHANGED <<config, react, mapVars, reportVars, changes, sent, hookVars,
                   location, old, detected, stopped>>

\* Fault: changes-- for changes++.
WriteChangesDown(t) ==
    /\ pc[t] = "writeChanges"
    /\ changes' = number[t] - 1
    /\ GoTo(t, "send")
    /\ UNCHANGED <<config, react, mapVars, reportVars, number, sent, hookVars,
                   location, old, detected, stopped>>

WriteChanges(t) ==
    /\ pc[t] = "writeChanges"
    /\ changes' = number[t] + 1
    /\ GoTo(t, "send")
    /\ UNCHANGED <<config, react, mapVars, reportVars, number, sent, hookVars,
                   location, old, detected, stopped>>

\* Fault: ++changes, the number of the next notification.
SendIncremented(t) ==
    /\ pc[t] = "send"
    /\ sent' = sent \cup {number[t] + 1}
    /\ GoTo(t, "report")
    /\ UNCHANGED <<config, react, mapVars, reportVars, changes, number, hookVars,
                   location, old, detected, stopped>>

SendNotification(t) ==
    /\ pc[t] = "send"
    /\ sent' = sent \cup {number[t]}
    /\ GoTo(t, "report")
    /\ UNCHANGED <<config, react, mapVars, reportVars, changes, number, hookVars,
                   location, old, detected, stopped>>

-----------------------------------------------------------------------------

\* What a reaction does when the filter lets the problem through.
Report(t) ==
    /\ pc[t] = "report"
    /\ MakeReport(t)
    /\ GoTo(t, "program")
    /\ UNCHANGED <<config, react, mapVars, notifyVars, hookVars, location, old,
                   detected, stopped>>

\* The log file cannot be written: an error message, and the report is gone.
LogFails(t) ==
    LET l == location[t] IN
    /\ pc[t] = "report"
    /\ theReactionType = "LOG"
    /\ lost[l] < MaxLogFailures
    /\ lost' = [lost EXCEPT ![l] = @ + 1]
    /\ GoTo(t, "program")
    /\ UNCHANGED <<config, react, mapVars, reported, disobeyed, notifyVars,
                   hookVars, location, old, detected, stopped>>

\* start() and stop() of the JMX bean.
Start ==
    /\ react' = TRUE
    /\ stopped' = {}
    /\ UNCHANGED <<config, mapVars, reportVars, notifyVars, hookVars, pc,
                   location, old, detected>>

Stop ==
    /\ react' = FALSE
    /\ UNCHANGED <<config, mapVars, reportVars, notifyVars, hookVars, pc,
                   location, old, detected, stopped>>

\* The shutdown hook of -Xs starts while threads may still be running, and
\* copies the map entry by entry.
Shutdown ==
    /\ ~hook
    /\ hook' = TRUE
    /\ unread' = Locations
    /\ UNCHANGED <<config, react, mapVars, reportVars, notifyVars, summary, pc,
                   location, old, detected, stopped>>

ReadEntry(l) ==
    /\ l \in unread
    /\ unread' = unread \ {l}
    /\ summary' = [summary EXCEPT ![l] = EVENTS[l]]
    /\ UNCHANGED <<config, react, mapVars, reportVars, notifyVars, hook, pc,
                   location, old, detected, stopped>>

\* A thread in a reaction goes on.
Step(t) ==
    \/ CheckReact(t) \/ Callback(t) \/ PutIfAbsent(t) \/ Put(t) \/ Filter(t)
    \/ ReadChanges(t) \/ WriteChanges(t) \/ SendNotification(t)
    \/ Report(t) \/ LogFails(t)

Next ==
    \/ \E t \in Threads : Step(t) \/ \E l \in Locations : Detect(t, l)
    \/ Start \/ Stop \/ Shutdown
    \/ \E l \in Locations : ReadEntry(l)

\* The virtual machine schedules every thread; nothing else has to happen.
Spec == Init /\ [][Next]_vars /\ \A t \in Threads : WF_vars(Step(t))

-----------------------------------------------------------------------------

TypeOK ==
    /\ theReactionType \in ReactionTypes
    /\ filtering \in BOOLEAN /\ hasStats \in BOOLEAN /\ react \in BOOLEAN
    /\ EVENTS \in [Locations -> Nat]
    /\ changes \in Nat
    /\ pc \in [Threads -> {"program", "react", "putIfAbsent", "put", "filter",
                           "notify", "writeChanges", "send", "report"}]
    /\ location \in [Threads -> Locations]
    /\ old \in [Threads -> Nat]
    /\ number \in [Threads -> Nat]
    /\ hook \in BOOLEAN /\ unread \in SUBSET Locations
    /\ summary \in [Locations -> Nat]
    /\ detected \in [Threads -> 0 .. MaxEvents]
    /\ counted \in [Locations -> Nat]
    /\ overlapped \in SUBSET Locations
    /\ reported \in [Locations -> Nat]
    /\ lost \in [Locations -> 0 .. MaxLogFailures]
    /\ sent \in SUBSET Nat
    /\ stopped \in SUBSET Threads
    /\ disobeyed \in BOOLEAN

\* "Report each problem only once per faulty line" (HomeUpcomingRelease.md:738,
\* option -Xf): however the threads race for the first occurrence, the filter
\* lets one of them through.
ReportedOnce ==
    filtering /\ theReactionType # "CALLBACK" =>
        \A l \in Locations : reported[l] + lost[l] <= 1

\* A location on which the filter has recorded a problem gets its report,
\* unless the log file refuses it: two threads never leave it to each other.
EveryLocationReported ==
    \A l \in Locations : EVENTS[l] > 0 ~> reported[l] + lost[l] > 0

\* The counts getEvent() and the -Xs summary give never exceed what has
\* happened; and they are exact, but for a thread that has still to put its
\* new count, wherever no two threads were between putIfAbsent and put at a
\* time.  Only such an overlap may lose occurrences.
CountsRight ==
    /\ \A l \in Locations : EVENTS[l] <= counted[l] /\ summary[l] <= counted[l]
    /\ \A l \in Locations \ overlapped :
          counted[l] = EVENTS[l] + IF BeingCounted(l) THEN 1 ELSE 0

\* "let you dynamically enable or disable the processing of the detected
\* events" (wiki-tmp/Home.md:330): no problem detected after stop() is
\* reported unless start() was called in between.  The callback is left out:
\* callbackOverflow does not look at the flag.
StopObeyedByReactions == theReactionType # "CALLBACK" => ~disobeyed

\* A JMX client that counts notification numbers sees no gap: every number
\* below changes has been sent or is about to be, though a number may be sent
\* twice when two threads increment changes together.
NoNotificationGap ==
    \A k \in 0 .. changes - 1 :
        k \in sent \/ \E t \in Threads : pc[t] = "send" /\ number[t] = k

=============================================================================
