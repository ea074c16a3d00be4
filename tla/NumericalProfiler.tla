--------------------------- MODULE NumericalProfiler ---------------------------
(***************************************************************************)
(* The numerical profiler: threads of the program report the patterns they *)
(* meet to two synchronized maps, by line, and the shutdown hook reads     *)
(* what they have left there, judges it and clears the maps, while threads *)
(* that have not ended go on.  A line is the number of a file name and a   *)
(* line number, the key of the maps.                                       *)
(***************************************************************************)
EXTENDS Recommendation, Sequences

CONSTANTS Threads,      \* threads of the program
          Lines,        \* lines, numbered in the order of the maps
          Nameless,     \* the lines of classes without the name of their file
          Handled,      \* what SymbPattern.match finds: recommendation and value
          MaxMatches    \* bound: matches that are followed

ASSUME ProfilerAssumption ==
    /\ Lines \subseteq Nat /\ Nameless \subseteq Lines
    /\ Handled \subseteq [rec : Recommendations, value : Values]
    /\ MaxMatches \in Nat

None == "none"

ASSUME NoneAssumption == None \notin Threads

\* An entry of the map is named by its line and by whether it was made after the
\* map was cleared.
Entries == Lines \X BOOLEAN

VARIABLES
    pc,             \* where each thread is in handle
    job,            \* the match it handles, and its line
    entry,          \* the entry it got from the map
    computed,       \* the data that its update leads to
    unwritten,      \* the fields of the entry it has still to write
    matches,        \* number of matches so far
    directMatches,  \* line -> recommendation or None
    profile,        \* the lines that have an entry
    recommendation, \* entry -> recommendation it was made for
    data,           \* entry -> ProfileData
    lock,           \* entry -> thread that holds the lock of the data, or None
    values,         \* history: the matches each entry was updated with, in order
    hook,           \* where the shutdown hook is
    rest,           \* the lines whose entries it has still to look at
    finished,       \* std of the entry in hand; history: its updates by then, and
                    \* whether none was under way
    reports,        \* direct recommendations reported
    judged,         \* line -> the judgement of its entry
    owed            \* history: the lines in the maps when the program ended

threadVars == <<pc, job, entry, computed, unwritten, matches>>
mapVars == <<directMatches, profile, recommendation>>
dataVars == <<data, lock, values>>
hookVars == <<hook, rest, finished, reports, judged, owed>>
vars == <<threadVars, mapVars, dataVars, hookVars>>

Jobs == [line : Lines, rec : Recommendations, value : Values]

\* Before the first match of a thread.
NoJob == [line |-> 0, rec |-> None, value |-> 0]
NoEntry == <<0, FALSE>>

NotJudged == [made |-> FALSE, reported |-> FALSE, rec |-> None,
              done |-> <<>>, begun |-> <<>>, quiet |-> FALSE]

Init ==
    /\ pc = [t \in Threads |-> "idle"]
    /\ job = [t \in Threads |-> NoJob]
    /\ entry = [t \in Threads |-> NoEntry]
    /\ computed = [t \in Threads |-> NoData]
    /\ unwritten = [t \in Threads |-> {}]
    /\ matches = 0
    /\ directMatches = [l \in Lines |-> None]
    /\ profile = {}
    /\ recommendation = [e \in Entries |-> None]
    /\ data = [e \in Entries |-> NoData]
    /\ lock = [e \in Entries |-> None]
    /\ values = [e \in Entries |-> <<>>]
    /\ hook = "off"
    /\ rest = {}
    /\ finished = [small |-> FALSE, updates |-> 0, free |-> TRUE]
    /\ reports = {}
    /\ judged = [l \in Lines |-> NotJudged]
    /\ owed = [direct |-> {}, profiled |-> {}]

-----------------------------------------------------------------------------

\* The hook has called clear on the map of the profiles.
cleared == hook \in {"done", "halted"}

\* No other thread reaches the map of the profiles while the hook goes through it.
profileFree == hook \notin {"finish", "judge"}

Goto(t, where) == pc' = [pc EXCEPT ![t] = where]

\* WrapperSymbolic applies an operator and a pattern matches: getLine.
Handle(t) ==
    /\ pc[t] = "idle" /\ matches < MaxMatches
    /\ \E l \in Lines, h \in Handled :
          /\ job' = [job EXCEPT ![t] = [line |-> l, rec |-> h.rec, value |-> h.value]]
          /\ Goto(t, IF h.rec \in DirectMatch THEN "direct" ELSE "put")
    /\ matches' = matches + 1
    /\ UNCHANGED <<entry, computed, unwritten, mapVars, dataVars>>

\* Keys are compared by file name: without one, putIfAbsent throws.
Dies(t) ==
    /\ pc[t] \in {"direct", "put"} /\ job[t].line \in Nameless
    /\ pc[t] = "put" => profileFree
    /\ Goto(t, "dead")
    /\ UNCHANGED <<job, entry, computed, unwritten, matches, mapVars, dataVars>>

\* handleDirectMatch.  The hook goes through this map in one step.
PutDirect(t) ==
    LET l == job[t].line
    IN  /\ pc[t] = "direct" /\ l \notin Nameless
        /\ IF directMatches[l] = None
           THEN directMatches' = [directMatches EXCEPT ![l] = job[t].rec]
           ELSE UNCHANGED directMatches
        /\ Goto(t, "idle")
        /\ UNCHANGED <<job, entry, computed, unwritten, matches, profile, recommendation,
                       dataVars>>

\* Fault: no entry for a line that has a direct match.
PutUnlessDirect(t) ==
    LET l == job[t].line
    IN  /\ pc[t] = "put" /\ l \notin Nameless /\ profileFree
        /\ IF l \notin profile /\ directMatches[l] = None
           THEN /\ profile' = profile \cup {l}
                /\ recommendation' = [recommendation EXCEPT ![<<l, cleared>>] = job[t].rec]
           ELSE UNCHANGED <<profile, recommendation>>
        /\ Goto(t, "get")
        /\ UNCHANGED <<job, entry, computed, unwritten, matches, directMatches, dataVars>>

\* handleProfiledMatch: an entry for the first match of a line.
Put(t) ==
    LET l == job[t].line
    IN  /\ pc[t] = "put" /\ l \notin Nameless /\ profileFree
        /\ IF l \notin profile
           THEN /\ profile' = profile \cup {l}
                /\ recommendation' = [recommendation EXCEPT ![<<l, cleared>>] = job[t].rec]
           ELSE UNCHANGED <<profile, recommendation>>
        /\ Goto(t, "get")
        /\ UNCHANGED <<job, entry, computed, unwritten, matches, directMatches, dataVars>>

\* Fault: what the map returns is not looked at.
GetUnchecked(t) ==
    /\ pc[t] = "get" /\ profileFree
    /\ Goto(t, "track") /\ entry' = [entry EXCEPT ![t] = <<job[t].line, cleared>>]
    /\ UNCHANGED <<job, computed, unwritten, matches, mapVars, dataVars>>

\* The entry is looked up again: if the map has been cleared there is none, and
\* the thread gets a NullPointerException, of which it may die.
Get(t) ==
    /\ pc[t] = "get" /\ profileFree
    /\ IF job[t].line \in profile
       THEN Goto(t, "track") /\ entry' = [entry EXCEPT ![t] = <<job[t].line, cleared>>]
       ELSE Goto(t, "dead") /\ UNCHANGED entry
    /\ UNCHANGED <<job, computed, unwritten, matches, mapVars, dataVars>>

\* Fault: the lock is not asked for.
TrackUnlocked(t) ==
    LET e == entry[t]
        d == Updated(data[e], job[t].rec, job[t].value)
    IN  /\ pc[t] = "track"
        /\ lock' = [lock EXCEPT ![e] = t]
        /\ computed' = [computed EXCEPT ![t] = d]
        /\ unwritten' = [unwritten EXCEPT ![t] = {f \in Fields : d[f] # data[e][f]}]
        /\ Goto(t, "write")
        /\ UNCHANGED <<job, entry, matches, mapVars, data, values>>

\* updateTracking: under the lock of the data the updater of the recommendation of
\* this match, whichever the entry was made for, computes the new data.
Track(t) ==
    LET e == entry[t]
        d == Updated(data[e], job[t].rec, job[t].value)
    IN  /\ pc[t] = "track" /\ lock[e] = None
        /\ lock' = [lock EXCEPT ![e] = t]
        /\ computed' = [computed EXCEPT ![t] = d]
        /\ unwritten' = [unwritten EXCEPT ![t] = {f \in Fields : d[f] # data[e][f]}]
        /\ Goto(t, "write")
        /\ UNCHANGED <<job, entry, matches, mapVars, data, values>>

\* The fields are plain: the hook, which takes no lock, may see them change in any
\* order.
Write(t) ==
    /\ pc[t] = "write"
    /\ \E f \in unwritten[t] :
          /\ data' = [data EXCEPT ![entry[t]][f] = computed[t][f]]
          /\ unwritten' = [unwritten EXCEPT ![t] = @ \ {f}]
    /\ UNCHANGED <<pc, job, entry, computed, matches, mapVars, lock, values>>

\* The update is complete.
Release(t) ==
    /\ pc[t] = "write" /\ unwritten[t] = {}
    /\ lock' = [lock EXCEPT ![entry[t]] = None]
    /\ values' = [values EXCEPT ![entry[t]] =
                     Append(@, [rec |-> job[t].rec, value |-> job[t].value])]
    /\ Goto(t, "idle")
    /\ UNCHANGED <<job, entry, computed, unwritten, matches, mapVars, data>>

-----------------------------------------------------------------------------

\* The virtual machine shuts down, perhaps because a thread called exit.
Shutdown ==
    /\ hook = "off"
    /\ hook' = "direct"
    /\ owed' = [direct |-> {l \in Lines : directMatches[l] # None}, profiled |-> profile]
    /\ UNCHANGED <<directMatches, profile, rest, finished, reports, judged>>

\* onShutdown goes through the direct matches, holding the lock of their map.
ReportDirect ==
    /\ hook = "direct"
    /\ reports' = {[line |-> l, rec |-> directMatches[l]] :
                       l \in {k \in Lines : directMatches[k] # None}}
    /\ hook' = "profile"
    /\ UNCHANGED <<directMatches, profile, rest, finished, judged, owed>>

\* It takes the lock of the map of the profiles.
LockProfile ==
    /\ hook = "profile"
    /\ hook' = "finish"
    /\ rest' = profile
    /\ UNCHANGED <<directMatches, profile, finished, reports, judged, owed>>

\* The lines are visited in the order of the map.
Foremost(l) == l \in rest /\ \A k \in rest : l <= k

\* finish computes the deviation of an entry, without the lock of its data.
Finish ==
    /\ hook = "finish" /\ rest # {}
    /\ \E l \in rest :
          LET e == <<l, FALSE>>
          IN  /\ Foremost(l)
              /\ finished' = [small |-> Finished(data[e]),
                              updates |-> Len(values[e]), free |-> lock[e] = None]
    /\ hook' = "judge"
    /\ UNCHANGED <<directMatches, profile, rest, reports, judged, owed>>

\* The matches an entry has been, or is being, updated with.
Begun(e) ==
    IF lock[e] = None THEN values[e]
    ELSE Append(values[e], [rec |-> job[lock[e]].rec, value |-> job[lock[e]].value])

\* isRelevant decides from what the data are by now, and the hook goes on to the
\* next entry.
Judge ==
    /\ hook = "judge"
    /\ \E l \in rest :
          LET e == <<l, FALSE>>
          IN  /\ Foremost(l)
              /\ judged' = [judged EXCEPT ![l] =
                     [made     |-> TRUE,
                      reported |-> isRelevant(recommendation[e], data[e], finished.small),
                      rec      |-> recommendation[e],
                      done     |-> values[e],
                      begun    |-> Begun(e),
                      quiet    |-> /\ finished.free /\ lock[e] = None
                                   /\ finished.updates = Len(values[e])]]
              /\ rest' = rest \ {l}
    /\ hook' = "finish"
    /\ UNCHANGED <<directMatches, profile, finished, reports, owed>>

\* It releases the map of the profiles.
UnlockProfile ==
    /\ hook = "finish" /\ rest = {}
    /\ hook' = "clearDirect"
    /\ UNCHANGED <<directMatches, profile, rest, finished, reports, judged, owed>>

\* directMatches.clear().
ClearDirect ==
    /\ hook = "clearDirect"
    /\ directMatches' = [l \in Lines |-> None]
    /\ hook' = "clearProfile"
    /\ UNCHANGED <<profile, rest, finished, reports, judged, owed>>

\* profile.clear(): the entries live on in the threads that have got them.
ClearProfile ==
    /\ hook = "clearProfile"
    /\ profile' = {}
    /\ hook' = "done"
    /\ UNCHANGED <<directMatches, rest, finished, reports, judged, owed>>

\* All hooks have ended: the virtual machine halts, wherever the threads are.
Halt ==
    /\ hook = "done"
    /\ hook' = "halted"
    /\ UNCHANGED <<directMatches, profile, rest, finished, reports, judged, owed>>

Halted == hook = "halted" /\ UNCHANGED vars

Step(t) ==
    \/ Handle(t)
    \/ Dies(t)
    \/ PutDirect(t)
    \/ Put(t)
    \/ Get(t)
    \/ Track(t)
    \/ Write(t)
    \/ Release(t)

onShutdown ==
    \/ Shutdown
    \/ ReportDirect
    \/ LockProfile
    \/ Finish
    \/ Judge
    \/ UnlockProfile
    \/ ClearDirect
    \/ ClearProfile
    \/ Halt

\* The threads run until the hook has ended.
Next ==
    \/ hook # "halted" /\ (\E t \in Threads : Step(t)) /\ UNCHANGED hookVars
    \/ onShutdown /\ UNCHANGED <<threadVars, dataVars, recommendation>>
    \/ Halted

Spec == Init /\ [][Next]_vars

-----------------------------------------------------------------------------

Records == [rec : Profiled, value : Values]

\* The types, and who holds which lock: the lock of an entry is held by the one
\* thread that is writing to it (Recommendation.updateTracking), and the thread
\* works on the entry of its line.
TypeOK ==
    /\ pc \in [Threads -> {"idle", "direct", "put", "get", "track", "write", "dead"}]
    /\ job \in [Threads -> Jobs \cup {NoJob}]
    /\ entry \in [Threads -> Entries \cup {NoEntry}]
    /\ computed \in [Threads -> Data]
    /\ unwritten \in [Threads -> SUBSET Fields]
    /\ matches \in 0 .. MaxMatches
    /\ directMatches \in [Lines -> DirectMatch \cup {None}]
    /\ profile \subseteq Lines \ Nameless
    /\ recommendation \in [Entries -> Profiled \cup {None}]
    /\ data \in [Entries -> Data]
    /\ lock \in [Entries -> Threads \cup {None}]
    /\ values \in [Entries -> Seq(Records)]
    /\ hook \in {"off", "direct", "profile", "finish", "judge", "clearDirect", "clearProfile",
                "done", "halted"}
    /\ rest \subseteq Lines
    /\ finished \in [small : BOOLEAN, updates : Nat, free : BOOLEAN]
    /\ reports \subseteq [line : Lines, rec : DirectMatch]
    /\ judged \in [Lines -> [made : BOOLEAN, reported : BOOLEAN, rec : Profiled \cup {None},
                            done : Seq(Records), begun : Seq(Records), quiet : BOOLEAN]]
    /\ owed \in [direct : SUBSET Lines, profiled : SUBSET Lines]
    /\ hook = "judge" => rest # {}
    /\ \A t \in Threads :
          /\ pc[t] \notin {"idle", "dead"} => job[t] \in Jobs
          /\ pc[t] \in {"track", "write"} =>
                /\ entry[t] \in Entries /\ entry[t][1] = job[t].line
                /\ recommendation[entry[t]] # None
          /\ pc[t] = "write" <=> \E e \in Entries : lock[e] = t
          /\ pc[t] = "write" => lock[entry[t]] = t
    /\ \A l \in profile : recommendation[<<l, cleared>>] # None

\* The matches of the recommendation that the entry of the line was made for.
Own(rec, matched) == {matched[i].value : i \in {j \in DOMAIN matched : matched[j].rec = rec}}

\* No match of another recommendation was mixed with them.
Unshared(rec, matched) == \A i \in DOMAIN matched : matched[i].rec = rec

\* What the text of a recommendation says of the values it was matched with.
Justified(rec, vs) ==
    CASE rec \in {"LOG1P", "EXPM1"} -> vs = {0}
      [] rec = "INTPOW" -> \E k \in -MAX_POW_REPLACEMENT .. MAX_POW_REPLACEMENT : vs = {k * Unit}
      [] rec = "PYTH_TO_HYPOT" -> \E v \in vs : Infinite(v)
      [] rec = "HYPOT_TO_PYTH" -> \A v \in vs : ~Infinite(v)
      [] rec = "USELESS_ABS" -> (\A v \in vs : v >= 0) \/ (\A v \in vs : v <= 0)
      [] rec \in {"SIN_APPROX", "COS_APPROX", "TAN_APPROX"} ->
             \A v \in vs : Magnitude(v) <= Threshold(rec)

-----------------------------------------------------------------------------

Total(recorded) ==
    LET Sum[i \in 0 .. Len(recorded)] ==
            IF i = 0 THEN 0 ELSE Sum[i - 1] + recorded[i].value
    IN  Sum[Len(recorded)]

\* What profile data tell of the matches they stand for.
Summarizes(d, recorded) ==
    LET all == {recorded[i].value : i \in DOMAIN recorded}
    IN  /\ d.count = Len(recorded)
        /\ d.sum = Total(recorded)
        /\ \A v \in all : d.min <= v /\ v <= d.max
        /\ all # {} => {d.min, d.max} \subseteq all
        /\ d.spread <=> \E v, w \in all : v # w \/ Infinite(v)
        /\ d.overflow <=>
              \E i \in DOMAIN recorded :
                  /\ recorded[i].rec \in {"PYTH_TO_HYPOT", "HYPOT_TO_PYTH"}
                  /\ Infinite(recorded[i].value)

\* No update is lost, though threads share entries across lines, recommendations and
\* time (updateTracking): whenever the lock of an entry is free, its data are those of
\* all the matches that were ever recorded in it, in whatever order.
NothingLost ==
    \A e \in Entries : lock[e] = None => Summarizes(data[e], values[e])

\* What a reported judgement may be trusted in, and one that has to be reported.
ReportJustified(j) ==
    j.reported /\ Own(j.rec, j.done) # {} =>
        \/ /\ j.rec = "PYTH_TO_HYPOT"
           /\ Justified(j.rec, Own(j.rec, j.begun)) \/ ~Unshared(j.rec, j.begun)
        \/ /\ j.rec \in {"LOG1P", "EXPM1"}
           /\ Justified(j.rec, Own(j.rec, j.done)) \/ ~j.quiet
        \/ /\ j.rec \notin {"PYTH_TO_HYPOT", "LOG1P", "EXPM1"}
           /\ Justified(j.rec, Own(j.rec, j.done))

ReportDue(j) ==
    /\ j.done # <<>> /\ Unshared(j.rec, j.begun)
    /\ Justified(j.rec, Own(j.rec, j.done))
    /\ Justified(j.rec, Own(j.rec, j.begun))
    /\ j.rec \in {"LOG1P", "EXPM1"} => j.quiet

\* What the hook reports is what its text says of the values of the matches it was
\* made for (onShutdown, isRelevant), once one of them has been recorded, although the
\* data are read without their lock: with two exceptions.  HYPOT_TO_PYTH on the same
\* line finds an overflow for PYTH_TO_HYPOT, and an update between finish and
\* isRelevant, or under way then, shows the mean of other values than the deviation.
ReportsJustified == \A l \in Lines : judged[l].made => ReportJustified(judged[l])

\* Nothing that is worth it goes unreported: every line that was in a map when the
\* program ended is looked at, a direct match is reported, and so is a recommendation
\* that is justified with and without an update under way, unless the matches of
\* another one on its line are mixed with it or an update comes too late for finish.
NothingUnreported ==
    hook \in {"clearDirect", "clearProfile", "done", "halted"} =>
        /\ \A l \in owed.direct : \E r \in reports : r.line = l
        /\ \A l \in owed.profiled : judged[l].made
        /\ \A l \in Lines : judged[l].made /\ ReportDue(judged[l]) => judged[l].reported

\* The report of the hook is right in both ways.
ReportsRight == ReportsJustified /\ NothingUnreported

\* A thread of the program does not die of the profiler before the maps are cleared,
\* unless its class has no file name (handleProfiledMatch takes the entry that it, or
\* another thread, has put before).
ThreadsSurvive ==
    \A t \in Threads : pc[t] = "dead" => cleared \/ job[t].line \in Nameless

===============================================================================
