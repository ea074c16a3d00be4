-------------------------- MODULE ReactionsProofs --------------------------
(***************************************************************************)
(* Proofs, for any number of threads, locations and problems, of the       *)
(* safety properties of Reactions.                                         *)
(***************************************************************************)
EXTENDS Reactions, TLAPS

-----------------------------------------------------------------------------
(* Type correctness.                                                       *)

LEMMA TypeInit == Init => TypeOK
<1> NoLocationYet \in Locations
  BY LocationsAssumption DEF NoLocationYet
<1> SUFFICES ASSUME Init PROVE TypeOK
  OBVIOUS
<1>1. detected \in [Threads -> 0 .. MaxEvents] /\ lost \in [Locations -> 0 .. MaxLogFailures]
  BY ReactionBoundsAssumption DEF Init
<1>2. pc \in [Threads -> {"program", "react", "putIfAbsent", "put", "filter",
                         "notify", "writeChanges", "send", "report"}]
  BY DEF Init
<1>3. location \in [Threads -> Locations]
  BY DEF Init
<1> QED
  BY <1>1, <1>2, <1>3 DEF Init, TypeOK

LEMMA TypeNext == TypeOK /\ [Next]_vars => TypeOK'
<1> SUFFICES ASSUME TypeOK, [Next]_vars PROVE TypeOK'
  OBVIOUS
<1> USE ReactionBoundsAssumption
<1>1. ASSUME NEW t \in Threads, NEW l \in Locations, Detect(t, l) PROVE TypeOK'
  BY <1>1 DEF Detect, GoTo, TypeOK, config, mapVars, reportVars, notifyVars, hookVars
<1>2. ASSUME NEW t \in Threads, CheckReact(t) PROVE TypeOK'
  BY <1>2 DEF CheckReact, GoTo, TypeOK, config, mapVars, reportVars, notifyVars, hookVars
<1>3. ASSUME NEW t \in Threads, Callback(t) PROVE TypeOK'
  BY <1>3 DEF Callback, MakeReport, GoTo, TypeOK, config, mapVars, reportVars, notifyVars, hookVars
<1>4. ASSUME NEW t \in Threads, PutIfAbsent(t) PROVE TypeOK'
  BY <1>4 DEF PutIfAbsent, CountOccurrence, GoTo, TypeOK, config, mapVars, reportVars, notifyVars, hookVars
<1>5. ASSUME NEW t \in Threads, Put(t) PROVE TypeOK'
  BY <1>5 DEF Put, GoTo, TypeOK, config, mapVars, reportVars, notifyVars, hookVars
<1>6. ASSUME NEW t \in Threads, Filter(t) PROVE TypeOK'
  BY <1>6 DEF Filter, GoTo, TypeOK, config, mapVars, reportVars, notifyVars, hookVars
<1>7. ASSUME NEW t \in Threads, ReadChanges(t) PROVE TypeOK'
  BY <1>7 DEF ReadChanges, GoTo, TypeOK, config, mapVars, reportVars, notifyVars, hookVars
<1>8. ASSUME NEW t \in Threads, WriteChanges(t) PROVE TypeOK'
  BY <1>8 DEF WriteChanges, GoTo, TypeOK, config, mapVars, reportVars, notifyVars, hookVars
<1>9. ASSUME NEW t \in Threads, SendNotification(t) PROVE TypeOK'
  BY <1>9 DEF SendNotification, GoTo, TypeOK, config, mapVars, reportVars, notifyVars, hookVars
<1>10. ASSUME NEW t \in Threads, Report(t) PROVE TypeOK'
  BY <1>10 DEF Report, MakeReport, GoTo, TypeOK, config, mapVars, reportVars, notifyVars, hookVars
<1>11. ASSUME NEW t \in Threads, LogFails(t) PROVE TypeOK'
  BY <1>11 DEF LogFails, GoTo, TypeOK, config, mapVars, reportVars, notifyVars, hookVars
<1>12. ASSUME Start PROVE TypeOK'
  BY <1>12 DEF Start, TypeOK, config, mapVars, reportVars, notifyVars, hookVars
<1>13. ASSUME Stop PROVE TypeOK'
  BY <1>13 DEF Stop, TypeOK, config, mapVars, reportVars, notifyVars, hookVars
<1>14. ASSUME Shutdown PROVE TypeOK'
  BY <1>14 DEF Shutdown, TypeOK, config, mapVars, reportVars, notifyVars, hookVars
<1>15. ASSUME NEW l \in Locations, ReadEntry(l) PROVE TypeOK'
  BY <1>15 DEF ReadEntry, TypeOK, config, mapVars, reportVars, notifyVars, hookVars
<1>16. CASE UNCHANGED vars
  BY <1>16 DEF TypeOK, config, mapVars, reportVars, notifyVars, hookVars, vars
<1> QED
  BY <1>1, <1>2, <1>3, <1>4, <1>5, <1>6, <1>7, <1>8, <1>9, <1>10, <1>11, <1>12, <1>13, <1>14, <1>15, <1>16 DEF Next, Step

\* Every reachable state of Reactions has the types of the code's fields and
\* locals, whatever the numbers of threads, locations and problems.
THEOREM TypeCorrect == Spec => []TypeOK
  BY TypeInit, TypeNext, PTL DEF Spec

-----------------------------------------------------------------------------
(* The counts: a stale old value is still a count that has been reached,   *)
(* and it is not stale while one thread at a time counts the location.     *)

CountInv ==
    /\ \A l \in Locations : EVENTS[l] <= counted[l] /\ summary[l] <= counted[l]
    /\ \A t \in Threads : pc[t] = "put" => old[t] + 1 <= counted[location[t]]
    /\ \A l \in Locations \ overlapped :
          ~BeingCounted(l) => counted[l] = EVENTS[l]
    /\ \A t \in Threads : pc[t] = "put" /\ location[t] \notin overlapped =>
          /\ old[t] = EVENTS[location[t]]
          /\ counted[location[t]] = EVENTS[location[t]] + 1
          /\ \A u \in Threads :
                pc[u] = "put" /\ location[u] = location[t] => u = t

LEMMA CountNext == TypeOK /\ CountInv /\ [Next]_vars => CountInv'
<1> SUFFICES ASSUME TypeOK, CountInv, [Next]_vars PROVE CountInv'
  OBVIOUS
<1> USE DEF BeingCounted
<1>1. ASSUME NEW t \in Threads, NEW l \in Locations, Detect(t, l) PROVE CountInv'
  BY <1>1 DEF Detect, GoTo, TypeOK, CountInv, config, mapVars, reportVars, notifyVars, hookVars
<1>2. ASSUME NEW t \in Threads, CheckReact(t) PROVE CountInv'
  BY <1>2 DEF CheckReact, GoTo, TypeOK, CountInv, config, mapVars, reportVars, notifyVars, hookVars
<1>3. ASSUME NEW t \in Threads, Callback(t) PROVE CountInv'
  BY <1>3 DEF Callback, MakeReport, GoTo, TypeOK, CountInv, config, mapVars, reportVars, notifyVars, hookVars
<1>4. ASSUME NEW t \in Threads, PutIfAbsent(t) PROVE CountInv'
  BY <1>4 DEF PutIfAbsent, CountOccurrence, GoTo, TypeOK, CountInv, config, mapVars, reportVars, notifyVars, hookVars
<1>5. ASSUME NEW t \in Threads, Put(t) PROVE CountInv'
  BY <1>5 DEF Put, GoTo, TypeOK, CountInv, config, mapVars, reportVars, notifyVars, hookVars
<1>6. ASSUME NEW t \in Threads, Filter(t) PROVE CountInv'
  BY <1>6 DEF Filter, GoTo, TypeOK, CountInv, config, mapVars, reportVars, notifyVars, hookVars
<1>7. ASSUME NEW t \in Threads, ReadChanges(t) PROVE CountInv'
  BY <1>7 DEF ReadChanges, GoTo, TypeOK, CountInv, config, mapVars, reportVars, notifyVars, hookVars
<1>8. ASSUME NEW t \in Threads, WriteChanges(t) PROVE CountInv'
  BY <1>8 DEF WriteChanges, GoTo, TypeOK, CountInv, config, mapVars, reportVars, notifyVars, hookVars
<1>9. ASSUME NEW t \in Threads, SendNotification(t) PROVE CountInv'
  BY <1>9 DEF SendNotification, GoTo, TypeOK, CountInv, config, mapVars, reportVars, notifyVars, hookVars
<1>10. ASSUME NEW t \in Threads, Report(t) PROVE CountInv'
  BY <1>10 DEF Report, MakeReport, GoTo, TypeOK, CountInv, config, mapVars, reportVars, notifyVars, hookVars
<1>11. ASSUME NEW t \in Threads, LogFails(t) PROVE CountInv'
  BY <1>11 DEF LogFails, GoTo, TypeOK, CountInv, config, mapVars, reportVars, notifyVars, hookVars
<1>12. ASSUME Start PROVE CountInv'
  BY <1>12 DEF Start, TypeOK, CountInv, config, mapVars, reportVars, notifyVars, hookVars
<1>13. ASSUME Stop PROVE CountInv'
  BY <1>13 DEF Stop, TypeOK, CountInv, config, mapVars, reportVars, notifyVars, hookVars
<1>14. ASSUME Shutdown PROVE CountInv'
  BY <1>14 DEF Shutdown, TypeOK, CountInv, config, mapVars, reportVars, notifyVars, hookVars
<1>15. ASSUME NEW l \in Locations, ReadEntry(l) PROVE CountInv'
  BY <1>15 DEF ReadEntry, TypeOK, CountInv, config, mapVars, reportVars, notifyVars, hookVars
<1>16. CASE UNCHANGED vars
  BY <1>16 DEF TypeOK, CountInv, config, mapVars, reportVars, notifyVars, hookVars, vars
<1> QED
  BY <1>1, <1>2, <1>3, <1>4, <1>5, <1>6, <1>7, <1>8, <1>9, <1>10, <1>11, <1>12, <1>13, <1>14, <1>15, <1>16 DEF Next, Step

\* EVENTS and the summary of -Xs never show more problems than passesFilter
\* has been called with, and EVENTS shows all of them wherever no two threads
\* were between its two map accesses at a time.
THEOREM CountsAreRight == Spec => []CountsRight
<1>1. Init => CountInv
  BY DEF Init, CountInv, BeingCounted
<1>2. TypeOK /\ CountInv => CountsRight
  BY DEF TypeOK, CountInv, CountsRight, BeingCounted
<1> QED
  BY <1>1, <1>2, CountNext, TypeCorrect, PTL DEF Spec

-----------------------------------------------------------------------------
(* The filter: a location that is in EVENTS has one thread that won the    *)
(* race of putIfAbsent, and that thread is on its way or has reported.     *)

Winner(t) == (pc[t] = "filter" /\ old[t] = 0) \/ pc[t] = "report"

OnceInv ==
    filtering /\ theReactionType # "CALLBACK" =>
        /\ \A l \in Locations : reported[l] + lost[l] <= 1
        /\ \A l \in Locations : EVENTS[l] = 0 => reported[l] + lost[l] = 0
        /\ \A t \in Threads : pc[t] \notin {"notify", "writeChanges", "send"}
        /\ \A t \in Threads : pc[t] = "put" => old[t] > 0
        /\ \A t \in Threads : Winner(t) =>
              /\ EVENTS[location[t]] > 0
              /\ reported[location[t]] + lost[location[t]] = 0
        /\ \A t, u \in Threads :
              Winner(t) /\ Winner(u) /\ location[t] = location[u] => t = u

LEMMA OnceNext == TypeOK /\ OnceInv /\ [Next]_vars => OnceInv'
<1> SUFFICES ASSUME TypeOK, OnceInv, [Next]_vars PROVE OnceInv'
  OBVIOUS
<1> USE ReactionBoundsAssumption DEF Winner
<1>1. ASSUME NEW t \in Threads, NEW l \in Locations, Detect(t, l) PROVE OnceInv'
  BY <1>1 DEF Detect, GoTo, TypeOK, OnceInv, config, mapVars, reportVars, notifyVars, hookVars
<1>2. ASSUME NEW t \in Threads, CheckReact(t) PROVE OnceInv'
  BY <1>2 DEF CheckReact, GoTo, TypeOK, OnceInv, config, mapVars, reportVars, notifyVars, hookVars
<1>3. ASSUME NEW t \in Threads, Callback(t) PROVE OnceInv'
  BY <1>3 DEF Callback, MakeReport, GoTo, TypeOK, OnceInv, config, mapVars, reportVars, notifyVars, hookVars
<1>4. ASSUME NEW t \in Threads, PutIfAbsent(t) PROVE OnceInv'
  BY <1>4 DEF PutIfAbsent, GoTo, TypeOK, OnceInv, config, mapVars, reportVars, notifyVars, hookVars
<1>5. ASSUME NEW t \in Threads, Put(t) PROVE OnceInv'
  BY <1>5 DEF Put, GoTo, TypeOK, OnceInv, config, mapVars, reportVars, notifyVars, hookVars
<1>6. ASSUME NEW t \in Threads, Filter(t) PROVE OnceInv'
  BY <1>6 DEF Filter, GoTo, TypeOK, OnceInv, config, mapVars, reportVars, notifyVars, hookVars
<1>7. ASSUME NEW t \in Threads, ReadChanges(t) PROVE OnceInv'
  BY <1>7 DEF ReadChanges, GoTo, TypeOK, OnceInv, config, mapVars, reportVars, notifyVars, hookVars
<1>8. ASSUME NEW t \in Threads, WriteChanges(t) PROVE OnceInv'
  BY <1>8 DEF WriteChanges, GoTo, TypeOK, OnceInv, config, mapVars, reportVars, notifyVars, hookVars
<1>9. ASSUME NEW t \in Threads, SendNotification(t) PROVE OnceInv'
  BY <1>9 DEF SendNotification, GoTo, TypeOK, OnceInv, config, mapVars, reportVars, notifyVars, hookVars
<1>10. ASSUME NEW t \in Threads, Report(t) PROVE OnceInv'
  BY <1>10 DEF Report, MakeReport, GoTo, TypeOK, OnceInv, config, mapVars, reportVars, notifyVars, hookVars
<1>11. ASSUME NEW t \in Threads, LogFails(t) PROVE OnceInv'
  BY <1>11 DEF LogFails, GoTo, TypeOK, OnceInv, config, mapVars, reportVars, notifyVars, hookVars
<1>12. ASSUME Start PROVE OnceInv'
  BY <1>12 DEF Start, TypeOK, OnceInv, config, mapVars, reportVars, notifyVars, hookVars
<1>13. ASSUME Stop PROVE OnceInv'
  BY <1>13 DEF Stop, TypeOK, OnceInv, config, mapVars, reportVars, notifyVars, hookVars
<1>14. ASSUME Shutdown PROVE OnceInv'
  BY <1>14 DEF Shutdown, TypeOK, OnceInv, config, mapVars, reportVars, notifyVars, hookVars
<1>15. ASSUME NEW l \in Locations, ReadEntry(l) PROVE OnceInv'
  BY <1>15 DEF ReadEntry, TypeOK, OnceInv, config, mapVars, reportVars, notifyVars, hookVars
<1>16. CASE UNCHANGED vars
  BY <1>16 DEF TypeOK, OnceInv, config, mapVars, reportVars, notifyVars, hookVars, vars
<1> QED
  BY <1>1, <1>2, <1>3, <1>4, <1>5, <1>6, <1>7, <1>8, <1>9, <1>10, <1>11, <1>12, <1>13, <1>14, <1>15, <1>16 DEF Next, Step

\* With -Xf a location is reported at most once, by whichever thread
\* putIfAbsent answered null to.
THEOREM FilterReportsOnce == Spec => []ReportedOnce
<1>1. Init => OnceInv
  BY DEF Init, OnceInv, Winner
<1>2. OnceInv => ReportedOnce
  BY DEF OnceInv, ReportedOnce
<1> QED
  BY <1>1, <1>2, OnceNext, TypeCorrect, PTL DEF Spec

-----------------------------------------------------------------------------
(* stop(): a thread past the test of the flag saw it set after detecting.  *)

StopInv ==
    /\ react => stopped = {}
    /\ theReactionType # "CALLBACK" =>
          /\ ~disobeyed
          /\ \A t \in stopped : pc[t] \in {"program", "react"}

LEMMA StopNext == TypeOK /\ StopInv /\ [Next]_vars => StopInv'
<1> SUFFICES ASSUME TypeOK, StopInv, [Next]_vars PROVE StopInv'
  OBVIOUS
<1>1. ASSUME NEW t \in Threads, NEW l \in Locations, Detect(t, l) PROVE StopInv'
  BY <1>1 DEF Detect, GoTo, TypeOK, StopInv, config, mapVars, reportVars, notifyVars, hookVars
<1>2. ASSUME NEW t \in Threads, CheckReact(t) PROVE StopInv'
  BY <1>2 DEF CheckReact, GoTo, TypeOK, StopInv, config, mapVars, reportVars, notifyVars, hookVars
<1>3. ASSUME NEW t \in Threads, Callback(t) PROVE StopInv'
  BY <1>3 DEF Callback, MakeReport, GoTo, TypeOK, StopInv, config, mapVars, reportVars, notifyVars, hookVars
<1>4. ASSUME NEW t \in Threads, PutIfAbsent(t) PROVE StopInv'
  BY <1>4 DEF PutIfAbsent, GoTo, TypeOK, StopInv, config, mapVars, reportVars, notifyVars, hookVars
<1>5. ASSUME NEW t \in Threads, Put(t) PROVE StopInv'
  BY <1>5 DEF Put, GoTo, TypeOK, StopInv, config, mapVars, reportVars, notifyVars, hookVars
<1>6. ASSUME NEW t \in Threads, Filter(t) PROVE StopInv'
  BY <1>6 DEF Filter, GoTo, TypeOK, StopInv, config, mapVars, reportVars, notifyVars, hookVars
<1>7. ASSUME NEW t \in Threads, ReadChanges(t) PROVE StopInv'
  BY <1>7 DEF ReadChanges, GoTo, TypeOK, StopInv, config, mapVars, reportVars, notifyVars, hookVars
<1>8. ASSUME NEW t \in Threads, WriteChanges(t) PROVE StopInv'
  BY <1>8 DEF WriteChanges, GoTo, TypeOK, StopInv, config, mapVars, reportVars, notifyVars, hookVars
<1>9. ASSUME NEW t \in Threads, SendNotification(t) PROVE StopInv'
  BY <1>9 DEF SendNotification, GoTo, TypeOK, StopInv, config, mapVars, reportVars, notifyVars, hookVars
<1>10. ASSUME NEW t \in Threads, Report(t) PROVE StopInv'
  BY <1>10 DEF Report, MakeReport, GoTo, TypeOK, StopInv, config, mapVars, reportVars, notifyVars, hookVars
<1>11. ASSUME NEW t \in Threads, LogFails(t) PROVE StopInv'
  BY <1>11 DEF LogFails, GoTo, TypeOK, StopInv, config, mapVars, reportVars, notifyVars, hookVars
<1>12. ASSUME Start PROVE StopInv'
  BY <1>12 DEF Start, TypeOK, StopInv, config, mapVars, reportVars, notifyVars, hookVars
<1>13. ASSUME Stop PROVE StopInv'
  BY <1>13 DEF Stop, TypeOK, StopInv, config, mapVars, reportVars, notifyVars, hookVars
<1>14. ASSUME Shutdown PROVE StopInv'
  BY <1>14 DEF Shutdown, TypeOK, StopInv, config, mapVars, reportVars, notifyVars, hookVars
<1>15. ASSUME NEW l \in Locations, ReadEntry(l) PROVE StopInv'
  BY <1>15 DEF ReadEntry, TypeOK, StopInv, config, mapVars, reportVars, notifyVars, hookVars
<1>16. CASE UNCHANGED vars
  BY <1>16 DEF TypeOK, StopInv, config, mapVars, reportVars, notifyVars, hookVars, vars
<1> QED
  BY <1>1, <1>2, <1>3, <1>4, <1>5, <1>6, <1>7, <1>8, <1>9, <1>10, <1>11, <1>12, <1>13, <1>14, <1>15, <1>16 DEF Next, Step

\* Apart from the callback, no reaction reports a problem that was detected
\* after stop() and before the next start().
THEOREM ReactionsObeyStop == Spec => []StopObeyedByReactions
<1>1. Init => StopInv
  BY DEF Init, StopInv
<1>2. StopInv => StopObeyedByReactions
  BY DEF StopInv, StopObeyedByReactions
<1> QED
  BY <1>1, <1>2, StopNext, TypeCorrect, PTL DEF Spec

-----------------------------------------------------------------------------
(* Notifications: whoever has read a number knows all smaller ones sent.   *)

Sent(k) == k \in sent \/ \E t \in Threads : pc[t] = "send" /\ number[t] = k

GapInv ==
    /\ \A k \in 0 .. changes - 1 : Sent(k)
    /\ \A t \in Threads :
          pc[t] = "writeChanges" => \A k \in 0 .. number[t] - 1 : Sent(k)

LEMMA GapNext == TypeOK /\ GapInv /\ [Next]_vars => GapInv'
<1> SUFFICES ASSUME TypeOK, GapInv, [Next]_vars PROVE GapInv'
  OBVIOUS
<1> USE DEF Sent
<1>1. ASSUME NEW t \in Threads, NEW l \in Locations, Detect(t, l) PROVE GapInv'
  BY <1>1 DEF Detect, GoTo, TypeOK, GapInv, config, mapVars, reportVars, notifyVars, hookVars
<1>2. ASSUME NEW t \in Threads, CheckReact(t) PROVE GapInv'
  BY <1>2 DEF CheckReact, GoTo, TypeOK, GapInv, config, mapVars, reportVars, notifyVars, hookVars
<1>3. ASSUME NEW t \in Threads, Callback(t) PROVE GapInv'
  BY <1>3 DEF Callback, MakeReport, GoTo, TypeOK, GapInv, config, mapVars, reportVars, notifyVars, hookVars
<1>4. ASSUME NEW t \in Threads, PutIfAbsent(t) PROVE GapInv'
  BY <1>4 DEF PutIfAbsent, GoTo, TypeOK, GapInv, config, mapVars, reportVars, notifyVars, hookVars
<1>5. ASSUME NEW t \in Threads, Put(t) PROVE GapInv'
  BY <1>5 DEF Put, GoTo, TypeOK, GapInv, config, mapVars, reportVars, notifyVars, hookVars
<1>6. ASSUME NEW t \in Threads, Filter(t) PROVE GapInv'
  BY <1>6 DEF Filter, GoTo, TypeOK, GapInv, config, mapVars, reportVars, notifyVars, hookVars
<1>7. ASSUME NEW t \in Threads, ReadChanges(t) PROVE GapInv'
  BY <1>7 DEF ReadChanges, GoTo, TypeOK, GapInv, config, mapVars, reportVars, notifyVars, hookVars
<1>8. ASSUME NEW t \in Threads, WriteChanges(t) PROVE GapInv'
  <2>1. /\ pc[t] = "writeChanges" /\ changes' = number[t] + 1 /\ UNCHANGED <<number, sent>>
        /\ number[t] \in Nat /\ pc'[t] = "send" /\ \A u \in Threads \ {t} : pc'[u] = pc[u]
    BY <1>8 DEF WriteChanges, GoTo, TypeOK
  <2>2. \A k : Sent(k) => Sent(k)'
    BY <2>1
  <2>3. Sent(number[t])'
    BY <2>1
  <2>4. \A k \in 0 .. number[t] - 1 : Sent(k)
    BY <2>1 DEF GapInv
  <2>5. \A k \in 0 .. changes' - 1 : k \in 0 .. number[t] - 1 \/ k = number[t]
    BY <2>1
  <2> QED
    BY <2>1, <2>2, <2>3, <2>4, <2>5 DEF GapInv
<1>9. ASSUME NEW t \in Threads, SendNotification(t) PROVE GapInv'
  BY <1>9 DEF SendNotification, GoTo, TypeOK, GapInv, config, mapVars, reportVars, notifyVars, hookVars
<1>10. ASSUME NEW t \in Threads, Report(t) PROVE GapInv'
  BY <1>10 DEF Report, MakeReport, GoTo, TypeOK, GapInv, config, mapVars, reportVars, notifyVars, hookVars
<1>11. ASSUME NEW t \in Threads, LogFails(t) PROVE GapInv'
  BY <1>11 DEF LogFails, GoTo, TypeOK, GapInv, config, mapVars, reportVars, notifyVars, hookVars
<1>12. ASSUME Start PROVE GapInv'
  BY <1>12 DEF Start, TypeOK, GapInv, config, mapVars, reportVars, notifyVars, hookVars
<1>13. ASSUME Stop PROVE GapInv'
  BY <1>13 DEF Stop, TypeOK, GapInv, config, mapVars, reportVars, notifyVars, hookVars
<1>14. ASSUME Shutdown PROVE GapInv'
  BY <1>14 DEF Shutdown, TypeOK, GapInv, config, mapVars, reportVars, notifyVars, hookVars
<1>15. ASSUME NEW l \in Locations, ReadEntry(l) PROVE GapInv'
  BY <1>15 DEF ReadEntry, TypeOK, GapInv, config, mapVars, reportVars, notifyVars, hookVars
<1>16. CASE UNCHANGED vars
  BY <1>16 DEF TypeOK, GapInv, config, mapVars, reportVars, notifyVars, hookVars, vars
<1> QED
  BY <1>1, <1>2, <1>3, <1>4, <1>5, <1>6, <1>7, <1>8, <1>9, <1>10, <1>11, <1>12, <1>13, <1>14, <1>15, <1>16 DEF Next, Step

\* The numbers of the JMX notifications have no gap although changes++ is not
\* atomic and may set changes back.
THEOREM NotificationsWithoutGap == Spec => []NoNotificationGap
<1>1. Init => GapInv
  BY DEF Init, GapInv
<1>2. GapInv => NoNotificationGap
  BY DEF GapInv, Sent, NoNotificationGap
<1> QED
  BY <1>1, <1>2, GapNext, TypeCorrect, PTL DEF Spec

=============================================================================
