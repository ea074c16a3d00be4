------------------------ MODULE NumericalProfilerProofs ------------------------
(***************************************************************************)
(* Proofs, for any number of threads, lines and matches, of the invariants *)
(* of NumericalProfiler.  They come in two layers: the profile data of a   *)
(* sequence of matches, taken one after another, are what Summarizes says; *)
(* and whatever the threads do at the same time, the data of an entry are  *)
(* those of the matches recorded in it, taken one after another.           *)
(***************************************************************************)
EXTENDS NumericalProfiler, Numbers, SequenceTheorems, TLAPS

-----------------------------------------------------------------------------
(* The sum of the values of a sequence of matches.                         *)

SumUpTo(f, s, n) == f = [i \in 0 .. n |-> IF i = 0 THEN 0 ELSE f[i - 1] + s[i].value]

\* The recursion of Total has a solution for every sequence.
LEMMA SumExists ==
    ASSUME NEW s
    PROVE  \A n \in Nat : \E f : SumUpTo(f, s, n)
<1> DEFINE Bad == {n \in Nat : ~ \E f : SumUpTo(f, s, n)}
<1> SUFFICES ASSUME Bad # {} PROVE FALSE
  OBVIOUS
<1>1. PICK m \in Bad : \A n \in Bad : m <= n
  BY LeastNumber
<1>2. CASE m = 0
  <2> DEFINE f == [i \in 0 .. 0 |-> 0]
  <2>1. SumUpTo(f, s, 0)
    BY DEF SumUpTo
  <2> QED
    BY <2>1, <1>2
<1>3. CASE m # 0
  <2>1. m - 1 \in Nat /\ m - 1 \notin Bad
    BY <1>1, <1>3
  <2>2. PICK f : SumUpTo(f, s, m - 1)
    BY <2>1
  <2> DEFINE g == [i \in 0 .. m |-> IF i = 0 THEN 0 ELSE f[i - 1] + s[i].value]
  <2>3. \A i \in 0 .. m - 1 : g[i] = f[i]
    BY <2>2, <2>1 DEF SumUpTo
  <2>4. \A i \in 0 .. m : i # 0 => g[i - 1] = f[i - 1]
    <3> TAKE i \in 0 .. m
    <3> HAVE i # 0
    <3>1. i - 1 \in 0 .. m - 1
      BY <2>1
    <3> HIDE DEF g
    <3> QED
      BY <2>3, <3>1
  <2>5. g = [i \in 0 .. m |-> IF i = 0 THEN 0 ELSE g[i - 1] + s[i].value]
    BY <2>4
  <2> HIDE DEF g
  <2>7. SumUpTo(g, s, m)
    BY <2>5 DEF SumUpTo
  <2> QED
    BY <2>7
<1> QED
  BY <1>2, <1>3

\* Two solutions agree as far as their sequences do.
LEMMA SumUnique ==
    ASSUME NEW s, NEW r, NEW n \in Nat, NEW k \in Nat, NEW f, NEW g, n <= k,
           SumUpTo(f, s, n), SumUpTo(g, r, k), \A i \in 1 .. n : s[i] = r[i]
    PROVE  \A i \in 0 .. n : f[i] = g[i]
<1> DEFINE Bad == {i \in 0 .. n : f[i] # g[i]}
<1> SUFFICES ASSUME Bad # {} PROVE FALSE
  OBVIOUS
<1>1. PICK m \in Bad : \A i \in Bad : m <= i
  <2>1. Bad \in SUBSET Nat
    OBVIOUS
  <2> HIDE DEF Bad
  <2> QED
    BY <2>1, LeastNumber
<1>2. f[0] = 0 /\ g[0] = 0
  BY DEF SumUpTo
<1>3. m - 1 \in 0 .. n /\ m - 1 \notin Bad
  BY <1>1, <1>2
<1>4. m \in 0 .. n /\ m \in 0 .. k /\ m # 0
  BY <1>1, <1>2
<1>5. f[m] = f[m - 1] + s[m].value
  BY <1>4 DEF SumUpTo
<1>6. g[m] = g[m - 1] + r[m].value
  BY <1>4 DEF SumUpTo
<1> QED
  BY <1>1, <1>3, <1>4, <1>5, <1>6

LEMMA TotalUnfolds ==
    ASSUME NEW S, NEW s \in Seq(S)
    PROVE  \E f : SumUpTo(f, s, Len(s)) /\ Total(s) = f[Len(s)]
<1> DEFINE f == CHOOSE g : SumUpTo(g, s, Len(s))
<1>1. Len(s) \in Nat
  OBVIOUS
<1>2. \E g : SumUpTo(g, s, Len(s))
  BY <1>1, SumExists
<1>3. SumUpTo(f, s, Len(s))
  BY <1>2, Zenon
<1>4. Total(s) = f[Len(s)]
  BY Zenon DEF Total, SumUpTo
<1> QED
  BY <1>3, <1>4

LEMMA TotalOfNone == Total(<<>>) = 0
<1>1. <<>> \in Seq(Int) /\ Len(<<>>) = 0
  OBVIOUS
<1>2. PICK f : SumUpTo(f, <<>>, 0) /\ Total(<<>>) = f[0]
  BY <1>1, TotalUnfolds
<1> QED
  BY <1>2 DEF SumUpTo

\* The sum grows by the value that is appended.
LEMMA TotalOfAppend ==
    ASSUME NEW S, NEW s \in Seq(S), NEW m \in S
    PROVE  Total(Append(s, m)) = Total(s) + m.value
<1> DEFINE r == Append(s, m)
           n == Len(s)
<1>1. r \in Seq(S) /\ Len(r) = n + 1 /\ n \in Nat /\ r[n + 1] = m
  OBVIOUS
<1>2. \A i \in 1 .. n : s[i] = r[i]
  OBVIOUS
<1>3. PICK f : SumUpTo(f, s, n) /\ Total(s) = f[n]
  BY TotalUnfolds
<1> HIDE DEF r, n
<1>4. PICK g : SumUpTo(g, r, n + 1) /\ Total(r) = g[n + 1]
  BY <1>1, TotalUnfolds
<1>5. f[n] = g[n]
  BY <1>1, <1>2, <1>3, <1>4, SumUnique
<1>6. g[n + 1] = g[n] + r[n + 1].value
  BY <1>1, <1>4 DEF SumUpTo
<1>7. Total(r) = Total(s) + m.value
  BY <1>1, <1>3, <1>4, <1>5, <1>6
<1> QED
  BY <1>7 DEF r

-----------------------------------------------------------------------------
(* The profile data of a sequence of matches, taken one after another.      *)

Applied(s) ==
    LET After[i \in 0 .. Len(s)] ==
            IF i = 0 THEN NoData ELSE Updated(After[i - 1], s[i].rec, s[i].value)
    IN  After[Len(s)]

AppliedUpTo(f, s, n) ==
    f = [i \in 0 .. n |-> IF i = 0 THEN NoData ELSE Updated(f[i - 1], s[i].rec, s[i].value)]

\* The recursion of Applied has a solution for every sequence.
LEMMA AppliedExists ==
    ASSUME NEW s
    PROVE  \A n \in Nat : \E f : AppliedUpTo(f, s, n)
<1> DEFINE Bad == {n \in Nat : ~ \E f : AppliedUpTo(f, s, n)}
<1> SUFFICES ASSUME Bad # {} PROVE FALSE
  OBVIOUS
<1>1. PICK m \in Bad : \A n \in Bad : m <= n
  BY LeastNumber
<1>2. CASE m = 0
  <2> DEFINE f == [i \in 0 .. 0 |-> NoData]
  <2>1. AppliedUpTo(f, s, 0)
    BY DEF AppliedUpTo
  <2> QED
    BY <2>1, <1>2
<1>3. CASE m # 0
  <2>1. m - 1 \in Nat /\ m - 1 \notin Bad
    BY <1>1, <1>3
  <2>2. PICK f : AppliedUpTo(f, s, m - 1)
    BY <2>1
  <2> DEFINE g == [i \in 0 .. m |->
                     IF i = 0 THEN NoData ELSE Updated(f[i - 1], s[i].rec, s[i].value)]
  <2>3. \A i \in 0 .. m - 1 : g[i] = f[i]
    BY <2>2, <2>1 DEF AppliedUpTo
  <2>4. \A i \in 0 .. m : i # 0 => g[i - 1] = f[i - 1]
    <3> TAKE i \in 0 .. m
    <3> HAVE i # 0
    <3>1. i - 1 \in 0 .. m - 1
      BY <2>1
    <3> HIDE DEF g
    <3> QED
      BY <2>3, <3>1
  <2>5. g = [i \in 0 .. m |->
               IF i = 0 THEN NoData ELSE Updated(g[i - 1], s[i].rec, s[i].value)]
    BY <2>4
  <2> HIDE DEF g
  <2>6. AppliedUpTo(g, s, m)
    BY <2>5 DEF AppliedUpTo
  <2> QED
    BY <2>6
<1> QED
  BY <1>2, <1>3

\* Two solutions agree as far as their sequences do.
LEMMA AppliedUnique ==
    ASSUME NEW s, NEW r, NEW n \in Nat, NEW k \in Nat, NEW f, NEW g, n <= k,
           AppliedUpTo(f, s, n), AppliedUpTo(g, r, k), \A i \in 1 .. n : s[i] = r[i]
    PROVE  \A i \in 0 .. n : f[i] = g[i]
<1> DEFINE Bad == {i \in 0 .. n : f[i] # g[i]}
<1> SUFFICES ASSUME Bad # {} PROVE FALSE
  OBVIOUS
<1>1. PICK m \in Bad : \A i \in Bad : m <= i
  <2>1. Bad \in SUBSET Nat
    OBVIOUS
  <2> HIDE DEF Bad
  <2> QED
    BY <2>1, LeastNumber
<1>2. f[0] = NoData /\ g[0] = NoData
  BY DEF AppliedUpTo
<1>3. m - 1 \in 0 .. n /\ m - 1 \notin Bad
  BY <1>1, <1>2
<1>4. m \in 0 .. n /\ m \in 0 .. k /\ m # 0
  BY <1>1, <1>2
<1>5. f[m] = Updated(f[m - 1], s[m].rec, s[m].value)
  BY <1>4 DEF AppliedUpTo
<1>6. g[m] = Updated(g[m - 1], r[m].rec, r[m].value)
  BY <1>4 DEF AppliedUpTo
<1> QED
  BY <1>1, <1>3, <1>4, <1>5, <1>6

LEMMA AppliedUnfolds ==
    ASSUME NEW S, NEW s \in Seq(S)
    PROVE  \E f : AppliedUpTo(f, s, Len(s)) /\ Applied(s) = f[Len(s)]
<1> DEFINE f == CHOOSE g : AppliedUpTo(g, s, Len(s))
<1>1. Len(s) \in Nat
  OBVIOUS
<1>2. \E g : AppliedUpTo(g, s, Len(s))
  BY <1>1, AppliedExists
<1>3. AppliedUpTo(f, s, Len(s))
  BY <1>2, Zenon
<1>4. Applied(s) = f[Len(s)]
  BY Zenon DEF Applied, AppliedUpTo
<1> QED
  BY <1>3, <1>4

LEMMA AppliedToNone == Applied(<<>>) = NoData
<1>1. <<>> \in Seq(Int) /\ Len(<<>>) = 0
  OBVIOUS
<1>2. PICK f : AppliedUpTo(f, <<>>, 0) /\ Applied(<<>>) = f[0]
  BY <1>1, AppliedUnfolds
<1> QED
  BY <1>2 DEF AppliedUpTo

\* One more match is one more update.
LEMMA AppliedToAppend ==
    ASSUME NEW S, NEW s \in Seq(S), NEW m \in S
    PROVE  Applied(Append(s, m)) = Updated(Applied(s), m.rec, m.value)
<1> DEFINE r == Append(s, m)
           n == Len(s)
<1>1. r \in Seq(S) /\ Len(r) = n + 1 /\ n \in Nat /\ r[n + 1] = m
  OBVIOUS
<1>2. \A i \in 1 .. n : s[i] = r[i]
  OBVIOUS
<1>3. PICK f : AppliedUpTo(f, s, n) /\ Applied(s) = f[n]
  BY AppliedUnfolds
<1> HIDE DEF r, n
<1>4. PICK g : AppliedUpTo(g, r, n + 1) /\ Applied(r) = g[n + 1]
  BY <1>1, AppliedUnfolds
<1>5. f[n] = g[n]
  BY <1>1, <1>2, <1>3, <1>4, AppliedUnique
<1>6. g[n + 1] = Updated(g[n], r[n + 1].rec, r[n + 1].value)
  BY <1>1, <1>4 DEF AppliedUpTo
<1>7. Applied(r) = Updated(Applied(s), m.rec, m.value)
  BY <1>1, <1>3, <1>4, <1>5, <1>6
<1> QED
  BY <1>7 DEF r

\* Where all values are the same, their sum is a multiple of any of them, and an
\* empty entry has the bounds it began with: what Updated relies on.
Consistent(d) ==
    /\ d \in Data
    /\ d.count = 0 => d.min = Infinity /\ d.max = -Infinity /\ d.sum = 0
    /\ ~ d.spread => d.sum = d.count * d.min

All(s) == {s[i].value : i \in DOMAIN s}

LEMMA AllOfAppend ==
    ASSUME NEW s \in Seq(Records), NEW m \in Records
    PROVE  /\ All(Append(s, m)) = All(s) \cup {m.value}
           /\ All(s) \subseteq Values
           /\ All(s) = {} <=> Len(s) = 0
<1> DEFINE r == Append(s, m)
           n == Len(s)
<1>1. /\ n \in Nat /\ DOMAIN s = 1 .. n /\ DOMAIN r = 1 .. n + 1
      /\ r[n + 1] = m /\ \A i \in 1 .. n : r[i] = s[i] /\ s[i] \in Records
  OBVIOUS
<1> HIDE DEF r, n
<1>2. All(r) \subseteq All(s) \cup {m.value}
  <2> SUFFICES ASSUME NEW i \in 1 .. n + 1 PROVE r[i].value \in All(s) \cup {m.value}
    BY <1>1 DEF All
  <2>1. CASE i = n + 1
    BY <2>1, <1>1
  <2>2. CASE i \in 1 .. n
    BY <2>2, <1>1 DEF All
  <2> QED
    BY <2>1, <2>2, <1>1
<1>3. All(s) \subseteq All(r)
  <2> SUFFICES ASSUME NEW i \in 1 .. n PROVE s[i].value \in All(r)
    BY <1>1 DEF All
  <2> i \in DOMAIN r /\ r[i].value = s[i].value
    BY <1>1
  <2> QED
    BY DEF All
<1>4. m.value \in All(r)
  BY <1>1 DEF All
<1>5. All(s) \subseteq Values
  BY <1>1 DEF All, Records
<1>6. All(s) = {} <=> n = 0
  <2>1. n # 0 => s[1].value \in All(s)
    BY <1>1 DEF All
  <2>2. n = 0 => All(s) = {}
    BY <1>1 DEF All
  <2> QED
    BY <2>1, <2>2
<1> QED
  BY <1>2, <1>3, <1>4, <1>5, <1>6 DEF r, n

\* One update more summarizes one match more.
LEMMA SummaryOfUpdate ==
    ASSUME NEW s \in Seq(Records), NEW m \in Records, NEW d,
           Consistent(d), Summarizes(d, s)
    PROVE  LET new == Updated(d, m.rec, m.value)
           IN  Consistent(new) /\ Summarizes(new, Append(s, m))
<1> DEFINE r == Append(s, m)
           n == Len(s)
           v == m.value
           new == Updated(d, m.rec, v)
<1>1. n \in Nat /\ Len(r) = n + 1 /\ v \in Values /\ v \in Int /\ Infinity \in Int
  BY InfinityAssumption DEF Records, Values
<1>2. All(r) = All(s) \cup {v} /\ All(s) \subseteq Values /\ (All(s) = {} <=> n = 0)
  BY AllOfAppend
<1>3. Total(r) = Total(s) + v
  BY TotalOfAppend
<1>4. d \in Data /\ d.count = n /\ d.sum = Total(s)
  BY DEF Consistent, Summarizes
<1>5. /\ \A w \in All(s) : d.min <= w /\ w <= d.max
      /\ All(s) # {} => d.min \in All(s) /\ d.max \in All(s)
      /\ d.spread <=> \E x, w \in All(s) : x # w \/ Infinite(w)
  BY DEF Summarizes, All
<1>6. d.count = 0 => d.min = Infinity /\ d.max = -Infinity /\ d.sum = 0
  BY DEF Consistent
<1>7. ~ d.spread => d.sum = d.count * d.min
  BY DEF Consistent
<1>8. /\ new \in Data /\ new.count = n + 1 /\ new.sum = Total(r)
  BY <1>1, <1>3, <1>4 DEF Updated, Data, Larger, Smaller
<1>9. \A w \in All(r) : new.min <= w /\ w <= new.max
  <2>1. new.min = Smaller(d.min, v) /\ new.max = Larger(d.max, v)
    BY DEF Updated
  <2> QED
    BY <2>1, <1>1, <1>2, <1>4, <1>5 DEF Data, Larger, Smaller, Values
<1>10. new.min \in All(r) /\ new.max \in All(r)
  <2>1. new.min = Smaller(d.min, v) /\ new.max = Larger(d.max, v)
    BY DEF Updated
  <2>2. CASE n = 0
    BY <2>1, <2>2, <1>1, <1>2, <1>4, <1>6 DEF Larger, Smaller, Values
  <2>3. CASE n # 0
    BY <2>1, <2>3, <1>2, <1>5 DEF Larger, Smaller
  <2> QED
    BY <2>2, <2>3
<1>11. new.spread <=> \E x, w \in All(r) : x # w \/ Infinite(w)
  <2>1. new.spread <=> d.spread \/ Infinite(v) \/ (d.count > 0 /\ v * d.count # d.sum)
    BY DEF Updated
  <2>2. CASE d.spread \/ Infinite(v)
    BY <2>1, <2>2, <1>2, <1>5
  <2>3. CASE ~ d.spread /\ ~ Infinite(v) /\ n = 0
    BY <2>1, <2>3, <1>2, <1>4
  <2>4. CASE ~ d.spread /\ ~ Infinite(v) /\ n # 0
    <3>1. d.min \in All(s) /\ d.min \in Int /\ \A x \in All(s) : x = d.min /\ ~ Infinite(x)
      BY <2>4, <1>2, <1>4, <1>5 DEF Data
    <3>2. d.sum = n * d.min
      BY <2>4, <1>4, <1>7
    <3>3. v * n = n * d.min <=> v = d.min
      BY <3>1, <1>1, <2>4
    <3>4. new.spread <=> v # d.min
      <4>1. d.count = n /\ n > 0
        BY <2>4, <1>1, <1>4
      <4>2. new.spread <=> v * n # n * d.min
        BY <2>1, <2>4, <3>2, <4>1
      <4> QED
        BY <3>3, <4>2
    <3> QED
      BY <3>1, <3>4, <2>4, <1>2
  <2> QED
    BY <2>2, <2>3, <2>4
<1>12. Consistent(new)
  <2>1. new.count # 0
    BY <1>8, <1>1
  <2>2. ASSUME ~ new.spread PROVE new.sum = new.count * new.min
    <3>1. \A w \in All(r) : w = v
      BY <2>2, <1>11, <1>2
    <3>2. new.min = v
      BY <3>1, <1>10
    <3>3. ~ d.spread
      BY <2>2 DEF Updated
    <3>4. d.sum = n * v
      <4>1. CASE n = 0
        BY <4>1, <1>1, <1>4, <1>6
      <4>2. CASE n # 0
        BY <4>2, <3>1, <3>3, <1>2, <1>4, <1>5, <1>7
      <4> QED
        BY <4>1, <4>2
    <3>5. new.sum = n * v + v
      BY <3>4, <1>3, <1>4, <1>8
    <3> QED
      BY <3>2, <3>5, <1>1, <1>8
  <2> QED
    BY <2>1, <2>2, <1>8 DEF Consistent
<1>13. new.overflow <=>
         \E i \in DOMAIN r : /\ r[i].rec \in {"PYTH_TO_HYPOT", "HYPOT_TO_PYTH"}
                             /\ Infinite(r[i].value)
  <2> DEFINE Bad(x) == x.rec \in {"PYTH_TO_HYPOT", "HYPOT_TO_PYTH"} /\ Infinite(x.value)
  <2>1. new.overflow <=> d.overflow \/ Bad(m)
    BY DEF Updated
  <2>2. d.overflow <=> \E i \in DOMAIN s : Bad(s[i])
    BY DEF Summarizes
  <2>3. /\ DOMAIN s = 1 .. n /\ DOMAIN r = 1 .. n + 1
        /\ r[n + 1] = m /\ \A i \in 1 .. n : r[i] = s[i]
    OBVIOUS
  <2> HIDE DEF Bad
  <2>4. (\E i \in DOMAIN r : Bad(r[i])) <=> (\E i \in DOMAIN s : Bad(s[i])) \/ Bad(m)
    BY <2>3, <1>1
  <2>5. new.overflow <=> \E i \in DOMAIN r : Bad(r[i])
    BY <2>1, <2>2, <2>4
  <2> QED
    BY <2>5 DEF Bad
<1> HIDE DEF new, r
<1>14. Summarizes(new, r)
  BY <1>1, <1>8, <1>9, <1>10, <1>11, <1>13 DEF Summarizes, All
<1> QED
  BY <1>12, <1>14 DEF new, r

\* Whatever the matches, in whatever order: their data summarize them.
THEOREM AppliedSummarizes ==
    ASSUME NEW s \in Seq(Records)
    PROVE  Consistent(Applied(s)) /\ Summarizes(Applied(s), s)
<1> DEFINE Right(r) == Consistent(Applied(r)) /\ Summarizes(Applied(r), r)
           Bad == {n \in Nat : \E r \in Seq(Records) : Len(r) = n /\ ~ Right(r)}
<1> SUFFICES ASSUME Bad # {} PROVE FALSE
  BY DEF Right
<1>1. PICK n \in Bad : \A k \in Bad : n <= k
  BY LeastNumber
<1>2. PICK r \in Seq(Records) : Len(r) = n /\ ~ Right(r)
  OBVIOUS
<1>3. CASE r = <<>>
  <2>1. Applied(<<>>) = NoData
    BY AppliedToNone
  <2>2. Consistent(NoData)
    BY InfinityAssumption DEF Consistent, NoData, Data
  <2>3. All(<<>>) = {}
    BY DEF All
  <2>4. Summarizes(NoData, <<>>)
    BY <2>3, TotalOfNone DEF Summarizes, NoData, All
  <2> QED
    BY <1>2, <1>3, <2>1, <2>2, <2>4
<1>4. CASE r # <<>>
  <2>1. PICK q \in Seq(Records), m \in Records : r = Append(q, m)
    BY <1>4, SequenceEmptyOrAppend
  <2>2. Len(q) \in Nat /\ Len(q) < n
    BY <1>2, <2>1
  <2>3. Right(q)
    <3>1. Len(q) \notin Bad
      BY <1>1, <2>2
    <3> QED
      BY <2>2, <3>1
  <2>4. Applied(r) = Updated(Applied(q), m.rec, m.value)
    BY <2>1, AppliedToAppend
  <2> QED
    BY <1>2, <2>1, <2>3, <2>4, SummaryOfUpdate
<1> QED
  BY <1>3, <1>4

-----------------------------------------------------------------------------
(* Type correctness, and who holds the locks.                              *)

\* What the types of TypeOK rest on: a thread on its way to an entry handles a
\* recommendation that has one, the holder of a lock is writing to the entry it
\* belongs to, and the hook goes through lines of the map it has locked.
Holding ==
    /\ \A t \in Threads :
          /\ pc[t] = "direct" => job[t].rec \in DirectMatch
          /\ pc[t] \in {"put", "get", "track", "write"} => job[t].rec \in Profiled
    /\ \A e \in Entries :
          lock[e] # None => pc[lock[e]] = "write" /\ entry[lock[e]] = e
    /\ hook \in {"finish", "judge"} => rest \subseteq profile

TypeInv == TypeOK /\ Holding

LEMMA TypeInit == Init => TypeInv
<1> SUFFICES ASSUME Init PROVE TypeInv
  OBVIOUS
<1> QED
  BY ProfilerAssumption, NoneAssumption, InfinityAssumption
  DEF Init, TypeInv, TypeOK, Holding, NoData, Data, NoJob, NoEntry, Entries, NotJudged, None,
      cleared, Fields

\* A field may be overwritten by the same field of other data.
LEMMA FieldType ==
    ASSUME NEW d \in Data, NEW c \in Data, NEW f \in Fields
    PROVE  [d EXCEPT ![f] = c[f]] \in Data
  BY DEF Data, Fields

\* A step of the hook that leaves the rest alone has only its own state to type.
LEMMA HookTypes ==
    ASSUME TypeOK, UNCHANGED <<threadVars, mapVars, dataVars, cleared>>,
           hook' \in {"off", "direct", "profile", "finish", "judge", "clearDirect",
                     "clearProfile", "done", "halted"},
           rest' \subseteq Lines, hook' = "judge" => rest' # {},
           finished' \in [small : BOOLEAN, updates : Nat, free : BOOLEAN],
           reports' \subseteq [line : Lines, rec : DirectMatch],
           judged' \in [Lines -> [made : BOOLEAN, reported : BOOLEAN, rec : Profiled \cup {None},
                                 done : Seq(Records), begun : Seq(Records), quiet : BOOLEAN]],
           owed' \in [direct : SUBSET Lines, profiled : SUBSET Lines]
    PROVE  TypeOK'
<1>1. UNCHANGED <<pc, job, entry, computed, unwritten, matches, data, lock, values,
                  recommendation, directMatches, profile, cleared>>
  BY DEF threadVars, mapVars, dataVars
<1> HIDE DEF cleared
<1> QED
  BY <1>1 DEF TypeOK

LEMMA TypeNext == TypeInv /\ [Next]_vars => TypeInv'
<1> SUFFICES ASSUME TypeInv, [Next]_vars PROVE TypeInv'
  OBVIOUS
<1> USE ProfilerAssumption, NoneAssumption
<1>1. ASSUME NEW t \in Threads, Handle(t), UNCHANGED hookVars PROVE TypeInv'
  <2>1. PICK l \in Lines, h \in Handled :
            /\ job' = [job EXCEPT ![t] = [line |-> l, rec |-> h.rec, value |-> h.value]]
            /\ Goto(t, IF h.rec \in DirectMatch THEN "direct" ELSE "put")
    BY <1>1 DEF Handle
  <2>2. [line |-> l, rec |-> h.rec, value |-> h.value] \in Jobs
    BY DEF Jobs
  <2>3. h.rec \in DirectMatch \/ h.rec \in Profiled
    BY DEF Profiled
  <2>4. matches' \in 0 .. MaxMatches
    BY <1>1 DEF Handle, TypeInv, TypeOK
  <2>5. UNCHANGED <<entry, computed, unwritten, mapVars, dataVars, hookVars>> /\ pc[t] = "idle"
    BY <1>1 DEF Handle
  <2> QED
    BY <2>1, <2>2, <2>3, <2>4, <2>5 DEF TypeInv, TypeOK, Holding, Goto, cleared, profileFree,
       threadVars, mapVars, dataVars, hookVars
<1>2. ASSUME NEW t \in Threads, Dies(t), UNCHANGED hookVars PROVE TypeInv'
  BY <1>2 DEF Dies, TypeInv, TypeOK, Holding, Goto, cleared, profileFree, Entries, None,
     mapVars, dataVars, hookVars
<1>3. ASSUME NEW t \in Threads, PutDirect(t), UNCHANGED hookVars PROVE TypeInv'
  BY <1>3 DEF PutDirect, TypeInv, TypeOK, Holding, Goto, cleared, Entries, None, dataVars,
     hookVars
<1>4. ASSUME NEW t \in Threads, Put(t), UNCHANGED hookVars PROVE TypeInv'
  <2>1. job[t] \in Jobs /\ job[t].line \in Lines \ Nameless /\ job[t].rec \in Profiled
    BY <1>4 DEF Put, TypeInv, TypeOK, Holding, Jobs
  <2>2. None \notin Profiled
    BY DEF None, Profiled, Recommendations
  <2>3. hook \notin {"finish", "judge"} /\ pc[t] = "put"
    BY <1>4 DEF Put, profileFree
  <2>4. \/ UNCHANGED <<profile, recommendation>>
        \/ /\ profile' = profile \cup {job[t].line}
           /\ recommendation' =
                 [recommendation EXCEPT ![<<job[t].line, cleared>>] = job[t].rec]
    BY <1>4 DEF Put
  <2>5. /\ Goto(t, "get")
        /\ UNCHANGED <<job, entry, computed, unwritten, matches, directMatches, dataVars>>
    BY <1>4 DEF Put
  <2>6. cleared \in BOOLEAN /\ cleared' = cleared
    BY <1>4 DEF cleared, hookVars
  <2> DEFINE e == <<job[t].line, cleared>>
  <2>7. e \in Entries
    BY <2>1, <2>6 DEF Entries
  <2>8. /\ recommendation' \in [Entries -> Profiled \cup {None}]
        /\ \A d \in Entries : recommendation[d] # None => recommendation'[d] # None
        /\ \A l \in profile' : recommendation'[<<l, cleared>>] # None
    <3>1. CASE UNCHANGED <<profile, recommendation>>
      BY <3>1 DEF TypeInv, TypeOK
    <3>2. CASE /\ profile' = profile \cup {job[t].line}
               /\ recommendation' = [recommendation EXCEPT ![e] = job[t].rec]
      <4> HIDE DEF cleared
      <4>1. recommendation' \in [Entries -> Profiled \cup {None}]
        BY <3>2, <2>1 DEF TypeInv, TypeOK
      <4>2. \A d \in Entries : recommendation[d] # None => recommendation'[d] # None
        BY <3>2, <2>1, <2>2 DEF TypeInv, TypeOK
      <4>3. recommendation'[e] # None
        BY <3>2, <2>1, <2>2, <2>7 DEF TypeInv, TypeOK
      <4>4. \A l \in profile : <<l, cleared>> \in Entries /\ recommendation[<<l, cleared>>] # None
        BY <2>6 DEF TypeInv, TypeOK, Entries
      <4> QED
        BY <3>2, <4>1, <4>2, <4>3, <4>4
    <3> QED
      BY <2>4, <3>1, <3>2
  <2>9. profile' \subseteq Lines \ Nameless
    <3>1. profile' \subseteq profile \cup {job[t].line}
      BY <2>4
    <3>2. profile \subseteq Lines \ Nameless
      BY DEF TypeInv, TypeOK
    <3> QED
      BY <3>1, <3>2, <2>1
  <2> HIDE DEF cleared
  <2>10. pc'[t] = "get" /\ \A u \in Threads \ {t} : pc'[u] = pc[u]
    BY <2>5 DEF TypeInv, TypeOK, Goto
  <2>11. Holding'
    <3>1. \A u \in Threads :
             /\ pc'[u] = "direct" => job[u].rec \in DirectMatch
             /\ pc'[u] \in {"put", "get", "track", "write"} => job[u].rec \in Profiled
      BY <2>1, <2>10 DEF TypeInv, Holding
    <3>2. \A d \in Entries : lock[d] # None => pc'[lock[d]] = "write" /\ entry[lock[d]] = d
      BY <2>3, <2>10 DEF TypeInv, TypeOK, Holding
    <3>3. UNCHANGED <<job, entry, lock, hook>>
      BY <1>4, <2>5 DEF dataVars, hookVars
    <3> QED
      BY <2>3, <3>1, <3>2, <3>3 DEF Holding
  <2>12. TypeOK'
    <3>1. UNCHANGED <<job, entry, computed, unwritten, matches, directMatches, data, lock, values,
                      hook, rest, finished, reports, judged, owed>>
      BY <1>4, <2>5 DEF dataVars, hookVars
    <3>2. pc' = [pc EXCEPT ![t] = "get"]
      BY <2>5 DEF Goto
    <3>3. \A u \in Threads :
             /\ pc'[u] \notin {"idle", "dead"} => job[u] \in Jobs
             /\ pc'[u] \in {"track", "write"} =>
                   /\ entry[u] \in Entries /\ entry[u][1] = job[u].line
                   /\ recommendation'[entry[u]] # None
             /\ pc'[u] = "write" <=> \E d \in Entries : lock[d] = u
             /\ pc'[u] = "write" => lock[entry[u]] = u
      BY <2>1, <2>3, <2>8, <2>10 DEF TypeInv, TypeOK
    <3>4. pc' \in [Threads -> {"idle", "direct", "put", "get", "track", "write", "dead"}]
      BY <3>2 DEF TypeInv, TypeOK
    <3>5. hook # "judge"
      BY <2>3
    <3> QED
      BY <2>6, <2>8, <2>9, <3>1, <3>3, <3>4, <3>5, SMTT(30) DEF TypeInv, TypeOK
  <2> QED
    BY <2>11, <2>12 DEF TypeInv
<1>5. ASSUME NEW t \in Threads, Get(t), UNCHANGED hookVars PROVE TypeInv'
  <2>1. job[t] \in Jobs /\ job[t].line \in Lines /\ cleared \in BOOLEAN /\ cleared' = cleared
    <3>1. pc[t] = "get" /\ UNCHANGED hook
      BY <1>5 DEF Get, hookVars
    <3>2. job[t] \in Jobs
      BY <3>1 DEF TypeInv, TypeOK
    <3> QED
      BY <3>1, <3>2 DEF Jobs, cleared
  <2>2. CASE job[t].line \in profile
    <3> DEFINE e == <<job[t].line, cleared>>
    <3>1. e \in Entries /\ e[1] = job[t].line /\ recommendation[e] # None
      BY <2>1, <2>2 DEF TypeInv, TypeOK, Entries
    <3>2. Goto(t, "track") /\ entry' = [entry EXCEPT ![t] = e] /\ pc[t] = "get"
      BY <1>5, <2>2 DEF Get
    <3>3. UNCHANGED <<job, computed, unwritten, matches, mapVars, dataVars, hookVars>>
      BY <1>5 DEF Get
    <3> HIDE DEF e
    <3>4. Holding'
      BY <2>1, <3>2, <3>3 DEF TypeInv, TypeOK, Holding, Goto, mapVars, dataVars, hookVars
    <3>5. TypeOK'
      BY <2>1, <3>1, <3>2, <3>3 DEF TypeInv, TypeOK, Goto, mapVars, dataVars, hookVars
    <3> QED
      BY <3>4, <3>5 DEF TypeInv
  <2>3. CASE job[t].line \notin profile
    <3>1. pc' = [pc EXCEPT ![t] = "dead"] /\ pc[t] = "get"
      BY <1>5, <2>3 DEF Get, Goto
    <3>2. UNCHANGED <<entry, job, computed, unwritten, matches, directMatches, profile,
                      recommendation, data, lock, values, hook, rest, finished, reports,
                      judged, owed, cleared>>
      BY <1>5, <2>3 DEF Get, mapVars, dataVars, hookVars, cleared
    <3>3. TypeOK'
      <4> HIDE DEF cleared
      <4> QED
        BY <2>1, <3>1, <3>2 DEF TypeInv, TypeOK
    <3>4. Holding'
      BY <2>1, <3>1, <3>2 DEF TypeInv, TypeOK, Holding
    <3> QED
      BY <3>3, <3>4 DEF TypeInv
  <2> QED
    BY <2>2, <2>3
<1>6. ASSUME NEW t \in Threads, Track(t), UNCHANGED hookVars PROVE TypeInv'
  <2> DEFINE e == entry[t]
             d == Updated(data[e], job[t].rec, job[t].value)
  <2>1. job[t] \in Jobs /\ e \in Entries /\ pc[t] = "track" /\ lock[e] = None
    BY <1>6 DEF Track, TypeInv, TypeOK
  <2>2. d \in Data
    <3>1. data[e] \in Data /\ job[t].value \in Int
      BY <2>1, InfinityAssumption DEF TypeInv, TypeOK, Jobs, Values
    <3> HIDE DEF e
    <3> QED
      BY <3>1 DEF Updated, Data, Larger, Smaller
  <2>3. {f \in Fields : d[f] # data[e][f]} \in SUBSET Fields
    OBVIOUS
  <2>4. /\ lock' = [lock EXCEPT ![e] = t]
        /\ computed' = [computed EXCEPT ![t] = d]
        /\ unwritten' = [unwritten EXCEPT ![t] = {f \in Fields : d[f] # data[e][f]}]
        /\ Goto(t, "write")
        /\ UNCHANGED <<job, entry, matches, mapVars, data, values, hookVars>>
    BY <1>6 DEF Track
  <2> HIDE DEF d
  <2> QED
    BY <2>1, <2>2, <2>3, <2>4
    DEF TypeInv, TypeOK, Holding, Goto, cleared, mapVars, hookVars
<1>7. ASSUME NEW t \in Threads, Write(t), UNCHANGED hookVars PROVE TypeInv'
  <2>1. PICK f \in unwritten[t] :
            /\ data' = [data EXCEPT ![entry[t]][f] = computed[t][f]]
            /\ unwritten' = [unwritten EXCEPT ![t] = @ \ {f}]
    BY <1>7 DEF Write
  <2>2. f \in Fields /\ computed[t] \in Data /\ entry[t] \in Entries /\ data[entry[t]] \in Data
    BY <1>7 DEF Write, TypeInv, TypeOK
  <2>3. [data[entry[t]] EXCEPT ![f] = computed[t][f]] \in Data
    BY <2>2, FieldType
  <2>4. data' \in [Entries -> Data]
    BY <2>1, <2>2, <2>3 DEF TypeInv, TypeOK
  <2>5. unwritten' \in [Threads -> SUBSET Fields]
    BY <2>1 DEF TypeInv, TypeOK
  <2>6. UNCHANGED <<pc, job, entry, computed, matches, mapVars, lock, values, hookVars>>
    BY <1>7 DEF Write
  <2> QED
    BY <2>4, <2>5, <2>6 DEF TypeInv, TypeOK, Holding, cleared, mapVars, hookVars
<1>8. ASSUME NEW t \in Threads, Release(t), UNCHANGED hookVars PROVE TypeInv'
  <2>1. pc[t] = "write" /\ entry[t] \in Entries /\ lock[entry[t]] = t
    BY <1>8 DEF Release, TypeInv, TypeOK
  <2>2. [rec |-> job[t].rec, value |-> job[t].value] \in Records
    BY <2>1 DEF TypeInv, TypeOK, Holding, Jobs, Records
  <2>3. values' \in [Entries -> Seq(Records)]
    BY <1>8, <2>1, <2>2 DEF Release, TypeInv, TypeOK
  <2>4. \A e \in Entries : lock[e] = t => e = entry[t]
    BY NoneAssumption DEF TypeInv, Holding
  <2>5. /\ lock' = [lock EXCEPT ![entry[t]] = None]
        /\ Goto(t, "idle")
        /\ UNCHANGED <<job, entry, computed, unwritten, matches, mapVars, data, hookVars>>
    BY <1>8 DEF Release
  <2>6. Holding'
    BY <2>1, <2>4, <2>5 DEF TypeInv, TypeOK, Holding, Goto, cleared, mapVars, hookVars
  <2>7. TypeOK'
    <3>1. UNCHANGED <<job, entry, computed, unwritten, matches, directMatches, profile,
                      recommendation, data, hook, rest, finished, reports, judged, owed, cleared>>
      BY <1>8, <2>5 DEF mapVars, hookVars, cleared
    <3>2. /\ pc' = [pc EXCEPT ![t] = "idle"] /\ lock' = [lock EXCEPT ![entry[t]] = None]
          /\ lock' \in [Entries -> Threads \cup {None}]
      BY <2>1, <2>5 DEF Goto, TypeInv, TypeOK
    <3>3. \A e \in Entries : lock'[e] # t
      BY <2>1, <2>4, <3>2 DEF TypeInv, TypeOK
    <3>4. \A u \in Threads \ {t} : /\ pc'[u] = pc[u]
                                  /\ \A e \in Entries : lock'[e] = u <=> lock[e] = u
      BY <2>1, <3>2 DEF TypeInv, TypeOK
    <3>5. pc'[t] = "idle"
      BY <3>2 DEF TypeInv, TypeOK
    <3>6. \A u \in Threads :
             /\ pc'[u] \notin {"idle", "dead"} => job[u] \in Jobs
             /\ pc'[u] \in {"track", "write"} =>
                   /\ entry[u] \in Entries /\ entry[u][1] = job[u].line
                   /\ recommendation[entry[u]] # None
             /\ pc'[u] = "write" <=> \E e \in Entries : lock'[e] = u
             /\ pc'[u] = "write" => lock'[entry[u]] = u
      BY <3>3, <3>4, <3>5 DEF TypeInv, TypeOK
    <3>7. pc' \in [Threads -> {"idle", "direct", "put", "get", "track", "write", "dead"}]
      BY <3>2 DEF TypeInv, TypeOK
    <3> QED
      BY <2>3, <3>1, <3>2, <3>6, <3>7, SMTT(30) DEF TypeInv, TypeOK
  <2> QED
    BY <2>6, <2>7 DEF TypeInv
<1>9. ASSUME Shutdown, UNCHANGED <<threadVars, dataVars, recommendation>> PROVE TypeInv'
  BY <1>9 DEF Shutdown, TypeInv, TypeOK, Holding, cleared, Entries, None, threadVars, dataVars
<1>10. ASSUME ReportDirect, UNCHANGED <<threadVars, dataVars, recommendation>> PROVE TypeInv'
  BY <1>10 DEF ReportDirect, TypeInv, TypeOK, Holding, cleared, Entries, None, threadVars,
     dataVars
<1>11. ASSUME LockProfile, UNCHANGED <<threadVars, dataVars, recommendation>> PROVE TypeInv'
  BY <1>11 DEF LockProfile, TypeInv, TypeOK, Holding, cleared, Entries, None, threadVars,
     dataVars
<1>12. ASSUME Finish, UNCHANGED <<threadVars, dataVars, recommendation>> PROVE TypeInv'
  <2>1. PICK l \in rest :
            finished' = [small |-> Finished(data[<<l, FALSE>>]),
                         updates |-> Len(values[<<l, FALSE>>]),
                         free |-> lock[<<l, FALSE>>] = None]
    BY <1>12 DEF Finish
  <2>2. <<l, FALSE>> \in Entries
    BY DEF TypeInv, TypeOK, Entries
  <2>3. Len(values[<<l, FALSE>>]) \in Nat
    BY <2>2 DEF TypeInv, TypeOK
  <2>4. Finished(data[<<l, FALSE>>]) \in BOOLEAN
    BY DEF Finished
  <2>5. finished' \in [small : BOOLEAN, updates : Nat, free : BOOLEAN]
    BY <2>1, <2>3, <2>4
  <2>6. /\ hook = "finish" /\ rest # {} /\ hook' = "judge"
        /\ UNCHANGED <<directMatches, profile, rest, reports, judged, owed>>
    BY <1>12 DEF Finish
  <2>7. Holding'
    BY <1>12, <2>6 DEF TypeInv, Holding, threadVars, dataVars
  <2>8. TypeOK'
    <3>1. UNCHANGED <<mapVars, cleared>>
      BY <1>12, <2>6 DEF mapVars, cleared
    <3>2. /\ rest \subseteq Lines /\ reports \subseteq [line : Lines, rec : DirectMatch]
          /\ judged \in [Lines -> [made : BOOLEAN, reported : BOOLEAN,
                                   rec : Profiled \cup {None}, done : Seq(Records),
                                   begun : Seq(Records), quiet : BOOLEAN]]
          /\ owed \in [direct : SUBSET Lines, profiled : SUBSET Lines]
      BY DEF TypeInv, TypeOK
    <3> QED
      BY <1>12, <2>5, <2>6, <3>1, <3>2, HookTypes DEF TypeInv
  <2> QED
    BY <2>7, <2>8 DEF TypeInv
<1>13. ASSUME Judge, UNCHANGED <<threadVars, dataVars, recommendation>> PROVE TypeInv'
  <2>1. PICK l \in rest :
            LET e == <<l, FALSE>>
            IN  /\ judged' = [judged EXCEPT ![l] =
                     [made     |-> TRUE,
                      reported |-> isRelevant(recommendation[e], data[e], finished.small),
                      rec      |-> recommendation[e],
                      done     |-> values[e],
                      begun    |-> Begun(e),
                      quiet    |-> /\ finished.free /\ lock[e] = None
                                   /\ finished.updates = Len(values[e])]]
                /\ rest' = rest \ {l}
    BY <1>13 DEF Judge
  <2> DEFINE e == <<l, FALSE>>
  <2>2. e \in Entries /\ l \in Lines
    BY DEF TypeInv, TypeOK, Entries
  <2>3. values[e] \in Seq(Records) /\ recommendation[e] \in Profiled \cup {None}
    BY <2>2 DEF TypeInv, TypeOK
  <2>4. Begun(e) \in Seq(Records)
    <3>1. CASE lock[e] = None
      BY <3>1, <2>3 DEF Begun
    <3>2. CASE lock[e] # None
      <4> DEFINE u == lock[e]
      <4>1. u \in Threads /\ pc[u] = "write"
        BY <3>2, <2>2 DEF TypeInv, TypeOK, Holding
      <4>2. job[u] \in Jobs /\ job[u].rec \in Profiled
        BY <4>1 DEF TypeInv, TypeOK, Holding
      <4>3. [rec |-> job[u].rec, value |-> job[u].value] \in Records
        BY <4>2 DEF Jobs, Records
      <4> QED
        BY <3>2, <2>3, <4>3 DEF Begun
    <3> QED
      BY <3>1, <3>2
  <2>5. isRelevant(recommendation[e], data[e], finished.small) \in BOOLEAN
    BY DEF isRelevant
  <2>6. judged' \in [Lines -> [made : BOOLEAN, reported : BOOLEAN, rec : Profiled \cup {None},
                               done : Seq(Records), begun : Seq(Records), quiet : BOOLEAN]]
    <3> HIDE DEF e
    <3> DEFINE j == [made     |-> TRUE,
                     reported |-> isRelevant(recommendation[e], data[e], finished.small),
                     rec      |-> recommendation[e],
                     done     |-> values[e],
                     begun    |-> Begun(e),
                     quiet    |-> /\ finished.free /\ lock[e] = None
                                  /\ finished.updates = Len(values[e])]
    <3>1. j \in [made : BOOLEAN, reported : BOOLEAN, rec : Profiled \cup {None},
                 done : Seq(Records), begun : Seq(Records), quiet : BOOLEAN]
      BY <2>3, <2>4, <2>5
    <3>2. judged' = [judged EXCEPT ![l] = j]
      BY <2>1 DEF e
    <3> HIDE DEF j
    <3> QED
      BY <3>1, <3>2, <2>2 DEF TypeInv, TypeOK
  <2> HIDE DEF e
  <2>7. rest' \subseteq rest
    BY <2>1
  <2>8. /\ hook = "judge" /\ hook' = "finish"
        /\ UNCHANGED <<directMatches, profile, finished, reports, owed>>
    BY <1>13 DEF Judge
  <2>9. Holding'
    BY <1>13, <2>7, <2>8 DEF TypeInv, Holding, threadVars, dataVars
  <2>10. TypeOK'
    <3>1. UNCHANGED <<mapVars, cleared>>
      BY <1>13, <2>8 DEF mapVars, cleared
    <3>2. /\ rest \subseteq Lines /\ reports \subseteq [line : Lines, rec : DirectMatch]
          /\ finished \in [small : BOOLEAN, updates : Nat, free : BOOLEAN]
          /\ owed \in [direct : SUBSET Lines, profiled : SUBSET Lines]
      BY DEF TypeInv, TypeOK
    <3> QED
      BY <1>13, <2>6, <2>7, <2>8, <3>1, <3>2, HookTypes DEF TypeInv
  <2> QED
    BY <2>9, <2>10 DEF TypeInv
<1>14. ASSUME UnlockProfile, UNCHANGED <<threadVars, dataVars, recommendation>> PROVE TypeInv'
  BY <1>14 DEF UnlockProfile, TypeInv, TypeOK, Holding, cleared, Entries, None, threadVars, dataVars
<1>15. ASSUME ClearDirect, UNCHANGED <<threadVars, dataVars, recommendation>> PROVE TypeInv'
  BY <1>15 DEF ClearDirect, TypeInv, TypeOK, Holding, cleared, Entries, None, threadVars, dataVars
<1>16. ASSUME ClearProfile, UNCHANGED <<threadVars, dataVars, recommendation>> PROVE TypeInv'
  BY <1>16 DEF ClearProfile, TypeInv, TypeOK, Holding, cleared, Entries, None, threadVars, dataVars
<1>17. ASSUME Halt, UNCHANGED <<threadVars, dataVars, recommendation>> PROVE TypeInv'
  BY <1>17 DEF Halt, TypeInv, TypeOK, Holding, cleared, Entries, None, threadVars, dataVars
<1>18. CASE UNCHANGED vars
  BY <1>18 DEF TypeInv, TypeOK, Holding, cleared, profileFree,
     threadVars, mapVars, dataVars, hookVars, vars
<1> QED
  BY <1>1, <1>2, <1>3, <1>4, <1>5, <1>6, <1>7, <1>8, <1>9, <1>10,
     <1>11, <1>12, <1>13, <1>14, <1>15, <1>16, <1>17, <1>18
  DEF Next, Step, onShutdown, Halted

\* In every reachable state the fields of the profiler and of the threads have their
\* types, a lock is held by the thread that writes to its entry, and every line of the
\* map has an entry with a recommendation, for any number of threads and lines.
THEOREM ProfilerTypeCorrect == Spec => []TypeOK
<1>1. TypeInv => TypeOK
  BY DEF TypeInv
<1> QED
  BY <1>1, TypeInit, TypeNext, PTL DEF Spec

-----------------------------------------------------------------------------
(* No update is lost.                                                      *)

\* Between updates the data of an entry are those of its matches, taken one after
\* another; in an update every field still has its value from before or has it from
\* after, the matches in hand included.
DataInv ==
    \A e \in Entries :
        /\ lock[e] = None => data[e] = Applied(values[e])
        /\ lock[e] # None =>
              /\ computed[lock[e]] = Applied(Begun(e))
              /\ \A f \in Fields :
                    data[e][f] = IF f \in unwritten[lock[e]] THEN Applied(values[e])[f]
                                 ELSE computed[lock[e]][f]

\* A thread that goes for its entry finds one, unless the maps have been cleared.
ThreadInv ==
    /\ ThreadsSurvive
    /\ \A t \in Threads : pc[t] = "get" => cleared \/ job[t].line \in profile

\* What the hook owes is in a map it has still to go through, or dealt with.
HookInv ==
    /\ hook = "direct" => \A l \in owed.direct : directMatches[l] # None
    /\ hook \notin {"off", "direct"} => \A l \in owed.direct : \E r \in reports : r.line = l
    /\ hook \in {"direct", "profile"} => owed.profiled \subseteq profile
    /\ hook \in {"finish", "judge"} => \A l \in owed.profiled : l \in rest \/ judged[l].made
    /\ hook \in {"clearDirect", "clearProfile", "done", "halted"} =>
          \A l \in owed.profiled : judged[l].made

\* What finish found of the entry in hand is true of its matches, until another update
\* ends; and all judgements are right in both ways.
JudgeInv ==
    /\ hook = "judge" => \A l \in rest : Foremost(l) =>
          LET recorded == values[<<l, FALSE>>]
          IN  /\ finished.updates <= Len(recorded)
              /\ finished.free /\ finished.updates = Len(recorded) =>
                    (finished.small <=> Finished(Applied(recorded)))
    /\ \A l \in Lines : judged[l].made =>
          /\ ReportJustified(judged[l])
          /\ ReportDue(judged[l]) => judged[l].reported

LEMMA ThreadNext == TypeInv /\ ThreadInv /\ [Next]_vars => ThreadInv'
<1> SUFFICES ASSUME TypeInv, ThreadInv, [Next]_vars PROVE ThreadInv'
  OBVIOUS
<1>1. ASSUME NEW t \in Threads, Handle(t), UNCHANGED hookVars PROVE ThreadInv'
  BY <1>1 DEF Handle, ThreadInv, ThreadsSurvive, TypeInv, TypeOK, Goto, cleared, mapVars,
     dataVars, hookVars
<1>2. ASSUME NEW t \in Threads, Dies(t), UNCHANGED hookVars PROVE ThreadInv'
  BY <1>2 DEF Dies, ThreadInv, ThreadsSurvive, TypeInv, TypeOK, Goto, cleared, mapVars,
     dataVars, hookVars
<1>3. ASSUME NEW t \in Threads, PutDirect(t), UNCHANGED hookVars PROVE ThreadInv'
  BY <1>3 DEF PutDirect, ThreadInv, ThreadsSurvive, TypeInv, TypeOK, Goto, cleared, dataVars,
     hookVars
<1>4. ASSUME NEW t \in Threads, Put(t), UNCHANGED hookVars PROVE ThreadInv'
  BY <1>4 DEF Put, ThreadInv, ThreadsSurvive, TypeInv, TypeOK, Goto, cleared, dataVars, hookVars
<1>5. ASSUME NEW t \in Threads, Get(t), UNCHANGED hookVars PROVE ThreadInv'
  BY <1>5 DEF Get, ThreadInv, ThreadsSurvive, TypeInv, TypeOK, Goto, cleared, mapVars, dataVars,
     hookVars
<1>6. ASSUME NEW t \in Threads, Track(t), UNCHANGED hookVars PROVE ThreadInv'
  BY <1>6 DEF Track, ThreadInv, ThreadsSurvive, TypeInv, TypeOK, Goto, cleared, mapVars,
     hookVars
<1>7. ASSUME NEW t \in Threads, Write(t), UNCHANGED hookVars PROVE ThreadInv'
  BY <1>7 DEF Write, ThreadInv, ThreadsSurvive, TypeInv, TypeOK, cleared, mapVars, hookVars
<1>8. ASSUME NEW t \in Threads, Release(t), UNCHANGED hookVars PROVE ThreadInv'
  BY <1>8 DEF Release, ThreadInv, ThreadsSurvive, TypeInv, TypeOK, Goto, cleared, mapVars,
     hookVars
<1>9. ASSUME Shutdown, UNCHANGED <<threadVars, dataVars, recommendation>> PROVE ThreadInv'
  BY <1>9 DEF Shutdown, ThreadInv, ThreadsSurvive, TypeInv, TypeOK, cleared, threadVars,
     dataVars
<1>10. ASSUME ReportDirect, UNCHANGED <<threadVars, dataVars, recommendation>> PROVE ThreadInv'
  BY <1>10 DEF ReportDirect, ThreadInv, ThreadsSurvive, TypeInv, TypeOK, cleared, threadVars,
     dataVars
<1>11. ASSUME LockProfile, UNCHANGED <<threadVars, dataVars, recommendation>> PROVE ThreadInv'
  BY <1>11 DEF LockProfile, ThreadInv, ThreadsSurvive, TypeInv, TypeOK, cleared, threadVars,
     dataVars
<1>12. ASSUME Finish, UNCHANGED <<threadVars, dataVars, recommendation>> PROVE ThreadInv'
  BY <1>12 DEF Finish, ThreadInv, ThreadsSurvive, TypeInv, TypeOK, cleared, threadVars, dataVars
<1>13. ASSUME Judge, UNCHANGED <<threadVars, dataVars, recommendation>> PROVE ThreadInv'
  BY <1>13 DEF Judge, ThreadInv, ThreadsSurvive, TypeInv, TypeOK, cleared, threadVars, dataVars
<1>14. ASSUME UnlockProfile, UNCHANGED <<threadVars, dataVars, recommendation>> PROVE ThreadInv'
  BY <1>14 DEF UnlockProfile, ThreadInv, ThreadsSurvive, TypeInv, TypeOK, cleared, threadVars, dataVars
<1>15. ASSUME ClearDirect, UNCHANGED <<threadVars, dataVars, recommendation>> PROVE ThreadInv'
  BY <1>15 DEF ClearDirect, ThreadInv, ThreadsSurvive, TypeInv, TypeOK, cleared, threadVars, dataVars
<1>16. ASSUME ClearProfile, UNCHANGED <<threadVars, dataVars, recommendation>> PROVE ThreadInv'
  BY <1>16 DEF ClearProfile, ThreadInv, ThreadsSurvive, TypeInv, TypeOK, cleared, threadVars, dataVars
<1>17. ASSUME Halt, UNCHANGED <<threadVars, dataVars, recommendation>> PROVE ThreadInv'
  BY <1>17 DEF Halt, ThreadInv, ThreadsSurvive, TypeInv, TypeOK, cleared, threadVars, dataVars
<1>18. CASE UNCHANGED vars
  BY <1>18 DEF ThreadInv, ThreadsSurvive, TypeInv, TypeOK, cleared,
     threadVars, mapVars, dataVars, hookVars, vars
<1> QED
  BY <1>1, <1>2, <1>3, <1>4, <1>5, <1>6, <1>7, <1>8,
     <1>9, <1>10, <1>11, <1>12, <1>13, <1>14, <1>15, <1>16, <1>17, <1>18
     DEF Next, Step, onShutdown, Halted

LEMMA ThreadInit == Init => ThreadInv
  BY DEF Init, ThreadInv, ThreadsSurvive

\* However the threads and the hook interleave, a thread that has put its entry, or
\* seen one, finds it again as long as the maps are not cleared.
THEOREM ThreadsSurviveAlways == Spec => []ThreadsSurvive
<1>1. ThreadInv => ThreadsSurvive
  BY DEF ThreadInv
<1> QED
  BY <1>1, TypeInit, TypeNext, ThreadInit, ThreadNext, PTL DEF Spec

-----------------------------------------------------------------------------
(* What the hook goes through.                                             *)

LEMMA HookInit == Init => HookInv
  BY DEF Init, HookInv

LEMMA HookNext == TypeInv /\ HookInv /\ [Next]_vars => HookInv'
<1> SUFFICES ASSUME TypeInv, HookInv, [Next]_vars PROVE HookInv'
  OBVIOUS
<1>1. ASSUME NEW t \in Threads, Handle(t), UNCHANGED hookVars PROVE HookInv'
  BY <1>1 DEF Handle, HookInv, TypeInv, TypeOK, Holding, Goto, mapVars, dataVars, hookVars
<1>2. ASSUME NEW t \in Threads, Dies(t), UNCHANGED hookVars PROVE HookInv'
  BY <1>2 DEF Dies, HookInv, TypeInv, TypeOK, Holding, Goto, profileFree, mapVars, dataVars,
     hookVars
<1>3. ASSUME NEW t \in Threads, PutDirect(t), UNCHANGED hookVars PROVE HookInv'
  BY <1>3 DEF PutDirect, HookInv, TypeInv, TypeOK, Holding, Goto, dataVars, hookVars
<1>4. ASSUME NEW t \in Threads, Put(t), UNCHANGED hookVars PROVE HookInv'
  BY <1>4 DEF Put, HookInv, TypeInv, TypeOK, Holding, Goto, profileFree, dataVars, hookVars
<1>5. ASSUME NEW t \in Threads, Get(t), UNCHANGED hookVars PROVE HookInv'
  BY <1>5 DEF Get, HookInv, TypeInv, TypeOK, Holding, Goto, profileFree, mapVars, dataVars,
     hookVars
<1>6. ASSUME NEW t \in Threads, Track(t), UNCHANGED hookVars PROVE HookInv'
  BY <1>6 DEF Track, HookInv, TypeInv, TypeOK, Holding, Goto, mapVars, hookVars
<1>7. ASSUME NEW t \in Threads, Write(t), UNCHANGED hookVars PROVE HookInv'
  BY <1>7 DEF Write, HookInv, TypeInv, TypeOK, Holding, mapVars, hookVars
<1>8. ASSUME NEW t \in Threads, Release(t), UNCHANGED hookVars PROVE HookInv'
  BY <1>8 DEF Release, HookInv, TypeInv, TypeOK, Holding, Goto, mapVars, hookVars
<1>9. ASSUME Shutdown, UNCHANGED <<threadVars, dataVars, recommendation>> PROVE HookInv'
  BY <1>9 DEF Shutdown, HookInv, TypeInv, TypeOK, Holding, threadVars, dataVars
<1>10. ASSUME ReportDirect, UNCHANGED <<threadVars, dataVars, recommendation>> PROVE HookInv'
  <2>1. \A l \in owed.direct : l \in Lines /\ directMatches[l] # None
    BY <1>10 DEF ReportDirect, HookInv, TypeInv, TypeOK
  <2>2. \A l \in owed.direct : [line |-> l, rec |-> directMatches[l]] \in reports'
    BY <1>10, <2>1 DEF ReportDirect
  <2>3. \A l \in owed.direct : \E r \in reports' : r.line = l
    BY <2>2
  <2>4. hook = "direct" /\ hook' = "profile" /\ UNCHANGED <<profile, owed>>
    BY <1>10 DEF ReportDirect
  <2> QED
    BY <2>3, <2>4 DEF HookInv
<1>11. ASSUME LockProfile, UNCHANGED <<threadVars, dataVars, recommendation>> PROVE HookInv'
  BY <1>11 DEF LockProfile, HookInv, TypeInv, TypeOK, Holding, threadVars, dataVars
<1>12. ASSUME Finish, UNCHANGED <<threadVars, dataVars, recommendation>> PROVE HookInv'
  BY <1>12 DEF Finish, HookInv, TypeInv, TypeOK, Holding, threadVars, dataVars
<1>13. ASSUME Judge, UNCHANGED <<threadVars, dataVars, recommendation>> PROVE HookInv'
  BY <1>13 DEF Judge, HookInv, TypeInv, TypeOK, Holding, threadVars, dataVars
<1>14. ASSUME UnlockProfile, UNCHANGED <<threadVars, dataVars, recommendation>> PROVE HookInv'
  BY <1>14 DEF UnlockProfile, HookInv, TypeInv, TypeOK, Holding, threadVars, dataVars
<1>15. ASSUME ClearDirect, UNCHANGED <<threadVars, dataVars, recommendation>> PROVE HookInv'
  BY <1>15 DEF ClearDirect, HookInv, TypeInv, TypeOK, Holding, threadVars, dataVars
<1>16. ASSUME ClearProfile, UNCHANGED <<threadVars, dataVars, recommendation>> PROVE HookInv'
  BY <1>16 DEF ClearProfile, HookInv, TypeInv, TypeOK, Holding, threadVars, dataVars
<1>17. ASSUME Halt, UNCHANGED <<threadVars, dataVars, recommendation>> PROVE HookInv'
  BY <1>17 DEF Halt, HookInv, TypeInv, TypeOK, Holding, threadVars, dataVars
<1>18. CASE UNCHANGED vars
  BY <1>18 DEF HookInv, TypeInv, TypeOK, Holding,
     threadVars, mapVars, dataVars, hookVars, vars
<1> QED
  BY <1>1, <1>2, <1>3, <1>4, <1>5, <1>6, <1>7, <1>8,
     <1>9, <1>10, <1>11, <1>12, <1>13, <1>14, <1>15, <1>16, <1>17, <1>18
     DEF Next, Step, onShutdown, Halted

-----------------------------------------------------------------------------
(* The data of the entries.                                                *)

LEMMA DataInit == Init => DataInv
<1> SUFFICES ASSUME Init, NEW e \in Entries
             PROVE  data[e] = Applied(values[e]) /\ lock[e] = None
  BY DEF DataInv
<1> QED
  BY AppliedToNone DEF Init

LEMMA DataNext == TypeInv /\ DataInv /\ [Next]_vars => DataInv'
<1> SUFFICES ASSUME TypeInv, DataInv, [Next]_vars PROVE DataInv'
  OBVIOUS
<1>1. ASSUME NEW t \in Threads, Handle(t), UNCHANGED hookVars PROVE DataInv'
  <2>1. /\ pc[t] = "idle" /\ \A u \in Threads \ {t} : job'[u] = job[u]
        /\ UNCHANGED <<computed, unwritten, data, lock, values>>
    BY <1>1 DEF Handle, TypeInv, TypeOK, dataVars
  <2>2. \A e \in Entries : lock[e] # None => lock[e] \in Threads \ {t}
    BY <2>1 DEF TypeInv, TypeOK, Holding
  <2>3. \A e \in Entries : Begun(e)' = Begun(e)
    BY <2>1, <2>2 DEF Begun
  <2> QED
    BY <2>1, <2>3 DEF DataInv
<1>2. ASSUME NEW t \in Threads, Dies(t), UNCHANGED hookVars PROVE DataInv'
  BY <1>2 DEF Dies, DataInv, Begun, mapVars, dataVars, hookVars, Goto
<1>3. ASSUME NEW t \in Threads, PutDirect(t), UNCHANGED hookVars PROVE DataInv'
  BY <1>3 DEF PutDirect, DataInv, Begun, dataVars, hookVars, Goto
<1>4. ASSUME NEW t \in Threads, Put(t), UNCHANGED hookVars PROVE DataInv'
  BY <1>4 DEF Put, DataInv, Begun, dataVars, hookVars, Goto
<1>5. ASSUME NEW t \in Threads, Get(t), UNCHANGED hookVars PROVE DataInv'
  BY <1>5 DEF Get, DataInv, Begun, mapVars, dataVars, hookVars, Goto
<1>6. ASSUME NEW t \in Threads, Track(t), UNCHANGED hookVars PROVE DataInv'
  <2> DEFINE e == entry[t]
             d == Updated(data[e], job[t].rec, job[t].value)
             m == [rec |-> job[t].rec, value |-> job[t].value]
  <2>1. /\ e \in Entries /\ pc[t] = "track" /\ lock[e] = None
        /\ job[t] \in Jobs /\ job[t].rec \in Profiled
    BY <1>6 DEF Track, TypeInv, TypeOK, Holding
  <2>2. data[e] = Applied(values[e]) /\ values[e] \in Seq(Records) /\ m \in Records
    BY <2>1 DEF DataInv, TypeInv, TypeOK, Jobs, Records
  <2>3. d = Applied(Append(values[e], m))
    BY <2>2, AppliedToAppend
  <2>4. /\ lock' = [lock EXCEPT ![e] = t]
        /\ computed' = [computed EXCEPT ![t] = d]
        /\ unwritten' = [unwritten EXCEPT ![t] = {f \in Fields : d[f] # data[e][f]}]
        /\ UNCHANGED <<job, entry, data, values>>
    BY <1>6 DEF Track
  <2>5. \A g \in Entries : lock[g] # t
    BY <2>1, NoneAssumption DEF TypeInv, TypeOK, Holding
  <2>6. lock'[e] = t /\ computed'[t] = d /\ unwritten'[t] = {f \in Fields : d[f] # data[e][f]}
    BY <2>1, <2>4 DEF TypeInv, TypeOK
  <2>7. Begun(e)' = Append(values[e], m)
    BY <2>4, <2>6, NoneAssumption DEF Begun
  <2> SUFFICES ASSUME NEW g \in Entries
               PROVE  /\ lock'[g] = None => data'[g] = Applied(values'[g])
                      /\ lock'[g] # None =>
                            /\ computed'[lock'[g]] = Applied(Begun(g)')
                            /\ \A f \in Fields :
                                  data'[g][f] = IF f \in unwritten'[lock'[g]]
                                                THEN Applied(values'[g])[f]
                                                ELSE computed'[lock'[g]][f]
    BY DEF DataInv
  <2> HIDE DEF d, m
  <2>8. CASE g = e
    <3>1. lock'[g] = t /\ t # None /\ computed'[t] = d /\ data'[g] = Applied(values'[g])
      BY <2>8, <2>2, <2>4, <2>6, NoneAssumption
    <3>2. computed'[t] = Applied(Begun(g)')
      BY <2>8, <2>3, <2>4, <2>6, <2>7
    <3>3. unwritten'[t] = {f \in Fields : computed'[t][f] # data'[g][f]}
      BY <2>8, <2>4, <2>6
    <3> QED
      BY <3>1, <3>2, <3>3
  <2>9. CASE g # e
    <3>1. lock'[g] = lock[g] /\ lock[g] # t
      BY <2>9, <2>4, <2>5 DEF TypeInv, TypeOK
    <3>2. lock[g] # None => lock[g] \in Threads
      BY DEF TypeInv, TypeOK
    <3>3. lock[g] # None =>
             /\ computed'[lock[g]] = computed[lock[g]] /\ unwritten'[lock[g]] = unwritten[lock[g]]
      BY <2>4, <3>1, <3>2 DEF TypeInv, TypeOK
    <3>4. Begun(g)' = Begun(g)
      BY <2>4, <3>1 DEF Begun
    <3> QED
      BY <2>4, <3>1, <3>3, <3>4 DEF DataInv
  <2> QED
    BY <2>8, <2>9
<1>7. ASSUME NEW t \in Threads, Write(t), UNCHANGED hookVars PROVE DataInv'
  <2> DEFINE e == entry[t]
  <2>1. e \in Entries /\ lock[e] = t /\ computed[t] \in Data /\ data[e] \in Data
    BY <1>7 DEF Write, TypeInv, TypeOK
  <2>2. PICK f \in unwritten[t] :
            /\ data' = [data EXCEPT ![e][f] = computed[t][f]]
            /\ unwritten' = [unwritten EXCEPT ![t] = @ \ {f}]
    BY <1>7 DEF Write
  <2>3. UNCHANGED <<job, entry, computed, lock, values>>
    BY <1>7 DEF Write, dataVars
  <2>4. f \in Fields /\ \A h \in Fields : data'[e][h] = IF h = f THEN computed[t][h] ELSE data[e][h]
    <3>1. f \in Fields
      BY DEF TypeInv, TypeOK
    <3>2. data'[e] = [data[e] EXCEPT ![f] = computed[t][f]]
      BY <2>1, <2>2 DEF TypeInv, TypeOK
    <3> HIDE DEF e
    <3>3. \A h \in Fields : [data[e] EXCEPT ![f] = computed[t][f]][h] =
                               IF h = f THEN computed[t][h] ELSE data[e][h]
      BY <2>1, <3>1 DEF Data, Fields
    <3> QED
      BY <3>1, <3>2, <3>3
  <2>5. \A g \in Entries : g # e => data'[g] = data[g] /\ lock[g] # t
    BY <2>1, <2>2, NoneAssumption DEF TypeInv, TypeOK, Holding
  <2>6. \A u \in Threads : unwritten'[u] = IF u = t THEN unwritten[t] \ {f} ELSE unwritten[u]
    BY <2>2 DEF TypeInv, TypeOK
  <2>7. \A g \in Entries : Begun(g)' = Begun(g)
    BY <2>3 DEF Begun
  <2> SUFFICES ASSUME NEW g \in Entries
               PROVE  /\ lock[g] = None => data'[g] = Applied(values[g])
                      /\ lock[g] # None =>
                            /\ computed[lock[g]] = Applied(Begun(g))
                            /\ \A h \in Fields :
                                  data'[g][h] = IF h \in unwritten'[lock[g]]
                                                THEN Applied(values[g])[h]
                                                ELSE computed[lock[g]][h]
    BY <2>3, <2>7 DEF DataInv
  <2> HIDE DEF e
  <2>8. CASE g = e
    BY <2>8, <2>1, <2>4, <2>6, NoneAssumption DEF DataInv
  <2>9. CASE g # e
    <3>1. lock[g] # None => lock[g] \in Threads
      BY DEF TypeInv, TypeOK
    <3> QED
      BY <2>9, <2>5, <2>6, <3>1 DEF DataInv
  <2> QED
    BY <2>8, <2>9
<1>8. ASSUME NEW t \in Threads, Release(t), UNCHANGED hookVars PROVE DataInv'
  <2> DEFINE e == entry[t]
             m == [rec |-> job[t].rec, value |-> job[t].value]
  <2>1. e \in Entries /\ lock[e] = t /\ t # None /\ computed[t] \in Data /\ data[e] \in Data
    BY <1>8, NoneAssumption DEF Release, TypeInv, TypeOK
  <2>2. /\ lock' = [lock EXCEPT ![e] = None]
        /\ values' = [values EXCEPT ![e] = Append(@, m)]
        /\ UNCHANGED <<job, computed, unwritten, data>> /\ unwritten[t] = {}
    BY <1>8 DEF Release
  <2>3. Begun(e) = Append(values[e], m)
    BY <2>1 DEF Begun
  <2>4. computed[t] = Applied(Begun(e)) /\ \A f \in Fields : data[e][f] = computed[t][f]
    BY <2>1, <2>2 DEF DataInv
  <2>5. data[e] = computed[t]
    BY <2>1, <2>4 DEF Data, Fields
  <2>6. values'[e] = Append(values[e], m) /\ lock'[e] = None
    BY <2>1, <2>2 DEF TypeInv, TypeOK
  <2> SUFFICES ASSUME NEW g \in Entries
               PROVE  /\ lock'[g] = None => data[g] = Applied(values'[g])
                      /\ lock'[g] # None =>
                            /\ computed[lock'[g]] = Applied(Begun(g)')
                            /\ \A f \in Fields :
                                  data[g][f] = IF f \in unwritten[lock'[g]]
                                               THEN Applied(values'[g])[f]
                                               ELSE computed[lock'[g]][f]
    BY <2>2 DEF DataInv
  <2> HIDE DEF e, m
  <2>7. CASE g = e
    BY <2>7, <2>3, <2>4, <2>5, <2>6
  <2>8. CASE g # e
    <3>1. lock'[g] = lock[g] /\ values'[g] = values[g]
      BY <2>2, <2>8 DEF TypeInv, TypeOK
    <3>2. Begun(g)' = Begun(g)
      BY <2>2, <3>1 DEF Begun
    <3> QED
      BY <3>1, <3>2 DEF DataInv
  <2> QED
    BY <2>7, <2>8
<1>9. ASSUME Shutdown, UNCHANGED <<threadVars, dataVars, recommendation>> PROVE DataInv'
  BY <1>9 DEF Shutdown, DataInv, Begun, dataVars, threadVars
<1>10. ASSUME ReportDirect, UNCHANGED <<threadVars, dataVars, recommendation>> PROVE DataInv'
  BY <1>10 DEF ReportDirect, DataInv, Begun, dataVars, threadVars
<1>11. ASSUME LockProfile, UNCHANGED <<threadVars, dataVars, recommendation>> PROVE DataInv'
  BY <1>11 DEF LockProfile, DataInv, Begun, dataVars, threadVars
<1>12. ASSUME Finish, UNCHANGED <<threadVars, dataVars, recommendation>> PROVE DataInv'
  BY <1>12 DEF Finish, DataInv, Begun, dataVars, threadVars
<1>13. ASSUME Judge, UNCHANGED <<threadVars, dataVars, recommendation>> PROVE DataInv'
  BY <1>13 DEF Judge, DataInv, Begun, dataVars, threadVars
<1>14. ASSUME UnlockProfile, UNCHANGED <<threadVars, dataVars, recommendation>> PROVE DataInv'
  BY <1>14 DEF UnlockProfile, DataInv, Begun, dataVars, threadVars
<1>15. ASSUME ClearDirect, UNCHANGED <<threadVars, dataVars, recommendation>> PROVE DataInv'
  BY <1>15 DEF ClearDirect, DataInv, Begun, dataVars, threadVars
<1>16. ASSUME ClearProfile, UNCHANGED <<threadVars, dataVars, recommendation>> PROVE DataInv'
  BY <1>16 DEF ClearProfile, DataInv, Begun, dataVars, threadVars
<1>17. ASSUME Halt, UNCHANGED <<threadVars, dataVars, recommendation>> PROVE DataInv'
  BY <1>17 DEF Halt, DataInv, Begun, dataVars, threadVars
<1>18. CASE UNCHANGED vars
  BY <1>18 DEF DataInv, Begun,
     threadVars, mapVars, dataVars, hookVars, vars
<1> QED
  BY <1>1, <1>2, <1>3, <1>4, <1>5, <1>6, <1>7, <1>8,
     <1>9, <1>10, <1>11, <1>12, <1>13, <1>14, <1>15, <1>16, <1>17, <1>18
     DEF Next, Step, onShutdown, Halted

\* No update is lost: in every reachable state the data of an entry whose lock is free
\* are those of all matches recorded in it, for any number of threads that share it
\* and however their steps interleave.
THEOREM NoUpdateLost == Spec => []NothingLost
<1>1. TypeInv /\ DataInv => NothingLost
  <2> SUFFICES ASSUME TypeInv, DataInv, NEW e \in Entries, lock[e] = None
               PROVE  Summarizes(data[e], values[e])
    BY DEF NothingLost
  <2>1. values[e] \in Seq(Records) /\ data[e] = Applied(values[e])
    BY DEF TypeInv, TypeOK, DataInv
  <2> QED
    BY <2>1, AppliedSummarizes
<1> QED
  BY <1>1, TypeInit, TypeNext, DataInit, DataNext, PTL DEF Spec

-----------------------------------------------------------------------------
(* The judgements of the hook.                                             *)

\* What fields read in the middle of an update still tell: the bounds hold for the
\* matches before it and are values of the matches with it, and the overflow is as in
\* one of the two.
LEMMA TornData ==
    ASSUME NEW done \in Seq(Records), NEW begun,
           begun = done \/ \E m \in Records : begun = Append(done, m),
           NEW d \in Data,
           \A f \in Fields : d[f] \in {Applied(done)[f], Applied(begun)[f]}
    PROVE  /\ All(done) \subseteq All(begun) /\ All(begun) \subseteq Int
           /\ \A v \in All(done) : d.min <= v /\ v <= d.max
           /\ done # <<>> => d.min \in All(begun) /\ d.max \in All(begun)
           /\ done # <<>> => All(done) # {}
           /\ (\E i \in DOMAIN done : done[i].rec \in {"PYTH_TO_HYPOT", "HYPOT_TO_PYTH"}
                                      /\ Infinite(done[i].value)) => d.overflow
           /\ d.overflow => \E i \in DOMAIN begun :
                  begun[i].rec \in {"PYTH_TO_HYPOT", "HYPOT_TO_PYTH"} /\ Infinite(begun[i].value)
           /\ \A i \in DOMAIN done : i \in DOMAIN begun /\ done[i] = begun[i]
<1> DEFINE old == Applied(done)
           new == Applied(begun)
           Bad(s) == \E i \in DOMAIN s : /\ s[i].rec \in {"PYTH_TO_HYPOT", "HYPOT_TO_PYTH"}
                                         /\ Infinite(s[i].value)
<1>1. begun \in Seq(Records)
  OBVIOUS
<1>2. \A i \in DOMAIN done : i \in DOMAIN begun /\ done[i] = begun[i]
  OBVIOUS
<1>3. All(done) \subseteq All(begun)
  BY <1>2 DEF All
<1>4. All(begun) \subseteq Int /\ (done # <<>> => All(done) # {})
  <2>1. \A i \in DOMAIN begun : begun[i] \in Records
    BY <1>1
  <2>2. All(begun) \subseteq Int
    BY <2>1, InfinityAssumption DEF All, Records, Values
  <2>3. done # <<>> => 1 \in DOMAIN done
    OBVIOUS
  <2>4. done # <<>> => done[1].value \in All(done)
    BY <2>3 DEF All
  <2> QED
    BY <2>2, <2>4
<1>5. old \in Data /\ new \in Data /\ Summarizes(old, done) /\ Summarizes(new, begun)
  BY <1>1, AppliedSummarizes DEF Consistent
<1>6. /\ \A v \in All(done) : old.min <= v /\ v <= old.max
      /\ All(done) # {} => old.min \in All(done) /\ old.max \in All(done)
      /\ old.overflow <=> Bad(done)
  BY <1>5 DEF Summarizes, All
<1>7. /\ \A v \in All(begun) : new.min <= v /\ v <= new.max
      /\ All(begun) # {} => new.min \in All(begun) /\ new.max \in All(begun)
      /\ new.overflow <=> Bad(begun)
  BY <1>5 DEF Summarizes, All
<1>8. Bad(done) => Bad(begun)
  BY <1>2
<1>9. /\ d.min \in {old.min, new.min} /\ d.max \in {old.max, new.max}
      /\ d.overflow \in {old.overflow, new.overflow}
  BY DEF Fields
<1> HIDE DEF old, new, Bad
<1>10. (Bad(done) => d.overflow) /\ (d.overflow => Bad(begun))
  BY <1>6, <1>7, <1>8, <1>9
<1>11. \A v \in All(done) : d.min <= v /\ v <= d.max
  BY <1>3, <1>6, <1>7, <1>9
<1>12. done # <<>> => d.min \in All(begun) /\ d.max \in All(begun)
  BY <1>3, <1>4, <1>6, <1>7, <1>9
<1> QED
  BY <1>2, <1>3, <1>4, <1>10, <1>11, <1>12 DEF Bad

\* The whole numbers that INTPOW looks for.
LEMMA SmallPower ==
    ASSUME NEW v \in Int
    PROVE  v % Unit = 0 /\ Magnitude(v) <= MAX_POW_REPLACEMENT * Unit <=>
             \E k \in -MAX_POW_REPLACEMENT .. MAX_POW_REPLACEMENT : v = k * Unit
<1> DEFINE w == Unit
<1>1. w \in Nat /\ w > 0
  BY UnitAssumption
<1>2. ASSUME v % w = 0, Magnitude(v) <= MAX_POW_REPLACEMENT * w
      PROVE  \E k \in -MAX_POW_REPLACEMENT .. MAX_POW_REPLACEMENT : v = k * w
  <2> DEFINE k == v \div w
  <2>1. k \in Int /\ v = k * w
    BY <1>1, <1>2
  <2>2. v <= 5 * w /\ -v <= 5 * w
    BY <1>1, <1>2 DEF Magnitude, MAX_POW_REPLACEMENT
  <2> HIDE DEF k, w
  <2>3. k <= 5
    <3> SUFFICES ASSUME k >= 6 PROVE FALSE
      BY <2>1
    <3>1. k * w >= 6 * w
      BY <1>1, <2>1
    <3> QED
      BY <3>1, <1>1, <2>1, <2>2
  <2>4. k >= -5
    <3> SUFFICES ASSUME k <= -6 PROVE FALSE
      BY <2>1
    <3>1. k * w <= (-6) * w
      BY <1>1, <2>1
    <3> QED
      BY <3>1, <1>1, <2>1, <2>2
  <2> QED
    BY <2>1, <2>3, <2>4 DEF MAX_POW_REPLACEMENT
<1>3. ASSUME NEW k \in -MAX_POW_REPLACEMENT .. MAX_POW_REPLACEMENT, v = k * w
      PROVE  v % w = 0 /\ Magnitude(v) <= MAX_POW_REPLACEMENT * w
  <2>1. k \in -5 .. 5
    BY DEF MAX_POW_REPLACEMENT
  <2> HIDE DEF w
  <2>2. v % w = 0
    BY <1>1, <1>3, <2>1
  <2>3. Magnitude(v) <= 5 * w
    BY <1>1, <1>3, <2>1 DEF Magnitude
  <2> QED
    BY <2>2, <2>3 DEF MAX_POW_REPLACEMENT
<1> QED
  BY <1>2, <1>3

\* isRelevant judges the matches right, in both ways, even from such data.
LEMMA JudgementRight ==
    ASSUME NEW done \in Seq(Records), NEW begun,
           begun = done \/ \E m \in Records : begun = Append(done, m),
           NEW d \in Data,
           \A f \in Fields : d[f] \in {Applied(done)[f], Applied(begun)[f]},
           NEW rec \in Profiled, NEW small \in BOOLEAN, NEW quiet \in BOOLEAN,
           quiet => begun = done /\ (small <=> Finished(Applied(done)))
    PROVE  LET j == [made |-> TRUE, reported |-> isRelevant(rec, d, small), rec |-> rec,
                     done |-> done, begun |-> begun, quiet |-> quiet]
           IN  ReportJustified(j) /\ (ReportDue(j) => j.reported)
<1> DEFINE relevant == isRelevant(rec, d, small)
           own == Own(rec, done)
           begunOwn == Own(rec, begun)
<1>1. /\ All(done) \subseteq All(begun) /\ All(begun) \subseteq Int
      /\ \A v \in All(done) : d.min <= v /\ v <= d.max
      /\ done # <<>> => d.min \in All(begun) /\ d.max \in All(begun)
      /\ done # <<>> => All(done) # {}
      /\ (\E i \in DOMAIN done : done[i].rec \in {"PYTH_TO_HYPOT", "HYPOT_TO_PYTH"}
                                 /\ Infinite(done[i].value)) => d.overflow
      /\ d.overflow => \E i \in DOMAIN begun :
             begun[i].rec \in {"PYTH_TO_HYPOT", "HYPOT_TO_PYTH"} /\ Infinite(begun[i].value)
      /\ \A i \in DOMAIN done : i \in DOMAIN begun /\ done[i] = begun[i]
  BY TornData
<1>2. own \subseteq All(done)
  BY DEF Own, All
<1>3. ASSUME Unshared(rec, begun)
      PROVE  own = All(done) /\ begunOwn = All(begun)
  BY <1>3, <1>1 DEF Unshared, Own, All
<1>4. d.min \in Int /\ d.max \in Int
  BY DEF Data
<1> DEFINE Reported == own # {} => Justified(rec, own)
           Due == /\ done # <<>> /\ Unshared(rec, begun)
                  /\ Justified(rec, own) /\ Justified(rec, begunOwn)
<1> HIDE DEF own, begunOwn
<1>5. CASE rec = "INTPOW"
  <2> DEFINE Power(v) == \E k \in -MAX_POW_REPLACEMENT .. MAX_POW_REPLACEMENT : v = k * Unit
  <2>1. relevant <=> d.min = d.max /\ Power(d.max)
    <3>1. relevant <=> /\ d.min = d.max /\ d.max % Unit = 0
                       /\ Magnitude(d.max) <= MAX_POW_REPLACEMENT * Unit
      BY <1>5 DEF isRelevant
    <3> QED
      BY <3>1, <1>4, SmallPower
  <2>2. \A S : Justified(rec, S) <=> \E v : S = {v} /\ Power(v)
    BY <1>5 DEF Justified
  <2> HIDE DEF Power
  <2>3. relevant => Reported
    <3> SUFFICES ASSUME relevant, own # {} PROVE Justified(rec, own)
      OBVIOUS
    <3>1. d.min = d.max /\ \A v \in own : v \in Int /\ d.min <= v /\ v <= d.max
      BY <2>1, <1>1, <1>2
    <3>2. \A v \in own : v = d.max
      BY <3>1, <1>4
    <3>3. own = {d.max}
      BY <3>2
    <3> QED
      BY <2>1, <2>2, <3>3
  <2>4. Due => relevant
    <3> SUFFICES ASSUME Due PROVE relevant
      OBVIOUS
    <3>1. PICK v : begunOwn = {v} /\ Power(v)
      BY <2>2
    <3>2. d.min = v /\ d.max = v
      BY <3>1, <1>1, <1>3
    <3> QED
      BY <2>1, <3>1, <3>2
  <2> HIDE DEF relevant
  <2> QED
    BY <1>5, <2>3, <2>4 DEF ReportJustified, ReportDue, relevant, own, begunOwn
<1>6. CASE rec = "HYPOT_TO_PYTH"
  <2>1. relevant <=> ~ d.overflow
    BY <1>6 DEF isRelevant
  <2>2. \A S : Justified(rec, S) <=> \A v \in S : ~ Infinite(v)
    BY <1>6 DEF Justified
  <2>3. relevant => Reported
    <3> SUFFICES ASSUME relevant, NEW v \in own PROVE ~ Infinite(v)
      BY <2>2
    <3>1. PICK i \in DOMAIN done : done[i].rec = rec /\ done[i].value = v
      BY DEF own, Own
    <3> QED
      BY <2>1, <3>1, <1>1, <1>6
  <2>4. Due => relevant
    <3> SUFFICES ASSUME Due, d.overflow PROVE FALSE
      BY <2>1
    <3>1. PICK i \in DOMAIN begun : Infinite(begun[i].value)
      BY <1>1
    <3>2. begun[i].value \in begunOwn
      BY <1>3 DEF All
    <3> QED
      BY <2>2, <3>1, <3>2
  <2> HIDE DEF relevant
  <2> QED
    BY <1>6, <2>3, <2>4 DEF ReportJustified, ReportDue, relevant, own, begunOwn
<1>7. CASE rec = "PYTH_TO_HYPOT"
  <2>1. relevant <=> d.overflow
    BY <1>7 DEF isRelevant
  <2>2. \A S : Justified(rec, S) <=> \E v \in S : Infinite(v)
    BY <1>7 DEF Justified
  <2>3. relevant /\ Unshared(rec, begun) => Justified(rec, begunOwn)
    <3> SUFFICES ASSUME relevant, Unshared(rec, begun) PROVE Justified(rec, begunOwn)
      OBVIOUS
    <3>1. PICK i \in DOMAIN begun : Infinite(begun[i].value)
      BY <1>1, <2>1
    <3>2. begun[i].value \in begunOwn
      BY <1>3 DEF All
    <3> QED
      BY <2>2, <3>1, <3>2
  <2>4. Due => relevant
    <3> SUFFICES ASSUME Due PROVE d.overflow
      BY <2>1
    <3>1. PICK v \in own : Infinite(v)
      BY <2>2
    <3>2. PICK i \in DOMAIN done : done[i].rec = rec /\ done[i].value = v
      BY DEF own, Own
    <3> QED
      BY <1>1, <1>7, <3>1, <3>2
  <2> HIDE DEF relevant
  <2> QED
    BY <1>7, <2>3, <2>4 DEF ReportJustified, ReportDue, relevant, own, begunOwn
<1>8. CASE rec = "USELESS_ABS"
  <2>1. relevant <=> d.max <= 0 \/ d.min >= 0
    BY <1>8 DEF isRelevant
  <2>2. \A S : Justified(rec, S) <=> (\A v \in S : v >= 0) \/ (\A v \in S : v <= 0)
    BY <1>8 DEF Justified
  <2>3. relevant => Reported
    BY <2>1, <2>2, <1>1, <1>2, <1>4
  <2>4. Due => relevant
    <3> SUFFICES ASSUME Due PROVE relevant
      OBVIOUS
    <3>1. d.min \in begunOwn /\ d.max \in begunOwn
      BY <1>1, <1>3
    <3> QED
      BY <2>1, <2>2, <3>1
  <2> HIDE DEF relevant
  <2> QED
    BY <1>8, <2>3, <2>4 DEF ReportJustified, ReportDue, relevant, own, begunOwn
<1>9. CASE rec \in {"SIN_APPROX", "COS_APPROX", "TAN_APPROX"}
  <2>1. relevant <=> Larger(Magnitude(d.min), Magnitude(d.max)) <= Threshold(rec)
    BY <1>9 DEF isRelevant
  <2>2. \A S : Justified(rec, S) <=> \A v \in S : Magnitude(v) <= Threshold(rec)
    BY <1>9 DEF Justified
  <2>3. Threshold(rec) \in Int
    BY UnitAssumption DEF Threshold
  <2>4. relevant => Reported
    <3> SUFFICES ASSUME relevant, NEW v \in own PROVE Magnitude(v) <= Threshold(rec)
      BY <2>2
    <3>1. v \in Int /\ d.min <= v /\ v <= d.max
      BY <1>1, <1>2
    <3> QED
      BY <2>1, <2>3, <3>1, <1>4 DEF Larger, Magnitude
  <2>5. Due => relevant
    <3> SUFFICES ASSUME Due PROVE relevant
      OBVIOUS
    <3>1. d.min \in begunOwn /\ d.max \in begunOwn
      BY <1>1, <1>3
    <3>2. Magnitude(d.min) <= Threshold(rec) /\ Magnitude(d.max) <= Threshold(rec)
      BY <2>2, <3>1
    <3> QED
      BY <2>1, <3>2 DEF Larger
  <2> HIDE DEF relevant
  <2> QED
    BY <1>9, <2>4, <2>5 DEF ReportJustified, ReportDue, relevant, own, begunOwn
<1>10. CASE rec \in {"LOG1P", "EXPM1"}
  <2> DEFINE old == Applied(done)
  <2>1. relevant <=> d.sum = 0 /\ small
    BY <1>10 DEF isRelevant
  <2>2. \A S : Justified(rec, S) <=> S = {0}
    BY <1>10 DEF Justified
  <2>3. /\ old \in Data /\ old.count = Len(done) /\ Len(done) \in Nat
        /\ ~ old.spread => old.sum = old.count * old.min
        /\ old.spread <=> \E v, w \in All(done) : v # w \/ Infinite(v)
        /\ All(done) # {} => old.min \in All(done)
    <3>1. Consistent(old) /\ Summarizes(old, done) /\ Len(done) \in Nat
      BY AppliedSummarizes
    <3> HIDE DEF old
    <3> QED
      BY <3>1 DEF Consistent, Summarizes, All
  <2>4. quiet => d.sum = old.sum /\ (small <=> Len(done) > 0 /\ ~ old.spread)
    BY <2>3 DEF Finished, Fields
  <2> HIDE DEF old
  <2>5. relevant /\ quiet => Reported
    <3> SUFFICES ASSUME relevant, quiet, own # {} PROVE own = {0}
      BY <2>2
    <3>1. old.count > 0 /\ old.count * old.min = 0 /\ old.min \in Int
      BY <2>1, <2>3, <2>4 DEF Data
    <3>2. old.min = 0
      BY <3>1, <2>3
    <3>3. \A v \in All(done) : v = 0
      BY <2>1, <2>3, <2>4, <3>2
    <3> QED
      BY <3>3, <1>2
  <2>6. Due /\ quiet => relevant
    <3> SUFFICES ASSUME Due, quiet PROVE relevant
      OBVIOUS
    <3>1. All(done) = {0}
      BY <2>2, <1>3
    <3>2. ~ Infinite(0)
      BY InfinityAssumption DEF Infinite, Magnitude
    <3>3. ~ old.spread /\ old.min = 0
      BY <2>3, <3>1, <3>2
    <3>4. old.sum = 0
      BY <2>3, <3>3
    <3>5. Len(done) > 0
      BY <2>3
    <3> QED
      BY <2>1, <2>4, <3>3, <3>4, <3>5
  <2> HIDE DEF relevant
  <2> QED
    BY <1>10, <2>5, <2>6 DEF ReportJustified, ReportDue, relevant, own, begunOwn
<1> QED
  BY <1>5, <1>6, <1>7, <1>8, <1>9, <1>10 DEF Profiled, Recommendations, DirectMatch

LEMMA JudgeInit == Init => JudgeInv
  BY DEF Init, JudgeInv, NotJudged

LEMMA JudgeNext == TypeInv /\ DataInv /\ JudgeInv /\ [Next]_vars => JudgeInv'
<1> SUFFICES ASSUME TypeInv, DataInv, JudgeInv, [Next]_vars PROVE JudgeInv'
  OBVIOUS
<1>1. ASSUME NEW t \in Threads, Handle(t), UNCHANGED hookVars PROVE JudgeInv'
  BY <1>1 DEF Handle, JudgeInv, TypeInv, TypeOK, Holding, Foremost, Goto, mapVars, dataVars,
     hookVars
<1>2. ASSUME NEW t \in Threads, Dies(t), UNCHANGED hookVars PROVE JudgeInv'
  BY <1>2 DEF Dies, JudgeInv, TypeInv, TypeOK, Holding, Foremost, Goto, mapVars, dataVars,
     hookVars
<1>3. ASSUME NEW t \in Threads, PutDirect(t), UNCHANGED hookVars PROVE JudgeInv'
  BY <1>3 DEF PutDirect, JudgeInv, TypeInv, TypeOK, Holding, Foremost, Goto, dataVars, hookVars
<1>4. ASSUME NEW t \in Threads, Put(t), UNCHANGED hookVars PROVE JudgeInv'
  BY <1>4 DEF Put, JudgeInv, TypeInv, TypeOK, Holding, Foremost, Goto, dataVars, hookVars
<1>5. ASSUME NEW t \in Threads, Get(t), UNCHANGED hookVars PROVE JudgeInv'
  BY <1>5 DEF Get, JudgeInv, TypeInv, TypeOK, Holding, Foremost, Goto, mapVars, dataVars,
     hookVars
<1>6. ASSUME NEW t \in Threads, Track(t), UNCHANGED hookVars PROVE JudgeInv'
  BY <1>6 DEF Track, JudgeInv, TypeInv, TypeOK, Holding, Foremost, Goto, mapVars, hookVars
<1>7. ASSUME NEW t \in Threads, Write(t), UNCHANGED hookVars PROVE JudgeInv'
  BY <1>7 DEF Write, JudgeInv, TypeInv, TypeOK, Holding, Foremost, mapVars, hookVars
<1>8. ASSUME NEW t \in Threads, Release(t), UNCHANGED hookVars PROVE JudgeInv'
  <2>1. entry[t] \in Entries
    BY <1>8 DEF Release, TypeInv, TypeOK
  <2>2. values' = [values EXCEPT ![entry[t]] =
                      Append(@, [rec |-> job[t].rec, value |-> job[t].value])]
    BY <1>8 DEF Release
  <2>3. UNCHANGED <<hook, rest, finished, judged>>
    BY <1>8 DEF hookVars
  <2>4. \A e \in Entries : values'[e] = values[e]
                           \/ (Len(values'[e]) = Len(values[e]) + 1 /\ Len(values[e]) \in Nat)
    BY <2>1, <2>2 DEF TypeInv, TypeOK
  <2>5. finished.updates \in Nat /\ \A l \in rest : <<l, FALSE>> \in Entries
    BY DEF TypeInv, TypeOK, Entries
  <2>6. ASSUME hook' = "judge", NEW l \in rest', Foremost(l)'
        PROVE  LET recorded == values'[<<l, FALSE>>]
               IN  /\ finished'.updates <= Len(recorded)
                   /\ finished'.free /\ finished'.updates = Len(recorded) =>
                         (finished'.small <=> Finished(Applied(recorded)))
    <3>1. l \in rest /\ Foremost(l) /\ hook = "judge"
      BY <2>3, <2>6 DEF Foremost
    <3>2. LET recorded == values[<<l, FALSE>>]
          IN  /\ finished.updates <= Len(recorded)
              /\ finished.free /\ finished.updates = Len(recorded) =>
                    (finished.small <=> Finished(Applied(recorded)))
      BY <3>1 DEF JudgeInv
    <3> DEFINE e == <<l, FALSE>>
    <3>3. e \in Entries /\ finished.updates \in Nat
      BY <3>1, <2>5
    <3>4. CASE values'[e] = values[e]
      BY <3>2, <3>4, <2>3
    <3>5. CASE Len(values'[e]) = Len(values[e]) + 1 /\ Len(values[e]) \in Nat
      <4>1. finished.updates < Len(values'[e])
        BY <3>2, <3>3, <3>5
      <4> QED
        BY <4>1, <3>3, <2>3
    <3> QED
      BY <3>3, <3>4, <3>5, <2>4
  <2> QED
    BY <2>3, <2>6 DEF JudgeInv
<1>9. ASSUME Shutdown, UNCHANGED <<threadVars, dataVars, recommendation>> PROVE JudgeInv'
  BY <1>9 DEF Shutdown, JudgeInv, TypeInv, TypeOK, Holding, Foremost, threadVars, dataVars
<1>10. ASSUME ReportDirect, UNCHANGED <<threadVars, dataVars, recommendation>> PROVE JudgeInv'
  BY <1>10 DEF ReportDirect, JudgeInv, TypeInv, TypeOK, Holding, Foremost, threadVars, dataVars
<1>11. ASSUME LockProfile, UNCHANGED <<threadVars, dataVars, recommendation>> PROVE JudgeInv'
  BY <1>11 DEF LockProfile, JudgeInv, TypeInv, TypeOK, Holding, Foremost, threadVars, dataVars
<1>12. ASSUME Finish, UNCHANGED <<threadVars, dataVars, recommendation>> PROVE JudgeInv'
  <2>1. PICK l \in rest :
            /\ Foremost(l)
            /\ finished' = [small |-> Finished(data[<<l, FALSE>>]),
                            updates |-> Len(values[<<l, FALSE>>]),
                            free |-> lock[<<l, FALSE>>] = None]
    BY <1>12 DEF Finish
  <2>2. UNCHANGED <<rest, judged, values>>
    BY <1>12 DEF Finish, dataVars
  <2>3. <<l, FALSE>> \in Entries /\ l \in Lines
    BY DEF TypeInv, TypeOK, Entries
  <2>4. \A k \in rest : Foremost(k) => k = l
    BY <2>1, <2>3, ProfilerAssumption DEF Foremost, TypeInv, TypeOK
  <2>5. LET recorded == values[<<l, FALSE>>]
        IN  /\ finished'.updates <= Len(recorded)
            /\ finished'.free /\ finished'.updates = Len(recorded) =>
                  (finished'.small <=> Finished(Applied(recorded)))
    <3>1. finished'.updates = Len(values[<<l, FALSE>>]) /\ Len(values[<<l, FALSE>>]) \in Nat
      BY <2>1, <2>3 DEF TypeInv, TypeOK
    <3>2. finished'.free => data[<<l, FALSE>>] = Applied(values[<<l, FALSE>>])
      BY <2>1, <2>3 DEF DataInv
    <3>3. finished'.small <=> Finished(data[<<l, FALSE>>])
      BY <2>1 DEF Finished
    <3> QED
      BY <3>1, <3>2, <3>3
  <2>6. \A k \in rest' : Foremost(k)' => k = l
    BY <2>2, <2>4 DEF Foremost
  <2> QED
    BY <2>2, <2>5, <2>6 DEF JudgeInv
<1>13. ASSUME Judge, UNCHANGED <<threadVars, dataVars, recommendation>> PROVE JudgeInv'
  <2>1. PICK l \in rest :
            LET e == <<l, FALSE>>
            IN  /\ Foremost(l)
                /\ judged' = [judged EXCEPT ![l] =
                     [made     |-> TRUE,
                      reported |-> isRelevant(recommendation[e], data[e], finished.small),
                      rec      |-> recommendation[e],
                      done     |-> values[e],
                      begun    |-> Begun(e),
                      quiet    |-> /\ finished.free /\ lock[e] = None
                                   /\ finished.updates = Len(values[e])]]
    BY <1>13 DEF Judge
  <2> DEFINE e == <<l, FALSE>>
             done == values[e]
             quiet == finished.free /\ lock[e] = None /\ finished.updates = Len(values[e])
  <2>2. hook = "judge" /\ hook' = "finish"
    BY <1>13 DEF Judge
  <2>3. e \in Entries /\ l \in Lines /\ data[e] \in Data /\ done \in Seq(Records)
    BY DEF TypeInv, TypeOK, Entries
  <2>4. recommendation[e] \in Profiled
    <3>1. l \in profile /\ cleared = FALSE
      BY <2>2 DEF TypeInv, Holding, cleared
    <3> HIDE DEF cleared
    <3>2. recommendation[<<l, cleared>>] # None
      BY <3>1 DEF TypeInv, TypeOK
    <3>3. recommendation[e] # None
      BY <3>1, <3>2
    <3> QED
      BY <2>3, <3>3 DEF TypeInv, TypeOK
  <2>5. Begun(e) = done \/ \E m \in Records : Begun(e) = Append(done, m)
    <3>1. CASE lock[e] = None
      BY <3>1 DEF Begun
    <3>2. CASE lock[e] # None
      <4> DEFINE u == lock[e]
      <4>1. u \in Threads /\ pc[u] = "write"
        BY <3>2, <2>3 DEF TypeInv, TypeOK, Holding
      <4>2. job[u] \in Jobs /\ job[u].rec \in Profiled
        BY <4>1 DEF TypeInv, TypeOK, Holding
      <4>3. [rec |-> job[u].rec, value |-> job[u].value] \in Records
        BY <4>2 DEF Jobs, Records
      <4> QED
        BY <3>2, <4>3 DEF Begun
    <3> QED
      BY <3>1, <3>2
  <2>6. \A f \in Fields : data[e][f] \in {Applied(done)[f], Applied(Begun(e))[f]}
    BY <2>3 DEF DataInv
  <2>7. finished.small \in BOOLEAN /\ quiet \in BOOLEAN
    BY DEF TypeInv, TypeOK
  <2>8. quiet => Begun(e) = done /\ (finished.small <=> Finished(Applied(done)))
    BY <2>1, <2>2 DEF JudgeInv, Begun
  <2> DEFINE j == [made |-> TRUE,
                   reported |-> isRelevant(recommendation[e], data[e], finished.small),
                   rec |-> recommendation[e], done |-> done, begun |-> Begun(e),
                   quiet |-> quiet]
  <2>9. judged' = [judged EXCEPT ![l] = j]
    BY <2>1
  <2> HIDE DEF e, done, quiet
  <2>10. ReportJustified(j) /\ (ReportDue(j) => j.reported)
    BY <2>3, <2>4, <2>5, <2>6, <2>7, <2>8, JudgementRight
  <2> HIDE DEF j
  <2>11. \A k \in Lines : judged'[k] = IF k = l THEN j ELSE judged[k]
    BY <2>9 DEF TypeInv, TypeOK
  <2> QED
    BY <2>2, <2>10, <2>11 DEF JudgeInv
<1>14. ASSUME UnlockProfile, UNCHANGED <<threadVars, dataVars, recommendation>> PROVE JudgeInv'
  BY <1>14 DEF UnlockProfile, JudgeInv, TypeInv, TypeOK, Holding, Foremost, threadVars, dataVars
<1>15. ASSUME ClearDirect, UNCHANGED <<threadVars, dataVars, recommendation>> PROVE JudgeInv'
  BY <1>15 DEF ClearDirect, JudgeInv, TypeInv, TypeOK, Holding, Foremost, threadVars, dataVars
<1>16. ASSUME ClearProfile, UNCHANGED <<threadVars, dataVars, recommendation>> PROVE JudgeInv'
  BY <1>16 DEF ClearProfile, JudgeInv, TypeInv, TypeOK, Holding, Foremost, threadVars, dataVars
<1>17. ASSUME Halt, UNCHANGED <<threadVars, dataVars, recommendation>> PROVE JudgeInv'
  BY <1>17 DEF Halt, JudgeInv, TypeInv, TypeOK, Holding, Foremost, threadVars, dataVars
<1>18. CASE UNCHANGED vars
  BY <1>18 DEF JudgeInv, TypeInv, TypeOK, Holding, Foremost,
     threadVars, mapVars, dataVars, hookVars, vars
<1> QED
  BY <1>1, <1>2, <1>3, <1>4, <1>5, <1>6, <1>7, <1>8,
     <1>9, <1>10, <1>11, <1>12, <1>13, <1>14, <1>15, <1>16, <1>17, <1>18
     DEF Next, Step, onShutdown, Halted

\* What the shutdown hook reports is right, and what is worth it is reported, although
\* it reads the data of entries without their locks while threads go on writing them.
THEOREM ReportsAreRight == Spec => []ReportsRight
<1>1. HookInv /\ JudgeInv => ReportsRight
  BY DEF HookInv, JudgeInv, ReportsRight, ReportsJustified, NothingUnreported
<1> QED
  BY <1>1, TypeInit, TypeNext, DataInit, DataNext, HookInit, HookNext, JudgeInit, JudgeNext,
     PTL DEF Spec

================================================================================
