# Cojac, specified in TLA+

Cojac is a Java agent. It rewrites the classes of a program as they are loaded,
so that integer and floating point instructions are sniffed (overflow, loss of
precision, cancellation ...), computed by another behaviour (as float, rounded,
as intervals) or replaced by a richer number type. Around the agent there are a
reaction mechanism with a JMX bean, a numerical profiler and a delta debugging
application that looks for the "double" instructions a program really needs.
One of the number types is the posit, for which Cojac carries the C library
SoftPosit, by far the largest body of code in the repository, and reaches it
through a native interface.

This directory holds TLA+ modules for the parts of Cojac that keep state, run
concurrently or are easy to get wrong at a boundary, TLC configurations for
small instances, and TLAPS proofs for every instance of what matters most.

    tlc -config MCReactions.cfg Reactions        # any run of PROJECT.json
    tlapm ReactionsProofs.tla                    # any *Proofs module

## Inventory

| Component | State | Operations | Interacts with |
|---|---|---|---|
| Delta debugging search (`deltadebugging/DeltaDebugger`) | arguments of the current `ddMin` call, its parts, the loop position | launch, split, edit, execute, refine | editor and executor, through two interfaces |
| Delta debugging application (`App`, `BehaviourEditor`, `ExecutionUtils`, `Opt`) | parsed document, behaviours file, child process and its pipe | parse options, list, edit, start a child, wait, report | child virtual machines (processes), the file, the user |
| Behaviours file (`BehaviourMethodVisitor`, `InstructionWriter`, `BehaviourLoader`) | line and instruction counters of a visitor, the writer singleton and its map, the loaded map | visit events, log, write at shutdown, load, look up | class loading threads, the shutdown hook, the delta debugger |
| Wrap mode (`PolyBehaviourLogger`, `PolyBehaviourLoader`, two wrappers) | map from line to behaviour | log when executed, write at shutdown, load | program threads, the shutdown hook |
| Colorizor | colour of every line | fold over the file | the behaviours file |
| Reactions and JMX bean (`Reactions`, `InstrumentationStats`) | `react`, `EVENTS`, `changes`, blacklist, opcode counters | react, filter, notify, start, stop, print at shutdown | every program thread, JMX clients, shutdown hooks |
| Sniffers (`behaviours/Checked*`, `CmpFuzzer`) | none: pure functions that may call `react` | one per opcode | Reactions |
| Conversion behaviours (`Conversion`, `PseudoRounding`, `DoubleInterval`) | static mode and threshold | one per opcode | native rounding, Reactions |
| Numerical profiler (`NumericalProfiler`, `SymbPattern`, `Recommendation`, `ProfileData`) | a recommendation or profile data per source line | handle, update, report at shutdown | program threads, the shutdown hook |
| SoftPosit arithmetic (`p8_*`, `p16_*`, `p32_*`, `pX1_*`, `pX2_*`, `s_addMags*`, `s_subMags*`, `s_mulAdd*`) | none: functions of words | add, sub, mul, div, mulAdd, sqrt, rint, comparisons | the classes, the native interface |
| SoftPosit conversions (`*_to_*`, `c_convert*`, `c_int`) | none | posit to posit, integer and double, and back | the classes, the native interface |
| SoftPosit quires (`quire*`, `c_convertQuire*`) | limbs in two's complement | clear, add or subtract a product, negate, convert to posit | the quire classes |
| Posit and quire classes (`softposit_cpp.h`) | a word and, for `posit_2` and `quire_2`, a precision | the operators of C++ | the library |
| Posit wrapper (`WrapperPosit32`, `Posit32Utils`, JNI functions) | a word carried as the bits of a Java float | the methods of a number wrapper | float replacement, the library |
| Number wrappers (interval, autodiff, symbolic, BigDecimal, complex, stochastic, Chebfun) | immutable values; the reverse autodiff graph is mutable | arithmetic and math functions | Reactions, the profiler |
| Agent and instrumentation (`Agent`, `CojacReferences`, visitors, `FloatProxyMethod`) | references, bypass list, annotated classes | transform, decide, visit | class loading threads |
| Options (`Arg`, `Args`, the references builder) | option values | parse, imply, set static fields | everything, once, before main |

What is hard about it: any number of program threads call the reactions, the
profiler and the loggers, and class loading threads call the agent, mostly
without locks; shutdown hooks read what those threads still write; the delta
debugger shares one file with processes it starts, that may fail, block or be
killed; the sniffers decide from a wrapped or rounded result whether the
exact one was in bounds; and the posit functions, one hand-written copy per
type, lay out fields of varying length in a word, so that every boundary
(regime too long, exponent cut off, tie, carry into the regime) is a case of
its own, while a result becomes the operand of the next call. `PROJECT.json` lists these hazards at their lines.

What makes each part correct: the search ends with an accepted set from which
nothing can be dropped, and the file on disk holds it; a problem is reported
once per location and counted; `stop()` silences the reactions; a sniffer
reacts when, and only when, the result is not the exact one; an instruction has
the same name in the machine that lists it and in the one that converts it; a
posit result is the exact one rounded once; a quire rounds only when it is read.

## Modules

`DeltaDebugger` is the `ddMin` search. `ddMin` calls itself in tail position
only, so its arguments `set` and `n`, its local `subsetList` and the loop it is
in are the state. `isSetValid` takes two steps, `EditBehaviours` and `Execute`.
The judge, the user's program, is any family of accepted sets. `splitSet` is
the operator `SplitSet`: bit number r (from the lowest) goes to the part whose
range of ranks contains r.

`DeltaApp` EXTENDS it with a session of `App.main`: the file parsed before the
listing (`Main`), the listing, the all-float run, the search, the last edit and
run. A child is started, prints lines into a bounded pipe, exits; the parent
reads only after the exit. A child may fail to start, the user may interrupt the
session at the terminal at any moment, which ends its child too (a file being
written is then cut off), and start it again. The
file may come from an older version of the program, with fewer or more
instructions. With `-jar` the listing command contains a null and the session
ends with an exception (`NoListingCommand`): the option never works.

`InstructionListing` opens the file: which name an instruction gets. A class is
what ASM shows of it, a sequence of method, line and instruction events. In the
listing machine threads visit classes and log into `InstructionWriter`, whose
`getinstance` is a read, a write and a read of a static field (`instance`); the
hook iterates over the map without its lock. A change of the map under the
iteration is a data race: the hook is stopped by an exception, or ends with
entries missing. In the loading machine an instruction is converted when the
file marks its name. `DeltaApp` assumes what this module shows only in part:
that file entries and instructions correspond one to one.

`Reactions` is one step per atomic operation of `react`, `passesFilter` and
`notifyChange` for each thread, next to `start()`, `stop()` and the shutdown
hook of `-Xs`. A location is the key of `EVENTS`. `PRINT` stands for its
smaller and profiler variants, `LOG` for both log reactions: they differ in
layout only. The variables from `detected` on are history, and so is
`overlapped`, the locations whose count two threads have changed at a time.

`CheckedArithmetic` has one action per sniffer of `CheckedIntBehaviour`,
`CheckedLongBehaviour` and `CheckedCastBehaviour`. Integer types have a
half-range (2^31 for int), floating types a number of binary digits; Java's
wrapping, truncation, rounding and saturation are operators of the module.

The numerical profiler takes three modules. `Recommendation` holds the
recommendations and the profile data with their updates and judgements: values
are multiples of 1 / `Unit`, so that there are values that are not integral
(`INTPOW` asks) and the thresholds of the code keep their decimals, infinite from
`Infinity` on, and of mean and deviation what the judgements ask. `SymbPattern` is the matching of patterns against expressions,
next to a definition of what every recommendation is for that is written from
its text. `NumericalProfiler` is the concurrent part: `handle` of each thread,
step by step (`Put` and `Get` are two locked calls, an update holds the lock of
the data), next to the shutdown hook, which holds the lock of the map but not
of the data, and after it has released it clears the two maps one after the other
(`UnlockProfile`, `ClearDirect`, `ClearProfile`). The fields of an update become visible in any order, each when it
is written; a write that another processor sees late, after further steps of
the writer, is left out. The maps are sorted by line, so that the lines are
numbers; an entry is named by its line and by whether it was made after the
hook cleared the map. `MCNumericalProfiler` gives the threads what
`SymbPattern` finds in the expressions over six constants.

The posits take thirteen modules, from the bits up:

| Module | Models |
|---|---|
| `PositWords` | formats, the loop over the regime (`Scan`), the code at the end of every operation that lays out and rounds (`Round`, `Pack`) |
| `PositArithmetic` | the operations, one operator per idea for the copies of all types |
| `SoftPosit` | one definition per C function of arithmetic, under its name |
| `PositConversions` | the same for the conversions, each with the cutoffs, constants and masks that the C function has |
| `PositQuire` | the same for the quires, limb by limb |
| `PositClasses` | the classes of `softposit_cpp.h` |
| `WrapperPosit32` | the Java wrapper and its native functions |
| `PositObjects` | state machine: an object, the call that last returned, the result dropped or assigned |
| `PositCasts` | state machine: conversions, roots and the wrapper, the result becoming the next object |
| `QuireObjects` | state machine: a quire that is cleared, takes products, is negated and read, in any order |
| `PositReference` | what a word stands for and what the right result is, written from the definition of posits without the operators above |
| `PositArithmeticProofs` | lemmas for every format: what scanning, laying out and rounding do, and what the reference says of words |
| `PositObjectsProofs` | the theorems about `PositObjects` |

`ExactQuire` is the abstract specification of a quire: an exact sum that is
rounded when it is read. `QuireObjects` implements it (`INSTANCE ExactQuire
WITH`): the limbs are mapped to the number they hold in two's complement. The
promise has limits and the specification names them: the number of products
that fit the carry bits, the longest product that `quire16` takes, whether a
negation works, and how near to the ends of the range a reading may be off by
one.

The library writes each function once per width, with the masks as numbers.
The modules express every position in the width `F.n`, so that the same text
is the real function for 8, 16 and 32 bits and a shorter one of the same shape
for the model checker. `posit8` is checked at its real width. The operators
were also compared, at the real widths and on the words where the cases change,
with the compiled functions. Where the code reads a variable it has not
assigned, negates the smallest long (`i64_to_pX2`) or estimates a root from a
table, the function is the set of the results it may return; where it shifts by an amount the language leaves
undefined, the model has what the supported build does.

Theorems about a component are in the module named after it with `Proofs` at the
end, which EXTENDS the component's module and TLAPS; those about `DeltaDebugger`
are at the beginning of `DeltaAppProofs`. `Numbers` holds lemmas that several of
them cite: least and greatest numbers, division, and the laws of powers of two.

`MCDeltaDebugger`, `MCDeltaApp`, `MCInstructionListing`, `MCNumericalProfiler`
and the `MC` modules of the posits only give values to constants. Operators commented "Fault" are wrong
variants of the definition that follows, used to see that the properties notice
them.

## Runs

| Run | Result |
|---|---|
| `dd_min` | passes: result accepted and locally minimal, at most n^2 + 5n - 9 executions. All 256 judges over 3 instructions, judges accepting the supersets of one or two sets over 6, and judges that release one instruction at a time over 5. The classical bound n^2 + 3n is exceeded by this variant. |
| `app_session` | passes: after a success the file holds an accepted, locally minimal solution; a failure is real; a dead session leaves a usable file; every session ends when children print no more than the pipe holds |
| `app_listing` | violated: without a readable file a session dies right after creating one |
| `app_pipe` | violated: a judge that prints more than the pipe holds blocks the session |
| `reactions` | passes: one report per location, every location reported, a count is the number of the problems wherever no two threads counted at a time, stop obeyed, no gap in the notification numbers |
| `checked_arithmetic` | passes: integer sniffers exact, the casts miss only values at the rounded bound and the loss of precision of the largest integer |
| `listing` | passes: the second machine converts exactly the marked instructions, and the file lacks entries only after a race in `getinstance` or under the hook |
| `profiler` | passes: every pattern finds what its recommendation describes and nothing else; no update is lost; the hook reports what the recorded values justify and misses nothing, but where recommendations share a line or an update falls into the judgement; no thread dies before the maps are cleared |
| `posit_arithmetic` | passes: sums, differences, products and quotients are rightly rounded on every pair of words, but for an exponent bit lost in products of posit32 and in posit_2 at full width; fused operations are rightly rounded for posit8 and posit16 and next to the result otherwise; no operation makes up a NaR, a zero or a sign; comparisons are one total order |
| `posit_conversions` | passes: conversions, roots and rint are right but for the exceptions the properties name, see the disagreements below; the wrapper is exact where it computes with posits, its remainder is the exact one of the two floats, rounded once, and its other functions are as good as a float |
| `posit_quire` | passes: the quires implement `ExactQuire` |
| `posit_quire16` | violated: one product of large posits is not what the quire holds |

Bounds. Six instructions give `ddMin` three granularities and uneven parts;
three are enough for the session, whose properties do not depend on the order
of candidates, and let the file be shorter or longer than the program. Three
sessions allow a kill, a dead session and a good one. One pipe line suffices
to fill a pipe. Two threads with two problems each show every pair of steps of
`passesFilter` and `notifyChange` against each other; a third thread repeats
them. The integer types are 2, 3, 4 and 7 bits wide and checked on every pair
of operands; float has 2 digits and double 5, so that, as in
Java, an int fits a double but not a float and a long neither. The classes of `listing` contain
a skipped instruction, two instructions on a line, a method without line
numbers and a line visited twice.

In `profiler` two threads handle two matches on two lines, one of them in a
class without a file name, with five recommendations that share entries: two
matches suffice for the two exceptions of `ReportsRight` (an overflow found by
another recommendation, a mean of zero with a deviation that is not yet
written), each of which was seen by leaving it out. With three matches of two
recommendations on one line nothing else was found. The values are -1, 0, 0.5, 1,
2, 10 and what the expressions make of them: both sides of the thresholds, an
exponent that is not integral, and the infinite value.

In `posit_arithmetic` posit8 has its 8 bits, posit16 has 7 and the others 6:
with two exponent bits, 6 bits are the fewest with words that have a fraction,
words whose exponent is cut by one bit and by two, and words that are all
regime. Precisions from 2 to the full width are included because 2 and the
full width are special cases of the code. The factors of a fused operation are
one, its neighbours, the ends of the range and words between, of both signs;
the third operand is every word. In `posit_conversions` the widths are 8, 9 and
10, the integers have 16 and 20 bits and floats 4 digits, in the order they
have in C and Java: a posit32 has more digits than a float near one and a
smaller range than a double, an integer of 32 bits is not always a posit32. The
precisions are 2, 4, 7, 8 and 10: the two special ones, a short one, and those for
which the largest integers take the branches of their own in `i32_to_pX2` and
`i64_to_pX2` (the 11 and the 18 or 19 of the code). The integers are the powers of
two, seven patterns of up to five bits at every place, and their neighbours.
In `posit_quire` the posits have 4 and 5 bits and six limbs of 9 bits make a
quire32 through which carries run over several limbs. quire8 takes one product
more than its capacity of seven, so that the sum that looks like NaR happens.
quire_2 is left at a precision below the full width, where its reading would
add the lost exponent bit that `posit_arithmetic` already shows.

Fairness. `DeltaApp` assumes that the one thread of main and its child are
scheduled and that the judged program terminates; nothing forces a kill or a
failure. `Reactions` assumes weak fairness of each thread inside a reaction:
the virtual machine schedules its threads and a reaction never waits for
another. Problems, JMX calls and the shutdown need not happen. The other
modules state no liveness.

## Known disagreements

Checked by a run that is expected to fail, each with a finding in `PROJECT.json`
that quotes the two sides:

| Run | Said in | Done in |
|---|---|---|
| `app_listing` | comment at `App.java:103` | `App.java:99` |
| `app_pipe` | javadoc at `ExecutionUtils.java:133` | `ExecutionUtils.java:143` and `162` |
| `posit_quire16` | SoftPosit `README.md:146` | `quire16_fdp_add.c:141-146` |

In others a property that passes says up to which boundary the code is right. It says
nothing of what lies beyond, where the code differs from the documents:

- `wiki-tmp/Home.md:266` says that filtered events are "finally synthesized
  (with occurrences count)". Two threads that read the same old count lose an
  occurrence; `CountsRight` says that nothing else does, and that a count is
  never too high.
- `wiki-tmp/Home.md:330` says that the bean's operations "let you dynamically
  enable or disable the processing of the detected events". A callback is
  invoked although `stop()` was called; `StopObeyedByReactions` is the rest.
- `wiki-tmp/Home.md:154-156` gives `(float)Integer.MAX_VALUE` as an example of
  a detected loss of precision. The conversion back saturates and hides the loss of
  this int, and that of the largest long (`CheckedCastBehaviour.java:101`, `110`).
  `PrecisionLossDetected` is about every other loss.
- `deltadebugging/App.java:52` says of the behaviours file that it is "holding
  every double statements". Two instructions of a loop header, whose line is
  visited twice, share an entry; `FloatsAsMarked` says what an entry then does.
- The same comment promises every double statement: two class loading threads in
  `getinstance`, or one under the shutdown hook, leave some out.
  `IncompleteOnlyByRace` says that nothing else does.
- `Recommendation.java:110-111` says of `log(1 + x)` that it is for small values
  of x. `ReportsRight` excepts the update that runs into the judgement: a value
  of -1 and a 1 whose deviation is not yet written look like two zeros.
- SoftPosit's `README.md:12` calls `pX2_rint`, `i32_to_pX2` and `ui32_to_pX2`
  exhaustively tested in all precisions. Below -2147483135, `i32_to_pX2` returns
  0x80500000 whatever the precision is (`i32_to_pX2.c:54-57`), and above 2147483135
  it returns 0x7FE00000, the largest word, in 11 bits, where 0x7FA00000 is the
  nearest (`71`); `ui32_to_pX2` takes 2^31 for NaR (`ui32_to_pX2.c:55`); rint of
  a large negative posit of at most 8 bits is positive (`pX2_roundToInt.c:66-75`).
  `NumbersRight` and `RootsAndRintRight` are about all other operands.
- `README.md:13` says the same of `i64_to_pX2` and `ui64_to_pX2` up to 13 bits. The
  unsigned 2^63 is taken for NaR (`ui64_to_pX2.c:55`), and the smallest long is
  negated into itself (`i64_to_pX2.c:57`). In 18 and 19 bits, of which the line does
  not speak, the largest longs get a word that is not cut to the precision (`62-64`).
  `NumbersRight` is about all other integers.
- `README.md:16` says the same of `pX2_mulAdd` up to 15 bits. A result just above a
  tie is taken for the tie (`s_mulAddPX2.c:300`); `FusedIsClose` says that it is then
  a neighbour of the right word.
- `README.md:30` says that all operations of posit16 are exhaustively tested but for
  the fused ones. Large posits become the integer zero (`c_int.c:103`, and `141` for
  posit32); `NumbersRight` is about the other ones.

## Proofs

The proofs are for every value of the constants that the `ASSUME`s of the
modules allow, and TLC evaluates these assumptions in the runs. They say what
the code makes true of its constants: bounds and half-ranges are natural
numbers, judges accept sets of instructions, `None` and the hook are not
threads, the infinite value and the unit are not zero, a class starts with a method before
anything in it, there is at least one session, the user's first file and target
are those the parser knows. `WidthsAssumption` adds what Java says of its
types: int and long have a power of two as half-range, and a double holds every
int. `HalvesAssumption` alone is enough for the theorems on integers.

Each invariant below was first checked by TLC, on the instance of the
component's run.

`DeltaAppProofs`, first for the search, any number of instructions and any judge:
`DDTypeCorrect`, `ResultStillValid`, `ResultOneMinimal` and
`SearchCostsAtMostQuadratic`. Minimality needs the strengthening `MinInv`:
while candidates are tried, every candidate before the current one is refused,
and a set that is returned is cut into single instructions. The lemmas on
`Rank` and `SubsetOf` show that a splitting at a granularity of at least the
size of the set has one instruction per part, so that all complements refused
means that no instruction can be dropped. The bound on the executions needs a
budget (`Ahead`) for what may still come from a set of c instructions in k
pieces: `Affordable` says that what is spent and the budget stay within the
bound. A refused round pays for itself because the granularity doubles; an
accepted candidate because no part is empty and none is longer than c - m + 1
(`PartSize`, in which the ranks of the bits are counted), so that the set left
is small enough. The last lemmas are this arithmetic, move by move.

Then for the sessions on top of it: `AppTypeCorrect`, `FileHoldsSolutionAlways`,
`FailureIsRealAlways` and `NextSessionWorksAlways`. A session makes the
search's own steps, only that an execution whose child fails to start counts as
refused, so that `IndVerdict` is stated for any verdict and carries `DDInd`
over whole sessions. `AppInv` says what the file holds at each point
(`FileState`), when a child runs (`ChildState`) and that the search is the
judge's (`SearchState`: `StillValid` and `MinInv`) as long as no child failed
and the file fits the program.

`InstructionListingProofs`, for any classes, codes and threads:
`ListingTypeCorrect`, `FloatsAsMarkedAlways` and `IncompleteOnlyByRaceAlways`.
The names are the heart of it: `Named` says that the counters of a visitor,
which are all it has, are the name that the reference `NameOf` gives to the
event it stands at, whatever other threads visit (`LastStep`, `CountedStep` and
`NameStep` go from one event to the next). `Shares` says that a class is
visited once, by one thread; with it `LoadInv` says that what is converted so
far is what the file marks, and `ListInv` that without a race one writer holds
every name given so far.

`NumericalProfilerProofs`, for any threads, lines, matches and recommendations:
`ProfilerTypeCorrect`, `ThreadsSurviveAlways`, `NoUpdateLost` and
`ReportsAreRight`. `DataInv` holds in the middle of an update: each field is
the old one as long as it is unwritten and the new one after it; `HookInv`
follows the recommendations the hook owes a judgement through the two maps.
`JudgeInv` relates what `finish` has read of an entry, whose lock the hook does
not take, to the matches recorded by then. Judgements are about sums over a
sequence of matches and the code only keeps running totals: `AppliedSummarizes`
proves, by induction over the length of the sequence, that the totals are those
of the sequence, and is what `ReportsRight` is judged by.

`ReactionsProofs`, for any threads, locations and bounds: `TypeCorrect`;
`CountsAreRight`, from the invariant (`CountInv`) that the old count a thread carries is
below the problems counted there, and that at a location no two threads have
counted at a time, at most one thread is between its read and its write and the
old count it carries is the current one; `FilterReportsOnce`, whose invariant counts
the thread that found the key absent together with the reports made;
`ReactionsObeyStop`, in which a thread past the flag is not one whose problem
has only known `react` as false; and `NotificationsWithoutGap`, in which a
thread between its read and its write of `changes` holds a number not above it.

`CheckedArithmeticProofs`, for types of any width and precision, states all
five properties of the run. `SumSniffersExact` and `IntegerCastSniffersExact`
come from lemmas on `Wrap` (it stays in range, is congruent, and is the
identity exactly in range). `ProductSniffersExact`: an overflow puts the
wrapped product a whole period away from the exact one, but a quotient by b
leaves a remainder below |b|, which is at most half a period; only b = -1
escapes, and it is the special case of the code. `SaturationSniffersRight` and
`PrecisionSniffersRight` rest on what `Round` does (`Rounding`): it does not
change what fits (`RoundSmall`), crosses no power of two (`RoundBounded`) nor
the largest float (`RoundWithinFloats`), and takes the largest integer to
itself or to the power of two above it (`RoundLargest`), which is where the
misses come from. `PrecisionSniffersRight` leaves the largest integer aside.

`PositObjectsProofs`, for types of any width from four bits (five for the types
with two exponent bits), any precision and any operands: `PositTypeCorrect`,
`PositSigns`, `PositOrder` and `PositRoundings`, all from `PositInvariant`, which
adds to `TypeOK` and `SignsAndNaRs` that the object keeps its type and its
precision (`Typed`): a result is in `Values` because of what the functions do, and `Assign` makes it
the next operand. The work is in `PositArithmeticProofs`,
one lemma per operator of `PositWords` and `PositArithmetic`. A word is a
regime, an exponent and a fraction behind one another, each cut off where the
word ends. `ScanPositive` and `NormalShape` say that the decoded and the normalised
significand have their leading one where the code that packs them assumes it;
`RoundIsPositive` that whatever scale, significand and sticky bit the end of a
function is given, the word it lays out is between the smallest and the largest
positive word of the precision. `AddWord`, `MulWord` and the like carry this to
the functions, with NaR and zero where the code tests for them. `PositSigns`
says as well that the sign is the one of the exact result: a sum of words has
the sign of the sum of the words as signed integers, because the magnitudes are
ordered like the numbers. `PositOrder` compares the library, which never
decodes the words it compares, with a reference that does: `BelowIs` rests on
lemmas that `Value` grows with the word, whichever field the first differing
bit is in. `PositRoundings` is `RightlyRounded`: no chain of operations makes a sum,
difference, product or quotient that is not the exact one rounded once, but in the
two types that forget exponent bits. A number of any precision is measured by its
height, its scale and fraction read as one integer, so that words and boundaries
between words (the words of one bit more) are ordered like their heights. `ScanStands` says at which height a decoded word
stands, `ProductStands` and `QuotientNumber` at which height the product and the
quotient stand before they are packed and what the remainder adds,
`RoundsInRegime` and `RoundsBeyond` that `Round` picks the word between whose
boundaries the height lies, if `bitsMore` is what is cut off below the first
bit, and `StickyIs` that the code's two masks together are that. `Keeps` names the formats
that look at both masks for products; for the others `RoundStickyOrCrowded` has
the alternative, a regime that leaves no room for the exponent.

A sum has two cases. Terms that are near are added in common units, no bit is lost
before the rounding, and the height is the one of the exact sum (`NearTerms`,
`NearSum`, `NearDifference`). A term that is shifted out of the significand leaves
at most a sticky bit. `FarNumberSum` and `FarHeights` say that the larger term is
then the nearest word whichever way the bit goes, and `FarExact` that the exact
sum rounds to it too, so the limits where the code drops the term (`addMax`,
`subMax`, `Aligns`) cut off only what cannot matter. `AddMagsYields` and
`SubMagsYields`, at the head of `PositObjectsProofs`, put the two cases together. The functions that add
do not count the exponent bits they cut off as sticky; `ToldUnless`, `ToldSum`,
`ToldBorrow` and `ToldNear` show that these bits never decide the rounding of a sum.
`posit_2` at its full width loses the bits themselves and keeps its alternative
(`FullWidth` in `Yields`). The reference itself
replaces a term too small to matter, to keep its integers small; `ReplacedTerm`
shows that this changes no result.

`Numbers` holds what these share: that a set of natural numbers has a least
element, which is how the proofs do induction (they look at the least
counterexample), and the laws of 2^k. The prover knows nothing of exponents;
the laws are derived from `FS_SUBSET` of the library, which says that a set of
k elements has 2^k subsets, by counting the subsets with and without one
element. (The proof the library gives of `FS_SUBSET` takes 2^(n+1) = 2^n + 2^n
as known arithmetic.)

Only model-checked. The liveness properties, since the prover has no rules for
fairness here: `SessionEnds`, `EveryLocationReported`. `PatternsRight`, whose
matching (`SymbPattern`) is a recursive operator. Of the posits, the conversions and
roots (`PositCasts`) and that the quires implement `ExactQuire`, on the words of
small formats. And `FusedIsClose`, which cannot be a theorem of every width: it
asks `posit8` for one rounding, but only the types with one exponent bit keep the
bit that a carry drops (`CarryDrops`). In 8 bits, the width of the run and of the
code, the run finds no triple that needs it. In 10 bits there is one: the words 247
and 199 have the product 0.7500153, 7.5 is added, and the sum, just above the
boundary 8.25, is rounded down to 8 where 8.5 is the nearest word.

## Plan

Proofs first: the part of `FusedIsClose` that may hold at every width, that a
result is one of the two words next to the exact one; type correctness of the
casts and the quires for every width; and that `AddLimbs` is addition modulo the
width of the register for any number of limbs, the step by which a product enters
`ExactQuire`.

Then the parts of the agent that are left, in this order:

1. `Colorizor` and the wrap mode of the behaviours file.
2. `Instrumentation`: `Agent.transform`, `hasToBeInstrumented`, annotations and
   bypass lists, `parseClassesIndices`, the bean's blacklist and counters under
   concurrent class loading; `Options`: what the builder derives from options.
3. `FloatSniffers`, `Rounding` and `Intervals` over the floating point type of
   `CheckedArithmetic`: detection, directed rounding, enclosure.
4. `AutodiffReverse` and `Symbolic`: back propagation and derivation against
   reference definitions.
5. `FloatReplacement`: renumbering of variables, conversion of proxied calls.

## Not modelled

Of the posits: the Python wrapper, which SWIG generates and Cojac does not use;
the quad precision code, which is not built; the conversions between integers
and `posit_1_t`, whose shifts are undefined for most arguments; the bitwise,
shift and logical operators of the C++ classes, which treat a posit as a bit
pattern; the transcendental functions of the wrapper, whose values are those of
`java.lang.Math`; the loading of the native library, which is silently left out
on 32-bit machines; and functions that print. That a word travels through the
virtual machine as the bits of a float, which hardware that quiets signalling
NaNs could change, is not modelled either: the supported builds pass it as is.

Of the delta debugger: that its process alone is killed. An interrupt at the
terminal reaches the child as well; a kill of the parent's process leaves a child
that goes on, and a listing child that outlives its parent may still write the
file of a session started meanwhile.

Of the rest: the emission of bytecode, the number wrappers that delegate every
formula to `java.lang.Math` or `BigDecimal`, native rounding modes, which are
calls of `fesetround`, and the layout of what is printed, the reports of the profiler included.
