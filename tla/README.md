# Verification of danmuji in TLA+

danmuji transpiles `.dmj` files, a behaviour-driven test language, into Go test
files and runs `go test` on them. There are two programs to be right about: the
command itself (which walks trees, generates files, deletes them again and
watches), and the code it *generates*, which starts programs, polls, cleans up,
compares golden files and runs in parallel under package `testing`. This
directory models both, checks the models with TLC and proves the most important
properties with TLAPS. Line numbers refer to the repository's source;
`PROJECT.json` maps every definition to the lines it stands for.

    tlc -workers 2 -config runs.cfg MC_TestRuns      # model-check a run
    tlapm TestRuns_proofs.tla                        # check the proofs of a module

## 1. Inventory

    .dmj file --(grammar, language blob)--> tree --(two passes)--> _test.go
        ^                                                             |
        | watch: fsnotify, debounce                                   | go test
    cmd/danmuji: test | build | check | test --watch                  v
                     deletes what it generated     test binary: hooks, rows, processes,
                                                   golden files, profiles, mocks

| Component | Source | State | Operations | What makes it correct |
|---|---|---|---|---|
| `test`, `build`, `check` | `cmd/danmuji/main.go` | the generated files, `preExisting`, the list of outputs | transpile each file, `go test`, `cleanupNew` | files somebody wants survive, everything else goes, success means that every file was transpiled and what `go test` was asked for compiled |
| `test --watch`, `fmt` beside it | `main.go:311-411, 469-511` | fsnotify's queue, one debounce timer, runs in goroutines; the file `fmt` is rewriting | event, new directory, fire, quit; read, truncate, write | every save is read by a later run; the watch does not settle with work left |
| process and stop blocks | `transpile_process.go` | a child process, its pipe, the cleanup stack, a timer | build, start, poll, signal, wait, kill, read | the program never outlives its test; exit code and output are exact |
| hooks, nested blocks | `transpile_blocks.go` | hook contexts of the emitter | six emitters that call each other | a hook fires around each leaf below it, once, in order |
| generated test binary | `transpile_core.go`, `_data.go`, `_fixtures.go`, `_profile_doubles.go` | goroutines, the CPU profiler, mock counters, defers and cleanups | parallel and serial tests, rows, `verify`, `after all`, `no_leaks`, `profile` | serial tests are alone; teardown comes last; verify sees every call |
| snapshot blocks | `transpile_process.go:77-170` | golden files | read, create, compare, update | drift fails and only an update overwrites, where the file can be read |
| language blob | `language_blob_embed.go`, `cmd/genblob`, `Makefile` | `language.bin`, `.hash`, `.json`, tags | generate, load, release | a build never parses with another grammar's tables |
| transpile pipeline | `transpile_core.go`, `_blocks.go`, `_exec.go`, `_assertions.go` | flags of the emitter, pending declarations, errors | collect, reject, emit | expectations are never dropped, flags match the blocks around |
| factories | `transpile_factory.go` | definitions and builds of a file | collect, validate, emit | unknown names are refused; layers apply in order |
| data-driven blocks | `transpile_data.go` | rows being built | each-do, matrix, table | every scenario in its row, defaults reach all |
| matchers | `transpile_fixtures.go:743-1019` | none: helpers of a generated file | equal, contains, unordered_equal, matches | an answer is what a reader of the matcher expects |
| polling, await | `transpile_assertions.go:463-522, 638-660`, `_async.go`, `_fixtures.go:669-683` | a deadline, two flags, a pause; a channel and a timer | round, sleep, look at the clock; select | what holds is seen in time, what fails is noticed, a pass is fresh; no value is lost or taken twice |
| diagnostics, coverage check | `errors.go` | none: they read a tree | walk for gaps; collect, group and rank flaws | lost text is reported, each broken block has its most local report |
| exec, fuzz, property, mocks, needs, load | see `PROJECT.json` | | | in part: what becomes of them in the pipeline, mock counters |
| grammar, formatter, editor, `init` | `grammar.go`, `go_grammar.go`, `format.go`, `register/` | | | *not modelled* |

What is hard here and hardly reached by the unit tests, in the order in which it
is modelled: a failure or ctrl+c between two accesses to the disk; two runs on the
same files; a save that falls between event, timer and run; a program that ignores
its signal, dies at the very moment of the timeout, or answers for another; a
program that accepts a probe and never answers it; cleanup order (LIFO) against
registration order; parallel subtests that start when their parent's body is over;
a golden file half written; flags saved and restored by mutually recursive
emitters; hooks through any nesting; a condition that changes between two
evaluations of one round, on a goroutine the scheduler keeps waiting; a select
with two ready cases; a formatter that writes a file while a run reads it. Every
one is in `PROJECT.json` under `hazards` with its line and its properties.

## 2. Modules

Each component is one module; its instances for TLC are in `MC_*`, its theorems
in `*_proofs`. They all follow one scheme: constants with a named `ASSUME`, one
action per operation, a program counter per goroutine where there are several.

**TestRuns** (`main.go:98-309, 397-444, 513-550`). State: the sources, the disk of
generated files (missing, the code of a source, truncated, or a file of somebody
else), the files somebody wants (`owned`), and per invocation its position and the
locals of `runTestOnce`, `runBuild` and `runCheck`: collected files,
`preExisting`, generated outputs, exit code. One action is one access to the disk,
since that is where two invocations, an edit or an interrupt can come between:
`StatOutput` (the loop that fills `preExisting`), `ReadSource` (read, transpile),
`OpenOutput` and `WriteOutput` (`os.WriteFile` truncates, then fills), `GoTest`,
`RemoveOutput`, `EndCleanup`. A write may fail at either place, a removal may
fail, and ctrl+c ends an invocation anywhere (there is no signal handler). The
user edits sources, commits outputs and discards them. `GoTest` is what the code
makes of `go test`: it is asked for `./...` of a directory or for the directory of
one file, compiles the outputs it finds there (`Listed`: not those in directories
it does not enter, the constant `Unlisted`, nor those with a build tag the flags
do not satisfy, `Tagged`), and ends with any exit code; nobody tells it what it
should have found.

**Commands** is what those commands promise, seen from outside: a tree of wanted
files, a command that was given some `.dmj` files, and the few things that may
happen to an output while it runs (`Truncate`, `Fill`, `Spill`, `Sweep`, and `End` with a
verdict that is "passed" only when the code is `Delivered`). It knows nothing of
`preExisting`, of loops or of who wrote what. **CommandRuns** instantiates it over
TestRuns: a file that nobody wants and no fault has left is not seen at all
(`SeenFile`), the verdict comes from the exit code (`SeenVerdict`), and
`ImplementsCommands` says that TestRuns with one invocation at a time implements
it, its liveness (`Ends`) included. The refinement fails as soon as a run removes
or rewrites a file it should not, forgets one it has made, or reports a build
that has not been written.

**Watch** (`main.go:311-411`) extends TestRuns: the run before the loop, the event
queue, the timer's re-arming, the callback in a goroutine of its own (which is
why `Runs` may have two active members), and directories made during the watch,
whose files give events only after `watcher.Add`. `danmuji fmt` in another
terminal rewrites a file in three steps (`FormatRead`, `FormatOpen`, `FormatWrite`):
read, truncate, write. In between the user may save and a run may read a text cut
short (`Torn`); both truncation and write are events for the watch. `Formatted`,
the text that formatting makes of another, is a constant.

**ProcessBlock** (`transpile_process.go`). A test of the generated code: build,
start, readiness by http, tcp, stdout or delay, body, cleanups in the order of
their registration or its reverse (`RunCleanup` is LIFO, as in package testing),
signal, the goroutine in `Wait`, the select between it and the timer, kill, drain,
expectations. The program is external: it listens, becomes healthy, prints, forks
a child that inherits its stdout, exits, heeds the signal or ignores it. The
deadline of readiness is looked at between two probes only; looking at the output
is over at once, a tcp connection is accepted or refused by the kernel, but
`http.Get` has no timeout, so that once it has been accepted (`Probe`) the test
waits until the program answers (`AnswerProbe`, which no fairness asks for) or
ends (`ProbeFails`). Tests with a process run in turn
(`transpile_core.go:795-811`) but share the machine's port, so that an orphan can
answer for its successor.

**Hooks** (`transpile_blocks.go:141-366` with the data-driven emitters). The state
is a syntax tree, typed statement by statement, and the code of every body. The
emitters call each other down the tree, which amounts to one walk in source order;
here it is one step per statement. What the calls hand down to the statements of a
block, the hooks collected so far and the context that table-driven blocks read,
is the block's `frame`. `RunsBefore` is what package testing makes of the code of a
body, with its cleanups; `MeantBefore` and `InScope` are what the author means.

**Polling** (`transpile_assertions.go:463-522, 638-660`). The loop that `eventually` and
`consistently` become: head, one step per expectation, decision, look at the clock,
sleep. Time is in ticks; `Gap` of them are the loop's 10 ms, and the goroutine
waits at most `Lag` of them for each of its steps. Other goroutines change what an
expectation looks at between any two steps (`Toggle`), so that a round is no
snapshot. `steady[e]` records how long an expectation has been as it is; the
properties compare it with the deadline.

**Await** (`danmujiAwait`, `emitAwaitChannel`). One channel with or without a
buffer, a sender that may block and may close, and awaits in subtests of their
own, each a select between the channel and its timer.

**TestBinary**. Tests under the scheduler of package testing: `t.Parallel` and
`-parallel`, rows of tables that follow their test's policy (and then wait until
its body has returned), `defer` against `t.Cleanup`, the goroutine count of
`no_leaks` over the goroutines alive (those a test leaves behind may end or start
others at any time, `LateEnd` and `LateGo`), the one CPU profiler, and mock
counters, whose increment is a read and a write.

**Snapshot** (`transpile_process.go:77-170`). Blocks that read, create, compare
and update the golden files of one directory, in parallel where their tests are,
over any number of `go test` runs; `os.WriteFile` truncates first, a read or a
write may fail, a run may be interrupted, people change values and remove files. A
file that cannot be read is taken for one that is not there (`ReadFails`), and
written.

**Language** (`language_blob_embed.go`, `cmd/genblob/main.go`, `Makefile`). The
working tree's grammar and compiler version, the three files a generation writes
one after the other, `Load` with its hash comparison, commits, the release gate
and `make tag`.

**Transpile** (`transpile_core.go`, `_blocks.go`, `_exec.go`, `_assertions.go`).
Again a tree of typed statements; then the collecting pass, rejection, and the
emitting pass, one statement a step: `EnterBlock` saves and sets the flags,
`LeaveBlock` puts them back, `EmitExpect` decides between assertion, condition
and text, and the first test flushes mocks and helpers.

**Diagnostics** (`errors.go`). The state is a source of words and blanks and a
tree a parser may hand back over it: nodes of six shapes in preorder, any word
left out of them. Besides blocks and flaws there are the nodes the coverage check
looks into (`checked`) and two kinds of nodes it does not: those whose text is
copied whole (`verbatim`) and those rebuilt from their fields (`fields`). `Parsed`
decides as `TranspileDanmuji` does. A flawless tree is walked by `Cover`, a node a
step, until `FindGap` meets text that no node holds or `Covered` has seen the end
of the file (`CheckTreeCoversSource`). Of a tree with flaws `Group` collects them
block by block (`findErrors`), `Pick` compares those of one group, and `Report`
ends with it (`pickBestDiagnostic`).

**Factories**, **DataBlocks**, **TableRow**, **Matchers**: the pure parts, each
walked with the steps of the code's own loops (a field, a value, a rune, an
element) and compared with a definition read off the input alone. That every
loop is a sequence of actions, and none a fold, is what makes them provable: an
induction over the input becomes an induction over the steps.
* Factories walks a file as the transpiler does: collect factories and builds in
  any order, check the builds, write the literals field by field (`Apply`). What
  authors may write (`Files`, `Fields`) is a constant.
* DataBlocks reads an each-do block field by field and a matrix value by value,
  extending one combination at a time. `Blocks`, `KeyNames` and `Values` are what
  may be written; `Missing` is the nil of a field nobody sets.
* TableRow cuts the text of a row rune by rune. Its constant `GoReading` says what
  the prefixes of a cell leave open in Go (a quote, an escape, a stack of
  brackets); `IsExpression` says that it reads as Go does, and that nothing is
  open at the cell's end. The scanner itself knows only counters of brackets.
* Matchers makes one call per behaviour. Integers and floats have `Width` and
  `Precision` bits (64 and 53 in Go), so that the rounding of `numericEqual`
  happens within reach.

Composition: Watch is TestRuns with the loop and the formatter around it, sharing
the disk, the sources and the runs; CommandRuns is TestRuns seen as Commands.
Three modules only put parts side by side that share nothing, with one busy at a
time: `MC_Blocks` (Hooks, Polling, Await and Snapshot, what blocks add to a test),
`MC_Transpile` (Transpile and the Language its parser loads) and `MC_Data` (the
four pure modules and Diagnostics). The others meet only through files and
generated text, and are kept apart.

## 3. What the runs check

`CHECK_DEADLOCK FALSE` stands where the system stops by itself: a watch that was
quit, tests that have ended, a tree at its bound, a file transpiled.

### runs (`MC_TestRuns`, `runs.cfg`)
Two files with outputs of their own (`a.dmj` and `b_test.dmj`, the two naming
forms), one of them in a directory that `./...` does not enter; a text that
transpiles, one whose code has a build tag, and one that does not transpile; all
three commands one after the other, on the tree or on one file, any fault.
* `OwnedSurvive`: a committed or built file is never removed.
* `NothingLeftBehind`: between invocations only wanted files, and those a fault
  left, are on disk.
* `PassMeansTested`: exit 0 of `test` means that every collected file was
  transpiled, and that `go test` has compiled the code of each as this run generated
  it, but for what it was not asked for (`Listed`) and what a later file of the run
  has overwritten (`Superseded`). Of those exceptions the command says nothing: see
  section 6.
* `ImplementsCommands`: TestRuns implements Commands (see section 2). For a build it
  says, among the rest, that exit 0 means that the code of every file is there.
* `ScratchGoes` (liveness): what a run made for itself goes away.

Two files are enough for "one fails, the other does not" and for the order of
the loops; overlapping is the business of the next run and of the theorem. A file
that overwrites another's output takes a third one to be of interest, which is too
large for TLC: only the theorem covers `Superseded`.

### watch (`MC_Watch`, `watch.cfg`)
Two files, one of them in a directory made during the watch, two runs that may
overlap, two changes: one during a run and one after it is what a lost event
needs. A formatting counts as two changes (truncation and write), so that a
behaviour has two saves or one formatting, and the latter can tear the text a run
reads.
* `EverySaveIsRead` (liveness): see below for fairness.
* `SettledMeansServed`: a watch at rest, with no event, timer or run, has no change
  left to read outside new directories.

Files written into a new directory before `watcher.Add` give no event; the
properties are about the others.

### process (`MC_ProcessBlock`, `process.cfg`)
Two tests in turn, each readiness mode once, with and without stop and build;
exit codes 0 and 1, one line of output, a possible child. Two tests are what it
takes for one's program to answer for the other's.
* `RegisteredMeansStopped`, `BinaryOutlivesProgram`, `ZeroMeansClean`,
  `OutputIsComplete`, `ReadyMeansOwn`, and `TestsEnd` (liveness): every test ends,
  unless a child of the program keeps the pipe open or a running program has
  accepted an http probe and never answers it.

### blocks (`MC_Blocks`, `blocks.cfg`)
What blocks add to a test, one part at a time. Trees of up to five statements;
polls of up to two expectations with windows of zero, of one tick and of twelve, a
pause of two and delays of one; three awaits and three sends, no buffer or up to
two places, timeouts of zero to two; four snapshot blocks and two golden files (a
serial and a parallel block that share one, two parallel rows that share the
other), two values, both modes, all faults.
* `HooksReachLeaves` on the regular trees (`Regular`: no leaf with a hook of its own under
  inherited ones, no hook above a block whose subtests are only table-driven: on
  those the code does something else, see `hooks_leaf` and section 6), and
  `HooksStayInScope` on all.
* `EventuallySees`: an `eventually` never goes on, or fails, over expectations that
  have held together for long enough before the deadline: a round and a pause when
  it fails, and what is left of the round before (`Blind`) while it goes on.
* `PassesAreFresh`: it passes only on answers of its last round, which began before
  the deadline.
* `ConsistentlyNotices`: no expectation is false for `Blind` ticks within the window
  of a `consistently` that goes on or passes, and it passes only after its window.
* `AwaitsTakeInOrder`: the values sent are bound or still in the channel, each
  once and in order; an await that times out takes nothing.
* `WaitsEnd` (liveness): every poll and every await comes to an end.
* `RunsRecord` (a block that passes has its value on disk, and the run that creates
  a file does not fail for it), `DriftFails`, `OnlyUpdatesOverwrite`. They leave out
  blocks whose golden file was there and could not be read: the code overwrites
  it and passes.

Two expectations are what it takes for a round to see them at different moments;
the window of twelve is longer than `Blind` for one expectation (8 ticks) and for
two (10), so that each of the bounds is reached before the deadline and after it.

### binary (`MC_TestBinary`, `binary.cfg`)
Three tests out of five bodies, two rows, `-parallel 2`: two tests that run and
one that waits. Goroutines that a test has left behind may start others up to
`MaxLate = 2` per test: one that ends and one that is new, or one more than there were,
is all that a count can tell apart.
* `SerialAlone`, `TeardownLast`, `SerialRowsAreSeen` (`verify` counts the call of
  every row of the tables above it, and the profile records every row),
  `LeakReportsTrue` (what `no_leaks` reports is a goroutine of the test itself, or of
  one whose leftovers have started others), and `TestsEnd` (liveness). The third and
  fourth are stated for serial tests; in parallel ones they are false, as section 6
  says.

### transpile (`MC_Transpile`, `transpile.cfg`)
All trees of up to four statements of twenty kinds (2.77 million states): three
nested blocks with a statement in them. The proofs cover every size. And, in the
same run though in behaviours of its own, the language blob: three grammars, two
compilers, generations interrupted anywhere.
* `FlagsMatchBlocks`, `ExpectationsCount`, `DeclarationsOnce`.
* `LoadsOwnGrammar`: the tables a build loads are its own grammar's, or the blob
  is refused. `Reverts = FALSE`: see section 6.

### data (`MC_Data`, `data.cfg`)
Factory bodies of up to three blocks with builds before or after them; each-do
blocks of up to four parts, matrices of up to three dimensions; rows of up to
three cells with quotes, escapes, brackets and bars; all pairs of numbers of
4 bits with 2-bit floats; slices of up to three elements; trees of up to five
words and inner nodes, of all six shapes, with any word left out.
* `BuildResolves`, `RowsAreWritten`, `CellsComeBack`: what is written out is what a
  direct reading of the block gives, refusals of unknown names included. A matrix
  is held to the full product of its dimensions (`MatrixIsProduct`), unless a bare
  identifier is among its values: those are the business of the run `matrix`.
* `EqualityIsExact`, `UnorderedIsPermutation`, `MatchesEveryKey`.
* `LossIsReported`: an accepted file has lost no text between the children of a
  checked node, before the first of them, or at the end of the file, and what is
  reported is the first text lost there. Text lost elsewhere (`Unnoticed`) is the
  business of the run `dropped` and of section 6.
* `ReportsAreLocal`: one report for each broken block, with no flaw inside it that
  has as telling a keyword.

The duplicates, overrides, empty parts and roundings that the loops tell apart
all occur within these bounds; five words and nodes are what a flaw in a nested
block beside another flawed block takes.

### What the code does not keep
* `watch_leftover`, `NothingLeftBehind`: `timer.Stop()` does not stop a callback
  that is running. A second run finds the first one's output, takes it for a
  committed file, writes it again after the first has removed it, and leaves it.
* `process_orphan`, `NoOrphans`: a readiness check that fails (or a `require`
  in the body, before a stop block) ends the test before the cleanup that stops
  the program is registered.
* `hooks_leaf`, `LeafHooksKept`: a hook of a leaf that inherits hooks too is
  dropped.
* `matrix`, `MatrixIsProduct`: a value that is a bare identifier is passed over with
  the key of its dimension (transpile_data.go:199), so that its combinations are
  never generated, and a dimension of only those makes no subtest at all. README:413
  promises the "Cartesian product of all dimensions".
* `dropped`, `AcceptedDropsNothing`: a word the parser has lost inside a node that is
  rebuilt from its fields, but is not in `coverageCheckedContainers` (errors.go:448;
  mock, fake and factory declarations, defaults, scenario and matrix fields), is
  dropped and the file accepted, where transpile_test.go:2804-2805 says "never succeed
  with dropped content". The list is said to be exactly that of the emitters that do
  so (errors.go:441-443). The instance has the two unchecked shapes only.

## 4. Fairness

* TestRuns: weak fairness of each invocation's steps. A command that is started
  runs on; `go test` is taken to end. Nobody has to start, edit or interrupt.
* Watch: also of the callback, the timer and the event loop. Nobody has to save
  or to quit; no fairness is put on either.
* ProcessBlock: of the test's own steps, the clock (deadlines and timers pass),
  the copying goroutine and `Wait`. The program owes nothing: it may hang, ignore
  its signal, never listen and never answer. `TestsEnd` excludes the two cases in
  which the code waits for ever: a child that keeps the pipe open, for then `Wait`
  does not return, and a running program that accepts an http probe and never
  answers, for `http.Get` has no timeout and the deadline is not looked at meanwhile.
* TestBinary: of the steps of tests and rows, which is Go's scheduler. Leaked
  goroutines need neither end nor start others.
* Polling: of the loop's steps and of the clock. `Lag` bounds the delay of a step;
  without such a bound no property about time would hold of any Go program. How
  long it is does not matter (the theorems are for every `Lag`). The conditions
  owe nothing.
* Await: of the clock and of a select with a ready case. Nobody has to send, to
  close, or to reach an await.
* The formatter has no fairness: `danmuji fmt` may be killed between its steps.
* Snapshot, Language, Transpile, Hooks and the data modules have safety
  properties only.

## 5. Proofs

For every value of the constants that satisfies the named assumptions.

* **TestRuns_proofs.** `TypeCorrect`. `OwnedFilesSurvive` assumes that a build has
  the disk to itself (`BuildsExclusive`): `OwnedSurvive` is not inductive, because
  a test run past its stat loop deletes by the list it made then. `OwnedInv` adds
  that every run that can still remove has every owned output of its files in
  that list (`OwnedRecorded`), where the loops are (`LoopsInside`), and that
  builds are alone. `CleansUpAfterItself` assumes `MaxActive = 1`; its invariant
  (`ScratchInv`) says for every position of a run that each unwanted file on disk
  is one it will still visit, or the one it is writing. For
  `PassesAreTested`, `TestedInv` says that as long as nothing has failed a run has
  generated the code of all the files it has visited, and that the output of each
  is on disk as written unless a later file of the run has the same one.
  `RunsAreCommands` is the safety part of
  `ImplementsCommands`, for one invocation at a time and any files, texts and
  faults: initial states map to initial states, and every step, under the previous
  invariants and `DeliverInv` (which file is cut short, and what a build has
  written so far), to a step of Commands or to a stutter.
  `WatchServes` is about the watch around these runs. `WatchInv` says that for every
  change outside the new directories there is an event in the queue, or the timer
  is armed, or a run is on its way to the file (`WillRead`: it has yet to look what
  is on disk, or has not come to the file in its loop), whatever the other runs
  and the formatter do.
* **ProcessBlock_proofs.** `TypeCorrect`, `RegisteredIsStopped`, `ZeroIsClean` and
  `OutputIsWhole` from `StopInv`: a registered stop is on the cleanup stack,
  at work, or has received the end of the program; and the goroutine in `Wait`
  has sent nothing before the program has ended and its output is copied.
  `DirectoryOutlives`: the temporary directory is at the bottom of the stack
  (`DirectoryInv`). `ReadyAnswers`: when a test polls, those before it are done and
  those after it have not begun, so that whoever else listens was never
  registered (`AnswersInv`).
* **TestBinary_proofs.** `BinaryTypes`. `SerialTestsAlone` from `SerialInv` (a serial
  test never pauses, so the tests after it wait for its end, and no paused test
  goes on before the last serial one has ended) and `TeardownAfterRows` from
  `RowsInv` (rows of a parallel test run between its defers and its cleanups,
  those of a serial one while its body is at the table). On top of both,
  `SerialRows`: `ProfileInv` (a profile that runs is that of a test whose
  StopCPUProfile is still to come, and a serial test past its profile has its own)
  and `TableInv` (a serial test's rows are done one after the other, and the counter
  is at their number). `LeaksAreTrue` from `LeakInv`: once a serial test has counted
  the goroutines no other test starts any, only what tests that are over have left
  behind does (`grown`), so that those of the others are no more than it counted,
  and a larger number is one of its own or one of those.
* **Snapshot_proofs.** For blocks that share names in any way, and golden files that
  could be read:
  `DriftAlwaysFails` (`DriftInv`), `RunsAlwaysRecord` (`RecordInv`: whoever is at a
  file that others share, it ends with a value that they agree on, or a failure
  says so) and `OverwritesNeedUpdate`, whose `OwnInv` stands on `RecordInv`: a
  block that shares its file with no parallel one is alone at it (`AloneAtFile`) and
  finds what it has left there.
* **Blocks_proofs**, about Polling, Await and Hooks.
  - `EventuallyLooks`, `EventuallyIsFresh`, `ConsistentlyLooks` from `PollInv` (what each
    place of the loop says about deadline, pause and delay) and `SeesInv` (how long
    an answer can have gone unseen, place by place), for any number of
    expectations, windows and delays. `AwaitsInOrder`, for any number of awaits and
    values.
  - `HooksReach` and `HooksStay`, for trees of any size. `WellNested` is the shape of
    the tree: a statement is in the blocks around the block it was typed into, and
    what stands between a block and a statement in it is in the block too. From it
    follows that the hooks in scope at a statement are those in scope at its block
    and the block's own before the statement (`ScopeStep`). `HooksInv` says of every
    block the walk has reached that its lists are in source order, that they hold
    hooks in scope and of the block itself (`FrameOK`), that its code is in order and
    has what has been emitted of its statements and hooks in scope (`CodeOK`), and,
    on a regular tree, that no hook is missing: it is on the list of a block with
    subtests, and in the code of one without (`RegularOK`). The last is stronger
    than either property says before the walk ends, and is needed because a
    collected hook that no subtest takes would violate nothing when it is lost.
* **Parsing_proofs**, about Language and Diagnostics. `BlobIsOwn`, without reverts
  (`OwnInv`): versions only grow, the blob is written before its hash, and a
  generation at work when the hash matches was built from the current grammar.
  - `LossReported`. `TreeInv` is what every tree a parser hands back has, half read
    or whole: of two nodes in preorder the later one lies within the earlier one
    or behind it (`Nested`), and what stands between a node and its parent ends
    before the node begins (`BelowParent`). From it follows that the child of a
    node under which a later descendant lies can be found (`KidAbove`), that a gap
    is text in nobody's hands (`GapIsNoticed`), that lost text stands in a gap,
    behind everything, or where the walk does not look (`LossIsSeen`),
    and that the walk meets gaps in the order of the text (`GapsInOrder`).
    `CoverInv` then says that there is no gap before the node the walk is at.
  - `ReportsLocal`. `GroupInv` says that the groups hold the flaws before the next
    node, each once and in order, that groups have different blocks, and that
    each report is of a flaw no other of its group is better than. That the
    last holds when candidates are compared with the best so far only, one
    after the other, needs `BetterDiagnostic` to be an order (`BetterIsOrder`).
* **Transpile_proofs.** `TypeCorrect`, `FlagsFollowBlocks`, `ExpectationsAreKept`,
  `DeclarationsAreWrittenOnce`, for trees of any size. `Inv` is the conjunction of
  the shape of the tree (`TreeInv`), what is untouched before the second pass
  (`Fresh`), flags and saved flags of all open blocks (`WalkInv`), what still lies
  ahead of the walk (`AheadInv`: needed because an expectation that is skipped
  would violate nothing at the moment it is skipped), declarations that are
  either listed or written (`DeclInv`) and the end of the walk (`EndInv`).

* **Data_proofs.** Six theorems about what becomes of the data an author writes.
  - `EqualityHolds`, `KeysAllMatch`, `UnorderedPairs`: the verdicts of the matchers, for
    integers and floats of any width and values of any size. `CallInv` says which
    calls there are and when one has a verdict, `KeysMet` that every key before
    the next is there and satisfied, `PairsFound` that the elements before the next
    are paired one to one with the used ones. That the greedy pairing finds a
    permutation whenever there is one is a counting argument (`NoneLeft`): without
    rounding equality is an equivalence, so that an element nobody is left for
    would make its class larger on one side than on the other.
  - `RowsComeBack`: the cells of a row are the Go expressions written. `RowInv`
    relates what the scanner knows to what Go does (`Knows`): the same quote, the
    same escape, and for each kind of bracket as many open as are on Go's stack.
    It therefore sees a bar with all counters at zero exactly when Go has nothing
    open.
  - `BuildsResolve`: `FactoriesKnown`, `BuildsKnown` and `ErrorsKnown` say what the
    collecting and checking walks have made of the items before the next
    (`Represents`: what a definition holds after a prefix of a factory's body), and
    `EmitKnown` what the literals hold (`ResolvesTo`: the value set last in a prefix
    of the layers). With nothing wrong the layers written are those of the only
    declaration there is (`LayersAgree`).
  - `BlocksAreWritten`: `EachInv` says which fields, defaults and scenarios have been
    read at each place of the block, `MatrixInv` that the combinations made so far
    are the choices of one value per dimension read, each once (`Extends`). The full
    product follows where no value is a bare identifier (`HasIdentifier`).

Assumed are only the named assumptions of the constants and, where the theorem
says so, `MaxActive = 1` or `BuildsExclusive`. For the data
modules the assumptions say that the input is what the grammar and Go's own
compiler let through: sequences of items, blocks and fields (`FactoriesAssumption`,
`DataBlocksAssumption`), calls with values that their types have
(`MatchersAssumption`), and cells that are Go expressions (`TableRowAssumption`). The
theorems are about `MatchersSpec`, `RowSpec`, `FactoriesSpec` and `DataSpec`; the run
`data` puts these side by side, sharing nothing.

Only model-checked: all liveness (outside this prover's reach), the `Ends` part of
`ImplementsCommands` with it. What a recursive definition computes cannot be
unfolded by these provers, and the library's induction theorems cannot be
instantiated. Recursion of the code is therefore a walk with one step per node
(Hooks, Transpile, Diagnostics), whose invariant does the induction; where a least
element is all that is needed, `LeastExists` gives it (`TopLevelBlock` is a recursive
function of which `ReportsLocal` uses only that it depends on the tree alone).

## 6. Other disagreements met while reading

Not turned into runs; each was seen in the code against the line quoted.

* Command: ctrl+c leaves generated files behind (README:76 "cleans up generated
  files after"). `danmuji test` ends with exit 0 although files it has collected
  and transpiled were never compiled: those with only integration or e2e blocks,
  which get a build tag (transpile_fixtures.go:1095-1111), unless the flags ask
  for it; those in `testdata`, `_x`, `.x` and nested modules, which the walk
  enters (main.go:157-176) and `./...` does not; and `foo.dmj` beside
  `foo_test.dmj`, which have one output (README:71), so that the later one wins.
  Files put into a new directory before it is watched start no run (main.go:311).
  A committed output is overwritten with the current code.
* Process: a program that accepts an http probe and never answers hangs the test
  past the deadline of 30 seconds (transpile_process.go:421-423), and with it,
  until the `-timeout` of `go test`, all others; a child that keeps the pipe
  defeats the stop timeout (README:657); a program left on the port answers the
  next test's probe (README:653).
* Hooks above blocks whose subtests are only table-driven run once for the group
  (README:310). In parallel tests `no_leaks` counts other tests' goroutines and
  can mask its own leak (README:576), in serial ones it can take a goroutine that
  another test's leftovers have started for a leak, and CPU profiles disturb each
  other (README:554).
* Snapshots: any error of ReadFile means "create" (transpile_process.go:155-161),
  so that a golden file that is there but cannot be read (permissions, too many
  open files) is overwritten without DANMUJI_UPDATE_SNAPSHOTS and the block passes
  whatever has changed; the errors of MkdirAll and WriteFile are ignored, so that
  in a read-only directory without golden files a block passes every time,
  "created" every time, and nothing is ever compared (README:627); parallel rows
  of one block share a golden file and can read what another has truncated.
* Release: after a grammar is reverted, an interrupted generation can leave the
  tables of the other grammar under the old hash (language_blob_embed.go:17-19).
  `make tag` tags HEAD while its gate tests the working tree (Makefile:26-37).
* Pipeline: expectations directly in benchmark, load, process, stop or profile
  blocks are passed over; blocks nested in eventually and property leave bare
  calls; in an eventually inside exec a bare `expect ok()` becomes a constant;
  a `then` in a benchmark becomes `b.Run` with a `func(b *testing.T)`, which does
  not compile; files with only a load block
  lose their mocks. The file-wide imports are a single list (`injectImports`,
  transpile_fixtures.go:1026-1093): the aliases in an import block are dropped, and
  of several single imports only the first is known to it.
* Polling: an `eventually` makes no last check after its last pause, so that a
  condition that comes to hold within it is missed, and `within 0s` evaluates
  nothing at all; one without expectations always passes; a round is not atomic,
  so that it can pass on answers that never held together; a `consistently` may
  fail on an answer up to a pause after its window.
* Await: a closed channel gives the zero value at once, without a word; with
  a value and the timeout both ready either is taken.
* `fmt`: it does not look at `HasError`, so that it formats the tree of a broken
  file; comments directly in a block are lost; lines of a raw string gain a tab
  each time; it stops at the first file that fails; and a save between its read and
  its write is overwritten.
* Coverage check (transpile_test.go:2805 "never succeed with dropped content"): besides
  what the run `dropped` shows, text before the root's own start, or behind the last
  child of an inner node, is not looked for.
* Processes: `splitProcessArgs` trims quotes off Go source text and treats escapes a
  second time.
* Factories: a second `defaults` replaces the first; cyclic factories do not
  terminate; builds nested in a factory declaration are not validated.
* Data: a `||` outside quotes and brackets cuts a table cell; cells are copied as
  raw text, so that duration literals in them are not transpiled; rows with fewer
  cells do not compile.
* Matchers: `matches` on an unexported field panics; equality while polling is
  lax about numeric types where `assert.Equal` is strict; the greedy
  `unordered_equal` can miss a permutation where rounding makes equality
  intransitive.

## 7. Not modelled

* The grammar (`grammar.go`, `go_grammar.go`, some 3,500 lines) and its generator:
  data without state. What the parser makes of a text is an input of Transpile,
  Diagnostics and the data modules.
* The text that `fmt` writes (`format.go`): a recursive printer whose questions are
  about characters. `init` writes one file when it is absent.
* The wording of a diagnostic and the expectations derived from grammar rules
  behind it (`expandRule`, `matchExpansions` in `errors.go`).
* Imports, build constraints and line directives of the emitted file.
* Argument splitting and environments of processes; spies, fakes and the return
  values of mocks; profiles other than cpu.
* The inside of `needs` and `load`: calls of libraries outside the repository.
* Builds nested in factories; NaN and typed nested slices in the matchers.
* The content of committed outputs, beyond that somebody put it there.

## 8. Plan

Done: the modules of section 2 and the proofs of section 5. What is left, in the
order of what it would add:

1. Spies and fakes in TestBinary, with the return values of mocks; profile rates.
2. Commands for overlapping invocations: which of its promises survive two test
   runs at once (`watch_leftover` shows one that does not).
3. Builds nested in factories, and the arguments of a process.
