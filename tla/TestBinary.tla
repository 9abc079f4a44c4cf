----------------------------- MODULE TestBinary -----------------------------
(***************************************************************************)
(* The test functions danmuji generates, under the scheduler of package    *)
(* testing.  A test calls t.Parallel before anything else unless           *)
(* shouldParallelizeTest says no; the subtests of a table-driven block     *)
(* follow its policy, so those of a parallel test wait until its body has  *)
(* returned.  `profile` cleans up in a defer, `after all` and `no_leaks`   *)
(* in a t.Cleanup, and all tests share one process: its goroutines and its *)
(* CPU profiler.                                                           *)
(***************************************************************************)
EXTENDS Integers, Sequences, FiniteSets

CONSTANTS
  N,            \* the test functions of the binary are 1..N, in source order
  Plans,        \* what a test can be: records [serial, body]
  Rows,         \* rows of its table-driven block
  MaxParallel,  \* -parallel
  MaxLate       \* bound on the goroutines that those of a test that is over may have running

(* What the body of a test does, as far as this model looks at it.  "go"   *)
(* and "stop" start a goroutine in the code under test and end it; with    *)
(* "require" the test may end there.                                       *)
Ops == {"process", "setenv", "profile", "no_leaks", "after_all", "rows", "verify", "go", "stop", "require"}

ASSUME BinaryAssumption ==
  /\ N \in Nat /\ Rows \in Nat /\ MaxParallel \in Nat \ {0} /\ MaxLate \in Nat
  /\ Plans \subseteq [serial : BOOLEAN, body : Seq(Ops)]

Tests == 1..N
Nobody == 0

VARIABLES
  plan,     \* plan[i]: how test i is written; serial: it has the tag
  phase,    \* where test i is
  at,       \* the operation its body is at
  defers, cleanups, \* what is still to run at its end, newest last
  row,      \* row[i][k]: where row k of its table is
  read,     \* row[i][k] has read the mock's counter as this
  calls,    \* the counter of the test's mock
  seen,     \* what verify read (history), -1 before
  before,   \* _goroutinesBefore
  live,     \* goroutines its code under test has running
  grown,    \* a goroutine that test i has left behind has started another (history)
  leaking,  \* whose goroutines were running when no_leaks of test i looked (history)
  reported, \* no_leaks failed the test
  cpu,      \* the test that records the CPU profile
  torn      \* what after_all tears down is gone

tableVars == <<row, read, calls>>
leakVars == <<before, live, grown, leaking, reported>>
vars == <<plan, phase, at, defers, cleanups, tableVars, seen, leakVars, cpu, torn>>

Uses(p, op) == \E n \in DOMAIN p.body : p.body[n] = op

(* Mutant: only the tags count. *)
ShouldParallelizeByTag(p) == ~p.serial

ShouldParallelizeTest(p) == ~p.serial /\ ~Uses(p, "process") /\ ~Uses(p, "setenv")

Parallel(i) == ShouldParallelizeTest(plan[i])
RowDone(i) == \A k \in 1..Rows : row[i][k] = "done"
RowBusy(i, k) == row[i][k] \in {"running", "halfway"}

(* Who counts against -parallel: a test that waits for its parallel rows   *)
(* does not.                                                               *)
Holds(i) ==
  \/ phase[i] \in {"running", "defers"}
  \/ phase[i] = "cleanups" /\ ~(Parallel(i) /\ row[i] # [k \in 1..Rows |-> "none"])
InUse == {x \in Tests \X {0} : Parallel(x[1]) /\ Holds(x[1])}
           \cup {x \in Tests \X (1..Rows) : Parallel(x[1]) /\ RowBusy(x[1], x[2])}

(* The goroutines of the process, but for those that are always there: of  *)
(* tests, of rows and of the code under test.                              *)
Goroutines ==
  {g \in {"test"} \X Tests \X {0} : phase[g[2]] \notin {"queued", "done"}}
    \cup {g \in {"row"} \X Tests \X (1..Rows) : row[g[2]][g[3]] \in {"paused", "running", "halfway"}}
    \cup UNION {{"code"} \X {i} \X (1..live[i]) : i \in Tests}
NumGoroutine == Cardinality(Goroutines)

Init ==
  /\ plan \in [Tests -> Plans]
  /\ phase = [i \in Tests |-> "queued"]
  /\ at = [i \in Tests |-> 1]
  /\ defers = [i \in Tests |-> <<>>]
  /\ cleanups = [i \in Tests |-> <<>>]
  /\ row = [i \in Tests |-> [k \in 1..Rows |-> "none"]]
  /\ read = [i \in Tests |-> [k \in 1..Rows |-> 0]]
  /\ calls = [i \in Tests |-> 0]
  /\ seen = [i \in Tests |-> -1]
  /\ before = [i \in Tests |-> 0]
  /\ live = [i \in Tests |-> 0]
  /\ grown = [i \in Tests |-> FALSE]
  /\ leaking = [i \in Tests |-> {}]
  /\ reported = [i \in Tests |-> FALSE]
  /\ cpu = Nobody
  /\ torn = [i \in Tests |-> FALSE]

-----------------------------------------------------------------------------
(* Tests start in order; one that calls t.Parallel waits for all the       *)
(* others to have started, and the serial ones to have ended.              *)
Start(i) ==
  /\ phase[i] = "queued"
  /\ \A j \in 1..(i - 1) : phase[j] \in {"paused", "done"}
  /\ phase' = [phase EXCEPT ![i] = IF Parallel(i) THEN "paused" ELSE "running"]
  /\ UNCHANGED <<plan, at, defers, cleanups, tableVars, seen, leakVars, cpu, torn>>

Resume(i) ==
  /\ phase[i] = "paused"
  /\ \A j \in Tests : phase[j] # "queued" /\ (~Parallel(j) => phase[j] = "done")
  /\ Cardinality(InUse) < MaxParallel
  /\ phase' = [phase EXCEPT ![i] = "running"]
  /\ UNCHANGED <<plan, at, defers, cleanups, tableVars, seen, leakVars, cpu, torn>>

At(i, op) == phase[i] = "running" /\ at[i] <= Len(plan[i].body) /\ plan[i].body[at[i]] = op
Advance(i) == at' = [at EXCEPT ![i] = @ + 1] /\ UNCHANGED <<plan, phase>>

(* Mutant: the test's own goroutine is not counted. *)
NoLeaksWithoutOwn(i) ==
  /\ At(i, "no_leaks") /\ Advance(i)
  /\ before' = [before EXCEPT ![i] = NumGoroutine - 1]
  /\ cleanups' = [cleanups EXCEPT ![i] = Append(@, "no_leaks")]
  /\ UNCHANGED <<defers, tableVars, seen, live, grown, leaking, reported, cpu, torn>>

(* emitNoLeaks *)
NoLeaks(i) ==
  /\ At(i, "no_leaks") /\ Advance(i)
  /\ before' = [before EXCEPT ![i] = NumGoroutine]
  /\ cleanups' = [cleanups EXCEPT ![i] = Append(@, "no_leaks")]
  /\ UNCHANGED <<defers, tableVars, seen, live, grown, leaking, reported, cpu, torn>>

(* emitProfile, cpu: the error of StartCPUProfile is dropped. *)
Profile(i) ==
  /\ At(i, "profile") /\ Advance(i)
  /\ cpu' = IF cpu = Nobody THEN i ELSE cpu
  /\ defers' = [defers EXCEPT ![i] = Append(@, "profile")]
  /\ UNCHANGED <<cleanups, tableVars, seen, leakVars, torn>>

(* Mutant: `after all` as a defer. *)
AfterAllDeferred(i) ==
  /\ At(i, "after_all") /\ Advance(i)
  /\ defers' = [defers EXCEPT ![i] = Append(@, "after_all")]
  /\ UNCHANGED <<cleanups, tableVars, seen, leakVars, cpu, torn>>

(* emitLifecycleHook *)
AfterAll(i) ==
  /\ At(i, "after_all") /\ Advance(i)
  /\ cleanups' = [cleanups EXCEPT ![i] = Append(@, "after_all")]
  /\ UNCHANGED <<defers, tableVars, seen, leakVars, cpu, torn>>

(* Mutant: the body waits for the rows it has started. *)
TableAwaited(i) ==
  /\ At(i, "rows")
  /\ IF RowDone(i) THEN Advance(i) /\ UNCHANGED row
     ELSE /\ \A k \in 1..Rows : row[i][k] = "none"
          /\ row' = [row EXCEPT ![i] = [k \in 1..Rows |-> "paused"]]
          /\ UNCHANGED <<plan, phase, at>>
  /\ UNCHANGED <<defers, cleanups, read, calls, seen, leakVars, cpu, torn>>

(* Mutant: the rows are parallel whatever the test is. *)
TableParallel(i) ==
  /\ At(i, "rows") /\ Advance(i)
  /\ row' = [row EXCEPT ![i] = [k \in 1..Rows |-> "paused"]]
  /\ UNCHANGED <<defers, cleanups, read, calls, seen, leakVars, cpu, torn>>

(* The table: its rows are paused subtests of a parallel test, and run on  *)
(* the spot, one by one, in a serial one.                                  *)
Table(i) ==
  /\ At(i, "rows")
  /\ IF Parallel(i)
       THEN Advance(i) /\ row' = [row EXCEPT ![i] = [k \in 1..Rows |-> "paused"]]
       ELSE IF RowDone(i) THEN Advance(i) /\ UNCHANGED row
       ELSE /\ \E k \in 1..Rows :
                 /\ row[i][k] = "none" /\ \A l \in 1..(k - 1) : row[i][l] = "done"
                 /\ row' = [row EXCEPT ![i][k] = "running"]
            /\ UNCHANGED <<plan, phase, at>>
  /\ UNCHANGED <<defers, cleanups, read, calls, seen, leakVars, cpu, torn>>

ResumeRow(i, k) ==
  /\ phase[i] = "rows" /\ row[i][k] = "paused"
  /\ Cardinality(InUse) < MaxParallel
  /\ row' = [row EXCEPT ![i][k] = "running"]
  /\ UNCHANGED <<plan, phase, at, defers, cleanups, read, calls, seen, leakVars, cpu, torn>>

(* A row calls the mock once: m.SaveCalls++ reads and writes without a     *)
(* lock (buildMockDecl).                                                   *)
RowReads(i, k) ==
  /\ row[i][k] = "running"
  /\ read' = [read EXCEPT ![i][k] = calls[i]]
  /\ row' = [row EXCEPT ![i][k] = "halfway"]
  /\ UNCHANGED <<plan, phase, at, defers, cleanups, calls, seen, leakVars, cpu, torn>>

RowWrites(i, k) ==
  /\ row[i][k] = "halfway"
  /\ calls' = [calls EXCEPT ![i] = read[i][k] + 1]
  /\ row' = [row EXCEPT ![i][k] = "done"]
  /\ UNCHANGED <<plan, phase, at, defers, cleanups, read, seen, leakVars, cpu, torn>>

(* emitVerify: `verify repo.Save called N times`. *)
Verify(i) ==
  /\ At(i, "verify") /\ Advance(i)
  /\ seen' = [seen EXCEPT ![i] = calls[i]]
  /\ UNCHANGED <<defers, cleanups, tableVars, leakVars, cpu, torn>>

(* The code under test, and what else a body may do. *)
Go(i) ==
  /\ At(i, "go") /\ Advance(i)
  /\ live' = [live EXCEPT ![i] = @ + 1]
  /\ UNCHANGED <<defers, cleanups, tableVars, seen, before, grown, leaking, reported, cpu, torn>>

Stop(i) ==
  /\ At(i, "stop") /\ Advance(i)
  /\ live' = [live EXCEPT ![i] = 0]
  /\ UNCHANGED <<defers, cleanups, tableVars, seen, before, grown, leaking, reported, cpu, torn>>

(* A goroutine a test has left behind may end later, or start another.     *)
LateGo(i) ==
  /\ phase[i] = "done" /\ live[i] > 0 /\ live[i] < MaxLate
  /\ live' = [live EXCEPT ![i] = @ + 1]
  /\ grown' = [grown EXCEPT ![i] = TRUE]
  /\ UNCHANGED <<plan, phase, at, defers, cleanups, tableVars, seen, before, leaking, reported, cpu, torn>>

LateEnd(i) ==
  /\ phase[i] = "done" /\ live[i] > 0
  /\ live' = [live EXCEPT ![i] = @ - 1]
  /\ UNCHANGED <<plan, phase, at, defers, cleanups, tableVars, seen, before, grown, leaking, reported, cpu, torn>>

Plain(i) ==
  /\ At(i, "process") \/ At(i, "setenv") \/ At(i, "require")
  /\ Advance(i)
  /\ UNCHANGED <<defers, cleanups, tableVars, seen, leakVars, cpu, torn>>

(* The body returns, or a require ends it. *)
EndBody(i) ==
  /\ phase[i] = "running"
  /\ at[i] > Len(plan[i].body) \/ At(i, "require")
  /\ phase' = [phase EXCEPT ![i] = "defers"]
  /\ UNCHANGED <<plan, at, defers, cleanups, tableVars, seen, leakVars, cpu, torn>>

(* The deferred functions run first.  StopCPUProfile stops the profile,    *)
(* whoever started it.                                                     *)
RunDefer(i) ==
  /\ phase[i] = "defers"
  /\ IF defers[i] = <<>>
       THEN /\ phase' = [phase EXCEPT ![i] = IF row[i] = [k \in 1..Rows |-> "none"] \/ RowDone(i)
                                               THEN "cleanups" ELSE "rows"]
            /\ UNCHANGED <<defers, cpu, torn>>
       ELSE LET d == defers[i][Len(defers[i])] IN
            /\ defers' = [defers EXCEPT ![i] = SubSeq(@, 1, Len(@) - 1)]
            /\ cpu' = IF d = "profile" THEN Nobody ELSE cpu
            /\ torn' = [torn EXCEPT ![i] = @ \/ d = "after_all"]
            /\ UNCHANGED phase
  /\ UNCHANGED <<plan, at, cleanups, tableVars, seen, leakVars>>

(* Then the parallel rows, all of which the test waits for ... *)
EndRows(i) ==
  /\ phase[i] = "rows" /\ RowDone(i)
  /\ phase' = [phase EXCEPT ![i] = "cleanups"]
  /\ UNCHANGED <<plan, at, defers, cleanups, tableVars, seen, leakVars, cpu, torn>>

(* ... and then the cleanups. *)
RunCleanup(i) ==
  /\ phase[i] = "cleanups"
  /\ IF cleanups[i] = <<>>
       THEN phase' = [phase EXCEPT ![i] = "done"] /\ UNCHANGED <<cleanups, leaking, reported, torn>>
       ELSE LET c == cleanups[i][Len(cleanups[i])] IN
            /\ cleanups' = [cleanups EXCEPT ![i] = SubSeq(@, 1, Len(@) - 1)]
            /\ IF c = "no_leaks"
                 THEN /\ leaking' = [leaking EXCEPT ![i] = {j \in Tests : live[j] > 0}]
                      /\ reported' = [reported EXCEPT ![i] = NumGoroutine > before[i]]
                 ELSE UNCHANGED <<leaking, reported>>
            /\ torn' = [torn EXCEPT ![i] = @ \/ c = "after_all"]
            /\ UNCHANGED phase
  /\ UNCHANGED <<plan, at, defers, tableVars, seen, before, live, grown, cpu>>

BodyStep(i) ==
  \/ NoLeaks(i) \/ Profile(i) \/ AfterAll(i) \/ Table(i) \/ Verify(i) \/ Go(i) \/ Stop(i) \/ Plain(i)
  \/ EndBody(i)
TestStep(i) == Start(i) \/ Resume(i) \/ BodyStep(i) \/ RunDefer(i) \/ EndRows(i) \/ RunCleanup(i)
RowStep(i, k) == ResumeRow(i, k) \/ RowReads(i, k) \/ RowWrites(i, k)

AllDone == \A i \in Tests : phase[i] = "done"
Terminated == AllDone /\ UNCHANGED vars

Next ==
  \/ \E i \in Tests : TestStep(i) \/ LateGo(i) \/ LateEnd(i)
  \/ \E i \in Tests, k \in 1..Rows : RowStep(i, k)
  \/ Terminated

(* The runtime runs every goroutine that can run. *)
Fairness ==
  /\ \A i \in Tests : WF_vars(TestStep(i))
  /\ \A i \in Tests, k \in 1..Rows : WF_vars(RowStep(i, k))

Spec == Init /\ [][Next]_vars /\ Fairness

-----------------------------------------------------------------------------
Phases == {"queued", "paused", "running", "defers", "rows", "cleanups", "done"}

TypeOK ==
  /\ plan \in [Tests -> Plans]
  /\ phase \in [Tests -> Phases]
  /\ at \in [Tests -> Nat \ {0}]
  /\ defers \in [Tests -> Seq({"profile", "after_all"})]
  /\ cleanups \in [Tests -> Seq({"no_leaks", "after_all"})]
  /\ row \in [Tests -> [1..Rows -> {"none", "paused", "running", "halfway", "done"}]]
  /\ read \in [Tests -> [1..Rows -> Nat]]
  /\ calls \in [Tests -> Nat]
  /\ seen \in [Tests -> Int]
  /\ before \in [Tests -> Nat]
  /\ live \in [Tests -> Nat]
  /\ grown \in [Tests -> BOOLEAN]
  /\ leaking \in [Tests -> SUBSET Tests]
  /\ reported \in [Tests -> BOOLEAN]
  /\ cpu \in Tests \cup {Nobody}
  /\ torn \in [Tests -> BOOLEAN]

(* A test with the tag @serial, with a process or with Setenv has the      *)
(* binary to itself: no statement of another test, no row and no cleanup   *)
(* runs between two of its own (README.md:320, transpile_core.go:795-811). *)
Busy(i) == phase[i] \in {"running", "defers", "rows", "cleanups"}
WantsAlone(i) == plan[i].serial \/ Uses(plan[i], "process") \/ Uses(plan[i], "setenv")
SerialAlone == \A i, j \in Tests : WantsAlone(i) /\ Busy(i) /\ Busy(j) => i = j

(* What `after all` tears down is there as long as a row may want it, in   *)
(* parallel tests too: it becomes a t.Cleanup (README.md:310).             *)
TeardownLast == \A i \in Tests : torn[i] => \A k \in 1..Rows : row[i][k] \in {"none", "done"}

(* In a serial test a verify below the table counts the call of every row. *)
TableAbove(p) ==
  \A n \in DOMAIN p.body : p.body[n] = "verify" => \E m \in 1..(n - 1) : p.body[m] = "rows"
VerifySeesRows == \A i \in Tests : plan[i].serial /\ TableAbove(plan[i]) /\ seen[i] # -1 => seen[i] = Rows

(* In a serial test a leak that is reported is one (README.md:576): a      *)
(* goroutine of that test is still there, or one of a test that left some  *)
(* behind which have gone on to start others.                              *)
LeakReportsTrue ==
  \A i \in Tests : plan[i].serial /\ reported[i] => \E j \in leaking[i] : j = i \/ grown[j]

(* "Captures runtime/pprof profiles inline with your tests"                *)
(* (README.md:554): in a serial test, the statements and rows below the    *)
(* profile are recorded, and in the test's own profile.                    *)
Profiled(i) == \E n \in 1..(at[i] - 1) : n <= Len(plan[i].body) /\ plan[i].body[n] = "profile"
ProfileCovers ==
  \A i \in Tests :
    plan[i].serial /\ Profiled(i) /\ (phase[i] = "running" \/ \E k \in 1..Rows : RowBusy(i, k)) => cpu = i

(* What a serial test asks about its rows covers them all: the calls that  *)
(* verify counts, and the profile it records.                              *)
SerialRowsAreSeen == VerifySeesRows /\ ProfileCovers

(* Every test ends: paused tests, waiting rows and -parallel never block   *)
(* one another.                                                            *)
TestsEnd == <>AllDone
=============================================================================
