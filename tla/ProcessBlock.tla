---------------------------- MODULE ProcessBlock ----------------------------
(***************************************************************************)
(* The code a `process` block turns into (emitProcess, emitReady,          *)
(* emitImplicitProcessCleanup, emitStop of transpile_process.go): a test   *)
(* builds and starts a program, polls until it is ready, runs its          *)
(* statements, and stops the program from a t.Cleanup.  Tests with a       *)
(* process run one after the other in a test binary (shouldParallelizeTest *)
(* never makes them parallel); their programs share the machine's port.    *)
(***************************************************************************)
EXTENDS Naturals, Integers, Sequences, SequencesExt

CONSTANTS
  N,          \* the tests of the binary are 1..N
  Plans,      \* how a test can be written: records [ready, stop, build]
  ExitCodes,  \* the codes a program can exit with, other than by a signal
  MaxLines,   \* bound on the lines a program prints
  Forks       \* a program may leave a child behind that shares its stdout

Modes == {"none", "http", "tcp", "stdout", "delay"}

ASSUME ProcessAssumption ==
  /\ N \in Nat
  /\ Plans \subseteq [ready : Modes, stop : BOOLEAN, build : BOOLEAN]
  /\ 0 \in ExitCodes /\ ExitCodes \subseteq Nat
  /\ MaxLines \in Nat
  /\ Forks \in BOOLEAN

Tests == 1..N
BySignal == -1      \* ExitCode() of a process a signal has ended
Nobody == 0         \* who listens on the port when no program does

VARIABLES
  plan,       \* plan[i]: how test i is written
  pc,         \* where test i is
  failed,     \* t.Failed()
  cleanups,   \* the t.Cleanup stack, newest last
  reg,        \* the cleanup that stops the program was registered (history)
  proc,       \* "none", "running", "exited"
  code,       \* what the program's exit status says
  asked,      \* the program has been sent the signal
  helper,     \* a child of the program is alive and holds its stdout
  written,    \* lines the program has printed
  captured,   \* lines copied to the syncBuffer
  port,       \* whose program listens on the port
  healthy,    \* the program's endpoint answers 200
  answered,   \* whose program answered the readiness probe (history)
  probe,      \* whose program has accepted the readiness request in flight
  expired,    \* the readiness deadline, or the delay, has passed
  waiter,     \* the goroutine in Wait: "none", "waiting", "sent", "received"
  timer,      \* the time.After of the cleanup: "off", "armed", "fired"
  exitCode    \* the variable the stop block's expectations read

testVars == <<plan, pc, failed, cleanups, reg, answered, probe, expired, timer, exitCode>>
progVars == <<proc, code, helper, written, port, healthy>>
vars == <<testVars, progVars, asked, captured, waiter>>

Goto(i, label) == pc' = [pc EXCEPT ![i] = label]

(* require fails: the test ends where it is and its cleanups run. *)
FailNow(i) == Goto(i, "cleanup") /\ failed' = [failed EXCEPT ![i] = TRUE]

Init ==
  /\ plan \in [Tests -> Plans]
  /\ pc = [i \in Tests |-> "begin"]
  /\ failed = [i \in Tests |-> FALSE]
  /\ cleanups = [i \in Tests |-> <<>>]
  /\ reg = [i \in Tests |-> FALSE]
  /\ proc = [i \in Tests |-> "none"]
  /\ code = [i \in Tests |-> 0]
  /\ asked = [i \in Tests |-> FALSE]
  /\ helper = [i \in Tests |-> FALSE]
  /\ written = [i \in Tests |-> 0]
  /\ captured = [i \in Tests |-> 0]
  /\ port = Nobody
  /\ healthy = [i \in Tests |-> FALSE]
  /\ answered = [i \in Tests |-> Nobody]
  /\ probe = [i \in Tests |-> Nobody]
  /\ expired = [i \in Tests |-> FALSE]
  /\ waiter = [i \in Tests |-> "none"]
  /\ timer = [i \in Tests |-> "off"]
  /\ exitCode = [i \in Tests |-> 0]

-----------------------------------------------------------------------------
(* t.TempDir registers its own cleanup; then go build, which may fail.     *)
Build(i) ==
  /\ pc[i] = "begin"
  /\ \A j \in 1..(i - 1) : pc[j] = "done"
  /\ IF plan[i].build
       THEN /\ cleanups' = [cleanups EXCEPT ![i] = Append(@, "tempdir")]
            /\ FailNow(i) \/ (Goto(i, "start") /\ UNCHANGED failed)
       ELSE Goto(i, "start") /\ UNCHANGED <<failed, cleanups>>
  /\ UNCHANGED <<plan, reg, answered, probe, expired, timer, exitCode, progVars, asked, captured,
                 waiter>>

(* require.NoError(t, cmd.Start()) *)
Start(i) ==
  /\ pc[i] = "start"
  /\ \/ FailNow(i) /\ UNCHANGED proc
     \/ /\ proc' = [proc EXCEPT ![i] = "running"]
        /\ Goto(i, IF plan[i].ready = "none" THEN "register" ELSE "poll")
        /\ UNCHANGED failed
  /\ UNCHANGED <<plan, cleanups, reg, answered, probe, expired, timer, exitCode, code, helper,
                 written, port, healthy, asked, captured, waiter>>

(* Who answers a probe at once: whoever listens on the port, or this       *)
(* test's own captured output.                                             *)
Answers(i, j) ==
  \/ plan[i].ready = "tcp" /\ port = j
  \/ plan[i].ready = "stdout" /\ j = i /\ captured[i] > 0

(* A probe that succeeds before the deadline ends the loop; after it,      *)
(* require.True fails.  `ready delay` only sleeps.                         *)
Ready(i) ==
  /\ pc[i] = "poll" /\ ~expired[i]
  /\ \E j \in Tests : Answers(i, j) /\ answered' = [answered EXCEPT ![i] = j]
  /\ Goto(i, "register")
  /\ UNCHANGED <<plan, failed, cleanups, reg, probe, expired, timer, exitCode, progVars, asked,
                 captured, waiter>>

(* http.Get, which has no timeout: once whoever listens on the port has    *)
(* accepted, the test waits for the answer.  A refused connection is a     *)
(* failed probe.                                                           *)
Probe(i) ==
  /\ pc[i] = "poll" /\ plan[i].ready = "http" /\ ~expired[i] /\ port # Nobody
  /\ probe' = [probe EXCEPT ![i] = port]
  /\ Goto(i, "probing")
  /\ UNCHANGED <<plan, failed, cleanups, reg, answered, expired, timer, exitCode, progVars, asked,
                 captured, waiter>>

(* The program answers, with 200 when it is healthy.  A 200 counts even    *)
(* after the deadline, which is only looked at between two probes.         *)
AnswerProbe(i, j) ==
  /\ pc[i] = "probing" /\ probe[i] = j /\ proc[j] = "running"
  /\ IF healthy[j]
       THEN answered' = [answered EXCEPT ![i] = j] /\ Goto(i, "register")
       ELSE Goto(i, "poll") /\ UNCHANGED answered
  /\ probe' = [probe EXCEPT ![i] = Nobody]
  /\ UNCHANGED <<plan, failed, cleanups, reg, expired, timer, exitCode, progVars, asked, captured,
                 waiter>>

(* The program has ended without an answer: the connection is reset. *)
ProbeFails(i) ==
  /\ pc[i] = "probing" /\ proc[probe[i]] # "running"
  /\ probe' = [probe EXCEPT ![i] = Nobody]
  /\ Goto(i, "poll")
  /\ UNCHANGED <<plan, failed, cleanups, reg, answered, expired, timer, exitCode, progVars, asked,
                 captured, waiter>>

DeadlinePasses(i) ==
  /\ pc[i] \in {"poll", "probing"} /\ ~expired[i]
  /\ expired' = [expired EXCEPT ![i] = TRUE]
  /\ UNCHANGED <<plan, pc, failed, cleanups, reg, answered, probe, timer, exitCode, progVars, asked,
                 captured, waiter>>

(* The loop's condition, between two probes. *)
EndPoll(i) ==
  /\ pc[i] = "poll" /\ expired[i]
  /\ IF plan[i].ready = "delay" THEN Goto(i, "register") /\ UNCHANGED failed ELSE FailNow(i)
  /\ UNCHANGED <<plan, cleanups, reg, answered, probe, expired, timer, exitCode, progVars, asked,
                 captured, waiter>>

RegisterStop(i) ==
  /\ cleanups' = [cleanups EXCEPT ![i] = Append(@, "process")]
  /\ reg' = [reg EXCEPT ![i] = TRUE]

(* Without a stop block the cleanup is registered right here. *)
Register(i) ==
  /\ pc[i] = "register"
  /\ IF plan[i].stop THEN UNCHANGED <<cleanups, reg>> ELSE RegisterStop(i)
  /\ Goto(i, "body")
  /\ UNCHANGED <<plan, failed, answered, probe, expired, timer, exitCode, progVars, asked,
                 captured, waiter>>

(* The statements between the process block and the stop block (or the     *)
(* end of the test); a require among them may fail.                        *)
Body(i) ==
  /\ pc[i] = "body"
  /\ \/ FailNow(i) /\ UNCHANGED <<cleanups, reg>>
     \/ /\ IF plan[i].stop THEN RegisterStop(i) ELSE UNCHANGED <<cleanups, reg>>
        /\ Goto(i, "cleanup")
        /\ UNCHANGED failed
  /\ UNCHANGED <<plan, answered, probe, expired, timer, exitCode, progVars, asked, captured,
                 waiter>>

(* Mutant: the cleanups run in the order they were registered. *)
RunCleanupInOrder(i) ==
  /\ pc[i] = "cleanup"
  /\ IF cleanups[i] = <<>>
       THEN Goto(i, "done") /\ UNCHANGED cleanups
       ELSE /\ cleanups' = [cleanups EXCEPT ![i] = Tail(@)]
            /\ IF Head(cleanups[i]) = "process" THEN Goto(i, "signal") ELSE UNCHANGED pc
  /\ UNCHANGED <<plan, failed, reg, answered, probe, expired, timer, exitCode, progVars, asked,
                 captured, waiter>>

(* testing runs the cleanups, last registered first. *)
RunCleanup(i) ==
  /\ pc[i] = "cleanup"
  /\ IF cleanups[i] = <<>>
       THEN Goto(i, "done") /\ UNCHANGED cleanups
       ELSE /\ cleanups' = [cleanups EXCEPT ![i] = Front(@)]
            /\ IF Last(cleanups[i]) = "process" THEN Goto(i, "signal") ELSE UNCHANGED pc
  /\ UNCHANGED <<plan, failed, reg, answered, probe, expired, timer, exitCode, progVars, asked,
                 captured, waiter>>

(* Process.Signal, whose error is dropped, and the goroutine in Wait.      *)
Signal(i) ==
  /\ pc[i] = "signal"
  /\ asked' = [asked EXCEPT ![i] = TRUE]
  /\ waiter' = [waiter EXCEPT ![i] = "waiting"]
  /\ timer' = [timer EXCEPT ![i] = "armed"]
  /\ Goto(i, "select")
  /\ UNCHANGED <<plan, failed, cleanups, reg, answered, probe, expired, exitCode, progVars,
                 captured>>

(* The select: with both channels ready it takes either. *)
ReceiveDone(i) ==
  /\ pc[i] = "select" /\ waiter[i] = "sent"
  /\ waiter' = [waiter EXCEPT ![i] = "received"]
  /\ exitCode' = [exitCode EXCEPT ![i] = code[i]]
  /\ Goto(i, IF plan[i].stop THEN "expect" ELSE "cleanup")
  /\ UNCHANGED <<plan, failed, cleanups, reg, answered, probe, expired, timer, progVars, asked,
                 captured>>

TimerFires(i) ==
  /\ pc[i] = "select" /\ timer[i] = "armed"
  /\ timer' = [timer EXCEPT ![i] = "fired"]
  /\ UNCHANGED <<plan, pc, failed, cleanups, reg, answered, probe, expired, exitCode, progVars,
                 asked, captured, waiter>>

(* The end of a program: its port is free, its unread output stays in the  *)
(* pipe.                                                                   *)
Ends(i, status) ==
  /\ proc' = [proc EXCEPT ![i] = "exited"]
  /\ code' = [code EXCEPT ![i] = status]
  /\ port' = IF port = i THEN Nobody ELSE port
  /\ healthy' = [healthy EXCEPT ![i] = FALSE]

(* Mutant: after the timeout the cleanup gives up. *)
KillNot(i) ==
  /\ pc[i] = "select" /\ timer[i] = "fired"
  /\ exitCode' = [exitCode EXCEPT ![i] = BySignal]
  /\ Goto(i, IF plan[i].stop THEN "expect" ELSE "cleanup")
  /\ UNCHANGED <<plan, failed, cleanups, reg, answered, probe, expired, timer, progVars, asked,
                 captured, waiter>>

(* Mutant: after the timeout it waits on, without Process.Kill. *)
KillByWaiting(i) ==
  /\ pc[i] = "select" /\ timer[i] = "fired"
  /\ Goto(i, "drain")
  /\ UNCHANGED <<plan, failed, cleanups, reg, answered, probe, expired, timer, exitCode, progVars,
                 asked, captured, waiter>>

(* Process.Kill; it does nothing to a program that has just ended.         *)
Kill(i) ==
  /\ pc[i] = "select" /\ timer[i] = "fired"
  /\ IF proc[i] = "running" THEN Ends(i, BySignal) ELSE UNCHANGED <<proc, code, port, healthy>>
  /\ Goto(i, "drain")
  /\ UNCHANGED <<plan, failed, cleanups, reg, answered, probe, expired, timer, exitCode, helper,
                 written, asked, captured, waiter>>

(* Mutant: exitCode stays as it was declared. *)
DrainUnset(i) ==
  /\ pc[i] = "drain" /\ waiter[i] = "sent"
  /\ waiter' = [waiter EXCEPT ![i] = "received"]
  /\ Goto(i, IF plan[i].stop THEN "expect" ELSE "cleanup")
  /\ UNCHANGED <<plan, failed, cleanups, reg, answered, probe, expired, timer, exitCode, progVars,
                 asked, captured>>

(* Mutant: nothing receives from done after the kill. *)
DrainNot(i) ==
  /\ pc[i] = "drain"
  /\ exitCode' = [exitCode EXCEPT ![i] = BySignal]
  /\ Goto(i, IF plan[i].stop THEN "expect" ELSE "cleanup")
  /\ UNCHANGED <<plan, failed, cleanups, reg, answered, probe, expired, timer, progVars, asked,
                 captured, waiter>>

Drain(i) ==
  /\ pc[i] = "drain" /\ waiter[i] = "sent"
  /\ waiter' = [waiter EXCEPT ![i] = "received"]
  /\ exitCode' = [exitCode EXCEPT ![i] = BySignal]
  /\ Goto(i, IF plan[i].stop THEN "expect" ELSE "cleanup")
  /\ UNCHANGED <<plan, failed, cleanups, reg, answered, probe, expired, timer, progVars, asked,
                 captured>>

(* `expect exit_code == 0` and what else the stop block expects.           *)
Expect(i) ==
  /\ pc[i] = "expect"
  /\ \/ exitCode[i] = 0 /\ UNCHANGED failed
     \/ failed' = [failed EXCEPT ![i] = TRUE]
  /\ Goto(i, "cleanup")
  /\ UNCHANGED <<plan, cleanups, reg, answered, probe, expired, timer, exitCode, progVars, asked,
                 captured, waiter>>

-----------------------------------------------------------------------------
(* os/exec: one goroutine copies the pipe into the syncBuffer, and Wait    *)
(* returns when the program has ended and the copy has met the end of the  *)
(* pipe, which no process may hold open any more.                          *)
Copy(i) ==
  /\ captured[i] < written[i]
  /\ captured' = [captured EXCEPT ![i] = @ + 1]
  /\ UNCHANGED <<testVars, progVars, asked, waiter>>

WaitReturns(i) ==
  /\ waiter[i] = "waiting"
  /\ proc[i] = "exited" /\ captured[i] = written[i] /\ ~helper[i]
  /\ waiter' = [waiter EXCEPT ![i] = "sent"]
  /\ UNCHANGED <<testVars, progVars, asked, captured>>

(* The program under test does what it likes: listens on the port (or      *)
(* gives up when it is taken), gets healthy, prints, leaves a child        *)
(* behind, exits, and heeds the signal in its own time or never.           *)
Listen(i) ==
  /\ proc[i] = "running"
  /\ \/ port = Nobody /\ port' = i /\ UNCHANGED <<proc, code, healthy>>
     \/ port \notin {Nobody, i} /\ Ends(i, 1)
  /\ UNCHANGED <<testVars, helper, written, asked, captured, waiter>>

GetHealthy(i) ==
  /\ port = i /\ ~healthy[i]
  /\ healthy' = [healthy EXCEPT ![i] = TRUE]
  /\ UNCHANGED <<testVars, proc, code, helper, written, port, asked, captured, waiter>>

PrintLine(i) ==
  /\ proc[i] = "running" /\ written[i] < MaxLines
  /\ written' = [written EXCEPT ![i] = @ + 1]
  /\ UNCHANGED <<testVars, proc, code, helper, port, healthy, asked, captured, waiter>>

Fork(i) ==
  /\ Forks
  /\ proc[i] = "running" /\ ~helper[i]
  /\ helper' = [helper EXCEPT ![i] = TRUE]
  /\ UNCHANGED <<testVars, proc, code, written, port, healthy, asked, captured, waiter>>

Exit(i) ==
  /\ proc[i] = "running"
  /\ \E status \in ExitCodes : Ends(i, status)
  /\ UNCHANGED <<testVars, helper, written, asked, captured, waiter>>

HeedSignal(i) ==
  /\ proc[i] = "running" /\ asked[i]
  /\ \E status \in ExitCodes \cup {BySignal} : Ends(i, status)
  /\ UNCHANGED <<testVars, helper, written, asked, captured, waiter>>

Program(i) ==
  Listen(i) \/ GetHealthy(i) \/ PrintLine(i) \/ Fork(i) \/ Exit(i) \/ HeedSignal(i)

TestStep(i) ==
  \/ Build(i) \/ Start(i) \/ Ready(i) \/ Probe(i) \/ ProbeFails(i) \/ EndPoll(i)
  \/ Register(i) \/ Body(i)
  \/ RunCleanup(i) \/ Signal(i) \/ ReceiveDone(i) \/ Kill(i) \/ Drain(i) \/ Expect(i)

Clock(i) == DeadlinePasses(i) \/ TimerFires(i)

AllDone == \A i \in Tests : pc[i] = "done"

Terminated == AllDone /\ UNCHANGED vars

Next ==
  \/ \E i \in Tests : TestStep(i) \/ Clock(i) \/ Copy(i) \/ WaitReturns(i) \/ Program(i)
  \/ \E i, j \in Tests : AnswerProbe(i, j)
  \/ Terminated

(* The test binary's goroutines run and its clock advances.  The program   *)
(* under test owes nobody anything.                                        *)
Fairness ==
  \A i \in Tests :
    /\ WF_vars(TestStep(i)) /\ WF_vars(Clock(i))
    /\ WF_vars(Copy(i)) /\ WF_vars(WaitReturns(i))

Spec == Init /\ [][Next]_vars /\ Fairness

-----------------------------------------------------------------------------
Pcs == {"begin", "start", "poll", "probing", "register", "body", "cleanup", "signal", "select", "drain",
        "expect", "done"}

TypeOK ==
  /\ plan \in [Tests -> [ready : Modes, stop : BOOLEAN, build : BOOLEAN]]
  /\ pc \in [Tests -> Pcs]
  /\ failed \in [Tests -> BOOLEAN]
  /\ cleanups \in [Tests -> Seq({"tempdir", "process"})]
  /\ reg \in [Tests -> BOOLEAN]
  /\ proc \in [Tests -> {"none", "running", "exited"}]
  /\ code \in [Tests -> Nat \cup {BySignal}]
  /\ asked \in [Tests -> BOOLEAN]
  /\ helper \in [Tests -> BOOLEAN]
  /\ written \in [Tests -> Nat]
  /\ captured \in [Tests -> Nat]
  /\ port \in Tests \cup {Nobody}
  /\ healthy \in [Tests -> BOOLEAN]
  /\ answered \in [Tests -> Tests \cup {Nobody}]
  /\ probe \in [Tests -> Tests \cup {Nobody}]
  /\ expired \in [Tests -> BOOLEAN]
  /\ waiter \in [Tests -> {"none", "waiting", "sent", "received"}]
  /\ timer \in [Tests -> {"off", "armed", "fired"}]
  /\ exitCode \in [Tests -> Nat \cup {BySignal}]

(* Once the cleanup that stops it is registered, the program does not      *)
(* outlive the test, whichever way the test ends and however the program   *)
(* takes the signal.                                                       *)
RegisteredMeansStopped ==
  \A i \in Tests : pc[i] = "done" /\ reg[i] => proc[i] = "exited"

(* The directory that holds the binary is removed after the program that   *)
(* runs from it has ended, when its end is waited for at all: the cleanup  *)
(* stack still holds the older entry while the newer one works.            *)
BinaryOutlivesProgram ==
  \A i \in Tests :
    plan[i].build /\ reg[i] /\ proc[i] = "running" =>
      "tempdir" \in ToSet(cleanups[i])

(* A stop block that reads exit code 0 has seen the program end by itself  *)
(* with status 0: a program that had to be killed never counts as clean.   *)
ZeroMeansClean ==
  \A i \in Tests : pc[i] = "expect" /\ exitCode[i] = 0 => proc[i] = "exited" /\ code[i] = 0

(* And it reads the output to the last line the program printed.           *)
OutputIsComplete == \A i \in Tests : pc[i] = "expect" => captured[i] = written[i]

(* No program outlives its test: "Without it, the process is killed with   *)
(* SIGTERM after tests complete" (README.md:657).                          *)
NoOrphans == \A i \in Tests : pc[i] = "done" => proc[i] # "running"

(* What answers the readiness probe is the program the test has started    *)
(* ("Start a binary, wait for it to be healthy", README.md:653), unless an *)
(* earlier test has ended before it registered the end of its own program. *)
ReadyMeansOwn == \A i \in Tests : answered[i] \in {Nobody, i} \/ ~reg[answered[i]]

(* Every test ends, whatever its program does, unless the program leaves a *)
(* child behind that holds its stdout, or a running program has accepted   *)
(* the readiness request and never answers it: the deadline of 30 seconds  *)
(* does not end such a request (transpile_process.go:422-423).             *)
TestsEnd ==
  \/ <>(AllDone \/ \E i \in Tests : helper[i])
  \/ \E i, j \in Tests : <>[](pc[i] = "probing" /\ probe[i] = j /\ proc[j] = "running")
=============================================================================
