------------------------- MODULE ProcessBlock_proofs -------------------------
(* Theorems about ProcessBlock, for any number of tests, any plans, any     *)
(* exit codes, and programs with and without children.                      *)
EXTENDS ProcessBlock, SequenceTheorems, TLAPS

(***************************************************************************)
(* Types.                                                                  *)
(***************************************************************************)

Kinds == {"tempdir", "process"}

LEMMA FrontSeq ==
  ASSUME NEW s \in Seq(Kinds), s # <<>>
  PROVE  /\ Front(s) \in Seq(Kinds)
         /\ Len(Front(s)) = Len(s) - 1
         /\ \A n \in 1..(Len(s) - 1) : Front(s)[n] = s[n]
<1>1. Len(s) \in Nat /\ Len(s) > 0
  OBVIOUS
<1>2. \A n \in 1..(Len(s) - 1) : s[n] \in Kinds
  BY <1>1
<1>3. Front(s) = SubSeq(s, 1, Len(s) - 1)
  BY DEF Front
<1> DEFINE m == Len(s) - 1
<1>4. m \in Int /\ m >= 0
  BY <1>1
<1> HIDE DEF m
<1>5. /\ SubSeq(s, 1, m) \in Seq(Kinds)
      /\ Len(SubSeq(s, 1, m)) = IF 1 <= m THEN m - 1 + 1 ELSE 0
      /\ \A n \in 1..(m - 1 + 1) : SubSeq(s, 1, m)[n] = s[1 + n - 1]
  BY <1>2, <1>4, SubSeqProperties DEF m
<1>6. Len(SubSeq(s, 1, m)) = m
  BY <1>4, <1>5
<1>7. \A n \in 1..m : SubSeq(s, 1, m)[n] = s[n]
  <2>1. \A n \in 1..m : 1 + n - 1 = n /\ n \in 1..(m - 1 + 1)
    BY <1>4
  <2>2. QED
    BY <1>5, <2>1
<1>8. QED
  BY <1>3, <1>5, <1>6, <1>7 DEF m

LEMMA InitType == Init => TypeOK
BY ProcessAssumption DEF Init, TypeOK, Pcs

(* The end of a program, whatever it was. *)
LEMMA EndsType ==
  ASSUME TypeOK, NEW i \in Tests, NEW status \in Nat \cup {BySignal}, Ends(i, status)
  PROVE  /\ proc' \in [Tests -> {"none", "running", "exited"}]
         /\ code' \in [Tests -> Nat \cup {BySignal}]
         /\ port' \in Tests \cup {Nobody}
         /\ healthy' \in [Tests -> BOOLEAN]
BY DEF TypeOK, Ends

LEMMA RegisterType ==
  ASSUME TypeOK, NEW i \in Tests, RegisterStop(i)
  PROVE  reg' \in [Tests -> BOOLEAN] /\ cleanups' \in [Tests -> Seq({"tempdir", "process"})]
<1>1. Append(cleanups[i], "process") \in Seq(Kinds)
  BY DEF TypeOK, Kinds
<1>2. cleanups \in [Tests -> Seq(Kinds)]
  BY DEF TypeOK, Kinds
<1>3. QED
  BY <1>1, <1>2 DEF TypeOK, RegisterStop, Kinds

LEMMA TestType ==
  ASSUME TypeOK, NEW i \in Tests, TestStep(i)
  PROVE  TypeOK'
<1> USE DEF TypeOK, Pcs, Goto, FailNow, testVars, progVars, BySignal
<1>1. CASE Build(i)
  <2>1. cleanups' \in [Tests -> Seq(Kinds)]
    <3>1. Append(cleanups[i], "tempdir") \in Seq(Kinds)
      BY DEF Kinds
    <3>2. cleanups \in [Tests -> Seq(Kinds)]
      BY DEF Kinds
    <3>3. QED
      BY <1>1, <3>1, <3>2 DEF Build
  <2>2. QED
    BY <1>1, <2>1 DEF Build, Kinds
<1>2. CASE Start(i)
  BY <1>2 DEF Start
<1>3. CASE Ready(i)
  BY <1>3 DEF Ready
<1>4. CASE EndPoll(i)
  BY <1>4 DEF EndPoll
<1>5. CASE Probe(i)
  BY <1>5 DEF Probe
<1>15. CASE ProbeFails(i)
  BY <1>15 DEF ProbeFails
<1>6. CASE Register(i)
  BY <1>6, RegisterType DEF Register
<1>7. CASE Body(i)
  BY <1>7, RegisterType DEF Body
<1>8. CASE RunCleanup(i)
  <2>1. cleanups' \in [Tests -> Seq(Kinds)]
    <3>1. cleanups \in [Tests -> Seq(Kinds)]
      BY DEF Kinds
    <3>2. cleanups[i] # <<>> => Front(cleanups[i]) \in Seq(Kinds)
      BY <3>1, FrontSeq
    <3>3. QED
      BY <1>8, <3>1, <3>2 DEF RunCleanup
  <2>2. QED
    BY <1>8, <2>1 DEF RunCleanup, Kinds
<1>9. CASE Signal(i)
  BY <1>9 DEF Signal
<1>10. CASE ReceiveDone(i)
  BY <1>10 DEF ReceiveDone
<1>11. CASE Kill(i)
  BY <1>11, EndsType DEF Kill
<1>12. CASE Drain(i)
  BY <1>12 DEF Drain
<1>13. CASE Expect(i)
  BY <1>13 DEF Expect
<1>14. QED
  BY <1>1, <1>2, <1>3, <1>4, <1>5, <1>15, <1>6, <1>7, <1>8, <1>9, <1>10, <1>11, <1>12, <1>13
     DEF TestStep

LEMMA AnswerType ==
  ASSUME TypeOK, NEW i \in Tests, NEW j \in Tests, AnswerProbe(i, j)
  PROVE  TypeOK'
BY DEF TypeOK, Pcs, AnswerProbe, Goto, progVars

LEMMA ProgramType ==
  ASSUME TypeOK, NEW i \in Tests, Program(i)
  PROVE  TypeOK'
<1> USE DEF TypeOK, testVars
<1>1. CASE Listen(i)
  <2>1. CASE Ends(i, 1)
    <3>1. 1 \in Nat \cup {BySignal}
      OBVIOUS
    <3>2. QED
      BY <1>1, <2>1, <3>1, EndsType DEF Listen
  <2>2. CASE ~Ends(i, 1)
    BY <1>1, <2>2 DEF Listen
  <2>3. QED
    BY <2>1, <2>2
<1>2. CASE GetHealthy(i)
  BY <1>2 DEF GetHealthy
<1>3. CASE PrintLine(i)
  BY <1>3 DEF PrintLine
<1>4. CASE Fork(i)
  BY <1>4 DEF Fork
<1>5. CASE Exit(i)
  <2>1. PICK status \in ExitCodes : Ends(i, status)
    BY <1>5 DEF Exit
  <2>2. status \in Nat \cup {BySignal}
    BY ProcessAssumption
  <2>3. QED
    BY <1>5, <2>1, <2>2, EndsType DEF Exit
<1>6. CASE HeedSignal(i)
  <2>1. PICK status \in ExitCodes \cup {BySignal} : Ends(i, status)
    BY <1>6 DEF HeedSignal
  <2>2. status \in Nat \cup {BySignal}
    BY ProcessAssumption
  <2>3. QED
    BY <1>6, <2>1, <2>2, EndsType DEF HeedSignal
<1>7. QED
  BY <1>1, <1>2, <1>3, <1>4, <1>5, <1>6 DEF Program

LEMMA StepType == TypeOK /\ [Next]_vars => TypeOK'
<1> SUFFICES ASSUME TypeOK, [Next]_vars
             PROVE  TypeOK'
  OBVIOUS
<1>1. ASSUME NEW i \in Tests, Clock(i) \/ Copy(i) \/ WaitReturns(i)
      PROVE  TypeOK'
  <2>1. CASE Clock(i)
    BY <2>1 DEF TypeOK, Clock, DeadlinePasses, TimerFires, progVars
  <2>2. CASE Copy(i)
    BY <2>2 DEF TypeOK, Copy, testVars, progVars
  <2>3. CASE WaitReturns(i)
    BY <2>3 DEF TypeOK, WaitReturns, testVars, progVars
  <2>4. QED
    BY <1>1, <2>1, <2>2, <2>3
<1>2. CASE UNCHANGED vars
  BY <1>2 DEF TypeOK, vars, testVars, progVars
<1>3. QED
  BY <1>1, <1>2, TestType, AnswerType, ProgramType DEF Next, Terminated

(* Every variable keeps its type, for all values of the constants. *)
THEOREM TypeCorrect == Spec => []TypeOK
BY InitType, StepType, PTL DEF Spec

(***************************************************************************)
(* What a registered cleanup achieves.                                     *)
(***************************************************************************)

HasStop(i) == \E n \in 1..Len(cleanups[i]) : cleanups[i][n] = "process"

(* Why: Wait returns only for a program that has ended and whose output is *)
(* copied, and both stay so; and a registered cleanup is on the stack, or  *)
(* at work, or has received from Wait.                                     *)
StopOf(i) ==
  /\ pc[i] \in {"begin", "start"} => proc[i] = "none"
  /\ pc[i] \in {"begin", "start", "poll", "probing", "register"} => ~reg[i]
  /\ pc[i] \in {"poll", "probing", "register", "body"} => proc[i] # "none"
  /\ reg[i] => proc[i] # "none"
  /\ captured[i] <= written[i]
  /\ waiter[i] \in {"sent", "received"} => proc[i] = "exited" /\ captured[i] = written[i]
  /\ reg[i] => HasStop(i) \/ pc[i] \in {"signal", "select", "drain"} \/ waiter[i] = "received"
  /\ pc[i] = "done" => cleanups[i] = <<>>
  /\ pc[i] = "expect" => waiter[i] = "received" /\ exitCode[i] \in {code[i], BySignal}

StopInv == TypeOK /\ \A i \in Tests : StopOf(i)

LEMMA InitStop == Init => StopInv
BY InitType DEF Init, StopInv, StopOf

(* A test that a step leaves alone keeps what it had; so does one whose    *)
(* readiness or timer is all that changes.                                 *)
Kept(j) ==
  /\ pc'[j] = pc[j] /\ cleanups'[j] = cleanups[j] /\ reg'[j] = reg[j] /\ exitCode'[j] = exitCode[j]
  /\ proc'[j] = proc[j] /\ code'[j] = code[j] /\ waiter'[j] = waiter[j]
  /\ captured'[j] = captured[j] /\ written'[j] = written[j]

LEMMA KeptStop ==
  ASSUME StopInv, NEW j \in Tests, Kept(j)
  PROVE  StopOf(j)'
BY DEF StopInv, StopOf, Kept, HasStop

LEMMA OthersKept ==
  ASSUME TypeOK, NEW i \in Tests,
         \/ TestStep(i) \/ Program(i) \/ Copy(i) \/ WaitReturns(i)
         \/ \E j \in Tests : AnswerProbe(i, j)
  PROVE  \A j \in Tests \ {i} : Kept(j)
<1> USE DEF TypeOK, Kept, testVars, progVars, Goto, FailNow, Ends, RegisterStop
<1>1. CASE Build(i) \/ Start(i) \/ Ready(i) \/ Probe(i) \/ ProbeFails(i) \/ EndPoll(i)
  BY <1>1 DEF Build, Start, Ready, Probe, ProbeFails, EndPoll
<1>2. CASE Register(i) \/ Body(i) \/ RunCleanup(i) \/ Signal(i)
  BY <1>2 DEF Register, Body, RunCleanup, Signal
<1>3. CASE ReceiveDone(i) \/ Kill(i) \/ Drain(i) \/ Expect(i)
  BY <1>3 DEF ReceiveDone, Kill, Drain, Expect
<1>4. CASE Program(i)
  BY <1>4 DEF Program, Listen, GetHealthy, PrintLine, Fork, Exit, HeedSignal
<1>5. CASE Copy(i) \/ WaitReturns(i)
  BY <1>5 DEF Copy, WaitReturns
<1>6. CASE \E j \in Tests : AnswerProbe(i, j)
  BY <1>6 DEF AnswerProbe
<1>7. QED
  BY <1>1, <1>2, <1>3, <1>4, <1>5, <1>6 DEF TestStep

LEMMA TestStop ==
  ASSUME StopInv, NEW i \in Tests, TestStep(i)
  PROVE  StopOf(i)'
<1> DEFINE Same == cleanups' = cleanups /\ reg' = reg
           SameProgram == UNCHANGED <<proc, code, written, captured>>
<1> USE DEF StopInv, TypeOK, testVars, progVars, Goto, FailNow
<1>1. CASE Build(i)
  <2>1. ~reg[i] /\ ~reg'[i] /\ proc[i] = "none" /\ pc'[i] \in {"cleanup", "start"}
    BY <1>1 DEF Build, StopOf
  <2>2. SameProgram /\ waiter' = waiter
    BY <1>1 DEF Build
  <2>3. QED
    BY <2>1, <2>2 DEF StopOf
<1>2. CASE Start(i)
  <2>1. ~reg[i] /\ reg' = reg /\ proc[i] = "none" /\ pc'[i] \in {"cleanup", "register", "poll"}
    BY <1>2 DEF Start, StopOf
  <2>2. UNCHANGED <<captured, written, waiter>> /\ proc'[i] \in {"none", "running"}
    BY <1>2, <2>1 DEF Start
  <2>3. waiter[i] \notin {"sent", "received"} /\ (proc'[i] = "none" => pc'[i] = "cleanup")
    BY <1>2, <2>1 DEF Start, StopOf
  <2>4. QED
    BY <2>1, <2>2, <2>3 DEF StopOf
<1>3. CASE Ready(i) \/ Probe(i) \/ ProbeFails(i) \/ EndPoll(i) \/ Expect(i)
  <2>1. Same /\ SameProgram /\ UNCHANGED <<waiter, exitCode>>
    BY <1>3 DEF Ready, Probe, ProbeFails, EndPoll, Expect
  <2>2. \/ pc[i] \in {"poll", "probing"} /\ pc'[i] \in {"poll", "probing", "register", "cleanup"}
        \/ pc[i] = "expect" /\ pc'[i] = "cleanup"
    BY <1>3 DEF Ready, Probe, ProbeFails, EndPoll, Expect
  <2>3. QED
    BY <2>1, <2>2 DEF StopOf, HasStop
<1>4. ASSUME RegisterStop(i)
      PROVE  HasStop(i)'
  <2>1. cleanups'[i] = Append(cleanups[i], "process") /\ cleanups[i] \in Seq(Kinds)
    BY <1>4 DEF RegisterStop, Kinds
  <2>2. Len(cleanups'[i]) = Len(cleanups[i]) + 1 /\ cleanups'[i][Len(cleanups[i]) + 1] = "process"
    BY <2>1, AppendProperties DEF Kinds
  <2>3. Len(cleanups[i]) + 1 \in 1..(Len(cleanups[i]) + 1)
    BY <2>1
  <2>4. QED
    BY <2>2, <2>3 DEF HasStop
<1>5. CASE Register(i) \/ Body(i)
  <2>1. SameProgram /\ UNCHANGED <<waiter, exitCode>> /\ (Same \/ RegisterStop(i))
    BY <1>5 DEF Register, Body
  <2>2. pc[i] \in {"register", "body"} /\ pc'[i] \in {"body", "cleanup"} /\ proc[i] # "none"
    BY <1>5 DEF Register, Body, StopOf
  <2>3. CASE Same
    BY <2>1, <2>2, <2>3 DEF StopOf, HasStop
  <2>4. CASE RegisterStop(i)
    BY <1>4, <2>1, <2>2, <2>4 DEF StopOf
  <2>5. QED
    BY <2>1, <2>3, <2>4
<1>6. CASE RunCleanup(i)
  <2>1. SameProgram /\ UNCHANGED <<reg, waiter, exitCode>> /\ pc[i] = "cleanup"
    BY <1>6 DEF RunCleanup
  <2>2. CASE cleanups[i] = <<>>
    <3>1. pc'[i] = "done" /\ cleanups' = cleanups
      BY <1>6, <2>2 DEF RunCleanup
    <3>2. ~HasStop(i)
      BY <2>2 DEF HasStop
    <3>3. reg[i] => waiter[i] = "received"
      BY <2>1, <3>2 DEF StopOf
    <3>4. QED
      BY <2>1, <2>2, <3>1, <3>3 DEF StopOf
  <2>3. CASE cleanups[i] # <<>> /\ Last(cleanups[i]) = "process"
    <3>1. pc'[i] = "signal"
      BY <1>6, <2>3 DEF RunCleanup
    <3>2. QED
      BY <2>1, <3>1 DEF StopOf
  <2>4. CASE cleanups[i] # <<>> /\ Last(cleanups[i]) # "process"
    <3>1. pc'[i] = "cleanup" /\ cleanups'[i] = Front(cleanups[i])
      BY <1>6, <2>4 DEF RunCleanup
    <3>2. HasStop(i) => HasStop(i)'
      <4>1. SUFFICES ASSUME NEW n \in 1..Len(cleanups[i]), cleanups[i][n] = "process"
                     PROVE  HasStop(i)'
        BY DEF HasStop
      <4>2. cleanups[i] \in Seq(Kinds)
        BY DEF Kinds
      <4>3. n # Len(cleanups[i])
        BY <2>4, <4>1 DEF Last
      <4>4. n \in 1..(Len(cleanups[i]) - 1)
        BY <4>2, <4>3
      <4>5. Front(cleanups[i])[n] = "process" /\ Len(Front(cleanups[i])) = Len(cleanups[i]) - 1
        BY <2>4, <4>1, <4>2, <4>4, FrontSeq
      <4>6. QED
        BY <3>1, <4>4, <4>5 DEF HasStop
    <3>3. QED
      BY <2>1, <3>1, <3>2 DEF StopOf
  <2>5. QED
    BY <2>2, <2>3, <2>4
<1>7. CASE Signal(i)
  BY <1>7 DEF Signal, StopOf
<1>8. CASE ReceiveDone(i) \/ Drain(i)
  <2>1. Same /\ SameProgram /\ waiter[i] = "sent" /\ waiter'[i] = "received"
    BY <1>8 DEF ReceiveDone, Drain
  <2>2. pc'[i] \in {"expect", "cleanup"} /\ exitCode'[i] \in {code[i], BySignal}
    BY <1>8 DEF ReceiveDone, Drain, BySignal
  <2>3. QED
    BY <2>1, <2>2 DEF StopOf
<1>9. CASE Kill(i)
  <2>1. Same /\ UNCHANGED <<written, captured, waiter>> /\ pc'[i] = "drain"
    BY <1>9 DEF Kill
  <2>2. proc'[i] = proc[i] \/ proc'[i] = "exited"
    BY <1>9 DEF Kill, Ends
  <2>3. QED
    BY <2>1, <2>2 DEF StopOf
<1>10. QED
  BY <1>1, <1>2, <1>3, <1>5, <1>6, <1>7, <1>8, <1>9 DEF TestStep

(* What the answer to a request does to the invariant of the test. *)
LEMMA AnswerStop ==
  ASSUME StopInv, NEW i \in Tests, NEW j \in Tests, AnswerProbe(i, j)
  PROVE  StopOf(i)'
<1>1. /\ pc[i] = "probing" /\ pc'[i] \in {"poll", "register"}
      /\ UNCHANGED <<cleanups, reg, exitCode, proc, code, written, captured, waiter>>
  BY DEF AnswerProbe, Goto, progVars, StopInv, TypeOK
<1>2. QED
  BY <1>1 DEF StopInv, StopOf, HasStop

(* What a program does to the invariant of its test. *)
LEMMA ProgramStop ==
  ASSUME StopInv, NEW i \in Tests, Program(i)
  PROVE  StopOf(i)'
<1> USE DEF StopInv, TypeOK, testVars
<1>1. UNCHANGED <<testVars, captured, waiter>>
  BY DEF Program, Listen, GetHealthy, PrintLine, Fork, Exit, HeedSignal
<1>2. CASE UNCHANGED <<proc, code, written>>
  BY <1>1, <1>2, KeptStop DEF Kept
<1>3. CASE proc[i] = "running" /\ proc'[i] = "exited" /\ written' = written
  BY <1>1, <1>3 DEF StopOf, HasStop
<1>4. CASE PrintLine(i)
  <2>1. proc[i] = "running" /\ proc' = proc /\ code' = code /\ written'[i] = written[i] + 1
    BY <1>4 DEF PrintLine
  <2>2. QED
    BY <1>1, <2>1 DEF StopOf, HasStop
<1>5. QED
  BY <1>2, <1>3, <1>4 DEF Program, Listen, GetHealthy, Fork, Exit, HeedSignal, Ends

LEMMA StepStop == StopInv /\ [Next]_vars => StopInv'
<1> SUFFICES ASSUME StopInv, [Next]_vars
             PROVE  \A j \in Tests : StopOf(j)'
  BY StepType DEF StopInv
<1>1. ASSUME NEW i \in Tests, TestStep(i) \/ Program(i)
      PROVE  \A j \in Tests : StopOf(j)'
  BY <1>1, OthersKept, KeptStop, TestStop, ProgramStop DEF StopInv
<1>2. ASSUME NEW i \in Tests, Copy(i)
      PROVE  \A j \in Tests : StopOf(j)'
  <2>1. StopOf(i)'
    BY <1>2 DEF Copy, StopInv, TypeOK, StopOf, HasStop, testVars, progVars
  <2>2. QED
    BY <1>2, <2>1, OthersKept, KeptStop DEF StopInv
<1>3. ASSUME NEW i \in Tests, WaitReturns(i)
      PROVE  \A j \in Tests : StopOf(j)'
  <2>1. StopOf(i)'
    BY <1>3 DEF WaitReturns, StopInv, TypeOK, StopOf, HasStop, testVars, progVars
  <2>2. QED
    BY <1>3, <2>1, OthersKept, KeptStop DEF StopInv
<1>4. ASSUME NEW i \in Tests, Clock(i)
      PROVE  \A j \in Tests : StopOf(j)'
  <2>1. \A j \in Tests : Kept(j)
    BY <1>4 DEF Clock, DeadlinePasses, TimerFires, Kept, progVars
  <2>2. QED
    BY <2>1, KeptStop
<1>5. CASE UNCHANGED vars
  BY <1>5, KeptStop DEF vars, testVars, progVars, Kept
<1>6. ASSUME NEW i \in Tests, NEW j \in Tests, AnswerProbe(i, j)
      PROVE  \A k \in Tests : StopOf(k)'
  BY <1>6, OthersKept, KeptStop, AnswerStop DEF StopInv
<1>7. QED
  BY <1>1, <1>2, <1>3, <1>4, <1>5, <1>6 DEF Next, Terminated

LEMMA StopAlways == Spec => []StopInv
BY InitStop, StepStop, PTL DEF Spec

LEMMA StopEnds == StopInv => RegisteredMeansStopped
<1> SUFFICES ASSUME StopInv, NEW i \in Tests, pc[i] = "done", reg[i]
             PROVE  proc[i] = "exited"
  BY DEF RegisteredMeansStopped
<1>1. cleanups[i] = <<>>
  BY DEF StopInv, StopOf
<1>2. ~HasStop(i)
  BY <1>1 DEF HasStop
<1> QED BY <1>2 DEF StopInv, StopOf

(* A program whose cleanup was registered has ended when its test is done, *)
(* whatever the program does with the signal (emitImplicitProcessCleanup,  *)
(* emitStop).                                                              *)
THEOREM RegisteredIsStopped == Spec => []RegisteredMeansStopped
  BY StopEnds, StopAlways, PTL

(* Exit code 0 in a stop block means that the program ended by itself with *)
(* status 0 (emitStop).                                                    *)
THEOREM ZeroIsClean == Spec => []ZeroMeansClean
<1>1. StopInv => ZeroMeansClean
  BY DEF StopInv, StopOf, ZeroMeansClean, BySignal
<1>2. QED
  BY <1>1, StopAlways, PTL

(* The expectations of a stop block read the program's whole output        *)
(* (emitStop; os/exec waits for the copy before Wait returns).             *)
THEOREM OutputIsWhole == Spec => []OutputIsComplete
<1>1. StopInv => OutputIsComplete
  BY DEF StopInv, StopOf, OutputIsComplete
<1>2. QED
  BY <1>1, StopAlways, PTL

(***************************************************************************)
(* The directory of the binary is removed after the program.               *)
(***************************************************************************)

(* Why: in a test that builds, t.TempDir is at the bottom of the stack, so *)
(* it is there as long as a cleanup registered later is to run or at work; *)
(* and after the kill the program does not run.                            *)
DirectoryOf(i) ==
  plan[i].build =>
    /\ cleanups[i] # <<>> => cleanups[i][1] = "tempdir"
    /\ pc[i] \in {"start", "poll", "probing", "register", "body", "signal", "select"} => cleanups[i] # <<>>
    /\ pc[i] = "drain" => proc[i] # "running"
    /\ pc[i] = "begin" => cleanups[i] = <<>>

DirectoryInv == \A i \in Tests : DirectoryOf(i)

LEMMA StepDirectory == StopInv /\ DirectoryInv /\ [Next]_vars => DirectoryInv'
<1> SUFFICES ASSUME StopInv, DirectoryInv, [Next]_vars
             PROVE  DirectoryInv'
  OBVIOUS
<1> USE DEF StopInv, DirectoryInv, TypeOK
<1>1. ASSUME NEW j \in Tests, plan' = plan, pc'[j] = pc[j], cleanups'[j] = cleanups[j],
             proc'[j] = proc[j] \/ proc'[j] = "exited"
      PROVE  DirectoryOf(j)'
  BY <1>1 DEF DirectoryOf
<1>2. ASSUME NEW i \in Tests, TestStep(i)
      PROVE  DirectoryInv'
  <2>1. plan' = plan
    BY <1>2 DEF TestStep, Build, Start, Ready, Probe, ProbeFails, EndPoll, Register, Body, RunCleanup,
                Signal, ReceiveDone, Kill, Drain, Expect
  <2>2. \A j \in Tests \ {i} : DirectoryOf(j)'
    BY <1>1, <1>2, <2>1, OthersKept DEF Kept
  <2>3. DirectoryOf(i)'
    <3> SUFFICES ASSUME plan[i].build PROVE DirectoryOf(i)'
      BY <2>1 DEF DirectoryOf
    <3> USE DEF Goto, FailNow, progVars, testVars
    <3>1. ASSUME NEW c \in Kinds, cleanups[i] # <<>> \/ c = "tempdir",
                 cleanups' = [cleanups EXCEPT ![i] = Append(@, c)], pc'[i] \notin {"begin", "drain"}
          PROVE  DirectoryOf(i)'
      <4>1. cleanups[i] \in Seq(Kinds)
        BY DEF Kinds
      <4>2. /\ cleanups'[i] # <<>>
            /\ cleanups'[i][1] = IF cleanups[i] = <<>> THEN c ELSE cleanups[i][1]
        BY <3>1, <4>1
      <4> QED BY <2>1, <3>1, <4>2 DEF DirectoryOf
    <3>2. CASE Build(i)
      BY <1>2, <3>1, <3>2 DEF Build, Kinds
    <3>3. CASE Start(i) \/ Ready(i) \/ Probe(i) \/ ProbeFails(i) \/ EndPoll(i)
      <4>1. cleanups' = cleanups /\ pc'[i] \in {"cleanup", "register", "poll", "probing"}
            /\ pc[i] \in {"start", "poll", "probing"}
        BY <3>3 DEF Start, Ready, Probe, ProbeFails, EndPoll
      <4> QED BY <2>1, <4>1 DEF DirectoryOf
    <3>4. CASE Register(i) \/ Body(i)
      <4>1. /\ pc[i] \in {"register", "body"} /\ pc'[i] \in {"body", "cleanup"}
            /\ cleanups' = cleanups \/ cleanups' = [cleanups EXCEPT ![i] = Append(@, "process")]
        BY <3>4 DEF Register, Body, RegisterStop
      <4>2. CASE cleanups' = cleanups
        BY <2>1, <4>1, <4>2 DEF DirectoryOf
      <4>3. CASE cleanups' = [cleanups EXCEPT ![i] = Append(@, "process")]
        BY <3>1, <4>1, <4>3 DEF DirectoryOf, Kinds
      <4> QED BY <4>1, <4>2, <4>3
    <3>5. CASE RunCleanup(i)
      <4>1. CASE cleanups[i] = <<>>
        BY <2>1, <3>5, <4>1 DEF RunCleanup, DirectoryOf
      <4>2. CASE cleanups[i] # <<>>
        <5>1. /\ cleanups'[i] = Front(cleanups[i]) /\ pc'[i] \in {"signal", "cleanup"}
              /\ pc'[i] = "signal" => Last(cleanups[i]) = "process"
          BY <3>5, <4>2 DEF RunCleanup
        <5>2. cleanups[i] \in Seq(Kinds) /\ cleanups[i][1] = "tempdir"
          BY <4>2 DEF DirectoryOf, Kinds
        <5>3. /\ Front(cleanups[i]) \in Seq(Kinds) /\ Len(Front(cleanups[i])) = Len(cleanups[i]) - 1
              /\ \A n \in 1..(Len(cleanups[i]) - 1) : Front(cleanups[i])[n] = cleanups[i][n]
          BY <4>2, <5>2, FrontSeq
        <5>4. Front(cleanups[i]) # <<>> => Front(cleanups[i])[1] = "tempdir"
          <6> SUFFICES ASSUME Front(cleanups[i]) # <<>>
                       PROVE  1 \in 1..(Len(cleanups[i]) - 1)
            BY <5>2, <5>3
          <6>1. \A s \in Seq(Kinds) : s # <<>> => Len(s) > 0
            OBVIOUS
          <6> QED BY <5>2, <5>3, <6>1
        <5>5. Last(cleanups[i]) = "process" => Front(cleanups[i]) # <<>>
          BY <4>2, <5>2, <5>3 DEF Last
        <5> QED BY <2>1, <5>1, <5>4, <5>5 DEF DirectoryOf
      <4> QED BY <4>1, <4>2
    <3>6. CASE Signal(i) \/ ReceiveDone(i) \/ Drain(i) \/ Expect(i)
      <4>1. /\ cleanups' = cleanups /\ pc'[i] \in {"select", "expect", "cleanup"}
            /\ pc'[i] = "select" => pc[i] = "signal"
        BY <3>6 DEF Signal, ReceiveDone, Drain, Expect
      <4> QED BY <2>1, <4>1 DEF DirectoryOf
    <3>7. CASE Kill(i)
      <4>1. pc[i] = "select" /\ pc'[i] = "drain" /\ cleanups' = cleanups
        BY <3>7 DEF Kill
      <4>2. proc'[i] # "running"
        BY <3>7 DEF Kill, Ends
      <4> QED BY <2>1, <4>1, <4>2 DEF DirectoryOf
    <3> QED BY <1>2, <3>2, <3>3, <3>4, <3>5, <3>6, <3>7 DEF TestStep
  <2> QED BY <2>2, <2>3
<1>3. ASSUME NEW i \in Tests, Clock(i) \/ Copy(i) \/ WaitReturns(i) \/ Program(i)
      PROVE  DirectoryInv'
  <2>1. UNCHANGED <<plan, pc, cleanups>> /\ \A j \in Tests : proc'[j] = proc[j] \/ proc'[j] = "exited"
    BY <1>3 DEF Clock, DeadlinePasses, TimerFires, Copy, WaitReturns, Program, Listen, GetHealthy, PrintLine,
                Fork, Exit, HeedSignal, Ends, testVars, progVars
  <2> QED BY <1>1, <2>1
<1>4. CASE UNCHANGED vars
  BY <1>1, <1>4 DEF vars, testVars, progVars
<1>5. ASSUME NEW i \in Tests, NEW j \in Tests, AnswerProbe(i, j)
      PROVE  DirectoryInv'
  <2>1. /\ plan' = plan /\ cleanups' = cleanups /\ proc' = proc
        /\ pc[i] = "probing" /\ pc'[i] \in {"poll", "register"}
    BY <1>5 DEF AnswerProbe, Goto, progVars
  <2>2. \A k \in Tests \ {i} : DirectoryOf(k)'
    BY <1>1, <1>5, <2>1, OthersKept DEF Kept
  <2>3. DirectoryOf(i)'
    BY <2>1 DEF DirectoryOf
  <2> QED BY <2>2, <2>3
<1> QED BY <1>2, <1>3, <1>4, <1>5 DEF Next, Terminated

(* The built binary and its directory are there as long as the program     *)
(* whose end is registered runs (emitProcess's t.TempDir comes first).     *)
THEOREM DirectoryOutlives == Spec => []BinaryOutlivesProgram
<1>1. Init => DirectoryInv
  BY DEF Init, DirectoryInv, DirectoryOf
<1>2. StopInv /\ DirectoryInv => BinaryOutlivesProgram
  <2> SUFFICES ASSUME StopInv, DirectoryInv, NEW i \in Tests, plan[i].build, reg[i], proc[i] = "running"
               PROVE  "tempdir" \in ToSet(cleanups[i])
    BY DEF BinaryOutlivesProgram
  <2>1. HasStop(i) \/ pc[i] \in {"signal", "select"}
    BY DEF StopInv, StopOf, DirectoryInv, DirectoryOf
  <2>2. cleanups[i] # <<>>
    BY <2>1 DEF HasStop, DirectoryInv, DirectoryOf
  <2>3. cleanups[i] \in Seq(Kinds) /\ cleanups[i][1] = "tempdir"
    BY <2>2 DEF StopInv, TypeOK, Kinds, DirectoryInv, DirectoryOf
  <2>4. 1 \in DOMAIN cleanups[i]
    BY <2>2, <2>3
  <2> QED BY <2>3, <2>4 DEF ToSet
<1> QED BY <1>1, <1>2, StepDirectory, StopAlways, PTL DEF Spec

(***************************************************************************)
(* Who answers a readiness probe.                                          *)
(***************************************************************************)

(* Why: when a test polls, those before it are done and those after it     *)
(* have not begun; a program that still listens then, or has accepted a    *)
(* request and runs, was never registered, and a test that is done         *)
(* registers nothing any more.                                             *)
AnswersOf(i) ==
  /\ pc[i] # "begin" => \A j \in 1..(i - 1) : pc[j] = "done"
  /\ answered[i] \in Tests \ {i} => pc[answered[i]] = "done" /\ ~reg[answered[i]]

AnswersInv == (port # Nobody => proc[port] = "running") /\ \A i \in Tests : AnswersOf(i)

LEMMA StepAnswers == StopInv /\ AnswersInv /\ [Next]_vars => AnswersInv'
<1> SUFFICES ASSUME StopInv, AnswersInv, [Next]_vars
             PROVE  AnswersInv'
  OBVIOUS
<1> USE DEF StopInv, AnswersInv, TypeOK, Nobody, Tests
<1>1. port' # Nobody => proc'[port'] = "running"
  <2> USE DEF testVars, progVars, Goto, FailNow
  <2>1. ASSUME NEW i \in Tests, NEW status, Ends(i, status)
        PROVE  port' # Nobody => proc'[port'] = "running"
    BY <2>1 DEF Ends
  <2>2. ASSUME NEW i \in Tests, TestStep(i)
        PROVE  port' # Nobody => proc'[port'] = "running"
    <3>1. CASE Start(i)
      BY <3>1 DEF Start
    <3>2. CASE Kill(i)
      BY <2>1, <3>2 DEF Kill
    <3>3. CASE ~Start(i) /\ ~Kill(i)
      <4>1. UNCHANGED <<port, proc>>
        BY <2>2, <3>3 DEF TestStep, Build, Ready, Probe, ProbeFails, EndPoll, Register, Body, RunCleanup, Signal, ReceiveDone,
                          Drain, Expect
      <4> QED BY <4>1
    <3> QED BY <3>1, <3>2, <3>3
  <2>3. ASSUME NEW i \in Tests, Program(i)
        PROVE  port' # Nobody => proc'[port'] = "running"
    <3>1. CASE Listen(i)
      BY <2>1, <3>1 DEF Listen
    <3>2. CASE Exit(i) \/ HeedSignal(i)
      BY <2>1, <3>2 DEF Exit, HeedSignal
    <3>3. CASE GetHealthy(i) \/ PrintLine(i) \/ Fork(i)
      BY <3>3 DEF GetHealthy, PrintLine, Fork
    <3> QED BY <2>3, <3>1, <3>2, <3>3 DEF Program
  <2>4. ASSUME NEW i \in Tests, Clock(i) \/ Copy(i) \/ WaitReturns(i)
        PROVE  UNCHANGED <<port, proc>>
    BY <2>4 DEF Clock, DeadlinePasses, TimerFires, Copy, WaitReturns
  <2>5. ASSUME NEW i \in Tests, NEW j \in Tests, AnswerProbe(i, j)
        PROVE  UNCHANGED <<port, proc>>
    BY <2>5 DEF AnswerProbe
  <2> QED BY <2>2, <2>3, <2>4, <2>5 DEF Next, Terminated, vars
<1>2. ASSUME UNCHANGED <<pc, reg, answered>>
      PROVE  \A j \in Tests : AnswersOf(j)'
  BY <1>2 DEF AnswersOf
(* What answers test i, when it runs and test i polls. *)
<1>3. ASSUME NEW i \in Tests, pc[i] \in {"poll", "probing"}, NEW j \in Tests \ {i}, proc[j] = "running"
      PROVE  pc[j] = "done" /\ ~reg[j]
  <2>1. pc[j] # "begin"
    BY <1>3 DEF StopOf
  <2>2. ~(i < j)
    BY <1>3, <2>1 DEF AnswersOf
  <2>3. pc[j] = "done"
    BY <1>3, <2>2 DEF AnswersOf
  <2> QED BY <1>3, <2>3, StopEnds DEF RegisteredMeansStopped
(* A step of test i, with what it answered in that step. *)
<1>4. ASSUME NEW i \in Tests, \A j \in Tests \ {i} : pc'[j] = pc[j] /\ reg'[j] = reg[j],
             pc[i] # "done", pc'[i] # "begin", pc[i] = "begin" => \A j \in 1..(i - 1) : pc[j] = "done",
             \/ answered' = answered
             \/ \E j \in Tests : /\ j # i => pc[j] = "done" /\ ~reg[j]
                                /\ answered' = [answered EXCEPT ![i] = j]
      PROVE  \A j \in Tests : AnswersOf(j)'
  <2>3. \A j \in Tests : pc'[j] # "begin" => \A k \in 1..(j - 1) : pc'[k] = "done"
    <3> SUFFICES ASSUME NEW j \in Tests, NEW k \in 1..(j - 1), pc'[j] # "begin"
                 PROVE  pc'[k] = "done"
      OBVIOUS
    <3>1. k \in Tests
      BY ProcessAssumption
    <3>2. pc[j] # "begin" => pc[k] = "done"
      BY DEF AnswersOf
    <3>3. pc[k] = "done"
      BY <1>4, <3>2
    <3> QED BY <1>4, <3>1, <3>3
  <2>4. ASSUME NEW j \in Tests, NEW k \in Tests, pc[k] = "done", ~reg[k]
        PROVE  pc'[k] = "done" /\ ~reg'[k]
    BY <1>4, <2>4
  <2>5. CASE answered' = answered
    BY <2>3, <2>4, <2>5 DEF AnswersOf
  <2>6. CASE answered' # answered
    <3>1. PICK j \in Tests : /\ j # i => pc[j] = "done" /\ ~reg[j]
                             /\ answered' = [answered EXCEPT ![i] = j]
      BY <1>4, <2>6
    <3>2. \A q \in Tests : answered'[q] = IF q = i THEN j ELSE answered[q]
      BY <3>1
    <3> QED BY <2>3, <2>4, <3>1, <3>2 DEF AnswersOf
  <2> QED BY <2>5, <2>6
<1>5. ASSUME NEW i \in Tests, TestStep(i)
      PROVE  \A j \in Tests : AnswersOf(j)'
  <2>1. \A j \in Tests \ {i} : pc'[j] = pc[j] /\ reg'[j] = reg[j]
    BY <1>5, OthersKept DEF Kept
  <2>2. pc[i] # "done" /\ pc'[i] # "begin" /\ (pc[i] = "begin" => \A j \in 1..(i - 1) : pc[j] = "done")
    BY <1>5 DEF TestStep, Build, Start, Ready, Probe, ProbeFails, EndPoll, Register, Body, RunCleanup, Signal,
                ReceiveDone, Kill, Drain, Expect, Goto, FailNow
  <2>3. CASE Ready(i)
    <3>1. PICK j \in Tests : Answers(i, j) /\ answered' = [answered EXCEPT ![i] = j]
      BY <2>3 DEF Ready
    <3>2. j # i => proc[j] = "running"
      BY <3>1 DEF Answers
    <3>3. j # i => pc[j] = "done" /\ ~reg[j]
      BY <1>3, <2>3, <3>2 DEF Ready
    <3> QED BY <1>4, <2>1, <2>2, <3>1, <3>3
  <2>4. CASE answered' = answered
    BY <1>4, <2>1, <2>2, <2>4
  <2> QED BY <1>5, <2>3, <2>4 DEF TestStep, Build, Start, Probe, ProbeFails, EndPoll, Register, Body, RunCleanup,
                                  Signal, ReceiveDone, Kill, Drain, Expect
<1>6. ASSUME NEW i \in Tests, NEW j \in Tests, AnswerProbe(i, j)
      PROVE  \A k \in Tests : AnswersOf(k)'
  <2>1. \A k \in Tests \ {i} : pc'[k] = pc[k] /\ reg'[k] = reg[k]
    BY <1>6, OthersKept DEF Kept
  <2>2. pc[i] = "probing" /\ pc'[i] # "begin" /\ proc[j] = "running"
    BY <1>6 DEF AnswerProbe, Goto
  <2>3. answered' = answered \/ answered' = [answered EXCEPT ![i] = j]
    BY <1>6 DEF AnswerProbe
  <2>4. j # i => pc[j] = "done" /\ ~reg[j]
    BY <1>3, <2>2
  <2> QED BY <1>4, <2>1, <2>2, <2>3, <2>4
<1>7. ASSUME NEW i \in Tests, Clock(i) \/ Copy(i) \/ WaitReturns(i) \/ Program(i)
      PROVE  UNCHANGED <<pc, reg, answered>>
  BY <1>7 DEF Clock, DeadlinePasses, TimerFires, Copy, WaitReturns, Program, Listen, GetHealthy, PrintLine,
              Fork, Exit, HeedSignal, testVars
<1> QED BY <1>1, <1>2, <1>5, <1>6, <1>7 DEF Next, Terminated, vars, testVars

(* When a readiness probe succeeds, what answers is the test's own program *)
(* or one whose test failed before its end was registered, never one that  *)
(* a cleanup should have stopped (emitReady).                              *)
THEOREM ReadyAnswers == Spec => []ReadyMeansOwn
<1>1. Init => AnswersInv
  BY DEF Init, AnswersInv, AnswersOf, Tests, Nobody
<1>2. StopInv /\ AnswersInv => ReadyMeansOwn
  BY DEF AnswersInv, AnswersOf, ReadyMeansOwn, StopInv, TypeOK
<1> QED BY <1>1, <1>2, StepAnswers, StopAlways, PTL DEF Spec
=============================================================================
