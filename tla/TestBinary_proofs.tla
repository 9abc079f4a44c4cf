-------------------------- MODULE TestBinary_proofs --------------------------
(* Theorems about TestBinary, for any number of tests, rows and slots and   *)
(* for any bodies.                                                          *)
EXTENDS TestBinary, FiniteSetTheorems, TLAPS

(***************************************************************************)
(* Serial tests have the binary to themselves.                             *)
(***************************************************************************)

(* Why: a serial test never pauses, so the tests after it wait for its     *)
(* end; and no paused test goes on before the last serial one has ended.   *)
SerialInv ==
  /\ plan \in [Tests -> Plans]
  /\ phase \in [Tests -> Phases]
  /\ \A i \in Tests : phase[i] = "paused" => Parallel(i)
  /\ \A i, j \in Tests : i < j /\ ~Parallel(i) /\ phase[j] # "queued" => phase[i] = "done"
  /\ \A i \in Tests : Parallel(i) /\ phase[i] \notin {"queued", "paused"} =>
       \A j \in Tests : phase[j] # "queued" /\ (~Parallel(j) => phase[j] = "done")

(* All but Start and Resume leave the phase alone, or move a busy test on. *)
MovesOn(i) ==
  /\ Busy(i)
  /\ \E p \in {"running", "defers", "rows", "cleanups", "done"} : phase' = [phase EXCEPT ![i] = p]

LEMMA StepPhase ==
  ASSUME NEW i \in Tests, phase \in [Tests -> Phases], TestStep(i)
  PROVE  plan' = plan /\ (phase' = phase \/ Start(i) \/ Resume(i) \/ MovesOn(i))
<1>1. CASE Start(i)
  BY <1>1 DEF Start
<1>2. CASE Resume(i)
  BY <1>2 DEF Resume
<1>3. CASE BodyStep(i)
  <2>1. plan' = plan
    BY <1>3 DEF BodyStep, NoLeaks, Profile, AfterAll, Table, Verify, Go, Stop, Plain, EndBody, Advance
  <2>2. CASE EndBody(i)
    BY <2>1, <2>2 DEF EndBody, MovesOn, Busy
  <2>3. CASE ~EndBody(i)
    BY <1>3, <2>1, <2>3 DEF BodyStep, NoLeaks, Profile, AfterAll, Table, Verify, Go, Stop, Plain, Advance
  <2>4. QED
    BY <2>2, <2>3
<1>4. CASE RunDefer(i)
  BY <1>4 DEF RunDefer, MovesOn, Busy
<1>5. CASE EndRows(i)
  BY <1>5 DEF EndRows, MovesOn, Busy
<1>6. CASE RunCleanup(i)
  BY <1>6 DEF RunCleanup, MovesOn, Busy
<1>7. QED
  BY <1>1, <1>2, <1>3, <1>4, <1>5, <1>6 DEF TestStep

LEMMA InitSerial == Init => SerialInv
BY DEF Init, SerialInv, Phases

LEMMA StepSerial == SerialInv /\ [Next]_vars => SerialInv'
<1> SUFFICES ASSUME SerialInv, [Next]_vars
             PROVE  SerialInv'
  OBVIOUS
<1> USE DEF SerialInv
<1>1. ASSUME plan' = plan, phase' = phase
      PROVE  SerialInv'
  BY <1>1 DEF Parallel
<1>2. ASSUME NEW i \in Tests, TestStep(i)
      PROVE  SerialInv'
  <2>1. plan' = plan
    BY <1>2, StepPhase
  <2>2. \A j \in Tests : Parallel(j)' = Parallel(j)
    BY <2>1 DEF Parallel
  <2>3. CASE phase' = phase
    BY <1>1, <2>1, <2>3
  <2>4. CASE Start(i)
    BY <2>1, <2>2, <2>4 DEF Start, Phases, Tests
  <2>5. CASE Resume(i)
    BY <2>1, <2>2, <2>5 DEF Resume, Phases, Tests
  <2>6. CASE MovesOn(i)
    BY <2>1, <2>2, <2>6 DEF MovesOn, Busy, Phases, Tests
  <2>7. QED
    BY <1>2, <2>3, <2>4, <2>5, <2>6, StepPhase
<1>3. ASSUME NEW i \in Tests, LateGo(i) \/ LateEnd(i)
      PROVE  SerialInv'
  BY <1>1, <1>3 DEF LateGo, LateEnd
<1>4. ASSUME NEW i \in Tests, NEW k \in 1..Rows, RowStep(i, k)
      PROVE  SerialInv'
  BY <1>1, <1>4 DEF RowStep, ResumeRow, RowReads, RowWrites
<1>5. CASE UNCHANGED vars
  BY <1>1, <1>5 DEF vars
<1>6. QED
  BY <1>2, <1>3, <1>4, <1>5 DEF Next, Terminated

LEMMA SerialAlways == ASSUME SerialInv PROVE SerialAlone
<1> SUFFICES ASSUME NEW i \in Tests, NEW j \in Tests, WantsAlone(i), Busy(i), Busy(j)
             PROVE  i = j
  BY DEF SerialAlone
<1>1. ~Parallel(i)
  BY DEF WantsAlone, Parallel, ShouldParallelizeTest
<1>2. CASE Parallel(j)
  BY <1>1, <1>2 DEF SerialInv, Busy
<1>3. CASE ~Parallel(j)
  BY <1>1, <1>3 DEF SerialInv, Busy, Tests
<1>4. QED
  BY <1>2, <1>3

(* A test with the tag, a process or Setenv never overlaps another test,   *)
(* however many tests, rows and slots there are (README.md:320).           *)
THEOREM SerialTestsAlone == Spec => []SerialAlone
BY SerialAlways, InitSerial, StepSerial, PTL DEF Spec

(***************************************************************************)
(* What `after all` tears down outlives the rows.                          *)
(***************************************************************************)

RowStates == {"none", "paused", "running", "halfway", "done"}

RowsType ==
  /\ plan \in [Tests -> [serial : BOOLEAN, body : Seq(Ops)]]
  /\ phase \in [Tests -> Phases]
  /\ at \in [Tests -> Nat]
  /\ row \in [Tests -> [1..Rows -> RowStates]]
  /\ torn \in [Tests -> BOOLEAN]
  /\ defers \in [Tests -> Seq({"profile"})]

(* Why: the rows of a parallel test go on only between its defers and its  *)
(* cleanups, those of a serial one only while its body is at the table;    *)
(* and no defer tears anything down.                                       *)
RowsOf(i) ==
  /\ torn[i] => phase[i] \in {"cleanups", "done"}
  /\ phase[i] \in {"queued", "paused"} => \A k \in 1..Rows : row[i][k] = "none"
  /\ phase[i] \in {"cleanups", "done"} => \A k \in 1..Rows : row[i][k] \in {"none", "done"}
  /\ \A k \in 1..Rows : RowBusy(i, k) => (phase[i] = "rows" /\ Parallel(i)) \/ (At(i, "rows") /\ ~Parallel(i))
  /\ \A k \in 1..Rows : row[i][k] = "paused" => Parallel(i)

RowsInv == RowsType /\ \A i \in Tests : RowsOf(i)

LEMMA InitRows == Init => RowsInv
BY BinaryAssumption DEF Init, RowsInv, RowsType, RowsOf, Phases, RowStates, RowBusy

(* A test that a step leaves alone keeps what it had. *)
LEMMA OthersRows ==
  ASSUME RowsInv, NEW j \in Tests, plan'[j] = plan[j], phase'[j] = phase[j], at'[j] = at[j],
         row'[j] = row[j], torn'[j] = torn[j]
  PROVE  RowsOf(j)'
BY DEF RowsInv, RowsOf, RowBusy, At, Parallel

(* A test past its body, none of whose rows is running. *)
LEMMA QuietRows ==
  ASSUME RowsInv, NEW j \in Tests, phase'[j] \in {"defers", "rows", "cleanups"}, row'[j] = row[j],
         torn'[j] => phase'[j] = "cleanups", \A k \in 1..Rows : ~RowBusy(j, k), plan'[j] = plan[j],
         phase'[j] = "cleanups" => \A k \in 1..Rows : row[j][k] \in {"none", "done"}
  PROVE  RowsOf(j)'
<1>1. \A k \in 1..Rows : ~RowBusy(j, k)'
  BY DEF RowBusy
<1>2. phase'[j] \notin {"queued", "paused"}
  OBVIOUS
<1>3. \A k \in 1..Rows : row'[j][k] = row[j][k]
  OBVIOUS
<1>4. \A k \in 1..Rows : row'[j][k] = "paused" => Parallel(j)'
  BY <1>3 DEF RowsInv, RowsOf, Parallel
<1>5. QED
  BY <1>1, <1>2, <1>3, <1>4 DEF RowsOf

LEMMA BodyRows ==
  ASSUME RowsInv, NEW i \in Tests, BodyStep(i)
  PROVE  RowsInv'
<1> USE DEF RowsInv, RowsType, Phases, RowStates
<1>1. CASE Table(i)
  <2>1. plan' = plan /\ phase' = phase /\ torn' = torn /\ defers' = defers /\ At(i, "rows")
    BY <1>1 DEF Table, Advance
  <2>2. CASE Parallel(i)
    <3>1. at' = [at EXCEPT ![i] = @ + 1] /\ row' = [row EXCEPT ![i] = [k \in 1..Rows |-> "paused"]]
      BY <1>1, <2>2 DEF Table, Advance
    <3>2. RowsType'
      BY <2>1, <3>1
    <3>3. RowsOf(i)'
      BY <2>1, <2>2, <3>1 DEF RowsOf, RowBusy, At, Parallel
    <3>4. QED
      BY <2>1, <3>1, <3>2, <3>3, OthersRows
  <2>3. CASE ~Parallel(i) /\ RowDone(i)
    <3>1. at' = [at EXCEPT ![i] = @ + 1] /\ row' = row
      BY <1>1, <2>3 DEF Table, Advance
    <3>2. RowsOf(i)'
      BY <2>1, <2>3, <3>1 DEF RowsOf, RowBusy, At, RowDone
    <3>3. QED
      BY <2>1, <3>1, <3>2, OthersRows
  <2>4. CASE ~Parallel(i) /\ ~RowDone(i)
    <3>1. PICK k \in 1..Rows : row' = [row EXCEPT ![i][k] = "running"]
      BY <1>1, <2>4 DEF Table
    <3>2. at' = at
      BY <1>1, <2>4 DEF Table
    <3>3. At(i, "rows")' /\ ~Parallel(i)'
      BY <2>1, <2>4, <3>2 DEF At, Parallel
    <3>4. RowsOf(i)'
      <4>1. \A l \in 1..Rows : row'[i][l] # "paused"
        BY <2>4, <3>1 DEF RowsOf
      <4>2. phase[i] = "running" /\ ~torn[i]
        BY <2>1 DEF At, RowsOf
      <4>3. QED
        BY <2>1, <3>3, <4>1, <4>2 DEF RowsOf
    <3>5. QED
      BY <2>1, <3>1, <3>2, <3>4, OthersRows
  <2>5. QED
    BY <2>2, <2>3, <2>4
<1>2. CASE EndBody(i)
  <2>1. \A k \in 1..Rows : ~RowBusy(i, k)
    <3>1. ~At(i, "rows")
      <4>1. Len(plan[i].body) \in Nat /\ at[i] \in Nat
        OBVIOUS
      <4>2. QED
        BY <1>2, <4>1 DEF EndBody, At
    <3>2. phase[i] = "running"
      BY <1>2 DEF EndBody
    <3>3. QED
      BY <3>1, <3>2 DEF RowsOf
  <2>2. phase'[i] = "defers" /\ row' = row /\ torn' = torn /\ phase[i] = "running" /\ plan' = plan
    BY <1>2 DEF EndBody, tableVars
  <2>3. ~torn[i]
    BY <2>2 DEF RowsOf
  <2>4. RowsOf(i)'
    BY <2>1, <2>2, <2>3, QuietRows
  <2>5. QED
    BY <1>2, <2>4, OthersRows DEF EndBody, tableVars
<1>3. ASSUME NEW op \in Ops \ {"rows"}, At(i, op), Advance(i), UNCHANGED <<row, torn>>, RowsType'
      PROVE  RowsInv'
  <2>1. \A k \in 1..Rows : ~RowBusy(i, k)
    BY <1>3 DEF At, RowsOf
  <2>2. RowsOf(i)'
    BY <1>3, <2>1 DEF Advance, RowsOf, RowBusy, At, Parallel
  <2>3. QED
    BY <1>3, <2>2, OthersRows DEF Advance
<1>4. CASE Profile(i)
  <2>1. "profile" \in Ops \ {"rows"} /\ RowsType'
    BY <1>4 DEF Profile, Advance, tableVars, Ops
  <2>2. QED
    BY <1>3, <1>4, <2>1 DEF Profile, tableVars
<1>5. CASE NoLeaks(i) \/ AfterAll(i) \/ Verify(i) \/ Go(i) \/ Stop(i) \/ Plain(i)
  <2>1. PICK op \in Ops \ {"rows"} : At(i, op)
    BY <1>5 DEF NoLeaks, AfterAll, Verify, Go, Stop, Plain, Ops
  <2>2. Advance(i) /\ UNCHANGED <<defers, row, torn>>
    BY <1>5 DEF NoLeaks, AfterAll, Verify, Go, Stop, Plain, tableVars
  <2>3. RowsType'
    BY <2>2 DEF Advance
  <2>4. QED
    BY <1>3, <2>1, <2>2, <2>3
<1>6. QED
  BY <1>1, <1>2, <1>4, <1>5 DEF BodyStep

LEMMA StepRows == RowsInv /\ [Next]_vars => RowsInv'
<1> SUFFICES ASSUME RowsInv, [Next]_vars
             PROVE  RowsInv'
  OBVIOUS
<1> USE DEF RowsInv, RowsType, Phases, RowStates
<1>1. ASSUME NEW i \in Tests, TestStep(i)
      PROVE  RowsInv'
  <2>1. ASSUME plan' = plan, at' = at, row' = row, RowsType', RowsOf(i)',
               \A j \in Tests \ {i} : phase'[j] = phase[j] /\ torn'[j] = torn[j]
        PROVE  RowsInv'
    BY <2>1, OthersRows
  <2>2. CASE Start(i)
    <3>1. \A k \in 1..Rows : row[i][k] = "none" /\ ~RowBusy(i, k)
      BY <2>2 DEF Start, RowsOf, RowBusy
    <3>2. phase'[i] \in {"paused", "running"} /\ row' = row /\ torn' = torn /\ ~torn[i]
      BY <2>2 DEF Start, RowsOf, tableVars
    <3>3. RowsOf(i)'
      BY <3>1, <3>2 DEF RowsOf, RowBusy
    <3>4. QED
      BY <2>1, <2>2, <3>3 DEF Start, tableVars
  <2>3. CASE Resume(i)
    BY <2>1, <2>3 DEF Resume, RowsOf, RowBusy, At, tableVars
  <2>4. CASE BodyStep(i)
    BY <2>4, BodyRows
  <2>5. CASE RunDefer(i)
    <3>1. plan' = plan /\ at' = at /\ row' = row /\ torn' = torn
      <4>1. CASE defers[i] = <<>>
        BY <2>5, <4>1 DEF RunDefer, tableVars
      <4>2. CASE defers[i] # <<>>
        <5>1. defers[i][Len(defers[i])] = "profile"
          BY <4>2
        <5>2. torn' = [torn EXCEPT ![i] = torn[i] \/ FALSE]
          BY <2>5, <4>2, <5>1 DEF RunDefer
        <5>3. torn' = torn
          BY <5>2
        <5>4. QED
          BY <2>5, <5>3 DEF RunDefer, tableVars
      <4>3. QED
        BY <4>1, <4>2
    <3>2. CASE defers[i] = <<>>
      <4>1. \A k \in 1..Rows : ~RowBusy(i, k)
        BY <2>5 DEF RunDefer, RowsOf, At
      <4>2. RowsOf(i)'
        <5>1. phase'[i] = "cleanups" => \A k \in 1..Rows : row[i][k] \in {"none", "done"}
          BY <2>5, <3>2 DEF RunDefer, RowDone
        <5>2. phase'[i] \in {"cleanups", "rows"} /\ ~torn[i]
          <6>1. phase[i] = "defers"
            BY <2>5 DEF RunDefer
          <6>2. ~torn[i]
            BY <6>1 DEF RowsOf
          <6>3. CASE row[i] = [k \in 1..Rows |-> "none"] \/ RowDone(i)
            BY <2>5, <3>2, <6>2, <6>3 DEF RunDefer
          <6>4. CASE ~(row[i] = [k \in 1..Rows |-> "none"] \/ RowDone(i))
            BY <2>5, <3>2, <6>2, <6>4 DEF RunDefer
          <6>5. QED
            BY <6>3, <6>4
        <5>3. QED
          BY <3>1, <4>1, <5>1, <5>2, QuietRows
      <4>3. RowsType'
        BY <2>5, <3>1, <3>2 DEF RunDefer
      <4>4. QED
        BY <2>1, <2>5, <3>1, <3>2, <4>2, <4>3 DEF RunDefer
    <3>3. CASE defers[i] # <<>>
      <4>1. phase' = phase /\ defers' = [defers EXCEPT ![i] = SubSeq(@, 1, Len(@) - 1)]
        BY <2>5, <3>3 DEF RunDefer
      <4>2. SubSeq(defers[i], 1, Len(defers[i]) - 1) \in Seq({"profile"})
        BY <3>3
      <4>3. RowsType'
        BY <3>1, <4>1, <4>2
      <4>4. RowsOf(i)'
        BY <3>1, <4>1, OthersRows
      <4>5. QED
        BY <2>1, <3>1, <4>1, <4>3, <4>4
    <3>4. QED
      BY <3>2, <3>3
  <2>6. CASE EndRows(i)
    <3>1. plan' = plan /\ at' = at /\ row' = row /\ torn' = torn /\ defers' = defers
      BY <2>6 DEF EndRows, tableVars
    <3>2. phase' = [phase EXCEPT ![i] = "cleanups"] /\ phase[i] = "rows"
      BY <2>6 DEF EndRows
    <3>3. \A k \in 1..Rows : row[i][k] = "done" /\ ~RowBusy(i, k)
      BY <2>6 DEF EndRows, RowDone, RowBusy
    <3>4. RowsOf(i)'
      BY <3>1, <3>2, <3>3, QuietRows
    <3>5. RowsType'
      BY <3>1, <3>2
    <3>6. QED
      BY <2>1, <3>1, <3>2, <3>4, <3>5
  <2>7. CASE RunCleanup(i)
    <3>1. \A k \in 1..Rows : ~RowBusy(i, k)
      BY <2>7 DEF RunCleanup, RowsOf, RowBusy
    <3>2. plan' = plan /\ at' = at /\ row' = row /\ defers' = defers
      BY <2>7 DEF RunCleanup, tableVars
    <3>3. phase' = phase \/ phase' = [phase EXCEPT ![i] = "done"]
      BY <2>7 DEF RunCleanup
    <3>4. torn' = torn \/ \E b \in BOOLEAN : torn' = [torn EXCEPT ![i] = b]
      <4>1. CASE cleanups[i] = <<>>
        BY <2>7, <4>1 DEF RunCleanup
      <4>2. CASE cleanups[i] # <<>>
        <5> DEFINE b == torn[i] \/ cleanups[i][Len(cleanups[i])] = "after_all"
        <5>1. torn' = [torn EXCEPT ![i] = b]
          BY <2>7, <4>2, Zenon DEF RunCleanup
        <5>2. b \in BOOLEAN
          OBVIOUS
        <5> HIDE DEF b
        <5>3. QED
          BY <5>1, <5>2
      <4>3. QED
        BY <4>1, <4>2
    <3>5. phase[i] = "cleanups" /\ phase'[i] \in {"cleanups", "done"}
      BY <2>7, <3>3 DEF RunCleanup
    <3>6. RowsOf(i)'
      BY <3>1, <3>2, <3>5 DEF RowsOf, RowBusy
    <3>7. RowsType'
      BY <3>2, <3>3, <3>4
    <3>8. QED
      BY <2>1, <3>2, <3>3, <3>4, <3>6, <3>7
  <2>8. QED
    BY <1>1, <2>2, <2>3, <2>4, <2>5, <2>6, <2>7 DEF TestStep
<1>2. ASSUME NEW i \in Tests, LateGo(i) \/ LateEnd(i)
      PROVE  RowsInv'
  BY <1>2, OthersRows DEF LateGo, LateEnd, tableVars
<1>3. ASSUME NEW i \in Tests, NEW k \in 1..Rows, RowStep(i, k)
      PROVE  RowsInv'
  <2>1. UNCHANGED <<plan, phase, at, torn, defers>>
    BY <1>3 DEF RowStep, ResumeRow, RowReads, RowWrites
  <2>2. PICK state \in {"running", "halfway", "done"} : row' = [row EXCEPT ![i][k] = state]
    BY <1>3 DEF RowStep, ResumeRow, RowReads, RowWrites
  <2>3. RowBusy(i, k) \/ (phase[i] = "rows" /\ row[i][k] = "paused")
    BY <1>3 DEF RowStep, ResumeRow, RowReads, RowWrites, RowBusy
  <2>4. (phase[i] = "rows" /\ Parallel(i)) \/ (At(i, "rows") /\ ~Parallel(i))
    <3> HIDE DEF RowsInv
    <3>1. RowsOf(i)
      BY DEF RowsInv
    <3>2. /\ RowBusy(i, k) => (phase[i] = "rows" /\ Parallel(i)) \/ (At(i, "rows") /\ ~Parallel(i))
          /\ row[i][k] = "paused" => Parallel(i)
      BY <3>1, Zenon DEF RowsOf
    <3>3. QED
      BY <2>3, <3>2, Zenon
  <2>5. RowsOf(i)'
    BY <2>1, <2>2, <2>4 DEF RowsOf, RowBusy, At, Parallel
  <2>6. QED
    BY <2>1, <2>2, <2>5, OthersRows
<1>4. CASE UNCHANGED vars
  BY <1>4, OthersRows DEF vars, tableVars
<1>5. QED
  BY <1>1, <1>2, <1>3, <1>4 DEF Next, Terminated

(* When `after all` has run, no row of the test is running or waiting to   *)
(* run, in serial and in parallel tests.                                   *)
THEOREM TeardownAfterRows == Spec => []TeardownLast
<1>1. RowsInv => TeardownLast
  BY DEF RowsInv, RowsOf, TeardownLast
<1>2. QED
  BY <1>1, InitRows, StepRows, PTL DEF Spec
(***************************************************************************)
(* Types.                                                                  *)
(***************************************************************************)

LEMMA PlanTypes == ASSUME TypeOK PROVE plan \in [Tests -> [serial : BOOLEAN, body : Seq(Ops)]]
BY BinaryAssumption DEF TypeOK

(* A function takes finitely many values on a finite set. *)
LEMMA ImageFinite ==
  ASSUME NEW S, IsFiniteSet(S), NEW f
  PROVE  IsFiniteSet({f[x] : x \in S})
<1> DEFINE T == {f[x] : x \in S}
           g == [x \in S |-> f[x]]
<1>1. g \in [S -> T] /\ \A t \in T : \E s \in S : g[s] = t
  OBVIOUS
<1> HIDE DEF T, g
<1>2. g \in Surjection(S, T)
  BY <1>1 DEF Surjection
<1>3. IsFiniteSet(T)
  BY <1>2, FS_Surjection
<1>4. QED
  BY <1>3 DEF T

(* However many the tests have started, the process has finitely many      *)
(* goroutines, and NumGoroutine counts them.                               *)
LEMMA GoroutinesFinite ==
  ASSUME live \in [Tests -> Nat]
  PROVE  IsFiniteSet(Goroutines) /\ NumGoroutine \in Nat
<1> DEFINE Code(i) == {"code"} \X {i} \X (1..live[i])
           TestGo == {"test"} \X Tests \X {0}
           RowGo == {"row"} \X Tests \X (1..Rows)
           CodeGo == UNION {Code(i) : i \in Tests}
<1>1. IsFiniteSet(Tests) /\ IsFiniteSet(1..Rows)
  BY BinaryAssumption, FS_Interval DEF Tests
<1>2. IsFiniteSet(TestGo)
  <2> DEFINE f == [i \in Tests |-> <<"test", i, 0>>]
  <2>1. IsFiniteSet({f[i] : i \in Tests})
    <3> HIDE DEF f
    <3>1. QED
      BY <1>1, ImageFinite
  <2>2. {f[i] : i \in Tests} = TestGo
    OBVIOUS
  <2>3. QED
    BY <2>1, <2>2
<1>3. IsFiniteSet(RowGo)
  <2> DEFINE f == [x \in Tests \X (1..Rows) |-> <<"row", x[1], x[2]>>]
  <2>1. IsFiniteSet(Tests \X (1..Rows))
    BY <1>1, FS_Product
  <2>2. IsFiniteSet({f[x] : x \in Tests \X (1..Rows)})
    <3> HIDE DEF f
    <3>1. QED
      BY <2>1, ImageFinite
  <2>3. RowGo \subseteq {f[x] : x \in Tests \X (1..Rows)}
    <3> SUFFICES ASSUME NEW i \in Tests, NEW k \in 1..Rows
                 PROVE  <<"row", i, k>> \in {f[x] : x \in Tests \X (1..Rows)}
      OBVIOUS
    <3>1. <<i, k>> \in Tests \X (1..Rows) /\ f[<<i, k>>] = <<"row", i, k>>
      OBVIOUS
    <3>2. QED
      BY <3>1
  <2>4. QED
    BY <2>2, <2>3, FS_Subset
<1>4. IsFiniteSet(CodeGo)
  <2>1. ASSUME NEW i \in Tests
        PROVE  IsFiniteSet(Code(i))
    <3> DEFINE f == [n \in 1..live[i] |-> <<"code", i, n>>]
    <3>1. live[i] \in Nat
      OBVIOUS
    <3>2. IsFiniteSet(1..live[i])
      BY <3>1, FS_Interval
    <3>3. IsFiniteSet({f[n] : n \in 1..live[i]})
      <4> HIDE DEF f
      <4>1. QED
        BY <3>2, ImageFinite
    <3>4. \A n \in 1..live[i] : f[n] = <<"code", i, n>>
      OBVIOUS
    <3>5. Code(i) \subseteq {f[n] : n \in 1..live[i]}
      <4> HIDE DEF f
      <4>1. QED
        BY <3>4
    <3>6. QED
      <4> HIDE DEF f, Code
      <4>1. QED
        BY <3>3, <3>5, FS_Subset
  <2> DEFINE of == [i \in Tests |-> Code(i)]
             All == {of[i] : i \in Tests}
  <2>2. IsFiniteSet(All)
    <3> HIDE DEF of
    <3>1. QED
      BY <1>1, ImageFinite
  <2>3. \A t \in All : IsFiniteSet(t)
    BY <2>1
  <2>4. IsFiniteSet(UNION All)
    <3> HIDE DEF All
    <3>1. QED
      BY <2>2, <2>3, FS_UNION
  <2>5. All = {Code(i) : i \in Tests}
    OBVIOUS
  <2>6. QED
    BY <2>4, <2>5
<1>5. IsFiniteSet(TestGo \cup RowGo \cup CodeGo)
  <2> HIDE DEF TestGo, RowGo, CodeGo
  <2>1. IsFiniteSet(TestGo \cup RowGo)
    BY <1>2, <1>3, FS_Union
  <2>2. QED
    BY <2>1, <1>4, FS_Union
<1>6. Goroutines \subseteq TestGo \cup RowGo \cup CodeGo
  BY DEF Goroutines
<1>7. IsFiniteSet(Goroutines)
  <2> HIDE DEF TestGo, RowGo, CodeGo
  <2>1. QED
    BY <1>5, <1>6, FS_Subset
<1>8. QED
  BY <1>7, FS_CardinalityType DEF NumGoroutine

LEMMA InitTypes == Init => TypeOK
BY DEF Init, TypeOK, Phases

(* Taking the last element off a sequence. *)
LEMMA AllButLast ==
  ASSUME NEW S, NEW s \in Seq(S), s # <<>>
  PROVE  SubSeq(s, 1, Len(s) - 1) \in Seq(S) /\ s[Len(s)] \in S /\ Len(s) \in Nat \ {0}
OBVIOUS

(* Setting a row of a test. *)
LEMMA SetRow ==
  ASSUME NEW S, NEW f \in [Tests -> [1..Rows -> S]], NEW i \in Tests, NEW k \in 1..Rows, NEW v \in S
  PROVE  [f EXCEPT ![i][k] = v] \in [Tests -> [1..Rows -> S]]
OBVIOUS

LEMMA AdvanceTypes ==
  ASSUME TypeOK, NEW i \in Tests, Advance(i)
  PROVE  at' \in [Tests -> Nat \ {0}] /\ plan' = plan /\ phase' = phase
<1>1. at \in [Tests -> Nat \ {0}]
  BY DEF TypeOK
<1>2. QED
  BY <1>1 DEF Advance

LEMMA BodyTypes ==
  ASSUME TypeOK, NEW i \in Tests, BodyStep(i)
  PROVE  TypeOK'
<1> USE DEF tableVars, leakVars
<1>1. CASE NoLeaks(i)
  <2>1. NumGoroutine \in Nat
    BY GoroutinesFinite DEF TypeOK
  <2>2. before' \in [Tests -> Nat]
    <3>1. before \in [Tests -> Nat] /\ before' = [before EXCEPT ![i] = NumGoroutine]
      BY <1>1 DEF TypeOK, NoLeaks
    <3>2. QED
      BY <2>1, <3>1
  <2>3. cleanups' \in [Tests -> Seq({"no_leaks", "after_all"})]
    <3>1. /\ cleanups \in [Tests -> Seq({"no_leaks", "after_all"})]
          /\ cleanups' = [cleanups EXCEPT ![i] = Append(@, "no_leaks")]
      BY <1>1 DEF TypeOK, NoLeaks
    <3>2. QED
      BY <3>1
  <2>4. UNCHANGED <<defers, tableVars, seen, live, grown, leaking, reported, cpu, torn>> /\ Advance(i)
    BY <1>1 DEF NoLeaks
  <2>5. QED
    BY <2>2, <2>3, <2>4, AdvanceTypes DEF TypeOK
<1>2. CASE Profile(i)
  <2>1. defers' \in [Tests -> Seq({"profile", "after_all"})]
    <3>1. /\ defers \in [Tests -> Seq({"profile", "after_all"})]
          /\ defers' = [defers EXCEPT ![i] = Append(@, "profile")]
      BY <1>2 DEF TypeOK, Profile
    <3>2. QED
      BY <3>1
  <2>2. UNCHANGED <<cleanups, tableVars, seen, leakVars, torn>> /\ Advance(i) /\ cpu' \in {cpu, i}
    BY <1>2 DEF Profile
  <2>3. QED
    BY <2>1, <2>2, AdvanceTypes DEF TypeOK
<1>3. CASE AfterAll(i)
  <2>1. cleanups' \in [Tests -> Seq({"no_leaks", "after_all"})]
    <3>1. /\ cleanups \in [Tests -> Seq({"no_leaks", "after_all"})]
          /\ cleanups' = [cleanups EXCEPT ![i] = Append(@, "after_all")]
      BY <1>3 DEF TypeOK, AfterAll
    <3>2. QED
      BY <3>1
  <2>2. UNCHANGED <<defers, tableVars, seen, leakVars, cpu, torn>> /\ Advance(i)
    BY <1>3 DEF AfterAll
  <2>3. QED
    BY <2>1, <2>2, AdvanceTypes DEF TypeOK
<1>4. CASE Table(i)
  <2>1. row' \in [Tests -> [1..Rows -> RowStates]]
    <3>1. row \in [Tests -> [1..Rows -> RowStates]] /\ {"paused", "running"} \subseteq RowStates
      BY DEF TypeOK, RowStates
    <3>2. CASE row' = row \/ row' = [row EXCEPT ![i] = [k \in 1..Rows |-> "paused"]]
      BY <3>1, <3>2
    <3>3. CASE \E k \in 1..Rows : row' = [row EXCEPT ![i][k] = "running"]
      BY <3>1, <3>3, SetRow
    <3>4. QED
      BY <1>4, <3>2, <3>3 DEF Table
  <2>2. UNCHANGED <<defers, cleanups, read, calls, seen, leakVars, cpu, torn>>
    BY <1>4 DEF Table
  <2>3. at' \in [Tests -> Nat \ {0}] /\ plan' = plan /\ phase' = phase
    <3>1. Advance(i) \/ UNCHANGED <<plan, phase, at>>
      BY <1>4 DEF Table
    <3>2. QED
      BY <3>1, AdvanceTypes DEF TypeOK
  <2>4. QED
    BY <2>1, <2>2, <2>3 DEF TypeOK, RowStates
<1>5. CASE Verify(i)
  <2>1. seen' \in [Tests -> Int]
    <3>1. seen \in [Tests -> Int] /\ calls[i] \in Int /\ seen' = [seen EXCEPT ![i] = calls[i]]
      BY <1>5 DEF TypeOK, Verify
    <3>2. QED
      BY <3>1
  <2>2. UNCHANGED <<defers, cleanups, tableVars, leakVars, cpu, torn>> /\ Advance(i)
    BY <1>5 DEF Verify
  <2>3. QED
    BY <2>1, <2>2, AdvanceTypes DEF TypeOK
<1>6. CASE Go(i) \/ Stop(i)
  <2>1. live' \in [Tests -> Nat]
    <3>1. live \in [Tests -> Nat]
      BY DEF TypeOK
    <3>2. QED
      BY <1>6, <3>1 DEF Go, Stop
  <2>2. UNCHANGED <<defers, cleanups, tableVars, seen, before, grown, leaking, reported, cpu, torn>> /\ Advance(i)
    BY <1>6 DEF Go, Stop
  <2>3. QED
    BY <2>1, <2>2, AdvanceTypes DEF TypeOK
<1>7. CASE Plain(i)
  <2>1. UNCHANGED <<defers, cleanups, tableVars, seen, leakVars, cpu, torn>> /\ Advance(i)
    BY <1>7 DEF Plain
  <2>2. QED
    BY <2>1, AdvanceTypes DEF TypeOK
<1>8. CASE EndBody(i)
  <2>1. phase' \in [Tests -> Phases]
    <3>1. phase \in [Tests -> Phases] /\ phase' = [phase EXCEPT ![i] = "defers"]
      BY <1>8 DEF TypeOK, EndBody
    <3>2. QED
      BY <3>1 DEF Phases
  <2>2. UNCHANGED <<plan, at, defers, cleanups, tableVars, seen, leakVars, cpu, torn>>
    BY <1>8 DEF EndBody
  <2>3. QED
    BY <2>1, <2>2 DEF TypeOK
<1>9. QED
  BY <1>1, <1>2, <1>3, <1>4, <1>5, <1>6, <1>7, <1>8 DEF BodyStep

LEMMA StepTypes == TypeOK /\ [Next]_vars => TypeOK'
<1> SUFFICES ASSUME TypeOK, [Next]_vars
             PROVE  TypeOK'
  OBVIOUS
<1> USE DEF tableVars, leakVars
<1>1. ASSUME NEW i \in Tests, TestStep(i)
      PROVE  TypeOK'
  <2> phase \in [Tests -> Phases] /\ torn \in [Tests -> BOOLEAN]
    BY DEF TypeOK
  <2>1. CASE Start(i) \/ Resume(i) \/ EndRows(i)
    <3>1. phase' \in [Tests -> Phases]
      BY <2>1 DEF Start, Resume, EndRows, Phases
    <3>2. UNCHANGED <<plan, at, defers, cleanups, tableVars, seen, leakVars, cpu, torn>>
      BY <2>1 DEF Start, Resume, EndRows
    <3>3. QED
      BY <3>1, <3>2 DEF TypeOK
  <2>2. CASE BodyStep(i)
    BY <2>2, BodyTypes
  <2>3. CASE RunDefer(i)
    <3>1. CASE defers[i] = <<>>
      <4>1. phase' \in [Tests -> Phases]
        BY <2>3, <3>1 DEF RunDefer, Phases
      <4>2. UNCHANGED <<plan, at, defers, cleanups, tableVars, seen, leakVars, cpu, torn>>
        BY <2>3, <3>1 DEF RunDefer
      <4>3. QED
        BY <4>1, <4>2 DEF TypeOK
    <3>2. CASE defers[i] # <<>>
      <4> DEFINE b == torn[i] \/ defers[i][Len(defers[i])] = "after_all"
      <4>1. SubSeq(defers[i], 1, Len(defers[i]) - 1) \in Seq({"profile", "after_all"})
        BY <3>2, AllButLast DEF TypeOK
      <4>2. torn' = [torn EXCEPT ![i] = b] /\ b \in BOOLEAN
        BY <2>3, <3>2, Zenon DEF RunDefer
      <4>3. torn' \in [Tests -> BOOLEAN]
        <5> HIDE DEF b
        <5>1. QED
          BY <4>2
      <4>4. defers' = [defers EXCEPT ![i] = SubSeq(@, 1, Len(@) - 1)] /\ cpu' \in {cpu, Nobody} /\ phase' = phase
        BY <2>3, <3>2 DEF RunDefer
      <4>5. UNCHANGED <<plan, at, cleanups, tableVars, seen, leakVars>>
        BY <2>3 DEF RunDefer
      <4>6. defers' \in [Tests -> Seq({"profile", "after_all"})]
        BY <4>1, <4>4 DEF TypeOK
      <4>7. QED
        BY <4>3, <4>4, <4>5, <4>6 DEF TypeOK
    <3>3. QED
      BY <3>1, <3>2
  <2>5. CASE RunCleanup(i)
    <3>1. CASE cleanups[i] = <<>>
      <4>1. phase' \in [Tests -> Phases]
        BY <2>5, <3>1 DEF RunCleanup, Phases
      <4>2. UNCHANGED <<plan, at, defers, cleanups, tableVars, seen, leakVars, cpu, torn>>
        BY <2>5, <3>1 DEF RunCleanup
      <4>3. QED
        BY <4>1, <4>2 DEF TypeOK
    <3>2. CASE cleanups[i] # <<>>
      <4> DEFINE b == torn[i] \/ cleanups[i][Len(cleanups[i])] = "after_all"
                 r == NumGoroutine > before[i]
      <4>1. SubSeq(cleanups[i], 1, Len(cleanups[i]) - 1) \in Seq({"no_leaks", "after_all"})
        BY <3>2, AllButLast DEF TypeOK
      <4>2. torn' = [torn EXCEPT ![i] = b] /\ b \in BOOLEAN
        BY <2>5, <3>2, Zenon DEF RunCleanup
      <4>3. torn' \in [Tests -> BOOLEAN]
        <5> HIDE DEF b
        <5>1. QED
          BY <4>2
      <4>4. cleanups' = [cleanups EXCEPT ![i] = SubSeq(@, 1, Len(@) - 1)] /\ phase' = phase
        BY <2>5, <3>2 DEF RunCleanup
      <4>5. \/ leaking' = leaking /\ reported' = reported
            \/ leaking' = [leaking EXCEPT ![i] = {j \in Tests : live[j] > 0}] /\ reported' = [reported EXCEPT ![i] = r]
        BY <2>5, <3>2, Zenon DEF RunCleanup
      <4>6. r \in BOOLEAN
        OBVIOUS
      <4>7. leaking' \in [Tests -> SUBSET Tests] /\ reported' \in [Tests -> BOOLEAN]
        <5> HIDE DEF r
        <5>1. PICK whose \in SUBSET Tests : whose = {j \in Tests : live[j] > 0}
          OBVIOUS
        <5>2. \/ leaking' = leaking /\ reported' = reported
              \/ leaking' = [leaking EXCEPT ![i] = whose] /\ reported' = [reported EXCEPT ![i] = r]
          BY <4>5, <5>1
        <5>3. leaking \in [Tests -> SUBSET Tests] /\ reported \in [Tests -> BOOLEAN]
          BY DEF TypeOK
        <5>4. QED
          BY <4>6, <5>2, <5>3
      <4>8. UNCHANGED <<plan, at, defers, tableVars, seen, before, live, grown, cpu>>
        BY <2>5 DEF RunCleanup
      <4>9. cleanups' \in [Tests -> Seq({"no_leaks", "after_all"})]
        BY <4>1, <4>4 DEF TypeOK
      <4>10. QED
        BY <4>3, <4>4, <4>7, <4>8, <4>9 DEF TypeOK
    <3>3. QED
      BY <3>1, <3>2
  <2>6. QED
    BY <1>1, <2>1, <2>2, <2>3, <2>5 DEF TestStep
<1>2. ASSUME NEW i \in Tests, LateGo(i) \/ LateEnd(i)
      PROVE  TypeOK'
  <2>1. live' \in [Tests -> Nat] /\ grown' \in [Tests -> BOOLEAN]
    <3>1. live \in [Tests -> Nat] /\ grown \in [Tests -> BOOLEAN]
      BY DEF TypeOK
    <3>2. CASE LateGo(i)
      BY <3>1, <3>2 DEF LateGo
    <3>3. CASE LateEnd(i)
      BY <3>1, <3>3 DEF LateEnd
    <3>4. QED
      BY <1>2, <3>2, <3>3
  <2>2. UNCHANGED <<plan, phase, at, defers, cleanups, tableVars, seen, before, leaking, reported, cpu, torn>>
    BY <1>2 DEF LateGo, LateEnd
  <2>3. QED
    BY <2>1, <2>2 DEF TypeOK
<1>3. ASSUME NEW i \in Tests, NEW k \in 1..Rows, RowStep(i, k)
      PROVE  TypeOK'
  <2>1. /\ row' \in [Tests -> [1..Rows -> RowStates]]
        /\ read' \in [Tests -> [1..Rows -> Nat]] /\ calls' \in [Tests -> Nat]
    <3>1. /\ row \in [Tests -> [1..Rows -> RowStates]] /\ {"running", "halfway", "done"} \subseteq RowStates
          /\ read \in [Tests -> [1..Rows -> Nat]] /\ calls \in [Tests -> Nat]
      BY DEF TypeOK, RowStates
    <3>2. CASE ResumeRow(i, k)
      BY <3>1, <3>2, SetRow DEF ResumeRow
    <3>3. CASE RowReads(i, k)
      <4>1. calls[i] \in Nat /\ read' = [read EXCEPT ![i][k] = calls[i]]
        BY <3>1, <3>3 DEF RowReads
      <4>2. read' \in [Tests -> [1..Rows -> Nat]]
        BY <3>1, <4>1, SetRow
      <4>3. row' \in [Tests -> [1..Rows -> RowStates]] /\ calls' = calls
        BY <3>1, <3>3, SetRow DEF RowReads
      <4>4. QED
        BY <3>1, <4>2, <4>3
    <3>4. CASE RowWrites(i, k)
      <4>1. row' \in [Tests -> [1..Rows -> RowStates]] /\ read' = read
        BY <3>1, <3>4, SetRow DEF RowWrites
      <4>2. read[i][k] + 1 \in Nat
        <5>1. read[i] \in [1..Rows -> Nat]
          BY <3>1
        <5>2. read[i][k] \in Nat
          BY <5>1
        <5>3. QED
          BY <5>2
      <4>3. calls' = [calls EXCEPT ![i] = read[i][k] + 1]
        BY <3>4 DEF RowWrites
      <4>4. calls' \in [Tests -> Nat]
        BY <3>1, <4>2, <4>3
      <4>5. QED
        BY <4>1, <3>1, <4>4
    <3>5. QED
      BY <1>3, <3>2, <3>3, <3>4 DEF RowStep
  <2>2. UNCHANGED <<plan, phase, at, defers, cleanups, seen, leakVars, cpu, torn>>
    BY <1>3 DEF RowStep, ResumeRow, RowReads, RowWrites
  <2>3. QED
    BY <2>1, <2>2 DEF TypeOK, RowStates
<1>4. CASE UNCHANGED vars
  BY <1>4 DEF vars, TypeOK
<1>5. QED
  BY <1>1, <1>2, <1>3, <1>4 DEF Next, Terminated

(* Every test is written, stands and counts as TypeOK says, for any number *)
(* of tests and rows; the goroutines of the process can always be counted. *)
THEOREM BinaryTypes == Spec => []TypeOK
BY InitTypes, StepTypes, PTL DEF Spec

(***************************************************************************)
(* What a serial test profiles and verifies covers its rows.               *)
(***************************************************************************)

(* A profile that is recorded is that of a test whose StopCPUProfile is    *)
(* still to run; and a serial test past its profile records its own.       *)
ProfileOf(i) ==
  /\ phase[i] \in {"queued", "paused"} => at[i] = 1
  /\ cpu = i => phase[i] \in {"running", "defers"} /\ defers[i] # <<>>
  /\ plan[i].serial /\ Profiled(i) /\ phase[i] = "running" => cpu = i

ProfileInv == \A i \in Tests : ProfileOf(i)

(* All that the tests share: SerialInv and RowsInv hold as well.            *)
Shared == TypeOK /\ SerialInv /\ RowsInv

LEMMA InitProfile == Init => ProfileInv
BY DEF Init, ProfileInv, ProfileOf, Profiled, Tests, Nobody

(* A test that a step leaves alone, while the profile it has goes on.      *)
LEMMA OthersProfile ==
  ASSUME ProfileInv, NEW j \in Tests, plan'[j] = plan[j], phase'[j] = phase[j], at'[j] = at[j],
         defers'[j] = defers[j], cpu'  = j <=> cpu = j
  PROVE  ProfileOf(j)'
BY DEF ProfileInv, ProfileOf, Profiled

LEMMA StepProfile == Shared /\ ProfileInv /\ [Next]_vars => ProfileInv'
<1> SUFFICES ASSUME Shared, ProfileInv, [Next]_vars
             PROVE  ProfileInv'
  OBVIOUS
<1> USE DEF Shared
<1>t. /\ plan \in [Tests -> [serial : BOOLEAN, body : Seq(Ops)]]
      /\ phase \in [Tests -> Phases] /\ at \in [Tests -> Nat] /\ cpu \in Tests \cup {Nobody}
      /\ defers \in [Tests -> Seq({"profile"})] /\ Nobody \notin Tests
  BY PlanTypes DEF TypeOK, RowsInv, RowsType, Tests, Nobody
<1>s. \A i, j \in Tests : plan[i].serial /\ Busy(i) /\ Busy(j) => i = j
  BY SerialAlways DEF SerialAlone, WantsAlone
<1>1. ASSUME UNCHANGED <<plan, phase, at, defers, cpu>>
      PROVE  ProfileInv'
  BY <1>1, OthersProfile DEF ProfileInv
<1>2. ASSUME NEW i \in Tests, TestStep(i)
      PROVE  ProfileInv'
  <2>1. CASE Start(i) \/ Resume(i)
    <3>1. UNCHANGED <<plan, at, defers, cpu>> /\ phase'[i] \in {"paused", "running"} /\ at[i] = 1 /\ cpu # i
      BY <1>t, <2>1 DEF Start, Resume, ProfileInv, ProfileOf
    <3>2. \A j \in Tests \ {i} : phase'[j] = phase[j]
      BY <1>t, <2>1 DEF Start, Resume
    <3>3. ProfileOf(i)'
      BY <1>t, <3>1 DEF ProfileOf, Profiled
    <3>4. QED
      BY <3>1, <3>2, <3>3, OthersProfile DEF ProfileInv
  <2>2. CASE Profile(i)
    <3>1. /\ phase[i] = "running" /\ plan' = plan /\ phase' = phase /\ defers' = [defers EXCEPT ![i] = Append(@, "profile")]
          /\ at' = [at EXCEPT ![i] = @ + 1] /\ cpu' = IF cpu = Nobody THEN i ELSE cpu
      BY <2>2 DEF Profile, At, Advance
    <3>2. defers'[i] # <<>>
      BY <1>t, <3>1
    <3>3. ProfileOf(i)'
      <4>1. plan[i].serial => cpu \in {Nobody, i}
        <5>1. cpu # Nobody => Busy(cpu)
          BY <1>t DEF ProfileInv, ProfileOf, Busy
        <5>2. Busy(i)
          BY <3>1 DEF Busy
        <5>3. QED
          BY <1>s, <1>t, <5>1, <5>2
      <4>2. plan[i].serial => cpu' = i
        BY <3>1, <4>1
      <4>3. QED
        BY <3>1, <3>2, <4>2 DEF ProfileOf
    <3>4. ASSUME NEW j \in Tests \ {i}
          PROVE  ProfileOf(j)'
      <4>1. cpu' = j <=> cpu = j
        BY <1>t, <3>1
      <4>2. QED
        BY <1>t, <3>1, <4>1, OthersProfile
    <3>5. QED
      BY <3>3, <3>4 DEF ProfileInv
  <2>3. CASE BodyStep(i) /\ ~Profile(i) /\ ~EndBody(i)
    <3>1. UNCHANGED <<plan, phase, defers, cpu>> /\ phase[i] = "running"
      BY <2>3 DEF BodyStep, NoLeaks, AfterAll, Table, Verify, Go, Stop, Plain, Advance, At
    <3>2. \/ at' = at
          \/ plan[i].body[at[i]] # "profile" /\ at' = [at EXCEPT ![i] = @ + 1]
      BY <2>3 DEF BodyStep, NoLeaks, AfterAll, Table, Verify, Go, Stop, Plain, Advance, At
    <3>3. Profiled(i)' => Profiled(i)
      BY <1>t, <3>1, <3>2 DEF Profiled
    <3>4. ProfileOf(i)'
      BY <3>1, <3>3 DEF ProfileInv, ProfileOf
    <3>5. \A j \in Tests \ {i} : at'[j] = at[j]
      BY <1>t, <3>2
    <3>6. QED
      BY <3>1, <3>4, <3>5, OthersProfile DEF ProfileInv
  <2>4. CASE EndBody(i)
    <3>1. UNCHANGED <<plan, at, defers, cpu>> /\ phase' = [phase EXCEPT ![i] = "defers"] /\ phase[i] = "running"
      BY <2>4 DEF EndBody
    <3>2. ProfileOf(i)'
      BY <1>t, <3>1 DEF ProfileInv, ProfileOf
    <3>3. QED
      BY <1>t, <3>1, <3>2, OthersProfile DEF ProfileInv
  <2>5. CASE RunDefer(i) /\ defers[i] = <<>>
    <3>1. UNCHANGED <<plan, at, defers, cpu>> /\ cpu # i
      BY <2>5 DEF RunDefer, ProfileInv, ProfileOf
    <3>2. phase' = [phase EXCEPT ![i] = "cleanups"] \/ phase' = [phase EXCEPT ![i] = "rows"]
      BY <2>5 DEF RunDefer
    <3>3. phase'[i] \in {"cleanups", "rows"} /\ \A j \in Tests \ {i} : phase'[j] = phase[j]
      BY <1>t, <3>2
    <3>4. ProfileOf(i)'
      BY <3>1, <3>3 DEF ProfileOf
    <3>5. QED
      BY <3>1, <3>3, <3>4, OthersProfile DEF ProfileInv
  <2>6. CASE RunDefer(i) /\ defers[i] # <<>>
    <3>1. defers[i][Len(defers[i])] = "profile"
      BY <1>t, <2>6
    <3>2. /\ UNCHANGED <<plan, at, phase>> /\ phase[i] = "defers" /\ cpu' = Nobody
          /\ \E s : defers' = [defers EXCEPT ![i] = s]
      BY <2>6, <3>1 DEF RunDefer
    <3>3. ASSUME NEW j \in Tests
          PROVE  ProfileOf(j)'
      <4>1. cpu' # j
        BY <1>t, <3>2
      <4>2. ~(plan[j].serial /\ phase[j] = "running")
        BY <1>s, <3>2 DEF Busy
      <4>3. phase[j] \in {"queued", "paused"} => at[j] = 1
        BY DEF ProfileInv, ProfileOf
      <4>4. QED
        BY <3>2, <4>1, <4>2, <4>3 DEF ProfileOf
    <3>4. QED
      BY <3>3 DEF ProfileInv
  <2>7. CASE EndRows(i) \/ RunCleanup(i)
    <3>1. UNCHANGED <<plan, at, defers, cpu>> /\ phase[i] \in {"rows", "cleanups"}
      BY <2>7 DEF EndRows, RunCleanup
    <3>2. phase' = phase \/ phase' = [phase EXCEPT ![i] = "cleanups"] \/ phase' = [phase EXCEPT ![i] = "done"]
      BY <2>7 DEF EndRows, RunCleanup
    <3>3. phase'[i] \in {"rows", "cleanups", "done"} /\ \A j \in Tests \ {i} : phase'[j] = phase[j]
      BY <1>t, <3>1, <3>2
    <3>4. cpu # i
      BY <3>1 DEF ProfileInv, ProfileOf
    <3>5. ProfileOf(i)'
      BY <3>1, <3>3, <3>4 DEF ProfileOf
    <3>6. QED
      BY <3>1, <3>3, <3>5, OthersProfile DEF ProfileInv
  <2>8. QED
    BY <1>2, <2>1, <2>2, <2>3, <2>4, <2>5, <2>6, <2>7 DEF TestStep
<1>3. ASSUME NEW i \in Tests, LateGo(i) \/ LateEnd(i)
      PROVE  ProfileInv'
  BY <1>1, <1>3 DEF LateGo, LateEnd
<1>4. ASSUME NEW i \in Tests, NEW k \in 1..Rows, RowStep(i, k)
      PROVE  ProfileInv'
  BY <1>1, <1>4 DEF RowStep, ResumeRow, RowReads, RowWrites
<1>5. CASE UNCHANGED vars
  BY <1>1, <1>5 DEF vars
<1>6. QED
  BY <1>2, <1>3, <1>4, <1>5 DEF Next, Terminated

(* The rows of a serial test run in order and one at a time: the counter   *)
(* of the mock tells which of them are done, and the one that is between   *)
(* its read and its write has read what the counter still is.              *)
PastTable(i) == \E m \in 1..(at[i] - 1) : m \in DOMAIN plan[i].body /\ plan[i].body[m] = "rows"
TableOf(i) ==
  /\ calls[i] \in 0..Rows
  /\ \A k \in 1..Rows :
       /\ row[i][k] = "done" <=> k <= calls[i]
       /\ row[i][k] # "paused"
       /\ RowBusy(i, k) => k = calls[i] + 1
       /\ row[i][k] = "halfway" => read[i][k] = calls[i]
  /\ PastTable(i) => calls[i] = Rows
  /\ TableAbove(plan[i]) /\ seen[i] # -1 => seen[i] = Rows

TableInv == \A i \in Tests : plan[i].serial => TableOf(i)

LEMMA InitTable == Init => TableInv
BY BinaryAssumption DEF Init, TableInv, TableOf, PastTable, RowBusy

(* A test that a step leaves alone. *)
LEMMA OthersTable ==
  ASSUME TableInv, NEW j \in Tests, plan'[j] = plan[j], at'[j] = at[j], row'[j] = row[j], read'[j] = read[j],
         calls'[j] = calls[j], seen'[j] = seen[j], plan[j].serial
  PROVE  TableOf(j)'
<1>1. TableOf(j)
  BY DEF TableInv
<1>2. \A k \in 1..Rows : RowBusy(j, k)' <=> RowBusy(j, k)
  BY DEF RowBusy
<1>3. PastTable(j)' <=> PastTable(j)
  BY DEF PastTable
<1>4. QED
  BY <1>1, <1>2, <1>3 DEF TableOf, TableAbove

(* When every row is done, the counter is at their number. *)
LEMMA DoneCounts ==
  ASSUME TypeOK, NEW i \in Tests, TableOf(i), RowDone(i)
  PROVE  calls[i] = Rows
<1>1. Rows \in Nat /\ calls[i] \in 0..Rows
  BY BinaryAssumption DEF TableOf
<1>2. CASE Rows = 0
  BY <1>1, <1>2
<1>3. CASE Rows # 0
  <2>1. Rows \in 1..Rows
    BY <1>1, <1>3
  <2>2. row[i][Rows] = "done" /\ (row[i][Rows] = "done" <=> Rows <= calls[i])
    BY <2>1 DEF RowDone, TableOf
  <2>3. QED
    BY <1>1, <2>2
<1>4. QED
  BY <1>2, <1>3

(* One more operation of the body, not the table, leaves the rows alone.   *)
LEMMA AdvanceTable ==
  ASSUME TypeOK, TableInv, NEW i \in Tests, Advance(i), plan[i].serial, row' = row, read' = read, calls' = calls,
         at[i] \in DOMAIN plan[i].body /\ plan[i].body[at[i]] = "rows" => calls[i] = Rows,
         TableAbove(plan[i]) /\ seen'[i] # -1 => seen'[i] = Rows
  PROVE  TableOf(i)'
<1>1. TableOf(i) /\ plan' = plan /\ at' = [at EXCEPT ![i] = @ + 1] /\ at \in [Tests -> Nat]
  BY DEF TableInv, Advance, TypeOK
<1>2. PastTable(i)' => PastTable(i) \/ (at[i] \in DOMAIN plan[i].body /\ plan[i].body[at[i]] = "rows")
  BY <1>1 DEF PastTable
<1>3. \A k \in 1..Rows : RowBusy(i, k)' <=> RowBusy(i, k)
  BY DEF RowBusy
<1>4. QED
  BY <1>1, <1>2, <1>3 DEF TableOf, TableAbove

LEMMA BodyTable ==
  ASSUME TypeOK, SerialInv, TableInv, NEW i \in Tests, BodyStep(i), plan[i].serial
  PROVE  TableOf(i)'
<1> USE DEF tableVars, leakVars
<1>t. /\ plan \in [Tests -> [serial : BOOLEAN, body : Seq(Ops)]] /\ at \in [Tests -> Nat \ {0}]
      /\ row \in [Tests -> [1..Rows -> RowStates]] /\ calls \in [Tests -> Nat] /\ seen \in [Tests -> Int]
  BY PlanTypes DEF TypeOK, RowStates
<1>o. TableOf(i)
  BY DEF TableInv
<1>1. CASE Table(i)
  <2>1. ~Parallel(i)
    BY DEF Parallel, ShouldParallelizeTest
  <2>2. CASE RowDone(i)
    <3>1. calls[i] = Rows
      BY <1>o, <2>2, DoneCounts
    <3>2. Advance(i) /\ UNCHANGED <<row, read, calls, seen>>
      BY <1>1, <2>1, <2>2 DEF Table
    <3>3. TableAbove(plan[i]) /\ seen'[i] # -1 => seen'[i] = Rows
      BY <1>o, <3>2 DEF TableOf
    <3>4. QED
      BY <3>1, <3>2, <3>3, AdvanceTable
  <2>3. CASE ~RowDone(i)
    <3>1. PICK k \in 1..Rows : /\ row[i][k] = "none" /\ \A l \in 1..(k - 1) : row[i][l] = "done"
                               /\ row' = [row EXCEPT ![i][k] = "running"]
      BY <1>1, <2>1, <2>3 DEF Table
    <3>2. UNCHANGED <<plan, at, read, calls, seen>>
      BY <1>1, <2>1, <2>3 DEF Table
    <3>3. k = calls[i] + 1
      <4>1. calls[i] \in 0..Rows /\ ~(k <= calls[i])
        BY <1>o, <3>1 DEF TableOf
      <4>2. k - 1 <= calls[i]
        <5>1. CASE k = 1
          BY <4>1, <5>1
        <5>2. CASE k # 1
          <6>1. k - 1 \in 1..(k - 1) /\ k - 1 \in 1..Rows
            BY <5>2, BinaryAssumption
          <6>2. row[i][k - 1] = "done"
            BY <3>1, <6>1
          <6>3. QED
            BY <1>o, <6>1, <6>2 DEF TableOf
        <5>3. QED
          BY <5>1, <5>2
      <4>3. QED
        BY <4>1, <4>2
    <3>4. row'[i][k] = "running" /\ \A l \in (1..Rows) \ {k} : row'[i][l] = row[i][l]
      BY <1>t, <3>1
    <3>5. PastTable(i)' <=> PastTable(i)
      BY <3>2 DEF PastTable
    <3>6. \A l \in 1..Rows : /\ row'[i][l] = "done" <=> l <= calls[i]
                             /\ row'[i][l] # "paused"
                             /\ row'[i][l] \in {"running", "halfway"} => l = calls[i] + 1
                             /\ row'[i][l] = "halfway" => read[i][l] = calls[i]
      <4>1. ASSUME NEW l \in (1..Rows) \ {k}
            PROVE  /\ row[i][l] = "done" <=> l <= calls[i]
                   /\ row[i][l] # "paused"
                   /\ row[i][l] \in {"running", "halfway"} => l = calls[i] + 1
                   /\ row[i][l] = "halfway" => read[i][l] = calls[i]
        BY <1>o DEF TableOf, RowBusy
      <4>2. ~(k <= calls[i])
        BY <1>o, <3>3 DEF TableOf
      <4>3. QED
        BY <3>3, <3>4, <4>1, <4>2
    <3>7. QED
      BY <1>o, <3>2, <3>5, <3>6 DEF TableOf, RowBusy, TableAbove
  <2>4. QED
    BY <2>2, <2>3
<1>2. CASE Verify(i)
  <2>1. Advance(i) /\ UNCHANGED <<row, read, calls>> /\ seen' = [seen EXCEPT ![i] = calls[i]] /\ At(i, "verify")
    BY <1>2 DEF Verify
  <2>2. TableAbove(plan[i]) => PastTable(i)
    <3>1. plan[i].body \in Seq(Ops) /\ at[i] \in Nat \ {0} /\ at[i] <= Len(plan[i].body) /\ plan[i].body[at[i]] = "verify"
      BY <1>t, <2>1 DEF At
    <3>2. at[i] \in DOMAIN plan[i].body
      BY <3>1
    <3>3. ASSUME NEW m \in 1..(at[i] - 1)
          PROVE  m \in DOMAIN plan[i].body
      BY <3>1, <3>3
    <3>4. QED
      BY <3>1, <3>2, <3>3 DEF TableAbove, PastTable
  <2>3. TableAbove(plan[i]) => seen'[i] = Rows
    BY <1>o, <1>t, <2>1, <2>2 DEF TableOf
  <2>4. plan[i].body[at[i]] # "rows"
    BY <2>1 DEF At
  <2>5. QED
    BY <2>1, <2>3, <2>4, AdvanceTable
<1>3. CASE EndBody(i)
  BY <1>3, OthersTable DEF EndBody
<1>4. CASE NoLeaks(i) \/ Profile(i) \/ AfterAll(i) \/ Go(i) \/ Stop(i) \/ Plain(i)
  <2>1. Advance(i) /\ UNCHANGED <<row, read, calls, seen>> /\ plan[i].body[at[i]] # "rows"
    BY <1>4 DEF NoLeaks, Profile, AfterAll, Go, Stop, Plain, At
  <2>2. TableAbove(plan[i]) /\ seen'[i] # -1 => seen'[i] = Rows
    BY <1>o, <2>1 DEF TableOf
  <2>3. QED
    BY <2>1, <2>2, AdvanceTable
<1>5. QED
  BY <1>1, <1>2, <1>3, <1>4 DEF BodyStep

LEMMA StepTable == Shared /\ TableInv /\ [Next]_vars => TableInv'
<1> SUFFICES ASSUME Shared, TableInv, [Next]_vars
             PROVE  TableInv'
  OBVIOUS
<1> USE DEF Shared, tableVars, leakVars
<1>t. /\ plan \in [Tests -> [serial : BOOLEAN, body : Seq(Ops)]] /\ at \in [Tests -> Nat]
      /\ row \in [Tests -> [1..Rows -> RowStates]] /\ read \in [Tests -> [1..Rows -> Nat]]
      /\ calls \in [Tests -> Nat] /\ seen \in [Tests -> Int]
  BY PlanTypes DEF TypeOK, RowStates
<1>1. ASSUME UNCHANGED <<plan, at, row, read, calls, seen>>
      PROVE  TableInv'
  BY <1>1, OthersTable DEF TableInv
<1>2. ASSUME NEW i \in Tests, TestStep(i)
      PROVE  TableInv'
  <2>1. CASE BodyStep(i)
    <3>1. plan' = plan
      BY <2>1 DEF BodyStep, NoLeaks, Profile, AfterAll, Table, Verify, Go, Stop, Plain, EndBody, Advance
    <3>2. \A j \in Tests \ {i} : /\ at'[j] = at[j] /\ row'[j] = row[j] /\ read'[j] = read[j]
                                 /\ calls'[j] = calls[j] /\ seen'[j] = seen[j]
      <4>1. at' = at \/ at' = [at EXCEPT ![i] = @ + 1]
        BY <2>1 DEF BodyStep, NoLeaks, Profile, AfterAll, Table, Verify, Go, Stop, Plain, EndBody, Advance
      <4>2. row' = row \/ (\E r : row' = [row EXCEPT ![i] = r]) \/ \E k \in 1..Rows : row' = [row EXCEPT ![i][k] = "running"]
        BY <2>1 DEF BodyStep, NoLeaks, Profile, AfterAll, Table, Verify, Go, Stop, Plain, EndBody
      <4>3. read' = read /\ calls' = calls /\ (seen' = seen \/ \E n : seen' = [seen EXCEPT ![i] = n])
        BY <2>1 DEF BodyStep, NoLeaks, Profile, AfterAll, Table, Verify, Go, Stop, Plain, EndBody
      <4>4. \A j \in Tests \ {i} : at'[j] = at[j] /\ seen'[j] = seen[j]
        BY <1>t, <4>1, <4>3
      <4>5. \A j \in Tests \ {i} : row'[j] = row[j]
        BY <1>t, <4>2
      <4>6. QED
        BY <4>3, <4>4, <4>5
    <3>3. plan[i].serial => TableOf(i)'
      BY <2>1, BodyTable
    <3>4. QED
      BY <3>1, <3>2, <3>3, OthersTable DEF TableInv
  <2>2. CASE ~BodyStep(i)
    BY <1>1, <1>2, <2>2 DEF TestStep, Start, Resume, RunDefer, EndRows, RunCleanup
  <2>3. QED
    BY <2>1, <2>2
<1>3. ASSUME NEW i \in Tests, LateGo(i) \/ LateEnd(i)
      PROVE  TableInv'
  BY <1>1, <1>3 DEF LateGo, LateEnd
<1>4. ASSUME NEW i \in Tests, NEW k \in 1..Rows, RowStep(i, k)
      PROVE  TableInv'
  <2>1. UNCHANGED <<plan, at, seen>> /\ \E s : row' = [row EXCEPT ![i][k] = s]
    BY <1>4 DEF RowStep, ResumeRow, RowReads, RowWrites
  <2>2. read' = read \/ read' = [read EXCEPT ![i][k] = calls[i]]
    BY <1>4 DEF RowStep, ResumeRow, RowReads, RowWrites
  <2>3. calls' = calls \/ calls' = [calls EXCEPT ![i] = read[i][k] + 1]
    BY <1>4 DEF RowStep, ResumeRow, RowReads, RowWrites
  <2>4. \A j \in Tests \ {i} : row'[j] = row[j] /\ read'[j] = read[j] /\ calls'[j] = calls[j]
    <3>1. \A j \in Tests \ {i} : row'[j] = row[j]
      BY <1>t, <2>1
    <3>2. \A j \in Tests \ {i} : read'[j] = read[j]
      BY <1>t, <2>2
    <3>3. \A j \in Tests \ {i} : calls'[j] = calls[j]
      BY <1>t, <2>3
    <3>4. QED
      BY <3>1, <3>2, <3>3
  <2>5. ASSUME plan[i].serial
        PROVE  TableOf(i)'
    <3>o. TableOf(i)
      BY <2>5 DEF TableInv
    <3>p. (PastTable(i)' <=> PastTable(i)) /\ (TableAbove(plan[i])' <=> TableAbove(plan[i]))
      BY <2>1 DEF PastTable, TableAbove
    <3>1. ~ResumeRow(i, k)
      BY <3>o DEF ResumeRow, TableOf
    <3>2. CASE RowReads(i, k)
      <4>1. /\ row'[i][k] = "halfway" /\ read'[i][k] = calls[i] /\ calls' = calls
            /\ \A l \in (1..Rows) \ {k} : row'[i][l] = row[i][l] /\ read'[i][l] = read[i][l]
        BY <1>t, <3>2 DEF RowReads
      <4>2. RowBusy(i, k)
        BY <3>2 DEF RowReads, RowBusy
      <4>3. \A l \in 1..Rows : /\ row'[i][l] = "done" <=> l <= calls[i]
                               /\ row'[i][l] # "paused"
                               /\ row'[i][l] \in {"running", "halfway"} => l = calls[i] + 1
                               /\ row'[i][l] = "halfway" => read'[i][l] = calls[i]
        BY <1>t, <3>o, <4>1, <4>2 DEF TableOf, RowBusy
      <4>4. QED
        BY <2>1, <3>o, <3>p, <4>1, <4>3 DEF TableOf, RowBusy
    <3>3. CASE RowWrites(i, k)
      <4>1. /\ row'[i][k] = "done" /\ read' = read /\ calls'[i] = read[i][k] + 1
            /\ \A l \in (1..Rows) \ {k} : row'[i][l] = row[i][l]
        BY <1>t, <3>3 DEF RowWrites
      <4>2. k = calls[i] + 1 /\ read[i][k] = calls[i] /\ calls[i] \in 0..Rows
        BY <3>3, <3>o DEF RowWrites, RowBusy, TableOf
      <4>3. calls'[i] = k
        BY <4>1, <4>2
      <4>4. \A l \in 1..Rows : /\ row'[i][l] = "done" <=> l <= k
                               /\ row'[i][l] # "paused"
                               /\ row'[i][l] \notin {"running", "halfway"}
        <5>1. ASSUME NEW l \in (1..Rows) \ {k}
              PROVE  /\ row[i][l] = "done" <=> l <= calls[i]
                     /\ row[i][l] # "paused"
                     /\ row[i][l] \in {"running", "halfway"} => l = calls[i] + 1
          BY <3>o DEF TableOf, RowBusy
        <5>2. QED
          BY <4>1, <4>2, <5>1
      <4>5. calls[i] # Rows
        BY <4>2, BinaryAssumption
      <4>6. QED
        BY <2>1, <3>o, <3>p, <4>3, <4>4, <4>5 DEF TableOf, RowBusy
    <3>4. QED
      BY <1>4, <3>1, <3>2, <3>3 DEF RowStep
  <2>6. QED
    BY <2>1, <2>4, <2>5, OthersTable DEF TableInv
<1>5. CASE UNCHANGED vars
  BY <1>1, <1>5 DEF vars
<1>6. QED
  BY <1>2, <1>3, <1>4, <1>5 DEF Next, Terminated

(* In a serial test, verify below the table counts every row once, and     *)
(* what stands below the profile is recorded in that test's profile,       *)
(* however many tests, rows and slots there are and whatever else runs     *)
(* (README.md:554).                                                        *)
THEOREM SerialRows == Spec => []SerialRowsAreSeen
<1>1. Shared /\ TableInv => VerifySeesRows
  BY DEF TableInv, TableOf, VerifySeesRows
<1>2. Shared /\ ProfileInv => ProfileCovers
  <2> SUFFICES ASSUME Shared, ProfileInv, NEW i \in Tests, plan[i].serial, Profiled(i),
                      phase[i] = "running" \/ \E k \in 1..Rows : RowBusy(i, k)
               PROVE  cpu = i
    BY DEF ProfileCovers
  <2>1. ~Parallel(i)
    BY DEF Parallel, ShouldParallelizeTest
  <2>2. phase[i] = "running"
    BY <2>1 DEF Shared, RowsInv, RowsOf, At
  <2>3. QED
    BY <2>2 DEF ProfileInv, ProfileOf
<1>3. QED
  BY <1>1, <1>2, InitTypes, StepTypes, InitSerial, StepSerial, InitRows, StepRows, InitProfile, StepProfile,
     InitTable, StepTable, PTL DEF Spec, Shared, SerialRowsAreSeen

(***************************************************************************)
(* What no_leaks reports in a serial test.                                 *)
(***************************************************************************)

(* The goroutines that are neither rows nor code under test of test i, nor *)
(* of a test whose goroutines have started others since it was over.       *)
Others(i) == {g \in Goroutines : /\ g[2] = i => g[1] = "test"
                                 /\ g[1] = "code" => ~grown[g[2]]}
NoLeaksDue(i) == \E n \in DOMAIN cleanups[i] : cleanups[i][n] = "no_leaks"
OnRow == {"paused", "running", "halfway"}

(* Why: from the moment a serial test has counted the goroutines, nothing  *)
(* but itself and what tests have left behind starts any, so that those of *)
(* all others are still no more.                                           *)
LeakOf(i) ==
  /\ phase[i] # "queued" => \A j \in 1..(i - 1) : phase[j] # "queued"
  /\ phase[i] \in {"queued", "paused"} => cleanups[i] = <<>>
  /\ ~Parallel(i) /\ Busy(i) /\ NoLeaksDue(i) => Cardinality(Others(i)) <= before[i]
  /\ ~Parallel(i) /\ reported[i] => \E j \in leaking[i] : j = i \/ grown[j]

LeakInv == \A i \in Tests : LeakOf(i)

LEMMA InitLeak == Init => LeakInv
BY DEF Init, LeakInv, LeakOf, Busy

LEMMA OthersFinite ==
  ASSUME TypeOK, NEW i \in Tests
  PROVE  IsFiniteSet(Others(i)) /\ Cardinality(Others(i)) \in Nat /\ Cardinality(Others(i)) <= NumGoroutine
<1>1. IsFiniteSet(Goroutines)
  BY GoroutinesFinite DEF TypeOK
<1>2. Others(i) \in SUBSET Goroutines
  BY DEF Others
<1>3. IsFiniteSet(Others(i)) /\ Cardinality(Others(i)) <= Cardinality(Goroutines)
  BY <1>1, <1>2, FS_Subset
<1>4. QED
  BY <1>3, FS_CardinalityType DEF NumGoroutine

(* What a goroutine is. *)
LEMMA GoroutineKinds ==
  ASSUME TypeOK, NEW g
  PROVE  g \in Goroutines <=>
           \/ \E j \in Tests : g = <<"test", j, 0>> /\ phase[j] \notin {"queued", "done"}
           \/ \E j \in Tests, k \in 1..Rows : g = <<"row", j, k>> /\ row[j][k] \in OnRow
           \/ \E j \in Tests : \E n \in 1..live[j] : g = <<"code", j, n>>
<1>1. g \in {h \in {"test"} \X Tests \X {0} : phase[h[2]] \notin {"queued", "done"}}
        <=> \E j \in Tests : g = <<"test", j, 0>> /\ phase[j] \notin {"queued", "done"}
  OBVIOUS
<1>2. g \in {h \in {"row"} \X Tests \X (1..Rows) : row[h[2]][h[3]] \in {"paused", "running", "halfway"}}
        <=> \E j \in Tests, k \in 1..Rows : g = <<"row", j, k>> /\ row[j][k] \in OnRow
  BY DEF OnRow
<1>3. g \in UNION {{"code"} \X {j} \X (1..live[j]) : j \in Tests}
        <=> \E j \in Tests : \E n \in 1..live[j] : g = <<"code", j, n>>
  OBVIOUS
<1>4. QED
  BY <1>1, <1>2, <1>3 DEF Goroutines

(* When no test but i gets a goroutine, and i keeps or loses its own, the  *)
(* goroutines of others become no more.                                    *)
LEMMA OthersStay ==
  ASSUME TypeOK, NEW i \in Tests,
         \A j \in Tests : phase'[j] \notin {"queued", "done"} => phase[j] \notin {"queued", "done"},
         \A j \in Tests \ {i} : \A k \in 1..Rows : row'[j][k] \in OnRow => row[j][k] \in OnRow,
         \A j \in Tests \ {i} : ~grown'[j] => ~grown[j] /\ live'[j] \in 0..live[j]
  PROVE  Cardinality(Others(i)') \in Nat /\ Cardinality(Others(i)') <= Cardinality(Others(i))
<1>1. ASSUME NEW g \in Others(i)'
      PROVE  g \in Others(i)
  <2>1. g \in Goroutines' /\ (g[2] = i => g[1] = "test") /\ (g[1] = "code" => ~grown'[g[2]])
    BY DEF Others
  <2>2. CASE g \in {h \in {"test"} \X Tests \X {0} : phase'[h[2]] \notin {"queued", "done"}}
    <3>1. PICK j \in Tests : g = <<"test", j, 0>> /\ phase'[j] \notin {"queued", "done"}
      BY <2>2
    <3>2. g \in Goroutines
      BY <3>1, GoroutineKinds
    <3>3. g[1] = "test"
      BY <3>1
    <3>4. QED
      BY <2>1, <3>2, <3>3 DEF Others
  <2>3. CASE g \in {h \in {"row"} \X Tests \X (1..Rows) : row'[h[2]][h[3]] \in {"paused", "running", "halfway"}}
    <3>1. PICK j \in Tests, k \in 1..Rows : g = <<"row", j, k>> /\ row'[j][k] \in OnRow
      BY <2>3 DEF OnRow
    <3>2. j # i
      BY <2>1, <3>1
    <3>3. g \in Goroutines
      BY <3>1, <3>2, GoroutineKinds
    <3>4. g[1] = "row"
      BY <3>1
    <3>5. QED
      BY <2>1, <3>3, <3>4 DEF Others
  <2>4. CASE g \in UNION {{"code"} \X {j} \X (1..live'[j]) : j \in Tests}
    <3>1. PICK j \in Tests : g \in {"code"} \X {j} \X (1..live'[j])
      BY <2>4
    <3>2. PICK n \in 1..live'[j] : g = <<"code", j, n>>
      BY <3>1
    <3>3. j # i /\ ~grown'[j]
      BY <2>1, <3>2
    <3>4. n \in 1..live[j] /\ ~grown[j]
      <4>1. live[j] \in Nat /\ live'[j] \in 0..live[j] /\ ~grown[j]
        BY <3>3 DEF TypeOK
      <4>2. QED
        BY <3>2, <4>1
    <3>5. g \in Goroutines
      BY <3>2, <3>4, GoroutineKinds
    <3>6. QED
      BY <2>1, <3>2, <3>4, <3>5 DEF Others
  <2>5. QED
    BY <2>1, <2>2, <2>3, <2>4 DEF Goroutines
<1>2. IsFiniteSet(Others(i)) /\ Others(i)' \in SUBSET Others(i)
  BY <1>1, OthersFinite
<1>3. QED
  BY <1>2, FS_Subset, FS_CardinalityType

(* A step that leaves what a test has counted, and what it has said, alone.*)
LEMMA KeepsLeak ==
  ASSUME TypeOK, LeakInv, NEW i \in Tests, plan' = plan, before'[i] = before[i],
         reported'[i] = reported[i], leaking'[i] = leaking[i],
         \A j \in Tests : grown[j] => grown'[j],
         phase'[i] # "queued" => \A j \in 1..(i - 1) : phase'[j] # "queued",
         phase'[i] \in {"queued", "paused"} => cleanups'[i] = <<>>,
         Busy(i)' /\ NoLeaksDue(i)' /\ ~Parallel(i) => Busy(i) /\ NoLeaksDue(i),
         Busy(i)' /\ NoLeaksDue(i)' /\ ~Parallel(i) =>
           /\ \A j \in Tests : phase'[j] \notin {"queued", "done"} => phase[j] \notin {"queued", "done"}
           /\ \A j \in Tests \ {i} : \A k \in 1..Rows : row'[j][k] \in OnRow => row[j][k] \in OnRow
           /\ \A j \in Tests \ {i} : ~grown'[j] => ~grown[j] /\ live'[j] \in 0..live[j]
  PROVE  LeakOf(i)'
<1>1. LeakOf(i) /\ (Parallel(i)' <=> Parallel(i)) /\ before[i] \in Nat
  BY DEF LeakInv, Parallel, TypeOK
<1>2. ASSUME ~Parallel(i), Busy(i)', NoLeaksDue(i)'
      PROVE  Cardinality(Others(i)') <= before'[i]
  <2>1. Cardinality(Others(i)) <= before[i]
    BY <1>1, <1>2 DEF LeakOf
  <2>2. Cardinality(Others(i)') \in Nat /\ Cardinality(Others(i)') <= Cardinality(Others(i))
    BY <1>2, OthersStay
  <2>3. Cardinality(Others(i)) \in Nat
    BY OthersFinite
  <2>4. QED
    BY <1>1, <2>1, <2>2, <2>3
<1>3. ~Parallel(i) /\ reported'[i] => \E j \in leaking'[i] : j = i \/ grown'[j]
  <2>1. leaking[i] \in SUBSET Tests
    BY DEF TypeOK
  <2>2. QED
    BY <1>1, <2>1 DEF LeakOf
<1>4. QED
  BY <1>1, <1>2, <1>3 DEF LeakOf

(* A step of a test that is busy leaves the other tests where they are,    *)
(* and none of them is a busy serial one.                                  *)
LEMMA OthersLeak ==
  ASSUME Shared, LeakInv, NEW i \in Tests, NEW j \in Tests \ {i}, Busy(i), plan' = plan, grown' = grown,
         phase'[j] = phase[j], phase'[i] # "queued", \A l \in Tests \ {i} : phase'[l] = phase[l],
         before'[j] = before[j], reported'[j] = reported[j], leaking'[j] = leaking[j], cleanups'[j] = cleanups[j]
  PROVE  LeakOf(j)'
<1>1. ASSUME ~Parallel(j), Busy(j)'
      PROVE  FALSE
  <2>1. Busy(j)
    BY <1>1 DEF Busy
  <2>2. CASE Parallel(i)
    BY <1>1, <2>1, <2>2 DEF Shared, SerialInv, Busy
  <2>3. CASE ~Parallel(i)
    BY <1>1, <2>1, <2>3 DEF Shared, SerialInv, Busy, Tests
  <2>4. QED
    BY <2>2, <2>3
<1>2. LeakOf(j)
  BY DEF LeakInv
<1>3. phase'[j] # "queued" => \A l \in 1..(j - 1) : phase'[l] # "queued"
  <2>1. \A l \in 1..(j - 1) : l \in Tests
    BY BinaryAssumption DEF Tests
  <2>2. \A l \in 1..(j - 1) : phase[l] # "queued" => phase'[l] # "queued"
    BY <2>1
  <2>3. QED
    BY <1>2, <2>2 DEF LeakOf
<1>4. phase'[j] \in {"queued", "paused"} => cleanups'[j] = <<>>
  BY <1>2 DEF LeakOf
<1>5. TypeOK
  BY DEF Shared
<1>6. QED
  BY <1>1, <1>3, <1>4, <1>5, KeepsLeak

(* The step of a busy test, for that test: it counts no goroutines.        *)
LEMMA OwnLeak ==
  ASSUME Shared, LeakInv, NEW i \in Tests, Busy(i), plan' = plan, grown' = grown, phase'[i] \notin {"queued", "paused"},
         \A l \in Tests \ {i} : phase'[l] = phase[l] /\ row'[l] = row[l] /\ live'[l] = live[l],
         before'[i] = before[i], reported'[i] = reported[i], leaking'[i] = leaking[i],
         NoLeaksDue(i)' => NoLeaksDue(i)
  PROVE  LeakOf(i)'
<1>1. TypeOK
  BY DEF Shared
<1>2. phase'[i] # "queued" => \A j \in 1..(i - 1) : phase'[j] # "queued"
  <2>1. \A j \in 1..(i - 1) : j \in Tests \ {i}
    BY BinaryAssumption DEF Tests
  <2>2. \A j \in 1..(i - 1) : phase[j] # "queued"
    BY DEF LeakInv, LeakOf, Busy
  <2>3. QED
    BY <2>1, <2>2
<1>3. \A j \in Tests : phase'[j] \notin {"queued", "done"} => phase[j] \notin {"queued", "done"}
  BY DEF Busy
<1>4. \A j \in Tests \ {i} : live'[j] \in 0..live[j]
  <2>1. live \in [Tests -> Nat]
    BY <1>1 DEF TypeOK
  <2>2. \A j \in Tests \ {i} : live[j] \in Nat /\ live'[j] = live[j]
    BY <2>1
  <2>3. QED
    BY <2>2
<1>5. QED
  BY <1>1, <1>2, <1>3, <1>4, KeepsLeak

LEMMA BodyLeak ==
  ASSUME Shared, LeakInv, NEW i \in Tests, BodyStep(i)
  PROVE  LeakInv'
<1> USE DEF leakVars, tableVars
<1>t. /\ plan \in [Tests -> [serial : BOOLEAN, body : Seq(Ops)]] /\ phase \in [Tests -> Phases]
      /\ cleanups \in [Tests -> Seq({"no_leaks", "after_all"})] /\ before \in [Tests -> Nat] /\ live \in [Tests -> Nat]
      /\ row \in [Tests -> [1..Rows -> RowStates]]
  BY PlanTypes DEF Shared, TypeOK, RowStates
<1>1. /\ plan' = plan /\ phase[i] = "running" /\ phase'[i] \in {"running", "defers"} /\ reported' = reported /\ leaking' = leaking /\ grown' = grown
      /\ \A l \in Tests \ {i} : phase'[l] = phase[l]
  <2>1. /\ plan' = plan /\ phase[i] = "running" /\ reported' = reported /\ leaking' = leaking /\ grown' = grown
        /\ phase' = phase \/ phase' = [phase EXCEPT ![i] = "defers"]
    BY DEF BodyStep, NoLeaks, Profile, AfterAll, Table, Verify, Go, Stop, Plain, EndBody, Advance, At
  <2>2. QED
    BY <1>t, <2>1
<1>2. \A l \in Tests \ {i} : /\ row'[l] = row[l] /\ live'[l] = live[l]
                             /\ before'[l] = before[l] /\ cleanups'[l] = cleanups[l]
  <2>1. row' = row \/ (\E r : row' = [row EXCEPT ![i] = r]) \/ \E k \in 1..Rows : row' = [row EXCEPT ![i][k] = "running"]
    BY DEF BodyStep, NoLeaks, Profile, AfterAll, Table, Verify, Go, Stop, Plain, EndBody
  <2>2. /\ live' = live \/ \E n : live' = [live EXCEPT ![i] = n]
        /\ before' = before \/ \E n : before' = [before EXCEPT ![i] = n]
        /\ cleanups' = cleanups \/ \E s : cleanups' = [cleanups EXCEPT ![i] = s]
    BY DEF BodyStep, NoLeaks, Profile, AfterAll, Table, Verify, Go, Stop, Plain, EndBody
  <2>3. \A l \in Tests \ {i} : row'[l] = row[l]
    BY <1>t, <2>1
  <2>4. \A l \in Tests \ {i} : live'[l] = live[l] /\ before'[l] = before[l] /\ cleanups'[l] = cleanups[l]
    BY <1>t, <2>2
  <2>5. QED
    BY <2>3, <2>4
<1>3. \A j \in Tests \ {i} : LeakOf(j)'
  BY <1>1, <1>2, OthersLeak DEF Busy
<1>4. LeakOf(i)'
  <2>1. CASE NoLeaks(i)
    <3>1. /\ UNCHANGED <<plan, phase, row, live, grown, leaking, reported>>
          /\ before' = [before EXCEPT ![i] = NumGoroutine]
      BY <2>1 DEF NoLeaks, Advance
    <3>2. before'[i] = NumGoroutine
      BY <1>t, <3>1
    <3>3. Others(i)' = Others(i)
      BY <3>1 DEF Others, Goroutines
    <3>4. Cardinality(Others(i)) <= NumGoroutine
      BY OthersFinite DEF Shared
    <3>5. Cardinality(Others(i)') <= before'[i]
      BY <3>2, <3>3, <3>4
    <3>6. /\ phase'[i] # "queued" => \A j \in 1..(i - 1) : phase'[j] # "queued"
          /\ phase'[i] \notin {"queued", "paused"}
          /\ ~Parallel(i)' /\ reported'[i] => \E j \in leaking'[i] : j = i \/ grown'[j]
      BY <1>1, <3>1 DEF LeakInv, LeakOf, Parallel
    <3>7. QED
      BY <3>5, <3>6 DEF LeakOf
  <2>2. CASE ~NoLeaks(i)
    <3>1. before' = before
      BY <2>2 DEF BodyStep, Profile, AfterAll, Table, Verify, Go, Stop, Plain, EndBody
    <3>2. cleanups' = cleanups \/ cleanups' = [cleanups EXCEPT ![i] = Append(@, "after_all")]
      BY <2>2 DEF BodyStep, Profile, AfterAll, Table, Verify, Go, Stop, Plain, EndBody
    <3>3. NoLeaksDue(i)' => NoLeaksDue(i)
      <4>1. CASE cleanups' = cleanups
        BY <4>1 DEF NoLeaksDue
      <4>2. CASE cleanups' = [cleanups EXCEPT ![i] = Append(@, "after_all")]
        <5>1. cleanups[i] \in Seq({"no_leaks", "after_all"}) /\ cleanups'[i] = Append(cleanups[i], "after_all")
          BY <1>t, <4>2
        <5>2. \A n \in DOMAIN cleanups'[i] : cleanups'[i][n] = "no_leaks" => n \in DOMAIN cleanups[i] /\ cleanups[i][n] = "no_leaks"
          BY <5>1
        <5>3. QED
          BY <5>2 DEF NoLeaksDue
      <4>3. QED
        BY <3>2, <4>1, <4>2
    <3>4. QED
      BY <1>1, <1>2, <3>1, <3>3, OwnLeak DEF Busy
  <2>3. QED
    BY <2>1, <2>2
<1>5. QED
  BY <1>3, <1>4 DEF LeakInv

(* The cleanup of no_leaks: when none of its own goroutines is left, the   *)
(* ones it finds are all others, and no more than it counted.              *)
LEMMA CleanupLeak ==
  ASSUME Shared, LeakInv, NEW i \in Tests, RunCleanup(i)
  PROVE  LeakInv'
<1> USE DEF leakVars, tableVars
<1>t. /\ TypeOK /\ phase \in [Tests -> Phases] /\ live \in [Tests -> Nat] /\ before \in [Tests -> Nat]
      /\ cleanups \in [Tests -> Seq({"no_leaks", "after_all"})]
      /\ reported \in [Tests -> BOOLEAN] /\ leaking \in [Tests -> SUBSET Tests]
  BY DEF Shared, TypeOK
<1>1. phase[i] = "cleanups" /\ UNCHANGED <<plan, row, live, grown, before>>
  BY DEF RunCleanup
<1>2. phase'[i] \in {"cleanups", "done"} /\ \A l \in Tests \ {i} : phase'[l] = phase[l]
  <2>1. phase' = phase \/ phase' = [phase EXCEPT ![i] = "done"]
    BY DEF RunCleanup
  <2>2. QED
    BY <1>1, <1>t, <2>1
<1>3. \A l \in Tests \ {i} : cleanups'[l] = cleanups[l] /\ reported'[l] = reported[l] /\ leaking'[l] = leaking[l]
  <2>1. /\ cleanups' = cleanups \/ \E s : cleanups' = [cleanups EXCEPT ![i] = s]
        /\ reported' = reported \/ \E b : reported' = [reported EXCEPT ![i] = b]
        /\ leaking' = leaking \/ \E n : leaking' = [leaking EXCEPT ![i] = n]
    BY DEF RunCleanup
  <2>2. QED
    BY <1>t, <2>1
<1>4. \A j \in Tests \ {i} : LeakOf(j)'
  BY <1>1, <1>2, <1>3, OthersLeak DEF Busy
<1>5. NoLeaksDue(i)' => NoLeaksDue(i)
  <2>1. CASE cleanups[i] = <<>>
    BY <2>1 DEF RunCleanup, NoLeaksDue
  <2>2. CASE cleanups[i] # <<>>
    <3>1. cleanups'[i] = SubSeq(cleanups[i], 1, Len(cleanups[i]) - 1)
      BY <1>t, <2>2 DEF RunCleanup
    <3>2. Len(cleanups[i]) \in Nat \ {0}
      BY <1>t, <2>2, AllButLast
    <3>3. \A n \in DOMAIN cleanups'[i] : n \in DOMAIN cleanups[i] /\ cleanups'[i][n] = cleanups[i][n]
      BY <1>t, <3>1, <3>2
    <3>4. QED
      BY <3>3 DEF NoLeaksDue
  <2>3. QED
    BY <2>1, <2>2
<1>6. CASE reported' = reported /\ leaking' = leaking
  <2>1. LeakOf(i)'
    BY <1>1, <1>2, <1>5, <1>6, OwnLeak DEF Busy
  <2>2. QED
    BY <1>4, <2>1 DEF LeakInv
<1>7. CASE ~(reported' = reported /\ leaking' = leaking)
  <2>1. /\ cleanups[i] # <<>> /\ cleanups[i][Len(cleanups[i])] = "no_leaks"
        /\ leaking' = [leaking EXCEPT ![i] = {j \in Tests : live[j] > 0}]
        /\ reported' = [reported EXCEPT ![i] = NumGoroutine > before[i]] /\ phase' = phase
    BY <1>7 DEF RunCleanup
  <2>2. NoLeaksDue(i)
    <3>1. Len(cleanups[i]) \in DOMAIN cleanups[i]
      BY <1>t, <2>1, AllButLast
    <3>2. QED
      BY <2>1, <3>1 DEF NoLeaksDue
  <2>3. leaking'[i] = {j \in Tests : live[j] > 0} /\ (reported'[i] <=> NumGoroutine > before[i])
    BY <1>t, <2>1
  <2>4. ASSUME ~Parallel(i), \A j \in Tests : live[j] > 0 => j # i /\ ~grown[j]
        PROVE  ~(NumGoroutine > before[i])
    <3>1. Cardinality(Others(i)) <= before[i]
      BY <1>1, <2>2, <2>4 DEF LeakInv, LeakOf, Busy
    <3>2. \A k \in 1..Rows : row[i][k] \notin OnRow
      BY <1>1 DEF Shared, RowsInv, RowsOf, OnRow
    <3>3. ASSUME NEW g \in Goroutines
          PROVE  g \in Others(i)
      <4>1. CASE \E j \in Tests : g = <<"test", j, 0>>
        BY <4>1 DEF Others
      <4>2. CASE \E j \in Tests, k \in 1..Rows : g = <<"row", j, k>> /\ row[j][k] \in OnRow
        <5>1. PICK j \in Tests, k \in 1..Rows : g = <<"row", j, k>> /\ row[j][k] \in OnRow
          BY <4>2
        <5>2. j # i
          BY <3>2, <5>1
        <5>3. QED
          BY <5>1, <5>2 DEF Others
      <4>3. CASE \E j \in Tests : \E n \in 1..live[j] : g = <<"code", j, n>>
        <5>1. PICK j \in Tests : \E n \in 1..live[j] : g = <<"code", j, n>>
          BY <4>3
        <5>2. live[j] \in Nat /\ live[j] > 0
          BY <1>t, <5>1
        <5>3. j # i /\ ~grown[j]
          BY <2>4, <5>2
        <5>4. QED
          BY <5>1, <5>3 DEF Others
      <4>4. QED
        BY <1>t, <4>1, <4>2, <4>3, GoroutineKinds
    <3>4. Others(i) = Goroutines
      BY <3>3 DEF Others
    <3>5. NumGoroutine \in Nat /\ before[i] \in Nat
      BY <1>t, GoroutinesFinite
    <3>6. QED
      BY <3>1, <3>4, <3>5 DEF NumGoroutine
  <2>5. ~Parallel(i) /\ reported'[i] => \E j \in leaking'[i] : j = i \/ grown'[j]
    BY <1>1, <2>3, <2>4
  <2>6. ~Parallel(i) /\ Busy(i)' /\ NoLeaksDue(i)' => Cardinality(Others(i)') <= before'[i]
    <3>1. Others(i)' = Others(i)
      BY <1>1, <2>1 DEF Others, Goroutines
    <3>2. ~Parallel(i) => Cardinality(Others(i)) <= before[i]
      BY <1>1, <2>2 DEF LeakInv, LeakOf, Busy
    <3>3. QED
      BY <1>1, <3>1, <3>2
  <2>7. phase'[i] # "queued" => \A j \in 1..(i - 1) : phase'[j] # "queued"
    BY <2>1 DEF LeakInv, LeakOf
  <2>8. LeakOf(i)'
    BY <1>1, <1>2, <2>5, <2>6, <2>7 DEF LeakOf, Parallel
  <2>9. QED
    BY <1>4, <2>8 DEF LeakInv
<1>8. QED
  BY <1>6, <1>7

LEMMA StepLeak == Shared /\ LeakInv /\ [Next]_vars => LeakInv'
<1> SUFFICES ASSUME Shared, LeakInv, [Next]_vars
             PROVE  LeakInv'
  OBVIOUS
<1> USE DEF leakVars, tableVars
<1>t. /\ TypeOK /\ SerialInv /\ phase \in [Tests -> Phases] /\ live \in [Tests -> Nat]
      /\ defers \in [Tests -> Seq({"profile"})]
  BY DEF Shared, TypeOK, RowsInv, RowsType
<1>s. \A i, j \in Tests : ~Parallel(i) /\ Busy(i) /\ Busy(j) => i = j
  <2> SUFFICES ASSUME NEW i \in Tests, NEW j \in Tests, ~Parallel(i), Busy(i), Busy(j)
               PROVE  i = j
    OBVIOUS
  <2>1. CASE Parallel(j)
    BY <1>t, <2>1 DEF SerialInv, Busy
  <2>2. CASE ~Parallel(j)
    BY <1>t, <2>2 DEF SerialInv, Busy, Tests
  <2>3. QED
    BY <2>1, <2>2
<1>z. \A j \in Tests : live[j] \in 0..live[j]
  BY <1>t
<1>1. ASSUME UNCHANGED <<plan, phase, cleanups, before, reported, leaking, row, live, grown>>
      PROVE  LeakInv'
  <2> SUFFICES ASSUME NEW i \in Tests
               PROVE  LeakOf(i)'
    BY DEF LeakInv
  <2>1. phase'[i] # "queued" => \A j \in 1..(i - 1) : phase'[j] # "queued"
    BY <1>1 DEF LeakInv, LeakOf
  <2>2. phase'[i] \in {"queued", "paused"} => cleanups'[i] = <<>>
    BY <1>1 DEF LeakInv, LeakOf
  <2>3. QED
    BY <1>1, <1>t, <1>z, <2>1, <2>2, KeepsLeak DEF Busy, NoLeaksDue
<1>2. ASSUME NEW i \in Tests, TestStep(i)
      PROVE  LeakInv'
  <2>1. CASE Start(i) \/ Resume(i)
    <3>1. /\ UNCHANGED <<plan, cleanups, before, reported, leaking, row, live, grown>>
          /\ phase[i] \in {"queued", "paused"} /\ phase'[i] \in {"paused", "running"}
          /\ \A j \in Tests \ {i} : phase'[j] = phase[j]
      BY <1>t, <2>1 DEF Start, Resume
    <3>2. \A j \in 1..(i - 1) : j \in Tests /\ j # i
      BY BinaryAssumption DEF Tests
    <3>3. ASSUME NEW j \in Tests
          PROVE  ~(~Parallel(j) /\ Busy(j)' /\ NoLeaksDue(j)')
      <4>1. CASE j = i
        BY <3>1, <4>1 DEF LeakInv, LeakOf, NoLeaksDue
      <4>2. CASE j # i /\ Start(i)
        <5>1. CASE j < i
          BY <3>1, <4>2, <5>1 DEF Start, Busy, Tests
        <5>2. CASE j > i
          <6>1. i \in 1..(j - 1)
            BY <5>2 DEF Tests
          <6>2. phase[j] = "queued"
            BY <4>2, <6>1 DEF LeakInv, LeakOf, Start
          <6>3. QED
            BY <3>1, <4>2, <6>2 DEF Busy
        <5>3. QED
          BY <4>2, <5>1, <5>2 DEF Tests
      <4>3. CASE j # i /\ Resume(i)
        BY <3>1, <4>3 DEF Resume, Busy
      <4>4. QED
        BY <2>1, <4>1, <4>2, <4>3
    <3>4. ASSUME NEW j \in Tests
          PROVE  phase'[j] # "queued" => \A l \in 1..(j - 1) : phase'[l] # "queued"
      <4>1. CASE j = i /\ Start(i)
        <5>1. \A l \in 1..(i - 1) : phase[l] \in {"paused", "done"} /\ phase'[l] = phase[l]
          BY <3>1, <3>2, <4>1 DEF Start
        <5>2. QED
          BY <4>1, <5>1
      <4>2. CASE j = i /\ Resume(i)
        <5>1. phase[i] # "queued"
          BY <4>2 DEF Resume
        <5>2. \A l \in 1..(i - 1) : phase[l] # "queued" /\ phase'[l] = phase[l]
          BY <3>1, <3>2, <5>1 DEF LeakInv, LeakOf
        <5>3. QED
          BY <4>2, <5>2
      <4>3. CASE j # i
        <5>1. \A l \in 1..(j - 1) : l \in Tests
          BY BinaryAssumption DEF Tests
        <5>2. \A l \in 1..(j - 1) : phase[l] # "queued" => phase'[l] # "queued"
          BY <3>1, <5>1
        <5>3. QED
          BY <3>1, <4>3, <5>2 DEF LeakInv, LeakOf
      <4>4. QED
        BY <2>1, <4>1, <4>2, <4>3
    <3>5. ASSUME NEW j \in Tests
          PROVE  phase'[j] \in {"queued", "paused"} => cleanups'[j] = <<>>
      BY <3>1 DEF LeakInv, LeakOf
    <3>6. QED
      BY <1>t, <3>1, <3>3, <3>4, <3>5, KeepsLeak DEF LeakInv
  <2>2. CASE BodyStep(i)
    BY <2>2, BodyLeak
  <2>3. CASE RunDefer(i) \/ EndRows(i)
    <3>1. /\ UNCHANGED <<plan, cleanups, before, reported, leaking, row, live, grown>> /\ phase[i] \in {"defers", "rows"}
          /\ \/ phase' = phase
             \/ phase' = [phase EXCEPT ![i] = "cleanups"]
             \/ phase' = [phase EXCEPT ![i] = "rows"]
      BY <2>3 DEF RunDefer, EndRows
    <3>2. phase'[i] \in {"defers", "rows", "cleanups"} /\ \A j \in Tests \ {i} : phase'[j] = phase[j]
      BY <1>t, <3>1
    <3>3. LeakOf(i)'
      BY <3>1, <3>2, OwnLeak DEF Busy, NoLeaksDue
    <3>4. \A j \in Tests \ {i} : LeakOf(j)'
      BY <3>1, <3>2, OthersLeak DEF Busy
    <3>5. QED
      BY <3>3, <3>4 DEF LeakInv
  <2>4. CASE RunCleanup(i)
    BY <2>4, CleanupLeak
  <2>5. QED
    BY <1>2, <2>1, <2>2, <2>3, <2>4 DEF TestStep
<1>3. ASSUME NEW i \in Tests, LateGo(i) \/ LateEnd(i)
      PROVE  LeakInv'
  <2>1. /\ UNCHANGED <<plan, phase, cleanups, before, reported, leaking, row>>
        /\ \/ live' = [live EXCEPT ![i] = @ + 1] /\ grown' = [grown EXCEPT ![i] = TRUE]
           \/ live[i] > 0 /\ live' = [live EXCEPT ![i] = @ - 1] /\ grown' = grown
    BY <1>3 DEF LateGo, LateEnd
  <2>2. \A j \in Tests : /\ grown[j] => grown'[j]
                         /\ ~grown'[j] => ~grown[j] /\ live'[j] \in 0..live[j]
    <3>1. grown \in [Tests -> BOOLEAN]
      BY <1>t DEF TypeOK
    <3>2. CASE live' = [live EXCEPT ![i] = @ + 1] /\ grown' = [grown EXCEPT ![i] = TRUE]
      <4>1. \A j \in Tests \ {i} : live'[j] = live[j] /\ grown'[j] = grown[j]
        BY <1>t, <3>1, <3>2
      <4>2. grown'[i]
        BY <3>1, <3>2
      <4>3. QED
        BY <1>z, <4>1, <4>2
    <3>3. CASE live[i] > 0 /\ live' = [live EXCEPT ![i] = @ - 1] /\ grown' = grown
      <4>1. \A j \in Tests : live'[j] \in 0..live[j]
        BY <1>t, <3>3
      <4>2. QED
        BY <3>3, <4>1
    <3>4. QED
      BY <2>1, <3>2, <3>3
  <2>3. ASSUME NEW j \in Tests
        PROVE  LeakOf(j)'
    <3>1. phase'[j] # "queued" => \A l \in 1..(j - 1) : phase'[l] # "queued"
      BY <2>1 DEF LeakInv, LeakOf
    <3>2. phase'[j] \in {"queued", "paused"} => cleanups'[j] = <<>>
      BY <2>1 DEF LeakInv, LeakOf
    <3>3. QED
      BY <1>t, <2>1, <2>2, <3>1, <3>2, KeepsLeak DEF Busy, NoLeaksDue
  <2>4. QED
    BY <2>3 DEF LeakInv
<1>4. ASSUME NEW i \in Tests, NEW k \in 1..Rows, RowStep(i, k)
      PROVE  LeakInv'
  <2>1. UNCHANGED <<plan, phase, cleanups, before, reported, leaking, live, grown>> /\ \E s : row' = [row EXCEPT ![i][k] = s]
    BY <1>4 DEF RowStep, ResumeRow, RowReads, RowWrites
  <2>2. Busy(i) /\ (RowBusy(i, k) \/ row[i][k] = "paused")
    BY <1>4 DEF RowStep, ResumeRow, RowReads, RowWrites, RowBusy, Busy, Shared, RowsInv, RowsOf, At
  <2>3. \A j \in Tests \ {i} : row'[j] = row[j]
    BY <1>t, <2>1 DEF TypeOK
  <2>4. LeakOf(i)'
    <3>1. phase'[i] \notin {"queued", "paused"}
      BY <2>1, <2>2 DEF Busy
    <3>2. QED
      BY <2>1, <2>2, <2>3, <3>1, OwnLeak DEF NoLeaksDue
  <2>5. \A j \in Tests \ {i} : LeakOf(j)'
    BY <2>1, <2>2, OthersLeak DEF Busy
  <2>6. QED
    BY <2>4, <2>5 DEF LeakInv
<1>5. CASE UNCHANGED vars
  BY <1>1, <1>5 DEF vars
<1>6. QED
  BY <1>2, <1>3, <1>4, <1>5 DEF Next, Terminated

(* When no_leaks fails a serial test, a goroutine of that very test is     *)
(* still running, or one of a test that left some behind which have gone   *)
(* on to start others: neither a paused test, nor the rows of one, nor     *)
(* what an earlier test has merely left behind is mistaken for a leak.     *)
THEOREM LeaksAreTrue == Spec => []LeakReportsTrue
<1>1. LeakInv => LeakReportsTrue
  BY DEF LeakInv, LeakOf, LeakReportsTrue, Parallel, ShouldParallelizeTest
<1>2. QED
  BY <1>1, InitTypes, StepTypes, InitSerial, StepSerial, InitRows, StepRows, InitLeak, StepLeak, PTL DEF Spec, Shared

=============================================================================
