------------------------------ MODULE Polling ------------------------------
(***************************************************************************)
(* The loop an `eventually` or a `consistently` block becomes              *)
(* (emitPolling), run against conditions that other goroutines change at   *)
(* any time.  Time is in ticks: Gap of them are the 10 milliseconds of the *)
(* loop's Sleep, and the goroutine is kept waiting for at most Lag of them *)
(* before each of its steps.  The expectations of a block are evaluated    *)
(* one after the other, so that they may answer for different moments.     *)
(***************************************************************************)
EXTENDS Integers, FiniteSetsExt

CONSTANTS
  Windows,       \* the durations of `within` and `for`
  MaxExpects,    \* how many expectations a block may have
  Gap, Lag       \* the pause between two rounds, the longest wait for a step

ASSUME PollingAssumption ==
  /\ Windows \subseteq Nat /\ \E w \in Windows : \A v \in Windows : v <= w
  /\ MaxExpects \in Nat \ {0} /\ Gap \in Nat \ {0} /\ Lag \in Nat \ {0}

VARIABLES
  mode,      \* "eventually" or "consistently", "none" before
  expects,   \* how many expectations the block has
  holds,     \* holds[e]: what expectation e would evaluate to now
  steady,    \* steady[e]: how long it has been so since the block began
  left,      \* time to the deadline, negative once it has passed
  at,        \* where the loop is
  asked,     \* the expectation evaluated next
  succeeded, \* the round's flag
  satisfied, \* the block's flag
  nap,       \* what is left of the Sleep
  waiting    \* how long the goroutine has waited for its next step

pollVars == <<mode, expects, holds, steady, left, at, asked, succeeded, satisfied, nap, waiting>>

Polls == 1..expects
Polled == at \notin {"idle", "passed", "failed"}

(* The longest a round can take, from the loop's head to its verdict, and  *)
(* how long an answer can go without being looked at: what is left of one  *)
(* round, the pause, and the next round up to its verdict.                 *)
RoundTime == (expects + 1) * Lag
Blind == RoundTime + Gap + 2 * Lag + RoundTime

(* Clocks stop where the properties no longer tell the values apart.       *)
Longest == Gap + (2 * MaxExpects + 5) * Lag + Max(Windows)

PollInit ==
  /\ mode = "none" /\ expects = 0 /\ holds = <<>> /\ steady = <<>>
  /\ left = 0 /\ at = "idle" /\ asked = 0 /\ nap = 0 /\ waiting = 0
  /\ succeeded = FALSE /\ satisfied = FALSE

-----------------------------------------------------------------------------
(* satisfied := false; deadline := time.Now().Add(timeout).                *)
Begin ==
  /\ at = "idle"
  /\ mode' \in {"eventually", "consistently"}
  /\ expects' \in 1..MaxExpects
  /\ holds' \in [1..expects' -> BOOLEAN]
  /\ steady' = [e \in 1..expects' |-> 0]
  /\ left' \in Windows
  /\ at' = "head"
  /\ UNCHANGED <<asked, succeeded, satisfied, nap, waiting>>

(* Mutant: the flag is set to true before the loop and not in it.          *)
LoopHeadKeepsFlag ==
  /\ at = "head"
  /\ IF mode = "eventually" /\ left <= 0
       THEN at' = "failed" /\ UNCHANGED <<asked, succeeded>>
       ELSE at' = "body" /\ asked' = 1 /\ succeeded' = (asked = 0 \/ succeeded)
  /\ waiting' = 0
  /\ UNCHANGED <<mode, expects, holds, steady, left, satisfied, nap>>

(* for time.Now().Before(deadline) { succeeded := true; or for { ...       *)
LoopHead ==
  /\ at = "head"
  /\ IF mode = "eventually" /\ left <= 0
       THEN at' = "failed" /\ UNCHANGED <<asked, succeeded>>
       ELSE at' = "body" /\ asked' = 1 /\ succeeded' = TRUE
  /\ waiting' = 0
  /\ UNCHANGED <<mode, expects, holds, steady, left, satisfied, nap>>

(* Mutant: the last expectation decides.                                   *)
EvaluateOver ==
  /\ at = "body"
  /\ succeeded' = holds[asked]
  /\ IF asked < expects THEN asked' = asked + 1 /\ UNCHANGED at
                        ELSE at' = "decide" /\ UNCHANGED asked
  /\ waiting' = 0
  /\ UNCHANGED <<mode, expects, holds, steady, left, satisfied, nap>>

(* if !(condition) { succeeded = false }, for each expectation in turn.    *)
Evaluate ==
  /\ at = "body"
  /\ succeeded' = (succeeded /\ holds[asked])
  /\ IF asked < expects THEN asked' = asked + 1 /\ UNCHANGED at
                        ELSE at' = "decide" /\ UNCHANGED asked
  /\ waiting' = 0
  /\ UNCHANGED <<mode, expects, holds, steady, left, satisfied, nap>>

Sleep == at' = "nap" /\ nap' = Gap

(* The end of a round: eventually leaves the loop with satisfied set once  *)
(* a round has succeeded, consistently without it once one has not.        *)
Decide ==
  /\ at = "decide"
  /\ \/ /\ mode = "eventually" /\ succeeded
        /\ satisfied' = TRUE /\ at' = "passed"
        /\ UNCHANGED nap
     \/ /\ mode = "eventually" /\ ~succeeded
        /\ Sleep /\ UNCHANGED satisfied
     \/ /\ mode = "consistently" /\ ~succeeded
        /\ at' = "failed"
        /\ UNCHANGED <<satisfied, nap>>
     \/ /\ mode = "consistently" /\ succeeded
        /\ at' = "clock"
        /\ UNCHANGED <<satisfied, nap>>
  /\ waiting' = 0
  /\ UNCHANGED <<mode, expects, holds, steady, left, asked, succeeded>>

(* Mutant: the clock of consistently is looked at the wrong way round.     *)
LookAtClockBefore ==
  /\ at = "clock"
  /\ IF left > 0
       THEN satisfied' = TRUE /\ at' = "passed" /\ UNCHANGED nap
       ELSE Sleep /\ UNCHANGED satisfied
  /\ waiting' = 0
  /\ UNCHANGED <<mode, expects, holds, steady, left, asked, succeeded>>

(* if time.Now().After(deadline) { satisfied = true; break }, else Sleep.  *)
LookAtClock ==
  /\ at = "clock"
  /\ IF left < 0
       THEN satisfied' = TRUE /\ at' = "passed" /\ UNCHANGED nap
       ELSE Sleep /\ UNCHANGED satisfied
  /\ waiting' = 0
  /\ UNCHANGED <<mode, expects, holds, steady, left, asked, succeeded>>

Wake ==
  /\ at = "nap" /\ nap = 0
  /\ at' = "head"
  /\ waiting' = 0
  /\ UNCHANGED <<mode, expects, holds, steady, left, asked, succeeded, satisfied, nap>>

PollStep == LoopHead \/ Evaluate \/ Decide \/ LookAtClock \/ Wake

-----------------------------------------------------------------------------
(* The clock goes on while the block runs.  A goroutine that sleeps is not *)
(* kept waiting.                                                           *)
Pass ==
  /\ Polled
  /\ nap > 0 \/ waiting < Lag
  /\ left' = Max({left - 1, -Longest})
  /\ steady' = [e \in Polls |-> Min({steady[e] + 1, Longest})]
  /\ nap' = Max({nap - 1, 0})
  /\ waiting' = IF nap > 0 THEN 0 ELSE waiting + 1
  /\ UNCHANGED <<mode, expects, holds, at, asked, succeeded, satisfied>>

(* The code under test changes what an expectation looks at.               *)
Toggle ==
  /\ Polled
  /\ \E e \in Polls :
       /\ holds' = [holds EXCEPT ![e] = ~@]
       /\ steady' = [steady EXCEPT ![e] = 0]
  /\ UNCHANGED <<mode, expects, left, at, asked, succeeded, satisfied, nap, waiting>>

PollNext == Begin \/ PollStep \/ Pass \/ Toggle

(* Time passes, and the goroutine runs: the scheduler does not starve it.  *)
PollFairness == WF_pollVars(PollStep) /\ WF_pollVars(Pass)

PollSpec == PollInit /\ [][PollNext]_pollVars /\ PollFairness

-----------------------------------------------------------------------------
(* How much of the time an expectation has been as it is now lies before   *)
(* the deadline.                                                           *)
Within(e) == steady[e] + Min({left, 0})

(* emitPolling, eventually: a block whose expectations come to hold and    *)
(* stay so is satisfied before long, and it fails only if they have not    *)
(* held together for the round and the pause that precede the deadline.    *)
EventuallySees ==
  mode = "eventually" /\ at # "passed" /\ (\A e \in Polls : holds[e]) =>
    \E e \in Polls : Within(e) <= IF at = "failed" THEN RoundTime + Gap + Lag ELSE Blind

(* emitPolling, eventually: a block that passes does so on fresh answers.  *)
(* None of its expectations has been false for longer than a round takes,  *)
(* and the round began before the deadline.                                *)
PassesAreFresh ==
  mode = "eventually" /\ at = "passed" =>
    /\ satisfied
    /\ \A e \in Polls : holds[e] \/ steady[e] <= expects * Lag
    /\ left > -RoundTime

(* emitPolling, consistently: no expectation is false for a round and a    *)
(* pause without failing the block, and a block that passes has looked     *)
(* until the deadline had passed.                                          *)
ConsistentlyNotices ==
  mode = "consistently" /\ at # "failed" =>
    /\ \A e \in Polls : holds[e] \/ Within(e) <= Blind
    /\ at = "passed" => satisfied /\ left < 0
=============================================================================
