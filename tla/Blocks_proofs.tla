--------------------------- MODULE Blocks_proofs ---------------------------
(***************************************************************************)
(* Theorems about what a block adds around the statements of a test: an    *)
(* await takes what was sent, in order, whatever the timers do; a poll     *)
(* sees what it should; and hooks reach the leaves below them.             *)
(***************************************************************************)
EXTENDS Hooks, Polling, Await, SequenceTheorems, TLAPS

Taken == bound \o Queue

(* As long as the channel is open no zero value has been handed out, so    *)
(* that a value sent later still follows only values.                      *)
AwaitInv ==
  /\ buffer \in Seq(Nat) /\ offered \in Seq(Nat) /\ bound \in Seq(Nat)
  /\ sent \in Nat /\ closed \in BOOLEAN
  /\ ~closed => Len(Taken) = sent
  /\ AwaitsTakeInOrder

(* Where the elements of two sequences put together come from.             *)
LEMMA Joined ==
  ASSUME NEW s \in Seq(Nat), NEW t \in Seq(Nat)
  PROVE  /\ s \o t \in Seq(Nat) /\ Len(s \o t) = Len(s) + Len(t)
         /\ \A i \in 1..Len(s \o t) :
              (s \o t)[i] = IF i <= Len(s) THEN s[i] ELSE t[i - Len(s)]
  BY ConcatProperties

(* A value at the end of the second sequence is at the end of both.        *)
LEMMA AppendJoined ==
  ASSUME NEW s \in Seq(Nat), NEW t \in Seq(Nat), NEW v \in Nat
  PROVE  s \o Append(t, v) = Append(s \o t, v)
  OBVIOUS

(* The head of the second sequence may go to the end of the first.         *)
LEMMA HeadMoves ==
  ASSUME NEW s \in Seq(Nat), NEW t \in Seq(Nat), t # <<>>
  PROVE  Append(s, Head(t)) \o Tail(t) = s \o t
  BY SMTT(30)

LEMMA AppendProps ==
  ASSUME NEW s \in Seq(Nat), NEW v \in Nat
  PROVE  /\ Append(s, v) \in Seq(Nat) /\ Len(Append(s, v)) = Len(s) + 1
         /\ \A i \in 1..(Len(s) + 1) : Append(s, v)[i] = IF i <= Len(s) THEN s[i] ELSE v
  OBVIOUS

(* A value put into the channel, in the buffer or as a blocked sender's.   *)
LEMMA SendKeeps ==
  ASSUME AwaitInv, Send
  PROVE  AwaitInv'
<1>1. Taken' = Append(Taken, sent + 1)
  <2>1. Queue \in Seq(Nat) BY Joined DEF AwaitInv, Queue
  <2>2. Queue' = Append(Queue, sent + 1)
    <3>1. CASE Len(buffer) < capacity
      <4>1. offered = <<>> /\ offered' = <<>> /\ buffer' = Append(buffer, sent + 1) BY <3>1 DEF Send
      <4> QED BY <4>1 DEF Queue, AwaitInv
    <3>2. CASE ~(Len(buffer) < capacity)
      <4>1. offered = <<>> /\ offered' = <<sent + 1>> /\ buffer' = buffer BY <3>2 DEF Send
      <4> QED BY <4>1, SMTT(30) DEF Queue, AwaitInv
    <3> QED BY <3>1, <3>2
  <2>3. bound' = bound BY DEF Send
  <2> QED BY <2>1, <2>2, <2>3, AppendJoined DEF Taken, AwaitInv
<1>2. /\ buffer' \in Seq(Nat) /\ offered' \in Seq(Nat) /\ bound' \in Seq(Nat)
      /\ sent' \in Nat /\ closed' \in BOOLEAN
  <2>1. sent + 1 \in Nat BY DEF AwaitInv
  <2>2. Append(buffer, sent + 1) \in Seq(Nat) /\ <<sent + 1>> \in Seq(Nat)
    BY <2>1, AppendProps DEF AwaitInv
  <2> QED BY <2>1, <2>2 DEF AwaitInv, Send
<1>3. Taken \in Seq(Nat) /\ Len(Taken) = sent
  BY Joined DEF AwaitInv, Send, Taken, Queue
<1>4. sent' = sent + 1 BY DEF Send
<1>5. Len(Taken') = sent' /\ \A i \in 1..Len(Taken') : Taken'[i] = i
  <2>1. \A i \in 1..Len(Taken) : Taken[i] = i
    BY <1>3 DEF AwaitInv, AwaitsTakeInOrder, Taken
  <2> QED BY <1>1, <1>3, <1>4, <2>1, AppendProps DEF AwaitInv
<1> QED BY <1>2, <1>4, <1>5 DEF AwaitInv, AwaitsTakeInOrder, Taken

(* A receive leaves the values where they are in the order of the takes,   *)
(* or, from a closed channel that is empty, adds a zero to them.           *)
LEMMA TakeKeeps ==
  ASSUME AwaitInv, NEW w \in Awaits, TakeValue(w), Sends \in Nat
  PROVE  AwaitInv'
<1>1. PICK value \in Zero..Sends : Receive(value) /\ bound' = Append(bound, value)
  BY DEF TakeValue
<1>2. sent' = sent /\ closed' = closed BY DEF TakeValue
<1>3. value \in Nat BY DEF Zero
<1>4. Queue \in Seq(Nat) /\ Taken \in Seq(Nat) BY Joined DEF AwaitInv, Queue, Taken
<1>5. CASE Queue # <<>> /\ value = Head(Queue) /\ buffer' = Tail(Queue) /\ offered' = <<>>
  <2>1. Queue' = Tail(Queue) BY <1>4, <1>5 DEF Queue
  <2>2. Taken' = Taken BY <1>1, <1>4, <1>5, <2>1, HeadMoves DEF Taken, AwaitInv
  <2>3. buffer' \in Seq(Nat) /\ offered' \in Seq(Nat) /\ bound' \in Seq(Nat)
    BY <1>1, <1>3, <1>4, <1>5 DEF AwaitInv
  <2> QED BY <1>2, <2>2, <2>3 DEF AwaitInv, AwaitsTakeInOrder, Taken
<1>6. CASE Queue = <<>> /\ closed /\ value = Zero /\ UNCHANGED <<buffer, offered>>
  <2>1. Queue' = <<>> /\ Taken = bound BY <1>4, <1>6 DEF Queue, Taken, AwaitInv
  <2>2. Taken' = Append(Taken, Zero) BY <1>1, <1>3, <1>6, <2>1 DEF Taken, AwaitInv
  <2>3. buffer' \in Seq(Nat) /\ offered' \in Seq(Nat) /\ bound' \in Seq(Nat)
    BY <1>1, <1>3, <1>6 DEF AwaitInv
  <2>4. /\ Len(Taken) \in Nat /\ Len(Taken) >= sent
        /\ \A i \in 1..Len(Taken) : Taken[i] = IF i <= sent THEN i ELSE Zero
    BY <1>4, SMTT(30) DEF AwaitInv, AwaitsTakeInOrder, Taken
  <2>5. /\ Len(Taken') >= sent
        /\ \A i \in 1..Len(Taken') : Taken'[i] = IF i <= sent THEN i ELSE Zero
    BY <1>4, <2>2, <2>4, AppendProps DEF AwaitInv, Zero
  <2> QED BY <1>2, <1>6, <2>3, <2>5, SMTT(30) DEF AwaitInv, AwaitsTakeInOrder, Taken
<1> QED BY <1>1, <1>5, <1>6 DEF Receive

(* For any buffers, timeouts and number of awaits.                         *)
THEOREM AwaitsInOrder == AwaitSpec => []AwaitsTakeInOrder
<1>1. AwaitInit => AwaitInv
  <2> SUFFICES ASSUME AwaitInit PROVE AwaitInv
    OBVIOUS
  <2>1. buffer = <<>> /\ offered = <<>> /\ bound = <<>> /\ sent = 0 /\ closed = FALSE
    BY DEF AwaitInit
  <2>2. Taken = <<>> /\ Len(Taken) = 0 BY <2>1 DEF Taken, Queue
  <2>3. AwaitsTakeInOrder BY <2>1, <2>2 DEF AwaitsTakeInOrder, Taken
  <2>4. <<>> \in Seq(Nat) OBVIOUS
  <2> QED BY <2>1, <2>2, <2>3, <2>4 DEF AwaitInv
<1>2. AwaitInv /\ [AwaitNext]_awaitVars => AwaitInv'
  <2> SUFFICES ASSUME AwaitInv, [AwaitNext]_awaitVars PROVE AwaitInv'
    OBVIOUS
  <2>1. ASSUME UNCHANGED <<buffer, offered, bound, sent>>, closed' \in BOOLEAN,
               closed' = closed \/ (~closed /\ closed')
        PROVE  AwaitInv'
    BY <2>1 DEF AwaitInv, AwaitsTakeInOrder, Taken, Queue
  <2>2. CASE Send BY <2>2, SendKeeps
  <2>3. ASSUME NEW w \in Awaits, TakeValue(w) PROVE AwaitInv'
    BY <2>3, TakeKeeps, AwaitAssumption
  <2>4. CASE Close BY <2>1, <2>4 DEF Close
  <2>5. CASE Make \/ Wait BY <2>1, <2>5 DEF Make, Wait, AwaitInv
  <2>6. ASSUME NEW w \in Awaits, EnterSelect(w) \/ TimeOut(w) PROVE AwaitInv'
    BY <2>1, <2>6 DEF EnterSelect, TimeOut, AwaitInv
  <2>7. CASE UNCHANGED awaitVars BY <2>1, <2>7 DEF awaitVars, AwaitInv
  <2> QED BY <2>2, <2>3, <2>4, <2>5, <2>6, <2>7 DEF AwaitNext
<1>3. AwaitInv => AwaitsTakeInOrder BY DEF AwaitInv
<1> QED BY <1>1, <1>2, <1>3, PTL DEF AwaitSpec

-----------------------------------------------------------------------------
(* Polling.  An answer is fresh when the expectation holds or has stopped  *)
(* doing so at most that long ago.                                         *)
Fresh(e, age) == holds[e] \/ steady[e] <= age

(* The time from the evaluation of e to the end of its round, and to the   *)
(* head of the next one.                                                   *)
Rest(e) == (expects - e) * Lag
Old(e) == Rest(e) + 3 * Lag + Gap

PollTypes ==
  /\ mode \in {"none", "eventually", "consistently"}
  /\ at \in {"idle", "head", "body", "decide", "clock", "nap", "passed", "failed"}
  /\ mode = "none" <=> at = "idle"
  /\ at # "idle" => expects \in 1..MaxExpects
  /\ at # "idle" => holds \in [Polls -> BOOLEAN] /\ steady \in [Polls -> Nat]
  /\ left \in Int /\ nap \in 0..Gap /\ waiting \in 0..Lag
  /\ succeeded \in BOOLEAN /\ satisfied \in BOOLEAN
  /\ at = "body" => asked \in 1..expects
  /\ at # "nap" => nap = 0
  /\ nap > 0 => waiting = 0

(* How old an answer of this round is, if they were all good so far.       *)
RoundIsFresh ==
  /\ at = "body" /\ succeeded =>
       \A e \in Polls : e < asked => Fresh(e, (asked - 1 - e) * Lag + waiting)
  /\ at = "decide" /\ succeeded => \A e \in Polls : Fresh(e, Rest(e) + waiting)

(* A round of an eventually has begun before the deadline.                 *)
RoundIsInTime ==
  mode = "eventually" =>
    /\ at = "body" => left > -((asked - 1) * Lag + waiting)
    /\ at = "decide" => left > -(expects * Lag + waiting)

(* A consistently has had good answers in every round before this one.     *)
LastRoundWasGood ==
  mode = "consistently" =>
    \A e \in Polls :
      /\ at = "head" => Fresh(e, Old(e) + waiting)
      /\ at = "body" => Fresh(e, Old(e) + asked * Lag + waiting)
      /\ at = "decide" => Fresh(e, Old(e) + (expects + 1) * Lag + waiting)
      /\ at = "clock" => Fresh(e, Rest(e) + Lag + waiting)
      /\ at = "nap" => Fresh(e, Rest(e) + 2 * Lag + (Gap - nap) + waiting)

Verdicts ==
  at = "passed" =>
    /\ satisfied
    /\ mode = "eventually" =>
         left > -RoundTime /\ \A e \in Polls : Fresh(e, expects * Lag)
    /\ mode = "consistently" => left < 0 /\ \A e \in Polls : Fresh(e, Blind)

ClockIsForConsistently == at = "clock" => mode = "consistently"

PollInv ==
  /\ PollTypes /\ RoundIsFresh /\ RoundIsInTime /\ LastRoundWasGood /\ Verdicts
  /\ ClockIsForConsistently

LEMMA MaxOfTwo ==
  ASSUME NEW a \in Int, NEW b \in Int
  PROVE  Max({a, b}) \in {a, b} /\ Max({a, b}) >= a /\ Max({a, b}) >= b
<1>1. \E x \in {a, b} : \A y \in {a, b} : x >= y
  OBVIOUS
<1> QED BY <1>1 DEF Max

LEMMA MinOfTwo ==
  ASSUME NEW a \in Int, NEW b \in Int
  PROVE  Min({a, b}) \in {a, b} /\ Min({a, b}) <= a /\ Min({a, b}) <= b
<1>1. \E x \in {a, b} : \A y \in {a, b} : x <= y
  OBVIOUS
<1> QED BY <1>1 DEF Min

LEMMA LongestNat == Longest \in Nat
<1>1. Max(Windows) \in Nat
  <2>1. \E x \in Windows : \A y \in Windows : x >= y BY PollingAssumption
  <2> QED BY <2>1, PollingAssumption DEF Max
<1>2. (2 * MaxExpects + 5) * Lag \in Nat
  <2>1. \A m, n \in Nat : m * n \in Nat OBVIOUS
  <2> QED BY <2>1, PollingAssumption
<1> QED BY <1>1, <1>2, PollingAssumption DEF Longest

(* What is added to both sides of a shifted sum.                           *)
LEMMA SameShift ==
  ASSUME NEW r \in Int, NEW lag \in Int, NEW gap \in Int,
         NEW n \in Int, NEW m \in Int, NEW w \in Int, NEW v \in Int,
         (gap - m) + v = (gap - n) + w + 1
  PROVE  r + lag + (gap - n) + w + 1 = r + lag + (gap - m) + v
OBVIOUS

(* Waits add up.                                                           *)
LEMMA Waits ==
  /\ Lag \in Nat /\ Gap \in Nat
  /\ \A k \in Nat : k * Lag \in Nat
  /\ \A k \in Int : k * Lag \in Int /\ (k + 1) * Lag = k * Lag + Lag
<1>1. \A m, n \in Nat : m * n \in Nat OBVIOUS
<1> QED BY <1>1, PollingAssumption

(* What is left of a round of n expectations.                              *)
LEMMA Remaining ==
  ASSUME NEW n \in Nat
  PROVE  /\ n * Lag \in Nat /\ (n + 1) * Lag = n * Lag + Lag
         /\ \A e \in 1..n : (n - e) * Lag \in Nat /\ (n - e) * Lag + Lag <= n * Lag
<1>1. n * Lag \in Nat BY Waits
<1>2. ASSUME NEW e \in 1..n
      PROVE  (n - e) * Lag \in Nat /\ (n - e) * Lag + Lag <= n * Lag
  <2>1. n - e \in Nat /\ e - 1 \in Nat OBVIOUS
  <2>2. (n - e) * Lag \in Nat /\ (e - 1) * Lag \in Nat BY <2>1, Waits
  <2>3. (n - e) * Lag + Lag + (e - 1) * Lag = n * Lag BY <2>1, Waits
  <2> QED BY <1>1, <2>2, <2>3, Waits
<1> QED BY <1>1, <1>2, Waits

(* The same for the block at hand.                                         *)
LEMMA OfTheBlock ==
  ASSUME PollTypes, at # "idle"
  PROVE  /\ expects \in Nat /\ expects * Lag \in Nat
         /\ \A e \in Polls : Rest(e) \in Nat /\ Old(e) \in Nat /\ Rest(e) + Lag <= expects * Lag
         /\ (expects + 1) * Lag = expects * Lag + Lag
         /\ RoundTime = expects * Lag + Lag
         /\ Blind = 2 * (expects * Lag) + 4 * Lag + Gap
<1>1. expects \in Nat BY PollingAssumption DEF PollTypes
<1>2. expects * Lag \in Nat /\ (expects + 1) * Lag = expects * Lag + Lag BY <1>1, Remaining
<1>3. RoundTime = expects * Lag + Lag BY <1>2 DEF RoundTime
<1>4. Blind = 2 * (expects * Lag) + 4 * Lag + Gap BY <1>2, <1>3, Waits DEF Blind
<1>5. \A e \in Polls : Rest(e) \in Nat /\ Rest(e) + Lag <= expects * Lag
  BY <1>1, Remaining DEF Polls, Rest
<1>6. \A e \in Polls : Old(e) \in Nat BY <1>5, Waits DEF Old
<1> QED BY <1>1, <1>2, <1>3, <1>4, <1>5, <1>6

LEMMA BeginKeeps ==
  ASSUME PollInv, Begin
  PROVE  PollInv'
<1>1. /\ at' = "head" /\ mode' \in {"eventually", "consistently"} /\ expects' \in 1..MaxExpects
      /\ left' \in Int /\ nap' = nap /\ waiting' = waiting
      /\ UNCHANGED <<succeeded, satisfied>>
  BY PollingAssumption DEF Begin
<1>2. holds' \in [Polls' -> BOOLEAN] /\ steady' = [e \in Polls' |-> 0]
  BY DEF Begin, Polls
<1>3. PollTypes' BY <1>1, <1>2 DEF PollTypes, PollInv, Begin
<1>4. \A e \in Polls' : Old(e)' + waiting' >= 0
  <2>1. expects' \in Nat BY <1>1, PollingAssumption
  <2>2. \A e \in 1..expects' : (expects' - e) * Lag \in Nat BY <2>1, Remaining
  <2> QED BY <1>3, <2>2, Waits DEF Polls, Old, Rest, PollTypes
<1>5. \A e \in Polls' : Fresh(e, Old(e) + waiting)'
  BY <1>2, <1>4 DEF Fresh
<1> QED BY <1>1, <1>3, <1>5 
  DEF PollInv, RoundIsFresh, RoundIsInTime, LastRoundWasGood, Verdicts, ClockIsForConsistently

(* The steps of the loop leave the expectations, and how long they have    *)
(* been as they are, alone.                                                *)
Frame == UNCHANGED <<mode, expects, holds, steady>>

LEMMA Framed ==
  ASSUME Frame
  PROVE  /\ Polls' = Polls /\ RoundTime' = RoundTime /\ Blind' = Blind
         /\ \A e, n : Fresh(e, n)' <=> (holds[e] \/ steady[e] <= n')
         /\ \A e : Rest(e)' = Rest(e) /\ Old(e)' = Old(e)
  BY DEF Frame, Polls, RoundTime, Blind, Fresh, Rest, Old

LEMMA HeadKeeps ==
  ASSUME PollInv, LoopHead
  PROVE  PollInv'
<1>1. /\ Frame /\ at = "head" /\ at' \in {"body", "failed"} /\ waiting' = 0
      /\ nap' = nap /\ left' = left /\ satisfied' = satisfied
      /\ at' = "body" => asked' = 1 /\ succeeded' = TRUE
      /\ mode = "eventually" /\ at' = "body" => left > 0
      /\ succeeded' \in BOOLEAN
  <2>1. succeeded' = TRUE \/ succeeded' = succeeded BY DEF LoopHead
  <2>2. succeeded' \in BOOLEAN BY <2>1, Zenon DEF PollInv, PollTypes
  <2>3. left \in Int BY DEF PollInv, PollTypes
  <2> QED BY <2>2, <2>3 DEF LoopHead, Frame
<1>2. Polls' = Polls BY <1>1, Framed
<1>3. expects \in Nat \ {0} BY <1>1, PollingAssumption DEF PollInv, PollTypes
<1>4. PollTypes' BY <1>1, <1>2, <1>3, Waits DEF PollInv, PollTypes, Frame
<1>5. RoundIsFresh' BY <1>1, <1>2 DEF RoundIsFresh, Polls
<1>6. RoundIsInTime' BY <1>1, <1>4, Waits DEF RoundIsInTime, Frame, PollInv, PollTypes
<1>7. LastRoundWasGood'
  <2> SUFFICES ASSUME mode = "consistently", NEW e \in Polls, at' = "body"
               PROVE  holds[e] \/ steady[e] <= Old(e) + asked' * Lag + waiting'
    BY <1>1, Framed DEF LastRoundWasGood, Frame, Fresh, Old, Rest
  <2>1. asked' * Lag = Lag /\ waiting \in 0..Lag /\ Old(e) \in Nat
    BY <1>1, Waits, OfTheBlock DEF PollInv, PollTypes
  <2>2. holds[e] \/ steady[e] <= Old(e) + waiting
    BY <1>1 DEF PollInv, LastRoundWasGood, Fresh
  <2>3. steady[e] \in Nat BY <1>1 DEF PollInv, PollTypes
  <2>4. steady[e] <= Old(e) + waiting => steady[e] <= Old(e) + asked' * Lag + waiting'
    BY <1>1, <2>1, <2>3, Waits
  <2> QED BY <2>2, <2>4, Zenon
<1>8. Verdicts' BY <1>1 DEF Verdicts
<1>9. ClockIsForConsistently' BY <1>1 DEF ClockIsForConsistently
<1> QED BY <1>4, <1>5, <1>6, <1>7, <1>8, <1>9 DEF PollInv

LEMMA EvaluateKeeps ==
  ASSUME PollInv, Evaluate
  PROVE  PollInv'
<1>1. /\ Frame /\ at = "body" /\ waiting' = 0 /\ nap' = nap /\ left' = left
      /\ satisfied' = satisfied
      /\ \/ asked < expects /\ asked' = asked + 1 /\ at' = "body"
         \/ ~(asked < expects) /\ at' = "decide" /\ asked' = asked
      /\ succeeded' \in BOOLEAN /\ (succeeded' => succeeded /\ holds[asked])
  BY DEF Evaluate, Frame
<1>2. Polls' = Polls BY <1>1, Framed
<1>3. /\ expects \in Nat /\ asked \in 1..expects /\ waiting \in 0..Lag /\ left \in Int
      /\ steady \in [Polls -> Nat]
  BY <1>1, PollingAssumption DEF PollInv, PollTypes
<1>4. PollTypes' BY <1>1, <1>2, <1>3, Waits DEF PollInv, PollTypes, Frame
<1>5. RoundIsFresh'
  <2>1. ASSUME succeeded', NEW e \in Polls, e <= asked
        PROVE  holds[e] \/ steady[e] <= (asked - e) * Lag
    <3>1. CASE e = asked BY <1>1, <2>1, <3>1
    <3>2. CASE e < asked
      <4>1. succeeded BY <1>1, <2>1
      <4>2. holds[e] \/ steady[e] <= (asked - 1 - e) * Lag + waiting
        BY <1>1, <3>2, <4>1 DEF PollInv, RoundIsFresh, Fresh
      <4>3. (asked - e) * Lag = (asked - 1 - e) * Lag + Lag BY <1>3, Waits DEF Polls
      <4>4. steady[e] \in Nat /\ (asked - 1 - e) * Lag \in Int BY <1>3, Waits DEF Polls
      <4>5. steady[e] <= (asked - 1 - e) * Lag + waiting => steady[e] <= (asked - e) * Lag
        BY <1>3, <4>3, <4>4, Waits
      <4> QED BY <4>2, <4>5, Zenon
    <3> QED BY <1>3, <2>1, <3>1, <3>2 DEF Polls
  <2>2. CASE at' = "body"
    <3>1. asked' = asked + 1 BY <1>1, <2>2
    <3> SUFFICES ASSUME succeeded', NEW e \in Polls, e < asked'
                 PROVE  holds[e] \/ steady[e] <= (asked' - 1 - e) * Lag + waiting'
      BY <1>1, <1>2, <2>2 DEF RoundIsFresh, Fresh, Frame
    <3>2. e <= asked /\ e \in Nat BY <1>3, <3>1 DEF Polls
    <3>3. holds[e] \/ steady[e] <= (asked - e) * Lag BY <2>1, <3>2
    <3>4. asked' - 1 - e = asked - e /\ (asked - e) * Lag + waiting' = (asked - e) * Lag
      BY <1>1, <1>3, <3>1, <3>2, Waits
    <3> QED BY <3>3, <3>4
  <2>3. CASE at' = "decide"
    <3>1. asked = expects BY <1>1, <1>3, <2>3
    <3> SUFFICES ASSUME succeeded', NEW e \in Polls
                 PROVE  holds[e] \/ steady[e] <= (expects - e) * Lag + waiting'
      BY <1>1, <1>2, <2>3 DEF RoundIsFresh, Fresh, Frame, Rest
    <3>2. e <= asked /\ e \in Nat BY <1>3, <3>1 DEF Polls
    <3>3. holds[e] \/ steady[e] <= (asked - e) * Lag BY <2>1, <3>2
    <3>4. (asked - e) * Lag = (expects - e) * Lag + waiting'
      BY <1>1, <1>3, <3>1, <3>2, Waits
    <3> QED BY <3>3, <3>4
  <2> QED BY <1>1, <2>2, <2>3
<1>6. RoundIsInTime'
  <2> SUFFICES ASSUME mode = "eventually"
               PROVE  /\ at' = "body" => left > -((asked' - 1) * Lag + waiting')
                      /\ at' = "decide" => left > -(expects * Lag + waiting')
    BY <1>1 DEF RoundIsInTime, Frame
  <2>1. left > -((asked - 1) * Lag + waiting) BY <1>1 DEF PollInv, RoundIsInTime
  <2>2. asked * Lag = (asked - 1) * Lag + Lag /\ (asked - 1) * Lag \in Nat BY <1>3, Waits
  <2>3. left > -(asked * Lag) BY <1>3, <2>1, <2>2, Waits
  <2>4. at' = "body" => asked' - 1 = asked BY <1>1, <1>3
  <2>5. at' = "decide" => asked = expects BY <1>1, <1>3
  <2> QED BY <1>1, <1>3, <2>2, <2>3, <2>4, <2>5, Waits
<1>7. LastRoundWasGood'
  <2> SUFFICES ASSUME mode = "consistently", NEW e \in Polls
               PROVE  /\ at' = "body" => holds[e] \/ steady[e] <= Old(e) + asked' * Lag + waiting'
                      /\ at' = "decide" => holds[e] \/ steady[e] <= Old(e) + (expects + 1) * Lag + waiting'
    BY <1>1, Framed DEF LastRoundWasGood, Frame, Fresh, Old, Rest
  <2>1. holds[e] \/ steady[e] <= Old(e) + asked * Lag + waiting
    BY <1>1 DEF PollInv, LastRoundWasGood, Fresh
  <2>2. /\ (asked + 1) * Lag = asked * Lag + Lag /\ asked * Lag \in Nat
        /\ Old(e) \in Nat /\ steady[e] \in Nat
    BY <1>1, <1>3, Waits, OfTheBlock DEF PollInv
  <2>3. holds[e] \/ steady[e] <= Old(e) + (asked + 1) * Lag
    <3>1. steady[e] <= Old(e) + asked * Lag + waiting => steady[e] <= Old(e) + (asked + 1) * Lag
      BY <1>3, <2>2, Waits
    <3> QED BY <2>1, <3>1, Zenon
  <2>4. at' = "decide" => asked = expects BY <1>1, <1>3
  <2>5. at' = "body" => asked' = asked + 1 BY <1>1
  <2>6. Old(e) + (asked + 1) * Lag + waiting' = Old(e) + (asked + 1) * Lag
    BY <1>1, <1>3, <2>2, Waits
  <2> QED BY <2>3, <2>4, <2>5, <2>6
<1>8. Verdicts' BY <1>1 DEF Verdicts
<1>9. ClockIsForConsistently' BY <1>1 DEF ClockIsForConsistently
<1> QED BY <1>4, <1>5, <1>6, <1>7, <1>8, <1>9 DEF PollInv

LEMMA DecideKeeps ==
  ASSUME PollInv, Decide
  PROVE  PollInv'
<1>1. /\ Frame /\ at = "decide" /\ waiting' = 0 /\ left' = left /\ asked' = asked
      /\ succeeded' = succeeded
      /\ \/ mode = "eventually" /\ succeeded /\ satisfied' = TRUE /\ at' = "passed" /\ nap' = nap
         \/ mode = "eventually" /\ at' = "nap" /\ nap' = Gap /\ satisfied' = satisfied
         \/ mode = "consistently" /\ at' = "failed" /\ nap' = nap /\ satisfied' = satisfied
         \/ mode = "consistently" /\ succeeded /\ at' = "clock" /\ nap' = nap /\ satisfied' = satisfied
  BY DEF Decide, Frame, Sleep
<1>2. Polls' = Polls BY <1>1, Framed
<1>3. expects \in Nat /\ waiting \in 0..Lag /\ left \in Int /\ steady \in [Polls -> Nat]
  BY <1>1, PollingAssumption DEF PollInv, PollTypes
<1>4. PollTypes'
  <2>1. satisfied' \in BOOLEAN BY <1>1 DEF PollInv, PollTypes
  <2> QED BY <1>1, <1>2, <1>3, <2>1, Waits DEF PollInv, PollTypes, Frame
<1>5. ASSUME succeeded, NEW e \in Polls
      PROVE  holds[e] \/ steady[e] <= Rest(e) + Lag
  <2>1. holds[e] \/ steady[e] <= Rest(e) + waiting BY <1>1, <1>5 DEF PollInv, RoundIsFresh, Fresh
  <2>2. Rest(e) \in Nat /\ steady[e] \in Nat BY <1>1, <1>3, OfTheBlock DEF PollInv
  <2>3. steady[e] <= Rest(e) + waiting => steady[e] <= Rest(e) + Lag BY <1>3, <2>2, Waits
  <2> QED BY <2>1, <2>3, Zenon
<1>6. RoundIsFresh' /\ RoundIsInTime' BY <1>1 DEF RoundIsFresh, RoundIsInTime
<1>7. LastRoundWasGood'
  <2> SUFFICES ASSUME mode = "consistently", NEW e \in Polls, at' = "clock"
               PROVE  holds[e] \/ steady[e] <= Rest(e) + Lag + waiting'
    BY <1>1, Framed DEF LastRoundWasGood, Frame, Fresh, Rest
  <2>1. Rest(e) \in Nat BY <1>1, OfTheBlock DEF PollInv
  <2>2. Rest(e) + Lag + waiting' = Rest(e) + Lag BY <1>1, <2>1, Waits
  <2> QED BY <1>1, <1>5, <2>2
<1>8. Verdicts'
  <2> SUFFICES ASSUME at' = "passed"
               PROVE  /\ satisfied' /\ mode = "eventually"
                      /\ left > -RoundTime
                      /\ \A e \in Polls : holds[e] \/ steady[e] <= expects * Lag
    BY <1>1, Framed DEF Verdicts, Frame, Fresh
  <2>1. satisfied' /\ mode = "eventually" /\ succeeded BY <1>1
  <2>2. left > -RoundTime
    <3>1. left > -(expects * Lag + waiting) BY <1>1, <2>1 DEF PollInv, RoundIsInTime
    <3>2. RoundTime = expects * Lag + Lag /\ expects * Lag \in Nat BY <1>1, OfTheBlock DEF PollInv
    <3> QED BY <1>3, <3>1, <3>2, Waits
  <2>3. ASSUME NEW e \in Polls PROVE holds[e] \/ steady[e] <= expects * Lag
    <3>1. /\ Rest(e) \in Nat /\ expects * Lag \in Nat /\ Rest(e) + Lag <= expects * Lag
          /\ steady[e] \in Nat
      BY <1>1, <1>3, OfTheBlock DEF PollInv
    <3>2. steady[e] <= Rest(e) + Lag => steady[e] <= expects * Lag BY <3>1, Waits
    <3> QED BY <1>5, <2>1, <3>2
  <2> QED BY <2>1, <2>2, <2>3
<1>9. ClockIsForConsistently' BY <1>1 DEF ClockIsForConsistently, Frame
<1> QED BY <1>4, <1>6, <1>7, <1>8, <1>9 DEF PollInv

LEMMA ClockKeeps ==
  ASSUME PollInv, LookAtClock
  PROVE  PollInv'
<1>1. /\ Frame /\ at = "clock" /\ waiting' = 0 /\ left' = left /\ asked' = asked
      /\ succeeded' = succeeded
      /\ \/ left < 0 /\ satisfied' = TRUE /\ at' = "passed" /\ nap' = nap
         \/ at' = "nap" /\ nap' = Gap /\ satisfied' = satisfied
  BY DEF LookAtClock, Frame, Sleep
<1>2. Polls' = Polls BY <1>1, Framed
<1>3. expects \in Nat /\ waiting \in 0..Lag /\ left \in Int /\ steady \in [Polls -> Nat]
  BY <1>1, PollingAssumption DEF PollInv, PollTypes
<1>4. PollTypes'
  <2>1. satisfied' \in BOOLEAN BY <1>1 DEF PollInv, PollTypes
  <2> QED BY <1>1, <1>2, <1>3, <2>1, Waits DEF PollInv, PollTypes, Frame
<1>5. ASSUME mode = "consistently", NEW e \in Polls
      PROVE  holds[e] \/ steady[e] <= Rest(e) + 2 * Lag
  <2>1. holds[e] \/ steady[e] <= Rest(e) + Lag + waiting
    BY <1>1, <1>5 DEF PollInv, LastRoundWasGood, Fresh
  <2>2. Rest(e) \in Nat /\ steady[e] \in Nat BY <1>1, <1>3, OfTheBlock DEF PollInv
  <2>3. steady[e] <= Rest(e) + Lag + waiting => steady[e] <= Rest(e) + 2 * Lag
    BY <1>3, <2>2, Waits
  <2> QED BY <2>1, <2>3, Zenon
<1>6. RoundIsFresh' /\ RoundIsInTime' BY <1>1 DEF RoundIsFresh, RoundIsInTime
<1>7. LastRoundWasGood'
  <2> SUFFICES ASSUME mode = "consistently", NEW e \in Polls, at' = "nap"
               PROVE  holds[e] \/ steady[e] <= Rest(e) + 2 * Lag + (Gap - nap') + waiting'
    BY <1>1, Framed DEF LastRoundWasGood, Frame, Fresh, Rest
  <2>1. Rest(e) \in Nat BY <1>1, OfTheBlock DEF PollInv
  <2>2. Rest(e) + 2 * Lag + (Gap - nap') + waiting' = Rest(e) + 2 * Lag
    BY <1>1, <2>1, Waits
  <2> QED BY <1>1, <1>5, <2>2
<1>8. Verdicts'
  <2> SUFFICES ASSUME at' = "passed"
               PROVE  /\ satisfied' /\ mode # "eventually" /\ left < 0
                      /\ mode = "consistently" =>
                           \A e \in Polls : holds[e] \/ steady[e] <= Blind
    BY <1>1, Framed DEF Verdicts, Frame, Fresh
  <2>1. mode # "eventually" BY <1>1 DEF PollInv, ClockIsForConsistently
  <2>2. ASSUME mode = "consistently", NEW e \in Polls
        PROVE  holds[e] \/ steady[e] <= Blind
    <3>1. /\ Rest(e) \in Nat /\ expects * Lag \in Nat /\ Rest(e) + Lag <= expects * Lag
          /\ steady[e] \in Nat /\ Blind = 2 * (expects * Lag) + 4 * Lag + Gap
      BY <1>1, <1>3, OfTheBlock DEF PollInv
    <3>2. steady[e] <= Rest(e) + 2 * Lag => steady[e] <= Blind BY <3>1, Waits
    <3> QED BY <1>5, <2>2, <3>2
  <2> QED BY <1>1, <2>1, <2>2
<1>9. ClockIsForConsistently' BY <1>1 DEF ClockIsForConsistently
<1> QED BY <1>4, <1>6, <1>7, <1>8, <1>9 DEF PollInv

LEMMA WakeKeeps ==
  ASSUME PollInv, Wake
  PROVE  PollInv'
<1>1. /\ Frame /\ at = "nap" /\ nap = 0 /\ at' = "head" /\ waiting' = 0 /\ nap' = nap
      /\ UNCHANGED <<left, asked, succeeded, satisfied>>
  BY DEF Wake, Frame
<1>2. Polls' = Polls BY <1>1, Framed
<1>3. waiting \in 0..Lag /\ steady \in [Polls -> Nat] BY <1>1 DEF PollInv, PollTypes
<1>4. PollTypes' BY <1>1, <1>2, <1>3, Waits DEF PollInv, PollTypes, Frame
<1>5. LastRoundWasGood'
  <2> SUFFICES ASSUME mode = "consistently", NEW e \in Polls
               PROVE  holds[e] \/ steady[e] <= Old(e) + waiting'
    BY <1>1, Framed DEF LastRoundWasGood, Frame, Fresh, Old, Rest
  <2>1. holds[e] \/ steady[e] <= Rest(e) + 2 * Lag + (Gap - nap) + waiting
    BY <1>1 DEF PollInv, LastRoundWasGood, Fresh
  <2>2. Rest(e) \in Nat /\ steady[e] \in Nat BY <1>1, <1>3, OfTheBlock DEF PollInv
  <2>3. steady[e] <= Rest(e) + 2 * Lag + (Gap - nap) + waiting => steady[e] <= Old(e) + waiting'
    BY <1>1, <1>3, <2>2, Waits DEF Old
  <2> QED BY <2>1, <2>3, Zenon
<1> QED BY <1>1, <1>4, <1>5
  DEF PollInv, RoundIsFresh, RoundIsInTime, Verdicts, ClockIsForConsistently

(* A change is young, and so is the answer it spoils.                      *)
LEMMA ToggleKeeps ==
  ASSUME PollInv, Toggle
  PROVE  PollInv'
<1>1. PICK x \in Polls : holds' = [holds EXCEPT ![x] = ~@] /\ steady' = [steady EXCEPT ![x] = 0]
  BY DEF Toggle
<1>2. /\ UNCHANGED <<mode, expects, left, at, asked, succeeded, satisfied, nap, waiting>>
      /\ at \notin {"idle", "passed", "failed"}
  BY DEF Toggle, Polled
<1>3. /\ Polls' = Polls /\ holds \in [Polls -> BOOLEAN] /\ steady \in [Polls -> Nat]
      /\ waiting \in Nat /\ nap \in 0..Gap
  BY <1>2, Waits DEF Polls, PollInv, PollTypes
<1>4. PollTypes'
  <2>1. holds' \in [Polls -> BOOLEAN] /\ steady' \in [Polls -> Nat] BY <1>1, <1>3
  <2> QED BY <1>2, <1>3, <2>1 DEF PollInv, PollTypes
<1>5. ASSUME NEW e \in Polls, NEW age \in Nat, Fresh(e, age)
      PROVE  holds'[e] \/ steady'[e] <= age
  <2>1. CASE e = x BY <1>1, <1>3, <1>5, <2>1
  <2>2. CASE e # x
    <3>1. holds'[e] = holds[e] /\ steady'[e] = steady[e] BY <1>1, <1>3, <1>5, <2>2
    <3> QED BY <1>5, <3>1 DEF Fresh
  <2> QED BY <2>1, <2>2
<1>6. expects \in Nat /\ \A e \in Polls : e \in Nat /\ Rest(e) \in Nat /\ Old(e) \in Nat
  BY <1>2, OfTheBlock DEF PollInv, Polls
<1>7. RoundIsFresh'
  <2>1. ASSUME at = "body", succeeded, NEW e \in Polls, e < asked
        PROVE  holds'[e] \/ steady'[e] <= (asked - 1 - e) * Lag + waiting
    <3>1. asked - 1 - e \in Nat BY <1>2, <1>6, <2>1 DEF PollInv, PollTypes
    <3>2. (asked - 1 - e) * Lag + waiting \in Nat BY <1>3, <3>1, Waits
    <3>3. Fresh(e, (asked - 1 - e) * Lag + waiting) BY <2>1 DEF PollInv, RoundIsFresh
    <3> QED BY <1>5, <3>2, <3>3
  <2>2. ASSUME at = "decide", succeeded, NEW e \in Polls
        PROVE  holds'[e] \/ steady'[e] <= Rest(e) + waiting
    <3>1. Rest(e) + waiting \in Nat BY <1>3, <1>6
    <3>2. Fresh(e, Rest(e) + waiting) BY <2>2 DEF PollInv, RoundIsFresh
    <3> QED BY <1>5, <3>1, <3>2
  <2> QED BY <1>2, <1>3, <2>1, <2>2 DEF RoundIsFresh, Fresh, Rest
<1>8. LastRoundWasGood'
  <2> SUFFICES ASSUME mode = "consistently", NEW e \in Polls
               PROVE  /\ at = "head" => holds'[e] \/ steady'[e] <= Old(e) + waiting
                      /\ at = "body" => holds'[e] \/ steady'[e] <= Old(e) + asked * Lag + waiting
                      /\ at = "decide" => holds'[e] \/ steady'[e] <= Old(e) + (expects + 1) * Lag + waiting
                      /\ at = "clock" => holds'[e] \/ steady'[e] <= Rest(e) + Lag + waiting
                      /\ at = "nap" => holds'[e] \/ steady'[e] <= Rest(e) + 2 * Lag + (Gap - nap) + waiting
    BY <1>2, <1>3 DEF LastRoundWasGood, Fresh, Old, Rest
  <2>1. /\ Old(e) + waiting \in Nat /\ Rest(e) + Lag + waiting \in Nat
        /\ Rest(e) + 2 * Lag + (Gap - nap) + waiting \in Nat
    BY <1>3, <1>6, Waits
  <2>2. (expects + 1) * Lag \in Nat /\ Old(e) + (expects + 1) * Lag + waiting \in Nat
    <3>1. (expects + 1) * Lag \in Nat BY <1>6, Waits
    <3> QED BY <1>3, <1>6, <3>1
  <2>3. at = "body" => Old(e) + asked * Lag + waiting \in Nat
    <3>1. at = "body" => asked \in Nat BY <1>6 DEF PollInv, PollTypes
    <3>2. at = "body" => asked * Lag \in Nat BY <3>1, Waits
    <3> QED BY <1>3, <1>6, <3>2
  <2> QED BY <1>5, <2>1, <2>2, <2>3 DEF PollInv, LastRoundWasGood
<1> QED BY <1>2, <1>4, <1>7, <1>8
  DEF PollInv, RoundIsInTime, Verdicts, ClockIsForConsistently

(* A tick makes every answer at most a tick older, and the wait for the    *)
(* next step, or the nap, accounts for it.                                 *)
LEMMA PassKeeps ==
  ASSUME PollInv, Pass
  PROVE  PollInv'
<1>1. /\ at \notin {"idle", "passed", "failed"} /\ (nap > 0 \/ waiting < Lag)
      /\ left' = Max({left - 1, -Longest})
      /\ steady' = [e \in Polls |-> Min({steady[e] + 1, Longest})]
      /\ nap' = Max({nap - 1, 0})
      /\ waiting' = IF nap > 0 THEN 0 ELSE waiting + 1
      /\ UNCHANGED <<mode, expects, holds, at, asked, succeeded, satisfied>>
  BY DEF Pass, Polled
<1>2. /\ Polls' = Polls /\ holds \in [Polls -> BOOLEAN] /\ steady \in [Polls -> Nat]
      /\ waiting \in 0..Lag /\ nap \in 0..Gap /\ left \in Int
  BY <1>1 DEF Polls, PollInv, PollTypes
<1>3. left' \in Int /\ left' >= left - 1
  <2>1. left - 1 \in Int /\ -Longest \in Int BY <1>2, LongestNat
  <2> QED BY <1>1, <2>1, MaxOfTwo
<1>4. nap' \in 0..Gap /\ nap' = IF nap > 0 THEN nap - 1 ELSE 0
  <2>1. nap - 1 \in Int /\ 0 \in Int BY <1>2
  <2>2. nap' \in {nap - 1, 0} /\ nap' >= nap - 1 /\ nap' >= 0 BY <1>1, <2>1, MaxOfTwo
  <2> QED BY <1>2, <2>2, Waits
<1>5. \A e \in Polls : steady'[e] \in Nat /\ steady'[e] <= steady[e] + 1
  <2> SUFFICES ASSUME NEW e \in Polls
               PROVE  steady'[e] \in Nat /\ steady'[e] <= steady[e] + 1
    OBVIOUS
  <2>1. steady[e] + 1 \in Int /\ Longest \in Int BY <1>2, LongestNat
  <2>2. steady'[e] = Min({steady[e] + 1, Longest}) BY <1>1
  <2>3. steady'[e] \in {steady[e] + 1, Longest} /\ steady'[e] <= steady[e] + 1
    BY <2>1, <2>2, MinOfTwo
  <2> QED BY <1>2, <2>3, LongestNat
<1>6. steady' \in [Polls -> Nat]
  <2>1. steady' = [e \in Polls |-> steady'[e]] BY <1>1
  <2> QED BY <1>5, <2>1
<1>7. waiting' \in 0..Lag /\ (nap > 0 => waiting = 0 /\ at = "nap")
  BY <1>1, <1>2, Waits DEF PollInv, PollTypes
<1>8. PollTypes'
  <2>1. nap' > 0 => waiting' = 0 BY <1>1, <1>2, <1>4
  <2>2. at # "nap" => nap' = 0 BY <1>2, <1>4 DEF PollInv, PollTypes
  <2> QED BY <1>1, <1>2, <1>3, <1>4, <1>6, <1>7, <2>1, <2>2 DEF PollInv, PollTypes
<1>9. ASSUME NEW e \in Polls, NEW age \in Int, Fresh(e, age)
      PROVE  holds'[e] \/ steady'[e] <= age + 1
  <2>1. steady[e] <= age => steady'[e] <= age + 1 BY <1>2, <1>5
  <2>2. holds[e] \/ steady[e] <= age BY <1>9 DEF Fresh
  <2>3. holds'[e] <=> holds[e] BY <1>1
  <2> QED BY <2>1, <2>2, <2>3, Zenon
<1>10. at # "nap" => waiting' = waiting + 1 BY <1>1, <1>2 DEF PollInv, PollTypes
<1>11. expects \in Nat /\ \A e \in Polls : e \in Nat /\ Rest(e) \in Nat /\ Old(e) \in Nat
  BY <1>1, OfTheBlock DEF PollInv, Polls
<1>12. \A k \in Nat : k * Lag \in Int BY Waits
<1>13. RoundIsFresh'
  <2>1. ASSUME at = "body", succeeded, NEW e \in Polls, e < asked
        PROVE  holds'[e] \/ steady'[e] <= (asked - 1 - e) * Lag + waiting'
    <3>1. asked - 1 - e \in Nat BY <1>1, <1>11, <2>1 DEF PollInv, PollTypes
    <3>2. (asked - 1 - e) * Lag \in Int BY <1>12, <3>1
    <3>3. Fresh(e, (asked - 1 - e) * Lag + waiting) BY <2>1 DEF PollInv, RoundIsFresh
    <3>4. (asked - 1 - e) * Lag + waiting \in Int BY <1>2, <3>2
    <3>5. holds'[e] \/ steady'[e] <= (asked - 1 - e) * Lag + waiting + 1
      BY <1>9, <3>3, <3>4
    <3>6. (asked - 1 - e) * Lag + waiting + 1 = (asked - 1 - e) * Lag + waiting'
      BY <1>2, <1>10, <2>1, <3>2
    <3> QED BY <3>5, <3>6
  <2>2. ASSUME at = "decide", succeeded, NEW e \in Polls
        PROVE  holds'[e] \/ steady'[e] <= Rest(e) + waiting'
    <3>1. Fresh(e, Rest(e) + waiting) BY <2>2 DEF PollInv, RoundIsFresh
    <3>2. Rest(e) \in Int /\ Rest(e) + waiting \in Int BY <1>2, <1>11
    <3>3. holds'[e] \/ steady'[e] <= Rest(e) + waiting + 1 BY <1>9, <3>1, <3>2
    <3>4. Rest(e) + waiting + 1 = Rest(e) + waiting' BY <1>2, <1>10, <2>2, <3>2
    <3> QED BY <3>3, <3>4
  <2> QED BY <1>1, <1>2, <2>1, <2>2 DEF RoundIsFresh, Fresh, Rest
<1>14. RoundIsInTime'
  <2> SUFFICES ASSUME mode = "eventually"
               PROVE  /\ at = "body" => left' > -((asked - 1) * Lag + waiting')
                      /\ at = "decide" => left' > -(expects * Lag + waiting')
    BY <1>1 DEF RoundIsInTime
  <2>1. CASE at = "body"
    <3>1. (asked - 1) * Lag \in Int BY <1>11, <1>12, <2>1 DEF PollInv, PollTypes
    <3>2. left > -((asked - 1) * Lag + waiting) BY <2>1 DEF PollInv, RoundIsInTime
    <3> QED BY <1>2, <1>3, <1>10, <2>1, <3>1, <3>2
  <2>2. CASE at = "decide"
    <3>1. expects * Lag \in Int BY <1>11, <1>12
    <3>2. left > -(expects * Lag + waiting) BY <2>2 DEF PollInv, RoundIsInTime
    <3> QED BY <1>2, <1>3, <1>10, <2>2, <3>1, <3>2
  <2> QED BY <2>1, <2>2
<1>15. LastRoundWasGood'
  <2> SUFFICES ASSUME mode = "consistently", NEW e \in Polls
               PROVE  /\ at = "head" => holds'[e] \/ steady'[e] <= Old(e) + waiting'
                      /\ at = "body" => holds'[e] \/ steady'[e] <= Old(e) + asked * Lag + waiting'
                      /\ at = "decide" => holds'[e] \/ steady'[e] <= Old(e) + (expects + 1) * Lag + waiting'
                      /\ at = "clock" => holds'[e] \/ steady'[e] <= Rest(e) + Lag + waiting'
                      /\ at = "nap" => holds'[e] \/ steady'[e] <= Rest(e) + 2 * Lag + (Gap - nap') + waiting'
    BY <1>1, <1>2, ZenonT(30) DEF LastRoundWasGood, Fresh, Old, Rest
  <2>1. ASSUME NEW base \in Int, at # "nap", Fresh(e, base + waiting)
        PROVE  holds'[e] \/ steady'[e] <= base + waiting'
    <3>1. base + waiting \in Int /\ base + waiting + 1 = base + waiting'
      BY <1>2, <1>10, <2>1
    <3> QED BY <1>9, <2>1, <3>1
  <2>2. CASE at = "head"
    BY <1>11, <2>1, <2>2 DEF PollInv, LastRoundWasGood
  <2>3. CASE at = "body"
    <3>1. asked * Lag \in Int BY <1>11, <1>12, <2>3 DEF PollInv, PollTypes
    <3>2. Old(e) + asked * Lag \in Int BY <1>11, <3>1
    <3> QED BY <2>1, <2>3, <3>2 DEF PollInv, LastRoundWasGood
  <2>4. CASE at = "decide"
    <3>1. (expects + 1) * Lag \in Int BY <1>11, <1>12
    <3>2. Old(e) + (expects + 1) * Lag \in Int BY <1>11, <3>1
    <3> QED BY <2>1, <2>4, <3>2 DEF PollInv, LastRoundWasGood
  <2>5. CASE at = "clock"
    <3>1. Rest(e) + Lag \in Int BY <1>11, Waits
    <3> QED BY <2>1, <2>5, <3>1 DEF PollInv, LastRoundWasGood
  <2>6. CASE at = "nap"
    <3>1. Fresh(e, Rest(e) + 2 * Lag + (Gap - nap) + waiting)
      BY <2>6 DEF PollInv, LastRoundWasGood
    <3>2. Rest(e) + 2 * Lag + (Gap - nap) + waiting \in Int BY <1>2, <1>11, Waits
    <3>3. Rest(e) + 2 * Lag + (Gap - nap) + waiting + 1
            = Rest(e) + 2 * Lag + (Gap - nap') + waiting'
      BY <1>1, <1>2, <1>4, <1>7, <1>11, Waits
    <3>4. holds'[e] \/ steady'[e] <= Rest(e) + 2 * Lag + (Gap - nap) + waiting + 1
      BY <1>9, <3>1, <3>2
    <3> QED BY <2>6, <3>3, <3>4
  <2> QED BY <2>2, <2>3, <2>4, <2>5, <2>6
<1> QED BY <1>1, <1>8, <1>13, <1>14, <1>15 DEF PollInv, Verdicts, ClockIsForConsistently

(* PollInv is an invariant, for any windows, pauses and waits.             *)
LEMMA PollInvariant == PollInit /\ [][PollNext]_pollVars => []PollInv
<1>1. PollInit => PollInv
  <2> SUFFICES ASSUME PollInit PROVE PollInv
    OBVIOUS
  <2>1. PollTypes
    <3>1. 0 \in 0..Gap /\ 0 \in 0..Lag BY PollingAssumption
    <3>2. /\ mode = "none" /\ at = "idle" /\ left = 0 /\ nap = 0 /\ waiting = 0
          /\ succeeded = FALSE /\ satisfied = FALSE
      BY DEF PollInit
    <3>3. mode \in {"none", "eventually", "consistently"} BY <3>2
    <3>4. at \in {"idle", "head", "body", "decide", "clock", "nap", "passed", "failed"} BY <3>2
    <3>5. left \in Int /\ nap \in 0..Gap /\ waiting \in 0..Lag /\ ~(nap > 0) BY <3>1, <3>2
    <3>6. succeeded \in BOOLEAN /\ satisfied \in BOOLEAN BY <3>2
    <3> QED BY <3>2, <3>3, <3>4, <3>5, <3>6, Zenon DEF PollTypes
  <2>2. at = "idle" /\ mode = "none" BY DEF PollInit
  <2> QED BY <2>1, <2>2 DEF PollInv, RoundIsFresh, RoundIsInTime, LastRoundWasGood,
            Verdicts, ClockIsForConsistently
<1>2. PollInv /\ [PollNext]_pollVars => PollInv'
  <2> SUFFICES ASSUME PollInv, [PollNext]_pollVars PROVE PollInv'
    OBVIOUS
  <2>1. CASE Begin BY <2>1, BeginKeeps
  <2>2. CASE LoopHead BY <2>2, HeadKeeps
  <2>3. CASE Evaluate BY <2>3, EvaluateKeeps
  <2>4. CASE Decide BY <2>4, DecideKeeps
  <2>5. CASE LookAtClock BY <2>5, ClockKeeps
  <2>6. CASE Wake BY <2>6, WakeKeeps
  <2>7. CASE Pass BY <2>7, PassKeeps
  <2>8. CASE Toggle BY <2>8, ToggleKeeps
  <2>9. CASE UNCHANGED pollVars
    BY <2>9 DEF pollVars, PollInv, PollTypes, RoundIsFresh, RoundIsInTime, LastRoundWasGood,
         Verdicts, ClockIsForConsistently, Fresh, Rest, Old, Polls, RoundTime, Blind
  <2> QED BY <2>1, <2>2, <2>3, <2>4, <2>5, <2>6, <2>7, <2>8, <2>9 DEF PollNext, PollStep
<1> QED BY <1>1, <1>2, PTL

(* An eventually that passes does so on answers of one round that began in *)
(* time.                                                                   *)
THEOREM EventuallyIsFresh == PollSpec => []PassesAreFresh
<1>1. PollInv => PassesAreFresh
  BY DEF PollInv, Verdicts, PassesAreFresh, Fresh
<1> QED BY <1>1, PollInvariant, PTL DEF PollSpec

(* A consistently looks often enough, and until its window has passed.     *)
THEOREM ConsistentlyLooks == PollSpec => []ConsistentlyNotices
<1>1. ASSUME PollInv PROVE ConsistentlyNotices
  <2> SUFFICES ASSUME mode = "consistently", at # "failed"
               PROVE  /\ \A e \in Polls : holds[e] \/ Within(e) <= Blind
                      /\ at = "passed" => satisfied /\ left < 0
    BY DEF ConsistentlyNotices
  <2>1. at # "idle" BY <1>1 DEF PollInv, PollTypes
  <2>2. at = "passed" => satisfied /\ left < 0 BY <1>1 DEF PollInv, Verdicts
  <2>3. ASSUME NEW e \in Polls, ~holds[e] PROVE Within(e) <= Blind
    <3>1. steady[e] \in Nat /\ left \in Int /\ nap \in 0..Gap /\ waiting \in 0..Lag /\ e \in Nat
      BY <1>1, <2>1 DEF PollInv, PollTypes, Polls
    <3>2. /\ expects \in Nat /\ expects * Lag \in Nat
          /\ Rest(e) \in Nat /\ Rest(e) + Lag <= expects * Lag
          /\ (expects + 1) * Lag = expects * Lag + Lag
          /\ Blind = 2 * (expects * Lag) + 4 * Lag + Gap
      BY <1>1, <2>1, OfTheBlock DEF PollInv
    <3>3. Old(e) = Rest(e) + 3 * Lag + Gap BY DEF Old
    <3>4. at = "body" => asked * Lag \in Nat /\ asked * Lag <= expects * Lag
      <4> SUFFICES ASSUME at = "body" PROVE asked * Lag \in Nat /\ asked * Lag <= expects * Lag
        OBVIOUS
      <4>1. asked \in Nat /\ expects - asked \in Nat BY <1>1, <3>2 DEF PollInv, PollTypes
      <4>2. (expects - asked) * Lag \in Nat /\ asked * Lag \in Nat BY <4>1, Waits
      <4>3. (expects - asked) * Lag + asked * Lag = expects * Lag BY <3>2, <4>1, Waits
      <4> QED BY <3>2, <4>2, <4>3
    <3>5. steady[e] <= Blind
      <4>1. CASE at = "head"
        <5>1. steady[e] <= Old(e) + waiting
          BY <1>1, <2>3, <4>1 DEF PollInv, LastRoundWasGood, Fresh
        <5> QED BY <3>1, <3>2, <3>3, <5>1, Waits
      <4>2. CASE at = "body"
        <5>1. steady[e] <= Old(e) + asked * Lag + waiting
          BY <1>1, <2>3, <4>2 DEF PollInv, LastRoundWasGood, Fresh
        <5> QED BY <3>1, <3>2, <3>3, <3>4, <4>2, <5>1, Waits
      <4>3. CASE at = "decide"
        <5>1. steady[e] <= Old(e) + (expects + 1) * Lag + waiting
          BY <1>1, <2>3, <4>3 DEF PollInv, LastRoundWasGood, Fresh
        <5> QED BY <3>1, <3>2, <3>3, <5>1, Waits
      <4>4. CASE at = "clock"
        <5>1. steady[e] <= Rest(e) + Lag + waiting
          BY <1>1, <2>3, <4>4 DEF PollInv, LastRoundWasGood, Fresh
        <5> QED BY <3>1, <3>2, <5>1, Waits
      <4>5. CASE at = "nap"
        <5>1. steady[e] <= Rest(e) + 2 * Lag + (Gap - nap) + waiting
          BY <1>1, <2>3, <4>5 DEF PollInv, LastRoundWasGood, Fresh
        <5> QED BY <3>1, <3>2, <5>1, Waits
      <4>6. CASE at = "passed" BY <1>1, <2>3, <4>6 DEF PollInv, Verdicts, Fresh
      <4> QED BY <1>1, <2>1, <4>1, <4>2, <4>3, <4>4, <4>5, <4>6 DEF PollInv, PollTypes
    <3>6. Min({left, 0}) \in Int /\ Min({left, 0}) <= 0 BY <3>1, MinOfTwo
    <3>7. Blind \in Int BY <3>2, Waits
    <3> QED BY <3>1, <3>5, <3>6, <3>7 DEF Within
  <2> QED BY <2>2, <2>3
<1> QED BY <1>1, PollInvariant, PTL DEF PollSpec

-----------------------------------------------------------------------------
(* An eventually that has not passed has found an expectation wanting in   *)
(* every round: one that has come to hold only since, or does not hold.    *)
Turned(e, age) == ~holds[e] \/ steady[e] <= age

RoundWasBad ==
  mode = "eventually" =>
    /\ at = "body" /\ ~succeeded =>
         \E e \in Polls : e < asked /\ Turned(e, (asked - 1 - e) * Lag + waiting)
    /\ at = "decide" /\ ~succeeded => \E e \in Polls : Turned(e, Rest(e) + waiting)
    /\ at = "nap" => \E e \in Polls : Turned(e, Rest(e) + Lag + (Gap - nap) + waiting)

LastRoundWasBad ==
  mode = "eventually" =>
    /\ at = "head" => \E e \in Polls : Turned(e, Rest(e) + 2 * Lag + Gap + waiting)
    /\ at = "body" =>
         \E e \in Polls : Turned(e, Rest(e) + 2 * Lag + Gap + asked * Lag + waiting)
    /\ at = "decide" =>
         \E e \in Polls : Turned(e, Rest(e) + 2 * Lag + Gap + (expects + 1) * Lag + waiting)
    /\ at = "failed" => \E e \in Polls : Turned(e, Rest(e) + 3 * Lag + Gap)

SeesInv == RoundWasBad /\ LastRoundWasBad

(* What the steps of the loop leave alone.                                 *)
LEMMA FramedTurns ==
  ASSUME PollInv, at # "idle", Frame
  PROVE  /\ mode' = mode /\ Polls' = Polls
         /\ \A e \in Polls :
              /\ Rest(e)' = Rest(e) /\ Rest(e) \in Nat /\ steady[e] \in Nat
              /\ \A n \in Int : \A m \in Int : Turned(e, n) /\ n <= m => Turned(e, m)
         /\ \A e, n : Turned(e, n)' <=> (~holds[e] \/ steady[e] <= n')
         /\ expects \in Nat /\ waiting \in 0..Lag /\ expects' = expects
<1>1. /\ mode' = mode /\ Polls' = Polls /\ expects' = expects
      /\ \A e \in Polls : Rest(e)' = Rest(e)
      /\ \A e, n : Turned(e, n)' <=> (~holds[e] \/ steady[e] <= n')
  BY DEF Frame, Polls, Rest, Turned
<1>2. expects \in Nat /\ waiting \in 0..Lag /\ steady \in [Polls -> Nat]
  BY PollingAssumption DEF PollInv, PollTypes
<1>3. \A e \in Polls : Rest(e) \in Nat BY OfTheBlock DEF PollInv
<1>4. ASSUME NEW e \in Polls, NEW n \in Int, NEW m \in Int, Turned(e, n), n <= m
      PROVE  Turned(e, m)
  <2>1. steady[e] <= n => steady[e] <= m BY <1>2, <1>4
  <2> QED BY <1>4, <2>1 DEF Turned
<1> QED BY <1>1, <1>2, <1>3, <1>4

LEMMA BeginSees ==
  ASSUME PollInv, Begin
  PROVE  SeesInv'
<1>1. /\ at' = "head" /\ expects' \in 1..MaxExpects /\ waiting' \in 0..Lag
      /\ steady' = [e \in Polls' |-> 0]
  BY DEF Begin, Polls, PollInv, PollTypes
<1>2. expects' \in Nat /\ 1 \in 1..expects' BY <1>1, PollingAssumption
<1>3. (expects' - 1) * Lag \in Nat BY <1>2, Remaining
<1>4. 1 \in Polls' /\ Rest(1)' = (expects' - 1) * Lag BY <1>2 DEF Polls, Rest
<1>5. steady'[1] = 0 BY <1>1, <1>4
<1>6. 0 <= Rest(1)' + 2 * Lag + Gap + waiting' BY <1>1, <1>3, <1>4, Waits
<1>7. Turned(1, Rest(1) + 2 * Lag + Gap + waiting)' BY <1>5, <1>6 DEF Turned
<1> QED BY <1>1, <1>4, <1>7 DEF SeesInv, RoundWasBad, LastRoundWasBad

LEMMA HeadSees ==
  ASSUME PollInv, SeesInv, LoopHead
  PROVE  SeesInv'
<1>1. /\ Frame /\ at = "head" /\ at' \in {"body", "failed"} /\ waiting' = 0
      /\ at' = "body" => asked' = 1 /\ succeeded' = TRUE
  BY DEF LoopHead, Frame
<1> USE <1>1
<1>2. RoundWasBad' BY DEF RoundWasBad
<1>3. LastRoundWasBad'
  <2> SUFFICES ASSUME mode = "eventually"
               PROVE  /\ at' = "body" =>
                           \E e \in Polls : ~holds[e] \/ steady[e] <= Rest(e) + 2 * Lag + Gap + asked' * Lag + waiting'
                      /\ at' = "failed" =>
                           \E e \in Polls : ~holds[e] \/ steady[e] <= Rest(e) + 3 * Lag + Gap
    BY FramedTurns DEF LastRoundWasBad, Turned, Frame, Rest, Polls
  <2>1. PICK e \in Polls : Turned(e, Rest(e) + 2 * Lag + Gap + waiting)
    BY DEF SeesInv, LastRoundWasBad
  <2>2. Rest(e) \in Nat /\ waiting \in 0..Lag BY FramedTurns
  <2>3. /\ Rest(e) + 2 * Lag + Gap + waiting \in Int /\ Rest(e) + 3 * Lag + Gap \in Int
        /\ Rest(e) + 2 * Lag + Gap + waiting <= Rest(e) + 3 * Lag + Gap
    BY <2>2, Waits
  <2>4. Turned(e, Rest(e) + 3 * Lag + Gap) BY <2>1, <2>3, FramedTurns
  <2>5. at' = "body" =>
          Rest(e) + 2 * Lag + Gap + asked' * Lag + waiting' = Rest(e) + 3 * Lag + Gap
    <3>1. at' = "body" => asked' * Lag = Lag BY Waits
    <3> QED BY <2>2, <3>1, Waits
  <2> QED BY <2>4, <2>5 DEF Turned
<1> QED BY <1>2, <1>3 DEF SeesInv

LEMMA EvaluateSees ==
  ASSUME PollInv, SeesInv, Evaluate
  PROVE  SeesInv'
<1>1. /\ Frame /\ at = "body" /\ waiting' = 0
      /\ \/ asked < expects /\ asked' = asked + 1 /\ at' = "body"
         \/ ~(asked < expects) /\ at' = "decide" /\ asked' = asked
      /\ succeeded' = (succeeded /\ holds[asked])
  BY DEF Evaluate, Frame
<1>2. /\ expects \in Nat /\ asked \in 1..expects /\ waiting \in 0..Lag
      /\ Polls' = Polls /\ mode' = mode
  BY <1>1, FramedTurns DEF PollInv, PollTypes
<1>3. asked \in Polls /\ asked \in Nat BY <1>2 DEF Polls
<1>4. at' = "decide" => asked = expects BY <1>1, <1>2
<1>5. ASSUME mode = "eventually", ~succeeded'
      PROVE  \E e \in Polls : e <= asked /\ Turned(e, (asked - e) * Lag)
  <2>1. CASE ~holds[asked] BY <1>3, <2>1 DEF Turned
  <2>2. CASE ~succeeded
    <3>1. PICK e \in Polls : e < asked /\ Turned(e, (asked - 1 - e) * Lag + waiting)
      BY <1>1, <1>5, <2>2 DEF SeesInv, RoundWasBad
    <3>2. e \in Nat /\ asked - 1 - e \in Nat BY <1>3, <3>1 DEF Polls
    <3>3. (asked - 1 - e) * Lag \in Nat /\ (asked - e) * Lag = (asked - 1 - e) * Lag + Lag
      BY <1>3, <3>2, Waits
    <3>4. /\ (asked - 1 - e) * Lag + waiting \in Int /\ (asked - e) * Lag \in Int
          /\ (asked - 1 - e) * Lag + waiting <= (asked - e) * Lag
      BY <1>2, <3>3, Waits
    <3>5. Turned(e, (asked - e) * Lag) BY <1>1, <3>1, <3>4, FramedTurns
    <3>6. e <= asked BY <1>3, <3>1, <3>2
    <3> QED BY <3>5, <3>6
  <2>3. ~holds[asked] \/ ~succeeded BY <1>1, <1>5
  <2> QED BY <2>1, <2>2, <2>3
<1>6. RoundWasBad'
  <2> SUFFICES ASSUME mode = "eventually", ~succeeded'
               PROVE  /\ at' = "body" => \E e \in Polls :
                           e < asked' /\ (~holds[e] \/ steady[e] <= (asked' - 1 - e) * Lag + waiting')
                      /\ at' = "decide" => \E e \in Polls :
                           ~holds[e] \/ steady[e] <= Rest(e) + waiting'
    BY <1>1, <1>2, FramedTurns DEF RoundWasBad, Turned, Frame, Rest
  <2>1. PICK e \in Polls : e <= asked /\ Turned(e, (asked - e) * Lag) BY <1>5
  <2>2. e \in Nat /\ (asked - e) * Lag \in Int
    <3>1. e \in Nat BY DEF Polls
    <3> QED BY <1>3, <3>1, Waits
  <2>3. CASE at' = "body"
    <3>1. asked' = asked + 1 BY <1>1, <2>3
    <3>2. e < asked' /\ asked' - 1 - e = asked - e BY <1>3, <2>1, <2>2, <3>1
    <3>3. (asked' - 1 - e) * Lag + waiting' = (asked - e) * Lag BY <1>1, <2>2, <3>2
    <3> QED BY <1>1, <2>1, <2>3, <3>2, <3>3 DEF Turned
  <2>4. CASE at' = "decide"
    <3>1. Rest(e) + waiting' = (asked - e) * Lag BY <1>1, <1>4, <2>2, <2>4 DEF Rest
    <3> QED BY <1>1, <2>1, <2>4, <3>1 DEF Turned
  <2> QED BY <1>1, <2>3, <2>4
<1>7. LastRoundWasBad'
  <2> SUFFICES ASSUME mode = "eventually"
               PROVE  /\ at' = "body" => \E e \in Polls :
                           ~holds[e] \/ steady[e] <= Rest(e) + 2 * Lag + Gap + asked' * Lag + waiting'
                      /\ at' = "decide" => \E e \in Polls :
                           ~holds[e] \/ steady[e] <= Rest(e) + 2 * Lag + Gap + (expects + 1) * Lag + waiting'
    BY <1>1, <1>2, FramedTurns DEF LastRoundWasBad, Turned, Frame, Rest
  <2>1. PICK e \in Polls : Turned(e, Rest(e) + 2 * Lag + Gap + asked * Lag + waiting)
    BY <1>1 DEF SeesInv, LastRoundWasBad
  <2>2. Rest(e) \in Nat BY <1>1, FramedTurns
  <2>3. asked * Lag \in Nat /\ (asked + 1) * Lag = asked * Lag + Lag BY <1>3, Waits
  <2>4. /\ Rest(e) + 2 * Lag + Gap + asked * Lag + waiting \in Int
        /\ Rest(e) + 2 * Lag + Gap + (asked + 1) * Lag \in Int
        /\ Rest(e) + 2 * Lag + Gap + asked * Lag + waiting <= Rest(e) + 2 * Lag + Gap + (asked + 1) * Lag
    BY <1>2, <2>2, <2>3, Waits
  <2>5. Turned(e, Rest(e) + 2 * Lag + Gap + (asked + 1) * Lag) BY <1>1, <2>1, <2>4, FramedTurns
  <2>6. Rest(e) + 2 * Lag + Gap + (asked + 1) * Lag + waiting' = Rest(e) + 2 * Lag + Gap + (asked + 1) * Lag
    BY <1>1, <2>4
  <2>7. at' = "body" => asked' = asked + 1 BY <1>1
  <2> QED BY <1>1, <1>4, <2>5, <2>6, <2>7 DEF Turned
<1> QED BY <1>6, <1>7 DEF SeesInv

LEMMA DecideSees ==
  ASSUME PollInv, SeesInv, Decide
  PROVE  SeesInv'
<1>1. /\ Frame /\ at = "decide" /\ waiting' = 0
      /\ mode = "eventually" => at' \in {"passed", "nap"}
      /\ mode = "eventually" /\ at' = "nap" => ~succeeded /\ nap' = Gap
  BY DEF Decide, Sleep, Frame
<1>2. mode' = mode BY <1>1, FramedTurns
<1> SUFFICES ASSUME mode = "eventually", at' = "nap"
             PROVE  \E e \in Polls : ~holds[e] \/ steady[e] <= Rest(e) + Lag + (Gap - nap') + waiting'
  BY <1>1, <1>2, FramedTurns DEF SeesInv, RoundWasBad, LastRoundWasBad, Turned, Frame, Rest
<1>3. PICK e \in Polls : Turned(e, Rest(e) + waiting) BY <1>1 DEF SeesInv, RoundWasBad
<1>4. Rest(e) \in Nat /\ waiting \in 0..Lag BY <1>1, FramedTurns
<1>5. /\ Rest(e) + waiting \in Int /\ Rest(e) + Lag \in Int
      /\ Rest(e) + waiting <= Rest(e) + Lag
      /\ Rest(e) + Lag + (Gap - nap') + waiting' = Rest(e) + Lag
  BY <1>1, <1>4, Waits
<1>6. Turned(e, Rest(e) + Lag) BY <1>1, <1>3, <1>5, FramedTurns
<1> QED BY <1>5, <1>6 DEF Turned

LEMMA WakeSees ==
  ASSUME PollInv, SeesInv, Wake
  PROVE  SeesInv'
<1>1. Frame /\ at = "nap" /\ nap = 0 /\ at' = "head" /\ waiting' = 0
  BY DEF Wake, Frame
<1>2. mode' = mode BY <1>1, FramedTurns
<1> SUFFICES ASSUME mode = "eventually"
             PROVE  \E e \in Polls : ~holds[e] \/ steady[e] <= Rest(e) + 2 * Lag + Gap + waiting'
  BY <1>1, <1>2, FramedTurns DEF SeesInv, RoundWasBad, LastRoundWasBad, Turned, Frame, Rest
<1>3. PICK e \in Polls : Turned(e, Rest(e) + Lag + (Gap - nap) + waiting)
  BY <1>1 DEF SeesInv, RoundWasBad
<1>4. Rest(e) \in Nat /\ waiting \in 0..Lag BY <1>1, FramedTurns
<1>5. /\ Rest(e) + Lag + (Gap - nap) + waiting \in Int /\ Rest(e) + 2 * Lag + Gap \in Int
      /\ Rest(e) + Lag + (Gap - nap) + waiting <= Rest(e) + 2 * Lag + Gap
      /\ Rest(e) + 2 * Lag + Gap + waiting' = Rest(e) + 2 * Lag + Gap
  BY <1>1, <1>4, Waits
<1>6. Turned(e, Rest(e) + 2 * Lag + Gap) BY <1>1, <1>3, <1>5, FramedTurns
<1> QED BY <1>5, <1>6 DEF Turned

(* The ages that SeesInv speaks of are numbers.                            *)
LEMMA AgesAreNumbers ==
  ASSUME PollInv, at # "idle", NEW e \in Polls
  PROVE  /\ Rest(e) + waiting \in Nat
         /\ Rest(e) + Lag + (Gap - nap) + waiting \in Nat
         /\ Rest(e) + 2 * Lag + Gap + waiting \in Nat
         /\ Rest(e) + 2 * Lag + Gap + (expects + 1) * Lag + waiting \in Nat
         /\ at = "body" => Rest(e) + 2 * Lag + Gap + asked * Lag + waiting \in Nat
         /\ at = "body" /\ e < asked => (asked - 1 - e) * Lag + waiting \in Nat
<1>1. /\ expects \in Nat /\ waiting \in Nat /\ nap \in 0..Gap /\ e \in Nat
      /\ at = "body" => asked \in Nat
  BY PollingAssumption DEF PollInv, PollTypes, Polls
<1>2. Rest(e) \in Nat BY OfTheBlock DEF PollInv
<1>3. (expects + 1) * Lag \in Nat BY <1>1, Waits
<1>4. at = "body" => asked * Lag \in Nat BY <1>1, Waits
<1>5. at = "body" /\ e < asked => (asked - 1 - e) * Lag \in Nat
  <2>1. at = "body" /\ e < asked => asked - 1 - e \in Nat BY <1>1
  <2> QED BY <2>1, Waits
<1>6. /\ Rest(e) + waiting \in Nat
      /\ Rest(e) + Lag + (Gap - nap) + waiting \in Nat
      /\ Rest(e) + 2 * Lag + Gap + waiting \in Nat
  BY <1>1, <1>2, Waits
<1>7. Rest(e) + 2 * Lag + Gap + (expects + 1) * Lag + waiting \in Nat
  BY <1>1, <1>2, <1>3, Waits
<1>8. at = "body" => Rest(e) + 2 * Lag + Gap + asked * Lag + waiting \in Nat
  BY <1>1, <1>2, <1>4, Waits
<1> QED BY <1>1, <1>5, <1>6, <1>7, <1>8

LEMMA ToggleSees ==
  ASSUME PollInv, SeesInv, Toggle
  PROVE  SeesInv'
<1>1. PICK x \in Polls : holds' = [holds EXCEPT ![x] = ~@] /\ steady' = [steady EXCEPT ![x] = 0]
  BY DEF Toggle
<1>2. /\ UNCHANGED <<mode, expects, at, asked, succeeded, nap, waiting>>
      /\ at \notin {"idle", "passed", "failed"}
  BY DEF Toggle, Polled
<1>3. /\ Polls' = Polls /\ holds \in [Polls -> BOOLEAN] /\ steady \in [Polls -> Nat]
  BY <1>2 DEF Polls, PollInv, PollTypes
<1>4. ASSUME NEW e \in Polls, NEW age \in Nat, Turned(e, age)
      PROVE  ~holds'[e] \/ steady'[e] <= age
  <2>1. CASE e = x BY <1>1, <1>3, <1>4, <2>1
  <2>2. CASE e # x
    <3>1. holds'[e] = holds[e] /\ steady'[e] = steady[e] BY <1>1, <1>3, <1>4, <2>2
    <3> QED BY <1>4, <3>1 DEF Turned
  <2> QED BY <2>1, <2>2
<1>5. RoundWasBad'
  <2> SUFFICES ASSUME mode = "eventually"
               PROVE  /\ at = "body" /\ ~succeeded => \E e \in Polls :
                           e < asked /\ (~holds'[e] \/ steady'[e] <= (asked - 1 - e) * Lag + waiting)
                      /\ at = "decide" /\ ~succeeded => \E e \in Polls :
                           ~holds'[e] \/ steady'[e] <= Rest(e) + waiting
                      /\ at = "nap" => \E e \in Polls :
                           ~holds'[e] \/ steady'[e] <= Rest(e) + Lag + (Gap - nap) + waiting
    BY <1>2, <1>3 DEF RoundWasBad, Turned, Rest
  <2> QED BY <1>2, <1>4, AgesAreNumbers DEF SeesInv, RoundWasBad
<1>6. LastRoundWasBad'
  <2> SUFFICES ASSUME mode = "eventually"
               PROVE  /\ at = "head" => \E e \in Polls :
                           ~holds'[e] \/ steady'[e] <= Rest(e) + 2 * Lag + Gap + waiting
                      /\ at = "body" => \E e \in Polls :
                           ~holds'[e] \/ steady'[e] <= Rest(e) + 2 * Lag + Gap + asked * Lag + waiting
                      /\ at = "decide" => \E e \in Polls :
                           ~holds'[e] \/ steady'[e] <= Rest(e) + 2 * Lag + Gap + (expects + 1) * Lag + waiting
    BY <1>2, <1>3 DEF LastRoundWasBad, Turned, Rest
  <2> QED BY <1>2, <1>4, AgesAreNumbers DEF SeesInv, LastRoundWasBad
<1> QED BY <1>5, <1>6 DEF SeesInv

LEMMA PassSees ==
  ASSUME PollInv, SeesInv, Pass
  PROVE  SeesInv'
<1>1. /\ at \notin {"idle", "passed", "failed"}
      /\ steady' = [e \in Polls |-> Min({steady[e] + 1, Longest})]
      /\ nap' = Max({nap - 1, 0})
      /\ waiting' = IF nap > 0 THEN 0 ELSE waiting + 1
      /\ UNCHANGED <<mode, expects, holds, at, asked, succeeded>>
  BY DEF Pass, Polled
<1>2. /\ Polls' = Polls /\ steady \in [Polls -> Nat]
      /\ waiting \in Nat /\ nap \in 0..Gap /\ (nap > 0 => waiting = 0 /\ at = "nap")
  BY <1>1, Waits DEF Polls, PollInv, PollTypes
<1>3. nap' = IF nap > 0 THEN nap - 1 ELSE 0
  <2>1. nap - 1 \in Int /\ 0 \in Int BY <1>2
  <2>2. nap' \in {nap - 1, 0} /\ nap' >= nap - 1 /\ nap' >= 0 BY <1>1, <2>1, MaxOfTwo
  <2> QED BY <1>2, <2>2, Waits
<1>4. at # "nap" => waiting' = waiting + 1 BY <1>1, <1>2
<1>5. (Gap - nap') + waiting' = (Gap - nap) + waiting + 1 BY <1>1, <1>2, <1>3, Waits
<1>6. ASSUME NEW e \in Polls, NEW age \in Nat, Turned(e, age)
      PROVE  ~holds'[e] \/ steady'[e] <= age + 1
  <2>1. steady[e] + 1 \in Int /\ Longest \in Int BY <1>2, LongestNat
  <2>2. steady'[e] = Min({steady[e] + 1, Longest}) BY <1>1
  <2>3. steady'[e] \in {steady[e] + 1, Longest} /\ steady'[e] <= steady[e] + 1
    BY <2>1, <2>2, MinOfTwo
  <2>4. steady[e] <= age => steady'[e] <= age + 1 BY <1>2, <2>1, <2>3
  <2>5. ~holds[e] \/ steady[e] <= age BY <1>6 DEF Turned
  <2>6. holds' = holds BY <1>1
  <2> QED BY <2>4, <2>5, <2>6
<1>7. ASSUME NEW e \in Polls, NEW base \in Int, at # "nap",
             base + waiting \in Nat, Turned(e, base + waiting)
      PROVE  ~holds'[e] \/ steady'[e] <= base + waiting'
  <2>1. base + waiting + 1 = base + waiting' BY <1>2, <1>4, <1>7
  <2> QED BY <1>6, <1>7, <2>1
<1>8. expects \in Nat /\ \A e \in Polls : e \in Nat /\ Rest(e) \in Nat
  BY <1>1, OfTheBlock DEF PollInv, Polls
<1>9. at = "body" => asked \in Nat /\ asked * Lag \in Nat
  <2>1. at = "body" => asked \in Nat BY <1>8 DEF PollInv, PollTypes
  <2> QED BY <2>1, Waits
<1>10. RoundWasBad'
  <2> SUFFICES ASSUME mode = "eventually"
               PROVE  /\ at = "body" /\ ~succeeded => \E e \in Polls :
                           e < asked /\ (~holds'[e] \/ steady'[e] <= (asked - 1 - e) * Lag + waiting')
                      /\ at = "decide" /\ ~succeeded => \E e \in Polls :
                           ~holds'[e] \/ steady'[e] <= Rest(e) + waiting'
                      /\ at = "nap" => \E e \in Polls :
                           ~holds'[e] \/ steady'[e] <= Rest(e) + Lag + (Gap - nap') + waiting'
    BY <1>1, <1>2 DEF RoundWasBad, Turned, Rest
  <2>1. ASSUME at = "body", ~succeeded
        PROVE  \E e \in Polls :
                 e < asked /\ (~holds'[e] \/ steady'[e] <= (asked - 1 - e) * Lag + waiting')
    <3>1. PICK e \in Polls : e < asked /\ Turned(e, (asked - 1 - e) * Lag + waiting)
      BY <2>1 DEF SeesInv, RoundWasBad
    <3>2. asked - 1 - e \in Nat BY <1>8, <1>9, <2>1, <3>1
    <3>3. (asked - 1 - e) * Lag \in Int BY <3>2, Waits
    <3>4. (asked - 1 - e) * Lag + waiting \in Nat BY <1>1, <2>1, <3>1, AgesAreNumbers
    <3> QED BY <1>7, <2>1, <3>1, <3>3, <3>4
  <2>2. ASSUME at = "decide", ~succeeded
        PROVE  \E e \in Polls : ~holds'[e] \/ steady'[e] <= Rest(e) + waiting'
    <3>1. PICK e \in Polls : Turned(e, Rest(e) + waiting) BY <2>2 DEF SeesInv, RoundWasBad
    <3>2. Rest(e) \in Int /\ Rest(e) + waiting \in Nat BY <1>1, <1>8, AgesAreNumbers
    <3> QED BY <1>7, <2>2, <3>1, <3>2
  <2>3. ASSUME at = "nap"
        PROVE  \E e \in Polls : ~holds'[e] \/ steady'[e] <= Rest(e) + Lag + (Gap - nap') + waiting'
    <3>1. PICK e \in Polls : Turned(e, Rest(e) + Lag + (Gap - nap) + waiting)
      BY <2>3 DEF SeesInv, RoundWasBad
    <3>2. Rest(e) + Lag + (Gap - nap) + waiting \in Nat BY <1>1, AgesAreNumbers
    <3>3. ~holds'[e] \/ steady'[e] <= Rest(e) + Lag + (Gap - nap) + waiting + 1
      BY <1>6, <3>1, <3>2
    <3>4. Rest(e) + Lag + (Gap - nap) + waiting + 1 = Rest(e) + Lag + (Gap - nap') + waiting'
      <4>1. Lag \in Int /\ Gap \in Int BY Waits
      <4>2. nap \in Int /\ waiting \in Int BY <1>2, <4>1
      <4>3. nap' \in Int BY <1>3, <4>2
      <4>4. waiting' \in Int BY <1>1, <4>2
      <4>5. Rest(e) \in Int BY <1>8
      <4>6. PICK base \in Int : base = Rest(e) + Lag BY <4>1, <4>5
      <4>7. PICK before \in Int : before = (Gap - nap) + waiting BY <4>1, <4>2
      <4>8. PICK after \in Int : after = (Gap - nap') + waiting'
        <5>1. Gap - nap' \in Int BY <4>1, <4>3
        <5>2. (Gap - nap') + waiting' \in Int BY <4>4, <5>1
        <5> QED BY <5>2
      <4>9. after = before + 1 BY <1>5, <4>7, <4>8
      <4>10. base + before + 1 = base + after BY <4>9
      <4>11. Rest(e) + Lag + (Gap - nap) + waiting = base + before BY <4>1, <4>2, <4>5, <4>6, <4>7
      <4>12. Rest(e) + Lag + (Gap - nap') + waiting' = base + after BY <4>1, <4>3, <4>4, <4>5, <4>6, <4>8
      <4> QED BY <4>10, <4>11, <4>12
    <3> QED BY <3>3, <3>4
  <2> QED BY <2>1, <2>2, <2>3
<1>11. LastRoundWasBad'
  <2> SUFFICES ASSUME mode = "eventually"
               PROVE  /\ at = "head" => \E e \in Polls :
                           ~holds'[e] \/ steady'[e] <= Rest(e) + 2 * Lag + Gap + waiting'
                      /\ at = "body" => \E e \in Polls :
                           ~holds'[e] \/ steady'[e] <= Rest(e) + 2 * Lag + Gap + asked * Lag + waiting'
                      /\ at = "decide" => \E e \in Polls :
                           ~holds'[e] \/ steady'[e] <= Rest(e) + 2 * Lag + Gap + (expects + 1) * Lag + waiting'
    BY <1>1, <1>2 DEF LastRoundWasBad, Turned, Rest
  <2>1. ASSUME at = "head"
        PROVE  \E e \in Polls : ~holds'[e] \/ steady'[e] <= Rest(e) + 2 * Lag + Gap + waiting'
    <3>1. PICK e \in Polls : Turned(e, Rest(e) + 2 * Lag + Gap + waiting)
      BY <2>1 DEF SeesInv, LastRoundWasBad
    <3>2. Rest(e) + 2 * Lag + Gap \in Int BY <1>8, Waits
    <3>3. Rest(e) + 2 * Lag + Gap + waiting \in Nat BY <1>1, AgesAreNumbers
    <3> QED BY <1>7, <2>1, <3>1, <3>2, <3>3
  <2>2. ASSUME at = "body"
        PROVE  \E e \in Polls :
                 ~holds'[e] \/ steady'[e] <= Rest(e) + 2 * Lag + Gap + asked * Lag + waiting'
    <3>1. PICK e \in Polls : Turned(e, Rest(e) + 2 * Lag + Gap + asked * Lag + waiting)
      BY <2>2 DEF SeesInv, LastRoundWasBad
    <3>2. Rest(e) + 2 * Lag + Gap + asked * Lag \in Int BY <1>8, <1>9, <2>2, Waits
    <3>3. Rest(e) + 2 * Lag + Gap + asked * Lag + waiting \in Nat BY <1>1, <2>2, AgesAreNumbers
    <3> QED BY <1>7, <2>2, <3>1, <3>2, <3>3
  <2>3. ASSUME at = "decide"
        PROVE  \E e \in Polls :
                 ~holds'[e] \/ steady'[e] <= Rest(e) + 2 * Lag + Gap + (expects + 1) * Lag + waiting'
    <3>1. PICK e \in Polls : Turned(e, Rest(e) + 2 * Lag + Gap + (expects + 1) * Lag + waiting)
      BY <2>3 DEF SeesInv, LastRoundWasBad
    <3>2. (expects + 1) * Lag \in Nat BY <1>8, Waits
    <3>3. Rest(e) + 2 * Lag + Gap + (expects + 1) * Lag \in Int BY <1>8, <3>2, Waits
    <3>4. Rest(e) + 2 * Lag + Gap + (expects + 1) * Lag + waiting \in Nat
      BY <1>1, AgesAreNumbers
    <3> QED BY <1>7, <2>3, <3>1, <3>3, <3>4
  <2> QED BY <2>1, <2>2, <2>3
<1> QED BY <1>10, <1>11 DEF SeesInv

LEMMA SeesInvariant == PollInit /\ [][PollNext]_pollVars => []SeesInv
<1>1. PollInit => SeesInv
  BY DEF PollInit, SeesInv, RoundWasBad, LastRoundWasBad
<1>2. PollInv /\ SeesInv /\ [PollNext]_pollVars => SeesInv'
  <2> SUFFICES ASSUME PollInv, SeesInv, [PollNext]_pollVars PROVE SeesInv'
    OBVIOUS
  <2>1. CASE Begin BY <2>1, BeginSees
  <2>2. CASE LoopHead BY <2>2, HeadSees
  <2>3. CASE Evaluate BY <2>3, EvaluateSees
  <2>4. CASE Decide BY <2>4, DecideSees
  <2>5. CASE LookAtClock
    <3>1. at = "clock" /\ mode' = mode BY <2>5 DEF LookAtClock
    <3>2. mode' # "eventually" BY <3>1 DEF PollInv, ClockIsForConsistently
    <3> QED BY <3>2 DEF SeesInv, RoundWasBad, LastRoundWasBad
  <2>6. CASE Wake BY <2>6, WakeSees
  <2>7. CASE Pass BY <2>7, PassSees
  <2>8. CASE Toggle BY <2>8, ToggleSees
  <2>9. CASE UNCHANGED pollVars
    BY <2>9 DEF pollVars, SeesInv, RoundWasBad, LastRoundWasBad, Turned, Rest, Polls
  <2> QED BY <2>1, <2>2, <2>3, <2>4, <2>5, <2>6, <2>7, <2>8, <2>9 DEF PollNext, PollStep
<1> QED BY <1>1, <1>2, PollInvariant, PTL

(* An eventually whose expectations come to hold together passes before    *)
(* long, and fails only if they came to late.                              *)
THEOREM EventuallyLooks == PollSpec => []EventuallySees
<1>1. ASSUME PollInv, SeesInv PROVE EventuallySees
  <2> SUFFICES ASSUME mode = "eventually", at # "passed", \A e \in Polls : holds[e]
               PROVE  \E e \in Polls :
                        Within(e) <= IF at = "failed" THEN RoundTime + Gap + Lag ELSE Blind
    BY DEF EventuallySees
  <2>1. at # "idle" /\ at # "clock" BY <1>1 DEF PollInv, PollTypes, ClockIsForConsistently
  <2>2. /\ expects \in Nat /\ expects * Lag \in Nat
        /\ (expects + 1) * Lag = expects * Lag + Lag
        /\ RoundTime = expects * Lag + Lag
        /\ Blind = 2 * (expects * Lag) + 4 * Lag + Gap
        /\ \A e \in Polls : Rest(e) \in Nat /\ Rest(e) + Lag <= expects * Lag
    BY <1>1, <2>1, OfTheBlock DEF PollInv
  <2>3. /\ left \in Int /\ nap \in 0..Gap /\ waiting \in 0..Lag /\ steady \in [Polls -> Nat]
        /\ at \in {"head", "body", "decide", "nap", "failed"}
    BY <1>1, <2>1 DEF PollInv, PollTypes
  <2>4. ASSUME NEW e \in Polls, NEW age \in Int, steady[e] <= age
        PROVE  Within(e) <= age
    <3>1. left \in Int /\ 0 \in Int BY <2>3
    <3>2. Min({left, 0}) \in {left, 0} /\ Min({left, 0}) <= 0 BY ONLY <3>1, MinOfTwo
    <3>3. Min({left, 0}) \in Int BY <3>1, <3>2
    <3>4. steady[e] \in Int BY <2>3
    <3> QED BY <2>4, <3>2, <3>3, <3>4 DEF Within
  <2>5. Blind \in Int /\ RoundTime + Gap + Lag \in Int BY <2>2, Waits
  <2>6. CASE at = "failed"
    <3>1. PICK e \in Polls : Turned(e, Rest(e) + 3 * Lag + Gap)
      BY <1>1, <2>6 DEF SeesInv, LastRoundWasBad
    <3>2. steady[e] <= Rest(e) + 3 * Lag + Gap BY <3>1 DEF Turned
    <3>3. steady[e] <= RoundTime + Gap + Lag BY <2>2, <2>3, <3>2, Waits
    <3>4. Within(e) <= RoundTime + Gap + Lag BY <2>4, <2>5, <3>3
    <3> QED BY <2>6, <3>4
  <2>7. ASSUME at # "failed", NEW e \in Polls, steady[e] <= Blind
        PROVE  \E d \in Polls :
                 Within(d) <= IF at = "failed" THEN RoundTime + Gap + Lag ELSE Blind
    <3>1. Within(e) <= Blind BY <2>4, <2>5, <2>7
    <3> QED BY <2>7, <3>1
  <2>8. CASE at = "head"
    <3>1. PICK e \in Polls : Turned(e, Rest(e) + 2 * Lag + Gap + waiting)
      BY <1>1, <2>8 DEF SeesInv, LastRoundWasBad
    <3>2. steady[e] <= Rest(e) + 2 * Lag + Gap + waiting BY <3>1 DEF Turned
    <3>3. steady[e] <= Blind BY <2>2, <2>3, <3>2, Waits
    <3> QED BY <2>7, <2>8, <3>3
  <2>9. CASE at = "body"
    <3>1. PICK e \in Polls : Turned(e, Rest(e) + 2 * Lag + Gap + asked * Lag + waiting)
      BY <1>1, <2>9 DEF SeesInv, LastRoundWasBad
    <3>2. steady[e] <= Rest(e) + 2 * Lag + Gap + asked * Lag + waiting BY <3>1 DEF Turned
    <3>3. asked * Lag \in Nat /\ asked * Lag <= expects * Lag
      <4>1. asked \in Nat /\ expects - asked \in Nat BY <1>1, <2>2, <2>9 DEF PollInv, PollTypes
      <4>2. (expects - asked) * Lag \in Nat /\ asked * Lag \in Nat BY <4>1, Waits
      <4>3. (expects - asked) * Lag + asked * Lag = expects * Lag BY <2>2, <4>1, Waits
      <4> QED BY <2>2, <4>2, <4>3
    <3>4. steady[e] <= Blind BY <2>2, <2>3, <3>2, <3>3, Waits
    <3> QED BY <2>7, <2>9, <3>4
  <2>10. CASE at = "decide"
    <3>1. PICK e \in Polls : Turned(e, Rest(e) + 2 * Lag + Gap + (expects + 1) * Lag + waiting)
      BY <1>1, <2>10 DEF SeesInv, LastRoundWasBad
    <3>2. steady[e] <= Rest(e) + 2 * Lag + Gap + (expects + 1) * Lag + waiting
      BY <3>1 DEF Turned
    <3>3. steady[e] <= Blind BY <2>2, <2>3, <3>2, Waits
    <3> QED BY <2>7, <2>10, <3>3
  <2>11. CASE at = "nap"
    <3>1. PICK e \in Polls : Turned(e, Rest(e) + Lag + (Gap - nap) + waiting)
      BY <1>1, <2>11 DEF SeesInv, RoundWasBad
    <3>2. steady[e] <= Rest(e) + Lag + (Gap - nap) + waiting BY <3>1 DEF Turned
    <3>3. steady[e] <= Blind BY <2>2, <2>3, <3>2, Waits
    <3> QED BY <2>7, <2>11, <3>3
  <2> QED BY <2>3, <2>6, <2>8, <2>9, <2>10, <2>11
<1> QED BY <1>1, PollInvariant, SeesInvariant, PTL DEF PollSpec

-----------------------------------------------------------------------------
(* Hooks: what the transpiler has on hand in every block it has reached.   *)
NodeType == [type : AllTypes, parent : Slots, around : SUBSET Slots]
HookList == [before : Seq(Slots), after : Seq(Slots)]
FrameType == [collects : BOOLEAN, hooks : HookList, context : HookList]
Instr == [op : {"do", "cleanup"}, node : Slots]

HooksTypeOK ==
  /\ tree \in Seq(NodeType) /\ Len(tree) <= MaxNodes
  /\ emitted \in 0..Len(tree)
  /\ frame \in [Slots -> FrameType]
  /\ code \in [Slots -> Seq(Instr)]

(* The tree: a statement is in the block it was typed into and in the      *)
(* blocks around that, all of which come before it; and what comes between *)
(* a block and a statement in it is in that block too.                     *)
InBlocks(n) ==
  /\ Parent(n) \in Blocks /\ Parent(n) < n
  /\ Around(n) = Around(Parent(n)) \cup {Parent(n)}
  /\ \A b \in Around(n) : b \in Blocks /\ b < n /\ Around(b) \subseteq Around(n)
WellNested ==
  /\ \A n \in Nodes : InBlocks(n)
  /\ \A m, n \in Nodes : m < n => \A b \in Around(n) : b < m => b \in Around(m)

(* A hook list names hooks of its kind, in the order of the source.        *)
Listed(hooks) ==
  {hooks.before[i] : i \in DOMAIN hooks.before} \cup {hooks.after[i] : i \in DOMAIN hooks.after}
Rising(list, kind) ==
  /\ \A i \in DOMAIN list : list[i] \in Nodes /\ Type(list[i]) = kind
  /\ \A i, j \in DOMAIN list : i < j => list[i] < list[j]
Sorted(hooks) == Rising(hooks.before, "before") /\ Rising(hooks.after, "after")

OwnTo(b, k) == {m \in OwnHooks(b) : m <= k}

(* Once statement k is emitted: what a frame f of block b holds is in      *)
(* scope, and what it collects is of the block.                            *)
FrameOK(b, f, k) ==
  /\ Sorted(f.hooks) /\ Sorted(f.context)
  /\ Listed(f.hooks) \subseteq InScope(b) \cup OwnTo(b, k)
  /\ Listed(f.context) \subseteq InScope(b)
  /\ ~f.collects =>
       /\ f.hooks = NoHooks /\ b # Root /\ Type(b) = "bdd"
       /\ ~(BlockHasDirectLifecycleHook(b) /\ BlockHasNestedBDD(b))
  /\ f.collects /\ b # Root /\ Type(b) = "bdd" => BlockHasNestedBDD(b) \/ InScope(b) # {}

(* What a body c does is what its list of instructions names, in order,    *)
(* cleanups and the rest each for themselves.                              *)
Told(c) == {c[i].node : i \in DOMAIN c}
CodeSorted(c) ==
  /\ \A i \in DOMAIN c : c[i].node \in Nodes /\ (c[i].op = "cleanup" <=> Type(c[i].node) = "after")
  /\ \A i, j \in DOMAIN c : i < j /\ c[i].op = c[j].op => c[i].node < c[j].node
CodeOK(b, c, k) ==
  /\ CodeSorted(c) /\ \A m \in Told(c) : m <= k
  /\ Told(c) \cap HookNodes \subseteq InScope(b) \cup OwnTo(b, k)
  /\ Told(c) \ HookNodes = {n \in Children(b) : n <= k} \ HookNodes

(* On the regular trees a hook of a block is on its list while it has      *)
(* subtests to hand it to, and in its code when it has none.               *)
RegularOK(b, f, c, k) ==
  IF HasSubtests(b)
  THEN Listed(f.hooks) = InScope(b) \cup OwnTo(b, k) /\ Told(c) \cap HookNodes = {}
  ELSE Told(c) \cap HookNodes = InScope(b) \cup OwnTo(b, k)

BlockOK(b, f, c, k) == FrameOK(b, f, k) /\ CodeOK(b, c, k) /\ (Regular => RegularOK(b, f, c, k))

Begun ==
  emitted = 0 => frame[Root] = EmitBlockInnerWithHooks(NoHooks, NoHooks) /\ code[Root] = <<>>

HooksInv ==
  /\ HooksTypeOK /\ WellNested /\ Begun
  /\ \A b \in Blocks : b <= emitted => BlockOK(b, frame[b], code[b], emitted)

LEMMA NodesAreSlots ==
  ASSUME HooksTypeOK
  PROVE  /\ MaxNodes \in Nat /\ Root \in Slots /\ Nodes \subseteq Slots /\ Blocks \subseteq Slots
         /\ Slots \subseteq Nat /\ \A n \in Nodes : n > 0 /\ tree[n] \in NodeType
  <1>1. MaxNodes \in Nat
    BY HooksAssumption
  <1>2. Len(tree) \in Nat /\ Len(tree) <= MaxNodes /\ \A n \in 1..Len(tree) : tree[n] \in NodeType
    BY DEF HooksTypeOK
  <1> QED
    BY <1>1, <1>2 DEF Slots, Nodes, Blocks, Root

(* The hooks in scope at a statement: those in scope at its block, and     *)
(* those of the block that come before it.                                 *)
LEMMA ScopeStep ==
  ASSUME HooksTypeOK, WellNested, NEW n \in Nodes
  PROVE  InScope(n) = InScope(Parent(n)) \cup {m \in OwnHooks(Parent(n)) : m < n}
  <1> DEFINE p == Parent(n)
  <1>0. Nodes \subseteq Nat /\ p \in Nat /\ Root = 0 /\ Blocks \subseteq Nat
    BY NodesAreSlots DEF WellNested, InBlocks, Root
  <1>1. p < n /\ Around(n) = Around(p) \cup {p}
    BY DEF WellNested, InBlocks
  <1>2. ASSUME NEW m \in InScope(n), Parent(m) # p
        PROVE  m \in InScope(p)
    <2>1. m \in Nodes /\ m \in HookNodes /\ m < n /\ Parent(m) \in Around(p)
      BY <1>1, <1>2 DEF InScope, HookNodes
    <2>2. p # Root /\ p \in Nodes
      BY <2>1 DEF Around, WellNested, InBlocks, Blocks
    <2>3. p # m
      <3>1. HookTypes \cap Subtests = {}
        BY DEF HookTypes, Subtests
      <3> QED
        BY <2>1, <2>2, <3>1 DEF WellNested, InBlocks, Blocks, HookNodes
    <2>4. ASSUME p < m PROVE FALSE
      <3>1. p \in Around(m)
        BY <2>1, <2>4, <1>1 DEF WellNested
      <3>2. p \in Around(Parent(m))
        BY <3>1, <2>1, <1>2 DEF WellNested, InBlocks
      <3>3. Parent(m) # Root /\ Parent(m) \in Nodes
        BY <3>2, <2>1 DEF Around, WellNested, InBlocks, Blocks
      <3>4. p < Parent(m)
        BY <3>2, <3>3 DEF WellNested, InBlocks
      <3>5. Parent(m) < p
        BY <2>1, <2>2 DEF WellNested, InBlocks
      <3> QED
        <4>1. Parent(m) \in Nat
          BY <3>3, <1>0
        <4> HIDE DEF p
        <4> QED
          BY <3>4, <3>5, <4>1, <1>0
    <2> QED
      BY <2>1, <2>3, <2>4, <1>0 DEF InScope
  <1>3. ASSUME NEW m \in InScope(p)
        PROVE  m \in InScope(n)
    <2>1. m \in HookNodes /\ m \in Nodes /\ m < p /\ Parent(m) \in Around(p)
      BY <1>3 DEF InScope, HookNodes
    <2> QED
      BY <2>1, <1>0, <1>1 DEF InScope
  <1>4. ASSUME NEW m \in InScope(n), Parent(m) = p
        PROVE  m \in OwnHooks(p) /\ m < n
    BY <1>4 DEF InScope, OwnHooks, Children, HookNodes
  <1>5. ASSUME NEW m \in OwnHooks(p), m < n
        PROVE  m \in InScope(n)
    BY <1>5, <1>1 DEF InScope, OwnHooks, Children
  <1> QED
    BY <1>2, <1>3, <1>4, <1>5

(* Hook lists. *)
LEMMA EmptyList ==
  /\ NoHooks \in HookList /\ Listed(NoHooks) = {} /\ Sorted(NoHooks)
  /\ \A h \in HookList : Listed(h) = {} => h = NoHooks
  <1>1. <<>> \in Seq(Slots) /\ DOMAIN <<>> = {}
    OBVIOUS
  <1>2. NoHooks \in HookList /\ Listed(NoHooks) = {} /\ Sorted(NoHooks)
    BY <1>1 DEF NoHooks, HookList, Listed, Sorted, Rising
  <1>3. ASSUME NEW h \in HookList, Listed(h) = {}
        PROVE  h = NoHooks
    <2>1. h = [before |-> h.before, after |-> h.after] /\ h.before \in Seq(Slots) /\ h.after \in Seq(Slots)
      BY DEF HookList
    <2>2. DOMAIN h.before = {} /\ DOMAIN h.after = {}
      BY <1>3 DEF Listed
    <2>3. ASSUME NEW s \in Seq(Slots), DOMAIN s = {}
          PROVE  s = <<>>
      <3>1. Len(s) \in Nat /\ DOMAIN s = 1..Len(s)
        OBVIOUS
      <3>2. Len(s) = 0
        BY <3>1, <2>3
      <3> QED
        BY <3>2
    <2> QED
      BY <2>1, <2>2, <2>3 DEF NoHooks
  <1> QED
    BY <1>2, <1>3

LEMMA Rises ==
  ASSUME HooksTypeOK, NEW list \in Seq(Slots), NEW kind, Rising(list, kind),
         NEW n \in Nodes, Type(n) = kind, \A i \in DOMAIN list : list[i] < n
  PROVE  /\ Append(list, n) \in Seq(Slots) /\ Rising(Append(list, n), kind)
         /\ {Append(list, n)[i] : i \in DOMAIN Append(list, n)} = {list[i] : i \in DOMAIN list} \cup {n}
  <1> DEFINE t == Append(list, n)
  <1>1. n \in Slots /\ Slots \subseteq Nat
    BY NodesAreSlots
  <1>2. /\ Len(list) \in Nat /\ DOMAIN list = 1..Len(list) /\ \A i \in 1..Len(list) : list[i] \in Nat
        /\ t \in Seq(Slots) /\ DOMAIN t = 1..(Len(list) + 1)
        /\ \A i \in 1..Len(list) : t[i] = list[i]
        /\ t[Len(list) + 1] = n
    <2>1. Len(list) \in Nat /\ DOMAIN list = 1..Len(list) /\ \A i \in 1..Len(list) : list[i] \in Slots
      OBVIOUS
    <2>2. t \in Seq(Slots) /\ Len(t) = Len(list) + 1
      BY <1>1
    <2>3. DOMAIN t = 1..(Len(list) + 1)
      BY <2>2
    <2>4. \A i \in 1..Len(list) : t[i] = list[i]
      OBVIOUS
    <2>5. t[Len(list) + 1] = n
      OBVIOUS
    <2> HIDE DEF t
    <2> QED
      BY <1>1, <2>1, <2>2, <2>3, <2>4, <2>5
  <1>3. \A i \in DOMAIN t : i \in DOMAIN list \/ i = Len(list) + 1
    BY <1>2
  <1>4. \A i \in DOMAIN t : t[i] \in Nodes /\ Type(t[i]) = kind
    BY <1>2, <1>3 DEF Rising
  <1>5. \A i, j \in DOMAIN t : i < j => t[i] < t[j]
    BY <1>2, <1>3 DEF Rising
  <1> HIDE DEF t
  <1>6. {t[i] : i \in DOMAIN t} = {list[i] : i \in DOMAIN list} \cup {n}
    BY <1>2, <1>3
  <1> QED
    BY <1>2, <1>4, <1>5, <1>6 DEF Rising, t

LEMMA TwoLists ==
  ASSUME NEW a \in Seq(Slots), NEW b \in Seq(Slots)
  PROVE  /\ [before |-> a, after |-> b] \in HookList
         /\ Rising(a, "before") /\ Rising(b, "after") => Sorted([before |-> a, after |-> b])
         /\ Listed([before |-> a, after |-> b])
              = {a[i] : i \in DOMAIN a} \cup {b[i] : i \in DOMAIN b}
  <1>1. [before |-> a, after |-> b].before = a /\ [before |-> a, after |-> b].after = b
    OBVIOUS
  <1>2. [before |-> a, after |-> b] \in HookList
    BY DEF HookList
  <1>3. Rising(a, "before") /\ Rising(b, "after") => Sorted([before |-> a, after |-> b])
    BY <1>1 DEF Sorted
  <1>4. Listed([before |-> a, after |-> b]) = {a[i] : i \in DOMAIN a} \cup {b[i] : i \in DOMAIN b}
    BY <1>1 DEF Listed
  <1> QED
    BY <1>2, <1>3, <1>4

LEMMA Added ==
  ASSUME HooksTypeOK, NEW h \in HookList, Sorted(h), NEW n \in HookNodes, \A m \in Listed(h) : m < n
  PROVE  AddHook(h, n) \in HookList /\ Sorted(AddHook(h, n)) /\ Listed(AddHook(h, n)) = Listed(h) \cup {n}
  <1>1. n \in Nodes /\ Type(n) \in {"before", "after"}
    BY DEF HookNodes, HookTypes
  <1>2. h.before \in Seq(Slots) /\ h.after \in Seq(Slots)
    BY DEF HookList
  <1>3. Rising(h.before, "before") /\ Rising(h.after, "after")
    BY DEF Sorted
  <1>4. /\ Listed(h) = {h.before[i] : i \in DOMAIN h.before} \cup {h.after[i] : i \in DOMAIN h.after}
        /\ \A i \in DOMAIN h.before : h.before[i] < n
        /\ \A i \in DOMAIN h.after : h.after[i] < n
    BY DEF Listed
  <1>5. CASE Type(n) = "before"
    <2> DEFINE a == Append(h.before, n)
    <2>1. AddHook(h, n) = [before |-> a, after |-> h.after]
      BY <1>5 DEF AddHook, HookList
    <2>2. /\ a \in Seq(Slots) /\ Rising(a, "before")
          /\ {a[i] : i \in DOMAIN a} = {h.before[i] : i \in DOMAIN h.before} \cup {n}
      BY <1>1, <1>2, <1>3, <1>4, <1>5, Rises
    <2> HIDE DEF a
    <2>3. /\ AddHook(h, n) \in HookList /\ Sorted(AddHook(h, n))
          /\ Listed(AddHook(h, n)) = {a[i] : i \in DOMAIN a} \cup {h.after[i] : i \in DOMAIN h.after}
      BY <1>2, <1>3, <2>1, <2>2, TwoLists
    <2> QED
      BY <2>2, <2>3, <1>4
  <1>6. CASE Type(n) = "after"
    <2> DEFINE a == Append(h.after, n)
    <2>1. AddHook(h, n) = [before |-> h.before, after |-> a]
      BY <1>6 DEF AddHook, HookList
    <2>2. /\ a \in Seq(Slots) /\ Rising(a, "after")
          /\ {a[i] : i \in DOMAIN a} = {h.after[i] : i \in DOMAIN h.after} \cup {n}
      BY <1>1, <1>2, <1>3, <1>4, <1>6, Rises
    <2> HIDE DEF a
    <2>3. /\ AddHook(h, n) \in HookList /\ Sorted(AddHook(h, n))
          /\ Listed(AddHook(h, n)) = {h.before[i] : i \in DOMAIN h.before} \cup {a[i] : i \in DOMAIN a}
      BY <1>2, <1>3, <2>1, <2>2, TwoLists
    <2> QED
      BY <2>2, <2>3, <1>4
  <1> QED
    BY <1>1, <1>5, <1>6

(* Bodies. *)
LEMMA TwoParts ==
  ASSUME NEW x \in Seq(Instr), NEW y \in Seq(Instr)
  PROVE  /\ x \o y \in Seq(Instr) /\ Len(x \o y) = Len(x) + Len(y)
         /\ \A i \in 1..Len(x \o y) : (x \o y)[i] = IF i <= Len(x) THEN x[i] ELSE y[i - Len(x)]
  BY ConcatProperties

LEMMA Inlines ==
  ASSUME HooksTypeOK, NEW h \in HookList, Sorted(h)
  PROVE  Inlined(h) \in Seq(Instr) /\ CodeSorted(Inlined(h)) /\ Told(Inlined(h)) = Listed(h)
  <1> DEFINE s == h.before  t == h.after
             x == [i \in 1..Len(s) |-> Do(s[i])]  y == [i \in 1..Len(t) |-> Cleanup(t[i])]  c == Inlined(h)
  <1>1. s \in Seq(Slots) /\ t \in Seq(Slots)
    BY DEF HookList
  <1>2. /\ Len(s) \in Nat /\ DOMAIN s = 1..Len(s) /\ \A i \in 1..Len(s) : s[i] \in Slots
        /\ Len(t) \in Nat /\ DOMAIN t = 1..Len(t) /\ \A i \in 1..Len(t) : t[i] \in Slots
    BY <1>1
  <1>3. \A m \in Slots : Do(m) \in Instr /\ Cleanup(m) \in Instr
    BY DEF Do, Cleanup, Instr
  <1>4. x \in Seq(Instr) /\ Len(x) = Len(s) /\ y \in Seq(Instr) /\ Len(y) = Len(t)
    BY <1>2, <1>3
  <1>18. \A m : /\ Do(m).node = m /\ Do(m).op = "do"
               /\ Cleanup(m).node = m /\ Cleanup(m).op = "cleanup"
    BY DEF Do, Cleanup
  <1>14. /\ \A i \in 1..Len(s) : x[i] = Do(s[i])
        /\ \A i \in 1..Len(t) : y[i] = Cleanup(t[i])
    OBVIOUS
  <1>15. c = x \o y
    BY DEF Inlined
  <1> HIDE DEF c, x, y
  <1>5. /\ c \in Seq(Instr) /\ Len(c) = Len(s) + Len(t)
        /\ \A i \in 1..Len(c) : c[i] = IF i <= Len(x) THEN x[i] ELSE y[i - Len(x)]
    BY <1>4, <1>15, TwoParts
  <1>16. DOMAIN c = 1..(Len(s) + Len(t))
    BY <1>5
  <1>17. Listed(h) = {s[i] : i \in 1..Len(s)} \cup {t[i] : i \in 1..Len(t)}
    BY <1>2 DEF Listed
  <1> HIDE DEF s, t
  <1>6. \A i \in DOMAIN c : \/ i \in 1..Len(s) /\ c[i] = Do(s[i])
                            \/ i - Len(s) \in 1..Len(t) /\ c[i] = Cleanup(t[i - Len(s)])
    <2> SUFFICES ASSUME NEW i \in DOMAIN c
                 PROVE  \/ i \in 1..Len(s) /\ c[i] = Do(s[i])
                        \/ i - Len(s) \in 1..Len(t) /\ c[i] = Cleanup(t[i - Len(s)])
      OBVIOUS
    <2>1. i \in 1..(Len(s) + Len(t)) /\ i \in Int
      BY <1>2, <1>16
    <2>2. CASE i <= Len(s)
      <3>1. i \in 1..Len(s) /\ i \in 1..Len(c) /\ i <= Len(x)
        BY <2>1, <2>2, <1>2, <1>4, <1>5
      <3>2. c[i] = x[i]
        BY <3>1, <1>5
      <3> QED
        BY <3>1, <3>2, <1>14
    <2>3. CASE ~(i <= Len(s))
      <3>1. i - Len(s) \in 1..Len(t)
        BY <2>1, <2>3, <1>2
      <3>2. c[i] = y[i - Len(s)]
        BY <2>1, <2>3, <1>2, <1>4, <1>5
      <3> QED
        BY <3>1, <3>2, <1>14
    <2> QED
      BY <2>2, <2>3
  <1>7. /\ \A i \in 1..Len(s) : i \in DOMAIN c /\ c[i] = Do(s[i])
        /\ \A i \in 1..Len(t) : Len(s) + i \in DOMAIN c /\ c[Len(s) + i] = Cleanup(t[i])
    <2>1. ASSUME NEW i \in 1..Len(s)
          PROVE  i \in DOMAIN c /\ c[i] = Do(s[i])
      BY <1>2, <1>4, <1>5, <1>16, <1>14
    <2>2. ASSUME NEW i \in 1..Len(t)
          PROVE  Len(s) + i \in DOMAIN c /\ c[Len(s) + i] = Cleanup(t[i])
      <3> DEFINE k == Len(s) + i
      <3>1. k \in 1..(Len(s) + Len(t)) /\ ~(k <= Len(s)) /\ k - Len(s) = i
        BY <1>2
      <3> HIDE DEF k
      <3>2. c[k] = y[i]
        BY <3>1, <1>4, <1>5
      <3> QED
        BY <3>1, <3>2, <1>16, <1>14 DEF k
    <2> QED
      BY <2>1, <2>2
  <1>8. /\ \A i \in 1..Len(s) : s[i] \in Nodes /\ Type(s[i]) = "before"
        /\ \A i \in 1..Len(t) : t[i] \in Nodes /\ Type(t[i]) = "after"
        /\ \A i, j \in 1..Len(s) : i < j => s[i] < s[j]
        /\ \A i, j \in 1..Len(t) : i < j => t[i] < t[j]
    BY <1>2 DEF Sorted, Rising, s, t
  <1>9. \A i \in DOMAIN c : c[i].node \in Nodes /\ (c[i].op = "cleanup" <=> Type(c[i].node) = "after")
    BY <1>6, <1>8 DEF Do, Cleanup
  <1>10. ASSUME NEW i \in DOMAIN c, NEW j \in DOMAIN c, i < j, c[i].op = c[j].op
         PROVE  c[i].node < c[j].node
    <2>0. i \in Int /\ j \in Int
      BY <1>5
    <2>1. CASE i \in 1..Len(s) /\ j \in 1..Len(s)
      <3>1. c[i].node = s[i] /\ c[j].node = s[j]
        BY <2>1, <1>7, <1>18
      <3> QED
        BY <2>1, <3>1, <1>8, <1>10
    <2>2. CASE i \notin 1..Len(s) /\ j \notin 1..Len(s)
      <3> DEFINE k == i - Len(s)  l == j - Len(s)
      <3>1. k \in 1..Len(t) /\ l \in 1..Len(t) /\ c[i] = Cleanup(t[k]) /\ c[j] = Cleanup(t[l])
        BY <2>2, <1>6
      <3>2. k < l
        BY <2>0, <1>2, <1>10
      <3> HIDE DEF k, l
      <3> QED
        BY <3>1, <3>2, <1>8 DEF Cleanup
    <2>3. CASE ~(i \in 1..Len(s) <=> j \in 1..Len(s))
      BY <2>3, <1>6, <1>10 DEF Do, Cleanup
    <2> QED
      BY <2>1, <2>2, <2>3
  <1>11. Told(c) \subseteq Listed(h)
    BY <1>6, <1>17 DEF Told, Do, Cleanup
  <1>12. Listed(h) \subseteq Told(c)
    <2>1. \A i \in 1..Len(s) : s[i] \in Told(c)
      BY <1>7, <1>18 DEF Told
    <2>2. \A i \in 1..Len(t) : t[i] \in Told(c)
      BY <1>7, <1>18 DEF Told
    <2> QED
      BY <2>1, <2>2, <1>17
  <1>13. CodeSorted(c)
    BY <1>9, <1>10 DEF CodeSorted
  <1> QED
    BY <1>5, <1>11, <1>12, <1>13 DEF c

LEMMA Tells ==
  ASSUME HooksTypeOK, NEW c \in Seq(Instr), CodeSorted(c),
         NEW n \in Nodes, \A m \in Told(c) : m < n,
         NEW instr \in Instr, instr.node = n, instr.op = "cleanup" <=> Type(n) = "after"
  PROVE  /\ Append(c, instr) \in Seq(Instr) /\ CodeSorted(Append(c, instr))
         /\ Told(Append(c, instr)) = Told(c) \cup {n}
  <1> DEFINE d == Append(c, instr)
  <1>1. Len(c) \in Nat /\ DOMAIN c = 1..Len(c)
    OBVIOUS
  <1>2. d \in Seq(Instr) /\ Len(d) = Len(c) + 1
    OBVIOUS
  <1>3. DOMAIN d = 1..(Len(c) + 1)
    BY <1>2
  <1>4. \A i \in 1..Len(c) : d[i] = c[i]
    OBVIOUS
  <1>5. d[Len(c) + 1] = instr
    OBVIOUS
  <1> HIDE DEF d
  <1>6. \A i \in DOMAIN d : i \in DOMAIN c \/ i = Len(c) + 1
    BY <1>1, <1>3
  <1>7. DOMAIN c \subseteq DOMAIN d /\ Len(c) + 1 \in DOMAIN d
    BY <1>1, <1>3
  <1>8. Told(d) = Told(c) \cup {n}
    BY <1>1, <1>4, <1>5, <1>6, <1>7 DEF Told
  <1>9. \A i \in DOMAIN d : d[i].node \in Nodes /\ (d[i].op = "cleanup" <=> Type(d[i].node) = "after")
    BY <1>1, <1>4, <1>5, <1>6 DEF CodeSorted
  <1>10. ASSUME NEW i \in DOMAIN d, NEW j \in DOMAIN d, i < j, d[i].op = d[j].op
         PROVE  d[i].node < d[j].node
    <2>1. i \in DOMAIN c
      BY <1>1, <1>3, <1>6, <1>10
    <2>2. CASE j \in DOMAIN c
      BY <2>1, <2>2, <1>1, <1>4, <1>10 DEF CodeSorted
    <2>3. CASE j = Len(c) + 1
      BY <2>1, <2>3, <1>1, <1>4, <1>5 DEF Told
    <2> QED
      BY <2>2, <2>3, <1>6
  <1>11. CodeSorted(d)
    BY <1>9, <1>10 DEF CodeSorted
  <1> QED
    BY <1>2, <1>8, <1>11 DEF d

(* A block that has just been reached. *)
LEMMA JustReached ==
  ASSUME HooksTypeOK, WellNested, NEW b \in Blocks
  PROVE  /\ OwnTo(b, b) = {} /\ {m \in Children(b) : m <= b} = {}
         /\ InScope(b) \subseteq HookNodes /\ OwnHooks(b) \subseteq HookNodes
         /\ BlockHasNestedBDD(b) => HasSubtests(b)
         /\ \A m \in InScope(b) : m < b
  <1>1. Nodes \subseteq Nat /\ b \in Nat
    BY NodesAreSlots
  <1>2. \A m \in Children(b) : m \in Nodes /\ b < m
    BY DEF Children, WellNested, InBlocks
  <1>3. {m \in Children(b) : m <= b} = {}
    <2> SUFFICES ASSUME NEW m \in Children(b), m <= b
                 PROVE  FALSE
      OBVIOUS
    <2>1. m \in Nat /\ b < m
      BY <1>1, <1>2
    <2> QED
      BY <1>1, <2>1
  <1> QED
    BY <1>3 DEF OwnTo, OwnHooks, InScope, BlockHasNestedBDD, HasSubtests, Subtests

LEMMA NothingYet ==
  /\ <<>> \in Seq(Instr) /\ Told(<<>>) = {} /\ CodeSorted(<<>>)
  BY DEF Told, CodeSorted

(* A body that begins with what is in scope or hands it on. *)
LEMMA BodyBegins ==
  ASSUME HooksTypeOK, WellNested, NEW b \in Blocks,
         NEW hooks \in HookList, Sorted(hooks), Listed(hooks) \subseteq InScope(b),
         NEW context \in HookList, Sorted(context), Listed(context) \subseteq InScope(b),
         Regular => Listed(hooks) = InScope(b),
         b # Root /\ Type(b) = "bdd" => BlockHasNestedBDD(b) \/ InScope(b) # {},
         NEW body, body = EmitSubtestBodyWithHooks(b, hooks, context)
  PROVE  /\ body.frame \in FrameType /\ body.begin \in Seq(Instr)
         /\ BlockOK(b, body.frame, body.begin, b)
  <1> USE JustReached, NothingYet, EmptyList
  <1>1. CASE BlockHasNestedBDD(b)
    <2>1. body.begin = <<>> /\ body.frame = [collects |-> TRUE, hooks |-> hooks, context |-> context]
      BY <1>1 DEF EmitSubtestBodyWithHooks, EmitBlockInnerWithHooks
    <2>2. body.frame \in FrameType
      BY <2>1 DEF FrameType
    <2>3. FrameOK(b, body.frame, b)
      BY <2>1, <1>1 DEF FrameOK
    <2>4. CodeOK(b, <<>>, b)
      BY DEF CodeOK
    <2>5. Regular => RegularOK(b, body.frame, <<>>, b)
      BY <2>1, <1>1 DEF RegularOK
    <2> QED
      BY <2>1, <2>2, <2>3, <2>4, <2>5 DEF BlockOK
  <1>2. CASE ~BlockHasNestedBDD(b)
    <2>1. /\ body.begin = Inlined(hooks)
          /\ body.frame = [collects |-> TRUE, hooks |-> NoHooks, context |-> context]
      BY <1>2 DEF EmitSubtestBodyWithHooks, EmitBlockInnerWithHooks
    <2> DEFINE c == Inlined(hooks)
    <2>2. c \in Seq(Instr) /\ CodeSorted(c) /\ Told(c) = Listed(hooks)
      BY Inlines
    <2> HIDE DEF c
    <2>3. body.frame \in FrameType
      BY <2>1 DEF FrameType
    <2>4. FrameOK(b, body.frame, b)
      BY <2>1, <1>2 DEF FrameOK
    <2>5. \A m \in Told(c) : m \in HookNodes /\ m < b
      BY <2>2
    <2>6. \A m \in Told(c) : m <= b
      <3>1. HookNodes \subseteq Nat /\ b \in Nat
        BY NodesAreSlots DEF HookNodes
      <3> SUFFICES ASSUME NEW m \in Told(c)
                   PROVE  m <= b
        OBVIOUS
      <3>2. m \in Nat /\ m < b
        BY <2>5, <3>1
      <3> QED
        BY <3>1, <3>2
    <2>7. CodeOK(b, c, b)
      BY <2>2, <2>5, <2>6 DEF CodeOK
    <2>8. ASSUME Regular PROVE RegularOK(b, body.frame, c, b)
      <3>1. HasSubtests(b) => InScope(b) = {}
        BY <2>8, <1>2 DEF Regular
      <3> QED
        BY <3>1, <2>1, <2>2, <2>8 DEF RegularOK
    <2> QED
      BY <2>1, <2>2, <2>3, <2>4, <2>7, <2>8 DEF BlockOK, c
  <1> QED
    BY <1>1, <1>2

LEMMA InnerBegins ==
  ASSUME HooksTypeOK, WellNested, NEW b \in Blocks, b # Root => Type(b) # "bdd",
         Regular => InScope(b) = {},
         NEW body, body = EmitBlockInner(b, NoHooks)
  PROVE  /\ body.frame \in FrameType /\ body.begin \in Seq(Instr)
         /\ BlockOK(b, body.frame, body.begin, b)
  <1> USE JustReached, NothingYet, EmptyList
  <1>1. body.begin = <<>> /\ body.frame = [collects |-> TRUE, hooks |-> NoHooks, context |-> NoHooks]
    BY DEF EmitBlockInner, EmitBlockInnerWithHooks
  <1>2. body.frame \in FrameType
    BY <1>1 DEF FrameType
  <1>3. FrameOK(b, body.frame, b)
    BY <1>1 DEF FrameOK
  <1>4. CodeOK(b, <<>>, b)
    BY DEF CodeOK
  <1>5. Regular => RegularOK(b, body.frame, <<>>, b)
    BY <1>1 DEF RegularOK
  <1> QED
    BY <1>1, <1>2, <1>3, <1>4, <1>5 DEF BlockOK

LEMMA DefaultBegins ==
  ASSUME HooksTypeOK, WellNested, NEW b \in Blocks, b # Root, Type(b) = "bdd",
         NEW context \in HookList, Sorted(context), Listed(context) \subseteq InScope(b),
         ~(BlockHasDirectLifecycleHook(b) /\ BlockHasNestedBDD(b)),
         Regular => InScope(b) = {},
         NEW f, f = EmitDefault(context)
  PROVE  f \in FrameType /\ BlockOK(b, f, <<>>, b)
  <1> USE JustReached, NothingYet, EmptyList
  <1>1. f = [collects |-> FALSE, hooks |-> NoHooks, context |-> context]
    BY DEF EmitDefault
  <1>2. f \in FrameType
    BY <1>1 DEF FrameType
  <1>3. FrameOK(b, f, b)
    BY <1>1 DEF FrameOK
  <1>4. CodeOK(b, <<>>, b)
    BY DEF CodeOK
  <1>5. Regular => RegularOK(b, f, <<>>, b)
    BY <1>1 DEF RegularOK
  <1> QED
    BY <1>2, <1>3, <1>4, <1>5 DEF BlockOK

(* Statement k + 1 of block p is emitted. *)
LEMMA NextStatement ==
  ASSUME HooksTypeOK, WellNested, NEW k \in Nat, k + 1 \in Nodes, NEW p, p = Parent(k + 1)
  PROVE  /\ p \in Blocks /\ p <= k /\ k + 1 \in Children(p)
         /\ InScope(k + 1) = InScope(p) \cup OwnTo(p, k)
         /\ OwnTo(p, k) \subseteq OwnTo(p, k + 1)
         /\ k + 1 \in HookNodes => OwnTo(p, k + 1) = OwnTo(p, k) \cup {k + 1}
         /\ k + 1 \notin HookNodes => OwnTo(p, k + 1) = OwnTo(p, k)
         /\ {m \in Children(p) : m <= k + 1} = {m \in Children(p) : m <= k} \cup {k + 1}
         /\ \A b : b # p => /\ OwnTo(b, k + 1) = OwnTo(b, k)
                            /\ {m \in Children(b) : m <= k + 1} = {m \in Children(b) : m <= k}
  <1> DEFINE n == k + 1
  <1>1. p \in Blocks /\ p < n /\ n \in Children(p)
    BY DEF WellNested, InBlocks, Children
  <1>2. Nodes \subseteq Nat /\ Blocks \subseteq Nat
    BY NodesAreSlots
  <1>3. \A m \in Nat : (m < n <=> m <= k) /\ (m <= n <=> m <= k \/ m = n)
    OBVIOUS
  <1>4. \A b : Children(b) \subseteq Nat /\ OwnHooks(b) \subseteq Nat
    BY <1>2 DEF Children, OwnHooks
  <1>5. p <= k
    BY <1>1, <1>2, <1>3
  <1>6. InScope(n) = InScope(p) \cup {m \in OwnHooks(p) : m < n}
    BY ScopeStep
  <1>7. {m \in OwnHooks(p) : m < n} = OwnTo(p, k)
    BY <1>3, <1>4 DEF OwnTo
  <1>8. \A b : n \in Children(b) => b = p
    BY DEF Children
  <1>9. \A b : OwnTo(b, n) = OwnTo(b, k) \cup (OwnHooks(b) \cap {n})
    <2> SUFFICES ASSUME NEW b
                 PROVE  OwnTo(b, n) = OwnTo(b, k) \cup (OwnHooks(b) \cap {n})
      OBVIOUS
    <2> QED
      BY <1>3, <1>4 DEF OwnTo
  <1>10. \A b : {m \in Children(b) : m <= n} = {m \in Children(b) : m <= k} \cup (Children(b) \cap {n})
    <2> SUFFICES ASSUME NEW b
                 PROVE  {m \in Children(b) : m <= n} = {m \in Children(b) : m <= k} \cup (Children(b) \cap {n})
      OBVIOUS
    <2> QED
      BY <1>3, <1>4
  <1>11. \A b : OwnHooks(b) \cap {n} = IF b = p /\ n \in HookNodes THEN {n} ELSE {}
    BY <1>1, <1>8 DEF OwnHooks
  <1> HIDE DEF n
  <1>12. InScope(n) = InScope(p) \cup OwnTo(p, k)
    BY <1>6, <1>7
  <1>13. /\ OwnTo(p, k) \subseteq OwnTo(p, n)
         /\ n \in HookNodes => OwnTo(p, n) = OwnTo(p, k) \cup {n}
         /\ n \notin HookNodes => OwnTo(p, n) = OwnTo(p, k)
    BY <1>9, <1>11
  <1>14. {m \in Children(p) : m <= n} = {m \in Children(p) : m <= k} \cup {n}
    BY <1>1, <1>10
  <1>15. ASSUME NEW b, b # p
         PROVE  /\ OwnTo(b, n) = OwnTo(b, k)
                /\ {m \in Children(b) : m <= n} = {m \in Children(b) : m <= k}
    BY <1>8, <1>9, <1>10, <1>11, <1>15
  <1> QED
    BY <1>1, <1>5, <1>12, <1>13, <1>14, <1>15 DEF n

(* Another block does not notice. *)
LEMMA Elsewhere ==
  ASSUME HooksTypeOK, WellNested, NEW k \in Nat, k + 1 \in Nodes,
         NEW b \in Blocks, b # Parent(k + 1), NEW f, NEW c, BlockOK(b, f, c, k)
  PROVE  BlockOK(b, f, c, k + 1)
  <1> DEFINE n == k + 1
  <1>1. OwnTo(b, n) = OwnTo(b, k) /\ {m \in Children(b) : m <= n} = {m \in Children(b) : m <= k}
    BY NextStatement
  <1>2. FrameOK(b, f, k) /\ CodeOK(b, c, k) /\ (Regular => RegularOK(b, f, c, k))
    BY DEF BlockOK
  <1>3. \A m \in Told(c) : m \in Nodes
    BY <1>2 DEF CodeOK, CodeSorted, Told
  <1>4. \A m \in Told(c) : m <= n
    <2> SUFFICES ASSUME NEW m \in Told(c) PROVE m <= n
      OBVIOUS
    <2>1. m <= k /\ m \in Nat
      BY <1>2, <1>3, NodesAreSlots DEF CodeOK
    <2> QED
      BY <2>1
  <1> HIDE DEF n
  <1>5. FrameOK(b, f, n)
    BY <1>1, <1>2 DEF FrameOK
  <1>6. CodeOK(b, c, n)
    BY <1>1, <1>2, <1>4 DEF CodeOK
  <1>7. Regular => RegularOK(b, f, c, n)
    BY <1>1, <1>2 DEF RegularOK
  <1> QED
    BY <1>5, <1>6, <1>7 DEF BlockOK, n

(* Its own block does it. *)
LEMMA DoneHere ==
  ASSUME HooksTypeOK, WellNested, NEW k \in Nat, k + 1 \in Nodes, NEW p, p = Parent(k + 1),
         NEW f \in FrameType, NEW c \in Seq(Instr), BlockOK(p, f, c, k),
         Type(k + 1) \in HookTypes => ~f.collects,
         NEW instr \in Instr, instr.node = k + 1, instr.op = "cleanup" <=> Type(k + 1) = "after"
  PROVE  Append(c, instr) \in Seq(Instr) /\ BlockOK(p, f, Append(c, instr), k + 1)
  <1> DEFINE n == k + 1  d == Append(c, instr)
  <1>1. /\ InScope(n) = InScope(p) \cup OwnTo(p, k)
        /\ OwnTo(p, k) \subseteq OwnTo(p, n)
        /\ n \in HookNodes => OwnTo(p, n) = OwnTo(p, k) \cup {n}
        /\ n \notin HookNodes => OwnTo(p, n) = OwnTo(p, k)
        /\ {m \in Children(p) : m <= n} = {m \in Children(p) : m <= k} \cup {n}
        /\ n \in Children(p) /\ p \in Blocks
    BY NextStatement
  <1>2. FrameOK(p, f, k) /\ CodeOK(p, c, k) /\ (Regular => RegularOK(p, f, c, k))
    BY DEF BlockOK
  <1>3. \A m \in Told(c) : m < n /\ m <= n
    <2> SUFFICES ASSUME NEW m \in Told(c) PROVE m < n /\ m <= n
      OBVIOUS
    <2>1. m <= k /\ m \in Nodes
      BY <1>2 DEF CodeOK, CodeSorted, Told
    <2>2. m \in Nat
      BY <2>1, NodesAreSlots
    <2> QED
      BY <2>1, <2>2
  <1>0. n <= n /\ n \in Nodes /\ (n \in HookNodes <=> Type(n) \in HookTypes)
    BY DEF HookNodes
  <1>4. d \in Seq(Instr) /\ CodeSorted(d) /\ Told(d) = Told(c) \cup {n}
    <2>1. CodeSorted(c) /\ instr.node = n /\ (instr.op = "cleanup" <=> Type(n) = "after")
      BY <1>2 DEF CodeOK
    <2> HIDE DEF n
    <2> QED
      BY <2>1, <1>0, <1>3, Tells
  <1>5. Type(n) \in HookTypes => ~f.collects
    OBVIOUS
  <1> HIDE DEF n, d
  <1>6. FrameOK(p, f, n)
    BY <1>1, <1>2 DEF FrameOK
  <1>7. CodeOK(p, d, n)
    <2>1. \A m \in Told(d) : m <= n
      BY <1>0, <1>3, <1>4
    <2>2. Told(d) \cap HookNodes \subseteq InScope(p) \cup OwnTo(p, n)
      BY <1>1, <1>2, <1>4 DEF CodeOK
    <2>3. Told(d) \ HookNodes = {m \in Children(p) : m <= n} \ HookNodes
      BY <1>1, <1>2, <1>4 DEF CodeOK
    <2> QED
      BY <2>1, <2>2, <2>3, <1>4 DEF CodeOK
  <1>8. ASSUME Regular PROVE RegularOK(p, f, d, n)
    <2>1. CASE HasSubtests(p)
      <3>1. Listed(f.hooks) = InScope(p) \cup OwnTo(p, k) /\ Told(c) \cap HookNodes = {}
        BY <2>1, <1>2, <1>8 DEF RegularOK
      <3>2. n \notin HookNodes
        <4> SUFFICES ASSUME n \in HookNodes PROVE FALSE
          OBVIOUS
        <4>1. p # Root /\ Type(p) = "bdd" /\ ~(BlockHasDirectLifecycleHook(p) /\ BlockHasNestedBDD(p))
          BY <1>0, <1>2, <1>5 DEF FrameOK
        <4>2. BlockHasDirectLifecycleHook(p)
          BY <1>0, <1>1 DEF BlockHasDirectLifecycleHook
        <4>3. Parent(n) = p
          BY DEF n
        <4>4. BlockHasNestedBDD(p)
          BY <1>8, <2>1, <4>1, <4>3 DEF Regular
        <4> QED
          BY <4>1, <4>2, <4>4
      <3> QED
        BY <2>1, <3>1, <3>2, <1>1, <1>4 DEF RegularOK
    <2>2. CASE ~HasSubtests(p)
      BY <2>2, <1>1, <1>2, <1>4, <1>8 DEF RegularOK
    <2> QED
      BY <2>1, <2>2
  <1> QED
    BY <1>4, <1>6, <1>7, <1>8 DEF BlockOK, n, d

(* Its own block collects it. *)
LEMMA CollectedHere ==
  ASSUME HooksTypeOK, WellNested, NEW k \in Nat, k + 1 \in HookNodes, NEW p, p = Parent(k + 1),
         NEW f \in FrameType, f.collects, NEW c \in Seq(Instr), BlockOK(p, f, c, k),
         NEW g, g = [f EXCEPT !.hooks = AddHook(f.hooks, k + 1)]
  PROVE  g \in FrameType /\ BlockOK(p, g, c, k + 1)
  <1> DEFINE n == k + 1  h == AddHook(f.hooks, n)
  <1>0. n \in Nodes /\ n \in HookNodes
    BY DEF HookNodes
  <1>1. /\ InScope(n) = InScope(p) \cup OwnTo(p, k)
        /\ OwnTo(p, k) \subseteq OwnTo(p, n)
        /\ OwnTo(p, n) = OwnTo(p, k) \cup {n}
        /\ {m \in Children(p) : m <= n} = {m \in Children(p) : m <= k} \cup {n}
        /\ n \in Children(p) /\ p \in Blocks
    BY <1>0, NextStatement
  <1>2. FrameOK(p, f, k) /\ CodeOK(p, c, k) /\ (Regular => RegularOK(p, f, c, k))
    BY DEF BlockOK
  <1>3. \A m \in Told(c) : m <= n
    <2> SUFFICES ASSUME NEW m \in Told(c) PROVE m <= n
      OBVIOUS
    <2>1. m <= k /\ m \in Nodes
      BY <1>2 DEF CodeOK, CodeSorted, Told
    <2>2. m \in Nat
      BY <2>1, NodesAreSlots
    <2> QED
      BY <2>1, <2>2
  <1>4. f.hooks \in HookList /\ f.context \in HookList
    BY DEF FrameType
  <1>5. \A m \in Listed(f.hooks) : m < n
    <2>1. Listed(f.hooks) \subseteq InScope(n)
      BY <1>1, <1>2 DEF FrameOK
    <2> QED
      BY <2>1 DEF InScope
  <1>6. h \in HookList /\ Sorted(h) /\ Listed(h) = Listed(f.hooks) \cup {n}
    <2> HIDE DEF n
    <2> QED
      BY <1>0, <1>2, <1>4, <1>5, Added DEF FrameOK
  <1>7. g = [collects |-> TRUE, hooks |-> h, context |-> f.context]
    BY DEF FrameType
  <1>8. Parent(n) = p
    OBVIOUS
  <1> HIDE DEF n, h
  <1>9. g \in FrameType
    BY <1>4, <1>6, <1>7 DEF FrameType
  <1>10. FrameOK(p, g, n)
    BY <1>1, <1>2, <1>6, <1>7 DEF FrameOK
  <1>11. CodeOK(p, c, n)
    <2>1. Told(c) \cap HookNodes \subseteq InScope(p) \cup OwnTo(p, n)
      BY <1>1, <1>2 DEF CodeOK
    <2>2. Told(c) \ HookNodes = {m \in Children(p) : m <= n} \ HookNodes
      BY <1>0, <1>1, <1>2 DEF CodeOK
    <2> QED
      BY <2>1, <2>2, <1>2, <1>3 DEF CodeOK
  <1>12. ASSUME Regular PROVE RegularOK(p, g, c, n)
    <2>1. BlockHasNestedBDD(p) => HasSubtests(p)
      BY DEF BlockHasNestedBDD, HasSubtests, Subtests
    <2>2. HasSubtests(p)
      BY <1>0, <1>2, <1>8, <1>12, <2>1 DEF Regular, FrameOK
    <2> QED
      BY <2>2, <1>1, <1>2, <1>6, <1>7, <1>12 DEF RegularOK
  <1> QED
    BY <1>9, <1>10, <1>11, <1>12 DEF BlockOK, n

(* What a block hands down to a subtest in it. *)
LEMMA HandedDown ==
  ASSUME HooksTypeOK, WellNested, NEW k \in Nat, k + 1 \in Nodes, Type(k + 1) \in Subtests,
         NEW p, p = Parent(k + 1), NEW f \in FrameType, NEW c, BlockOK(p, f, c, k)
  PROVE  /\ k + 1 \in Blocks /\ k + 1 # Root
         /\ f.hooks \in HookList /\ Sorted(f.hooks) /\ Listed(f.hooks) \subseteq InScope(k + 1)
         /\ f.context \in HookList /\ Sorted(f.context) /\ Listed(f.context) \subseteq InScope(k + 1)
         /\ Regular => Listed(f.hooks) = InScope(k + 1)
  <1>1. InScope(k + 1) = InScope(p) \cup OwnTo(p, k) /\ k + 1 \in Children(p)
    BY NextStatement
  <1>2. FrameOK(p, f, k) /\ (Regular => RegularOK(p, f, c, k))
    BY DEF BlockOK
  <1>3. HasSubtests(p)
    BY <1>1 DEF HasSubtests
  <1>4. k + 1 \in Blocks /\ k + 1 # Root
    BY DEF Blocks, Root
  <1>5. f.hooks \in HookList /\ f.context \in HookList
    BY DEF FrameType
  <1> QED
    BY <1>1, <1>2, <1>3, <1>4, <1>5 DEF FrameOK, RegularOK

-----------------------------------------------------------------------------
(* What a step of the transpiler leaves behind it. *)
Kept ==
  /\ frame' \in [Slots -> FrameType] /\ code' \in [Slots -> Seq(Instr)]
  /\ \A b \in Blocks : b <= emitted + 1 => BlockOK(b, frame'[b], code'[b], emitted + 1)

LEMMA Present ==
  ASSUME HooksInv, emitted < Len(tree), NEW n, n = emitted + 1, NEW p, p = Parent(n)
  PROVE  /\ emitted \in Nat /\ n \in Nodes /\ n \in Slots /\ p \in Slots /\ n # p /\ p \in Blocks /\ p < n
         /\ HooksTypeOK /\ WellNested
         /\ frame[p] \in FrameType /\ code[p] \in Seq(Instr)
         /\ BlockOK(p, frame[p], code[p], emitted)
         /\ \A b \in Blocks : b # p /\ b # n /\ b <= n => BlockOK(b, frame[b], code[b], n)
  <1>1. HooksTypeOK /\ WellNested
    BY DEF HooksInv
  <1>2. emitted \in Nat /\ Len(tree) \in Nat
    BY <1>1 DEF HooksTypeOK
  <1>3. n \in Nodes
    BY <1>2 DEF Nodes
  <1>4. n \in Slots /\ p \in Blocks /\ p <= emitted /\ Blocks \subseteq Slots /\ Slots \subseteq Nat
    BY <1>1, <1>2, <1>3, NodesAreSlots, NextStatement
  <1>5. n # p /\ p < n
    BY <1>2, <1>4
  <1>6. frame[p] \in FrameType /\ code[p] \in Seq(Instr)
    BY <1>1, <1>4 DEF HooksTypeOK
  <1>7. BlockOK(p, frame[p], code[p], emitted)
    BY <1>4 DEF HooksInv
  <1>8. ASSUME NEW b \in Blocks, b # p, b # n, b <= n
        PROVE  BlockOK(b, frame[b], code[b], n)
    <2>1. b <= emitted
      BY <1>2, <1>4, <1>8
    <2>2. BlockOK(b, frame[b], code[b], emitted)
      BY <2>1 DEF HooksInv
    <2> QED
      BY <2>2, <1>1, <1>2, <1>3, <1>8, Elsewhere
  <1> QED
    BY <1>1, <1>2, <1>3, <1>4, <1>5, <1>6, <1>7, <1>8

LEMMA OpensKeeps ==
  ASSUME HooksInv, emitted < Len(tree), Type(emitted + 1) \in Subtests, NEW body,
         body.frame \in FrameType, body.begin \in Seq(Instr),
         BlockOK(emitted + 1, body.frame, body.begin, emitted + 1),
         Opens(emitted + 1, body)
  PROVE  Kept
  <1> DEFINE n == emitted + 1  p == Parent(n)  f == body.frame  c == body.begin
  <1>1. /\ emitted \in Nat /\ n \in Nodes /\ n \in Slots /\ p \in Slots /\ n # p
        /\ HooksTypeOK /\ WellNested
        /\ frame[p] \in FrameType /\ code[p] \in Seq(Instr)
        /\ BlockOK(p, frame[p], code[p], emitted)
        /\ \A b \in Blocks : b # p /\ b # n /\ b <= n => BlockOK(b, frame[b], code[b], n)
    BY Present
  <1>2. frame \in [Slots -> FrameType] /\ code \in [Slots -> Seq(Instr)]
    BY <1>1 DEF HooksTypeOK
  <1>3. Do(n) \in Instr /\ Do(n).node = n /\ Do(n).op = "do" /\ Type(n) # "after" /\ Type(n) \notin HookTypes
    BY <1>1 DEF Do, Instr, Subtests, HookTypes
  <1>4. Append(code[p], Do(n)) \in Seq(Instr) /\ BlockOK(p, frame[p], Append(code[p], Do(n)), n)
    BY <1>1, <1>3, DoneHere
  <1>5. frame' = [frame EXCEPT ![n] = f] /\ code' = [code EXCEPT ![p] = Append(@, Do(n)), ![n] = c]
    BY DEF Opens
  <1>6. BlockOK(n, f, c, n) /\ f \in FrameType /\ c \in Seq(Instr)
    OBVIOUS
  <1> HIDE DEF n, p, f, c
  <1>7. /\ frame'[n] = f /\ \A b \in Slots : b # n => frame'[b] = frame[b]
        /\ frame' \in [Slots -> FrameType]
    BY <1>1, <1>2, <1>5, <1>6
  <1>8. code' = [[code EXCEPT ![p] = Append(code[p], Do(n))] EXCEPT ![n] = c]
    BY <1>1, <1>2, <1>5
  <1>9. /\ code'[n] = c /\ code'[p] = Append(code[p], Do(n))
        /\ \A b \in Slots : b # n /\ b # p => code'[b] = code[b]
        /\ code' \in [Slots -> Seq(Instr)]
    BY <1>1, <1>2, <1>4, <1>6, <1>8
  <1>10. \A b \in Blocks : b <= n => BlockOK(b, frame'[b], code'[b], n)
    <2> SUFFICES ASSUME NEW b \in Blocks, b <= n
                 PROVE  BlockOK(b, frame'[b], code'[b], n)
      OBVIOUS
    <2>1. b \in Slots
      BY <1>1, NodesAreSlots
    <2>2. CASE b = n
      BY <2>2, <1>6, <1>7, <1>9
    <2>3. CASE b = p
      BY <2>3, <1>1, <1>4, <1>7, <1>9
    <2>4. CASE b # n /\ b # p
      BY <2>1, <2>4, <1>1, <1>7, <1>9
    <2> QED
      BY <2>2, <2>3, <2>4
  <1> QED
    BY <1>7, <1>9, <1>10 DEF Kept, n

LEMMA BDDKeeps ==
  ASSUME HooksInv, emitted < Len(tree), EmitBDDBlock(emitted + 1) \/ EmitBDDBlockWithHooks(emitted + 1)
  PROVE  Kept
  <1> DEFINE n == emitted + 1  f == Above(n)
  <1>0. Type(n) = "bdd" /\ Type(n) \in Subtests
    BY DEF EmitBDDBlock, EmitBDDBlockWithHooks, Subtests
  <1>1. /\ emitted \in Nat /\ n \in Nodes /\ HooksTypeOK /\ WellNested
        /\ f \in FrameType /\ BlockOK(Parent(n), f, code[Parent(n)], emitted)
    BY Present DEF Above
  <1>2. /\ n \in Blocks /\ n # Root
        /\ f.hooks \in HookList /\ Sorted(f.hooks) /\ Listed(f.hooks) \subseteq InScope(n)
        /\ f.context \in HookList /\ Sorted(f.context) /\ Listed(f.context) \subseteq InScope(n)
        /\ Regular => Listed(f.hooks) = InScope(n)
    BY <1>0, <1>1, HandedDown
  <1>3. \A body : body.frame \in FrameType /\ body.begin \in Seq(Instr)
                    /\ BlockOK(n, body.frame, body.begin, n) /\ Opens(n, body) => Kept
    <2> SUFFICES ASSUME NEW body, body.frame \in FrameType, body.begin \in Seq(Instr),
                        BlockOK(n, body.frame, body.begin, n), Opens(n, body)
                 PROVE  Kept
      OBVIOUS
    <2> QED
      BY <1>0, OpensKeeps
  <1>4. EmitBDDBlock(n) \/ EmitBDDBlockWithHooks(n)
    OBVIOUS
  <1> HIDE DEF n, f
  <1>5. CASE EmitBDDBlockWithHooks(n)
    <2> DEFINE body == EmitSubtestBodyWithHooks(n, f.hooks, f.context)
    <2>1. f.hooks # NoHooks /\ Opens(n, body)
      BY <1>5 DEF EmitBDDBlockWithHooks, f
    <2>2. InScope(n) # {}
      BY <2>1, <1>2, EmptyList
    <2>3. body.frame \in FrameType /\ body.begin \in Seq(Instr) /\ BlockOK(n, body.frame, body.begin, n)
      BY <2>2, <1>1, <1>2, BodyBegins
    <2> HIDE DEF body
    <2> QED
      BY <2>1, <2>3, <1>3
  <1>6. CASE EmitBDDBlock(n) /\ BlockHasDirectLifecycleHook(n) /\ BlockHasNestedBDD(n)
    <2> DEFINE body == EmitSubtestBodyWithHooks(n, NoHooks, f.context)
    <2>1. f.hooks = NoHooks /\ Opens(n, body)
      BY <1>6 DEF EmitBDDBlock, f
    <2>2. body.frame \in FrameType /\ body.begin \in Seq(Instr) /\ BlockOK(n, body.frame, body.begin, n)
      BY <2>1, <1>1, <1>2, <1>6, BodyBegins
    <2> HIDE DEF body
    <2> QED
      BY <2>1, <2>2, <1>3
  <1>7. CASE EmitBDDBlock(n) /\ ~(BlockHasDirectLifecycleHook(n) /\ BlockHasNestedBDD(n))
    <2> DEFINE g == EmitDefault(f.context)  body == [begin |-> <<>>, frame |-> g]
    <2>1. f.hooks = NoHooks /\ Opens(n, body)
      BY <1>7 DEF EmitBDDBlock, f
    <2>2. g \in FrameType /\ BlockOK(n, g, <<>>, n)
      BY <2>1, <1>0, <1>1, <1>2, <1>7, DefaultBegins, EmptyList
    <2> HIDE DEF g
    <2>3. body.frame = g /\ body.begin = <<>>
      OBVIOUS
    <2> HIDE DEF body
    <2> QED
      BY <2>1, <2>2, <2>3, <1>3, NothingYet
  <1> QED
    BY <1>4, <1>5, <1>6, <1>7

LEMMA EachKeeps ==
  ASSUME HooksInv, emitted < Len(tree), EmitEach(emitted + 1)
  PROVE  Kept
  <1> DEFINE n == emitted + 1  f == Above(n)  context == EachHookContext(n)  body == EmitEachBody(n)
  <1>0. Type(n) = "each" /\ Type(n) \in Subtests /\ Opens(n, body)
    BY DEF EmitEach, Subtests
  <1>1. /\ emitted \in Nat /\ n \in Nodes /\ HooksTypeOK /\ WellNested
        /\ f \in FrameType /\ BlockOK(Parent(n), f, code[Parent(n)], emitted)
    BY Present DEF Above
  <1>2. /\ n \in Blocks /\ n # Root
        /\ f.hooks \in HookList /\ Sorted(f.hooks) /\ Listed(f.hooks) \subseteq InScope(n)
        /\ f.context \in HookList /\ Sorted(f.context) /\ Listed(f.context) \subseteq InScope(n)
        /\ Regular => Listed(f.hooks) = InScope(n)
    BY <1>0, <1>1, HandedDown
  <1>3. context = IF f.hooks # NoHooks THEN f.hooks ELSE f.context
    BY DEF EachHookContext
  <1>4. body = IF context # NoHooks THEN EmitSubtestBodyWithHooks(n, context, context)
               ELSE EmitBlockInner(n, NoHooks)
    BY DEF EmitEachBody
  <1>5. Opens(n, body) /\ body.frame \in FrameType /\ body.begin \in Seq(Instr)
          /\ BlockOK(n, body.frame, body.begin, n) => Kept
    BY <1>0, OpensKeeps
  <1> HIDE DEF n, f, context, body
  <1>6. CASE context # NoHooks
    <2>1. context \in HookList /\ Sorted(context) /\ Listed(context) \subseteq InScope(n)
      BY <1>2, <1>3
    <2>2. Regular => Listed(context) = InScope(n)
      BY <2>1, <1>2, <1>3, <1>6, EmptyList
    <2>3. body = EmitSubtestBodyWithHooks(n, context, context)
      BY <1>4, <1>6
    <2> QED
      BY <2>1, <2>2, <2>3, <1>0, <1>1, <1>2, <1>5, BodyBegins
  <1>7. CASE context = NoHooks
    <2>1. f.hooks = NoHooks
      BY <1>3, <1>7
    <2>2. body = EmitBlockInner(n, NoHooks)
      BY <1>4, <1>7
    <2> QED
      BY <2>1, <2>2, <1>0, <1>1, <1>2, <1>5, InnerBegins, EmptyList
  <1> QED
    BY <1>6, <1>7

LEMMA CollectKeeps ==
  ASSUME HooksInv, emitted < Len(tree), CollectHook(emitted + 1)
  PROVE  Kept
  <1> DEFINE n == emitted + 1  p == Parent(n)  g == [frame[p] EXCEPT !.hooks = AddHook(frame[p].hooks, n)]
  <1>1. /\ emitted \in Nat /\ n \in Nodes /\ n \in Slots /\ p \in Slots /\ n # p
        /\ HooksTypeOK /\ WellNested
        /\ frame[p] \in FrameType /\ code[p] \in Seq(Instr)
        /\ BlockOK(p, frame[p], code[p], emitted)
        /\ \A b \in Blocks : b # p /\ b # n /\ b <= n => BlockOK(b, frame[b], code[b], n)
    BY Present
  <1>2. frame \in [Slots -> FrameType] /\ code \in [Slots -> Seq(Instr)]
    BY <1>1 DEF HooksTypeOK
  <1>3. Type(n) \in HookTypes /\ frame[p].collects /\ frame' = [frame EXCEPT ![p] = g] /\ code' = code
    BY <1>1, <1>2 DEF CollectHook, Above
  <1>4. n \in HookNodes /\ n \notin Blocks
    BY <1>1, <1>3 DEF HookNodes, HookTypes, Subtests, Blocks, Root, Nodes
  <1>5. g \in FrameType /\ BlockOK(p, g, code[p], n)
    BY <1>1, <1>3, <1>4, CollectedHere
  <1> HIDE DEF n, p, g
  <1>6. /\ frame'[p] = g /\ \A b \in Slots : b # p => frame'[b] = frame[b]
        /\ frame' \in [Slots -> FrameType]
    BY <1>1, <1>2, <1>3, <1>5
  <1>7. \A b \in Blocks : b <= n => BlockOK(b, frame'[b], code'[b], n)
    <2> SUFFICES ASSUME NEW b \in Blocks, b <= n
                 PROVE  BlockOK(b, frame'[b], code'[b], n)
      OBVIOUS
    <2>1. b \in Slots /\ b # n
      BY <1>1, <1>4, NodesAreSlots
    <2>2. CASE b = p
      BY <2>2, <1>3, <1>5, <1>6
    <2>3. CASE b # p
      BY <2>1, <2>3, <1>1, <1>3, <1>6
    <2> QED
      BY <2>2, <2>3
  <1> QED
    BY <1>2, <1>3, <1>6, <1>7 DEF Kept, n

LEMMA InPlaceKeeps ==
  ASSUME HooksInv, emitted < Len(tree), EmitInPlace(emitted + 1)
  PROVE  Kept
  <1> DEFINE n == emitted + 1  p == Parent(n)  instr == IF Type(n) = "after" THEN Cleanup(n) ELSE Do(n)
  <1>1. /\ emitted \in Nat /\ n \in Nodes /\ n \in Slots /\ p \in Slots /\ n # p
        /\ HooksTypeOK /\ WellNested
        /\ frame[p] \in FrameType /\ code[p] \in Seq(Instr)
        /\ BlockOK(p, frame[p], code[p], emitted)
        /\ \A b \in Blocks : b # p /\ b # n /\ b <= n => BlockOK(b, frame[b], code[b], n)
    BY Present
  <1>2. frame \in [Slots -> FrameType] /\ code \in [Slots -> Seq(Instr)]
    BY <1>1 DEF HooksTypeOK
  <1>3. /\ Type(n) = "stmt" \/ (Type(n) \in HookTypes /\ ~frame[p].collects)
        /\ code' = [code EXCEPT ![p] = Append(code[p], instr)] /\ frame' = frame
    BY <1>1, <1>2 DEF EmitInPlace, Above
  <1>4. n \notin Blocks
    BY <1>1, <1>3 DEF HookTypes, Subtests, Blocks, Root, Nodes
  <1>5. instr \in Instr /\ instr.node = n /\ (instr.op = "cleanup" <=> Type(n) = "after")
    BY <1>1 DEF Instr, Do, Cleanup
  <1>6. Type(n) \in HookTypes => ~frame[p].collects
    BY <1>3 DEF HookTypes
  <1> HIDE DEF instr
  <1>7. Append(code[p], instr) \in Seq(Instr) /\ BlockOK(p, frame[p], Append(code[p], instr), n)
    BY <1>1, <1>5, <1>6, DoneHere
  <1> HIDE DEF n, p
  <1>8. /\ code'[p] = Append(code[p], instr) /\ \A b \in Slots : b # p => code'[b] = code[b]
        /\ code' \in [Slots -> Seq(Instr)]
    BY <1>1, <1>2, <1>3, <1>7
  <1>9. \A b \in Blocks : b <= n => BlockOK(b, frame'[b], code'[b], n)
    <2> SUFFICES ASSUME NEW b \in Blocks, b <= n
                 PROVE  BlockOK(b, frame'[b], code'[b], n)
      OBVIOUS
    <2>1. b \in Slots /\ b # n
      BY <1>1, <1>4, NodesAreSlots
    <2>2. CASE b = p
      BY <2>2, <1>3, <1>7, <1>8
    <2>3. CASE b # p
      BY <2>1, <2>3, <1>1, <1>3, <1>8
    <2> QED
      BY <2>2, <2>3
  <1> QED
    BY <1>2, <1>3, <1>8, <1>9 DEF Kept, n

(* The tree is as it was: what is said of it stays true.                   *)
LEMMA SameTree ==
  ASSUME tree' = tree, NEW b, BlockOK(b, frame'[b], code'[b], emitted')
  PROVE  BlockOK(b, frame[b], code[b], emitted)'
  <1>1. Nodes' = Nodes /\ HookNodes' = HookNodes /\ Regular' = Regular
    BY DEF HookNodes, Nodes, Type, Regular, Parent, InScope, HasSubtests, Blocks, BlockHasNestedBDD,
           Children, Around
  <1>2. InScope(b)' = InScope(b) /\ OwnHooks(b)' = OwnHooks(b) /\ Children(b)' = Children(b)
    BY DEF OwnHooks, InScope, HookNodes, Children, Around, Nodes, Type, Parent
  <1>3. /\ HasSubtests(b)' = HasSubtests(b) /\ BlockHasNestedBDD(b)' = BlockHasNestedBDD(b)
        /\ BlockHasDirectLifecycleHook(b)' = BlockHasDirectLifecycleHook(b) /\ Type(b)' = Type(b)
    BY DEF HasSubtests, BlockHasNestedBDD, BlockHasDirectLifecycleHook, Children, Nodes, Type, Parent
  <1>4. FrameOK(b, frame'[b], emitted') /\ CodeOK(b, code'[b], emitted')
          /\ (Regular => RegularOK(b, frame'[b], code'[b], emitted'))
    BY DEF BlockOK
  <1>5. /\ Sorted(frame[b].hooks)' = Sorted(frame'[b].hooks)
        /\ Sorted(frame[b].context)' = Sorted(frame'[b].context)
    BY DEF Sorted, Rising, Nodes, Type
  <1>6. /\ Listed(frame[b].hooks)' = Listed(frame'[b].hooks)
        /\ Listed(frame[b].context)' = Listed(frame'[b].context)
        /\ Told(code[b])' = Told(code'[b])
    BY DEF Listed, Told
  <1>7. OwnTo(b, emitted)' = OwnTo(b, emitted')
    BY <1>2 DEF OwnTo
  <1>8. CodeSorted(code[b])' = CodeSorted(code'[b])
    BY DEF CodeSorted, Nodes, Type
  <1>9. FrameOK(b, frame[b], emitted)'
    BY <1>2, <1>3, <1>4, <1>5, <1>6, <1>7 DEF FrameOK, NoHooks
  <1>10. CodeOK(b, code[b], emitted)'
    BY <1>1, <1>2, <1>4, <1>6, <1>7, <1>8 DEF CodeOK
  <1>11. Regular' => RegularOK(b, frame[b], code[b], emitted)'
    BY <1>1, <1>2, <1>3, <1>4, <1>6, <1>7 DEF RegularOK
  <1> QED
    BY <1>9, <1>10, <1>11 DEF BlockOK

LEMMA EmitKeeps ==
  ASSUME HooksInv, Emit
  PROVE  HooksInv'
  <1>1. emitted < Len(tree) /\ emitted' = emitted + 1 /\ tree' = tree
    BY DEF Emit
  <1>2. Kept
    BY <1>1, BDDKeeps, EachKeeps, CollectKeeps, InPlaceKeeps DEF Emit
  <1>3. HooksTypeOK /\ WellNested /\ emitted \in Nat /\ Len(tree) \in Nat
    BY DEF HooksInv, HooksTypeOK
  <1>4. HooksTypeOK'
    BY <1>1, <1>2, <1>3 DEF Kept, HooksTypeOK
  <1>5. WellNested'
    BY <1>1, <1>3 DEF WellNested, InBlocks, Nodes, Blocks, Parent, Around, Type
  <1>6. Begun'
    BY <1>1, <1>3 DEF Begun
  <1>7. Blocks' = Blocks
    BY <1>1 DEF Blocks, Nodes, Type
  <1>8. (\A b \in Blocks : b <= emitted => BlockOK(b, frame[b], code[b], emitted))'
    <2> SUFFICES ASSUME NEW b \in Blocks', b <= emitted'
                 PROVE  BlockOK(b, frame[b], code[b], emitted)'
      OBVIOUS
    <2>1. BlockOK(b, frame'[b], code'[b], emitted')
      BY <1>1, <1>2, <1>7 DEF Kept
    <2> QED
      BY <2>1, <1>1, SameTree
  <1> QED
    BY <1>4, <1>5, <1>6, <1>8 DEF HooksInv

(* Typing: only the innermost blocks are still open. *)
LEMMA TreeGrows ==
  ASSUME HooksTypeOK, WellNested, NEW k \in Nat, k = Len(tree), k < MaxNodes,
         NEW type \in AllTypes, NEW block \in OpenBlocks(k),
         tree' = Append(tree, [type |-> type, parent |-> block, around |-> Around(block) \cup {block}])
  PROVE  tree' \in Seq(NodeType) /\ Len(tree') = k + 1 /\ WellNested'
  <1> DEFINE n == k + 1  new == [type |-> type, parent |-> block, around |-> Around(block) \cup {block}]
  <1>1. tree \in Seq(NodeType) /\ MaxNodes \in Nat /\ Nodes = 1..k /\ n \in Nat
    BY HooksAssumption DEF HooksTypeOK, Nodes
  <1>2. Blocks \subseteq 0..k /\ Root \in Blocks /\ Root = 0 /\ \A b \in Blocks : b = Root \/ b \in Nodes
    BY <1>1 DEF Blocks, Root
  <1>3. \A m \in Nodes : Around(m) \subseteq Blocks /\ m # Root
    BY <1>1 DEF WellNested, InBlocks, Root
  <1>4. Around(Root) = {}
    BY DEF Around
  <1>5. k = Root \/ k \in Nodes
    BY <1>1 DEF Root
  <1>6. block \in Blocks /\ Around(block) \subseteq Blocks
    <2>1. OpenBlocks(k) \subseteq Blocks
      BY <1>2, <1>3, <1>4, <1>5 DEF OpenBlocks, Blocks
    <2> QED
      BY <2>1, <1>2, <1>3, <1>4
  <1>7. block \in Around(k) \cup {k}
    BY DEF OpenBlocks
  <1>8. new \in NodeType
    <2>1. Blocks \subseteq Slots
      BY <1>1, <1>2 DEF Slots
    <2> QED
      BY <2>1, <1>6 DEF NodeType
  <1> HIDE DEF new
  <1>9. tree' \in Seq(NodeType) /\ Len(tree') = n
    BY <1>1, <1>8 DEF new
  <1>10. tree'[n] = new /\ \A m \in 1..k : tree'[m] = tree[m]
    BY <1>1, <1>8 DEF new
  <1>11. new.type = type /\ new.parent = block /\ new.around = Around(block) \cup {block}
    BY DEF new
  <1>12. /\ Nodes' = Nodes \cup {n} /\ n \notin Nodes /\ n # Root
         /\ \A m \in Nodes : m < n /\ m <= k /\ m \in Nat
    BY <1>1, <1>9 DEF Nodes, Root
  <1> HIDE DEF n
  <1>13. \A m \in Nodes : tree'[m] = tree[m] /\ m # Root
    BY <1>1, <1>3, <1>10
  <1>14. \A m \in Nodes : Type(m)' = Type(m) /\ Parent(m)' = Parent(m) /\ Around(m)' = Around(m)
    BY <1>13 DEF Type, Parent, Around
  <1>15. Parent(n)' = block /\ Around(n)' = Around(block) \cup {block}
    BY <1>10, <1>11, <1>12 DEF Parent, Around
  <1>16. Blocks \subseteq Blocks'
    BY <1>12, <1>14 DEF Blocks
  <1>17. \A b \in Blocks : Around(b)' = Around(b) /\ b \in Nat /\ b < n
    <2>1. Around(Root)' = Around(Root)
      BY DEF Around
    <2>2. Root \in Nat /\ Root < n
      BY <1>1, <1>2 DEF n
    <2> QED
      BY <2>1, <2>2, <1>2, <1>12, <1>14
  <1>18. \A m \in Nodes : InBlocks(m)'
    <2> SUFFICES ASSUME NEW m \in Nodes
                 PROVE  InBlocks(m)'
      OBVIOUS
    <2>1. /\ Parent(m) \in Blocks /\ Parent(m) < m
          /\ Around(m) = Around(Parent(m)) \cup {Parent(m)}
          /\ \A b \in Around(m) : b \in Blocks /\ b < m /\ Around(b) \subseteq Around(m)
      BY DEF WellNested, InBlocks
    <2>2. Parent(m)' = Parent(m) /\ Around(m)' = Around(m)
      BY <1>14
    <2> QED
      BY <2>1, <2>2, <1>16, <1>17 DEF InBlocks
  <1>19. InBlocks(n)'
    <2>1. Around(block)' = Around(block) /\ block < n /\ block \in Blocks'
      BY <1>6, <1>16, <1>17
    <2>2. \A b \in Around(block) \cup {block} : Around(b) \subseteq Around(block) \cup {block}
      BY <1>2, <1>4, <1>6 DEF WellNested, InBlocks
    <2>3. \A b \in Around(n)' : b \in Blocks' /\ b < n /\ Around(b)' \subseteq Around(n)'
      BY <2>2, <1>6, <1>15, <1>16, <1>17
    <2> QED
      BY <2>1, <2>3, <1>15 DEF InBlocks
  <1>20. ASSUME NEW m \in Nodes', NEW l \in Nodes', m < l, NEW b \in Around(l)', b < m
         PROVE  b \in Around(m)'
    <2>1. m \in Nodes
      <3>1. ~(n < n) /\ \A i \in Nodes : ~(n < i)
        BY <1>1, <1>12
      <3> QED
        BY <3>1, <1>12, <1>20
    <2>2. CASE l \in Nodes
      BY <2>1, <2>2, <1>14, <1>20 DEF WellNested
    <2>3. CASE l = n
      <3>1. b \in Around(block) \cup {block} /\ b \in Nat
        BY <2>3, <1>6, <1>15, <1>17, <1>20
      <3>2. m <= k /\ k \in Nodes /\ m \in Nat
        BY <2>1, <1>1, <1>5, <1>12 DEF Root
      <3>3. Around(block) \subseteq Around(k)
        BY <3>2, <1>7 DEF WellNested, InBlocks
      <3>4. b # k
        BY <3>1, <3>2, <1>20
      <3>5. b \in Around(k)
        BY <3>1, <3>3, <3>4, <1>7
      <3>6. m = k \/ m < k
        BY <3>2
      <3>7. b \in Around(m)
        BY <3>2, <3>5, <3>6, <2>1, <1>20 DEF WellNested
      <3> QED
        BY <3>7, <2>1, <1>14
    <2> QED
      BY <2>2, <2>3, <1>12
  <1> QED
    BY <1>9, <1>12, <1>18, <1>19, <1>20 DEF WellNested, n

(* Before anything is emitted only the test's own block is reached. *)
LEMMA RootBegins ==
  ASSUME NEW f, f = EmitBlockInnerWithHooks(NoHooks, NoHooks)
  PROVE  BlockOK(Root, f, <<>>, 0)
  <1>1. f.collects /\ f.hooks = NoHooks /\ f.context = NoHooks
    BY DEF EmitBlockInnerWithHooks
  <1>2. Told(<<>>) = {} /\ CodeSorted(<<>>)
    BY DEF Told, CodeSorted
  <1>3. \A m \in Nodes : m \in Nat /\ ~(m <= 0)
    BY DEF Nodes
  <1>4. OwnTo(Root, 0) = {} /\ {m \in Children(Root) : m <= 0} = {} /\ InScope(Root) = {}
    BY <1>3 DEF OwnTo, OwnHooks, Children, InScope, Around
  <1> QED
    BY <1>1, <1>2, <1>4, EmptyList DEF BlockOK, FrameOK, CodeOK, RegularOK

LEMMA RootBeginsToo ==
  ASSUME Begun', emitted' = 0
  PROVE  BlockOK(Root, frame[Root], code[Root], emitted)'
  <1>1. /\ frame'[Root].collects /\ frame'[Root].hooks = NoHooks /\ frame'[Root].context = NoHooks
        /\ code'[Root] = <<>>
    BY DEF Begun, EmitBlockInnerWithHooks
  <1>2. Told(<<>>) = {} /\ CodeSorted(<<>>)'
    BY DEF Told, CodeSorted
  <1>3. \A m \in Nodes' : m \in Nat /\ ~(m <= 0)
    BY DEF Nodes
  <1>4. OwnTo(Root, 0)' = {} /\ {m \in Children(Root)' : m <= 0} = {} /\ InScope(Root)' = {}
    BY <1>3 DEF OwnTo, OwnHooks, Children, InScope, Around
  <1>5. Sorted(NoHooks)' /\ Listed(NoHooks) = {}
    BY EmptyList DEF Sorted, Rising, NoHooks
  <1>6. FrameOK(Root, frame[Root], emitted)'
    BY <1>1, <1>4, <1>5 DEF FrameOK
  <1>7. CodeOK(Root, code[Root], emitted)'
    BY <1>1, <1>2, <1>4 DEF CodeOK
  <1>8. RegularOK(Root, frame[Root], code[Root], emitted)'
    BY <1>1, <1>2, <1>4, <1>5 DEF RegularOK
  <1> QED
    BY <1>6, <1>7, <1>8 DEF BlockOK

LEMMA WriteKeeps ==
  ASSUME HooksInv, Write
  PROVE  HooksInv'
  <1>1. HooksTypeOK /\ WellNested /\ Begun
    BY DEF HooksInv
  <1>2. /\ emitted = 0 /\ emitted' = 0 /\ frame' = frame /\ code' = code
        /\ Len(tree) < MaxNodes /\ Len(tree) \in Nat /\ MaxNodes \in Nat
    BY <1>1, HooksAssumption DEF Write, HooksTypeOK
  <1>3. PICK type \in Types, block \in OpenBlocks(Len(tree)) :
          tree' = Append(tree, [type |-> type, parent |-> block, around |-> Around(block) \cup {block}])
    BY DEF Write
  <1>4. tree' \in Seq(NodeType) /\ Len(tree') = Len(tree) + 1 /\ WellNested'
    BY <1>1, <1>2, <1>3, TreeGrows, HooksAssumption
  <1>5. HooksTypeOK'
    BY <1>1, <1>2, <1>4 DEF HooksTypeOK
  <1>6. Begun'
    BY <1>1, <1>2 DEF Begun
  <1>7. (\A b \in Blocks : b <= emitted => BlockOK(b, frame[b], code[b], emitted))'
    <2>1. Begun' /\ emitted' = 0
      BY <1>2, <1>6
    <2> SUFFICES ASSUME NEW b \in Blocks', b <= emitted'
                 PROVE  BlockOK(b, frame[b], code[b], emitted)'
      OBVIOUS
    <2>2. b = Root
      BY <2>1 DEF Blocks, Nodes, Root
    <2>3. BlockOK(Root, frame[Root], code[Root], emitted)'
      BY <2>1, RootBeginsToo
    <2> QED
      BY <2>2, <2>3
  <1> QED
    BY <1>4, <1>5, <1>6, <1>7 DEF HooksInv

LEMMA HooksInvariant == Spec => []HooksInv
  <1>1. Init => HooksInv
    <2> SUFFICES ASSUME Init PROVE HooksInv
      OBVIOUS
    <2>1. tree = <<>> /\ Len(tree) = 0 /\ emitted = 0 /\ Nodes = {} /\ Blocks = {Root}
      BY DEF Init, Nodes, Blocks
    <2>2. HooksTypeOK
      <3>1. EmitBlockInnerWithHooks(NoHooks, NoHooks) \in FrameType
        BY EmptyList DEF EmitBlockInnerWithHooks, FrameType
      <3>2. MaxNodes \in Nat
        BY HooksAssumption
      <3> QED
        BY <2>1, <3>1, <3>2 DEF Init, HooksTypeOK
    <2>3. WellNested
      BY <2>1 DEF WellNested
    <2>4. Begun
      <3>1. Root \in Slots
        BY HooksAssumption DEF Root, Slots
      <3> QED
        BY <3>1 DEF Begun, Init
    <2>5. BlockOK(Root, frame[Root], code[Root], emitted)
      BY <2>1, <2>4, RootBegins DEF Begun
    <2> QED
      BY <2>1, <2>2, <2>3, <2>4, <2>5 DEF HooksInv
  <1>2. HooksInv /\ [Next]_vars => HooksInv'
    <2> SUFFICES ASSUME HooksInv, [Next]_vars PROVE HooksInv'
      OBVIOUS
    <2>1. CASE Write
      BY <2>1, WriteKeeps
    <2>2. CASE Emit
      BY <2>2, EmitKeeps
    <2>3. CASE UNCHANGED vars
      <3>1. tree' = tree /\ emitted' = emitted /\ frame' = frame /\ code' = code
        BY <2>3 DEF vars
      <3>2. HooksTypeOK' /\ WellNested' /\ Begun' /\ Blocks' = Blocks
        BY <3>1 DEF HooksInv, HooksTypeOK, WellNested, InBlocks, Nodes, Blocks, Parent, Around, Type, Begun
      <3>3. (\A b \in Blocks : b <= emitted => BlockOK(b, frame[b], code[b], emitted))'
        <4> SUFFICES ASSUME NEW b \in Blocks', b <= emitted'
                     PROVE  BlockOK(b, frame[b], code[b], emitted)'
          OBVIOUS
        <4>1. BlockOK(b, frame'[b], code'[b], emitted')
          BY <3>1, <3>2 DEF HooksInv
        <4> QED
          BY <4>1, <3>1, SameTree
      <3> QED
        BY <3>2, <3>3 DEF HooksInv
    <2> QED
      BY <2>1, <2>2, <2>3 DEF Next
  <1> QED
    BY <1>1, <1>2, PTL DEF Spec

-----------------------------------------------------------------------------
(* A body whose instructions are sorted runs in the order its author means. *)
LEMMA SortedRuns ==
  ASSUME NEW b, CodeSorted(code[b]), code[b] \in Seq(Instr), Nodes \subseteq Nat
  PROVE  InOrder(b)
  <1> DEFINE c == code[b]
  <1> SUFFICES ASSUME NEW i \in DOMAIN c, NEW j \in DOMAIN c
               PROVE  RunsBefore(b, i, j) <=> MeantBefore(c[i].node, c[j].node)
    BY DEF InOrder
  <1>1. i \in Nat /\ j \in Nat /\ c[i] \in Instr /\ c[j] \in Instr
    OBVIOUS
  <1>2. c[i].op \in {"do", "cleanup"} /\ c[j].op \in {"do", "cleanup"}
    BY <1>1 DEF Instr
  <1>3. /\ c[i].op = "cleanup" <=> Type(c[i].node) = "after"
        /\ c[j].op = "cleanup" <=> Type(c[j].node) = "after"
        /\ c[i].node \in Nat /\ c[j].node \in Nat
    BY DEF CodeSorted
  <1>4. c[i].op = c[j].op =>
          (i < j => c[i].node < c[j].node) /\ (j < i => c[j].node < c[i].node)
    BY DEF CodeSorted
  <1>5. c[i].op = c[j].op => (i < j <=> c[i].node < c[j].node) /\ (i > j <=> c[i].node > c[j].node)
    <2>1. i < j \/ j < i \/ i = j
      BY <1>1
    <2> QED
      BY <2>1, <1>1, <1>3, <1>4
  <1> QED
    BY <1>2, <1>3, <1>5 DEF RunsBefore, MeantBefore

LEMMA AllEmitted ==
  ASSUME HooksInv, Emitted, NEW b \in Blocks
  PROVE  /\ BlockOK(b, frame[b], code[b], emitted) /\ InOrder(b)
         /\ OwnTo(b, emitted) = OwnHooks(b) /\ {n \in Children(b) : n <= emitted} = Children(b)
         /\ Done(b) = Told(code[b])
  <1>1. HooksTypeOK /\ Slots \subseteq Nat /\ Nodes \subseteq Nat /\ b \in Slots
    BY NodesAreSlots DEF HooksInv
  <1>2. emitted = Len(tree) /\ Len(tree) \in Nat
    BY <1>1 DEF Emitted, HooksTypeOK
  <1>3. b <= emitted
    BY <1>2 DEF Blocks, Root, Nodes
  <1>4. BlockOK(b, frame[b], code[b], emitted)
    BY <1>3 DEF HooksInv
  <1>5. \A n \in Nodes : n <= emitted
    BY <1>2 DEF Nodes
  <1>6. InOrder(b)
    <2>1. CodeSorted(code[b]) /\ code[b] \in Seq(Instr)
      BY <1>1, <1>4 DEF BlockOK, CodeOK, HooksTypeOK
    <2> QED
      BY <2>1, <1>1, SortedRuns
  <1>7. OwnTo(b, emitted) = OwnHooks(b) /\ {n \in Children(b) : n <= emitted} = Children(b)
    BY <1>5 DEF OwnTo, OwnHooks, Children
  <1> QED
    BY <1>4, <1>6, <1>7 DEF Done, Told

(* For trees of any size: on the regular ones the hooks above a leaf, and  *)
(* no others, run in it, each once and in the order its author means; a    *)
(* body that has subtests runs none (emitSubtestBodyWithHooks).            *)
THEOREM HooksReach == Spec => []HooksReachLeaves
  <1>1. HooksInv => HooksReachLeaves
    <2> SUFFICES ASSUME HooksInv, Emitted, Regular, NEW b \in Blocks
                 PROVE  /\ Done(b) \cap HookNodes = IF HasSubtests(b) THEN {} ELSE InScope(b) \cup OwnHooks(b)
                        /\ InOrder(b)
      BY DEF HooksReachLeaves
    <2>1. /\ BlockOK(b, frame[b], code[b], emitted) /\ InOrder(b)
          /\ OwnTo(b, emitted) = OwnHooks(b) /\ Done(b) = Told(code[b])
      BY AllEmitted
    <2> QED
      BY <2>1 DEF BlockOK, RegularOK
  <1> QED
    BY <1>1, HooksInvariant, PTL

(* For trees of any size and shape: a body runs no hook that is out of its *)
(* scope, and of what is no hook all that stands in it, each once and in   *)
(* its place (emitBlockInnerWithHooks).                                    *)
THEOREM HooksStay == Spec => []HooksStayInScope
  <1>1. HooksInv => HooksStayInScope
    <2> SUFFICES ASSUME HooksInv, Emitted, NEW b \in Blocks
                 PROVE  /\ Done(b) \cap HookNodes \subseteq InScope(b) \cup OwnHooks(b)
                        /\ Done(b) \ HookNodes = Children(b) \ HookNodes
                        /\ InOrder(b)
      BY DEF HooksStayInScope
    <2>1. /\ BlockOK(b, frame[b], code[b], emitted) /\ InOrder(b)
          /\ OwnTo(b, emitted) = OwnHooks(b) /\ Done(b) = Told(code[b])
          /\ {n \in Children(b) : n <= emitted} = Children(b)
      BY AllEmitted
    <2> QED
      BY <2>1 DEF BlockOK, CodeOK
  <1> QED
    BY <1>1, HooksInvariant, PTL
=============================================================================
