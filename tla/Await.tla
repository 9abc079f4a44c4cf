------------------------------- MODULE Await -------------------------------
(***************************************************************************)
(* `await <-ch within d as v`: a select between a channel and a timer      *)
(* (danmujiAwait).  A goroutine of the code under test sends on the        *)
(* channel and may close it; the awaits stand in subtests, which may be    *)
(* parallel.  An await that times out ends its own subtest only.           *)
(***************************************************************************)
EXTENDS Integers, Sequences, FiniteSets

CONSTANTS
  Buffers,   \* the capacities a channel may have
  Durations, \* the timeouts an await may have
  Awaits,    \* the subtests, each with one await
  Sends      \* how many values are sent at most: 1, 2, ...

ASSUME AwaitAssumption ==
  Buffers \subseteq Nat /\ Durations \subseteq Nat /\ IsFiniteSet(Awaits) /\ Sends \in Nat

VARIABLES
  capacity, \* of the channel, -1 before it is made
  buffer,   \* the values in the channel
  offered,  \* the value of a blocked sender, <<>> if there is none
  sent,     \* how many values have been put into the channel or offered to it
  closed,   \* the channel is closed
  timer,    \* timer[w]: time until the timer of await w fires, -1 without one
  awaiting, \* awaiting[w]: "idle", "select", "bound" or "fatal"
  bound     \* the values the awaits have bound, in the order of the receives

awaitVars == <<capacity, buffer, offered, sent, closed, timer, awaiting, bound>>

Zero == 0  \* the zero value, which a closed channel yields

Waiting == \E w \in Awaits : awaiting[w] = "select"

AwaitInit ==
  /\ capacity = -1 /\ buffer = <<>> /\ offered = <<>> /\ sent = 0 /\ closed = FALSE
  /\ timer = [w \in Awaits |-> -1] /\ awaiting = [w \in Awaits |-> "idle"] /\ bound = <<>>

-----------------------------------------------------------------------------
(* The code under test.                                                    *)
Make ==
  /\ capacity = -1
  /\ capacity' \in Buffers
  /\ UNCHANGED <<buffer, offered, sent, closed, timer, awaiting, bound>>

Send ==
  /\ capacity >= 0 /\ ~closed /\ offered = <<>> /\ sent < Sends
  /\ sent' = sent + 1
  /\ IF Len(buffer) < capacity
       THEN buffer' = Append(buffer, sent') /\ UNCHANGED offered
       ELSE offered' = <<sent'>> /\ UNCHANGED buffer
  /\ UNCHANGED <<capacity, closed, timer, awaiting, bound>>

Close ==
  /\ capacity >= 0 /\ ~closed /\ offered = <<>>
  /\ closed' = TRUE
  /\ UNCHANGED <<capacity, buffer, offered, sent, timer, awaiting, bound>>

(* What a receive takes: the value longest in the channel, and that of a   *)
(* blocked sender moves up; from a closed and empty channel zero.          *)
Queue == buffer \o offered
Receive(value) ==
  \/ /\ Queue # <<>> /\ value = Head(Queue)
     /\ buffer' = Tail(Queue) /\ offered' = <<>>
  \/ /\ Queue = <<>> /\ closed /\ value = Zero
     /\ UNCHANGED <<buffer, offered>>

-----------------------------------------------------------------------------
(* Mutant: the arrow of `await <-ch` is not taken off, and the call blocks *)
(* in its argument, where no timer runs.                                   *)
EnterSelectReceiving(w) ==
  /\ awaiting[w] = "idle" /\ capacity >= 0
  /\ awaiting' = [awaiting EXCEPT ![w] = "select"]
  /\ UNCHANGED <<capacity, buffer, offered, sent, closed, timer, bound>>

(* danmujiAwait is called with the operand of `<-` for its channel (emit-  *)
(* AwaitChannel), and time.After starts the timer.                         *)
EnterSelect(w) ==
  /\ awaiting[w] = "idle" /\ capacity >= 0
  /\ \E d \in Durations : timer' = [timer EXCEPT ![w] = d]
  /\ awaiting' = [awaiting EXCEPT ![w] = "select"]
  /\ UNCHANGED <<capacity, buffer, offered, sent, closed, bound>>

(* case value := <-ch: return value.                                       *)
TakeValue(w) ==
  /\ awaiting[w] = "select"
  /\ \E value \in Zero..Sends : Receive(value) /\ bound' = Append(bound, value)
  /\ awaiting' = [awaiting EXCEPT ![w] = "bound"]
  /\ UNCHANGED <<capacity, sent, closed, timer>>

(* Mutant: the receive is left to a goroutine that goes on after the       *)
(* timeout and takes the value of the next await.                          *)
TimeOutStillReceiving(w) ==
  /\ awaiting[w] = "select" /\ timer[w] = 0
  /\ \/ \E value \in Zero..Sends : Receive(value)
     \/ UNCHANGED <<buffer, offered>>
  /\ awaiting' = [awaiting EXCEPT ![w] = "fatal"]
  /\ UNCHANGED <<capacity, sent, closed, timer, bound>>

(* case <-time.After(timeout): t.Fatalf.  With a value in the channel too  *)
(* the select takes either case.                                           *)
TimeOut(w) ==
  /\ awaiting[w] = "select" /\ timer[w] = 0
  /\ awaiting' = [awaiting EXCEPT ![w] = "fatal"]
  /\ UNCHANGED <<capacity, buffer, offered, sent, closed, timer, bound>>

(* The clock is the same for all timers.                                   *)
Wait ==
  /\ \E w \in Awaits : awaiting[w] = "select" /\ timer[w] > 0
  /\ timer' = [w \in Awaits |->
                 IF awaiting[w] = "select" /\ timer[w] > 0 THEN timer[w] - 1 ELSE timer[w]]
  /\ UNCHANGED <<capacity, buffer, offered, sent, closed, awaiting, bound>>

AwaitNext ==
  \/ Make \/ Send \/ Close \/ Wait
  \/ \E w \in Awaits : EnterSelect(w) \/ TakeValue(w) \/ TimeOut(w)

(* The clock runs and a select with a ready case goes on; nobody has to    *)
(* send.                                                                   *)
AwaitFairness ==
  /\ WF_awaitVars(Wait)
  /\ \A w \in Awaits : WF_awaitVars(TakeValue(w) \/ TimeOut(w))

AwaitSpec == AwaitInit /\ [][AwaitNext]_awaitVars /\ AwaitFairness

-----------------------------------------------------------------------------
(* danmujiAwait: an await that times out takes nothing.  The values that   *)
(* awaits have bound, followed by those still in the channel, are the      *)
(* values sent, each once and in order; zero values come only after them.  *)
AwaitsTakeInOrder ==
  LET taken == bound \o Queue
  IN /\ Len(taken) >= sent
     /\ \A i \in 1..Len(taken) : taken[i] = IF i <= sent THEN i ELSE Zero
=============================================================================
