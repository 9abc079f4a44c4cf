---------------------------- MODULE CommandRuns ----------------------------
(***************************************************************************)
(* One invocation at a time implements what Commands promises.  Its files  *)
(* are seen from outside: what a run has made for itself is nobody's until *)
(* a fault leaves it behind.                                               *)
(***************************************************************************)
EXTENDS TestRuns

Slot == CHOOSE r \in Runs : TRUE
Stray == [kind |-> "stray"]

SeenFile(b) == IF b \in owned THEN disk[b] ELSE IF b \in lost THEN Stray ELSE Missing

SeenVerdict ==
  IF Active(Slot) THEN "pending"
  ELSE IF pc[Slot] = "idle" THEN "none"
  ELSE IF exit[Slot] = 0 THEN "passed" ELSE "failed"

Seen == INSTANCE Commands WITH
  Sources <- Sources,
  Output <- [s \in Sources |-> GeneratedPathFor(s)],
  Generated <- [s \in Sources |-> {Code(s, t) : t \in Texts \ Broken}],
  Foreign <- Foreign,
  Partial <- Partial,
  Absent <- Missing,
  Stray <- Stray,
  file <- [b \in Bases |-> SeenFile(b)],
  command <- IF Active(Slot) THEN kind[Slot] ELSE "none",
  asked <- IF Active(Slot) THEN collected[Slot] ELSE {},
  verdict <- SeenVerdict

(* `danmuji test`, `build` and `check`, one at a time: whatever they read, *)
(* write, remove and fail at, seen from outside they take only the steps   *)
(* Commands allows: wanted files are kept, rewritten only with the code of *)
(* a file that was asked for, and complete when the command succeeds.      *)
ImplementsCommands == Seen!Spec

(* Why it does: the file a run is writing is cut short and no other file   *)
(* it has written is, the text it writes transpiles, and a run that has    *)
(* not failed has written all it has visited.                              *)
CodesOf(b) ==
  {Code(s, t) : s \in {u \in collected[Slot] : GeneratedPathFor(u) = b}, t \in Texts \ Broken}
Writing(b) == pc[Slot] = "write" /\ \E s \in Sources : IsNext(Slot, s) /\ GeneratedPathFor(s) = b

DeliverInv ==
  Active(Slot) =>
    /\ pc[Slot] \in {"open", "write"} => text[Slot] \in Texts \ Broken
    /\ \A b \in Bases : Writing(b) => disk[b] = Partial
    /\ pc[Slot] \in {"read", "open", "write", "go_test"} /\ kind[Slot] # "check" /\ ~failed[Slot] =>
         /\ \A s \in collected[Slot] \ todo[Slot] : \E w \in generated[Slot] : w[1] = s
         /\ \A w \in generated[Slot] :
              \/ Writing(GeneratedPathFor(w[1]))
              \/ disk[GeneratedPathFor(w[1])] \in CodesOf(GeneratedPathFor(w[1]))
    /\ pc[Slot] = "go_test" => ~failed[Slot] /\ todo[Slot] = {}
    /\ pc[Slot] = "cleanup" /\ exit[Slot] = 0 =>
         \A s \in collected[Slot] : GeneratedPathFor(s) \in owned =>
           disk[GeneratedPathFor(s)] \in CodesOf(GeneratedPathFor(s))
=============================================================================
