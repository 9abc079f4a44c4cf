-------------------------- MODULE MC_ProcessBlock --------------------------
(* Instances of ProcessBlock for TLC. *)
EXTENDS ProcessBlock

Plan(ready, stop, build) == [ready |-> ready, stop |-> stop, build |-> build]

AnyPlan == [ready : Modes, stop : BOOLEAN, build : BOOLEAN]

\* Each mode once, and stop and build with some of them.
SomePlans ==
  {Plan("none", FALSE, FALSE), Plan("tcp", TRUE, FALSE), Plan("http", FALSE, TRUE),
   Plan("stdout", TRUE, FALSE), Plan("delay", TRUE, TRUE)}
=============================================================================
