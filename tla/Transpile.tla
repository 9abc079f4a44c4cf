----------------------------- MODULE Transpile -----------------------------
(***************************************************************************)
(* TranspileDanmuji (transpile_core.go) after parsing: the first pass      *)
(* collects package-level declarations and reports what it can reject, the *)
(* second walks the tree and emits Go, with a handful of flags that tell   *)
(* emit in which blocks it is, saved and restored along the way.  The      *)
(* state is one syntax tree, as its author types it, and one transpiler.   *)
(***************************************************************************)
EXTENDS Naturals, Sequences

CONSTANTS
  Types,      \* the statements an author writes
  MaxNodes    \* bound on the size of the tree

(* "go" is a Go declaration or statement with a block, or a block of the   *)
(* language that emits its statements as they are (before all, snapshot);  *)
(* "then" is given, when or then, "eventually" consistently too, "setup" a *)
(* measure too, "expect" a comparison, "bare" a condition of another form, *)
(* "clause" args, env or ready, "flaw" what the first pass rejects.        *)
Tops == {"test", "benchmark", "fuzz", "load", "go"}
Blocks == Tops \cup {"then", "exec", "eventually", "property", "profile", "process", "stop", "setup"}
Expects == {"expect", "bare"}
Leaves == Expects \cup {"return", "run", "clause", "mock", "flaw"}

ASSUME TranspileAssumption ==
  /\ Types \subseteq Blocks \cup Leaves
  /\ MaxNodes \in Nat

Nodes == 1..MaxNodes
Root == 0
PollingHelpers == MaxNodes + 1
SyncBuffer == MaxNodes + 2
Helpers == {PollingHelpers, SyncBuffer}

VARIABLES
  source,     \* the tree in source order: [type, parent, above], above the blocks around
  phase,      \* "edit", "collect", "emit", "accepted", "rejected"
  mockDecls,  \* declarations collected and not yet written
  written,    \* how often a declaration has been written
  errors,     \* the nodes semanticErrors are about
  at,         \* the block emit is in
  seen,       \* the nodes emit has been given
  flags,      \* inExecBlock, inPollingBlock, inPropertyBlock and testVar
  saved,      \* saved[n]: the flags when emit entered block n
  out         \* out[n]: what expect n has become: [form, var]

vars == <<source, phase, mockDecls, written, errors, at, seen, flags, saved, out>>

There == DOMAIN source
Type(n) == IF n = Root THEN "file" ELSE source[n].type
Parent(n) == source[n].parent
Above(n) == source[n].above

NoFlags == [exec |-> FALSE, polling |-> FALSE, property |-> FALSE, testVar |-> "t"]
Flags == [exec : BOOLEAN, polling : BOOLEAN, property : BOOLEAN, testVar : {"t", "b"}]
Nothing == [form |-> "none", var |-> "none"]

Init ==
  /\ source = <<>>
  /\ phase = "edit"
  /\ mockDecls = {}
  /\ written = [d \in Nodes \cup Helpers |-> 0]
  /\ errors = {}
  /\ at = Root
  /\ seen = {}
  /\ flags = NoFlags
  /\ saved = [n \in Nodes |-> NoFlags]
  /\ out = [n \in Nodes |-> Nothing]

-----------------------------------------------------------------------------
(* The author adds a statement to a block that is still open.              *)
Write ==
  /\ phase = "edit" /\ Len(source) < MaxNodes
  /\ \E type \in Types, block \in {Root} \cup There :
       LET last == Len(source)
           open == IF last = 0 THEN {Root}
                   ELSE {Root} \cup Above(last) \cup (IF Type(last) \in Blocks THEN {last} ELSE {})
       IN /\ block \in open
          /\ IF block = Root THEN type \in Tops ELSE type \notin {"test", "benchmark", "load"}
          /\ source' = Append(source,
               [type |-> type, parent |-> block,
                above |-> IF block = Root THEN {} ELSE Above(block) \cup {block}])
  /\ UNCHANGED <<phase, mockDecls, written, errors, at, seen, flags, saved, out>>

Parse ==
  /\ phase = "edit"
  /\ phase' = "collect"
  /\ UNCHANGED <<source, mockDecls, written, errors, at, seen, flags, saved, out>>

(* The declarations of a file, helpers among them, each of them once.      *)
Declarations ==
  {n \in There : Type(n) = "mock"}
    \cup {h \in Helpers : \E n \in There :
            \/ h = PollingHelpers /\ Type(n) \in {"eventually", "property"}
            \/ h = SyncBuffer /\ Type(n) = "process"}

(* collectTopLevel visits every node, and the build stops here if it, or   *)
(* validateFactoryUsage, has reported one.                                 *)
Collect ==
  /\ phase = "collect"
  /\ mockDecls' = Declarations
  /\ errors' = {n \in There : Type(n) = "flaw"}
  /\ phase' = IF errors' = {} THEN "emit" ELSE "rejected"
  /\ UNCHANGED <<source, written, at, seen, flags, saved, out>>

-----------------------------------------------------------------------------
(* What an emitter that reads its children by hand hands on to emit: the   *)
(* rest of them is read, or passed over.                                   *)
BenchmarkEmits(type) == type \in {"setup", "then"}
LoadEmits(type) == type = "then"
StopEmits(type) == type \in Expects
ExecEmits(type) == type # "run"
ProcessEmits(type) == FALSE
ProfileEmits(type) == FALSE

Emits(block, type) ==
  /\ block = "benchmark" => BenchmarkEmits(type)
  /\ block = "load" => LoadEmits(type)
  /\ block = "stop" => StopEmits(type)
  /\ block = "exec" => ExecEmits(type)
  /\ block = "process" => ProcessEmits(type)
  /\ block = "profile" => ProfileEmits(type)

(* The child that the emitter of the block it is in turns to next.         *)
Left == {n \in There : Parent(n) = at /\ n \notin seen /\ Emits(Type(at), Type(n))}
IsNext(n) == n \in Left /\ \A m \in Left : n <= m

(* rejectMisplacedNode: constructs that only their own block may hold.     *)
Misplaced(n) ==
  \/ Type(n) = "setup" /\ Type(Parent(n)) # "benchmark"
  \/ Type(n) \in {"run", "clause"}

(* propertyBodyCanFail looks at the statements of the body itself.         *)
PropertyBodyCanFail(n) == \E m \in There : Parent(m) = n /\ Type(m) \in Expects \cup {"return"}

Rejects(n) == Misplaced(n) \/ (Type(n) = "property" /\ ~PropertyBodyCanFail(n))

EmitRejected(n) ==
  /\ phase = "emit" /\ IsNext(n) /\ Rejects(n)
  /\ errors' = errors \cup {n}
  /\ seen' = seen \cup {n}
  /\ UNCHANGED <<source, phase, mockDecls, written, at, flags, saved, out>>

(* A mock is in the package already: emit leaves a blank.  A return is     *)
(* copied.                                                                 *)
EmitBlank(n) ==
  /\ phase = "emit" /\ IsNext(n) /\ Type(n) \in {"mock", "return"}
  /\ seen' = seen \cup {n}
  /\ UNCHANGED <<source, phase, mockDecls, written, errors, at, flags, saved, out>>

(* The flags in a block, from those around it.                             *)
Raised(type, f) ==
  CASE type \in {"exec", "stop"} -> [f EXCEPT !.exec = TRUE]
    [] type = "eventually" -> [f EXCEPT !.polling = TRUE]
    [] type = "property" -> [f EXCEPT !.property = TRUE]
    [] type = "benchmark" -> [f EXCEPT !.testVar = "b"]
    [] type = "fuzz" -> [f EXCEPT !.testVar = "t"]
    [] OTHER -> f

(* test, benchmark and fuzz write the declarations before their function   *)
(* and clear the list.                                                     *)
Flushes(n) == Type(n) \in {"test", "benchmark", "fuzz"}

(* Mutant: the list is not cleared. *)
EnterBlockKeeping(n) ==
  /\ phase = "emit" /\ IsNext(n) /\ Type(n) \in Blocks /\ ~Rejects(n)
  /\ at' = n
  /\ seen' = seen \cup {n}
  /\ saved' = [saved EXCEPT ![n] = flags]
  /\ flags' = Raised(Type(n), flags)
  /\ written' = [d \in DOMAIN written |-> written[d] + IF Flushes(n) /\ d \in mockDecls THEN 1 ELSE 0]
  /\ UNCHANGED <<source, phase, mockDecls, errors, out>>

EnterBlock(n) ==
  /\ phase = "emit" /\ IsNext(n) /\ Type(n) \in Blocks /\ ~Rejects(n)
  /\ at' = n
  /\ seen' = seen \cup {n}
  /\ saved' = [saved EXCEPT ![n] = flags]
  /\ flags' = Raised(Type(n), flags)
  /\ written' = [d \in DOMAIN written |-> written[d] + IF Flushes(n) /\ d \in mockDecls THEN 1 ELSE 0]
  /\ mockDecls' = IF Flushes(n) THEN {} ELSE mockDecls
  /\ UNCHANGED <<source, phase, errors, out>>

(* Mutant: the end of an exec block clears its flag. *)
RestoredToFalse(type, f, old) ==
  CASE type \in {"exec", "stop"} -> [f EXCEPT !.exec = FALSE]
    [] type = "eventually" -> [f EXCEPT !.polling = old.polling]
    [] type = "property" -> [f EXCEPT !.property = old.property]
    [] type \in {"benchmark", "fuzz"} -> [f EXCEPT !.testVar = old.testVar]
    [] OTHER -> f

(* What each emitter puts back when it returns.                            *)
Restored(type, f, old) ==
  CASE type \in {"exec", "stop"} -> [f EXCEPT !.exec = old.exec]
    [] type = "eventually" -> [f EXCEPT !.polling = old.polling]
    [] type = "property" -> [f EXCEPT !.property = old.property]
    [] type \in {"benchmark", "fuzz"} -> [f EXCEPT !.testVar = old.testVar]
    [] OTHER -> f

LeaveBlock ==
  /\ phase = "emit" /\ at # Root /\ Left = {}
  /\ at' = Parent(at)
  /\ flags' = Restored(Type(at), flags, saved[at])
  /\ UNCHANGED <<source, phase, mockDecls, written, errors, seen, saved, out>>

(* Mutant: a property's statements are emitted like a test's.              *)
EmitExpectUnlessPolled(f) == IF f.polling THEN "condition" ELSE "assertion"

(* An expect, or a reject: an assertion that names the test's handle, or a *)
(* condition; in an exec block that is polled, any condition that is not a *)
(* comparison and not about the command is the constant false.             *)
EmitExpect(f) == IF f.polling \/ f.property THEN "condition" ELSE "assertion"
EmitExecExpectCondition(type) == IF type = "expect" THEN "condition" ELSE "constant"

EmitExecExpect(type, f) ==
  IF f.polling THEN EmitExecExpectCondition(type)
  ELSE IF type = "expect" THEN "assertion" ELSE EmitExpect(f)

EmitStatement(n) ==
  /\ phase = "emit" /\ IsNext(n) /\ Type(n) \in Expects
  /\ seen' = seen \cup {n}
  /\ out' = [out EXCEPT ![n] =
       [form |-> IF flags.exec THEN EmitExecExpect(Type(n), flags) ELSE EmitExpect(flags),
        var |-> flags.testVar]]
  /\ UNCHANGED <<source, phase, mockDecls, written, errors, at, flags, saved>>

(* Errors of the second pass, or a function inside a function, which       *)
(* format.Source does not take, end the build.                             *)
NestedFunction == \E n \in seen : Type(n) = "fuzz" /\ Parent(n) # Root

Finish ==
  /\ phase = "emit" /\ at = Root /\ Left = {}
  /\ phase' = IF errors = {} /\ ~NestedFunction THEN "accepted" ELSE "rejected"
  /\ UNCHANGED <<source, mockDecls, written, errors, at, seen, flags, saved, out>>

EmitStep(n) == EmitRejected(n) \/ EmitBlank(n) \/ EnterBlock(n) \/ EmitStatement(n)

Next ==
  \/ Write \/ Parse \/ Collect
  \/ \E n \in Nodes : EmitStep(n)
  \/ LeaveBlock \/ Finish

Spec == Init /\ [][Next]_vars

-----------------------------------------------------------------------------
Forms == {"none", "assertion", "condition", "constant"}

TypeOK ==
  /\ source \in Seq([type : Blocks \cup Leaves, parent : {Root} \cup Nodes, above : SUBSET Nodes])
  /\ There \subseteq Nodes
  /\ phase \in {"edit", "collect", "emit", "accepted", "rejected"}
  /\ mockDecls \in SUBSET (Nodes \cup Helpers)
  /\ written \in [Nodes \cup Helpers -> Nat]
  /\ errors \in SUBSET Nodes
  /\ at \in {Root} \cup Nodes
  /\ seen \in SUBSET Nodes
  /\ flags \in Flags
  /\ saved \in [Nodes -> Flags]
  /\ out \in [Nodes -> [form : Forms, var : {"t", "b", "none"}]]

(* Which flags the blocks around a place ask for.                          *)
Dictated(around) ==
  [exec |-> \E m \in around : Type(m) \in {"exec", "stop"},
   polling |-> \E m \in around : Type(m) = "eventually",
   property |-> \E m \in around : Type(m) = "property",
   testVar |-> IF (\E m \in around : Type(m) = "benchmark") /\ ~(\E m \in around : Type(m) = "fuzz")
                 THEN "b" ELSE "t"]

Around(n) == IF n = Root THEN {} ELSE Above(n) \cup {n}

(* Wherever emit is, the flags say exactly which blocks enclose the place, *)
(* through any nesting: each emitter puts back what it has found           *)
(* (transpile_exec.go:55-57, transpile_assertions.go:487-490, 558-561,     *)
(* transpile_blocks.go:15-17).                                             *)
FlagsMatchBlocks == phase = "emit" => flags = Dictated(Around(at))

(* A statement that its block hands on to emit, as all around it do.       *)
WellPlaced(n) ==
  \A m \in Around(n) :
    LET type == Type(m)
        block == Type(Parent(m))
    IN /\ block \notin {"profile", "process"}
       /\ block = "benchmark" => type \in {"setup", "then"}
       /\ block = "load" => type = "then"
       /\ block = "stop" => type \in Expects

Polled(n) == \E m \in Above(n) : Type(m) \in {"eventually", "property"}
InExec(n) == \E m \in Above(n) : Type(m) = "exec"
Handle(n) == IF \E m \in Above(n) : Type(m) = "benchmark" THEN "b" ELSE "t"

(* When the build goes through, every expectation in a place that is       *)
(* walked counts: it is an assertion on the handle of its own function,    *)
(* or, directly in an eventually, consistently or property block, the      *)
(* condition it states (transpile_core.go:285-297).                        *)
ExpectationsCount ==
  phase = "accepted" =>
    \A n \in There : Type(n) \in Expects /\ WellPlaced(n) =>
      /\ ~Polled(n) => out[n] = [form |-> "assertion", var |-> Handle(n)]
      /\ Type(Parent(n)) \in {"eventually", "property"} /\ ~InExec(n) => out[n].form = "condition"

(* Every mock and every helper the tests use is in the generated file, and *)
(* once: a second copy does not compile (transpile_core.go:732-739).       *)
DeclarationsOnce ==
  phase = "accepted" /\ (\E n \in There : Flushes(n) /\ Parent(n) = Root) =>
    \A d \in Declarations : written[d] = 1

=============================================================================
