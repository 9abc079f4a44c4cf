------------------------------ MODULE TestRuns ------------------------------
(***************************************************************************)
(* The commands of cmd/danmuji that walk a tree of .dmj files: `danmuji    *)
(* test`, `danmuji build` and `danmuji check`.  Several invocations may be *)
(* active at once (two terminals, or two goroutines of `danmuji test       *)
(* --watch`); they share nothing but the disk, and every step below is one *)
(* access to it.                                                           *)
(***************************************************************************)
EXTENDS Naturals, FiniteSets

CONSTANTS
  Sources,    \* the .dmj paths: records [base, test], test for ..._test.dmj
  Rank,       \* position of a path in the order of sort.Strings
  Texts,      \* what a .dmj file can contain
  Broken,     \* the texts TranspileDanmuji rejects
  Tagged,     \* those whose code has a //go:build line the flags do not satisfy
  Unlisted,   \* outputs in directories that `go test ./...` does not enter
  Runs,       \* invocations of the command (slots, used again and again)
  Kinds,      \* the commands the model starts
  MaxActive,  \* how many invocations may overlap
  Faults,     \* what the environment does: subset of "write", "remove", "interrupt"
  NoText      \* the text of a .dmj file that does not exist

Bases == {s.base : s \in Sources}

ASSUME RunsAssumption ==
  /\ \A s \in Sources : s = [base |-> s.base, test |-> s.test] /\ s.test \in BOOLEAN
  /\ Rank \in [Sources -> Nat]
  /\ \A s, u \in Sources : Rank[s] = Rank[u] => s = u
  /\ Broken \subseteq Texts
  /\ Tagged \subseteq Texts
  /\ Unlisted \subseteq Bases
  /\ NoText \notin Texts
  /\ Kinds \subseteq {"test", "build", "check"}
  /\ MaxActive \in Nat \ {0}
  /\ Faults \subseteq {"write", "remove", "interrupt"}
  /\ IsFiniteSet(Runs)

VARIABLES
  source,     \* source[s]: the text of .dmj file s
  disk,       \* disk[b]: the content of <b>_danmuji_test.go
  owned,      \* outputs somebody wants on disk (committed, or made by build)
  lost,       \* outputs a fault left behind (history of the faults)
  pc, kind,   \* the run's program counter and command
  isDir,      \* the path of its command line is a directory
  collected,  \* the .dmj files the run works on
  todo,       \* those of them the current loop has still to visit
  pre,        \* preExisting of runTest
  text,       \* the text the run has read for the file it is at
  generated,  \* the files it has written: pairs <<source, text>>
  failed,     \* some file has failed to transpile
  exit,       \* exit code
  saw         \* the members of generated that go test has compiled (history)

runVars == <<pc, kind, isDir, collected, todo, pre, text, generated, failed, exit, saw>>
fileVars == <<source, disk, owned, lost>>
vars == <<fileVars, runVars>>

-----------------------------------------------------------------------------
(* generatedPathFor, and the naming code of transpileFile it mirrors:      *)
(* foo.dmj and foo_test.dmj both become foo_danmuji_test.go.               *)
GeneratedPathFor(s) == s.base

(* What an output can contain.  "partial" is a file WriteFile has          *)
(* truncated but not filled, "foreign" one no run of the model has made.   *)
Missing == [kind |-> "missing"]
Foreign == [kind |-> "foreign"]
Partial == [kind |-> "partial"]
Code(s, t) == [kind |-> "code", source |-> s, text |-> t]
Contents == {Missing, Foreign, Partial} \cup {Code(s, t) : s \in Sources, t \in Texts}

Present == {b \in Bases : disk[b] # Missing}

Pcs == {"idle", "stat", "read", "open", "write", "go_test", "cleanup", "done"}
Active(r) == pc[r] \notin {"idle", "done"}
Quiet == \A r \in Runs : ~Active(r)
Exists(s) == source[s] # NoText

(* s is the file the run's loop is at: the loops go through the sorted list. *)
IsNext(r, s) == s \in todo[r] /\ \A u \in todo[r] : Rank[s] <= Rank[u]

Skip(r, s) == todo' = [todo EXCEPT ![r] = @ \ {s}]
Goto(r, label) == pc' = [pc EXCEPT ![r] = label]
Finish(r, code) == Goto(r, "done") /\ exit' = [exit EXCEPT ![r] = code]

Init ==
  /\ source \in [Sources -> Texts \cup {NoText}]
  /\ owned \in SUBSET Bases
  /\ disk = [b \in Bases |-> IF b \in owned THEN Foreign ELSE Missing]
  /\ lost = {}
  /\ pc = [r \in Runs |-> "idle"]
  /\ kind = [r \in Runs |-> "test"]
  /\ isDir = [r \in Runs |-> TRUE]
  /\ collected = [r \in Runs |-> {}]
  /\ todo = [r \in Runs |-> {}]
  /\ pre = [r \in Runs |-> {}]
  /\ text = [r \in Runs |-> NoText]
  /\ generated = [r \in Runs |-> {}]
  /\ failed = [r \in Runs |-> FALSE]
  /\ exit = [r \in Runs |-> 0]
  /\ saw = [r \in Runs |-> {}]

-----------------------------------------------------------------------------
(* An invocation that works on these files; with none of them, test and    *)
(* check end with exit code 1 and build with 0.                            *)
StartOn(r, k, dir, files) ==
  /\ ~Active(r)
  /\ Cardinality({q \in Runs : Active(q)}) < MaxActive
  /\ collected' = [collected EXCEPT ![r] = files]
  /\ todo' = [todo EXCEPT ![r] = files]
  /\ IF files = {}
       THEN Finish(r, IF k = "build" THEN 0 ELSE 1)
       ELSE /\ Goto(r, IF k = "test" THEN "stat" ELSE "read")
            /\ exit' = [exit EXCEPT ![r] = 0]
  /\ kind' = [kind EXCEPT ![r] = k]
  /\ isDir' = [isDir EXCEPT ![r] = dir]
  /\ pre' = [pre EXCEPT ![r] = {}]
  /\ text' = [text EXCEPT ![r] = NoText]
  /\ generated' = [generated EXCEPT ![r] = {}]
  /\ failed' = [failed EXCEPT ![r] = FALSE]
  /\ saw' = [saw EXCEPT ![r] = {}]
  /\ UNCHANGED fileVars

(* The command line names a directory, whose .dmj files the walk collects, *)
(* or one file, which must exist.                                          *)
Tree == {s \in Sources : Exists(s)}

Start(r, k) ==
  \/ StartOn(r, k, TRUE, Tree)
  \/ \E s \in Tree : StartOn(r, k, FALSE, {s})

(* One turn of the loop that records which outputs exist already. *)
StatOutput(r) ==
  /\ pc[r] = "stat"
  /\ \E s \in Sources :
       /\ IsNext(r, s)
       /\ Skip(r, s)
       /\ pre' = [pre EXCEPT ![r] = @ \cup ({GeneratedPathFor(s)} \cap Present)]
  /\ UNCHANGED <<fileVars, pc, kind, isDir, collected, text, generated, failed, exit, saw>>

EndStat(r) ==
  /\ pc[r] = "stat" /\ todo[r] = {}
  /\ todo' = [todo EXCEPT ![r] = collected[r]]
  /\ Goto(r, "read")
  /\ UNCHANGED <<fileVars, kind, isDir, collected, pre, text, generated, failed, exit, saw>>

(* transpileFile (checkFile for check): read and transpile.  A file that   *)
(* cannot be read or does not transpile is noted and the loop goes on.     *)
ReadSource(r) ==
  /\ pc[r] = "read"
  /\ \E s \in Sources :
       /\ IsNext(r, s)
       /\ \/ /\ ~Exists(s) \/ source[s] \in Broken
             /\ failed' = [failed EXCEPT ![r] = TRUE]
             /\ Skip(r, s)
             /\ UNCHANGED <<pc, text>>
          \/ /\ Exists(s) /\ source[s] \notin Broken
             /\ kind[r] = "check"
             /\ Skip(r, s)
             /\ UNCHANGED <<failed, pc, text>>
          \/ /\ Exists(s) /\ source[s] \notin Broken
             /\ kind[r] # "check"
             /\ text' = [text EXCEPT ![r] = source[s]]
             /\ Goto(r, "open")
             /\ UNCHANGED <<failed, todo>>
  /\ UNCHANGED <<fileVars, kind, isDir, collected, pre, generated, exit, saw>>

(* os.WriteFile first creates or truncates the output ... *)
OpenOutput(r) ==
  /\ pc[r] = "open"
  /\ \E s \in Sources :
       /\ IsNext(r, s)
       /\ disk' = [disk EXCEPT ![GeneratedPathFor(s)] = Partial]
  /\ Goto(r, "write")
  /\ UNCHANGED <<source, owned, lost, kind, isDir, collected, todo, pre, text, generated,
                 failed, exit, saw>>

(* ... and then fills it. What build writes is there to stay. *)
WriteOutput(r) ==
  /\ pc[r] = "write"
  /\ \E s \in Sources :
       LET out == GeneratedPathFor(s) IN
       /\ IsNext(r, s)
       /\ disk' = [disk EXCEPT ![out] = Code(s, text[r])]
       /\ generated' = [generated EXCEPT ![r] = @ \cup {<<s, text[r]>>}]
       /\ Skip(r, s)
       /\ IF kind[r] = "build"
            THEN owned' = owned \cup {out} /\ lost' = lost \ {out}
            ELSE UNCHANGED <<owned, lost>>
  /\ text' = [text EXCEPT ![r] = NoText]
  /\ Goto(r, "read")
  /\ UNCHANGED <<source, kind, isDir, collected, pre, failed, exit, saw>>

(* Mutant: the first failure ends the loop, and the list of what has been  *)
(* written is lost with it.                                                *)
WriteFailsEarly(r) ==
  /\ "write" \in Faults
  /\ pc[r] \in {"open", "write"}
  /\ lost' = IF pc[r] = "write"
               THEN lost \cup ({GeneratedPathFor(s) : s \in {u \in Sources : IsNext(r, u)}} \ owned)
               ELSE lost
  /\ todo' = [todo EXCEPT ![r] = {}]
  /\ generated' = [generated EXCEPT ![r] = {}]
  /\ failed' = [failed EXCEPT ![r] = TRUE]
  /\ text' = [text EXCEPT ![r] = NoText]
  /\ Goto(r, "read")
  /\ UNCHANGED <<source, disk, owned, kind, isDir, collected, pre, exit, saw>>

(* Mutant: the error of WriteFile is dropped. *)
WriteFailsSilently(r) ==
  /\ "write" \in Faults
  /\ pc[r] \in {"open", "write"}
  /\ \E s \in Sources :
       /\ IsNext(r, s)
       /\ Skip(r, s)
       /\ lost' = IF pc[r] = "write" THEN lost \cup ({GeneratedPathFor(s)} \ owned) ELSE lost
  /\ text' = [text EXCEPT ![r] = NoText]
  /\ Goto(r, "read")
  /\ UNCHANGED <<source, disk, owned, kind, isDir, collected, pre, generated, failed, exit, saw>>

(* Opening or writing fails: transpileFile returns no path, so the output, *)
(* if it was opened, is not among the files to clean up.                   *)
WriteFails(r) ==
  /\ "write" \in Faults
  /\ pc[r] \in {"open", "write"}
  /\ \E s \in Sources :
       LET out == GeneratedPathFor(s) IN
       /\ IsNext(r, s)
       /\ Skip(r, s)
       /\ lost' = IF pc[r] = "write" THEN lost \cup ({out} \ owned) ELSE lost
  /\ text' = [text EXCEPT ![r] = NoText]
  /\ failed' = [failed EXCEPT ![r] = TRUE]
  /\ Goto(r, "read")
  /\ UNCHANGED <<source, disk, owned, kind, isDir, collected, pre, generated, exit, saw>>

(* Mutant: with a failure the command returns at once, without cleanupNew. *)
EndTranspileAtOnce(r) ==
  /\ pc[r] = "read" /\ todo[r] = {}
  /\ IF kind[r] # "test" \/ failed[r]
       THEN Finish(r, IF failed[r] THEN 1 ELSE 0)
       ELSE Goto(r, "go_test") /\ UNCHANGED exit
  /\ UNCHANGED <<fileVars, kind, isDir, collected, todo, pre, text, generated, failed, saw>>

(* Mutant: build and check do not look at the failures. *)
EndTranspileBlind(r) ==
  /\ pc[r] = "read" /\ todo[r] = {}
  /\ IF kind[r] # "test"
       THEN Finish(r, 0) /\ UNCHANGED todo
       ELSE /\ Goto(r, IF failed[r] THEN "cleanup" ELSE "go_test")
            /\ exit' = [exit EXCEPT ![r] = IF failed[r] THEN 1 ELSE @]
            /\ todo' = [todo EXCEPT ![r] = IF failed[r] THEN {w[1] : w \in generated[r]} ELSE @]
  /\ UNCHANGED <<fileVars, kind, isDir, collected, pre, text, generated, failed, saw>>

(* The loop is over.  With a failure there is no go test. *)
EndTranspile(r) ==
  /\ pc[r] = "read" /\ todo[r] = {}
  /\ \/ /\ kind[r] # "test"
        /\ Finish(r, IF failed[r] THEN 1 ELSE 0)
        /\ UNCHANGED todo
     \/ /\ kind[r] = "test" /\ failed[r]
        /\ Goto(r, "cleanup")
        /\ exit' = [exit EXCEPT ![r] = 1]
        /\ todo' = [todo EXCEPT ![r] = {w[1] : w \in generated[r]}]
     \/ /\ kind[r] = "test" /\ ~failed[r]
        /\ Goto(r, "go_test")
        /\ UNCHANGED <<exit, todo>>
  /\ UNCHANGED <<fileVars, kind, isDir, collected, pre, text, generated, failed, saw>>

(* What go test is asked for: `./...` of a directory, which enters neither *)
(* testdata, _x and .x nor nested modules (the walk that collects the .dmj *)
(* files does), or the directory of the one file; of the files there, it   *)
(* leaves out those whose build constraint the flags do not satisfy.       *)
Listed(r, w) ==
  /\ isDir[r] => GeneratedPathFor(w[1]) \notin Unlisted
  /\ w[2] \notin Tagged

(* go test compiles what it finds on disk of these and runs it; nobody     *)
(* tells it what it should find, and with nothing to run it may well pass. *)
GoTest(r) ==
  /\ pc[r] = "go_test"
  /\ saw' = [saw EXCEPT ![r] =
               {w \in generated[r] :
                  Listed(r, w) /\ disk[GeneratedPathFor(w[1])] = Code(w[1], w[2])}]
  /\ \E code \in {0, 1} : exit' = [exit EXCEPT ![r] = code]
  /\ Goto(r, "cleanup")
  /\ todo' = [todo EXCEPT ![r] = {w[1] : w \in generated[r]}]
  /\ UNCHANGED <<fileVars, kind, isDir, collected, pre, text, generated, failed>>

(* Mutant: cleanup (main.go:414), which does not ask what was there, in    *)
(* place of cleanupNew.                                                    *)
RemoveAnyOutput(r) ==
  /\ pc[r] = "cleanup"
  /\ \E s \in Sources :
       /\ IsNext(r, s)
       /\ Skip(r, s)
       /\ disk' = [disk EXCEPT ![GeneratedPathFor(s)] = Missing]
       /\ lost' = lost \ {GeneratedPathFor(s)}
  /\ UNCHANGED <<source, owned, pc, kind, isDir, collected, pre, text, generated, failed,
                 exit, saw>>

(* One turn of cleanupNew.  A file that cannot be removed is warned about. *)
RemoveOutput(r) ==
  /\ pc[r] = "cleanup"
  /\ \E s \in Sources :
       LET out == GeneratedPathFor(s) IN
       /\ IsNext(r, s)
       /\ Skip(r, s)
       /\ \/ out \in pre[r] /\ UNCHANGED <<disk, lost>>
          \/ /\ out \notin pre[r]
             /\ disk' = [disk EXCEPT ![out] = Missing]
             /\ lost' = lost \ {out}
          \/ /\ out \notin pre[r] /\ "remove" \in Faults
             /\ lost' = lost \cup (({out} \cap Present) \ owned)
             /\ UNCHANGED disk
  /\ UNCHANGED <<source, owned, pc, kind, isDir, collected, pre, text, generated, failed,
                 exit, saw>>

EndCleanup(r) ==
  /\ pc[r] = "cleanup" /\ todo[r] = {}
  /\ pre' = [pre EXCEPT ![r] = {}]
  /\ Goto(r, "done")
  /\ UNCHANGED <<fileVars, kind, isDir, collected, todo, text, generated, failed, exit, saw>>

(* ctrl+c: the process is gone with all it knew, and nothing in it catches *)
(* the signal.                                                             *)
Interrupt(r) ==
  /\ "interrupt" \in Faults
  /\ Active(r)
  /\ LET written == {GeneratedPathFor(w[1]) : w \in generated[r]}
         opened == {GeneratedPathFor(s) : s \in {u \in Sources : pc[r] = "write" /\ IsNext(r, u)}}
     IN lost' = lost \cup (((written \cup opened) \cap Present) \ owned)
  /\ Goto(r, "idle")
  /\ collected' = [collected EXCEPT ![r] = {}]
  /\ todo' = [todo EXCEPT ![r] = {}]
  /\ pre' = [pre EXCEPT ![r] = {}]
  /\ text' = [text EXCEPT ![r] = NoText]
  /\ generated' = [generated EXCEPT ![r] = {}]
  /\ failed' = [failed EXCEPT ![r] = FALSE]
  /\ kind' = [kind EXCEPT ![r] = "test"]
  /\ isDir' = [isDir EXCEPT ![r] = TRUE]
  /\ exit' = [exit EXCEPT ![r] = 0]
  /\ saw' = [saw EXCEPT ![r] = {}]
  /\ UNCHANGED <<source, disk, owned>>

RunStep(r) ==
  \/ StatOutput(r) \/ EndStat(r)
  \/ ReadSource(r) \/ OpenOutput(r) \/ WriteOutput(r) \/ WriteFails(r) \/ EndTranspile(r)
  \/ GoTest(r) \/ RemoveOutput(r) \/ EndCleanup(r)

-----------------------------------------------------------------------------
(* The people at the keyboard: they edit and remove .dmj files at any      *)
(* time, and put generated files under version control, or throw them      *)
(* away, between invocations.                                              *)
Edit(s, t) ==
  /\ source[s] # t
  /\ source' = [source EXCEPT ![s] = t]
  /\ UNCHANGED <<disk, owned, lost, runVars>>

Commit(b) ==
  /\ Quiet
  /\ b \notin owned
  /\ disk' = [disk EXCEPT ![b] = Foreign]
  /\ owned' = owned \cup {b}
  /\ lost' = lost \ {b}
  /\ UNCHANGED <<source, runVars>>

Discard(b) ==
  /\ Quiet
  /\ b \in Present
  /\ disk' = [disk EXCEPT ![b] = Missing]
  /\ owned' = owned \ {b}
  /\ lost' = lost \ {b}
  /\ UNCHANGED <<source, runVars>>

User ==
  \/ \E s \in Sources, t \in Texts \cup {NoText} : Edit(s, t)
  \/ \E b \in Bases : Commit(b) \/ Discard(b)

Next ==
  \/ \E r \in Runs, k \in Kinds : Start(r, k)
  \/ \E r \in Runs : RunStep(r) \/ Interrupt(r)
  \/ User

(* A started command runs to its end: the processes are scheduled, and go  *)
(* test comes back (its own -timeout stops a test that hangs).  Nothing    *)
(* obliges anybody to start one, or to type.                               *)
Fairness == \A r \in Runs : WF_vars(RunStep(r))

Spec == Init /\ [][Next]_vars /\ Fairness

-----------------------------------------------------------------------------
TypeOK ==
  /\ source \in [Sources -> Texts \cup {NoText}]
  /\ disk \in [Bases -> Contents]
  /\ owned \in SUBSET Bases
  /\ lost \in SUBSET Bases
  /\ pc \in [Runs -> Pcs]
  /\ kind \in [Runs -> {"test", "build", "check"}]
  /\ isDir \in [Runs -> BOOLEAN]
  /\ collected \in [Runs -> SUBSET Sources]
  /\ todo \in [Runs -> SUBSET Sources]
  /\ pre \in [Runs -> SUBSET Bases]
  /\ text \in [Runs -> Texts \cup {NoText}]
  /\ generated \in [Runs -> SUBSET (Sources \X Texts)]
  /\ failed \in [Runs -> BOOLEAN]
  /\ exit \in [Runs -> {0, 1}]
  /\ saw \in [Runs -> SUBSET (Sources \X Texts)]

(* A generated file somebody has committed, or made with build, is still   *)
(* on disk after any number of runs (main.go:258-259, 305-306, 422-424).   *)
OwnedSurvive == owned \subseteq Present

(* Why OwnedSurvive holds: a build has the disk to itself, and every test  *)
(* run past its stat loop has recorded the owned ones among its outputs.   *)
BuildAlone ==
  \A r, q \in Runs : Active(r) /\ Active(q) /\ kind[r] = "build" => q = r

LoopsInside ==
  \A r \in Runs :
    /\ todo[r] \subseteq collected[r]
    /\ \A w \in generated[r] : w[1] \in collected[r]
    /\ pc[r] \in {"stat", "go_test", "cleanup"} => kind[r] = "test"
    /\ pc[r] \in {"open", "write"} => kind[r] # "check"
    /\ Active(r) => kind[r] \in Kinds

OwnedRecorded ==
  \A r \in Runs : kind[r] = "test" =>
    /\ pc[r] = "stat" =>
         \A s \in collected[r] \ todo[r] : GeneratedPathFor(s) \in owned => GeneratedPathFor(s) \in pre[r]
    /\ pc[r] \in {"read", "open", "write", "go_test", "cleanup"} =>
         \A s \in collected[r] : GeneratedPathFor(s) \in owned => GeneratedPathFor(s) \in pre[r]

OwnedInv == OwnedSurvive /\ BuildAlone /\ LoopsInside /\ OwnedRecorded

(* Between invocations only files somebody wants are on disk, and those a  *)
(* fault has left there: `danmuji test` cleans up (main.go:198-199).       *)
NothingLeftBehind == Quiet => Present \subseteq owned \cup lost

(* Why: one invocation at a time, and what it has put on disk is at every  *)
(* moment what it will still visit, or the file it is writing.             *)
AtMostOne == \A r, q \in Runs : Active(r) /\ Active(q) => q = r

Scratch(r) ==
  IF pc[r] = "cleanup" THEN {GeneratedPathFor(s) : s \in todo[r]}
  ELSE {GeneratedPathFor(w[1]) : w \in generated[r]}
         \cup {GeneratedPathFor(s) : s \in {u \in Sources : pc[r] = "write" /\ IsNext(r, u)}}

ScratchInv ==
  /\ NothingLeftBehind
  /\ \A r \in Runs : Active(r) =>
       /\ Present \subseteq owned \cup lost \cup Scratch(r)
       /\ pre[r] \subseteq owned \cup lost
       /\ pc[r] = "stat" => generated[r] = {}
       /\ pc[r] = "cleanup" => \A s \in todo[r] : \E w \in generated[r] : w[1] = s
       /\ kind[r] = "check" => generated[r] = {}
       /\ kind[r] = "build" => \A w \in generated[r] : GeneratedPathFor(w[1]) \in owned

(* A file of the run whose output another of its files, later in the list, *)
(* writes too: foo.dmj next to foo_test.dmj.                               *)
Superseded(r, s) ==
  \E u \in collected[r] : GeneratedPathFor(u) = GeneratedPathFor(s) /\ Rank[u] > Rank[s]

(* When `danmuji test` reports success, every .dmj file it has collected   *)
(* was transpiled, and go test has compiled the code of each as this run   *)
(* wrote it, except for the code go test was not asked for (another build  *)
(* tag, a directory ./... does not enter) and code that a later file of    *)
(* the run has overwritten: of these it passes without a word.             *)
PassMeansTested ==
  \A r \in Runs : pc[r] = "done" /\ kind[r] = "test" /\ exit[r] = 0 =>
    /\ {w[1] : w \in generated[r]} = collected[r]
    /\ \A w \in generated[r] : Listed(r, w) => w \in saw[r] \/ Superseded(r, w[1])

(* Why: as long as nothing has failed, a run has written the code of all   *)
(* the files it has visited, and nobody but itself has touched it since.   *)
TestedBy(r) ==
  /\ pc[r] \in {"read", "open", "write", "go_test"} =>
       \A u \in collected[r] \ todo[r], s \in todo[r] : Rank[u] < Rank[s]
  /\ pc[r] \in {"read", "open", "write", "go_test"} /\ ~failed[r] =>
       /\ {w[1] : w \in generated[r]} = collected[r] \ todo[r]
       /\ \A w \in generated[r] :
            disk[GeneratedPathFor(w[1])] = Code(w[1], w[2]) \/ Superseded(r, w[1])
  /\ pc[r] = "go_test" => ~failed[r] /\ todo[r] = {}
  /\ pc[r] \in {"cleanup", "done"} /\ exit[r] = 0 =>
       /\ {w[1] : w \in generated[r]} = collected[r]
       /\ \A w \in generated[r] : Listed(r, w) => w \in saw[r] \/ Superseded(r, w[1])
TestedInv == \A r \in Runs : kind[r] = "test" => TestedBy(r)

(* A file a run has made for itself does not stay: whatever is on disk     *)
(* that nobody wants and no fault has left there goes away, or becomes     *)
(* somebody's.                                                             *)
ScratchGoes ==
  \A b \in Bases : (b \in Present \ (owned \cup lost)) ~> (b \notin Present \ (owned \cup lost))
=============================================================================
