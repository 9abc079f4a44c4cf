------------------------------ MODULE Snapshot ------------------------------
(***************************************************************************)
(* `snapshot` blocks (emitSnapshot, transpile_process.go:77-170): the      *)
(* generated subtest compares a value with a golden file, and creates the  *)
(* file when it cannot read it.  The blocks of one package share the       *)
(* directory testdata/snapshots; those of parallel tests run concurrently, *)
(* and `go test` is run again and again on a tree that changes.            *)
(***************************************************************************)
EXTENDS Naturals, FiniteSets

CONSTANTS
  Snapshots,  \* the snapshot blocks of the package
  Name,       \* Name[b]: the name of block b
  Values,     \* what a block's expression can evaluate to
  Modes,      \* "compare"; "update": DANMUJI_UPDATE_SNAPSHOTS is set
  Parallel,   \* the blocks in parallel tests, or in parallel rows of one
  Faults,     \* what may fail: subset of "read", "write" (the writes of a run), "interrupt"
  Missing, Partial  \* no golden file; one WriteFile has truncated but not filled

ASSUME SnapshotAssumption ==
  /\ IsFiniteSet(Snapshots)
  /\ Missing \notin Values /\ Partial \notin Values /\ Missing # Partial
  /\ Modes \subseteq {"compare", "update"}
  /\ Parallel \subseteq Snapshots
  /\ Faults \subseteq {"read", "write", "interrupt"}
  /\ Name \in [Snapshots -> {Name[b] : b \in Snapshots}]

Names == {Name[b] : b \in Snapshots}

VARIABLES
  golden,     \* golden[n]: the content of testdata/snapshots/<n>.golden
  value,      \* value[b]: what the block's expression evaluates to in the tree as it is
  running,    \* how the current run of go test was started; "none" between runs
  disk,       \* "ok", or why the current run cannot write: "readonly", "full"
  pc,         \* where block b is in the current run
  verdict,    \* "none", "pass", "fail" in the current run
  unread,     \* blocks whose os.ReadFile has failed on a file that is there (history)
  was         \* golden when the current run started (history)

snapshotVars == <<golden, value, running, disk, pc, verdict, unread, was>>

Pcs == {"waiting", "read", "open", "fill", "done"}
Over == \A b \in Snapshots : pc[b] = "done"
Goto(b, label) == pc' = [pc EXCEPT ![b] = label]
End(b, result) ==
  /\ Goto(b, "done")
  /\ verdict' = [verdict EXCEPT ![b] = result]

SnapshotInit ==
  /\ golden = [n \in Names |-> Missing]
  /\ value \in [Snapshots -> Values]
  /\ running = "none"
  /\ disk = "ok"
  /\ pc = [b \in Snapshots |-> "done"]
  /\ verdict = [b \in Snapshots |-> "none"]
  /\ unread = {}
  /\ was = golden

-----------------------------------------------------------------------------
(* go test *)
Run(m) ==
  /\ running = "none"
  /\ running' = m
  /\ disk' \in {"ok"} \cup (IF "write" \in Faults THEN {"readonly", "full"} ELSE {})
  /\ pc' = [b \in Snapshots |-> "waiting"]
  /\ verdict' = [b \in Snapshots |-> "none"]
  /\ unread' = {}
  /\ was' = golden
  /\ UNCHANGED <<golden, value>>

(* The subtest starts: those of serial tests one after the other, those of *)
(* parallel tests together when they are over.                             *)
Start(b) ==
  /\ pc[b] = "waiting"
  /\ IF b \in Parallel THEN \A c \in Snapshots \ Parallel : pc[c] = "done"
                       ELSE \A c \in Snapshots : pc[c] \in {"waiting", "done"}
  /\ Goto(b, IF running = "update" THEN "open" ELSE "read")
  /\ UNCHANGED <<golden, value, running, disk, verdict, unread, was>>

(* Mutant: an existing file is brought up to date. *)
ReadGoldenLenient(b) ==
  /\ pc[b] = "read"
  /\ IF golden[Name[b]] # value[b]
       THEN Goto(b, "open") /\ UNCHANGED verdict
       ELSE End(b, "pass")
  /\ UNCHANGED <<golden, value, running, disk, unread, was>>

(* Mutant: an empty file is not compared. *)
ReadGoldenSkipsEmpty(b) ==
  /\ pc[b] = "read"
  /\ CASE golden[Name[b]] = Missing -> Goto(b, "open") /\ UNCHANGED verdict
       [] golden[Name[b]] = Partial -> End(b, "pass")
       [] OTHER -> End(b, IF golden[Name[b]] = value[b] THEN "pass" ELSE "fail")
  /\ UNCHANGED <<golden, value, running, disk, unread, was>>

(* os.ReadFile: a file that is not there is to be created; otherwise       *)
(* assert.Equal, of whatever is in the file.                               *)
ReadGolden(b) ==
  /\ pc[b] = "read"
  /\ IF golden[Name[b]] = Missing
       THEN Goto(b, "open") /\ UNCHANGED verdict
       ELSE End(b, IF golden[Name[b]] = value[b] THEN "pass" ELSE "fail")
  /\ UNCHANGED <<golden, value, running, disk, unread, was>>

(* Any other error of os.ReadFile (EACCES, EMFILE, EIO) is taken for a     *)
(* file that is not there as well.                                         *)
ReadFails(b) ==
  /\ "read" \in Faults
  /\ pc[b] = "read" /\ golden[Name[b]] # Missing
  /\ unread' = unread \cup {b}
  /\ Goto(b, "open")
  /\ UNCHANGED <<golden, value, running, disk, verdict, was>>

(* os.WriteFile truncates ... *)
OpenGolden(b) ==
  /\ pc[b] = "open" /\ disk # "readonly"
  /\ golden' = [golden EXCEPT ![Name[b]] = Partial]
  /\ Goto(b, "fill")
  /\ UNCHANGED <<value, running, disk, verdict, unread, was>>

(* Mutant: what is written is not the value. *)
FillGoldenEmpty(b) ==
  /\ pc[b] = "fill"
  /\ End(b, "pass")
  /\ UNCHANGED <<golden, value, running, disk, unread, was>>

(* ... and fills.  Both of its uses log and return, so the subtest passes. *)
FillGolden(b) ==
  /\ pc[b] = "fill" /\ disk # "full"
  /\ golden' = [golden EXCEPT ![Name[b]] = value[b]]
  /\ End(b, "pass")
  /\ UNCHANGED <<value, running, disk, unread, was>>

(* The errors of MkdirAll and WriteFile are dropped.  A file that cannot   *)
(* be read may be one that cannot be written either.                       *)
WriteFails(b) ==
  /\ \/ pc[b] = "open" /\ (disk = "readonly" \/ b \in unread)
     \/ pc[b] = "fill" /\ disk = "full"
  /\ End(b, "pass")
  /\ UNCHANGED <<golden, value, running, disk, unread, was>>

(* Nothing of a run outlives it but the golden files.                      *)
NoRun ==
  /\ running' = "none" /\ disk' = "ok"
  /\ pc' = [b \in Snapshots |-> "done"]
  /\ verdict' = [b \in Snapshots |-> "none"]
  /\ unread' = {}
  /\ was' = [n \in Names |-> Missing]

Finish ==
  /\ running # "none" /\ Over
  /\ NoRun
  /\ UNCHANGED <<golden, value>>

(* ctrl+c, or the -timeout of go test. *)
Interrupt ==
  /\ "interrupt" \in Faults
  /\ ~Over
  /\ NoRun
  /\ UNCHANGED <<golden, value>>

(* Between runs people change the code under test, and remove golden files *)
(* they no longer want.                                                    *)
Change(b, v) ==
  /\ running = "none" /\ value[b] # v
  /\ value' = [value EXCEPT ![b] = v]
  /\ UNCHANGED <<golden, running, disk, pc, verdict, unread, was>>

Remove(n) ==
  /\ running = "none" /\ golden[n] # Missing
  /\ golden' = [golden EXCEPT ![n] = Missing]
  /\ UNCHANGED <<value, running, disk, pc, verdict, unread, was>>

BlockStep(b) ==
  \/ Start(b) \/ ReadGolden(b) \/ ReadFails(b)
  \/ OpenGolden(b) \/ FillGolden(b) \/ WriteFails(b)

SnapshotNext ==
  \/ \E m \in Modes : Run(m)
  \/ \E b \in Snapshots : BlockStep(b)
  \/ Finish \/ Interrupt
  \/ \E b \in Snapshots, v \in Values : Change(b, v)
  \/ \E n \in Names : Remove(n)

SnapshotSpec == SnapshotInit /\ [][SnapshotNext]_snapshotVars

-----------------------------------------------------------------------------
TypeOK ==
  /\ golden \in [Names -> Values \cup {Missing, Partial}]
  /\ value \in [Snapshots -> Values]
  /\ running \in Modes \cup {"none"}
  /\ disk \in {"ok", "readonly", "full"}
  /\ pc \in [Snapshots -> Pcs]
  /\ verdict \in [Snapshots -> {"none", "pass", "fail"}]
  /\ unread \subseteq Snapshots
  /\ was \in [Names -> Values \cup {Missing, Partial}]

(* In a directory that can be written, the end of a run finds the value of *)
(* each block that has passed in its golden file: what the next compares   *)
(* with is what this one has seen (README.md:627); but for a block that    *)
(* could not read its file, which passes and may not write it either.      *)
(* Blocks of one name have to agree, for an update takes the last of them. *)
Agreeing == \A b, c \in Snapshots : Name[b] = Name[c] => value[b] = value[c]
PassMeansRecorded ==
  \A b \in Snapshots \ unread :
    Over /\ verdict[b] = "pass" /\ disk = "ok" /\ Agreeing => golden[Name[b]] = value[b]

(* No two blocks are at a golden file at a time. *)
Exclusive(n) == \A b, c \in Parallel : Name[b] = n /\ Name[c] = n => b = c

(* A block of this run has found the golden file unreadable. *)
Unread(n) == \E b \in unread : Name[b] = n

(* Once a golden file holds a value, only an update run, a person, or a    *)
(* block that could not read it changes it: a run that compares never      *)
(* overwrites what it has compared with, unless two of its blocks create   *)
(* the file together.  (The last but one of these is the code's: any error *)
(* of ReadFile leads to WriteFile, transpile_process.go:155-161.)          *)
OnlyUpdatesOverwrite ==
  [][\A n \in Names :
       Exclusive(n) /\ golden[n] \in Values /\ golden'[n] # golden[n] =>
         running = "update" \/ golden'[n] = Missing \/ Unread(n)]_snapshotVars

(* A block whose value has drifted from the golden file the run has found  *)
(* fails, however earlier runs ended and whatever the other blocks do; but *)
(* where the file could not be read, its block passes without a comparison *)
(* and may give the others something else to compare with.                 *)
DriftFails ==
  \A b \in Snapshots :
    running = "compare" /\ verdict[b] = "pass" /\ was[Name[b]] # Missing /\ ~Unread(Name[b]) =>
      was[Name[b]] = value[b]

(* Blocks that agree never fail against each other: the run that creates   *)
(* the file passes, when it can write it (README.md:627 "First run         *)
(* creates").  Parallel blocks must not share the file: one would read     *)
(* what the other has truncated (transpile_process.go:155-160).            *)
FirstRunPasses ==
  \A b \in Snapshots :
    Exclusive(Name[b]) /\ Agreeing /\ disk = "ok" /\ running = "compare" /\ was[Name[b]] = Missing =>
      verdict[b] # "fail"

(* A run leaves behind what its verdicts say: a block that passes has its  *)
(* value on disk, and the run that creates a file does not fail for it.    *)
RunsRecord == PassMeansRecorded /\ FirstRunPasses
=============================================================================
