------------------------------ MODULE Commands ------------------------------
(***************************************************************************)
(* What `danmuji test`, `danmuji build` and `danmuji check` promise about  *)
(* the generated files of a tree, whatever the steps they take: a command  *)
(* is given some .dmj files, and while it runs only their outputs change,  *)
(* in the ways below.  Files a test run makes for itself are not seen.     *)
(***************************************************************************)
EXTENDS FiniteSets

CONSTANTS
  Sources,   \* the .dmj files
  Output,    \* Output[s]: the generated file of s
  Generated, \* Generated[s]: what it may hold once s has been transpiled
  Foreign,   \* what it holds when somebody has put it there
  Partial,   \* what it holds while it is being written
  Absent,    \* there is no file that anybody wants
  Stray      \* nobody wants the file, but a fault has left it there

VARIABLES
  file,      \* file[o]: the state of generated file o
  command,   \* the command that runs, or "none"
  asked,     \* the files it was given
  verdict    \* "none", "pending", "passed" or "failed"

commandVars == <<file, command, asked, verdict>>

Outputs == {Output[s] : s \in Sources}
AskedFor == {Output[s] : s \in asked}
Wanted(o) == file[o] \notin {Absent, Stray}

Init ==
  /\ file \in [Outputs -> {Absent, Foreign}]
  /\ command = "none" /\ asked = {} /\ verdict = "none"

(* With no files there is nothing to do: the verdict is there at once.     *)
Start(k, files) ==
  /\ verdict # "pending"
  /\ \/ /\ files # {}
        /\ command' = k /\ asked' = files /\ verdict' = "pending"
     \/ /\ files = {}
        /\ verdict' = (IF k = "build" THEN "passed" ELSE "failed")
        /\ UNCHANGED <<command, asked>>
  /\ UNCHANGED file

(* A file somebody wants is overwritten in two steps, and only with the    *)
(* code of a source that was asked for.  Build makes files wanted.         *)
Truncate(o) ==
  /\ command \in {"test", "build"} /\ o \in AskedFor /\ Wanted(o)
  /\ file' = [file EXCEPT ![o] = Partial]
  /\ UNCHANGED <<command, asked, verdict>>

Fill(s, code) ==
  /\ command \in {"test", "build"} /\ s \in asked /\ code \in Generated[s]
  /\ command = "build" \/ file[Output[s]] = Partial
  /\ file' = [file EXCEPT ![Output[s]] = code]
  /\ UNCHANGED <<command, asked, verdict>>

(* A write or a removal fails; a later removal may make up for it.         *)
Spill(o) ==
  /\ command \in {"test", "build"} /\ o \in AskedFor /\ file[o] = Absent
  /\ file' = [file EXCEPT ![o] = Stray]
  /\ UNCHANGED <<command, asked, verdict>>

Sweep(o) ==
  /\ command = "test" /\ o \in AskedFor /\ file[o] = Stray
  /\ file' = [file EXCEPT ![o] = Absent]
  /\ UNCHANGED <<command, asked, verdict>>

(* Success means: a build has left the code of every file it was given,    *)
(* and a test run has renewed those of the outputs that somebody wants.    *)
Delivered ==
  \A o \in AskedFor : command = "build" \/ (command = "test" /\ Wanted(o)) =>
    \E s \in asked : Output[s] = o /\ file[o] \in Generated[s]

End(v) ==
  /\ verdict = "pending"
  /\ v = "passed" => Delivered
  /\ verdict' = v /\ command' = "none" /\ asked' = {}
  /\ UNCHANGED file

(* ctrl+c: what was being made stays where it is.                          *)
Interrupt(left) ==
  /\ verdict = "pending" /\ left \subseteq AskedFor
  /\ file' = [o \in Outputs |-> IF o \in left /\ file[o] = Absent THEN Stray ELSE file[o]]
  /\ verdict' = "none" /\ command' = "none" /\ asked' = {}

(* Between commands people add generated files to the tree, or remove them.*)
Commit(o) ==
  /\ verdict # "pending" /\ ~Wanted(o)
  /\ file' = [file EXCEPT ![o] = Foreign]
  /\ UNCHANGED <<command, asked, verdict>>

Discard(o) ==
  /\ verdict # "pending" /\ file[o] # Absent
  /\ file' = [file EXCEPT ![o] = Absent]
  /\ UNCHANGED <<command, asked, verdict>>

Next ==
  \/ \E k \in {"test", "build", "check"}, files \in SUBSET Sources : Start(k, files)
  \/ \E o \in Outputs : Truncate(o) \/ Spill(o) \/ Sweep(o) \/ Commit(o) \/ Discard(o)
  \/ \E s \in Sources : \E code \in Generated[s] : Fill(s, code)
  \/ \E v \in {"passed", "failed"} : End(v)
  \/ \E left \in SUBSET AskedFor : Interrupt(left)

Safety == Init /\ [][Next]_commandVars

(* A command that was started comes to an end.                             *)
Ends == verdict = "pending" ~> verdict # "pending"

Spec == Safety /\ Ends
=============================================================================
