------------------------------- MODULE Watch -------------------------------
(***************************************************************************)
(* `danmuji test --watch` (cmd/danmuji/main.go:311-411): one run when it   *)
(* starts, then an event loop that re-arms a debounce timer at every .dmj  *)
(* event; the timer's callback runs the tests in a goroutine of its own.   *)
(* The runs, and the disk they work on, are those of TestRuns.             *)
(***************************************************************************)
EXTENDS TestRuns, Sequences

CONSTANTS
  Target,     \* the path watched: TheTree, or one .dmj file
  TheTree,
  NewDir,     \* the .dmj files that live in a directory made during the watch
  Formatted,  \* Formatted[t]: what `danmuji fmt` makes of a text
  Torn,       \* what a reader finds in a file that is being written
  MaxEdits    \* bound on the changes of .dmj files in a behaviour

ASSUME WatchAssumption ==
  /\ Target \in Sources \cup {TheTree}
  /\ TheTree \notin Sources
  /\ NewDir \subseteq Sources
  /\ Formatted \in [Texts -> Texts]
  /\ Torn \subseteq Texts
  /\ MaxEdits \in Nat

VARIABLES
  phase,      \* "start", "first" (the run before the loop), "loop", "gone"
  events,     \* watcher.Events: "dmj" or "mkdir", oldest first
  armed,      \* the debounce timer is running
  made,       \* the new directory exists
  watched,    \* the new directory is watched (the root always is)
  edits,      \* changes so far, with those the formatter is yet to make
  formatter,  \* `danmuji fmt` at work on a file, <<>> when it is not
  unread      \* files changed and not read by a run since (history)

watchVars == <<phase, events, armed, made, watched, edits, formatter, unread>>
allVars == <<vars, watchVars>>

WatchInit ==
  /\ Init
  /\ \A s \in NewDir : source[s] = NoText
  /\ phase = "start"
  /\ events = <<>>
  /\ armed = FALSE
  /\ made = FALSE
  /\ watched = FALSE
  /\ edits = 0
  /\ formatter = <<>>
  /\ unread = {}

(* runTestOnce: the path of the command line is looked at afresh. *)
RunTestOnce(r) ==
  StartOn(r, "test", Target = TheTree, IF Target = TheTree THEN Tree ELSE Tree \cap {Target})

FirstRun(r) ==
  /\ phase = "start"
  /\ RunTestOnce(r)
  /\ phase' = "first"
  /\ UNCHANGED <<events, armed, made, watched, edits, formatter, unread>>

(* The first run is a plain call: the loop waits for it. *)
EnterLoop ==
  /\ phase = "first" /\ Quiet
  /\ phase' = "loop"
  /\ UNCHANGED <<vars, events, armed, made, watched, edits, formatter, unread>>

(* Mutant: an event that arrives during a run is ignored. *)
HandleChangeWhenQuiet ==
  /\ phase = "loop"
  /\ events # <<>> /\ Head(events) = "dmj"
  /\ events' = Tail(events)
  /\ armed' = (armed \/ Quiet)
  /\ UNCHANGED <<vars, phase, made, watched, edits, formatter, unread>>

(* An event about a .dmj file: the old timer is stopped, a new one armed.  *)
(* A callback that has begun is not stopped.                               *)
HandleChange ==
  /\ phase = "loop"
  /\ events # <<>> /\ Head(events) = "dmj"
  /\ events' = Tail(events)
  /\ armed' = TRUE
  /\ UNCHANGED <<vars, phase, made, watched, edits, formatter, unread>>

(* A new directory is watched from here on; `continue` skips the timer,    *)
(* whatever the directory holds by now.                                    *)
HandleDirectory ==
  /\ phase = "loop"
  /\ events # <<>> /\ Head(events) = "mkdir"
  /\ events' = Tail(events)
  /\ watched' = made
  /\ UNCHANGED <<vars, phase, armed, made, edits, formatter, unread>>

(* Mutant: a callback that finds a run in progress returns. *)
FireWhenQuiet(r) ==
  /\ phase = "loop" /\ armed
  /\ IF Quiet THEN RunTestOnce(r) ELSE UNCHANGED vars
  /\ armed' = FALSE
  /\ UNCHANGED <<phase, events, made, watched, edits, formatter, unread>>

(* 200ms without an event: the callback starts, whether or not the run of  *)
(* an earlier callback has ended.                                          *)
Fire(r) ==
  /\ phase = "loop" /\ armed
  /\ RunTestOnce(r)
  /\ armed' = FALSE
  /\ UNCHANGED <<phase, events, made, watched, edits, formatter, unread>>

Step(r) ==
  /\ RunStep(r)
  /\ unread' = unread \ {s \in Sources : pc[r] = "read" /\ IsNext(r, s)}
  /\ UNCHANGED <<phase, events, armed, made, watched, edits, formatter>>

(* ctrl+c ends the loop and every goroutine with it. *)
Quit ==
  /\ "interrupt" \in Faults
  /\ phase # "gone"
  /\ phase' = "gone"
  /\ pc' = [r \in Runs |-> "idle"]
  /\ lost' = lost \cup (Present \ owned)
  /\ UNCHANGED <<source, disk, owned, kind, isDir, collected, todo, pre, text, generated,
                 failed, exit, saw, events, armed, made, watched, edits, formatter, unread>>

(* The watcher reports a change only from a directory it watches.          *)
Notify(s, t) ==
  /\ events' = IF s \in NewDir /\ ~watched THEN events ELSE Append(events, "dmj")
  /\ unread' = IF t # NoText /\ Target \in {TheTree, s} THEN unread \cup {s} ELSE unread \ {s}

(* A save, or a removal.                                                   *)
Save(s, t) ==
  /\ phase # "gone" /\ edits < MaxEdits
  /\ s \in NewDir => made
  /\ Edit(s, t)
  /\ edits' = edits + 1
  /\ Notify(s, t)
  /\ UNCHANGED <<phase, armed, made, watched, formatter>>

(* `danmuji fmt` in another terminal: fmtFile reads a file, and is done    *)
(* unless its formatted text is another.  ReadFile, WriteFile's truncation *)
(* and its write are steps of their own; in between a save may be lost, a  *)
(* run may read nothing or a part of the text, and the command may end.    *)
FormatRead(s) ==
  /\ phase # "gone" /\ formatter = <<>> /\ edits + 2 <= MaxEdits
  /\ Exists(s) /\ Formatted[source[s]] # source[s]
  /\ formatter' = [of |-> s, text |-> Formatted[source[s]], at |-> "open"]
  /\ edits' = edits + 2
  /\ UNCHANGED <<vars, phase, events, armed, made, watched, unread>>

FormatOpen ==
  /\ formatter # <<>> /\ formatter.at = "open"
  /\ \E t \in Torn :
       /\ source' = [source EXCEPT ![formatter.of] = t]
       /\ Notify(formatter.of, t)
  /\ formatter' = [formatter EXCEPT !.at = "write"]
  /\ UNCHANGED <<disk, owned, lost, runVars, phase, armed, made, watched, edits>>

FormatWrite ==
  /\ formatter # <<>> /\ formatter.at = "write"
  /\ source' = [source EXCEPT ![formatter.of] = formatter.text]
  /\ Notify(formatter.of, formatter.text)
  /\ formatter' = <<>>
  /\ UNCHANGED <<disk, owned, lost, runVars, phase, armed, made, watched, edits>>

MakeDirectory ==
  /\ phase # "gone" /\ NewDir # {} /\ ~made
  /\ made' = TRUE
  /\ events' = Append(events, "mkdir")
  /\ UNCHANGED <<vars, phase, armed, watched, edits, formatter, unread>>

WatchNext ==
  \/ \E r \in Runs : FirstRun(r) \/ Fire(r) \/ Step(r)
  \/ EnterLoop \/ HandleChange \/ HandleDirectory \/ Quit
  \/ \E s \in Sources, t \in Texts \cup {NoText} : Save(s, t)
  \/ \E s \in Sources : FormatRead(s)
  \/ FormatOpen \/ FormatWrite \/ MakeDirectory

(* The runtime runs every goroutine that can run, the timer that is not    *)
(* re-armed fires, and go test comes back; nobody has to save or to quit.  *)
WatchFairness ==
  /\ \A r \in Runs : WF_allVars(Step(r))
  /\ WF_allVars(\E r \in Runs : FirstRun(r))
  /\ WF_allVars(\E r \in Runs : Fire(r))
  /\ WF_allVars(EnterLoop)
  /\ WF_allVars(HandleChange \/ HandleDirectory)

WatchSpec == WatchInit /\ [][WatchNext]_allVars /\ WatchFairness

-----------------------------------------------------------------------------
(* A file saved outside the directories made during the watch is read by a *)
(* run afterwards, however the save falls between the events, the timer    *)
(* and the runs in progress ("re-runs tests on each change", main.go:311). *)
EverySaveIsRead ==
  \A s \in Sources \ NewDir : (s \in unread) ~> (s \notin unread \/ phase = "gone")

(* The watch stays quiet after the last run unless there is something to   *)
(* do: it never settles with a change reported and no run to come.         *)
SettledMeansServed ==
  phase = "loop" /\ Quiet /\ events = <<>> /\ ~armed => unread \subseteq NewDir
=============================================================================
