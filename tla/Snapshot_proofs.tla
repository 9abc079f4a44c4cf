--------------------------- MODULE Snapshot_proofs ---------------------------
(* Theorems about Snapshot, for any number of blocks and values, with and   *)
(* without faults.                                                          *)
EXTENDS Snapshot, TLAPS

LEMMA InitType == SnapshotInit => TypeOK
BY SnapshotAssumption DEF SnapshotInit, TypeOK, Pcs

LEMMA StepType == TypeOK /\ [SnapshotNext]_snapshotVars => TypeOK'
<1> SUFFICES ASSUME TypeOK, [SnapshotNext]_snapshotVars
             PROVE  TypeOK'
  OBVIOUS
<1> USE DEF TypeOK, Pcs, Goto, End
<1>1. ASSUME NEW m \in Modes, Run(m)
      PROVE  TypeOK'
  BY <1>1 DEF Run
<1>2. ASSUME NEW b \in Snapshots, BlockStep(b)
      PROVE  TypeOK'
  <2> Name[b] \in Names
    BY DEF Names
  <2>1. CASE Start(b)
    BY <2>1 DEF Start
  <2>2. CASE ReadGolden(b)
    BY <2>2 DEF ReadGolden
  <2>3. CASE OpenGolden(b)
    BY <2>3 DEF OpenGolden
  <2>4. CASE FillGolden(b)
    BY <2>4 DEF FillGolden
  <2>5. CASE WriteFails(b)
    BY <2>5 DEF WriteFails
  <2>6. CASE ReadFails(b)
    BY <2>6 DEF ReadFails
  <2>7. QED
    BY <1>2, <2>1, <2>2, <2>3, <2>4, <2>5, <2>6 DEF BlockStep
<1>3. CASE Finish \/ Interrupt
  BY <1>3 DEF Finish, Interrupt, NoRun
<1>4. ASSUME NEW b \in Snapshots, NEW v \in Values, Change(b, v)
      PROVE  TypeOK'
  BY <1>4 DEF Change
<1>5. ASSUME NEW n \in Names, Remove(n)
      PROVE  TypeOK'
  BY <1>5 DEF Remove
<1>6. CASE UNCHANGED snapshotVars
  BY <1>6 DEF snapshotVars
<1>7. QED
  BY <1>1, <1>2, <1>3, <1>4, <1>5, <1>6 DEF SnapshotNext

(***************************************************************************)
(* A drifted value fails.                                                  *)
(***************************************************************************)

(* Why: a block that compares writes only where the run has found nothing  *)
(* or what it cannot read, so anything else that the run has found is      *)
(* still there when a block reads it.                                      *)
DriftInv ==
  /\ TypeOK
  /\ running = "compare" => \A n \in Names : was[n] # Missing /\ ~Unread(n) => golden[n] = was[n]
  /\ running = "compare" => \A n \in Names : golden[n] = Missing => was[n] = Missing
  /\ running = "compare" => \A b \in Snapshots :
       pc[b] \in {"open", "fill"} => was[Name[b]] = Missing \/ b \in unread
  /\ DriftFails

LEMMA InitDrift == SnapshotInit => DriftInv
BY InitType DEF SnapshotInit, DriftInv, DriftFails

LEMMA StepDrift == DriftInv /\ [SnapshotNext]_snapshotVars => DriftInv'
<1> SUFFICES ASSUME DriftInv, [SnapshotNext]_snapshotVars
             PROVE  DriftInv'
  OBVIOUS
<1>0. TypeOK /\ TypeOK'
  BY StepType DEF DriftInv
<1> USE DEF DriftInv, DriftFails, Unread, Goto, End
<1>1. ASSUME NEW m \in Modes, Run(m)
      PROVE  DriftInv'
  BY <1>0, <1>1 DEF Run, TypeOK
<1>2. ASSUME NEW b \in Snapshots, BlockStep(b)
      PROVE  DriftInv'
  <2> Name[b] \in Names
    BY DEF Names
  <2>1. CASE Start(b)
    BY <1>0, <2>1 DEF Start, TypeOK
  <2>2. CASE ReadGolden(b)
    BY <1>0, <2>2 DEF ReadGolden, TypeOK
  <2>3. CASE OpenGolden(b) \/ FillGolden(b)
    <3>1. /\ pc[b] \in {"open", "fill"} /\ UNCHANGED <<value, running, unread, was>>
          /\ \A n \in Names : n # Name[b] => golden'[n] = golden[n]
          /\ \A c \in Snapshots : pc'[c] = pc[c] \/ c = b
          /\ \A c \in Snapshots : verdict'[c] = verdict[c] \/ c = b
      BY <1>0, <2>3 DEF OpenGolden, FillGolden, TypeOK
    <3>2. running = "compare" => was[Name[b]] = Missing \/ b \in unread
      BY <3>1
    <3>3. running' = "compare" => \A n \in Names : was'[n] # Missing /\ ~Unread(n)' => golden'[n] = was'[n]
      BY <3>1, <3>2
    <3>4. \A c \in Snapshots : pc'[c] \in {"open", "fill"} => pc[c] \in {"open", "fill"}
      BY <3>1
    <3>5. running' = "compare" => \A c \in Snapshots :
            pc'[c] \in {"open", "fill"} => was'[Name[c]] = Missing \/ c \in unread'
      BY <3>1, <3>4
    <3>6. DriftFails'
      <4> SUFFICES ASSUME NEW c \in Snapshots, running' = "compare", verdict'[c] = "pass",
                          was'[Name[c]] # Missing, ~Unread(Name[c])'
                   PROVE  was'[Name[c]] = value'[c]
        OBVIOUS
      <4>1. c # b
        BY <3>1, <3>2
      <4> QED BY <3>1, <4>1
    <3>7. golden'[Name[b]] # Missing
      BY <1>0, <2>3, SnapshotAssumption DEF OpenGolden, FillGolden, TypeOK
    <3>8. running' = "compare" => \A n \in Names : golden'[n] = Missing => was'[n] = Missing
      BY <3>1, <3>7
    <3> HIDE DEF DriftFails
    <3> QED BY <1>0, <3>3, <3>5, <3>6, <3>8
  <2>5. CASE WriteFails(b)
    BY <1>0, <2>5 DEF WriteFails, TypeOK
  <2>6. CASE ReadFails(b)
    BY <1>0, <2>6 DEF ReadFails, TypeOK
  <2>7. QED
    BY <1>2, <2>1, <2>2, <2>3, <2>5, <2>6 DEF BlockStep
<1>3. CASE Finish \/ Interrupt
  BY <1>0, <1>3 DEF Finish, Interrupt, NoRun
<1>4. ASSUME NEW b \in Snapshots, NEW v \in Values, Change(b, v)
      PROVE  DriftInv'
  BY <1>0, <1>4 DEF Change
<1>5. ASSUME NEW n \in Names, Remove(n)
      PROVE  DriftInv'
  BY <1>0, <1>5 DEF Remove
<1>6. CASE UNCHANGED snapshotVars
  BY <1>0, <1>6 DEF snapshotVars
<1>7. QED
  BY <1>1, <1>2, <1>3, <1>4, <1>5, <1>6 DEF SnapshotNext

(* No drift from a file that can be read goes unnoticed, whatever shares a *)
(* name with the block, however the blocks are scheduled, and whatever     *)
(* else fails (emitSnapshot).                                              *)
THEOREM DriftAlwaysFails == SnapshotSpec => []DriftFails
<1>1. DriftInv => DriftFails
  BY DEF DriftInv
<1>2. QED
  BY <1>1, InitDrift, StepDrift, PTL DEF SnapshotSpec

(***************************************************************************)
(* What passes is recorded, and the first run passes.                      *)
(***************************************************************************)

Busy(b) == pc[b] \in {"read", "open", "fill"}
Filling(n) == \E c \in Snapshots : Name[c] = n /\ pc[c] = "fill"

(* Why: only parallel blocks work at a time, and after the serial ones;    *)
(* what a block has passed with is in its file, if it could read it,       *)
(* unless a block that agrees is about to write it again; and in the run that creates a file there is *)
(* nothing else in it, and nothing cut short once it is written.           *)
RecordInv ==
  /\ TypeOK
  /\ running = "none" => \A b \in Snapshots : pc[b] = "done" /\ verdict[b] = "none"
  /\ \A b, c \in Snapshots : Busy(b) /\ Busy(c) /\ b # c => b \in Parallel /\ c \in Parallel
  /\ \A b \in Parallel, c \in Snapshots \ Parallel : Busy(b) => pc[c] = "done"
  /\ disk = "ok" /\ Agreeing => \A b \in Snapshots \ unread :
       verdict[b] = "pass" => golden[Name[b]] = value[b] \/ Filling(Name[b])
  /\ running = "compare" /\ disk = "ok" /\ Agreeing => \A b \in Snapshots :
       Exclusive(Name[b]) /\ was[Name[b]] = Missing =>
         /\ golden[Name[b]] \in {Missing, Partial, value[b]}
         /\ golden[Name[b]] = Partial => Filling(Name[b])
         /\ verdict[b] # "fail"

LEMMA InitRecord == SnapshotInit => RecordInv
BY InitType DEF SnapshotInit, RecordInv, Busy, Filling

LEMMA StepRecord == RecordInv /\ [SnapshotNext]_snapshotVars => RecordInv'
<1> SUFFICES ASSUME RecordInv, [SnapshotNext]_snapshotVars
             PROVE  RecordInv'
  OBVIOUS
<1>0. TypeOK /\ TypeOK'
  BY StepType DEF RecordInv
<1> USE DEF RecordInv, Goto, End
<1>1. ASSUME NEW m \in Modes, Run(m)
      PROVE  RecordInv'
  <2>1. /\ \A b \in Snapshots : ~Busy(b)' /\ verdict'[b] = "none"
        /\ golden' = golden /\ was' = golden /\ unread' = {}
    BY <1>1 DEF Run, Busy
  <2>2. Parallel \subseteq Snapshots
    BY SnapshotAssumption
  <2>3. \A b \in Snapshots : was'[Name[b]] = Missing => golden'[Name[b]] = Missing
    BY <2>1
  <2>4. running' # "none"
    BY <1>1, SnapshotAssumption DEF Run
  <2> QED BY <1>0, <2>1, <2>2, <2>3, <2>4, SnapshotAssumption
<1>2. ASSUME NEW b \in Snapshots, BlockStep(b)
      PROVE  RecordInv'
  <2> Name[b] \in Names
    BY DEF Names
  <2>0. /\ value' = value /\ disk' = disk /\ running' = running /\ was' = was /\ Agreeing' = Agreeing
        /\ running # "none"
    BY <1>2 DEF BlockStep, Start, ReadGolden, ReadFails, OpenGolden, FillGolden, WriteFails, Agreeing
  <2>1. CASE Start(b)
    <3>1. pc[b] = "waiting" /\ pc' \in {[pc EXCEPT ![b] = "open"], [pc EXCEPT ![b] = "read"]}
          /\ UNCHANGED <<golden, verdict, unread>>
      BY <2>1 DEF Start
    <3>2. \A n : Filling(n)' = Filling(n)
      BY <1>0, <3>1 DEF Filling, TypeOK
    <3>3. \A c \in Snapshots \ Parallel : c # b => ~Busy(c)
      BY <2>1 DEF Start, Busy
    <3>4. b \notin Parallel => \A c \in Snapshots : ~Busy(c)
      BY <2>1 DEF Start, Busy
    <3>5. b \in Parallel => \A c \in Snapshots \ Parallel : pc[c] = "done"
      BY <2>1 DEF Start
    <3>6. \A c \in Snapshots : Busy(c)' <=> Busy(c) \/ c = b
      BY <1>0, <3>1 DEF Busy, TypeOK
    <3>7. \A c \in Snapshots : c # b => pc'[c] = pc[c]
      BY <1>0, <3>1 DEF TypeOK
    <3>8. ASSUME NEW d \in Snapshots, NEW c \in Snapshots, Busy(d)', Busy(c)', d # c
          PROVE  d \in Parallel
      <4>1. CASE d = b
        <5>1. Busy(c) BY <3>6, <3>8, <4>1
        <5> QED BY <3>4, <4>1, <5>1
      <4>2. CASE d # b /\ c = b
        <5>1. Busy(d) BY <3>6, <3>8, <4>2
        <5> QED BY <3>3, <4>2, <5>1
      <4>3. CASE d # b /\ c # b
        BY <3>6, <3>8, <4>3
      <4> QED BY <4>1, <4>2, <4>3
    <3>9. ASSUME NEW d \in Parallel, NEW c \in Snapshots \ Parallel, Busy(d)'
          PROVE  pc'[c] = "done"
      <4>1. d \in Snapshots BY SnapshotAssumption
      <4>2. pc[c] = "done"
        BY <3>5, <3>6, <3>9, <4>1
      <4> QED BY <3>1, <3>7, <4>2
    <3> QED BY <1>0, <2>0, <3>1, <3>2, <3>8, <3>9
  <2>2. ASSUME ~Start(b)
        PROVE  /\ Busy(b) /\ pc'[b] \in {"open", "fill", "done"}
               /\ \A c \in Snapshots : c # b => pc'[c] = pc[c] /\ verdict'[c] = verdict[c]
               /\ \A n \in Names : n # Name[b] => golden'[n] = golden[n]
    BY <1>0, <1>2, <2>2 DEF BlockStep, ReadGolden, ReadFails, OpenGolden, FillGolden, WriteFails, Busy, TypeOK
  <2>3. ASSUME ~Start(b)
        PROVE  /\ \A d, c \in Snapshots : Busy(d)' /\ Busy(c)' /\ d # c => d \in Parallel /\ c \in Parallel
               /\ \A d \in Parallel, c \in Snapshots \ Parallel : Busy(d)' => pc'[c] = "done"
    <3>1. \A c \in Snapshots : Busy(c)' => Busy(c)
      BY <2>2, <2>3 DEF Busy
    <3>2. Parallel \subseteq Snapshots
      BY SnapshotAssumption
    <3>3. \A d \in Parallel, c \in Snapshots \ Parallel : Busy(d) => pc[c] = "done" /\ c # b
      BY <2>2, <2>3 DEF Busy
    <3> QED BY <2>2, <2>3, <3>1, <3>2, <3>3
  <2>4. CASE ReadGolden(b)
    <3>1. \A n : Filling(n)' = Filling(n)
      BY <1>0, <2>4 DEF ReadGolden, Filling, TypeOK
    <3>2. ~Start(b) /\ UNCHANGED <<golden, unread>>
      BY <2>4 DEF ReadGolden, Start
    <3>3. verdict'[b] = "pass" => golden[Name[b]] = value[b] \/ verdict[b] = "pass"
      BY <1>0, <2>4 DEF ReadGolden, TypeOK
    <3>4. ASSUME running = "compare", disk = "ok", Agreeing, Exclusive(Name[b]), was[Name[b]] = Missing
          PROVE  verdict'[b] # "fail"
      <4>1. \A c \in Snapshots : Name[c] = Name[b] => pc[c] # "fill"
        BY <2>4, <3>4 DEF ReadGolden, Busy, Exclusive
      <4>2. golden[Name[b]] \in {Missing, value[b]}
        BY <3>4, <4>1 DEF Filling
      <4> QED BY <1>0, <2>4, <3>4, <4>2 DEF ReadGolden, TypeOK
    <3> QED BY <1>0, <2>0, <2>2, <2>3, <3>1, <3>2, <3>3, <3>4
  <2>5. CASE OpenGolden(b)
    <3>1. ~Start(b) /\ UNCHANGED <<verdict, unread>> /\ golden' = [golden EXCEPT ![Name[b]] = Partial] /\ pc[b] = "open"
          /\ pc'[b] = "fill"
      BY <1>0, <2>5 DEF OpenGolden, Start, TypeOK
    <3>2. Filling(Name[b])' /\ \A n : Filling(n) => Filling(n)'
      BY <2>2, <3>1 DEF Filling
    <3>3. \A c \in Snapshots : Name[c] \in Names
      BY DEF Names
    <3>4. \A c \in Snapshots : 
            \/ golden'[Name[c]] = golden[Name[c]]
            \/ golden'[Name[c]] = Partial /\ Name[c] = Name[b]
      BY <1>0, <3>1, <3>3 DEF TypeOK
    <3> QED BY <1>0, <2>0, <2>3, <3>1, <3>2, <3>3, <3>4
  <2>6. CASE FillGolden(b)
    <3>1. ~Start(b) /\ golden' = [golden EXCEPT ![Name[b]] = value[b]] /\ verdict' = [verdict EXCEPT ![b] = "pass"]
          /\ pc[b] = "fill" /\ pc'[b] = "done" /\ unread' = unread
      BY <1>0, <2>6 DEF FillGolden, Start, TypeOK
    <3>2. \A n : Filling(n) /\ n # Name[b] => Filling(n)'
      BY <2>2, <3>1 DEF Filling
    <3>3. \A c \in Snapshots : Name[c] \in Names
      BY DEF Names
    <3>4. \A c \in Snapshots : IF Name[c] = Name[b] THEN golden'[Name[c]] = value[b] ELSE golden'[Name[c]] = golden[Name[c]]
      BY <1>0, <3>1, <3>3 DEF TypeOK
    <3>5. Agreeing => \A c \in Snapshots : Name[c] = Name[b] => value[c] = value[b]
      BY DEF Agreeing
    <3>6. \A c \in Snapshots : verdict'[c] = "fail" => verdict[c] = "fail"
      BY <1>0, <3>1 DEF TypeOK
    <3>7. \A c \in Snapshots : verdict'[c] = "pass" => verdict[c] = "pass" \/ Name[c] = Name[b]
      BY <1>0, <3>1 DEF TypeOK
    <3>8. value[b] # Partial
      BY <1>0, SnapshotAssumption DEF TypeOK
    <3> QED BY <1>0, <2>0, <2>3, <3>1, <3>2, <3>4, <3>5, <3>6, <3>7, <3>8
  <2>7. CASE WriteFails(b)
    <3>1. /\ ~Start(b) /\ UNCHANGED <<golden, unread>> /\ verdict' = [verdict EXCEPT ![b] = "pass"]
          /\ disk = "ok" => b \in unread /\ pc[b] = "open"
      BY <2>7 DEF WriteFails, Start
    <3>2. disk = "ok" => \A n : Filling(n)' = Filling(n)
      BY <1>0, <2>7, <3>1 DEF WriteFails, Filling, TypeOK
    <3>3. \A c \in Snapshots : verdict'[c] = IF c = b THEN "pass" ELSE verdict[c]
      BY <1>0, <3>1 DEF TypeOK
    <3> QED BY <1>0, <2>0, <2>3, <3>1, <3>2, <3>3
  <2>8. CASE ReadFails(b)
    <3>1. ~Start(b) /\ UNCHANGED <<golden, verdict>> /\ unread' = unread \cup {b}
      BY <2>8 DEF ReadFails, Start
    <3>2. \A n : Filling(n)' = Filling(n)
      BY <1>0, <2>8 DEF ReadFails, Filling, TypeOK
    <3> QED BY <1>0, <2>0, <2>3, <3>1, <3>2
  <2> QED BY <1>2, <2>1, <2>4, <2>5, <2>6, <2>7, <2>8 DEF BlockStep
<1>3. CASE Finish \/ Interrupt
  <2>1. /\ \A b \in Snapshots : ~Busy(b)' /\ verdict'[b] = "none" /\ pc'[b] = "done"
        /\ running' = "none"
    BY <1>3 DEF Finish, Interrupt, NoRun, Busy
  <2> QED BY <1>0, <2>1, SnapshotAssumption
<1>4. ASSUME NEW b \in Snapshots, NEW v \in Values, Change(b, v)
      PROVE  RecordInv'
  BY <1>0, <1>4 DEF Change, Busy, Filling
<1>5. ASSUME NEW n \in Names, Remove(n)
      PROVE  RecordInv'
  BY <1>0, <1>5 DEF Remove, Busy, Filling
<1>6. CASE UNCHANGED snapshotVars
  BY <1>0, <1>6 DEF snapshotVars, Busy, Filling, Agreeing
<1>7. QED
  BY <1>1, <1>2, <1>3, <1>4, <1>5, <1>6 DEF SnapshotNext

(* Whatever shares a name and however the blocks are scheduled: with a     *)
(* directory that can be written, a pass leaves the value in the golden    *)
(* file, and the run that creates it passes (emitSnapshot).                *)
THEOREM RunsAlwaysRecord == SnapshotSpec => []RunsRecord
<1>1. RecordInv => RunsRecord
  BY DEF RecordInv, RunsRecord, PassMeansRecorded, FirstRunPasses, Over, Filling
<1>2. QED
  BY <1>1, InitRecord, StepRecord, PTL DEF SnapshotSpec

(***************************************************************************)
(* Only updates overwrite.                                                 *)
(***************************************************************************)

(* Why: a block that no parallel block shares its file with is alone at    *)
(* it, and finds what it has left there; it goes on to write only where it *)
(* has read nothing.                                                       *)
OwnInv ==
  /\ \A b \in Snapshots : pc[b] # "done" => running # "none"
  /\ running = "compare" => \A b \in Snapshots : Exclusive(Name[b]) =>
       /\ pc[b] = "open" => golden[Name[b]] = Missing \/ b \in unread
       /\ pc[b] = "fill" => golden[Name[b]] = Partial

LEMMA InitOwn == SnapshotInit => OwnInv
BY DEF SnapshotInit, OwnInv

LEMMA AloneAtFile ==
  ASSUME RecordInv, NEW b \in Snapshots, NEW c \in Snapshots, Busy(b), Busy(c), Name[b] = Name[c],
         Exclusive(Name[b])
  PROVE  b = c
BY DEF RecordInv, Exclusive

LEMMA StepOwn == RecordInv /\ OwnInv /\ [SnapshotNext]_snapshotVars => OwnInv'
<1> SUFFICES ASSUME RecordInv, OwnInv, [SnapshotNext]_snapshotVars
             PROVE  OwnInv'
  OBVIOUS
<1>0. TypeOK /\ TypeOK'
  BY StepType DEF RecordInv
<1>e. \A n : Exclusive(n)' <=> Exclusive(n)
  BY DEF Exclusive
<1> USE DEF OwnInv, Goto, End
<1>1. ASSUME NEW m \in Modes, Run(m)
      PROVE  OwnInv'
  <2>1. running' # "none"
    BY <1>1, SnapshotAssumption DEF Run
  <2>2. QED
    BY <1>0, <1>1, <2>1 DEF Run, TypeOK
<1>2. ASSUME NEW b \in Snapshots, BlockStep(b)
      PROVE  OwnInv'
  <2> Name[b] \in Names
    BY DEF Names
  <2>1. CASE Start(b)
    BY <1>0, <1>e, <2>1 DEF Start, TypeOK
  <2>2. CASE ReadGolden(b)
    BY <1>0, <1>e, <2>2 DEF ReadGolden, TypeOK
  <2>3. ASSUME OpenGolden(b) \/ FillGolden(b)
        PROVE  OwnInv'
    <3>1. /\ Busy(b) /\ pc[b] # "done" /\ running' = running /\ unread' = unread
          /\ \A c \in Snapshots : c # b => pc'[c] = pc[c]
          /\ \A n \in Names : n # Name[b] => golden'[n] = golden[n]
      BY <1>0, <2>3 DEF OpenGolden, FillGolden, Busy, TypeOK
    <3>2. pc'[b] = "open" => FALSE
      BY <1>0, <2>3 DEF OpenGolden, FillGolden, TypeOK
    <3>3. pc'[b] = "fill" => golden'[Name[b]] = Partial
      BY <1>0, <2>3 DEF OpenGolden, FillGolden, TypeOK
    <3>4. ASSUME NEW c \in Snapshots, c # b, pc[c] \in {"open", "fill"}, Exclusive(Name[c])
          PROVE  Name[c] # Name[b] /\ Name[c] \in Names
      <4>1. Busy(c)
        BY <3>4 DEF Busy
      <4>2. QED
        BY <3>1, <3>4, <4>1, AloneAtFile DEF Names
    <3>5. QED
      BY <1>e, <3>1, <3>2, <3>3, <3>4
  <2>5. CASE WriteFails(b)
    BY <1>0, <1>e, <2>5 DEF WriteFails, TypeOK
  <2>6. CASE ReadFails(b)
    BY <1>0, <1>e, <2>6 DEF ReadFails, TypeOK
  <2>7. QED
    BY <1>2, <2>1, <2>2, <2>3, <2>5, <2>6 DEF BlockStep
<1>3. CASE Finish \/ Interrupt
  BY <1>0, <1>e, <1>3 DEF Finish, Interrupt, NoRun, Over
<1>4. ASSUME NEW b \in Snapshots, NEW v \in Values, Change(b, v)
      PROVE  OwnInv'
  BY <1>0, <1>e, <1>4 DEF Change
<1>5. ASSUME NEW n \in Names, Remove(n)
      PROVE  OwnInv'
  BY <1>0, <1>e, <1>5 DEF Remove
<1>6. CASE UNCHANGED snapshotVars
  BY <1>0, <1>e, <1>6 DEF snapshotVars
<1>7. QED
  BY <1>1, <1>2, <1>3, <1>4, <1>5, <1>6 DEF SnapshotNext

LEMMA StepOverwrites ==
  RecordInv /\ OwnInv /\ [SnapshotNext]_snapshotVars =>
    [\A n \in Names :
       Exclusive(n) /\ golden[n] \in Values /\ golden'[n] # golden[n] =>
         running = "update" \/ golden'[n] = Missing \/ Unread(n)]_snapshotVars
<1> SUFFICES ASSUME RecordInv, OwnInv, SnapshotNext, NEW n \in Names, Exclusive(n), golden[n] \in Values,
                    golden'[n] # golden[n]
             PROVE  running = "update" \/ golden'[n] = Missing \/ Unread(n)
  OBVIOUS
<1> USE DEF OwnInv, TypeOK
<1>0. TypeOK
  BY DEF RecordInv
<1>1. CASE \E b \in Snapshots : OpenGolden(b) \/ FillGolden(b)
  <2>1. PICK b \in Snapshots : OpenGolden(b) \/ FillGolden(b)
    BY <1>1
  <2>2. n = Name[b]
    BY <1>0, <2>1 DEF OpenGolden, FillGolden
  <2>3. pc[b] \in {"open", "fill"} /\ running \in {"compare", "update"}
    BY <1>0, <2>1, SnapshotAssumption DEF OpenGolden, FillGolden
  <2>4. golden[n] \notin {Missing, Partial}
    BY SnapshotAssumption
  <2>5. QED
    BY <2>2, <2>3, <2>4 DEF Unread
<1>2. CASE \E m \in Names : Remove(m)
  BY <1>0, <1>2 DEF Remove
<1>3. CASE UNCHANGED golden
  BY <1>3
<1>4. QED
  BY <1>1, <1>2, <1>3 DEF SnapshotNext, BlockStep, Run, Start, ReadGolden, ReadFails, WriteFails, Finish, Interrupt, Change

(* A run that compares never overwrites a golden file, however blocks are  *)
(* scheduled and whatever else fails, unless parallel blocks share the     *)
(* file or one of its blocks could not read it (emitSnapshot;              *)
(* DANMUJI_UPDATE_SNAPSHOTS makes a run an update).                        *)
THEOREM OverwritesNeedUpdate == SnapshotSpec => OnlyUpdatesOverwrite
BY InitRecord, StepRecord, InitOwn, StepOwn, StepOverwrites, PTL DEF SnapshotSpec, OnlyUpdatesOverwrite
=============================================================================
