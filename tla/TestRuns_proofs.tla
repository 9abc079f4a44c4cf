-------------------------- MODULE TestRuns_proofs --------------------------
(***************************************************************************)
(* What the commands of TestRuns and the runs of Watch do to the disk, for *)
(* any set of .dmj files, any texts, any number of invocations and any     *)
(* faults.                                                                 *)
(***************************************************************************)
EXTENDS CommandRuns, Watch, FiniteSetTheorems, TLAPS

(* A run that is about to write has read a text that transpiles. *)
TextRead == \A r \in Runs : pc[r] \in {"open", "write"} => text[r] \in Texts

TypeInv == TypeOK /\ TextRead

LEMMA InitType == Init => TypeInv
  BY DEF Init, TypeInv, TypeOK, TextRead, Pcs, Contents, Missing, Foreign

LEMMA StartType ==
  ASSUME TypeInv, NEW r \in Runs, NEW k \in Kinds, Start(r, k)
  PROVE  TypeInv'
<1> USE RunsAssumption DEF TypeInv, TypeOK, TextRead, Pcs, Goto, Finish
<1>1. PICK dir \in BOOLEAN, files \in SUBSET Sources : StartOn(r, k, dir, files)
  BY DEF Start, Tree
<1>2. TypeOK' /\ UNCHANGED <<disk, source>>
  BY <1>1 DEF StartOn, fileVars
<1>3. TextRead'
  BY <1>1 DEF StartOn
<1> QED BY <1>2, <1>3

LEMMA StepType ==
  ASSUME TypeInv, NEW r \in Runs, RunStep(r)
  PROVE  TypeInv'
<1> USE RunsAssumption DEF TypeInv, TypeOK, TextRead, Pcs, Goto, Finish, Skip, fileVars
<1>1. CASE StatOutput(r)
  BY <1>1 DEF StatOutput, Present
<1>2. CASE EndStat(r)
  BY <1>2 DEF EndStat
<1>3. CASE ReadSource(r)
  <2>1. TypeOK'
    <3>1. PICK s \in Sources :
            /\ failed' \in {failed, [failed EXCEPT ![r] = TRUE]}
            /\ todo' \in {todo, [todo EXCEPT ![r] = @ \ {s}]}
            /\ text' = text \/ text' = [text EXCEPT ![r] = source[s]]
            /\ pc' \in {pc, [pc EXCEPT ![r] = "open"]}
      BY <1>3 DEF ReadSource
    <3>2. UNCHANGED <<fileVars, kind, isDir, collected, pre, generated, exit, saw>>
      BY <1>3 DEF ReadSource
    <3>3. todo' \in [Runs -> SUBSET Sources]
      BY <3>1
    <3>5. text' \in [Runs -> Texts \cup {NoText}]
      <4>1. source[s] \in Texts \cup {NoText}
        OBVIOUS
      <4> QED BY <3>1, <4>1
    <3>4. failed' \in [Runs -> BOOLEAN] /\ pc' \in [Runs -> Pcs]
      BY <3>1
    <3> QED BY <3>2, <3>3, <3>4, <3>5
  <2>2. ASSUME NEW q \in Runs, pc'[q] \in {"open", "write"}
        PROVE  text'[q] \in Texts
    BY <1>3, <2>2 DEF ReadSource, Exists
  <2> QED BY <2>1, <2>2
<1>4. CASE OpenOutput(r)
  <2>1. PICK s \in Sources : disk' = [disk EXCEPT ![s.base] = Partial]
    BY <1>4 DEF OpenOutput, GeneratedPathFor
  <2>2. disk' \in [Bases -> Contents]
    <3>1. Partial \in Contents
      BY DEF Contents
    <3> QED BY <2>1, <3>1
  <2>3. /\ pc[r] = "open" /\ pc' = [pc EXCEPT ![r] = "write"]
        /\ UNCHANGED <<source, owned, lost, kind, isDir, collected, todo, pre, text, generated,
                       failed, exit, saw>>
    BY <1>4 DEF OpenOutput
  <2>4. TextRead'
    BY <2>3
  <2> QED BY <2>2, <2>3, <2>4
<1>5. CASE WriteOutput(r)
  <2>1. PICK s \in Sources :
          /\ disk' = [disk EXCEPT ![s.base] = Code(s, text[r])]
          /\ generated' = [generated EXCEPT ![r] = @ \cup {<<s, text[r]>>}]
          /\ Skip(r, s)
          /\ owned' \in {owned, owned \cup {s.base}} /\ lost' \in {lost, lost \ {s.base}}
    BY <1>5 DEF WriteOutput, GeneratedPathFor
  <2>2. s.base \in Bases /\ text[r] \in Texts
    BY <1>5 DEF WriteOutput, Bases
  <2>3. Code(s, text[r]) \in Contents
    BY <2>2 DEF Contents
  <2>4. generated' \in [Runs -> SUBSET (Sources \X Texts)]
    BY <2>1, <2>2
  <2>5. disk' \in [Bases -> Contents]
    BY <2>1, <2>3
  <2>6. /\ todo' \in [Runs -> SUBSET Sources]
        /\ pc' = [pc EXCEPT ![r] = "read"]
        /\ owned' \in SUBSET Bases /\ lost' \in SUBSET Bases
        /\ text' \in [Runs -> Texts \cup {NoText}]
        /\ UNCHANGED <<source, kind, isDir, collected, pre, failed, exit, saw>>
    BY <1>5, <2>1, <2>2 DEF WriteOutput
  <2>7. TextRead'
    BY <1>5, <2>6 DEF WriteOutput
  <2> QED BY <2>4, <2>5, <2>6, <2>7
<1>6. CASE WriteFails(r)
  <2>1. PICK s \in Sources :
          /\ todo' = [todo EXCEPT ![r] = @ \ {s}]
          /\ lost' = IF pc[r] = "write" THEN lost \cup ({s.base} \ owned) ELSE lost
    BY <1>6 DEF WriteFails, GeneratedPathFor
  <2>2. todo' \in [Runs -> SUBSET Sources] /\ lost' \in SUBSET Bases
    BY <2>1 DEF Bases
  <2>3. /\ text' = [text EXCEPT ![r] = NoText] /\ pc' = [pc EXCEPT ![r] = "read"]
        /\ failed' = [failed EXCEPT ![r] = TRUE]
        /\ UNCHANGED <<source, disk, owned, kind, isDir, collected, pre, generated, exit, saw>>
    BY <1>6 DEF WriteFails
  <2> QED BY <2>2, <2>3
<1>7. CASE EndTranspile(r)
  <2>1. {w[1] : w \in generated[r]} \in SUBSET Sources
    OBVIOUS
  <2>2. /\ \/ todo' = todo
           \/ todo' = [todo EXCEPT ![r] = {w[1] : w \in generated[r]}]
        /\ exit' \in [Runs -> {0, 1}]
        /\ pc' \in [Runs -> Pcs] /\ pc'[r] \notin {"open", "write"}
        /\ \A q \in Runs \ {r} : pc'[q] = pc[q]
        /\ UNCHANGED <<fileVars, kind, isDir, collected, pre, text, generated, failed, saw>>
    <3>1. /\ \/ pc' = [pc EXCEPT ![r] = "done"] /\ todo' = todo
             \/ /\ pc' = [pc EXCEPT ![r] = "cleanup"]
                /\ todo' = [todo EXCEPT ![r] = {w[1] : w \in generated[r]}]
             \/ pc' = [pc EXCEPT ![r] = "go_test"] /\ todo' = todo
          /\ exit' = exit \/ \E code \in {0, 1} : exit' = [exit EXCEPT ![r] = code]
      BY <1>7 DEF EndTranspile
    <3>2. UNCHANGED <<fileVars, kind, isDir, collected, pre, text, generated, failed, saw>>
      BY <1>7 DEF EndTranspile
    <3>3. exit' \in [Runs -> {0, 1}]
      BY <3>1
    <3> QED BY <3>1, <3>2, <3>3
  <2>3. todo' \in [Runs -> SUBSET Sources]
    BY <2>1, <2>2
  <2> QED BY <2>2, <2>3
<1>8. CASE GoTest(r)
  <2>1. saw' \in [Runs -> SUBSET (Sources \X Texts)]
    BY <1>8 DEF GoTest
  <2>2. {w[1] : w \in generated[r]} \in SUBSET Sources
    OBVIOUS
  <2> HIDE DEF Code
  <2>3. todo' \in [Runs -> SUBSET Sources] /\ exit' \in [Runs -> {0, 1}]
    BY <1>8, <2>2 DEF GoTest
  <2> QED BY <1>8, <2>1, <2>3 DEF GoTest
<1>9. CASE RemoveOutput(r)
  <2>1. PICK s \in Sources :
          /\ disk' \in {disk, [disk EXCEPT ![s.base] = Missing]}
          /\ todo' = [todo EXCEPT ![r] = @ \ {s}]
          /\ lost' \in {lost, lost \ {s.base}, lost \cup (({s.base} \cap Present) \ owned)}
    BY <1>9 DEF RemoveOutput, GeneratedPathFor
  <2>2. s.base \in Bases /\ Missing \in Contents
    BY DEF Bases, Contents
  <2>3. disk' \in [Bases -> Contents] /\ lost' \in SUBSET Bases
    BY <2>1, <2>2
  <2>4. todo' \in [Runs -> SUBSET Sources]
    BY <2>1
  <2>5. UNCHANGED <<source, owned, pc, kind, isDir, collected, pre, text, generated, failed, exit, saw>>
    BY <1>9 DEF RemoveOutput
  <2> QED BY <2>3, <2>4, <2>5
<1>10. CASE EndCleanup(r)
  BY <1>10 DEF EndCleanup
<1> QED
  BY <1>1, <1>2, <1>3, <1>4, <1>5, <1>6, <1>7, <1>8, <1>9, <1>10 DEF RunStep

LEMMA InterruptType ==
  ASSUME TypeInv, NEW r \in Runs, Interrupt(r)
  PROVE  TypeInv'
  BY DEF TypeInv, TypeOK, TextRead, Pcs, Goto, Interrupt, Present

LEMMA UserType ==
  ASSUME TypeInv, User
  PROVE  TypeInv'
  BY DEF TypeInv, TypeOK, TextRead, User, Edit, Commit, Discard, runVars, Contents

(* The variables of the model keep their types. *)
THEOREM TypeCorrect == Spec => []TypeOK
<1>1. TypeInv /\ [Next]_vars => TypeInv'
  <2> SUFFICES ASSUME TypeInv, [Next]_vars PROVE TypeInv'
    OBVIOUS
  <2>1. CASE UNCHANGED vars
    BY <2>1 DEF vars, fileVars, runVars, TypeInv, TypeOK, TextRead
  <2>2. CASE Next
    BY <2>2, StartType, StepType, InterruptType, UserType DEF Next
  <2> QED BY <2>1, <2>2
<1>2. TypeInv => TypeOK
  BY DEF TypeInv
<1> QED BY InitType, <1>1, <1>2, PTL DEF Spec

-----------------------------------------------------------------------------
(* Builds do not overlap with other invocations: either nothing overlaps   *)
(* or nothing builds.                                                      *)
BuildsExclusive == MaxActive = 1 \/ "build" \notin Kinds

LEMMA NoneActive ==
  ASSUME MaxActive = 1, Cardinality({q \in Runs : Active(q)}) < MaxActive
  PROVE  Quiet
<1> DEFINE A == {q \in Runs : Active(q)}
<1>1. IsFiniteSet(A)
  BY FS_Subset, RunsAssumption
<1>2. Cardinality(A) \in Nat /\ Cardinality(A) < 1
  BY <1>1, FS_CardinalityType
<1>3. Cardinality(A) = 0
  BY <1>2
<1>4. A = {}
  BY <1>1, <1>3, FS_EmptySet
<1> QED BY <1>4 DEF Quiet

LEMMA InitOwned == Init => OwnedInv
  BY DEF Init, OwnedInv, OwnedSurvive, BuildAlone, LoopsInside, OwnedRecorded, Active, Present,
         Missing, Foreign

LEMMA StartOwned ==
  ASSUME TypeInv, OwnedInv, BuildsExclusive, NEW r \in Runs, NEW k \in Kinds, Start(r, k)
  PROVE  OwnedInv'
<1> USE DEF TypeInv, TypeOK
<1>1. PICK dir \in BOOLEAN, files \in SUBSET Sources : StartOn(r, k, dir, files)
  BY DEF Start, Tree
<1>2. /\ UNCHANGED <<disk, owned>>
      /\ todo' = [todo EXCEPT ![r] = files] /\ collected' = [collected EXCEPT ![r] = files]
      /\ generated' = [generated EXCEPT ![r] = {}] /\ pre' = [pre EXCEPT ![r] = {}]
      /\ kind' = [kind EXCEPT ![r] = k]
      /\ \/ pc' = [pc EXCEPT ![r] = "done"]
         \/ pc' = [pc EXCEPT ![r] = "stat"] /\ k = "test"
         \/ pc' = [pc EXCEPT ![r] = "read"] /\ k # "test"
  BY <1>1 DEF StartOn, Goto, Finish, fileVars
<1>3. OwnedSurvive'
  BY <1>2 DEF OwnedInv, OwnedSurvive, Present
<1>4. BuildAlone'
  <2>1. CASE MaxActive = 1
    <3>1. Quiet
      BY <1>1, <2>1, NoneActive DEF StartOn
    <3>2. \A q \in Runs : Active(q)' => q = r
      BY <1>2, <3>1 DEF Quiet, Active
    <3> QED BY <3>2 DEF BuildAlone
  <2>2. CASE "build" \notin Kinds
    BY <1>2, <2>2 DEF OwnedInv, BuildAlone, LoopsInside, Active
  <2> QED BY <2>1, <2>2 DEF BuildsExclusive
<1>5. LoopsInside'
  BY <1>2 DEF OwnedInv, LoopsInside, Active
<1>6. OwnedRecorded'
  BY <1>2 DEF OwnedInv, OwnedRecorded
<1> QED BY <1>3, <1>4, <1>5, <1>6 DEF OwnedInv

(* Reading, interrupting and ending change nothing the invariant looks at  *)
(* but the program counter.                                                *)
LEMMA StepOwned ==
  ASSUME TypeInv, OwnedInv, NEW r \in Runs, RunStep(r)
  PROVE  OwnedInv'
<1> USE DEF TypeInv, TypeOK, Goto, Skip, Finish, fileVars
<1>0. UNCHANGED <<kind, collected>>
  BY DEF RunStep, StatOutput, EndStat, ReadSource, OpenOutput, WriteOutput, WriteFails,
         EndTranspile, GoTest, RemoveOutput, EndCleanup
<1>a. \A q \in Runs : Active(q)' => Active(q)
  BY DEF Active, RunStep, StatOutput, EndStat, ReadSource, OpenOutput, WriteOutput, WriteFails,
         EndTranspile, GoTest, RemoveOutput, EndCleanup, Pcs
<1>c. \A q \in Runs : (Active(q) => kind[q] \in Kinds) => (Active(q) => kind[q] \in Kinds)'
  BY <1>0, <1>a
<1>b. BuildAlone'
  BY <1>0, <1>a DEF BuildAlone, OwnedInv
<1>1. CASE StatOutput(r)
  <2>1. PICK s \in Sources :
          /\ todo' = [todo EXCEPT ![r] = @ \ {s}]
          /\ pre' = [pre EXCEPT ![r] = @ \cup ({GeneratedPathFor(s)} \cap Present)]
    BY <1>1 DEF StatOutput
  <2>2. UNCHANGED <<disk, owned, pc, generated>>
    BY <1>1 DEF StatOutput
  <2>3. OwnedSurvive'
    BY <2>2 DEF OwnedInv, OwnedSurvive, Present
  <2>4. LoopsInside'
    BY <1>c, <1>0, <2>1, <2>2 DEF OwnedInv, LoopsInside
  <2>5. GeneratedPathFor(s) \in owned => GeneratedPathFor(s) \in pre'[r]
    BY <2>1 DEF OwnedInv, OwnedSurvive
  <2>6. pc[r] = "stat"
    BY <1>1 DEF StatOutput
  <2>7. OwnedRecorded'
    BY <1>0, <2>1, <2>2, <2>5, <2>6 DEF OwnedInv, OwnedRecorded, GeneratedPathFor
  <2> QED BY <1>b, <2>3, <2>4, <2>7 DEF OwnedInv
<1>2. CASE EndStat(r)
  <2>1. /\ todo' = [todo EXCEPT ![r] = collected[r]] /\ pc' = [pc EXCEPT ![r] = "read"]
        /\ todo[r] = {} /\ pc[r] = "stat"
        /\ UNCHANGED <<disk, owned, pre, generated>>
    BY <1>2 DEF EndStat
  <2>2. OwnedSurvive' /\ LoopsInside'
    BY <1>c, <1>0, <2>1 DEF OwnedInv, OwnedSurvive, Present, LoopsInside
  <2>3. OwnedRecorded'
    BY <1>0, <2>1 DEF OwnedInv, OwnedRecorded
  <2> QED BY <1>b, <2>2, <2>3 DEF OwnedInv
<1>3. CASE ReadSource(r) \/ WriteFails(r)
  <2>1. /\ \/ todo' = todo
           \/ \E s \in Sources : todo' = [todo EXCEPT ![r] = @ \ {s}]
        /\ pc[r] \in {"read", "open", "write"}
        /\ \/ pc' = pc
           \/ pc' = [pc EXCEPT ![r] = "open"] /\ kind[r] # "check"
           \/ pc' = [pc EXCEPT ![r] = "read"]
        /\ UNCHANGED <<disk, owned, pre, generated>>
    BY <1>3 DEF ReadSource, WriteFails
  <2>2. OwnedSurvive' /\ LoopsInside'
    BY <1>c, <1>0, <2>1 DEF OwnedInv, OwnedSurvive, Present, LoopsInside
  <2>3. OwnedRecorded'
    BY <1>0, <2>1 DEF OwnedInv, OwnedRecorded
  <2> QED BY <1>b, <2>2, <2>3 DEF OwnedInv
<1>4. CASE OpenOutput(r)
  <2>1. PICK s \in Sources : disk' = [disk EXCEPT ![GeneratedPathFor(s)] = Partial]
    BY <1>4 DEF OpenOutput
  <2>2. /\ pc[r] = "open" /\ pc' = [pc EXCEPT ![r] = "write"]
        /\ UNCHANGED <<owned, pre, todo, generated>>
    BY <1>4 DEF OpenOutput
  <2>3. OwnedSurvive'
    BY <2>1, <2>2 DEF OwnedInv, OwnedSurvive, Present, Partial, Missing
  <2>4. LoopsInside' /\ OwnedRecorded'
    BY <1>c, <1>0, <2>2 DEF OwnedInv, LoopsInside, OwnedRecorded
  <2> QED BY <1>b, <2>3, <2>4 DEF OwnedInv
<1>5. CASE WriteOutput(r)
  <2>1. PICK s \in Sources :
          /\ s \in todo[r]
          /\ disk' = [disk EXCEPT ![GeneratedPathFor(s)] = Code(s, text[r])]
          /\ generated' = [generated EXCEPT ![r] = @ \cup {<<s, text[r]>>}]
          /\ todo' = [todo EXCEPT ![r] = @ \ {s}]
          /\ IF kind[r] = "build" THEN owned' = owned \cup {GeneratedPathFor(s)} ELSE owned' = owned
    BY <1>5 DEF WriteOutput, IsNext
  <2>2. pc[r] = "write" /\ pc' = [pc EXCEPT ![r] = "read"] /\ UNCHANGED pre
    BY <1>5 DEF WriteOutput
  <2>3. OwnedSurvive'
    <3>1. Code(s, text[r]) # Missing /\ GeneratedPathFor(s) \in Bases
      BY DEF Code, Missing, GeneratedPathFor, Bases
    <3>2. Present' = Present \cup {GeneratedPathFor(s)}
      BY <2>1, <3>1 DEF Present
    <3> QED BY <2>1, <3>2 DEF OwnedInv, OwnedSurvive
  <2>4. LoopsInside'
    <3>1. s \in collected[r]
      BY <2>1 DEF OwnedInv, LoopsInside
    <3> QED BY <1>c, <1>0, <2>1, <2>2, <3>1 DEF OwnedInv, LoopsInside
  <2>5. OwnedRecorded'
    <3>1. CASE kind[r] = "build"
      <4>1. \A q \in Runs : kind[q] = "test" => ~Active(q)
        BY <2>2, <3>1 DEF OwnedInv, BuildAlone, Active
      <4>2. \A q \in Runs : kind'[q] = "test" => pc'[q] \in {"idle", "done"}
        BY <1>0, <1>a, <4>1 DEF Active
      <4> QED BY <4>2 DEF OwnedRecorded
    <3>2. CASE kind[r] # "build"
      BY <1>0, <2>1, <2>2, <3>2 DEF OwnedInv, OwnedRecorded
    <3> QED BY <3>1, <3>2
  <2> QED BY <1>b, <2>3, <2>4, <2>5 DEF OwnedInv
<1>6. CASE EndTranspile(r) \/ GoTest(r)
  <2>1. /\ todo' = todo \/ todo' = [todo EXCEPT ![r] = {w[1] : w \in generated[r]}]
        /\ pc[r] \in {"read", "go_test"}
        /\ \/ pc' = [pc EXCEPT ![r] = "done"]
           \/ pc' = [pc EXCEPT ![r] = "cleanup"] /\ kind[r] = "test"
           \/ pc' = [pc EXCEPT ![r] = "go_test"] /\ kind[r] = "test"
        /\ UNCHANGED <<disk, owned, pre, generated>>
    BY <1>6 DEF EndTranspile, GoTest, OwnedInv, LoopsInside
  <2>2. {w[1] : w \in generated[r]} \subseteq collected[r]
    BY DEF OwnedInv, LoopsInside
  <2>3. OwnedSurvive' /\ LoopsInside'
    BY <1>c, <1>0, <2>1, <2>2 DEF OwnedInv, OwnedSurvive, Present, LoopsInside
  <2>4. OwnedRecorded'
    BY <1>0, <2>1 DEF OwnedInv, OwnedRecorded
  <2> QED BY <1>b, <2>3, <2>4 DEF OwnedInv
<1>7. CASE RemoveOutput(r)
  <2>1. PICK s \in Sources :
          /\ s \in todo[r]
          /\ todo' = [todo EXCEPT ![r] = @ \ {s}]
          /\ \/ disk' = disk
             \/ GeneratedPathFor(s) \notin pre[r] /\ disk' = [disk EXCEPT ![GeneratedPathFor(s)] = Missing]
    BY <1>7 DEF RemoveOutput, IsNext
  <2>2. pc[r] = "cleanup" /\ UNCHANGED <<owned, pc, pre, generated>>
    BY <1>7 DEF RemoveOutput
  <2>3. GeneratedPathFor(s) \notin pre[r] => GeneratedPathFor(s) \notin owned
    BY <2>1, <2>2 DEF OwnedInv, LoopsInside, OwnedRecorded
  <2>4. OwnedSurvive'
    BY <2>1, <2>2, <2>3 DEF OwnedInv, OwnedSurvive, Present
  <2>5. LoopsInside' /\ OwnedRecorded'
    BY <1>c, <1>0, <2>1, <2>2 DEF OwnedInv, LoopsInside, OwnedRecorded
  <2> QED BY <1>b, <2>4, <2>5 DEF OwnedInv
<1>8. CASE EndCleanup(r)
  <2>1. /\ pc' = [pc EXCEPT ![r] = "done"] /\ pre' = [pre EXCEPT ![r] = {}]
        /\ UNCHANGED <<disk, owned, todo, generated>>
    BY <1>8 DEF EndCleanup
  <2> QED BY <1>c, <1>0, <1>b, <2>1 DEF OwnedInv, OwnedSurvive, Present, LoopsInside, OwnedRecorded
<1> QED
  BY <1>1, <1>2, <1>3, <1>4, <1>5, <1>6, <1>7, <1>8 DEF RunStep

LEMMA InterruptOwned ==
  ASSUME TypeInv, OwnedInv, NEW r \in Runs, Interrupt(r)
  PROVE  OwnedInv'
<1>1. /\ pc' = [pc EXCEPT ![r] = "idle"] /\ kind' = [kind EXCEPT ![r] = "test"]
      /\ collected' = [collected EXCEPT ![r] = {}] /\ todo' = [todo EXCEPT ![r] = {}]
      /\ pre' = [pre EXCEPT ![r] = {}] /\ generated' = [generated EXCEPT ![r] = {}]
      /\ UNCHANGED <<disk, owned>>
  BY DEF Interrupt, Goto
<1>2. OwnedSurvive' /\ LoopsInside' /\ OwnedRecorded'
  BY <1>1 DEF Active, TypeInv, TypeOK, OwnedInv, OwnedSurvive, Present, LoopsInside, OwnedRecorded
<1>3. BuildAlone'
  BY <1>1 DEF TypeInv, TypeOK, OwnedInv, BuildAlone, Active
<1> QED BY <1>2, <1>3 DEF OwnedInv

LEMMA UserOwned ==
  ASSUME TypeInv, OwnedInv, User
  PROVE  OwnedInv'
<1> USE DEF TypeInv, TypeOK, OwnedInv
<1>0. UNCHANGED <<kind, collected, todo, pre, generated, pc>>
  BY DEF User, Edit, Commit, Discard, runVars
<1>1. LoopsInside' /\ BuildAlone'
  BY <1>0 DEF LoopsInside, BuildAlone, Active
<1>2. CASE \E s \in Sources, t \in Texts \cup {NoText} : Edit(s, t)
  <2>1. UNCHANGED <<disk, owned>>
    BY <1>2 DEF Edit
  <2> QED BY <1>0, <1>1, <2>1 DEF OwnedSurvive, Present, OwnedRecorded
<1>3. CASE \E b \in Bases : Commit(b) \/ Discard(b)
  <2>1. OwnedSurvive'
    BY <1>3 DEF Commit, Discard, OwnedSurvive, Present, Missing, Foreign
  <2>2. OwnedRecorded'
    BY <1>0, <1>3 DEF Commit, Discard, Quiet, Active, OwnedRecorded
  <2> QED BY <1>1, <2>1, <2>2
<1> QED BY <1>2, <1>3 DEF User

(* Whatever is committed or built stays on disk, for any number of         *)
(* invocations of test and check that overlap in any way, and for builds   *)
(* that overlap with nothing; no fault changes that.                       *)
THEOREM OwnedFilesSurvive ==
  ASSUME BuildsExclusive
  PROVE  Spec => []OwnedSurvive
<1> DEFINE Both == TypeInv /\ OwnedInv
<1>1. Both /\ [Next]_vars => Both'
  <2> SUFFICES ASSUME TypeInv, OwnedInv, [Next]_vars PROVE TypeInv' /\ OwnedInv'
    OBVIOUS
  <2>1. CASE UNCHANGED vars
    BY <2>1 DEF vars, fileVars, runVars, TypeInv, TypeOK, TextRead, OwnedInv, OwnedSurvive,
               BuildAlone, LoopsInside, OwnedRecorded, Active, Present
  <2>2. CASE Next
    <3>1. TypeInv'
      BY <2>2, StartType, StepType, InterruptType, UserType DEF Next
    <3>2. OwnedInv'
      BY <2>2, StartOwned, StepOwned, InterruptOwned, UserOwned DEF Next
    <3> QED BY <3>1, <3>2
  <2> QED BY <2>1, <2>2
<1>2. Both => OwnedSurvive
  BY DEF OwnedInv
<1> QED BY InitType, InitOwned, <1>1, <1>2, PTL DEF Spec

-----------------------------------------------------------------------------
AloneInv == AtMostOne /\ ScratchInv

LEMMA InitAlone == Init => AloneInv
  BY DEF Init, AloneInv, AtMostOne, ScratchInv, NothingLeftBehind, Active, Quiet, Present, Missing

LEMMA StartAlone ==
  ASSUME TypeInv, AloneInv, MaxActive = 1, NEW r \in Runs, NEW k \in Kinds, Start(r, k)
  PROVE  AloneInv'
<1> USE DEF TypeInv, TypeOK
<1>1. PICK dir \in BOOLEAN, files \in SUBSET Sources : StartOn(r, k, dir, files)
  BY DEF Start, Tree
<1>2. Quiet
  BY <1>1, NoneActive DEF StartOn
<1>3. /\ UNCHANGED <<disk, owned, lost>>
      /\ generated' = [generated EXCEPT ![r] = {}] /\ pre' = [pre EXCEPT ![r] = {}]
      /\ pc' \in {[pc EXCEPT ![r] = "done"], [pc EXCEPT ![r] = "stat"], [pc EXCEPT ![r] = "read"]}
  BY <1>1 DEF StartOn, Goto, Finish, fileVars
<1>4. \A q \in Runs : Active(q)' => q = r
  BY <1>2, <1>3 DEF Quiet, Active
<1>5. AtMostOne'
  BY <1>4 DEF AtMostOne
<1>6. (Present \subseteq owned \cup lost)'
  BY <1>2, <1>3 DEF AloneInv, ScratchInv, NothingLeftBehind, Present
<1>7. ScratchInv'
  BY <1>3, <1>4, <1>6 DEF ScratchInv, NothingLeftBehind
<1> QED BY <1>5, <1>7 DEF AloneInv

(* The file a loop is at is the only one: Rank is one-to-one. *)
LEMMA OneNext ==
  ASSUME NEW r \in Runs, NEW s \in Sources, NEW u \in Sources, IsNext(r, s), IsNext(r, u)
  PROVE  u = s
<1>1. Rank[s] = Rank[u]
  BY RunsAssumption DEF IsNext
<1> QED BY <1>1, RunsAssumption

LEMMA StepAlone ==
  ASSUME TypeInv, OwnedInv, AloneInv, NEW r \in Runs, RunStep(r)
  PROVE  AloneInv'
<1> USE DEF TypeInv, TypeOK, Goto, Skip, Finish, fileVars
<1>0. UNCHANGED kind
  BY DEF RunStep, StatOutput, EndStat, ReadSource, OpenOutput, WriteOutput, WriteFails,
         EndTranspile, GoTest, RemoveOutput, EndCleanup
<1>a. Active(r) /\ \A q \in Runs : Active(q)' => Active(q)
  BY DEF Active, RunStep, StatOutput, EndStat, ReadSource, OpenOutput, WriteOutput, WriteFails,
         EndTranspile, GoTest, RemoveOutput, EndCleanup, Pcs
<1>b. \A q \in Runs : Active(q)' => q = r
  BY <1>a DEF AloneInv, AtMostOne
<1>c. AtMostOne'
  BY <1>b DEF AtMostOne
<1>d. /\ Present \subseteq owned \cup lost \cup Scratch(r)
      /\ pre[r] \subseteq owned \cup lost
      /\ pc[r] = "stat" => generated[r] = {}
      /\ pc[r] = "cleanup" => \A s \in todo[r] : \E w \in generated[r] : w[1] = s
      /\ kind[r] = "check" => generated[r] = {}
      /\ kind[r] = "build" => \A w \in generated[r] : GeneratedPathFor(w[1]) \in owned
  BY <1>a DEF AloneInv, ScratchInv
<1> SUFFICES
      /\ (Present \subseteq owned \cup lost \cup Scratch(r))'
      /\ ~Active(r)' => (Present \subseteq owned \cup lost)'
      /\ (pre[r] \subseteq owned \cup lost)'
      /\ (pc[r] = "stat" => generated[r] = {})'
      /\ (pc[r] = "cleanup" => \A s \in todo[r] : \E w \in generated[r] : w[1] = s)'
      /\ (kind[r] = "check" => generated[r] = {})'
      /\ (kind[r] = "build" => \A w \in generated[r] : GeneratedPathFor(w[1]) \in owned)'
  <2>1. Quiet' => ~Active(r)'
    BY DEF Quiet
  <2> QED BY <1>b, <1>c, <2>1 DEF AloneInv, ScratchInv, NothingLeftBehind
<1>1. CASE StatOutput(r)
  <2>1. /\ pc[r] = "stat" /\ UNCHANGED <<disk, owned, lost, pc, generated>>
        /\ \E s \in Sources : pre' = [pre EXCEPT ![r] = @ \cup ({GeneratedPathFor(s)} \cap Present)]
    BY <1>1 DEF StatOutput
  <2>2. Scratch(r) = {} /\ Scratch(r)' = {}
    BY <1>d, <2>1 DEF Scratch
  <2> QED BY <1>0, <1>a, <1>d, <2>1, <2>2 DEF Present, Active
<1>2. CASE EndStat(r)
  <2>1. /\ pc[r] = "stat" /\ pc' = [pc EXCEPT ![r] = "read"]
        /\ UNCHANGED <<disk, owned, lost, pre, generated>>
    BY <1>2 DEF EndStat
  <2>2. Scratch(r) = {}
    BY <1>d, <2>1 DEF Scratch
  <2> QED BY <1>0, <1>d, <2>1, <2>2 DEF Present, Active
<1>3. CASE ReadSource(r)
  <2>1. /\ pc[r] = "read" /\ pc' \in {pc, [pc EXCEPT ![r] = "open"]}
        /\ UNCHANGED <<disk, owned, lost, pre, generated>>
    BY <1>3 DEF ReadSource
  <2>2. Scratch(r)' = Scratch(r)
    BY <2>1 DEF Scratch
  <2> QED BY <1>0, <1>d, <2>1, <2>2 DEF Present, Active
<1>4. CASE OpenOutput(r)
  <2>1. PICK s \in Sources : IsNext(r, s) /\ disk' = [disk EXCEPT ![GeneratedPathFor(s)] = Partial]
    BY <1>4 DEF OpenOutput
  <2>2. /\ pc[r] = "open" /\ pc' = [pc EXCEPT ![r] = "write"]
        /\ UNCHANGED <<owned, lost, pre, generated, todo>>
    BY <1>4 DEF OpenOutput
  <2>3. Present' \subseteq Present \cup {GeneratedPathFor(s)}
    BY <2>1 DEF Present
  <2>4. Scratch(r) \cup {GeneratedPathFor(s)} \subseteq Scratch(r)'
    BY <2>1, <2>2 DEF Scratch, IsNext
  <2> QED BY <1>0, <1>d, <2>2, <2>3, <2>4 DEF Active
<1>5. CASE WriteOutput(r)
  <2>1. PICK s \in Sources :
          /\ IsNext(r, s)
          /\ disk' = [disk EXCEPT ![GeneratedPathFor(s)] = Code(s, text[r])]
          /\ generated' = [generated EXCEPT ![r] = @ \cup {<<s, text[r]>>}]
          /\ IF kind[r] = "build"
               THEN owned' = owned \cup {GeneratedPathFor(s)} /\ lost' = lost \ {GeneratedPathFor(s)}
               ELSE UNCHANGED <<owned, lost>>
    BY <1>5 DEF WriteOutput
  <2>2. pc[r] = "write" /\ pc' = [pc EXCEPT ![r] = "read"] /\ UNCHANGED pre
    BY <1>5 DEF WriteOutput
  <2>3. Present' \subseteq Present \cup {GeneratedPathFor(s)}
    BY <2>1 DEF Present
  <2>4. Scratch(r) = {GeneratedPathFor(w[1]) : w \in generated[r]} \cup {GeneratedPathFor(s)}
    <3>1. {u \in Sources : pc[r] = "write" /\ IsNext(r, u)} = {s}
      BY <2>1, <2>2, OneNext
    <3> QED BY <2>2, <3>1 DEF Scratch
  <2>5. Scratch(r)' = {GeneratedPathFor(w[1]) : w \in generated'[r]}
    BY <2>2 DEF Scratch, GeneratedPathFor
  <2>6. generated'[r] = generated[r] \cup {<<s, text[r]>>}
    BY <2>1
  <2>7. Scratch(r) \subseteq Scratch(r)' /\ GeneratedPathFor(s) \in Scratch(r)'
    <3>1. <<s, text[r]>> \in generated'[r] /\ <<s, text[r]>>[1] = s
      BY <2>6
    <3>2. GeneratedPathFor(s) \in {GeneratedPathFor(w[1]) : w \in generated'[r]}
      BY <3>1
    <3>3. {GeneratedPathFor(w[1]) : w \in generated[r]}
            \subseteq {GeneratedPathFor(w[1]) : w \in generated'[r]}
      BY <2>6
    <3> QED BY <2>4, <2>5, <3>2, <3>3
  <2>8. kind[r] # "check"
    BY <1>5, <2>2 DEF OwnedInv, LoopsInside
  <2>9. owned \cup lost \subseteq owned' \cup lost'
    BY <2>1
  <2>10. kind[r] = "build" => \A w \in generated'[r] : GeneratedPathFor(w[1]) \in owned'
    BY <1>d, <2>1, <2>6
  <2> QED BY <1>0, <1>d, <2>2, <2>3, <2>7, <2>8, <2>9, <2>10 DEF Active, GeneratedPathFor
<1>6. CASE WriteFails(r)
  <2>1. PICK s \in Sources :
          /\ IsNext(r, s)
          /\ lost' = IF pc[r] = "write" THEN lost \cup ({GeneratedPathFor(s)} \ owned) ELSE lost
    BY <1>6 DEF WriteFails
  <2>2. /\ pc[r] \in {"open", "write"} /\ pc' = [pc EXCEPT ![r] = "read"]
        /\ UNCHANGED <<disk, owned, pre, generated>>
    BY <1>6 DEF WriteFails
  <2>3. Scratch(r) \subseteq Scratch(r)' \cup (IF pc[r] = "write" THEN {GeneratedPathFor(s)} ELSE {})
    <3>1. {u \in Sources : pc[r] = "write" /\ IsNext(r, u)} = IF pc[r] = "write" THEN {s} ELSE {}
      BY <2>1, OneNext
    <3> QED BY <2>2, <3>1 DEF Scratch
  <2> QED BY <1>0, <1>d, <2>1, <2>2, <2>3 DEF Active, Present
<1>7. CASE EndTranspile(r)
  <2>1. /\ pc[r] = "read"
        /\ UNCHANGED <<disk, owned, lost, pre, generated>>
        /\ \/ pc' = [pc EXCEPT ![r] = "done"] /\ kind[r] # "test" /\ todo' = todo
           \/ pc' = [pc EXCEPT ![r] = "cleanup"]
              /\ todo' = [todo EXCEPT ![r] = {w[1] : w \in generated[r]}]
           \/ pc' = [pc EXCEPT ![r] = "go_test"] /\ todo' = todo
    BY <1>7 DEF EndTranspile
  <2>2. {w[1] : w \in generated[r]} \in SUBSET Sources
    OBVIOUS
  <2>3. Scratch(r) = {GeneratedPathFor(w[1]) : w \in generated[r]} /\ Scratch(r)' = Scratch(r)
    BY <2>1, <2>2 DEF Scratch
  <2>4. kind[r] # "test" => Scratch(r) \subseteq owned
    BY <1>d, <2>3
  <2> QED BY <1>0, <1>d, <2>1, <2>3, <2>4 DEF Active, Present
<1>8. CASE GoTest(r)
  <2>1. /\ pc[r] = "go_test" /\ pc' = [pc EXCEPT ![r] = "cleanup"]
        /\ UNCHANGED <<disk, owned, lost, pre, generated>>
        /\ todo' = [todo EXCEPT ![r] = {w[1] : w \in generated[r]}]
    BY <1>8 DEF GoTest
  <2>2. {w[1] : w \in generated[r]} \in SUBSET Sources
    OBVIOUS
  <2>3. Scratch(r)' = Scratch(r)
    BY <2>1, <2>2 DEF Scratch
  <2> QED BY <1>0, <1>d, <2>1, <2>3 DEF Active, Present
<1>9. CASE RemoveOutput(r)
  <2>1. PICK s \in Sources :
          /\ s \in todo[r]
          /\ todo' = [todo EXCEPT ![r] = @ \ {s}]
          /\ \/ GeneratedPathFor(s) \in pre[r] /\ UNCHANGED <<disk, lost>>
             \/ /\ GeneratedPathFor(s) \notin pre[r]
                /\ disk' = [disk EXCEPT ![GeneratedPathFor(s)] = Missing]
                /\ lost' = lost \ {GeneratedPathFor(s)}
             \/ /\ GeneratedPathFor(s) \notin pre[r]
                /\ lost' = lost \cup (({GeneratedPathFor(s)} \cap Present) \ owned)
                /\ UNCHANGED disk
    BY <1>9 DEF RemoveOutput, IsNext
  <2>2. pc[r] = "cleanup" /\ UNCHANGED <<owned, pc, pre, generated>>
    BY <1>9 DEF RemoveOutput
  <2>3. Scratch(r) = {GeneratedPathFor(u) : u \in todo[r]}
    BY <2>2 DEF Scratch
  <2>4. Scratch(r)' = {GeneratedPathFor(u) : u \in todo[r] \ {s}}
    BY <2>1, <2>2 DEF Scratch, GeneratedPathFor
  <2>5. Scratch(r) \subseteq Scratch(r)' \cup {GeneratedPathFor(s)}
    BY <2>3, <2>4
  <2>6. (Present \subseteq owned \cup lost \cup Scratch(r))'
    <3>1. CASE GeneratedPathFor(s) \in pre[r]
      BY <1>d, <2>1, <2>2, <2>5, <3>1 DEF Present
    <3>2. CASE disk' = [disk EXCEPT ![GeneratedPathFor(s)] = Missing] /\ lost' = lost \ {GeneratedPathFor(s)}
      <4>1. Present' \subseteq Present \ {GeneratedPathFor(s)}
        BY <3>2 DEF Present
      <4> QED BY <1>d, <2>2, <2>5, <3>2, <4>1
    <3>3. CASE /\ lost' = lost \cup (({GeneratedPathFor(s)} \cap Present) \ owned)
               /\ UNCHANGED disk
      BY <1>d, <2>2, <2>5, <3>3 DEF Present
    <3> QED BY <2>1, <3>1, <3>2, <3>3
  <2>7. (pre[r] \subseteq owned \cup lost)'
    BY <1>d, <2>1, <2>2
  <2>8. (\A u \in todo[r] : \E w \in generated[r] : w[1] = u)'
    BY <1>d, <2>1, <2>2
  <2> QED BY <1>0, <1>a, <1>d, <2>2, <2>6, <2>7, <2>8 DEF Active
<1>10. CASE EndCleanup(r)
  <2>1. /\ pc[r] = "cleanup" /\ todo[r] = {} /\ pc' = [pc EXCEPT ![r] = "done"]
        /\ pre' = [pre EXCEPT ![r] = {}]
        /\ UNCHANGED <<disk, owned, lost, generated>>
    BY <1>10 DEF EndCleanup
  <2>2. Scratch(r) = {}
    BY <2>1 DEF Scratch
  <2> QED BY <1>0, <1>d, <2>1, <2>2 DEF Present, Active
<1> QED
  BY <1>1, <1>2, <1>3, <1>4, <1>5, <1>6, <1>7, <1>8, <1>9, <1>10 DEF RunStep

LEMMA InterruptAlone ==
  ASSUME TypeInv, AloneInv, NEW r \in Runs, Interrupt(r)
  PROVE  AloneInv'
<1> USE DEF TypeInv, TypeOK
<1>1. /\ Active(r) /\ pc' = [pc EXCEPT ![r] = "idle"]
      /\ UNCHANGED <<disk, owned>>
  BY DEF Interrupt, Goto
<1>2. \A q \in Runs : ~Active(q)'
  BY <1>1 DEF AloneInv, AtMostOne, Active
<1> DEFINE written == {GeneratedPathFor(w[1]) : w \in generated[r]}
           opened == {GeneratedPathFor(s) : s \in {u \in Sources : pc[r] = "write" /\ IsNext(r, u)}}
<1>3. lost' = lost \cup (((written \cup opened) \cap Present) \ owned)
  BY DEF Interrupt
<1>4. Present \subseteq owned \cup lost \cup Scratch(r)
  BY <1>1 DEF AloneInv, ScratchInv
<1>5. Scratch(r) \subseteq written \cup opened
  <2>1. pc[r] = "cleanup" => \A s \in todo[r] : \E w \in generated[r] : w[1] = s
    BY <1>1 DEF AloneInv, ScratchInv
  <2>2. CASE pc[r] = "cleanup"
    <3>1. {GeneratedPathFor(s) : s \in todo[r]} \subseteq written
      BY <2>1, <2>2
    <3> QED BY <2>2, <3>1 DEF Scratch
  <2>3. CASE pc[r] # "cleanup"
    BY <2>3 DEF Scratch
  <2> QED BY <2>2, <2>3
<1>6. (Present \subseteq owned \cup lost)'
  BY <1>1, <1>3, <1>4, <1>5 DEF Present
<1> QED BY <1>2, <1>6 DEF AloneInv, AtMostOne, ScratchInv, NothingLeftBehind

LEMMA UserAlone ==
  ASSUME TypeInv, AloneInv, User
  PROVE  AloneInv'
<1> USE DEF TypeInv, TypeOK, AloneInv
<1>0. UNCHANGED <<kind, todo, pre, generated, pc>>
  BY DEF User, Edit, Commit, Discard, runVars
<1>1. AtMostOne'
  BY <1>0 DEF AtMostOne, Active
<1>2. CASE \E s \in Sources, t \in Texts \cup {NoText} : Edit(s, t)
  <2>1. UNCHANGED <<disk, owned, lost>>
    BY <1>2 DEF Edit
  <2> QED BY <1>0, <1>1, <2>1 DEF ScratchInv, NothingLeftBehind, Quiet, Active, Present, Scratch, IsNext
<1>3. CASE \E b \in Bases : Commit(b) \/ Discard(b)
  <2>1. Quiet /\ Quiet'
    BY <1>0, <1>3 DEF Commit, Discard, Quiet, Active
  <2>2. (Present \subseteq owned \cup lost)'
    BY <1>3, <2>1 DEF Commit, Discard, ScratchInv, NothingLeftBehind, Present
  <2> QED BY <1>1, <2>1, <2>2 DEF ScratchInv, NothingLeftBehind, Quiet
<1> QED BY <1>2, <1>3 DEF User

LEMMA AloneStep ==
  ASSUME MaxActive = 1, TypeInv, OwnedInv, AloneInv, [Next]_vars
  PROVE  TypeInv' /\ OwnedInv' /\ AloneInv'
<1>1. CASE UNCHANGED vars
  BY <1>1 DEF vars, fileVars, runVars, TypeInv, TypeOK, TextRead, OwnedInv, OwnedSurvive,
             BuildAlone, LoopsInside, OwnedRecorded, Active, Present, AloneInv, AtMostOne,
             ScratchInv, NothingLeftBehind, Scratch, IsNext, Quiet
<1>2. CASE Next
  <2>1. TypeInv'
    BY <1>2, StartType, StepType, InterruptType, UserType DEF Next
  <2>2. OwnedInv'
    BY <1>2, StartOwned, StepOwned, InterruptOwned, UserOwned DEF Next, BuildsExclusive
  <2>3. AloneInv'
    BY <1>2, StartAlone, StepAlone, InterruptAlone, UserAlone DEF Next
  <2> QED BY <2>1, <2>2, <2>3
<1> QED BY <1>1, <1>2

(* One invocation after the other, `danmuji test` leaves no file of its    *)
(* own on disk: what is there afterwards somebody wants, or a fault left.  *)
THEOREM CleansUpAfterItself ==
  ASSUME MaxActive = 1
  PROVE  Spec => []NothingLeftBehind
<1> DEFINE All == TypeInv /\ OwnedInv /\ AloneInv
<1>1. All /\ [Next]_vars => All'
  BY AloneStep
<1>2. All => NothingLeftBehind
  BY DEF AloneInv, ScratchInv
<1> QED BY InitType, InitOwned, InitAlone, <1>1, <1>2, PTL DEF Spec

-----------------------------------------------------------------------------
AllInv == TypeInv /\ OwnedInv /\ AloneInv /\ TestedInv

LEMMA InitTested == Init => TestedInv
  BY DEF Init, TestedInv, TestedBy

LEMMA StartTested ==
  ASSUME AllInv, NEW r \in Runs, NEW k \in Kinds, Start(r, k), MaxActive = 1
  PROVE  TestedInv'
<1> USE DEF AllInv, TypeInv, TypeOK
<1>1. PICK dir \in BOOLEAN, files \in SUBSET Sources : StartOn(r, k, dir, files)
  BY DEF Start, Tree
<1>2. Quiet
  BY <1>1, NoneActive DEF StartOn
<1>3. ASSUME NEW q \in Runs \ {r}
      PROVE  kind'[q] = kind[q] /\ (TestedBy(q) => TestedBy(q)')
  <2>1. /\ kind'[q] = kind[q] /\ isDir'[q] = isDir[q] /\ collected'[q] = collected[q]
        /\ generated'[q] = generated[q] /\ exit'[q] = exit[q] /\ saw'[q] = saw[q]
        /\ pc'[q] = pc[q]
    BY <1>1 DEF StartOn, Goto, Finish
  <2>2. pc[q] \in {"idle", "done"}
    BY <1>2 DEF Quiet, Active
  <2> QED BY <2>1, <2>2 DEF TestedBy, Superseded, Listed, GeneratedPathFor
<1>4. kind'[r] = "test" => TestedBy(r)'
  <2>1. kind'[r] = k /\ pc'[r] \in {"stat", "read", "done"} /\ (pc'[r] = "read" => k # "test")
        /\ (pc'[r] = "done" /\ k = "test" => exit'[r] = 1)
    BY <1>1 DEF StartOn, Goto, Finish
  <2> QED BY <2>1 DEF TestedBy
<1> QED BY <1>3, <1>4 DEF TestedInv

(* The loops go through the files in the order of Rank.                    *)
LEMMA Visited ==
  ASSUME NEW r \in Runs, todo[r] \in SUBSET Sources, NEW s \in Sources, IsNext(r, s),
         \A u \in collected[r] \ todo[r], v \in todo[r] : Rank[u] < Rank[v]
  PROVE  \A u \in collected[r] \ (todo[r] \ {s}), v \in todo[r] \ {s} : Rank[u] < Rank[v]
<1>1. SUFFICES ASSUME NEW u \in collected[r] \ (todo[r] \ {s}), NEW v \in todo[r] \ {s}
               PROVE  Rank[u] < Rank[v]
  OBVIOUS
<1>2. CASE u = s
  <2>1. v \in Sources /\ v # s /\ Rank[s] <= Rank[v]
    BY DEF IsNext
  <2>2. Rank[s] # Rank[v] /\ Rank[s] \in Nat /\ Rank[v] \in Nat
    BY <2>1, RunsAssumption
  <2> QED BY <1>2, <2>1, <2>2
<1>3. CASE u # s
  BY <1>3
<1> QED BY <1>2, <1>3

LEMMA StepTested ==
  ASSUME AllInv, NEW r \in Runs, RunStep(r)
  PROVE  TestedInv'
<1> USE DEF AllInv, TypeInv, TypeOK, Goto, Skip, Finish, fileVars
<1>0. Active(r) /\ UNCHANGED <<kind, isDir, collected>>
  BY DEF Active, RunStep, StatOutput, EndStat, ReadSource, OpenOutput, WriteOutput, WriteFails,
         EndTranspile, GoTest, RemoveOutput, EndCleanup
<1>s. \A q \in Runs : \A u : Superseded(q, u)' <=> Superseded(q, u)
  BY <1>0 DEF Superseded, GeneratedPathFor
<1>l. \A q \in Runs : \A w : Listed(q, w)' <=> Listed(q, w)
  BY <1>0 DEF Listed, GeneratedPathFor
<1>1. \A q \in Runs \ {r} : ~Active(q)
  BY <1>0 DEF AloneInv, AtMostOne
<1>2. \A q \in Runs \ {r} :
        pc'[q] = pc[q] /\ exit'[q] = exit[q] /\ generated'[q] = generated[q] /\ saw'[q] = saw[q]
  BY DEF RunStep, StatOutput, EndStat, ReadSource, OpenOutput, WriteOutput, WriteFails,
         EndTranspile, GoTest, RemoveOutput, EndCleanup
<1>3. \A q \in Runs \ {r} : TestedBy(q) => TestedBy(q)'
  BY <1>0, <1>s, <1>l, <1>1, <1>2 DEF TestedBy, Active
<1>4. SUFFICES ASSUME kind[r] = "test", TestedBy(r) PROVE TestedBy(r)'
  BY <1>0, <1>3 DEF TestedInv
<1> DEFINE Intact(w) == disk[GeneratedPathFor(w[1])] = Code(w[1], w[2]) \/ Superseded(r, w[1])
<1>5. CASE StatOutput(r)
  <2>1. pc'[r] = "stat"
    BY <1>0, <1>5 DEF StatOutput
  <2> QED BY <2>1 DEF TestedBy
<1>6. CASE EndStat(r)
  <2>1. generated[r] = {} /\ pc[r] = "stat" /\ pc'[r] = "read"
    BY <1>0, <1>6 DEF EndStat, AloneInv, ScratchInv
  <2>2. todo'[r] = collected'[r] /\ generated'[r] = {}
    BY <1>0, <1>6, <2>1 DEF EndStat
  <2> QED BY <2>1, <2>2 DEF TestedBy
<1>7. CASE ReadSource(r)
  <2>1. PICK s \in Sources :
          /\ IsNext(r, s)
          /\ \/ failed'[r] /\ todo' = [todo EXCEPT ![r] = @ \ {s}] /\ pc' = pc
             \/ UNCHANGED <<failed, todo>> /\ pc'[r] = "open"
    BY <1>4, <1>7 DEF ReadSource
  <2>2. pc[r] = "read" /\ pc'[r] \in {"read", "open"} /\ UNCHANGED <<disk, generated>>
    BY <1>7, <2>1 DEF ReadSource
  <2>3. \A u \in collected'[r] \ todo'[r], v \in todo'[r] : Rank[u] < Rank[v]
    <3>1. \A u \in collected[r] \ todo[r], v \in todo[r] : Rank[u] < Rank[v]
      BY <1>4, <2>2 DEF TestedBy
    <3>2. todo[r] \in SUBSET Sources
      OBVIOUS
    <3> QED BY <1>0, <2>1, <3>1, <3>2, Visited
  <2>4. CASE failed'[r]
    BY <2>2, <2>3, <2>4 DEF TestedBy
  <2>5. CASE UNCHANGED <<failed, todo>>
    BY <1>0, <1>s, <1>4, <2>2, <2>3, <2>5 DEF TestedBy
  <2> QED BY <2>1, <2>4, <2>5
<1>8. CASE OpenOutput(r)
  <2>1. PICK s \in Sources :
          IsNext(r, s) /\ disk' = [disk EXCEPT ![GeneratedPathFor(s)] = Partial]
    BY <1>8 DEF OpenOutput
  <2>2. pc[r] = "open" /\ pc'[r] = "write" /\ UNCHANGED <<generated, failed, todo>>
    BY <1>8 DEF OpenOutput
  <2>3. ASSUME ~failed[r], NEW w \in generated[r]
        PROVE  Intact(w)'
    <3>1. w[1] \in collected[r] \ todo[r] /\ w[1] \in Sources
      BY <1>4, <2>2, <2>3 DEF TestedBy
    <3>2. Rank[w[1]] < Rank[s] /\ s \in collected[r]
      BY <1>4, <2>1, <2>2, <3>1 DEF TestedBy, IsNext, OwnedInv, LoopsInside
    <3>3. GeneratedPathFor(w[1]) \in Bases /\ GeneratedPathFor(w[1])' = GeneratedPathFor(w[1])
      BY <3>1 DEF Bases, GeneratedPathFor
    <3>4. CASE GeneratedPathFor(w[1]) = GeneratedPathFor(s)
      <4>1. Rank[s] > Rank[w[1]]
        BY <3>1, <3>2, RunsAssumption
      <4> QED BY <1>s, <3>2, <3>4, <4>1 DEF Superseded
    <3>5. CASE GeneratedPathFor(w[1]) # GeneratedPathFor(s)
      BY <1>s, <1>4, <2>1, <2>2, <2>3, <3>3, <3>5 DEF TestedBy
    <3> QED BY <3>4, <3>5
  <2>4. /\ \A u \in collected'[r] \ todo'[r], v \in todo'[r] : Rank[u] < Rank[v]
        /\ ~failed'[r] => {w[1] : w \in generated'[r]} = collected'[r] \ todo'[r]
    BY <1>0, <1>4, <2>2 DEF TestedBy
  <2> QED BY <2>2, <2>3, <2>4 DEF TestedBy
<1>9. CASE WriteOutput(r)
  <2>1. PICK s \in Sources :
          /\ IsNext(r, s)
          /\ disk' = [disk EXCEPT ![GeneratedPathFor(s)] = Code(s, text[r])]
          /\ generated' = [generated EXCEPT ![r] = @ \cup {<<s, text[r]>>}]
          /\ todo' = [todo EXCEPT ![r] = @ \ {s}]
    BY <1>9 DEF WriteOutput
  <2>2. pc[r] = "write" /\ pc'[r] = "read" /\ UNCHANGED failed
    BY <1>9 DEF WriteOutput
  <2>3. s \in collected[r] /\ s \in todo[r] BY <2>1 DEF OwnedInv, LoopsInside, IsNext
  <2>4. GeneratedPathFor(s) \in Bases BY DEF Bases, GeneratedPathFor
  <2>5. ASSUME ~failed[r]
        PROVE  {w[1] : w \in generated'[r]} = collected[r] \ todo'[r]
    <3>1. {w[1] : w \in generated[r]} = collected[r] \ todo[r]
      BY <1>4, <2>2, <2>5 DEF TestedBy
    <3>2. generated'[r] = generated[r] \cup {<<s, text[r]>>} BY <2>1
    <3>3. <<s, text[r]>>[1] = s OBVIOUS
    <3>4. \A u : (\E w \in generated'[r] : w[1] = u) <=> (\E w \in generated[r] : w[1] = u) \/ u = s
      BY <3>2, <3>3
    <3>5. \A u : (\E w \in generated[r] : w[1] = u) <=> u \in collected[r] \ todo[r]
      BY <3>1
    <3>6. \A u : (\E w \in generated'[r] : w[1] = u) <=> u \in collected[r] \ todo'[r]
      <4>1. todo'[r] = todo[r] \ {s} BY <2>1
      <4>2. \A u : u \in collected[r] \ todo'[r] <=> u \in collected[r] \ todo[r] \/ u = s
        BY <2>3, <4>1
      <4> QED BY <3>4, <3>5, <4>2
    <3>7. \A u : u \in {w[1] : w \in generated'[r]} <=> u \in collected[r] \ todo'[r]
      BY <3>6
    <3> QED BY <3>7
  <2>6. ASSUME ~failed[r], NEW w \in generated'[r]
        PROVE  Intact(w)'
    <3>1. CASE w = <<s, text[r]>>
      <4>1. disk'[GeneratedPathFor(s)] = Code(s, text[r]) BY <2>1, <2>4
      <4> QED BY <3>1, <4>1 DEF GeneratedPathFor
    <3>2. CASE w \in generated[r]
      <4>1. w[1] \in collected[r] \ todo[r] /\ w[1] \in Sources
        BY <1>4, <2>2, <2>6, <3>2 DEF TestedBy
      <4>2. Rank[w[1]] < Rank[s]
        BY <1>4, <2>2, <2>3, <4>1 DEF TestedBy
      <4>3. GeneratedPathFor(w[1]) \in Bases /\ GeneratedPathFor(w[1])' = GeneratedPathFor(w[1])
        BY <4>1 DEF Bases, GeneratedPathFor
      <4>4. CASE GeneratedPathFor(w[1]) = GeneratedPathFor(s)
        <5>1. Rank[s] > Rank[w[1]]
          BY <4>1, <4>2, RunsAssumption
        <5> QED BY <1>s, <2>3, <4>4, <5>1 DEF Superseded
      <4>5. CASE GeneratedPathFor(w[1]) # GeneratedPathFor(s)
        BY <1>s, <1>4, <2>1, <2>2, <2>6, <3>2, <4>3, <4>5 DEF TestedBy
      <4> QED BY <4>4, <4>5
    <3> QED BY <2>1, <2>6, <3>1, <3>2
  <2>7. \A u \in collected'[r] \ todo'[r], v \in todo'[r] : Rank[u] < Rank[v]
    <3>1. \A u \in collected[r] \ todo[r], v \in todo[r] : Rank[u] < Rank[v]
      BY <1>4, <2>2 DEF TestedBy
    <3>2. todo[r] \in SUBSET Sources
      OBVIOUS
    <3> QED BY <1>0, <2>1, <3>1, <3>2, Visited
  <2> QED BY <1>0, <2>2, <2>5, <2>6, <2>7 DEF TestedBy
<1>10. CASE WriteFails(r)
  <2>1. PICK s \in Sources : IsNext(r, s) /\ todo' = [todo EXCEPT ![r] = @ \ {s}]
    BY <1>10 DEF WriteFails
  <2>2. pc[r] \in {"open", "write"} /\ pc'[r] = "read" /\ failed'[r]
    BY <1>10 DEF WriteFails
  <2>3. \A u \in collected'[r] \ todo'[r], v \in todo'[r] : Rank[u] < Rank[v]
    <3>1. \A u \in collected[r] \ todo[r], v \in todo[r] : Rank[u] < Rank[v]
      BY <1>4, <2>2 DEF TestedBy
    <3>2. todo[r] \in SUBSET Sources
      OBVIOUS
    <3> QED BY <1>0, <2>1, <3>1, <3>2, Visited
  <2> QED BY <2>2, <2>3 DEF TestedBy
<1>11. CASE EndTranspile(r)
  <2>1. pc[r] = "read" /\ todo[r] = {} /\ UNCHANGED <<disk, generated, failed>>
    BY <1>11 DEF EndTranspile
  <2>2. CASE failed[r]
    BY <1>4, <1>11, <2>2 DEF EndTranspile, TestedBy
  <2>3. CASE ~failed[r]
    <3>1. pc'[r] = "go_test" /\ UNCHANGED todo
      BY <1>4, <1>11, <2>3 DEF EndTranspile
    <3> QED BY <1>0, <1>s, <1>4, <2>1, <2>3, <3>1 DEF TestedBy
  <2> QED BY <2>2, <2>3
<1>12. CASE GoTest(r)
  <2>1. {w[1] : w \in generated[r]} = collected[r]
    BY <1>4, <1>12 DEF GoTest, TestedBy
  <2>2. \A w \in generated[r] : Intact(w)
    BY <1>4, <1>12 DEF GoTest, TestedBy
  <2>3. \A w \in generated[r] : Listed(r, w) => w \in saw'[r] \/ Superseded(r, w[1])
    BY <1>12, <2>2 DEF GoTest
  <2>4. pc'[r] = "cleanup" /\ UNCHANGED generated
    BY <1>12 DEF GoTest
  <2> QED BY <1>0, <1>s, <1>l, <2>1, <2>3, <2>4 DEF TestedBy
<1>13. CASE RemoveOutput(r) \/ EndCleanup(r)
  <2>1. pc[r] = "cleanup" /\ pc'[r] \in {"cleanup", "done"} /\ UNCHANGED <<generated, saw, exit>>
    BY <1>13 DEF RemoveOutput, EndCleanup
  <2> QED BY <1>0, <1>s, <1>l, <1>4, <2>1 DEF TestedBy
<1> QED
  BY <1>5, <1>6, <1>7, <1>8, <1>9, <1>10, <1>11, <1>12, <1>13 DEF RunStep

LEMMA OtherTested ==
  ASSUME AllInv, User \/ \E r \in Runs : Interrupt(r)
  PROVE  TestedInv'
<1> USE DEF AllInv, TypeInv, TypeOK
<1>1. CASE User
  <2>1. UNCHANGED runVars BY <1>1 DEF User, Edit, Commit, Discard
  <2>2. UNCHANGED disk \/ Quiet BY <1>1 DEF User, Edit, Commit, Discard
  <2>3. \A r \in Runs : TestedBy(r) => TestedBy(r)'
    BY <2>1, <2>2 DEF runVars, TestedBy, Quiet, Active, Superseded, Listed, GeneratedPathFor
  <2> QED BY <2>1, <2>3 DEF TestedInv, runVars
<1>2. ASSUME NEW r \in Runs, Interrupt(r)
      PROVE  TestedInv'
  <2>1. pc'[r] = "idle" /\ UNCHANGED disk
    BY <1>2 DEF Interrupt, Goto
  <2>2. \A q \in Runs \ {r} :
          /\ kind'[q] = kind[q] /\ isDir'[q] = isDir[q] /\ collected'[q] = collected[q]
          /\ todo'[q] = todo[q] /\ generated'[q] = generated[q] /\ failed'[q] = failed[q]
          /\ exit'[q] = exit[q] /\ saw'[q] = saw[q] /\ pc'[q] = pc[q]
    BY <1>2 DEF Interrupt, Goto
  <2>3. \A q \in Runs \ {r} : TestedBy(q) => TestedBy(q)'
    BY <2>1, <2>2 DEF TestedBy, Superseded, Listed, GeneratedPathFor
  <2>4. TestedBy(r)'
    BY <2>1 DEF TestedBy
  <2> QED BY <2>2, <2>3, <2>4 DEF TestedInv
<1> QED BY <1>1, <1>2

(* One invocation after the other: when `danmuji test` passes, all it has  *)
(* collected was transpiled and go test has compiled the code of each that *)
(* it was asked for and no later file has overwritten, whatever was edited *)
(* or failed meanwhile.                                                    *)
THEOREM PassesAreTested ==
  ASSUME MaxActive = 1
  PROVE  Spec => []PassMeansTested
<1>1. AllInv /\ [Next]_vars => AllInv'
  <2> SUFFICES ASSUME AllInv, [Next]_vars PROVE AllInv'
    OBVIOUS
  <2>1. TypeInv' /\ OwnedInv' /\ AloneInv'
    BY AloneStep DEF AllInv
  <2>2. TestedInv'
    <3>1. CASE UNCHANGED vars
      BY <3>1 DEF vars, fileVars, runVars, AllInv, TestedInv, TestedBy, Superseded, Listed,
                  GeneratedPathFor
    <3>2. CASE Next
      BY <3>2, StartTested, StepTested, OtherTested DEF Next
    <3> QED BY <3>1, <3>2
  <2> QED BY <2>1, <2>2 DEF AllInv
<1>2. AllInv => PassMeansTested
  BY DEF AllInv, TestedInv, TestedBy, PassMeansTested
<1> QED BY InitType, InitOwned, InitAlone, InitTested, <1>1, <1>2, PTL DEF Spec, AllInv

-----------------------------------------------------------------------------
(* One invocation at a time takes only the steps that Commands promises,   *)
(* for any set of .dmj files, any texts and any faults.                    *)
OneSlot == MaxActive = 1 /\ Runs = {Slot}

LEMMA Distinct ==
  /\ Stray \notin Contents /\ Stray # Missing /\ Stray # Partial /\ Stray # Foreign
  /\ Missing # Partial /\ Missing # Foreign /\ Foreign # Partial
  /\ \A s, t : Code(s, t) # Partial /\ Code(s, t) # Missing /\ Code(s, t) # Stray
<1>1. /\ Stray.kind = "stray" /\ Missing.kind = "missing"
      /\ Partial.kind = "partial" /\ Foreign.kind = "foreign"
      /\ \A s, t : Code(s, t).kind = "code"
  BY DEF Stray, Missing, Partial, Foreign, Code
<1>2. \A c \in Contents : c.kind \in {"missing", "foreign", "partial", "code"}
  BY <1>1 DEF Contents
<1> QED BY <1>1, <1>2

Inv == TypeInv /\ OwnedInv /\ AloneInv /\ DeliverInv

LEMMA InitDeliver == OneSlot /\ Init => DeliverInv
<1> SUFFICES ASSUME OneSlot, Init PROVE ~Active(Slot)
  BY DEF DeliverInv
<1>1. Slot \in Runs
  BY DEF OneSlot
<1> QED BY <1>1 DEF Init, Active

LEMMA StartDeliver ==
  ASSUME OneSlot, Inv, NEW r \in Runs, NEW k \in Kinds, Start(r, k)
  PROVE  DeliverInv'
<1> USE DEF Inv, TypeInv, TypeOK, Goto, Finish
<1>1. PICK dir \in BOOLEAN, files \in SUBSET Sources : StartOn(r, k, dir, files)
  BY DEF Start, Tree
<1>2. r = Slot
  BY DEF OneSlot
<1>3. /\ pc'[Slot] \in {"done", "stat", "read"}
      /\ todo'[Slot] = collected'[Slot] /\ generated'[Slot] = {}
  BY <1>1, <1>2 DEF StartOn
<1> QED BY <1>3 DEF DeliverInv, Writing

LEMMA StepDeliver ==
  ASSUME OneSlot, Inv, NEW r \in Runs, RunStep(r)
  PROVE  DeliverInv'
<1> USE RunsAssumption DEF Inv, TypeInv, TypeOK, Goto, Skip, Finish, fileVars
<1>0. r = Slot /\ Slot \in Runs /\ Active(Slot)
  BY DEF OneSlot, Active, RunStep, StatOutput, EndStat, ReadSource, OpenOutput, WriteOutput,
         WriteFails, EndTranspile, GoTest, RemoveOutput, EndCleanup
<1>1. CASE StatOutput(r)
  BY <1>0, <1>1 DEF StatOutput, DeliverInv, Writing, OwnedInv, LoopsInside
<1>2. CASE EndStat(r)
  <2>1. /\ pc[Slot] = "stat" /\ pc'[Slot] = "read" /\ generated[Slot] = {} /\ UNCHANGED generated
        /\ todo'[Slot] = collected[Slot] /\ UNCHANGED collected
    BY <1>0, <1>2 DEF EndStat, AloneInv, ScratchInv
  <2> QED BY <2>1 DEF DeliverInv, Writing
<1>3. CASE ReadSource(r)
  <2>1. PICK s \in Sources :
          /\ IsNext(Slot, s)
          /\ \/ /\ failed' = [failed EXCEPT ![Slot] = TRUE] /\ pc' = pc
             \/ /\ kind[Slot] = "check" /\ pc' = pc
             \/ /\ text' = [text EXCEPT ![Slot] = source[s]]
                /\ Exists(s) /\ source[s] \notin Broken
                /\ pc' = [pc EXCEPT ![Slot] = "open"] /\ UNCHANGED <<failed, todo>>
    BY <1>0, <1>3 DEF ReadSource
  <2>2. pc[Slot] = "read" /\ UNCHANGED <<disk, kind, collected, generated, exit>>
    BY <1>0, <1>3 DEF ReadSource
  <2>3. pc'[Slot] \in {"read", "open"} /\ (pc'[Slot] = "open" => text'[Slot] \in Texts \ Broken)
    BY <2>1, <2>2 DEF Exists
  <2>4. \A b : ~Writing(b) /\ ~Writing(b)'
    BY <2>2, <2>3 DEF Writing
  <2>5. ASSUME kind'[Slot] # "check", ~failed'[Slot]
        PROVE  UNCHANGED <<failed, todo>>
    BY <1>0, <2>1, <2>2, <2>5
  <2>6. \A b : CodesOf(b)' = CodesOf(b)
    BY <2>2 DEF CodesOf
  <2>7. ASSUME kind[Slot] # "check", ~failed'[Slot]
        PROVE  /\ \A u \in collected[Slot] \ todo[Slot] : \E w \in generated[Slot] : w[1] = u
               /\ \A w \in generated[Slot] : disk[GeneratedPathFor(w[1])] \in CodesOf(GeneratedPathFor(w[1]))
    BY <1>0, <2>2, <2>4, <2>5, <2>7 DEF DeliverInv
  <2> QED BY <2>2, <2>3, <2>4, <2>5, <2>6, <2>7 DEF DeliverInv
<1>4. CASE OpenOutput(r)
  <2>1. PICK s \in Sources : IsNext(Slot, s) /\ disk' = [disk EXCEPT ![GeneratedPathFor(s)] = Partial]
    BY <1>0, <1>4 DEF OpenOutput
  <2>2. /\ pc[Slot] = "open" /\ pc' = [pc EXCEPT ![Slot] = "write"]
        /\ UNCHANGED <<kind, collected, todo, text, generated, failed, exit>>
    BY <1>0, <1>4 DEF OpenOutput
  <2>3. \A b : Writing(b)' <=> b = GeneratedPathFor(s)
    BY <1>0, <2>1, <2>2, OneNext DEF Writing, IsNext
  <2>4. \A b : ~Writing(b) /\ CodesOf(b)' = CodesOf(b)
    BY <1>0, <2>2 DEF Writing, CodesOf
  <2>5. \A b \in Bases : disk'[b] = IF b = GeneratedPathFor(s) THEN Partial ELSE disk[b]
    BY <2>1
  <2>6. \A w \in generated[Slot] : GeneratedPathFor(w[1]) \in Bases
    BY <1>0 DEF GeneratedPathFor, Bases
  <2>7. pc'[Slot] = "write" /\ text'[Slot] \in Texts \ Broken
    BY <1>0, <2>2 DEF DeliverInv
  <2>8. \A b \in Bases : Writing(b)' => disk'[b] = Partial
    BY <2>3, <2>5
  <2>9. ASSUME kind[Slot] # "check", ~failed[Slot]
        PROVE  /\ \A u \in collected[Slot] \ todo[Slot] : \E w \in generated[Slot] : w[1] = u
               /\ \A w \in generated[Slot] :
                    \/ Writing(GeneratedPathFor(w[1]))'
                    \/ disk'[GeneratedPathFor(w[1])] \in CodesOf(GeneratedPathFor(w[1]))
    BY <1>0, <2>2, <2>3, <2>4, <2>5, <2>6, <2>9 DEF DeliverInv
  <2>10. /\ kind'[Slot] = kind[Slot] /\ failed'[Slot] = failed[Slot] /\ todo'[Slot] = todo[Slot]
         /\ collected'[Slot] = collected[Slot] /\ generated'[Slot] = generated[Slot]
    BY <2>2
  <2>11. \A w \in generated'[Slot] : GeneratedPathFor(w[1])' = GeneratedPathFor(w[1])
    BY DEF GeneratedPathFor
  <2> QED BY <2>4, <2>7, <2>8, <2>9, <2>10, <2>11 DEF DeliverInv
<1>5. CASE WriteOutput(r)
  <2>1. PICK s \in Sources :
          /\ IsNext(Slot, s)
          /\ disk' = [disk EXCEPT ![GeneratedPathFor(s)] = Code(s, text[Slot])]
          /\ generated' = [generated EXCEPT ![Slot] = @ \cup {<<s, text[Slot]>>}]
          /\ todo' = [todo EXCEPT ![Slot] = @ \ {s}]
    BY <1>0, <1>5 DEF WriteOutput
  <2>2. /\ pc[Slot] = "write" /\ pc' = [pc EXCEPT ![Slot] = "read"]
        /\ UNCHANGED <<kind, collected, failed, exit>>
    BY <1>0, <1>5 DEF WriteOutput
  <2>3. \A b : ~Writing(b)' /\ CodesOf(b)' = CodesOf(b)
    BY <1>0, <2>2 DEF Writing, CodesOf
  <2>4. \A b : Writing(b) <=> b = GeneratedPathFor(s)
    BY <1>0, <2>1, <2>2, OneNext DEF Writing
  <2>5. s \in collected[Slot] /\ text[Slot] \in Texts \ Broken
    BY <1>0, <2>1, <2>2 DEF OwnedInv, LoopsInside, IsNext, DeliverInv
  <2>6. Code(s, text[Slot]) \in CodesOf(GeneratedPathFor(s))
    BY <2>5 DEF CodesOf
  <2>7. \A b \in Bases : disk'[b] = IF b = GeneratedPathFor(s) THEN Code(s, text[Slot]) ELSE disk[b]
    BY <2>1
  <2>8. generated'[Slot] = generated[Slot] \cup {<<s, text[Slot]>>} /\ todo'[Slot] = todo[Slot] \ {s}
    BY <1>0, <2>1
  <2>9. \A w \in generated'[Slot] : GeneratedPathFor(w[1]) \in Bases
    BY <1>0, <2>8 DEF GeneratedPathFor, Bases
  <2>10. ASSUME kind[Slot] # "check", ~failed[Slot]
         PROVE  /\ \A u \in collected[Slot] \ todo'[Slot] : \E w \in generated'[Slot] : w[1] = u
                /\ \A w \in generated'[Slot] : disk'[GeneratedPathFor(w[1])] \in CodesOf(GeneratedPathFor(w[1]))
    <3>1. /\ \A u \in collected[Slot] \ todo[Slot] : \E w \in generated[Slot] : w[1] = u
          /\ \A w \in generated[Slot] :
               \/ Writing(GeneratedPathFor(w[1]))
               \/ disk[GeneratedPathFor(w[1])] \in CodesOf(GeneratedPathFor(w[1]))
      BY <1>0, <2>2, <2>10 DEF DeliverInv
    <3>2. <<s, text[Slot]>> \in generated'[Slot] /\ <<s, text[Slot]>>[1] = s
      BY <2>8
    <3>3. \A u \in collected[Slot] \ todo'[Slot] : \E w \in generated'[Slot] : w[1] = u
      BY <3>1, <3>2, <2>8
    <3>4. ASSUME NEW w \in generated'[Slot]
          PROVE  disk'[GeneratedPathFor(w[1])] \in CodesOf(GeneratedPathFor(w[1]))
      <4>1. CASE GeneratedPathFor(w[1]) = GeneratedPathFor(s)
        BY <4>1, <2>6, <2>7, <2>9
      <4>2. CASE GeneratedPathFor(w[1]) # GeneratedPathFor(s)
        <5>1. w \in generated[Slot]
          BY <4>2, <2>8
        <5> QED BY <4>2, <5>1, <3>1, <2>4, <2>7, <2>9
      <4> QED BY <4>1, <4>2
    <3> QED BY <3>3, <3>4
  <2> QED BY <1>0, <2>2, <2>3, <2>10 DEF DeliverInv
<1>6. CASE WriteFails(r)
  <2>1. /\ pc'[Slot] = "read" /\ failed'[Slot]
    BY <1>0, <1>6 DEF WriteFails
  <2> QED BY <2>1 DEF DeliverInv, Writing
<1>7. CASE EndTranspile(r)
  <2>1. /\ pc[Slot] = "read" /\ todo[Slot] = {} /\ UNCHANGED <<disk, kind, collected, generated, failed>>
        /\ \/ pc'[Slot] = "done"
           \/ pc'[Slot] = "cleanup" /\ exit'[Slot] = 1
           \/ pc'[Slot] = "go_test" /\ ~failed[Slot] /\ UNCHANGED todo
    BY <1>0, <1>7 DEF EndTranspile
  <2>2. \A b : ~Writing(b) /\ ~Writing(b)' /\ CodesOf(b)' = CodesOf(b)
    BY <2>1 DEF Writing, CodesOf
  <2> QED BY <1>0, <2>1, <2>2 DEF DeliverInv, Active, GeneratedPathFor
<1>8. CASE GoTest(r)
  <2>1. /\ pc[Slot] = "go_test" /\ pc'[Slot] = "cleanup" /\ kind[Slot] = "test"
        /\ UNCHANGED <<disk, owned, collected>>
    BY <1>0, <1>8 DEF GoTest, OwnedInv, LoopsInside
  <2>2. \A b : ~Writing(b) /\ ~Writing(b)' /\ CodesOf(b)' = CodesOf(b)
    BY <2>1 DEF Writing, CodesOf
  <2>3. ASSUME NEW s \in collected[Slot]
        PROVE  disk[GeneratedPathFor(s)] \in CodesOf(GeneratedPathFor(s))
    BY <1>0, <2>1, <2>2, <2>3 DEF DeliverInv
  <2> QED BY <2>1, <2>2, <2>3 DEF DeliverInv, GeneratedPathFor
<1>9. CASE RemoveOutput(r)
  <2>1. PICK s \in Sources :
          /\ s \in todo[Slot]
          /\ \/ disk' = disk
             \/ GeneratedPathFor(s) \notin pre[Slot] /\ disk' = [disk EXCEPT ![GeneratedPathFor(s)] = Missing]
    BY <1>0, <1>9 DEF RemoveOutput, IsNext
  <2>2. pc[Slot] = "cleanup" /\ UNCHANGED <<pc, exit, kind, owned, collected>>
    BY <1>0, <1>9 DEF RemoveOutput
  <2>3. kind[Slot] = "test"
    BY <1>0, <2>2 DEF OwnedInv, LoopsInside
  <2>4. GeneratedPathFor(s) \notin pre[Slot] => GeneratedPathFor(s) \notin owned
    BY <1>0, <2>1, <2>2, <2>3 DEF OwnedInv, LoopsInside, OwnedRecorded
  <2>5. \A u \in collected[Slot] : GeneratedPathFor(u) \in owned =>
          disk'[GeneratedPathFor(u)] = disk[GeneratedPathFor(u)]
    BY <2>1, <2>4
  <2>6. \A b : ~Writing(b)' /\ CodesOf(b)' = CodesOf(b)
    BY <2>2 DEF Writing, CodesOf
  <2> QED BY <1>0, <2>2, <2>3, <2>5, <2>6 DEF DeliverInv, GeneratedPathFor
<1>10. CASE EndCleanup(r)
  BY <1>0, <1>10 DEF EndCleanup, DeliverInv, Active
<1> QED
  BY <1>1, <1>2, <1>3, <1>4, <1>5, <1>6, <1>7, <1>8, <1>9, <1>10 DEF RunStep

LEMMA OtherDeliver ==
  ASSUME OneSlot, Inv, (\E r \in Runs : Interrupt(r)) \/ User
  PROVE  DeliverInv'
<1> USE DEF Inv, TypeInv, TypeOK
<1>1. CASE \E r \in Runs : Interrupt(r)
  BY <1>1 DEF OneSlot, Interrupt, Goto, DeliverInv, Active
<1>2. CASE User
  <2>1. UNCHANGED runVars
    BY <1>2 DEF User, Edit, Commit, Discard
  <2>2. Active(Slot) => UNCHANGED disk
    BY <1>2 DEF OneSlot, User, Edit, Commit, Discard, Quiet
  <2>3. (Active(Slot)' => Active(Slot)) /\ (Active(Slot) => UNCHANGED owned)
    BY <1>2, <2>1 DEF runVars, Active, OneSlot, User, Edit, Commit, Discard, Quiet
  <2>4. \A b : Writing(b)' = Writing(b) /\ CodesOf(b)' = CodesOf(b)
    BY <2>1 DEF runVars, Writing, IsNext, CodesOf, GeneratedPathFor
  <2> QED BY <2>1, <2>2, <2>3, <2>4 DEF runVars, DeliverInv, GeneratedPathFor
<1> QED BY <1>1, <1>2

-----------------------------------------------------------------------------
LEMMA SeenOutputs == Seen!Outputs = Bases
  BY DEF Seen!Outputs, Bases, GeneratedPathFor

(* What is seen of the files when one of them changes, or none.            *)
SeenFiles == [b \in Bases |-> SeenFile(b)]

LEMMA FileStep ==
  ASSUME NEW o \in Bases, NEW content, SeenFile(o)' = content,
         \A b \in Bases \ {o} : SeenFile(b)' = SeenFile(b)
  PROVE  SeenFiles' = [SeenFiles EXCEPT ![o] = content]
  BY DEF SeenFiles, Bases

LEMMA FileSame ==
  ASSUME \A b \in Bases : SeenFile(b)' = SeenFile(b)
  PROVE  SeenFiles' = SeenFiles
  BY DEF SeenFiles, Bases

LEMMA StillActive ==
  ASSUME Active(Slot), Active(Slot)', UNCHANGED <<kind, collected>>
  PROVE  SeenFiles' = SeenFiles => UNCHANGED Seen!commandVars
  BY DEF Seen!commandVars, SeenVerdict, SeenFiles

(* The steps that change one file while a command runs.                    *)
LEMMA FileActions ==
  ASSUME Active(Slot), Active(Slot)', UNCHANGED <<kind, collected>>,
         collected[Slot] \in SUBSET Sources, NEW s \in collected[Slot], NEW content,
         SeenFiles' = [SeenFiles EXCEPT ![GeneratedPathFor(s)] = content],
         kind[Slot] \in {"test", "build"}
  PROVE  \/ content = Partial /\ SeenFile(GeneratedPathFor(s)) \notin {Missing, Stray}
         \/ /\ content \in {Code(s, t) : t \in Texts \ Broken}
            /\ kind[Slot] = "build" \/ SeenFile(GeneratedPathFor(s)) = Partial
         \/ content = Stray /\ SeenFile(GeneratedPathFor(s)) = Missing
         \/ kind[Slot] = "test" /\ content = Missing /\ SeenFile(GeneratedPathFor(s)) = Stray
         => Seen!Next
<1> DEFINE o == GeneratedPathFor(s)
<1>1. /\ s \in Sources /\ o \in Bases /\ o \in Seen!Outputs /\ o \in Seen!AskedFor
      /\ [u \in Sources |-> GeneratedPathFor(u)][s] = o /\ SeenFiles[o] = SeenFile(o)
  BY DEF Seen!Outputs, Seen!AskedFor, GeneratedPathFor, Bases, SeenFiles
<1>2. SeenVerdict' = SeenVerdict
  BY DEF SeenVerdict
<1>3. CASE content = Partial /\ SeenFile(o) \notin {Missing, Stray}
  <2>1. Seen!Truncate(o)
    BY <1>1, <1>2, <1>3 DEF Seen!Truncate, Seen!Wanted, SeenFiles
  <2> QED BY <1>1, <2>1 DEF Seen!Next
<1>4. CASE /\ content \in {Code(s, t) : t \in Texts \ Broken}
           /\ kind[Slot] = "build" \/ SeenFile(o) = Partial
  <2>1. Seen!Fill(s, content)
    BY <1>1, <1>2, <1>4 DEF Seen!Fill, SeenFiles
  <2> QED BY <1>1, <1>4, <2>1 DEF Seen!Next
<1>5. CASE content = Stray /\ SeenFile(o) = Missing
  <2>1. Seen!Spill(o)
    BY <1>1, <1>2, <1>5 DEF Seen!Spill, SeenFiles
  <2> QED BY <1>1, <2>1 DEF Seen!Next
<1>6. CASE kind[Slot] = "test" /\ content = Missing /\ SeenFile(o) = Stray
  <2>1. Seen!Sweep(o)
    BY <1>1, <1>2, <1>6 DEF Seen!Sweep, SeenFiles
  <2> QED BY <1>1, <2>1 DEF Seen!Next
<1> QED BY <1>3, <1>4, <1>5, <1>6

(* When the outputs asked for that somebody wants hold code of what was    *)
(* asked for, the command has delivered.                                   *)
LEMMA ShowsDelivered ==
  ASSUME Active(Slot), collected[Slot] \in SUBSET Sources, owned \in SUBSET Bases,
         kind[Slot] = "build" => \A s \in collected[Slot] : GeneratedPathFor(s) \in owned,
         \A s \in collected[Slot] : GeneratedPathFor(s) \in owned =>
           disk[GeneratedPathFor(s)] \in CodesOf(GeneratedPathFor(s))
  PROVE  Seen!Delivered
<1>1. SUFFICES ASSUME NEW o \in Seen!AskedFor, kind[Slot] = "build" \/ Seen!Wanted(o)
               PROVE  \E u \in collected[Slot] :
                        /\ [v \in Sources |-> GeneratedPathFor(v)][u] = o
                        /\ SeenFiles[o] \in [v \in Sources |-> {Code(v, t) : t \in Texts \ Broken}][u]
  BY DEF Seen!Delivered, SeenFiles
<1>2. PICK s \in collected[Slot] : o = GeneratedPathFor(s)
  BY DEF Seen!AskedFor
<1>3. o \in Bases
  BY <1>2 DEF GeneratedPathFor, Bases
<1>4. o \in owned
  BY <1>1, <1>2, <1>3 DEF Seen!Wanted, SeenFiles, SeenFile
<1>5. disk[o] \in CodesOf(o)
  BY <1>2, <1>4
<1>6. PICK u \in collected[Slot], t \in Texts \ Broken :
        GeneratedPathFor(u) = o /\ disk[o] = Code(u, t)
  BY <1>5 DEF CodesOf
<1> QED BY <1>3, <1>4, <1>6 DEF SeenFiles, SeenFile

LEMMA StepSeen ==
  ASSUME OneSlot, Inv, NEW r \in Runs, RunStep(r)
  PROVE  [Seen!Next]_(Seen!commandVars)
<1> USE DEF Inv, TypeInv, TypeOK, Goto, Skip, Finish, fileVars
<1>0. r = Slot /\ Slot \in Runs /\ Active(Slot)
  BY DEF OneSlot, Active, RunStep, StatOutput, EndStat, ReadSource, OpenOutput, WriteOutput,
         WriteFails, EndTranspile, GoTest, RemoveOutput, EndCleanup
<1>a. UNCHANGED <<kind, collected>>
  BY DEF RunStep, StatOutput, EndStat, ReadSource, OpenOutput, WriteOutput, WriteFails,
         EndTranspile, GoTest, RemoveOutput, EndCleanup
<1>b. collected[Slot] \in SUBSET Sources
  BY <1>0
<1>c. \A s \in Sources : IsNext(Slot, s) => s \in collected[Slot] /\ GeneratedPathFor(s) \in Bases
  BY <1>0 DEF IsNext, OwnedInv, LoopsInside, GeneratedPathFor, Bases
<1>1. CASE StatOutput(r) \/ EndStat(r) \/ ReadSource(r) \/ GoTest(r)
  <2>1. Active(Slot)' /\ UNCHANGED <<disk, owned, lost>>
    BY <1>0, <1>1 DEF Active, StatOutput, EndStat, ReadSource, GoTest
  <2>2. SeenFiles' = SeenFiles
    BY <2>1, FileSame DEF SeenFile
  <2> QED BY <1>0, <1>a, <2>1, <2>2, StillActive
<1>4. CASE OpenOutput(r)
  <2>1. PICK s \in Sources : IsNext(Slot, s) /\ disk' = [disk EXCEPT ![GeneratedPathFor(s)] = Partial]
    BY <1>0, <1>4 DEF OpenOutput
  <2>2. /\ pc[Slot] = "open" /\ pc' = [pc EXCEPT ![Slot] = "write"]
        /\ UNCHANGED <<owned, lost>>
    BY <1>0, <1>4 DEF OpenOutput
  <2>3. Active(Slot)' /\ kind[Slot] \in {"test", "build"}
    BY <1>0, <2>2 DEF Active, OwnedInv, LoopsInside
  <2>4. \A b \in Bases \ {GeneratedPathFor(s)} : SeenFile(b)' = SeenFile(b)
    BY <2>1, <2>2 DEF SeenFile
  <2>5. CASE GeneratedPathFor(s) \in owned
    <3>1. SeenFile(GeneratedPathFor(s))' = Partial
      BY <1>c, <2>1, <2>2, <2>5 DEF SeenFile, GeneratedPathFor
    <3>2. SeenFile(GeneratedPathFor(s)) \notin {Missing, Stray}
      BY <1>c, <2>1, <2>5, Distinct DEF SeenFile, OwnedInv, OwnedSurvive, Present
    <3>3. SeenFiles' = [SeenFiles EXCEPT ![GeneratedPathFor(s)] = Partial]
      BY <1>c, <2>1, <2>4, <3>1, FileStep
    <3> QED BY <1>0, <1>a, <1>b, <1>c, <2>1, <2>3, <3>2, <3>3, FileActions
  <2>6. CASE GeneratedPathFor(s) \notin owned
    <3>1. \A b \in Bases : SeenFile(b)' = SeenFile(b)
      BY <2>1, <2>2, <2>6 DEF SeenFile
    <3> QED BY <1>0, <1>a, <2>3, <3>1, FileSame, StillActive
  <2> QED BY <2>5, <2>6
<1>5. CASE WriteOutput(r)
  <2>1. PICK s \in Sources :
          /\ IsNext(Slot, s)
          /\ disk' = [disk EXCEPT ![GeneratedPathFor(s)] = Code(s, text[Slot])]
          /\ IF kind[Slot] = "build"
               THEN owned' = owned \cup {GeneratedPathFor(s)} /\ lost' = lost \ {GeneratedPathFor(s)}
               ELSE UNCHANGED <<owned, lost>>
    BY <1>0, <1>5 DEF WriteOutput
  <2>2. pc[Slot] = "write" /\ pc' = [pc EXCEPT ![Slot] = "read"]
    BY <1>0, <1>5 DEF WriteOutput
  <2>3. Active(Slot)' /\ kind[Slot] \in {"test", "build"}
    BY <1>0, <2>2 DEF Active, OwnedInv, LoopsInside
  <2>4. \A b \in Bases \ {GeneratedPathFor(s)} : SeenFile(b)' = SeenFile(b)
    BY <2>1 DEF SeenFile
  <2>5. Code(s, text[Slot]) \in {Code(s, t) : t \in Texts \ Broken}
    BY <1>0, <2>2 DEF DeliverInv
  <2>6. CASE kind[Slot] = "build" \/ GeneratedPathFor(s) \in owned
    <3>1. SeenFile(GeneratedPathFor(s))' = Code(s, text[Slot])
      BY <1>c, <2>1, <2>6 DEF SeenFile, GeneratedPathFor
    <3>2. kind[Slot] = "build" \/ SeenFile(GeneratedPathFor(s)) = Partial
      BY <1>0, <1>c, <2>1, <2>2, <2>6 DEF SeenFile, DeliverInv, Writing
    <3>3. SeenFiles' = [SeenFiles EXCEPT ![GeneratedPathFor(s)] = Code(s, text[Slot])]
      BY <1>c, <2>1, <2>4, <3>1, FileStep
    <3> QED BY <1>0, <1>a, <1>b, <1>c, <2>1, <2>3, <2>5, <3>2, <3>3, FileActions
  <2>7. CASE kind[Slot] # "build" /\ GeneratedPathFor(s) \notin owned
    <3>1. \A b \in Bases : SeenFile(b)' = SeenFile(b)
      BY <2>1, <2>7 DEF SeenFile
    <3> QED BY <1>0, <1>a, <2>3, <3>1, FileSame, StillActive
  <2> QED BY <2>6, <2>7
<1>6. CASE WriteFails(r)
  <2>1. PICK s \in Sources :
          /\ IsNext(Slot, s)
          /\ lost' = IF pc[Slot] = "write" THEN lost \cup ({GeneratedPathFor(s)} \ owned) ELSE lost
    BY <1>0, <1>6 DEF WriteFails
  <2>2. /\ pc[Slot] \in {"open", "write"} /\ pc' = [pc EXCEPT ![Slot] = "read"]
        /\ UNCHANGED <<disk, owned>>
    BY <1>0, <1>6 DEF WriteFails
  <2>3. Active(Slot)' /\ kind[Slot] \in {"test", "build"}
    BY <1>0, <2>2 DEF Active, OwnedInv, LoopsInside
  <2>4. \A b \in Bases \ {GeneratedPathFor(s)} : SeenFile(b)' = SeenFile(b)
    BY <2>1, <2>2 DEF SeenFile
  <2>5. CASE pc[Slot] = "write" /\ GeneratedPathFor(s) \notin owned \cup lost
    <3>1. SeenFile(GeneratedPathFor(s))' = Stray /\ SeenFile(GeneratedPathFor(s)) = Missing
      BY <2>1, <2>2, <2>5 DEF SeenFile, GeneratedPathFor
    <3>2. SeenFiles' = [SeenFiles EXCEPT ![GeneratedPathFor(s)] = Stray]
      BY <1>c, <2>1, <2>4, <3>1, FileStep
    <3> QED BY <1>0, <1>a, <1>b, <1>c, <2>1, <2>3, <3>1, <3>2, FileActions
  <2>6. CASE ~(pc[Slot] = "write" /\ GeneratedPathFor(s) \notin owned \cup lost)
    <3>1. \A b \in Bases : SeenFile(b)' = SeenFile(b)
      BY <2>1, <2>2, <2>6 DEF SeenFile
    <3> QED BY <1>0, <1>a, <2>3, <3>1, FileSame, StillActive
  <2> QED BY <2>5, <2>6
<1>7. CASE EndTranspile(r)
  <2>1. pc[Slot] = "read" /\ todo[Slot] = {} /\ UNCHANGED <<disk, owned, lost>>
    BY <1>0, <1>7 DEF EndTranspile
  <2>2. SeenFiles' = SeenFiles
    BY <2>1, FileSame DEF SeenFile
  <2>3. CASE kind[Slot] = "test"
    <3>1. Active(Slot)'
      BY <1>0, <1>7, <2>3 DEF EndTranspile, Active
    <3> QED BY <1>0, <1>a, <2>2, <3>1, StillActive
  <2>4. CASE kind[Slot] # "test"
    <3>1. /\ pc'[Slot] = "done"
          /\ exit'[Slot] = IF failed[Slot] THEN 1 ELSE 0
      BY <1>0, <1>7, <2>4 DEF EndTranspile
    <3>2. Seen!Delivered \/ failed[Slot]
      <4>1. SUFFICES ASSUME ~failed[Slot] PROVE Seen!Delivered
        OBVIOUS
      <4>2. CASE kind[Slot] = "check"
        BY <1>0, <4>2 DEF Seen!Delivered
      <4>3. CASE kind[Slot] = "build"
        <5>1. ASSUME NEW s \in collected[Slot]
              PROVE  /\ GeneratedPathFor(s) \in owned
                     /\ disk[GeneratedPathFor(s)] \in CodesOf(GeneratedPathFor(s))
          <6>1. PICK w \in generated[Slot] : w[1] = s
            BY <1>0, <2>1, <4>1, <4>3 DEF DeliverInv
          <6>2. GeneratedPathFor(s) \in owned
            BY <1>0, <4>3, <6>1 DEF AloneInv, ScratchInv
          <6>3. ~Writing(GeneratedPathFor(s))
            BY <2>1 DEF Writing
          <6> QED BY <1>0, <2>1, <4>1, <4>3, <6>1, <6>2, <6>3 DEF DeliverInv
        <5> QED BY <1>0, <1>b, <5>1, ShowsDelivered
      <4> QED BY <1>0, <2>4, <4>2, <4>3
    <3>3. Seen!End(IF failed[Slot] THEN "failed" ELSE "passed")
      BY <1>0, <2>2, <3>1, <3>2 DEF Seen!End, SeenVerdict, SeenFiles, Active
    <3> QED BY <3>3 DEF Seen!Next
  <2> QED BY <2>3, <2>4
<1>9. CASE RemoveOutput(r)
  <2>1. PICK s \in Sources :
          /\ IsNext(Slot, s)
          /\ \/ GeneratedPathFor(s) \in pre[Slot] /\ UNCHANGED <<disk, lost>>
             \/ /\ GeneratedPathFor(s) \notin pre[Slot]
                /\ disk' = [disk EXCEPT ![GeneratedPathFor(s)] = Missing]
                /\ lost' = lost \ {GeneratedPathFor(s)}
             \/ /\ GeneratedPathFor(s) \notin pre[Slot]
                /\ lost' = lost \cup (({GeneratedPathFor(s)} \cap Present) \ owned)
                /\ UNCHANGED disk
    BY <1>0, <1>9 DEF RemoveOutput
  <2>2. pc[Slot] = "cleanup" /\ UNCHANGED <<owned, pc>>
    BY <1>0, <1>9 DEF RemoveOutput
  <2>3. Active(Slot)' /\ kind[Slot] = "test"
    BY <1>0, <2>2 DEF Active, OwnedInv, LoopsInside
  <2>4. GeneratedPathFor(s) \in pre[Slot] \/ GeneratedPathFor(s) \notin owned
    BY <1>0, <1>c, <2>1, <2>2, <2>3 DEF OwnedInv, OwnedRecorded
  <2>5. \A b \in Bases \ {GeneratedPathFor(s)} : SeenFile(b)' = SeenFile(b)
    BY <2>1, <2>2 DEF SeenFile
  <2>6. CASE SeenFile(GeneratedPathFor(s))' = SeenFile(GeneratedPathFor(s))
    <3>1. \A b \in Bases : SeenFile(b)' = SeenFile(b)
      BY <2>5, <2>6 DEF GeneratedPathFor
    <3> QED BY <1>0, <1>a, <2>3, <3>1, FileSame, StillActive
  <2>7. CASE SeenFile(GeneratedPathFor(s))' # SeenFile(GeneratedPathFor(s))
    <3>1. \/ SeenFile(GeneratedPathFor(s))' = Missing /\ SeenFile(GeneratedPathFor(s)) = Stray
          \/ SeenFile(GeneratedPathFor(s))' = Stray /\ SeenFile(GeneratedPathFor(s)) = Missing
      BY <1>c, <2>1, <2>2, <2>4, <2>7 DEF SeenFile, GeneratedPathFor
    <3>2. SeenFiles' = [SeenFiles EXCEPT ![GeneratedPathFor(s)] = SeenFile(GeneratedPathFor(s))']
      BY <1>c, <2>1, <2>5, FileStep DEF GeneratedPathFor
    <3> QED BY <1>0, <1>a, <1>b, <1>c, <2>1, <2>3, <3>1, <3>2, FileActions
  <2> QED BY <2>6, <2>7
<1>10. CASE EndCleanup(r)
  <2>1. /\ pc[Slot] = "cleanup" /\ pc'[Slot] = "done"
        /\ UNCHANGED <<disk, owned, lost, exit>>
    BY <1>0, <1>10 DEF EndCleanup
  <2>2. SeenFiles' = SeenFiles
    BY <2>1, FileSame DEF SeenFile
  <2>3. kind[Slot] = "test"
    BY <1>0, <2>1 DEF OwnedInv, LoopsInside
  <2>4. ASSUME exit[Slot] = 0
        PROVE  Seen!Delivered
    <3>1. \A s \in collected[Slot] : GeneratedPathFor(s) \in owned =>
            disk[GeneratedPathFor(s)] \in CodesOf(GeneratedPathFor(s))
      BY <1>0, <2>1, <2>4 DEF DeliverInv
    <3> QED BY <1>0, <1>b, <2>3, <3>1, ShowsDelivered
  <2>5. Seen!End(IF exit[Slot] = 0 THEN "passed" ELSE "failed")
    BY <1>0, <2>1, <2>2, <2>4 DEF Seen!End, SeenVerdict, SeenFiles, Active
  <2> QED BY <2>5 DEF Seen!Next
<1> QED
  BY <1>1, <1>4, <1>5, <1>6, <1>7, <1>9, <1>10 DEF RunStep

LEMMA StartSeen ==
  ASSUME OneSlot, Inv, NEW r \in Runs, NEW k \in Kinds, Start(r, k)
  PROVE  Seen!Next
<1> USE DEF Inv, TypeInv, TypeOK, Goto, Finish
<1>1. PICK dir \in BOOLEAN, files \in SUBSET Sources : StartOn(r, k, dir, files)
  BY DEF Start, Tree
<1>2. r = Slot /\ Slot \in Runs /\ ~Active(Slot)
  BY <1>1 DEF OneSlot, StartOn
<1>3. SeenFiles' = SeenFiles
  BY <1>1, FileSame DEF StartOn, fileVars, SeenFile
<1>4. k \in {"test", "build", "check"}
  BY RunsAssumption
<1>5. CASE files = {}
  <2>1. pc'[Slot] = "done" /\ exit'[Slot] = IF k = "build" THEN 0 ELSE 1
    BY <1>1, <1>2, <1>5 DEF StartOn
  <2>2. Seen!Start(k, files)
    BY <1>2, <1>3, <1>5, <2>1 DEF Seen!Start, SeenVerdict, SeenFiles, Active
  <2> QED BY <1>4, <2>2 DEF Seen!Next
<1>6. CASE files # {}
  <2>1. pc'[Slot] \in {"stat", "read"} /\ kind'[Slot] = k /\ collected'[Slot] = files
    BY <1>1, <1>2, <1>6 DEF StartOn
  <2>2. Seen!Start(k, files)
    BY <1>2, <1>3, <1>6, <2>1 DEF Seen!Start, SeenVerdict, SeenFiles, Active
  <2> QED BY <1>4, <2>2 DEF Seen!Next
<1> QED BY <1>5, <1>6

LEMMA InterruptSeen ==
  ASSUME OneSlot, Inv, NEW r \in Runs, Interrupt(r)
  PROVE  Seen!Next
<1> USE DEF Inv, TypeInv, TypeOK, Goto
<1>0. /\ r = Slot /\ Slot \in Runs /\ Active(Slot)
      /\ pc'[Slot] = "idle" /\ UNCHANGED <<disk, owned>>
  BY DEF OneSlot, Interrupt
<1> DEFINE written == {GeneratedPathFor(w[1]) : w \in generated[Slot]}
           opened == {GeneratedPathFor(s) : s \in {u \in Sources : pc[Slot] = "write" /\ IsNext(Slot, u)}}
           stays == lost' \ (lost \cup owned)
<1>1. lost' = lost \cup (((written \cup opened) \cap Present) \ owned)
  BY <1>0 DEF Interrupt
<1>2. written \subseteq {GeneratedPathFor(s) : s \in collected[Slot]}
  BY <1>0 DEF OwnedInv, LoopsInside
<1>3. opened \subseteq {GeneratedPathFor(s) : s \in collected[Slot]}
  BY <1>0 DEF OwnedInv, LoopsInside, IsNext
<1>4. stays \subseteq Seen!AskedFor
  <2>1. {GeneratedPathFor(s) : s \in collected[Slot]} \subseteq Seen!AskedFor
    BY <1>0 DEF Seen!AskedFor, GeneratedPathFor
  <2>2. stays \subseteq written \cup opened
    BY <1>1
  <2> HIDE DEF stays, written, opened
  <2> QED BY <1>2, <1>3, <2>1, <2>2
<1>5. ASSUME NEW b \in Bases
      PROVE  SeenFile(b)' = IF b \in stays /\ SeenFile(b) = Missing THEN Stray ELSE SeenFile(b)
  BY <1>0, <1>1, Distinct DEF SeenFile
<1>6. SeenFiles' = [o \in Seen!Outputs |-> IF o \in stays /\ SeenFiles[o] = Missing THEN Stray ELSE SeenFiles[o]]
  BY <1>5, SeenOutputs DEF SeenFiles, Bases
<1>7. Seen!Interrupt(stays)
  BY <1>0, <1>4, <1>6 DEF Seen!Interrupt, SeenVerdict, SeenFiles, Active
<1> QED BY <1>4, <1>7 DEF Seen!Next

LEMMA UserSeen ==
  ASSUME OneSlot, Inv, User
  PROVE  [Seen!Next]_(Seen!commandVars)
<1> USE DEF Inv, TypeInv, TypeOK
<1>0. UNCHANGED runVars /\ Slot \in Runs
  BY DEF OneSlot, User, Edit, Commit, Discard
<1>1. SeenVerdict' = SeenVerdict /\ (Active(Slot)' <=> Active(Slot)) /\ UNCHANGED <<kind, collected>>
  BY <1>0 DEF runVars, SeenVerdict, Active
<1>2. CASE \E s \in Sources, t \in Texts \cup {NoText} : Edit(s, t)
  <2>1. SeenFiles' = SeenFiles
    BY <1>2, FileSame DEF Edit, SeenFile
  <2> QED BY <1>1, <2>1 DEF Seen!commandVars, SeenFiles
<1>3. ASSUME NEW b \in Bases, Commit(b)
      PROVE  Seen!Next
  <2>1. SeenFile(b)' = Foreign /\ \A o \in Bases \ {b} : SeenFile(o)' = SeenFile(o)
    BY <1>3 DEF Commit, SeenFile
  <2>2. SeenFiles' = [SeenFiles EXCEPT ![b] = Foreign]
    BY <2>1, FileStep
  <2>3. SeenFile(b) \in {Missing, Stray} /\ ~Active(Slot)
    BY <1>0, <1>3 DEF Commit, SeenFile, Quiet
  <2>4. Seen!Commit(b)
    BY <1>1, <2>2, <2>3 DEF Seen!Commit, Seen!Wanted, SeenVerdict, SeenFiles
  <2> QED BY <2>4, SeenOutputs DEF Seen!Next
<1>4. ASSUME NEW b \in Bases, Discard(b)
      PROVE  Seen!Next
  <2>1. SeenFile(b)' = Missing /\ \A o \in Bases \ {b} : SeenFile(o)' = SeenFile(o)
    BY <1>4 DEF Discard, SeenFile
  <2>2. SeenFiles' = [SeenFiles EXCEPT ![b] = Missing]
    BY <2>1, FileStep
  <2>3. SeenFile(b) # Missing /\ ~Active(Slot)
    <3>1. Quiet /\ b \in Present
      BY <1>4 DEF Discard
    <3>2. b \in owned \cup lost
      BY <3>1 DEF AloneInv, ScratchInv, NothingLeftBehind
    <3> QED BY <1>0, <3>1, <3>2, Distinct DEF SeenFile, Present, Quiet
  <2>4. Seen!Discard(b)
    BY <1>1, <2>2, <2>3 DEF Seen!Discard, SeenVerdict, SeenFiles
  <2> QED BY <2>4, SeenOutputs DEF Seen!Next
<1> QED BY <1>2, <1>3, <1>4 DEF User

(* Whatever one invocation after the other reads, writes, removes and      *)
(* fails at, with any files and faults: seen from outside it takes only    *)
(* the steps that Commands promises.                                       *)
THEOREM RunsAreCommands ==
  ASSUME OneSlot
  PROVE  Spec => Seen!Safety
<1>1. Init => Seen!Init
  <2> SUFFICES ASSUME Init PROVE Seen!Init
    OBVIOUS
  <2>1. ~Active(Slot) /\ pc[Slot] = "idle"
    BY DEF Init, Active, OneSlot
  <2>2. SeenFiles \in [Bases -> {Missing, Foreign}]
    BY DEF Init, SeenFiles, SeenFile
  <2> QED BY <2>1, <2>2, SeenOutputs DEF Seen!Init, SeenVerdict, SeenFiles
<1>2. Init => Inv
  BY InitType, InitOwned, InitAlone, InitDeliver DEF Inv
<1>3. Inv /\ [Next]_vars => Inv'
  <2> SUFFICES ASSUME Inv, [Next]_vars PROVE Inv'
    OBVIOUS
  <2>1. TypeInv' /\ OwnedInv' /\ AloneInv'
    BY AloneStep DEF Inv, OneSlot
  <2>2. CASE UNCHANGED vars
    BY <2>1, <2>2 DEF vars, fileVars, runVars, Inv, DeliverInv, Active, Writing, IsNext, CodesOf
  <2>3. CASE Next
    <3>1. DeliverInv'
      BY <2>3, StartDeliver, StepDeliver, OtherDeliver DEF Next
    <3> QED BY <2>1, <3>1 DEF Inv
  <2> QED BY <2>2, <2>3
<1>4. Inv /\ [Next]_vars => [Seen!Next]_(Seen!commandVars)
  <2> SUFFICES ASSUME Inv, [Next]_vars PROVE [Seen!Next]_(Seen!commandVars)
    OBVIOUS
  <2>1. CASE UNCHANGED vars
    BY <2>1 DEF vars, fileVars, runVars, Seen!commandVars, SeenFile, SeenVerdict, Active
  <2>2. CASE Next
    BY <2>2, StartSeen, StepSeen, InterruptSeen, UserSeen DEF Next
  <2> QED BY <2>1, <2>2
<1> QED BY <1>1, <1>2, <1>3, <1>4, PTL DEF Spec, Seen!Safety

(***************************************************************************)
(* The watch never settles with a change to serve, for any files, edits,   *)
(* directories and overlapping runs.                                       *)
(***************************************************************************)

(* A run that is going to read s: it looks at what is on disk still, or    *)
(* has not come to s in its loop.                                          *)
WillRead(r, s) ==
  \/ pc[r] = "stat" /\ s \in collected[r]
  \/ pc[r] = "read" /\ s \in todo[r]
  \/ pc[r] \in {"open", "write"} /\ s \in todo[r] /\ ~IsNext(r, s)

Reported == \E i \in 1..Len(events) : events[i] = "dmj"

(* Why: a changed file is one that runs collect, and from its change on,   *)
(* outside new directories, there is an event for it, then the timer, then *)
(* a run that will read it.                                                *)
WatchTypes ==
  /\ events \in Seq({"dmj", "mkdir"})
  /\ phase \in {"start", "first", "loop", "gone"}
  /\ formatter # <<>> => formatter.of \in Sources /\ formatter.text \in Texts
  /\ unread \subseteq {s \in Tree : Target \in {TheTree, s}}

Served ==
  phase \in {"first", "loop"} =>
    \A s \in unread \ NewDir : Reported \/ armed \/ \E r \in Runs : WillRead(r, s)

WatchInv == TypeInv /\ WatchTypes /\ Served

LEMMA InitWatch == WatchInit => WatchInv
  BY InitType DEF WatchInit, WatchInv, WatchTypes, Served

LEMMA RunTestOnceServes ==
  ASSUME WatchInv, NEW r \in Runs, RunTestOnce(r)
  PROVE  /\ TypeInv'
         /\ source' = source
         /\ \A s \in unread : WillRead(r, s)'
<1> USE DEF WatchInv, TypeInv, TypeOK
<1>1. PICK files \in SUBSET Sources :
        /\ StartOn(r, "test", Target = TheTree, files)
        /\ files = IF Target = TheTree THEN Tree ELSE Tree \cap {Target}
  BY DEF RunTestOnce, Tree
<1>2. source' = source /\ unread \subseteq files
  BY <1>1 DEF StartOn, fileVars, WatchTypes
<1>3. TypeOK'
  BY <1>1 DEF StartOn, fileVars, Goto, Finish, Pcs
<1>4. TextRead'
  BY <1>1 DEF StartOn, Goto, Finish, TextRead
<1>5. files # {} => pc'[r] = "stat" /\ collected'[r] = files
  BY <1>1 DEF StartOn, Goto
<1> QED BY <1>2, <1>3, <1>4, <1>5 DEF WillRead

LEMMA StepServes ==
  ASSUME WatchInv, NEW r \in Runs, Step(r)
  PROVE  WatchInv'
<1> USE DEF WatchInv, TypeInv, TypeOK
<1>1. TypeInv'
  BY StepType DEF Step
<1>2. /\ UNCHANGED <<phase, events, armed, formatter>>
      /\ unread' = unread \ {s \in Sources : pc[r] = "read" /\ IsNext(r, s)}
  BY DEF Step
<1>3. /\ UNCHANGED <<source, collected>>
      /\ \A q \in Runs \ {r} : pc'[q] = pc[q] /\ todo'[q] = todo[q]
  BY DEF Step, RunStep, StatOutput, EndStat, ReadSource, OpenOutput, WriteOutput, WriteFails,
         EndTranspile, GoTest, RemoveOutput, EndCleanup, Goto, Skip, Finish, fileVars
<1>4. WatchTypes'
  BY <1>2, <1>3 DEF WatchTypes, Tree, Exists
<1>5. \A q \in Runs \ {r}, s \in Sources : WillRead(q, s) => WillRead(q, s)'
  BY <1>3 DEF WillRead, IsNext
<1>6. ASSUME NEW s \in Sources, WillRead(r, s), ~(pc[r] = "read" /\ IsNext(r, s))
      PROVE  WillRead(r, s)'
  <2> USE DEF Goto, Skip, Finish
  <2>1. CASE StatOutput(r)
    BY <1>3, <1>6, <2>1 DEF StatOutput, WillRead
  <2>2. CASE EndStat(r)
    BY <1>6, <2>2 DEF EndStat, WillRead
  <2>3. CASE ReadSource(r)
    <3>1. PICK u \in Sources :
            /\ IsNext(r, u)
            /\ \/ pc' = pc /\ todo' = [todo EXCEPT ![r] = @ \ {u}]
               \/ pc' = [pc EXCEPT ![r] = "open"] /\ todo' = todo
      BY <2>3 DEF ReadSource
    <3>2. pc[r] = "read" /\ s \in todo[r] /\ s # u /\ ~IsNext(r, s)
      BY <1>6, <2>3, <3>1 DEF ReadSource, WillRead
    <3> QED BY <3>1, <3>2 DEF WillRead, IsNext
  <2>4. CASE OpenOutput(r)
    BY <1>6, <2>4 DEF OpenOutput, WillRead, IsNext
  <2>5. CASE WriteOutput(r) \/ WriteFails(r)
    <3>1. PICK u \in Sources : IsNext(r, u) /\ todo' = [todo EXCEPT ![r] = @ \ {u}]
      BY <2>5 DEF WriteOutput, WriteFails
    <3>2. pc[r] \in {"open", "write"} /\ pc'[r] = "read" /\ s \in todo[r] /\ s # u
      BY <1>6, <2>5, <3>1 DEF WriteOutput, WriteFails, WillRead
    <3> QED BY <3>1, <3>2 DEF WillRead
  <2>6. CASE EndTranspile(r) \/ GoTest(r) \/ RemoveOutput(r) \/ EndCleanup(r)
    BY <1>6, <2>6 DEF EndTranspile, GoTest, RemoveOutput, EndCleanup, WillRead
  <2> QED BY <2>1, <2>2, <2>3, <2>4, <2>5, <2>6 DEF Step, RunStep
<1>7. Served'
  <2> SUFFICES ASSUME phase \in {"first", "loop"}, NEW s \in unread' \ NewDir, ~Reported, ~armed
               PROVE  \E q \in Runs : WillRead(q, s)'
    BY <1>2 DEF Served, Reported
  <2>1. s \in Sources /\ s \in unread /\ ~(pc[r] = "read" /\ IsNext(r, s))
    BY <1>2 DEF WatchTypes, Tree
  <2>2. PICK q \in Runs : WillRead(q, s)
    BY <2>1 DEF Served
  <2> QED BY <1>5, <1>6, <2>1, <2>2
<1> QED BY <1>1, <1>4, <1>7

(* A change of the file s to the text t, by whoever makes it.              *)
LEMMA ChangeServes ==
  ASSUME WatchInv, NEW s \in Sources, NEW t \in Texts \cup {NoText},
         source' = [source EXCEPT ![s] = t], UNCHANGED <<disk, owned, lost, runVars, phase, armed>>,
         Notify(s, t), formatter' # <<>> => formatter'.of \in Sources /\ formatter'.text \in Texts
  PROVE  WatchInv'
<1> USE DEF WatchInv, TypeInv, TypeOK
<1>1. TypeInv'
  BY DEF runVars, TextRead
<1>2. /\ events' = IF s \in NewDir /\ ~watched THEN events ELSE Append(events, "dmj")
      /\ unread' = IF t # NoText /\ Target \in {TheTree, s} THEN unread \cup {s} ELSE unread \ {s}
  BY DEF Notify
<1>3. events' \in Seq({"dmj", "mkdir"})
  BY <1>2 DEF WatchTypes
<1>4. \A u \in Sources : source'[u] = IF u = s THEN t ELSE source[u]
  OBVIOUS
<1>5. WatchTypes'
  BY <1>2, <1>3, <1>4 DEF WatchTypes, Tree, Exists
<1>6. (Reported => Reported') /\ (s \notin NewDir => Reported')
  <2>1. CASE events' = events /\ s \in NewDir
    BY <2>1 DEF Reported
  <2>2. CASE events' = Append(events, "dmj")
    <3>1. /\ Len(events') = Len(events) + 1 /\ Len(events) \in Nat
          /\ events'[Len(events) + 1] = "dmj"
          /\ \A i \in 1..Len(events) : events'[i] = events[i]
      BY <2>2 DEF WatchTypes
    <3>2. Reported'
      BY <3>1 DEF Reported
    <3> QED BY <3>2
  <2> QED BY <1>2, <2>1, <2>2
<1>7. \A u : \A r \in Runs : WillRead(r, u)' = WillRead(r, u)
  BY DEF runVars, WillRead, IsNext
<1>8. Served'
  BY <1>2, <1>6, <1>7 DEF Served
<1> QED BY <1>1, <1>5, <1>8

LEMMA OthersServe ==
  ASSUME WatchInv, WatchNext, ~\E r \in Runs : Step(r)
  PROVE  WatchInv'
<1> USE DEF WatchInv
<1>1. ASSUME NEW r \in Runs, FirstRun(r) \/ Fire(r)
      PROVE  WatchInv'
  <2>1. RunTestOnce(r) /\ UNCHANGED <<events, formatter, unread>> /\ phase' \in {"first", "loop"}
    BY <1>1 DEF FirstRun, Fire
  <2>2. WatchTypes'
    BY <2>1, RunTestOnceServes DEF WatchTypes, Tree, Exists
  <2> QED BY <2>1, <2>2, RunTestOnceServes DEF Served
<1>2. CASE EnterLoop
  <2>1. UNCHANGED <<vars, events, armed, formatter, unread>> /\ phase = "first" /\ phase' = "loop"
    BY <1>2 DEF EnterLoop
  <2> QED BY <2>1 DEF vars, fileVars, runVars, TypeInv, TypeOK, TextRead, WatchTypes, Tree, Exists, Served,
                      Reported, WillRead, IsNext
<1>3. CASE HandleChange \/ HandleDirectory
  <2>1. /\ UNCHANGED <<vars, phase, formatter, unread>>
        /\ events # <<>> /\ events' = Tail(events)
        /\ \/ armed' = TRUE
           \/ armed' = armed /\ Head(events) = "mkdir"
    <3>1. CASE HandleChange
      BY <3>1 DEF HandleChange
    <3>2. CASE HandleDirectory
      BY <3>2 DEF HandleDirectory
    <3> QED BY <1>3, <3>1, <3>2
  <2>2. events' \in Seq({"dmj", "mkdir"})
    BY <2>1 DEF WatchTypes
  <2>3. Reported /\ Head(events) = "mkdir" => Reported'
    BY <2>1 DEF WatchTypes, Reported
  <2>4. TypeInv' /\ WatchTypes'
    BY <2>1, <2>2 DEF vars, fileVars, runVars, TypeInv, TypeOK, TextRead, WatchTypes, Tree, Exists
  <2>5. \A u : \A r \in Runs : WillRead(r, u)' = WillRead(r, u)
    BY <2>1 DEF vars, runVars, WillRead, IsNext
  <2> QED BY <2>1, <2>3, <2>4, <2>5 DEF Served
<1>4. CASE Quit
  BY <1>4 DEF Quit, TypeInv, TypeOK, TextRead, Pcs, WatchTypes, Tree, Exists, Served, Present
<1>5. ASSUME NEW s \in Sources, NEW t \in Texts \cup {NoText}, Save(s, t)
      PROVE  WatchInv'
  BY <1>5, ChangeServes DEF Save, Edit, WatchTypes
<1>6. ASSUME NEW s \in Sources, FormatRead(s)
      PROVE  WatchInv'
  <2>1. /\ UNCHANGED <<vars, phase, events, armed, unread>>
        /\ formatter'.of \in Sources /\ formatter'.text \in Texts
    BY <1>6, WatchAssumption DEF FormatRead, TypeInv, TypeOK, Exists
  <2> QED BY <2>1 DEF vars, fileVars, runVars, TypeInv, TypeOK, TextRead, WatchTypes, Tree, Exists, Served,
                      Reported, WillRead, IsNext
<1>7. CASE FormatOpen
  <2>1. PICK t \in Torn : source' = [source EXCEPT ![formatter.of] = t] /\ Notify(formatter.of, t)
    BY <1>7 DEF FormatOpen
  <2>2. t \in Texts /\ formatter.of \in Sources /\ formatter'.of = formatter.of /\ formatter'.text = formatter.text
    BY <1>7, WatchAssumption DEF FormatOpen, WatchTypes
  <2>3. UNCHANGED <<disk, owned, lost, runVars, phase, armed>>
    BY <1>7 DEF FormatOpen
  <2>4. t \in Texts \cup {NoText}
        /\ (formatter' # <<>> => formatter'.of \in Sources /\ formatter'.text \in Texts)
    BY <1>7, <2>2 DEF FormatOpen, WatchTypes
  <2> QED BY <2>1, <2>2, <2>3, <2>4, ChangeServes
<1>8. CASE FormatWrite
  <2>1. formatter.of \in Sources /\ formatter.text \in Texts /\ formatter' = <<>>
    BY <1>8 DEF FormatWrite, WatchTypes
  <2> QED BY <1>8, <2>1, ChangeServes DEF FormatWrite
<1>9. CASE MakeDirectory
  <2>1. UNCHANGED <<vars, phase, armed, formatter, unread>> /\ events' = Append(events, "mkdir")
    BY <1>9 DEF MakeDirectory
  <2>2. events' \in Seq({"dmj", "mkdir"}) /\ (Reported => Reported')
    BY <2>1 DEF WatchTypes, Reported
  <2>3. TypeInv' /\ WatchTypes'
    BY <2>1, <2>2 DEF vars, fileVars, runVars, TypeInv, TypeOK, TextRead, WatchTypes, Tree, Exists
  <2>4. \A u : \A r \in Runs : WillRead(r, u)' = WillRead(r, u)
    BY <2>1 DEF vars, runVars, WillRead, IsNext
  <2> QED BY <2>1, <2>2, <2>3, <2>4 DEF Served
<1> QED BY <1>1, <1>2, <1>3, <1>4, <1>5, <1>6, <1>7, <1>8, <1>9 DEF WatchNext

(* However saves, formattings, events, the timer and overlapping runs fall *)
(* together, the watch is not quiet while a change of a file outside the   *)
(* directories made meanwhile has not been read (watchAndTest).            *)
THEOREM WatchServes == WatchSpec => []SettledMeansServed
<1>1. WatchInv /\ [WatchNext]_allVars => WatchInv'
  <2> SUFFICES ASSUME WatchInv, [WatchNext]_allVars PROVE WatchInv'
    OBVIOUS
  <2>1. CASE UNCHANGED allVars
    BY <2>1 DEF allVars, watchVars, vars, fileVars, runVars, WatchInv, TypeInv, TypeOK, TextRead, WatchTypes,
                Tree, Exists, Served, Reported, WillRead, IsNext
  <2>2. CASE WatchNext
    BY <2>2, StepServes, OthersServe
  <2> QED BY <2>1, <2>2
<1>2. WatchInv => SettledMeansServed
  BY DEF WatchInv, WatchTypes, Served, Reported, WillRead, SettledMeansServed, Quiet, Active
<1> QED BY InitWatch, <1>1, <1>2, PTL DEF WatchSpec
=============================================================================
