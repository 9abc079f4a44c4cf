-------------------------- MODULE Transpile_proofs --------------------------
(***************************************************************************)
(* Proofs about Transpile, for trees of any size: its types, the flags of  *)
(* the emitter, that the expectations of an accepted file count, and that  *)
(* declarations are written once.                                          *)
(***************************************************************************)
EXTENDS Transpile, SequenceTheorems, TLAPS

-----------------------------------------------------------------------------
(* What Write builds is a tree: Above(n) is the path from the file to n.   *)
TreeNode(n) ==
  /\ Parent(n) \in {Root} \cup There /\ Parent(n) < n
  /\ Above(n) = Around(Parent(n))
  /\ Above(n) \subseteq There
  /\ Type(n) \in {"test", "benchmark", "load"} => Parent(n) = Root
  /\ \A k \in Above(n) : k < n /\ Type(k) \in Blocks /\ Above(k) \subseteq Above(n)
  /\ \A k \in {Root} \cup Above(n) : \E m \in Around(n) : Parent(m) = k
  /\ \A j, k \in Around(n) : Parent(j) = Parent(k) => j = k

TreeInv == \A n \in There : TreeNode(n)

(* What emit makes of expect n, from the blocks around it.                 *)
Emitted(n) ==
  LET f == Dictated(Above(n))
  IN [form |-> IF f.exec THEN EmitExecExpect(Type(n), f) ELSE EmitExpect(f), var |-> f.testVar]

(* The walk has not begun.                                                 *)
Fresh == phase \in {"edit", "collect"} => seen = {} /\ at = Root /\ errors = {} /\ written = [d \in Nodes \cup Helpers |-> 0]

(* Where the walk is, and what it has done with the nodes it has seen.     *)
WalkInv ==
  /\ at \in {Root} \cup There /\ (at # Root => Type(at) \in Blocks)
  /\ seen \subseteq There
  /\ Around(at) \subseteq seen
  /\ flags = Dictated(Around(at))
  /\ \A m \in Around(at) : saved[m] = Dictated(Above(m))
  /\ \A n \in seen : Above(n) \subseteq seen /\ (Type(n) \in Expects => out[n] = Emitted(n))

(* What the walk has not seen yet is below a node that it will turn to.    *)
Ahead(n) == \E m \in Around(n) : m \notin seen /\ Parent(m) \in {Root} \cup Around(at)
AheadInv ==
  errors = {} => \A n \in There : Type(n) \in Expects /\ WellPlaced(n) => n \in seen \/ Ahead(n)

(* A declaration is either in the list or written.                         *)
DeclInv ==
  /\ phase \notin {"edit", "collect"} => \A d \in Declarations : written[d] = IF d \in mockDecls THEN 0 ELSE 1
  /\ \A n \in seen : Flushes(n) => mockDecls = {}

(* An accepted file has been walked to its end.                            *)
EndInv == phase = "accepted" => at = Root /\ Left = {} /\ errors = {} /\ ~NestedFunction

Inv == TypeOK /\ TreeInv /\ Fresh /\ WalkInv /\ AheadInv /\ DeclInv /\ EndInv
-----------------------------------------------------------------------------
LEMMA RootIsNoNode == Root \notin Nodes /\ Nodes \subseteq Nat
BY TranspileAssumption DEF Root, Nodes

LEMMA SourceType ==
  ASSUME TypeOK
  PROVE  /\ There = 1..Len(source) /\ Len(source) \in Nat
         /\ \A n \in There : Type(n) \in Blocks \cup Leaves /\ n \in Nat /\ n # Root
<1> DEFINE Node == [type : Blocks \cup Leaves, parent : {Root} \cup Nodes, above : SUBSET Nodes]
<1>1. source \in Seq(Node)
  BY DEF TypeOK
<1>2. There = 1..Len(source) /\ Len(source) \in Nat
  BY <1>1 DEF There
<1>3. ASSUME NEW n \in There
      PROVE  source[n].type \in Blocks \cup Leaves /\ n \in Nat /\ n # Root
  <2>1. source[n] \in Node
    <3> HIDE DEF Node
    <3> QED
      BY <1>1, <1>2, ElementOfSeq
  <2>2. n \in Nat /\ n # Root
    BY <1>2 DEF Root
  <2>3. QED
    BY <2>1, <2>2
<1>4. QED
  BY <1>2, <1>3 DEF Type

LEMMA NoFlagsDictated == Dictated({}) = NoFlags
BY DEF Dictated, NoFlags

LEMMA DictatedType == ASSUME NEW A PROVE Dictated(A) \in Flags
BY DEF Dictated, Flags

(* A block raises what it dictates.                                        *)
LEMMA RaisedDictated ==
  ASSUME TypeOK, TreeInv, NEW n \in There
  PROVE  Raised(Type(n), Dictated(Above(n))) = Dictated(Around(n))
<1>1. n # Root
  BY SourceType
<1>2. Around(n) = Above(n) \cup {n}
  BY <1>1 DEF Around
<1>3. Type(n) = "benchmark" => Above(n) = {}
  BY DEF TreeInv, TreeNode, Around
<1> DEFINE f == Dictated(Above(n))
<1>4. CASE Type(n) \in {"exec", "stop"}
  BY <1>2, <1>4 DEF Raised, Dictated
<1>5. CASE Type(n) = "eventually"
  BY <1>2, <1>5 DEF Raised, Dictated
<1>6. CASE Type(n) = "property"
  BY <1>2, <1>6 DEF Raised, Dictated
<1>7. CASE Type(n) = "benchmark"
  BY <1>2, <1>3, <1>7 DEF Raised, Dictated
<1>8. CASE Type(n) = "fuzz"
  BY <1>2, <1>8 DEF Raised, Dictated
<1>9. CASE Type(n) \notin {"exec", "stop", "eventually", "property", "benchmark", "fuzz"}
  <2>1. Raised(Type(n), f) = f
    BY <1>9 DEF Raised
  <2>2. Dictated(Around(n)) = f
    BY <1>2, <1>9 DEF Dictated
  <2>3. QED
    BY <2>1, <2>2
<1>10. QED
  BY <1>4, <1>5, <1>6, <1>7, <1>8, <1>9

(* ... and puts back what it has found.                                    *)
LEMMA RestoredDictated ==
  ASSUME TypeOK, TreeInv, NEW n \in There
  PROVE  Restored(Type(n), Dictated(Around(n)), Dictated(Above(n))) = Dictated(Above(n))
<1>1. n # Root
  BY SourceType
<1>2. Around(n) = Above(n) \cup {n}
  BY <1>1 DEF Around
<1>4. CASE Type(n) \in {"exec", "stop"}
  BY <1>2, <1>4 DEF Restored, Dictated
<1>5. CASE Type(n) = "eventually"
  BY <1>2, <1>5 DEF Restored, Dictated
<1>6. CASE Type(n) = "property"
  BY <1>2, <1>6 DEF Restored, Dictated
<1>7. CASE Type(n) \in {"benchmark", "fuzz"}
  BY <1>2, <1>7 DEF Restored, Dictated
<1>8. CASE Type(n) \notin {"exec", "stop", "eventually", "property", "benchmark", "fuzz"}
  <2>1. Dictated(Around(n)) = Dictated(Above(n))
    BY <1>2, <1>8 DEF Dictated
  <2>2. QED
    BY <1>8, <2>1 DEF Restored
<1>9. QED
  BY <1>4, <1>5, <1>6, <1>7, <1>8

-----------------------------------------------------------------------------
(* What Write adds to the source, and that it leaves the rest.             *)
LEMMA Written ==
  ASSUME TypeOK, Write
  PROVE  \E type \in Types, block \in {Root} \cup There :
           /\ Len(source) < MaxNodes
           /\ block # Root => \/ Type(block) \in Blocks
                              \/ Len(source) # 0 /\ block \in Above(Len(source))
           /\ block = Root => type \in Tops
           /\ type \in {"test", "benchmark", "load"} => block = Root
           /\ source' = Append(source, [type |-> type, parent |-> block, above |-> Around(block)])
<1>1. PICK type \in Types, block \in {Root} \cup There :
        LET last == Len(source)
            open == IF last = 0 THEN {Root}
                    ELSE {Root} \cup Above(last) \cup (IF Type(last) \in Blocks THEN {last} ELSE {})
        IN /\ block \in open
           /\ IF block = Root THEN type \in Tops ELSE type \notin {"test", "benchmark", "load"}
           /\ source' = Append(source,
                [type |-> type, parent |-> block,
                 above |-> IF block = Root THEN {} ELSE Above(block) \cup {block}])
  BY DEF Write
<1>2. Len(source) < MaxNodes
  BY DEF Write
<1>3. source' = Append(source, [type |-> type, parent |-> block, above |-> Around(block)])
  BY <1>1 DEF Around
<1>4. block # Root => Type(block) \in Blocks \/ (Len(source) # 0 /\ block \in Above(Len(source)))
  BY <1>1
<1>5. QED
  BY <1>1, <1>2, <1>3, <1>4

LEMMA InitType == Init => TypeOK
<1> SUFFICES ASSUME Init PROVE TypeOK
  OBVIOUS
<1>1. source \in Seq([type : Blocks \cup Leaves, parent : {Root} \cup Nodes, above : SUBSET Nodes])
  BY DEF Init
<1>2. There = {}
  BY DEF Init, There
<1>3. QED
  BY <1>1, <1>2 DEF Init, TypeOK, NoFlags, Flags, Nothing, Forms

LEMMA WriteType == ASSUME TypeOK, Write PROVE TypeOK'
<1> DEFINE Node == [type : Blocks \cup Leaves, parent : {Root} \cup Nodes, above : SUBSET Nodes]
<1>1. PICK type \in Types, block \in {Root} \cup There :
        /\ Len(source) < MaxNodes
        /\ source' = Append(source, [type |-> type, parent |-> block, above |-> Around(block)])
  BY Written
<1>2. There = 1..Len(source) /\ Len(source) \in Nat /\ Root = 0
  BY SourceType DEF Root
<1>3. block \in {Root} \cup Nodes
  BY <1>1, <1>2, TranspileAssumption DEF Nodes
<1>4. Around(block) \in SUBSET Nodes
  <2>1. CASE block = Root
    BY <2>1 DEF Around
  <2>2. CASE block \in There /\ block # Root
    <3>1. source[block] \in Node
      <4>1. source \in Seq(Node)
        BY DEF TypeOK
      <4> HIDE DEF Node
      <4>2. QED
        BY <2>2, <4>1, <1>2, ElementOfSeq
    <3>2. QED
      BY <2>2, <3>1, <1>3 DEF Around, Above
  <2>3. QED
    BY <2>1, <2>2
<1>5. [type |-> type, parent |-> block, above |-> Around(block)] \in Node
  BY <1>3, <1>4, TranspileAssumption
<1>6. source' \in Seq(Node)
  <2>1. source \in Seq(Node)
    BY DEF TypeOK
  <2> HIDE DEF Node
  <2>2. QED
    BY <1>1, <1>5, <2>1, AppendProperties
<1>7. There' \subseteq Nodes
  <2>1. Len(source') = Len(source) + 1
    <3> DEFINE e == [type |-> type, parent |-> block, above |-> Around(block)]
    <3>1. source \in Seq(Node) /\ e \in Node
      BY <1>5 DEF TypeOK
    <3> HIDE DEF Node, e
    <3>2. Len(Append(source, e)) = Len(source) + 1
      BY <3>1, AppendProperties
    <3>3. QED
      BY <1>1, <3>2 DEF e
  <2>2. DOMAIN source' = 1..Len(source')
    <3> HIDE DEF Node
    <3> QED
      BY <1>6
  <2>3. QED
    BY <1>1, <1>2, <2>1, <2>2, TranspileAssumption DEF There, Nodes
<1>8. QED
  BY <1>6, <1>7 DEF TypeOK, Write

LEMMA StepType ==
  ASSUME TypeOK, at \in {Root} \cup There, [Next]_vars
  PROVE  TypeOK'
<1>1. ASSUME NEW n \in There
      PROVE  Parent(n) \in {Root} \cup Nodes /\ n \in Nodes
  <2> DEFINE Node == [type : Blocks \cup Leaves, parent : {Root} \cup Nodes, above : SUBSET Nodes]
  <2>1. source \in Seq(Node) /\ n \in 1..Len(source)
    BY SourceType DEF TypeOK
  <2>2. source[n] \in Node
    <3> HIDE DEF Node
    <3> QED
      BY <2>1, ElementOfSeq
  <2>3. QED
    BY <2>2 DEF TypeOK, Parent
<1>2. CASE Write
  BY <1>2, WriteType
<1>3. ASSUME source' = source
      PROVE  There' = There
  BY <1>3 DEF There
<1>4. CASE Parse
  BY <1>3, <1>4 DEF Parse, TypeOK
<1>5. CASE Collect
  <2>1. Declarations \subseteq Nodes \cup Helpers
    BY DEF TypeOK, Declarations
  <2>2. QED
    BY <1>3, <1>5, <2>1 DEF Collect, TypeOK
<1>6. ASSUME NEW n \in Nodes, EmitStep(n)
      PROVE  TypeOK'
  <2>1. CASE EmitRejected(n)
    BY <1>3, <2>1 DEF EmitRejected, TypeOK
  <2>2. CASE EmitBlank(n)
    BY <1>3, <2>2 DEF EmitBlank, TypeOK
  <2>3. CASE EnterBlock(n)
    <3>1. flags' \in Flags
      BY <2>3 DEF EnterBlock, TypeOK, Raised, Flags
    <3>2. written' \in [Nodes \cup Helpers -> Nat]
      BY <2>3 DEF EnterBlock, TypeOK
    <3>3. QED
      BY <1>3, <2>3, <3>1, <3>2 DEF EnterBlock, TypeOK
  <2>4. CASE EmitStatement(n)
    <3>1. out' \in [Nodes -> [form : Forms, var : {"t", "b", "none"}]]
      BY <2>4 DEF EmitStatement, TypeOK, EmitExecExpect, EmitExecExpectCondition, EmitExpect, Forms, Flags
    <3>2. QED
      BY <1>3, <2>4, <3>1 DEF EmitStatement, TypeOK
  <2>5. QED
    BY <1>6, <2>1, <2>2, <2>3, <2>4 DEF EmitStep
<1>7. CASE LeaveBlock
  <2>1. at \in There /\ at \in Nodes /\ at' \in {Root} \cup Nodes
    BY <1>1, <1>7 DEF LeaveBlock
  <2>2. flags' \in Flags
    BY <1>7, <2>1 DEF LeaveBlock, TypeOK, Restored, Flags
  <2>3. QED
    BY <1>3, <1>7, <2>1, <2>2 DEF LeaveBlock, TypeOK
<1>8. CASE Finish
  BY <1>3, <1>8 DEF Finish, TypeOK
<1>9. CASE UNCHANGED vars
  BY <1>3, <1>9 DEF vars, TypeOK
<1>10. QED
  BY <1>2, <1>4, <1>5, <1>6, <1>7, <1>8, <1>9 DEF Next

-----------------------------------------------------------------------------
(* The tree.                                                               *)
LEMMA WriteTree ==
  ASSUME TypeOK, TreeInv, Write
  PROVE  TreeInv'
<1>0. PICK last \in Nat, new \in Nat : last = Len(source) /\ new = last + 1
  BY SourceType
<1>1. PICK type \in Types, block \in {Root} \cup There :
        /\ block # Root => Type(block) \in Blocks \/ (last # 0 /\ block \in Above(last))
        /\ type \in {"test", "benchmark", "load"} => block = Root
        /\ source' = Append(source, [type |-> type, parent |-> block, above |-> Around(block)])
  BY <1>0, Written
<1>2. /\ There = 1..last /\ last \in Nat /\ Root = 0
      /\ \A n \in There : Type(n) \in Blocks \cup Leaves /\ n \in Nat /\ n # Root
  BY <1>0, SourceType DEF Root
<1>3. There' = 1..new /\ \A n \in There : source'[n] = source[n]
  BY <1>0, <1>1, <1>2 DEF There, TypeOK
<1>4. source'[new] = [type |-> type, parent |-> block, above |-> Around(block)]
  BY <1>0, <1>1, <1>2 DEF TypeOK
<1>5. \A n \in There : Parent(n)' = Parent(n) /\ Above(n)' = Above(n) /\ Type(n)' = Type(n) /\ Around(n)' = Around(n)
  BY <1>2, <1>3 DEF Parent, Above, Type, Around
<1>6. Around(Root)' = Around(Root) /\ Around(Root) = {}
  BY DEF Around
<1>7. /\ Parent(new)' = block /\ Above(new)' = Around(block)
      /\ Type(new)' = type /\ Around(new)' = Around(block) \cup {new}
  BY <1>0, <1>2, <1>4 DEF Parent, Above, Type, Around
<1>8. ASSUME NEW n \in There
      PROVE  TreeNode(n)'
  <2>1. TreeNode(n)
    BY DEF TreeInv
  <2>2. Above(n) \subseteq There /\ Around(n) \subseteq There /\ There \subseteq There'
    BY <2>1, <1>0, <1>2, <1>3 DEF TreeNode, Around
  <2>3. Around(Parent(n))' = Around(Parent(n))
    BY <1>5, <1>6, <2>1 DEF TreeNode
  <2>4. QED
    BY <2>1, <2>2, <2>3, <1>5 DEF TreeNode
<1>9. Around(block) \subseteq There
  BY <1>6 DEF TreeInv, TreeNode, Around
<1>10. block # Root => Type(block) \in Blocks
  <2>1. ASSUME last # 0, block \in Above(last)
        PROVE  Type(block) \in Blocks
    BY <1>2, <2>1 DEF TreeInv, TreeNode
  <2>2. QED
    BY <1>1, <2>1
<1>11. \A k \in Around(block) :
         /\ k \in There /\ k <= block /\ Type(k) \in Blocks /\ Above(k) \subseteq Around(block)
         /\ Parent(k) # block /\ Parent(k) \in Nat
  <2> SUFFICES ASSUME NEW k \in Around(block)
               PROVE  /\ k \in There /\ k <= block /\ Type(k) \in Blocks /\ Above(k) \subseteq Around(block)
                      /\ Parent(k) # block /\ Parent(k) \in Nat
    OBVIOUS
  <2>1. k \in There /\ block \in There /\ block # Root
    BY <1>6, <1>9
  <2>2. TreeNode(k) /\ TreeNode(block)
    BY <2>1 DEF TreeInv
  <2>3. k \in Above(block) \/ k = block
    BY <2>1 DEF Around
  <2>4. k <= block /\ Type(k) \in Blocks /\ Above(k) \subseteq Around(block)
    BY <1>2, <1>10, <2>1, <2>2, <2>3 DEF TreeNode, Around
  <2>5. Parent(k) \in Nat /\ Parent(k) < k
    BY <1>2, <2>2 DEF TreeNode
  <2>6. QED
    BY <1>2, <2>1, <2>4, <2>5
<1>12. TreeNode(new)'
  <2>1. /\ Parent(new)' \in {Root} \cup There' /\ Parent(new)' < new
        /\ Type(new)' \in {"test", "benchmark", "load"} => Parent(new)' = Root
    BY <1>0, <1>1, <1>2, <1>3, <1>7
  <2>2. Above(new)' = Around(Parent(new))'
    <3>1. Around(block)' = Around(block)
      BY <1>5, <1>6
    <3>2. QED
      BY <1>7, <3>1
  <2>3. Above(new)' \subseteq There'
    BY <1>0, <1>2, <1>3, <1>7, <1>9
  <2>4. \A k \in Above(new)' : k < new /\ Type(k)' \in Blocks /\ Above(k)' \subseteq Above(new)'
    BY <1>0, <1>2, <1>5, <1>7, <1>11
  <2>5. ASSUME NEW k \in {Root} \cup Above(new)'
        PROVE  \E m \in Around(new)' : Parent(m)' = k
    <3>1. CASE k = block
      BY <1>7, <3>1
    <3>2. CASE k # block
      <4>1. block \in There
        BY <1>6, <1>7, <3>2
      <4>2. k \in {Root} \cup Above(block) /\ TreeNode(block)
        BY <1>2, <1>7, <3>2, <4>1 DEF TreeInv, Around
      <4>3. PICK m \in Around(block) : Parent(m) = k
        BY <4>2 DEF TreeNode
      <4>4. QED
        BY <1>5, <1>7, <1>9, <4>3
    <3>3. QED
      BY <3>1, <3>2
  <2>6. ASSUME NEW j \in Around(new)', NEW k \in Around(new)', Parent(j)' = Parent(k)'
        PROVE  j = k
    <3>1. CASE j = new /\ k \in Around(block)
      BY <1>5, <1>7, <1>11, <2>6, <3>1
    <3>2. CASE k = new /\ j \in Around(block)
      BY <1>5, <1>7, <1>11, <2>6, <3>2
    <3>3. CASE j \in Around(block) /\ k \in Around(block)
      <4>1. block \in There
        BY <1>6, <3>3
      <4>2. TreeNode(block) /\ Parent(j) = Parent(k)
        BY <1>5, <1>9, <2>6, <3>3, <4>1 DEF TreeInv
      <4>3. QED
        BY <3>3, <4>2 DEF TreeNode
    <3>4. QED
      BY <1>7, <3>1, <3>2, <3>3
  <2>7. QED
    BY <2>1, <2>2, <2>3, <2>4, <2>5, <2>6 DEF TreeNode
<1>13. QED
  BY <1>0, <1>2, <1>3, <1>8, <1>12 DEF TreeInv

LEMMA SameSource ==
  ASSUME Next \/ UNCHANGED vars, ~Write
  PROVE  source' = source
BY DEF Next, EmitStep, vars, Parse, Collect, EmitRejected, EmitBlank, EnterBlock, EmitStatement, LeaveBlock, Finish

LEMMA SameTree ==
  ASSUME source' = source
  PROVE  /\ There' = There
         /\ \A n : Type(n)' = Type(n) /\ Parent(n)' = Parent(n) /\ Above(n)' = Above(n) /\ Around(n)' = Around(n)
         /\ \A A : Dictated(A)' = Dictated(A)
         /\ TreeInv => TreeInv'
<1>1. There' = There
  BY DEF There
<1>2. \A n : Type(n)' = Type(n) /\ Parent(n)' = Parent(n) /\ Above(n)' = Above(n)
  BY DEF Type, Parent, Above
<1>3. \A n : Around(n)' = Around(n)
  BY <1>2 DEF Around
<1>4. ASSUME NEW A
      PROVE  Dictated(A)' = Dictated(A)
  BY <1>2 DEF Dictated
<1>5. ASSUME TreeInv, NEW n \in There
      PROVE  TreeNode(n)'
  <2>1. TreeNode(n) /\ Around(Parent(n))' = Around(Parent(n))
    BY <1>2, <1>3, <1>5 DEF TreeInv
  <2>2. QED
    BY <2>1, <1>1, <1>2, <1>3 DEF TreeNode
<1>6. QED
  BY <1>1, <1>2, <1>3, <1>4, <1>5 DEF TreeInv

LEMMA StepTree == ASSUME TypeOK, TreeInv, [Next]_vars PROVE TreeInv'
BY WriteTree, SameSource, SameTree

-----------------------------------------------------------------------------
(* The walk.                                                               *)
LEMMA NextNode ==
  ASSUME TypeOK, TreeInv, NEW n, IsNext(n)
  PROVE  /\ n \in There /\ n \notin seen /\ Parent(n) = at /\ Above(n) = Around(at)
         /\ n \in Nodes /\ n # Root /\ Around(n) = Around(at) \cup {n} /\ n \notin Around(at)
<1>1. n \in There /\ n \notin seen /\ Parent(n) = at
  BY DEF IsNext, Left
<1>2. TreeNode(n) /\ n \in Nodes /\ n # Root /\ n \in Nat
  BY <1>1, SourceType DEF TreeInv, TypeOK
<1>3. n \notin Above(n)
  BY <1>2 DEF TreeNode
<1>4. QED
  BY <1>1, <1>2, <1>3 DEF TreeNode, Around

(* A step that sees node n and stays where it is.                          *)
LEMMA SeenWalk ==
  ASSUME TypeOK, TreeInv, WalkInv, NEW n, IsNext(n),
         source' = source, at' = at, flags' = flags, saved' = saved, seen' = seen \cup {n},
         \A m \in seen : out'[m] = out[m],
         Type(n) \in Expects => out'[n] = Emitted(n)
  PROVE  WalkInv'
<1>1. /\ There' = There
      /\ \A m : Type(m)' = Type(m) /\ Above(m)' = Above(m) /\ Around(m)' = Around(m)
      /\ \A A : Dictated(A)' = Dictated(A)
  BY SameTree
<1>2. Around(at)' = Around(at) /\ Dictated(Around(at))' = Dictated(Around(at)) /\ (at # Root => Type(at)' = Type(at))
  BY <1>1 DEF Around, Above, Dictated, Type
<1>3. \A m : Emitted(m)' = Emitted(m)
  BY <1>1 DEF Emitted
<1>4. n \in There /\ Above(n) = Around(at)
  BY NextNode
<1>5. \A m \in seen' : Above(m) \subseteq seen' /\ (Type(m) \in Expects => out'[m] = Emitted(m))
  BY <1>4 DEF WalkInv
<1>6. QED
  BY <1>1, <1>2, <1>3, <1>4, <1>5 DEF WalkInv

LEMMA EnterWalk ==
  ASSUME TypeOK, TreeInv, WalkInv, NEW n \in Nodes, EnterBlock(n)
  PROVE  WalkInv'
<1>1. /\ n \in There /\ n # Root /\ Above(n) = Around(at)
      /\ Around(n) = Around(at) \cup {n} /\ n \notin Around(at)
  BY NextNode DEF EnterBlock
<1>2. /\ There' = There
      /\ \A m : Type(m)' = Type(m) /\ Above(m)' = Above(m) /\ Around(m)' = Around(m)
      /\ \A A : Dictated(A)' = Dictated(A)
  BY SameTree DEF EnterBlock
<1>3. at' = n /\ seen' = seen \cup {n} /\ saved' = [saved EXCEPT ![n] = flags] /\ out' = out /\ Type(n) \in Blocks
  BY DEF EnterBlock
<1>4. flags' = Dictated(Around(n))
  <2>1. flags' = Raised(Type(n), Dictated(Above(n)))
    BY <1>1 DEF EnterBlock, WalkInv
  <2>2. QED
    BY <1>1, <2>1, RaisedDictated
<1>5. ASSUME NEW m \in Around(n)
      PROVE  saved'[m] = Dictated(Above(m))
  <2>1. CASE m = n
    BY <1>1, <1>3, <2>1 DEF WalkInv, TypeOK
  <2>2. CASE m # n
    <3>1. m \in Around(at)
      BY <1>1, <2>2
    <3>2. QED
      BY <1>3, <2>2, <3>1 DEF WalkInv, TypeOK
  <2>3. QED
    BY <2>1, <2>2
<1>6. \A m : Emitted(m)' = Emitted(m)
  BY <1>2 DEF Emitted
<1>7. Around(n) \subseteq seen'
  BY <1>1, <1>3 DEF WalkInv
<1>8. Type(n) \notin Expects
  BY <1>3 DEF Blocks, Tops, Expects
<1>9. \A m \in seen' : Above(m) \subseteq seen' /\ (Type(m) \in Expects => out'[m] = Emitted(m))
  BY <1>1, <1>3, <1>8 DEF WalkInv
<1>10. Around(at)' = Around(n) /\ Dictated(Around(at))' = Dictated(Around(n)) /\ Type(at)' = Type(n)
  <2>1. source' = source /\ at' = n
    BY <1>3 DEF EnterBlock
  <2>2. Around(at)' = Around(n)
    BY <2>1 DEF Around, Above
  <2>3. Type(at)' = Type(n)
    BY <2>1 DEF Type
  <2>4. \A m : source'[m].type = source[m].type
    BY <2>1
  <2>5. Dictated(Around(at))' = Dictated(Around(n))
    BY <2>2, <2>4 DEF Dictated, Type
  <2>6. QED
    BY <2>2, <2>3, <2>5
<1>11. QED
  BY <1>1, <1>2, <1>3, <1>4, <1>5, <1>6, <1>7, <1>9, <1>10 DEF WalkInv

LEMMA LeaveWalk ==
  ASSUME TypeOK, TreeInv, WalkInv, LeaveBlock
  PROVE  WalkInv'
<1>1. at # Root /\ at \in There /\ TreeNode(at)
  BY DEF LeaveBlock, WalkInv, TreeInv
<1> DEFINE up == Parent(at)
<1>2. Around(at) = Above(at) \cup {at} /\ Above(at) = Around(up) /\ up \in {Root} \cup There
  BY <1>1 DEF Around, TreeNode
<1>3. /\ There' = There
      /\ \A m : Type(m)' = Type(m) /\ Above(m)' = Above(m) /\ Around(m)' = Around(m)
      /\ \A A : Dictated(A)' = Dictated(A)
  BY SameTree DEF LeaveBlock
<1>4. at' = up /\ seen' = seen /\ saved' = saved /\ out' = out
  BY DEF LeaveBlock
<1>5. flags' = Dictated(Around(up))
  <2>1. flags' = Restored(Type(at), Dictated(Around(at)), Dictated(Above(at)))
    BY <1>2 DEF LeaveBlock, WalkInv
  <2>2. QED
    BY <1>1, <1>2, <2>1, RestoredDictated
<1>6. up # Root => Type(up) \in Blocks
  <2>1. up # Root => up \in Above(at)
    BY <1>2 DEF Around
  <2>2. QED
    BY <1>1, <2>1 DEF TreeNode
<1>7. \A m : Emitted(m)' = Emitted(m)
  BY <1>3 DEF Emitted
<1>8. Around(at)' = Around(up) /\ Dictated(Around(at))' = Dictated(Around(up)) /\ Type(at)' = Type(up)
  <2>1. source' = source /\ at' = up
    BY <1>4 DEF LeaveBlock
  <2>2. Around(at)' = Around(up)
    BY <2>1 DEF Around, Above
  <2>3. Type(at)' = Type(up)
    BY <2>1 DEF Type
  <2>4. \A m : source'[m].type = source[m].type
    BY <2>1
  <2>5. Dictated(Around(at))' = Dictated(Around(up))
    BY <2>2, <2>4 DEF Dictated, Type
  <2>6. QED
    BY <2>2, <2>3, <2>5
<1>9. QED
  BY <1>2, <1>3, <1>4, <1>5, <1>6, <1>7, <1>8 DEF WalkInv

LEMMA RejectedIsNone == ASSUME NEW n, Rejects(n) PROVE Type(n) \notin Expects /\ ~Flushes(n)
BY DEF Rejects, Misplaced, Expects, Flushes

LEMMA StepWalk ==
  ASSUME TypeOK, TreeInv, Fresh, WalkInv, [Next]_vars
  PROVE  Fresh' /\ WalkInv'
<1>1. CASE Write
  <2>1. at = Root /\ seen = {} /\ at' = at /\ seen' = seen /\ flags' = flags /\ phase' = phase /\ errors' = errors /\ written' = written
    BY <1>1 DEF Write, Fresh
  <2>2. Around(at) = {} /\ Around(at)' = {}
    BY <2>1 DEF Around
  <2>3. Dictated(Around(at))' = Dictated(Around(at))
    BY <2>2 DEF Dictated
  <2>4. WalkInv'
    BY <2>1, <2>2, <2>3 DEF WalkInv
  <2>5. QED
    BY <2>1, <2>4 DEF Fresh
<1>2. ASSUME source' = source, UNCHANGED <<at, seen, flags, saved, out>>
      PROVE  WalkInv'
  <2>1. /\ There' = There
        /\ \A m : Type(m)' = Type(m) /\ Above(m)' = Above(m) /\ Around(m)' = Around(m)
        /\ \A A : Dictated(A)' = Dictated(A)
    BY <1>2, SameTree
  <2>2. \A m : Emitted(m)' = Emitted(m)
    BY <2>1 DEF Emitted
  <2>3. Around(at)' = Around(at) /\ Type(at)' = Type(at) /\ Dictated(Around(at))' = Dictated(Around(at))
    BY <1>2 DEF Around, Above, Type, Dictated
  <2>4. QED
    BY <1>2, <2>1, <2>2, <2>3 DEF WalkInv
<1>3. CASE Parse \/ Collect \/ Finish \/ UNCHANGED vars
  <2>1. source' = source /\ UNCHANGED <<at, seen, flags, saved, out>>
    BY <1>3 DEF Parse, Collect, Finish, vars
  <2>2. Fresh'
    BY <1>3 DEF Fresh, Parse, Collect, Finish, vars
  <2>3. WalkInv'
    BY <1>2, <2>1
  <2>4. QED
    BY <2>2, <2>3
<1>4. ASSUME NEW n \in Nodes, EmitStep(n)
      PROVE  Fresh' /\ WalkInv'
  <2>1. Fresh'
    BY <1>4 DEF EmitStep, EmitRejected, EmitBlank, EnterBlock, EmitStatement, Fresh
  <2>2. CASE EmitRejected(n)
    BY <2>1, <2>2, SeenWalk, RejectedIsNone DEF EmitRejected
  <2>3. CASE EmitBlank(n)
    <3>1. Type(n) \notin Expects
      BY <2>3 DEF EmitBlank, Expects
    <3>2. QED
      BY <2>1, <2>3, <3>1, SeenWalk DEF EmitBlank
  <2>4. CASE EnterBlock(n)
    BY <2>1, <2>4, EnterWalk
  <2>5. CASE EmitStatement(n)
    <3>1. n \notin seen /\ Above(n) = Around(at) /\ n \in Nodes
      BY <2>5, NextNode DEF EmitStatement
    <3>2. out'[n] = Emitted(n)
      BY <2>5, <3>1 DEF EmitStatement, Emitted, WalkInv, TypeOK
    <3>3. \A m \in seen : out'[m] = out[m]
      BY <2>5, <3>1 DEF EmitStatement, TypeOK
    <3>4. QED
      BY <2>1, <2>5, <3>2, <3>3, SeenWalk DEF EmitStatement
  <2>6. QED
    BY <1>4, <2>2, <2>3, <2>4, <2>5 DEF EmitStep
<1>5. CASE LeaveBlock
  BY <1>5, LeaveWalk DEF LeaveBlock, Fresh
<1>6. QED
  BY <1>1, <1>3, <1>4, <1>5 DEF Next

(* A place that is walked: its block hands it on.                          *)
LEMMA HandedOn ==
  ASSUME TypeOK, TreeInv, NEW n \in There, Type(n) \in Expects, WellPlaced(n), NEW m \in Around(n)
  PROVE  /\ m \in There
         /\ Emits(Type(Parent(m)), Type(m))
         /\ Parent(m) = Root \/ Parent(m) \in There
<1>1. n # Root /\ TreeNode(n)
  BY SourceType DEF TreeInv
<1>2. m = n \/ m \in Above(n)
  BY <1>1 DEF Around
<1>3. m \in There /\ TreeNode(m)
  BY <1>1, <1>2 DEF TreeNode, TreeInv
<1>4. Type(m) \in Blocks \cup Expects
  BY <1>1, <1>2 DEF TreeNode
<1>5. Type(m) # "run"
  BY <1>4 DEF Blocks, Tops, Expects
<1>6. QED
  BY <1>3, <1>5 DEF WellPlaced, Emits, BenchmarkEmits, LoadEmits, StopEmits, ExecEmits, TreeNode

-----------------------------------------------------------------------------
(* What is left to see.                                                    *)
LEMMA SameAhead ==
  ASSUME source' = source
  PROVE  \A n : WellPlaced(n)' = WellPlaced(n)
<1>1. \A n : Type(n)' = Type(n) /\ Parent(n)' = Parent(n) /\ Around(n)' = Around(n)
  BY SameTree
<1>2. \A n : Type(Parent(n))' = Type(Parent(n))
  BY DEF Type, Parent
<1>3. QED
  BY <1>1, <1>2 DEF WellPlaced

(* In a tree that nobody has walked, everything is ahead.                  *)
LEMMA FreshAhead ==
  ASSUME TypeOK, TreeInv, at = Root, seen = {}
  PROVE  AheadInv
<1> SUFFICES ASSUME NEW n \in There
             PROVE  Ahead(n)
  BY DEF AheadInv
<1>1. \E m \in Around(n) : Parent(m) = Root
  BY DEF TreeInv, TreeNode
<1>2. QED
  BY <1>1 DEF Ahead

LEMMA EmitAhead ==
  ASSUME TypeOK, TreeInv, WalkInv, AheadInv, NEW k, IsNext(k), source' = source, seen' = seen \cup {k},
         errors' = errors, \/ at' = k
                           \/ at' = at /\ Type(k) \notin Blocks
  PROVE  AheadInv'
<1>1. /\ k \in There /\ k \notin seen /\ Above(k) = Around(at)
      /\ Parent(k) = at /\ Around(k) = Around(at) \cup {k}
  BY NextNode
<1>2. /\ There' = There
      /\ \A m : Type(m)' = Type(m) /\ Parent(m)' = Parent(m) /\ Above(m)' = Above(m) /\ Around(m)' = Around(m)
      /\ \A m : WellPlaced(m)' = WellPlaced(m)
  BY SameTree, SameAhead
<1>3. Around(at) \subseteq Around(at)' /\ (Type(k) \in Blocks => k \in Around(at)')
  <2>1. ASSUME at' = at
        PROVE  Around(at)' = Around(at)
    BY <2>1 DEF Around, Above
  <2>2. ASSUME at' = k
        PROVE  Around(at)' = Around(k)
    BY <2>2 DEF Around, Above
  <2>3. CASE at' = k
    BY <1>1, <2>2, <2>3
  <2>4. CASE at' = at /\ Type(k) \notin Blocks
    BY <2>1, <2>4
  <2>5. QED
    BY <2>3, <2>4
<1>4. SUFFICES ASSUME errors = {}, NEW n \in There, Type(n) \in Expects, WellPlaced(n), n \notin seen, n # k
               PROVE  \E m \in Around(n) : m \notin seen \cup {k} /\ Parent(m) \in {Root} \cup Around(at)'
  BY <1>2 DEF AheadInv, Ahead
<1>5. PICK m \in Around(n) : m \notin seen /\ Parent(m) \in {Root} \cup Around(at)
  BY <1>4 DEF AheadInv, Ahead
<1>6. CASE m # k
  BY <1>3, <1>5, <1>6
<1>7. CASE m = k
  <2>1. k \in Above(n) /\ TreeNode(n)
    BY <1>4, <1>5, <1>7, SourceType DEF Around, TreeInv
  <2>2. Type(k) \in Blocks
    BY <2>1 DEF TreeNode
  <2>3. PICK c \in Around(n) : Parent(c) = k
    BY <2>1 DEF TreeNode
  <2>4. c \in There /\ TreeNode(c)
    BY <1>4, <2>1, <2>3, SourceType DEF Around, TreeNode, TreeInv
  <2>5. k \in Above(c) /\ c # k
    BY <1>1, <2>3, <2>4, SourceType DEF TreeNode, Around
  <2>6. c \notin seen
    BY <1>1, <2>5 DEF WalkInv
  <2>7. QED
    BY <1>3, <2>2, <2>3, <2>5, <2>6
<1>8. QED
  BY <1>6, <1>7

LEMMA LeaveAhead ==
  ASSUME TypeOK, TreeInv, WalkInv, AheadInv, LeaveBlock
  PROVE  AheadInv'
<1>1. at # Root /\ at \in There /\ TreeNode(at) /\ Left = {}
  BY DEF LeaveBlock, WalkInv, TreeInv
<1>2. /\ There' = There
      /\ \A m : Type(m)' = Type(m) /\ Parent(m)' = Parent(m) /\ Above(m)' = Above(m) /\ Around(m)' = Around(m)
      /\ \A m : WellPlaced(m)' = WellPlaced(m)
  BY SameTree, SameAhead DEF LeaveBlock
<1>3. Around(at)' = Above(at) /\ Around(at) = Above(at) \cup {at}
  <2>1. source' = source /\ at' = Parent(at)
    BY DEF LeaveBlock
  <2>2. Around(at)' = Around(Parent(at))
    BY <2>1 DEF Around, Above
  <2>3. QED
    BY <1>1, <2>2 DEF TreeNode, Around
<1>4. SUFFICES ASSUME errors = {}, NEW n \in There, Type(n) \in Expects, WellPlaced(n), n \notin seen
               PROVE  \E m \in Around(n) : m \notin seen /\ Parent(m) \in {Root} \cup Around(at)'
  BY <1>2 DEF AheadInv, Ahead, LeaveBlock
<1>5. PICK m \in Around(n) : m \notin seen /\ Parent(m) \in {Root} \cup Around(at)
  BY <1>4 DEF AheadInv, Ahead
<1>6. m \in There /\ Emits(Type(Parent(m)), Type(m))
  BY <1>4, HandedOn
<1>7. Parent(m) # at
  BY <1>1, <1>5, <1>6 DEF Left
<1>8. QED
  BY <1>3, <1>5, <1>7

LEMMA StepAhead ==
  ASSUME TypeOK, TreeInv, Fresh, WalkInv, AheadInv, [Next]_vars
  PROVE  AheadInv'
<1>1. TypeOK' /\ TreeInv'
  BY StepType, StepTree DEF WalkInv
<1>2. CASE Write \/ Parse
  <2>1. at' = Root /\ seen' = {}
    BY <1>2 DEF Write, Parse, Fresh
  <2>2. ASSUME NEW n \in There'
        PROVE  Ahead(n)'
    <3>1. \E m \in Around(n)' : Parent(m)' = Root
      BY <1>1, <2>2 DEF TreeInv, TreeNode
    <3>2. QED
      BY <2>1, <3>1 DEF Ahead
  <2>3. QED
    BY <2>2 DEF AheadInv
<1>3. CASE Collect \/ Finish \/ UNCHANGED vars
  <2>1. source' = source /\ at' = at /\ seen' = seen
    BY <1>3 DEF Collect, Finish, vars
  <2>2. errors' = {} => errors = {}
    BY <1>3 DEF Collect, Finish, vars, Fresh
  <2>3. /\ There' = There
        /\ \A m : Type(m)' = Type(m) /\ Parent(m)' = Parent(m) /\ Around(m)' = Around(m)
        /\ \A m : WellPlaced(m)' = WellPlaced(m)
    BY <2>1, SameTree, SameAhead
  <2>4. Around(at)' = Around(at)
    BY <2>1 DEF Around, Above
  <2>5. QED
    BY <2>1, <2>2, <2>3, <2>4 DEF AheadInv, Ahead
<1>4. ASSUME NEW n \in Nodes, EmitStep(n)
      PROVE  AheadInv'
  <2>1. CASE EmitRejected(n)
    BY <2>1 DEF EmitRejected, AheadInv
  <2>2. CASE EmitBlank(n)
    <3>1. Type(n) \notin Blocks
      BY <2>2 DEF EmitBlank, Blocks, Tops
    <3>2. QED
      BY <2>2, <3>1, EmitAhead DEF EmitBlank
  <2>3. CASE EnterBlock(n)
    BY <2>3, EmitAhead DEF EnterBlock
  <2>4. CASE EmitStatement(n)
    <3>1. Type(n) \notin Blocks
      BY <2>4 DEF EmitStatement, Blocks, Tops, Expects
    <3>2. QED
      BY <2>4, <3>1, EmitAhead DEF EmitStatement
  <2>5. QED
    BY <1>4, <2>1, <2>2, <2>3, <2>4 DEF EmitStep
<1>5. CASE LeaveBlock
  BY <1>5, LeaveAhead
<1>6. QED
  BY <1>2, <1>3, <1>4, <1>5 DEF Next

-----------------------------------------------------------------------------
(* Declarations, and the end.                                              *)
LEMMA SameDeclarations ==
  ASSUME source' = source
  PROVE  Declarations' = Declarations /\ \A n : Flushes(n)' = Flushes(n)
BY DEF Declarations, There, Type, Flushes

LEMMA StepDecl ==
  ASSUME TypeOK, TreeInv, Fresh, WalkInv, DeclInv, [Next]_vars
  PROVE  DeclInv'
<1>0. Declarations \subseteq Nodes \cup Helpers
  BY DEF TypeOK, Declarations
<1>1. CASE Write \/ Parse
  BY <1>1 DEF Write, Parse, Fresh, DeclInv
<1>2. ASSUME source' = source, UNCHANGED <<mockDecls, written>>,
             phase \in {"edit", "collect"} <=> phase' \in {"edit", "collect"},
             \A n \in seen' \ seen : ~Flushes(n)
      PROVE  DeclInv'
  BY <1>2, SameDeclarations DEF DeclInv
<1>3. CASE Collect
  <2>1. written = [d \in Nodes \cup Helpers |-> 0] /\ seen = {}
    BY <1>3 DEF Collect, Fresh
  <2>2. \A d \in Declarations : d \in mockDecls' /\ written'[d] = 0
    BY <1>0, <1>3, <2>1 DEF Collect
  <2>3. QED
    BY <1>3, <2>1, <2>2, SameDeclarations DEF Collect, DeclInv
<1>4. CASE UNCHANGED vars
  BY <1>2, <1>4 DEF vars
<1>5. CASE LeaveBlock \/ Finish
  BY <1>2, <1>5 DEF LeaveBlock, Finish
<1>6. ASSUME NEW n \in Nodes, EmitStep(n)
      PROVE  DeclInv'
  <2>1. CASE EmitRejected(n)
    BY <1>2, <2>1, RejectedIsNone DEF EmitRejected
  <2>2. CASE EmitBlank(n)
    BY <1>2, <2>2 DEF EmitBlank, Flushes
  <2>3. CASE EmitStatement(n)
    BY <1>2, <2>3 DEF EmitStatement, Flushes, Expects
  <2>4. CASE EnterBlock(n)
    <3>1. source' = source /\ phase' = phase /\ phase = "emit" /\ seen' = seen \cup {n}
      BY <2>4 DEF EnterBlock
    <3>2. mockDecls' = IF Flushes(n) THEN {} ELSE mockDecls
      BY <2>4 DEF EnterBlock
    <3>3. ASSUME NEW d \in Declarations
          PROVE  written'[d] = IF d \in mockDecls' THEN 0 ELSE 1
      <4>1. written[d] = IF d \in mockDecls THEN 0 ELSE 1
        BY <3>1 DEF DeclInv
      <4>2. d \in DOMAIN written
        BY <1>0 DEF TypeOK
      <4>3. written'[d] = written[d] + IF Flushes(n) /\ d \in mockDecls THEN 1 ELSE 0
        BY <2>4, <4>2 DEF EnterBlock
      <4>4. QED
        BY <3>2, <4>1, <4>3
    <3>4. \A m \in seen' : Flushes(m) => mockDecls' = {}
      BY <3>1, <3>2 DEF DeclInv
    <3>5. QED
      BY <3>1, <3>3, <3>4, SameDeclarations DEF DeclInv
  <2>5. QED
    BY <1>6, <2>1, <2>2, <2>3, <2>4 DEF EmitStep
<1>7. QED
  BY <1>1, <1>3, <1>4, <1>5, <1>6 DEF Next

LEMMA StepEnd ==
  ASSUME EndInv, [Next]_vars
  PROVE  EndInv'
<1>1. CASE phase' # "accepted"
  BY <1>1 DEF EndInv
<1>2. ASSUME UNCHANGED <<source, at, seen, errors>>
      PROVE  Left' = Left /\ NestedFunction' = NestedFunction
  BY <1>2 DEF Left, NestedFunction, There, Parent, Type
<1>3. CASE Finish
  BY <1>2, <1>3 DEF Finish, EndInv
<1>4. CASE UNCHANGED vars
  BY <1>2, <1>4 DEF vars, EndInv
<1>5. CASE Write \/ Parse \/ Collect \/ LeaveBlock \/ \E n \in Nodes : EmitStep(n)
  <2>1. phase' # "accepted"
    BY <1>5 DEF Write, Parse, Collect, LeaveBlock, EmitStep, EmitRejected, EmitBlank, EnterBlock, EmitStatement
  <2>2. QED
    BY <1>1, <2>1
<1>6. QED
  BY <1>3, <1>4, <1>5 DEF Next

LEMMA InitInv == Init => Inv
<1> SUFFICES ASSUME Init PROVE Inv
  OBVIOUS
<1>1. There = {} /\ Around(at) = {}
  BY DEF Init, There, Around
<1>2. TypeOK /\ TreeInv /\ Fresh
  BY <1>1, InitType DEF Init, TreeInv, Fresh
<1>3. WalkInv
  BY <1>1, NoFlagsDictated DEF Init, WalkInv
<1>4. AheadInv /\ DeclInv /\ EndInv
  BY <1>1 DEF Init, AheadInv, DeclInv, EndInv
<1>5. QED
  BY <1>2, <1>3, <1>4 DEF Inv

LEMMA StepInv == Inv /\ [Next]_vars => Inv'
BY StepType, StepTree, StepWalk, StepAhead, StepDecl, StepEnd DEF Inv, WalkInv

LEMMA Invariant == Spec => []Inv
BY InitInv, StepInv, PTL DEF Spec

-----------------------------------------------------------------------------
(* An accepted file has no expectation left in a place that is walked.     *)
LEMMA AllSeen ==
  ASSUME Inv, phase = "accepted", NEW n \in There, Type(n) \in Expects, WellPlaced(n)
  PROVE  n \in seen
<1>1. at = Root /\ Left = {} /\ errors = {} /\ Around(at) = {}
  BY DEF Inv, EndInv, Around
<1>2. SUFFICES ASSUME NEW m \in Around(n), m \notin seen, Parent(m) = Root
               PROVE  FALSE
  BY <1>1 DEF Inv, AheadInv, Ahead
<1>3. m \in There /\ Emits(Type(Root), Type(m))
  BY <1>2, HandedOn DEF Inv
<1>4. QED
  BY <1>1, <1>2, <1>3 DEF Left

(* A benchmark and a fuzz function are never around the same place.        *)
LEMMA HandleDictated ==
  ASSUME Inv, phase = "accepted", NEW n \in seen
  PROVE  Dictated(Above(n)).testVar = Handle(n)
<1>1. TreeNode(n) /\ Above(n) \subseteq seen /\ n # Root
  BY SourceType DEF Inv, WalkInv, TreeInv
<1>2. ASSUME NEW j \in Above(n), NEW k \in Above(n), Type(j) = "benchmark", Type(k) = "fuzz"
      PROVE  FALSE
  <2>1. Parent(k) = Root
    BY <1>1, <1>2 DEF Inv, EndInv, NestedFunction
  <2>2. Parent(j) = Root
    BY <1>1, <1>2 DEF Inv, TreeInv, TreeNode
  <2>3. j = k
    BY <1>1, <2>1, <2>2 DEF TreeNode, Around
  <2>4. QED
    BY <1>2, <2>3
<1>3. QED
  BY <1>2 DEF Dictated, Handle

LEMMA InvCounts == Inv => ExpectationsCount
<1> SUFFICES ASSUME Inv, phase = "accepted", NEW n \in There, Type(n) \in Expects, WellPlaced(n)
             PROVE  /\ ~Polled(n) => out[n] = [form |-> "assertion", var |-> Handle(n)]
                    /\ Type(Parent(n)) \in {"eventually", "property"} /\ ~InExec(n) => out[n].form = "condition"
  BY DEF ExpectationsCount
<1> DEFINE f == Dictated(Above(n))
<1>1. n \in seen /\ out[n] = Emitted(n)
  BY AllSeen DEF Inv, WalkInv
<1>2. ASSUME ~Polled(n)
      PROVE  out[n] = [form |-> "assertion", var |-> Handle(n)]
  <2>1. f.polling = FALSE /\ f.property = FALSE /\ f.testVar = Handle(n)
    BY <1>1, <1>2, HandleDictated DEF Dictated, Polled
  <2>2. EmitExpect(f) = "assertion" /\ EmitExecExpect(Type(n), f) = "assertion"
    BY <2>1 DEF EmitExpect, EmitExecExpect
  <2>3. QED
    BY <1>1, <2>1, <2>2 DEF Emitted
<1>3. ASSUME Type(Parent(n)) \in {"eventually", "property"}, ~InExec(n)
      PROVE  out[n].form = "condition"
  <2>1. TreeNode(n) /\ n # Root
    BY SourceType DEF Inv, TreeInv
  <2>2. Parent(n) # Root
    BY <1>3 DEF Type
  <2>3. Parent(n) \in Above(n)
    BY <2>1, <2>2 DEF TreeNode, Around
  <2>4. ASSUME NEW k \in Above(n), Type(k) = "stop"
        PROVE  FALSE
    <3>1. PICK m \in Around(n) : Parent(m) = k
      BY <2>1 DEF TreeNode
    <3>2. Type(m) \in Expects
      BY <2>4, <3>1 DEF WellPlaced
    <3>3. m # n
      BY <1>3, <2>4, <3>1
    <3>4. Type(m) \in Blocks
      BY <2>1, <3>3 DEF TreeNode, Around
    <3>5. QED
      BY <3>2, <3>4 DEF Blocks, Tops, Expects
  <2>5. f.exec = FALSE
    BY <1>3, <2>4 DEF Dictated, InExec
  <2>6. f.polling \/ f.property
    BY <1>3, <2>3 DEF Dictated
  <2>7. EmitExpect(f) = "condition"
    BY <2>6 DEF EmitExpect
  <2>8. QED
    BY <1>1, <2>5, <2>7 DEF Emitted
<1>4. QED
  BY <1>2, <1>3

LEMMA InvDeclarations == Inv => DeclarationsOnce
<1> SUFFICES ASSUME Inv, phase = "accepted", NEW n \in There, Flushes(n), Parent(n) = Root,
                    NEW d \in Declarations
             PROVE  written[d] = 1
  BY DEF DeclarationsOnce
<1>1. Emits(Type(Root), Type(n))
  BY DEF Emits, Type
<1>2. n \in seen
  BY <1>1 DEF Inv, EndInv, Left
<1>3. mockDecls = {}
  BY <1>2 DEF Inv, DeclInv
<1>4. QED
  BY <1>3 DEF Inv, DeclInv

(* Every variable of the transpiler keeps its type.                        *)
THEOREM TypeCorrect == Spec => []TypeOK
<1>1. Inv => TypeOK
  BY DEF Inv
<1>2. QED
  BY <1>1, Invariant, PTL

(* For trees of any depth, the flags that tell emit where it is say which  *)
(* blocks it is in (emitExec, emitPolling, emitProperty, emitBenchmark,    *)
(* emitFuzz, emitStop).                                                    *)
THEOREM FlagsFollowBlocks == Spec => []FlagsMatchBlocks
<1>1. Inv => FlagsMatchBlocks
  BY DEF Inv, WalkInv, FlagsMatchBlocks
<1>2. QED
  BY <1>1, Invariant, PTL

(* A file that is accepted has lost no expectation that stands in a place  *)
(* its blocks hand on to emit, and each of them is the test's own.         *)
THEOREM ExpectationsAreKept == Spec => []ExpectationsCount
BY Invariant, InvCounts, PTL

(* Mocks and helpers are written once, whatever the order of the blocks    *)
(* that write them (emitTestBlock, emitBenchmark, emitFuzz).               *)
THEOREM DeclarationsAreWrittenOnce == Spec => []DeclarationsOnce
BY Invariant, InvDeclarations, PTL
=============================================================================
