------------------------------- MODULE Hooks -------------------------------
(***************************************************************************)
(* How `before each` and `after each` reach the subtests below them        *)
(* (transpile_blocks.go:141-366, with emitEachDo, emitMatrix, emitEachRow  *)
(* and emitLifecycleHook).  The author types one test block, statement by  *)
(* statement; then the transpiler walks it in source order.  The mutually  *)
(* recursive emitters of the code are one step per statement here: what a  *)
(* call hands down to the statements of a block is the frame of the block. *)
(***************************************************************************)
EXTENDS Naturals, Sequences

CONSTANTS
  Types,      \* the statements an author writes
  MaxNodes    \* bound on the size of the tree

(* given, when and then are "bdd"; each ... do, matrix and each row are    *)
(* "each"; anything else is a "stmt".                                      *)
Subtests == {"bdd", "each"}
HookTypes == {"before", "after"}
AllTypes == Subtests \cup HookTypes \cup {"stmt"}

ASSUME HooksAssumption == Types \subseteq AllTypes /\ MaxNodes \in Nat

VARIABLES
  tree,     \* the statements in source order: [type, parent, around]
  emitted,  \* how many of them the transpiler has emitted
  frame,    \* frame[b]: what is at hand where the statements of block b are emitted
  code      \* code[b]: what the body of block b does, one instruction per statement or hook

vars == <<tree, emitted, frame, code>>

Root == 0 \* the test's own block
Slots == 0..MaxNodes
Nodes == 1..Len(tree)
Type(n) == tree[n].type
Parent(n) == tree[n].parent
Around(n) == IF n = Root THEN {} ELSE tree[n].around \* the blocks n is in, at any depth
Children(b) == {n \in Nodes : Parent(n) = b}
Blocks == {Root} \cup {n \in Nodes : Type(n) \in Subtests}

-----------------------------------------------------------------------------
(* Hook lists: those before, those after, in the order of the source.      *)
NoHooks == [before |-> <<>>, after |-> <<>>]
AddHook(hooks, n) ==
  IF Type(n) = "before" THEN [hooks EXCEPT !.before = Append(@, n)]
  ELSE [hooks EXCEPT !.after = Append(@, n)]

(* emitBlockInnerWithHooks collects the hooks of its block and hands them  *)
(* to later statements; emitDefault emits every statement in its place.    *)
(* context is t.beforeEachHookContext and t.afterEachHookContext, which    *)
(* only the three table-driven blocks read.                                *)
EmitBlockInnerWithHooks(inherited, context) ==
  [collects |-> TRUE, hooks |-> inherited, context |-> context]
EmitDefault(context) == [collects |-> FALSE, hooks |-> NoHooks, context |-> context]

(* The code of a body: a statement to execute (also a subtest, with t.Run  *)
(* or with a loop around it), or a t.Cleanup to register.                  *)
Do(n) == [op |-> "do", node |-> n]
Cleanup(n) == [op |-> "cleanup", node |-> n]
Inlined(hooks) ==
  [i \in 1..Len(hooks.before) |-> Do(hooks.before[i])]
    \o [i \in 1..Len(hooks.after) |-> Cleanup(hooks.after[i])]

Init ==
  /\ tree = <<>>
  /\ emitted = 0
  /\ frame = [b \in Slots |-> EmitBlockInnerWithHooks(NoHooks, NoHooks)]
  /\ code = [b \in Slots |-> <<>>]

(* The next statement goes into a block that is still open. *)
OpenBlocks(n) == Around(n) \cup (IF n = Root \/ Type(n) \in Subtests THEN {n} ELSE {})

Write ==
  /\ emitted = 0 /\ Len(tree) < MaxNodes
  /\ \E type \in Types, block \in OpenBlocks(Len(tree)) :
       tree' = Append(tree, [type |-> type, parent |-> block, around |-> Around(block) \cup {block}])
  /\ UNCHANGED <<emitted, frame, code>>

BlockHasNestedBDD(b) == \E c \in Children(b) : Type(c) = "bdd"
BlockHasDirectLifecycleHook(b) == \E c \in Children(b) : Type(c) \in HookTypes
HasSubtests(b) == \E c \in Children(b) : Type(c) \in Subtests

(* How a body begins and how the statements in it are emitted. *)
EmitBlockInner(n, context) == [begin |-> <<>>, frame |-> EmitBlockInnerWithHooks(NoHooks, context)]

(* Mutant: the hooks go into the first subtest on the way down. *)
EmitSubtestBodyAtOnce(n, hooks, context) ==
  [begin |-> Inlined(hooks), frame |-> EmitBlockInnerWithHooks(NoHooks, context)]

EmitSubtestBodyWithHooks(n, hooks, context) ==
  IF BlockHasNestedBDD(n)
  THEN [begin |-> <<>>, frame |-> EmitBlockInnerWithHooks(hooks, context)]
  ELSE [begin |-> Inlined(hooks), frame |-> EmitBlockInnerWithHooks(NoHooks, context)]

Above(n) == frame[Parent(n)]

(* The subtest n of its block, and a body for it. *)
Opens(n, body) ==
  /\ frame' = [frame EXCEPT ![n] = body.frame]
  /\ code' = [code EXCEPT ![Parent(n)] = Append(@, Do(n)), ![n] = body.begin]

EmitBDDBlock(n) ==
  /\ Type(n) = "bdd" /\ Above(n).hooks = NoHooks
  /\ Opens(n, IF BlockHasDirectLifecycleHook(n) /\ BlockHasNestedBDD(n)
                THEN EmitSubtestBodyWithHooks(n, NoHooks, Above(n).context)
                ELSE [begin |-> <<>>, frame |-> EmitDefault(Above(n).context)])

EmitBDDBlockWithHooks(n) ==
  /\ Type(n) = "bdd" /\ Above(n).hooks # NoHooks
  /\ Opens(n, EmitSubtestBodyWithHooks(n, Above(n).hooks, Above(n).context))

(* The context a table-driven block is emitted in. *)
EachHookContext(n) == IF Above(n).hooks # NoHooks THEN Above(n).hooks ELSE Above(n).context

EmitEachBody(n) ==
  IF EachHookContext(n) # NoHooks
  THEN EmitSubtestBodyWithHooks(n, EachHookContext(n), EachHookContext(n))
  ELSE EmitBlockInner(n, NoHooks)

(* Mutant: the context is not put back behind the block. *)
EmitEachForGood(n) ==
  /\ Type(n) = "each"
  /\ frame' = [b \in Slots |-> IF b = n THEN EmitEachBody(n).frame
                               ELSE [frame[b] EXCEPT !.context = EachHookContext(n)]]
  /\ code' = [code EXCEPT ![Parent(n)] = Append(@, Do(n)), ![n] = EmitEachBody(n).begin]

EmitEach(n) == Type(n) = "each" /\ Opens(n, EmitEachBody(n))

(* A collected hook goes no further than the list it joins: whether it     *)
(* ends up in the code is up to the statements that follow it.             *)
CollectHook(n) ==
  /\ Type(n) \in HookTypes /\ Above(n).collects
  /\ frame' = [frame EXCEPT ![Parent(n)].hooks = AddHook(@, n)]
  /\ UNCHANGED code

(* emitLifecycleHook, and any other statement. *)
EmitInPlace(n) ==
  /\ Type(n) = "stmt" \/ (Type(n) \in HookTypes /\ ~Above(n).collects)
  /\ code' = [code EXCEPT ![Parent(n)] =
                Append(@, IF Type(n) = "after" THEN Cleanup(n) ELSE Do(n))]
  /\ UNCHANGED frame

Emit ==
  /\ emitted < Len(tree)
  /\ emitted' = emitted + 1
  /\ \/ EmitBDDBlock(emitted + 1)
     \/ EmitBDDBlockWithHooks(emitted + 1)
     \/ EmitEach(emitted + 1)
     \/ CollectHook(emitted + 1)
     \/ EmitInPlace(emitted + 1)
  /\ UNCHANGED tree

Next == Write \/ Emit
Spec == Init /\ [][Next]_vars

Emitted == emitted = Len(tree)

-----------------------------------------------------------------------------
(* package testing: when the body of b runs, it does instruction i before  *)
(* instruction j; cleanups wait for its end, the last registered first.    *)
RunsBefore(b, i, j) ==
  LET waits(k) == code[b][k].op = "cleanup" IN
  IF waits(j) THEN waits(i) => i > j ELSE ~waits(i) /\ i < j

(* What the author means: statement m before statement n of one body.      *)
MeantBefore(m, n) ==
  IF Type(n) = "after" THEN Type(m) = "after" => m > n ELSE Type(m) # "after" /\ m < n

HookNodes == {n \in Nodes : Type(n) \in HookTypes}
Done(b) == {code[b][i].node : i \in DOMAIN code[b]}

(* The hooks in scope at a statement: those written before it in its own   *)
(* block, and in the blocks around that before the block it is in.         *)
InScope(n) == {m \in HookNodes : m < n /\ Parent(m) \in Around(n)}
OwnHooks(b) == Children(b) \cap HookNodes

InOrder(b) ==
  \A i, j \in DOMAIN code[b] : RunsBefore(b, i, j) <=> MeantBefore(code[b][i].node, code[b][j].node)

(* The trees the transpiler is made for: a hook stands above given, when   *)
(* or then blocks, or alone in a leaf; and no table-driven block is the    *)
(* only thing a hook reaches.                                              *)
Regular ==
  /\ \A n \in HookNodes :
       \/ BlockHasNestedBDD(Parent(n))
       \/ (Parent(n) = Root /\ HasSubtests(Root))
       \/ /\ Parent(n) # Root /\ Type(Parent(n)) = "bdd" /\ ~HasSubtests(Parent(n))
          /\ InScope(Parent(n)) = {}
  /\ \A b \in Blocks : InScope(b) # {} => BlockHasNestedBDD(b) \/ ~HasSubtests(b)

(* On those trees the generated test does what its author wrote: the hooks *)
(* above a subtest that has no subtests of its own run around its          *)
(* statements, each once and the outermost outermost, through any nesting  *)
(* of given, when, then and tables; no other body runs a hook              *)
(* (transpile_test.go:3239-3247, 1565-1572).                               *)
HooksReachLeaves ==
  Emitted /\ Regular => \A b \in Blocks :
    /\ Done(b) \cap HookNodes = IF HasSubtests(b) THEN {} ELSE InScope(b) \cup OwnHooks(b)
    /\ InOrder(b)

(* On every tree: a hook runs in its own block or in one below it that     *)
(* comes after it, so that no statement before it and no other block sees  *)
(* it; and what is no hook runs once in its block, in the order written.   *)
HooksStayInScope ==
  Emitted => \A b \in Blocks :
    /\ Done(b) \cap HookNodes \subseteq InScope(b) \cup OwnHooks(b)
    /\ Done(b) \ HookNodes = Children(b) \ HookNodes
    /\ InOrder(b)

(* A hook in a leaf is inlined where it stands: to drop it is what "an     *)
(* early version of the fix" did (transpile_test.go:3365-3371).            *)
LeafHooksKept ==
  Emitted => \A n \in HookNodes : LET b == Parent(n) IN
    b # Root /\ Type(b) = "bdd" /\ ~HasSubtests(b) => n \in Done(b)
=============================================================================
