---------------------------- MODULE Diagnostics ----------------------------
(***************************************************************************)
(* What a .dmj file that does not parse is told (errors.go).  A tree with  *)
(* flaws is reported by its best flaw per top-level block; a tree without  *)
(* any is not trusted: the parser may have left text out of it, and what   *)
(* the emitters would then drop has to be reported instead.  Both walks    *)
(* go through the tree in preorder, a node a step.                         *)
(***************************************************************************)
EXTENDS Integers, Sequences, SequencesExt, FiniteSetsExt

CONSTANTS
  MaxSize,   \* how many words, blanks and nodes that are no tokens a file has at most
  Shapes     \* the shapes those nodes may have: see Inner

(* "checked" stands for the other types of coverageCheckedContainers,      *)
(* "verbatim" for the types whose text emitDefault copies, "fields" for    *)
(* those that are neither: their emitters pick fields out of them (mock    *)
(* and fake declarations, factories, defaults, scenario and matrix fields).*)
Inner == {"block", "checked", "verbatim", "fields", "error", "missing"}
ASSUME DiagnosticsAssumption ==
  MaxSize \in Nat /\ Shapes \subseteq Inner

VARIABLES
  source,    \* the source: words that are "outer" and "inner" keywords, or "blank"
  nodes,     \* the tree in preorder; a node spans positions from..to of text
  open,      \* the nodes the parser is in, innermost last
  reading,   \* "parse", "cover", "group", "pick", "accepted" or "reported"
  visit,     \* the node that a walk comes to next
  groups,    \* findErrors: the flaws found, by the block they are in
  candidate, \* pickBestDiagnostic: the flaw of the group that comes next
  winner,    \* pickBestDiagnostic: the best of those before
  reports    \* what is printed: a position of lost source, or flawed nodes

diagnosticVars == <<source, nodes, open, reading, visit, groups, candidate, winner, reports>>

Node(shape) == [shape |-> shape, parent |-> IF open = <<>> THEN 0 ELSE Last(open),
                from |-> Len(source) + 1, to |-> Len(source)]
Size == Len(source) + Cardinality({n \in DOMAIN nodes : nodes[n].shape \in Inner})
Flawed(n) == nodes[n].shape \in {"error", "missing"}

DiagnosticsInit ==
  /\ source = <<>> /\ nodes = <<>> /\ open = <<>> /\ reading = "parse" /\ visit = 1
  /\ groups = <<>> /\ candidate = 1 /\ winner = 0 /\ reports = <<>>

-----------------------------------------------------------------------------
(* The parser reads a token into the innermost node, or leaves it out.     *)
Read(token) ==
  /\ reading = "parse" /\ Size < MaxSize
  /\ source' = Append(source, token)
  /\ \/ UNCHANGED nodes
     \/ /\ open # <<>> /\ token # "blank"
        /\ nodes' = Append(nodes, [Node("token") EXCEPT !.to = Len(source) + 1])
  /\ UNCHANGED <<open, reading, visit, groups, candidate, winner, reports>>

Enter(shape) ==
  /\ reading = "parse" /\ Size < MaxSize
  /\ IF nodes = <<>> THEN shape = "file" ELSE open # <<>> /\ shape \in Shapes
  /\ nodes' = Append(nodes, Node(shape))
  /\ open' = IF shape = "missing" THEN open ELSE Append(open, Len(nodes'))
  /\ UNCHANGED <<source, reading, visit, groups, candidate, winner, reports>>

Leave ==
  /\ reading = "parse" /\ open # <<>>
  /\ Len(open) > 1 => nodes[Last(open)].from <= Len(source)
  /\ nodes' = [nodes EXCEPT ![Last(open)].to = Len(source)]
  /\ open' = Front(open)
  /\ UNCHANGED <<source, reading, visit, groups, candidate, winner, reports>>

(* TranspileDanmuji: root.HasError() decides what is looked for.           *)
Parsed ==
  /\ reading = "parse" /\ nodes # <<>> /\ open = <<>>
  /\ reading' = IF \E n \in DOMAIN nodes : Flawed(n) THEN "group" ELSE "cover"
  /\ visit' = IF \E n \in DOMAIN nodes : Flawed(n) THEN 1 ELSE 2
  /\ UNCHANGED <<source, nodes, open, groups, candidate, winner, reports>>

-----------------------------------------------------------------------------
(* CheckTreeCoversSource walks the tree below the root and stops at the    *)
(* first gap between children of a checked node, or before the first, that *)
(* holds text; the end of the file is looked at last.                      *)
Kids(n) == {k \in DOMAIN nodes : nodes[k].parent = n}
PrevEnd(k) ==
  LET n == nodes[k].parent
  IN Max({nodes[n].from - 1} \union {nodes[j].to : j \in {j \in Kids(n) : j < k}})
Words(from, to) == {p \in from..to : source[p] # "blank"}
Checked(n) == nodes[n].shape \in {"file", "block", "checked"}

(* Mutant: what stands in an unchecked node is not walked.                 *)
GapBeforeOutermost(k) ==
  IF \A n \in 1..(k - 1) : nodes[n].from <= nodes[k].from /\ nodes[k].to <= nodes[n].to => Checked(n)
    THEN Words(PrevEnd(k) + 1, nodes[k].from - 1) ELSE {}

GapBefore(k) ==
  IF Checked(nodes[k].parent) THEN Words(PrevEnd(k) + 1, nodes[k].from - 1) ELSE {}

Remainder == Words(Max({0} \union {nodes[k].to : k \in Kids(1)}) + 1, Len(source))

Cover ==
  /\ reading = "cover" /\ visit \in DOMAIN nodes /\ GapBefore(visit) = {}
  /\ visit' = visit + 1
  /\ UNCHANGED <<source, nodes, open, reading, groups, candidate, winner, reports>>

FindGap ==
  /\ reading = "cover"
  /\ LET gap == IF visit \in DOMAIN nodes THEN GapBefore(visit) ELSE Remainder
     IN gap # {} /\ reports' = <<Min(gap)>>
  /\ reading' = "reported"
  /\ UNCHANGED <<source, nodes, open, visit, groups, candidate, winner>>

Covered ==
  /\ reading = "cover" /\ visit \notin DOMAIN nodes /\ Remainder = {}
  /\ reading' = "accepted"
  /\ UNCHANGED <<source, nodes, open, visit, groups, candidate, winner, reports>>

-----------------------------------------------------------------------------
(* The block right below the file that holds a node (findTopLevelBlock).   *)
TopLevelBlock[n \in Nat] ==
  LET p == nodes[n].parent
  IN IF p <= 1 THEN 0
     ELSE IF nodes[p].parent = 1 /\ nodes[p].shape = "block" THEN p ELSE TopLevelBlock[p]

(* findErrors: the flaws in preorder, grouped by their block.              *)
Grouped(n) ==
  LET key == TopLevelBlock[n]
  IN IF \E g \in DOMAIN groups : groups[g].key = key
     THEN [g \in DOMAIN groups |->
             IF groups[g].key = key THEN [groups[g] EXCEPT !.found = Append(@, n)] ELSE groups[g]]
     ELSE Append(groups, [key |-> key, found |-> <<n>>])

Group ==
  /\ reading = "group" /\ visit \in DOMAIN nodes
  /\ groups' = IF Flawed(visit) THEN Grouped(visit) ELSE groups
  /\ visit' = visit + 1
  /\ UNCHANGED <<source, nodes, open, reading, candidate, winner, reports>>

AllGrouped ==
  /\ reading = "group" /\ visit \notin DOMAIN nodes
  /\ reading' = "pick"
  /\ UNCHANGED <<source, nodes, open, visit, groups, candidate, winner, reports>>

(* keywordSignal and bestKeywordMatch: the strongest keyword in its text.  *)
KeywordSignal(token) == CASE token = "inner" -> 2 [] token = "outer" -> 1 [] OTHER -> -1
Signal(n) == Max({-1} \union {KeywordSignal(source[p]) : p \in nodes[n].from..nodes[n].to})
Span(n) == nodes[n].to - nodes[n].from + 1

(* Mutant: the larger of two nodes with the same keyword wins.             *)
BetterDiagnosticWidest(c, best) ==
  \/ Signal(c) > Signal(best)
  \/ Signal(c) = Signal(best) /\ Span(c) > Span(best)

BetterDiagnostic(c, best) ==
  \/ Signal(c) > Signal(best)
  \/ /\ Signal(c) = Signal(best)
     /\ \/ Span(c) < Span(best)
        \/ /\ Span(c) = Span(best)
           /\ IF nodes[c].shape # nodes[best].shape THEN nodes[c].shape # "missing"
              ELSE nodes[c].from < nodes[best].from

(* pickBestDiagnostic, for one group after the other: each has one report, *)
(* and the first flaw outside of all blocks is the last that is reported.  *)
ThisGroup == groups[Len(reports) + 1]

Pick ==
  /\ reading = "pick" /\ candidate \in DOMAIN ThisGroup.found
  /\ LET c == ThisGroup.found[candidate]
     IN winner' = IF candidate = 1 \/ BetterDiagnostic(c, winner) THEN c ELSE winner
  /\ candidate' = candidate + 1
  /\ UNCHANGED <<source, nodes, open, reading, visit, groups, reports>>

Report ==
  /\ reading = "pick" /\ candidate \notin DOMAIN ThisGroup.found
  /\ reports' = Append(reports, winner)
  /\ reading' = IF ThisGroup.key = 0 \/ Len(reports') = Len(groups) THEN "reported" ELSE "pick"
  /\ candidate' = 1 /\ winner' = 0
  /\ UNCHANGED <<source, nodes, open, visit, groups>>

DiagnosticsNext ==
  \/ \E token \in {"blank", "outer", "inner"} : Read(token)
  \/ \E shape \in {"file"} \union Shapes : Enter(shape)
  \/ Leave \/ Parsed
  \/ Cover \/ FindGap \/ Covered
  \/ Group \/ AllGrouped \/ Pick \/ Report

DiagnosticsSpec == DiagnosticsInit /\ [][DiagnosticsNext]_diagnosticVars

-----------------------------------------------------------------------------
(* Text is lost when no token of the tree holds it.                        *)
Lost == {p \in DOMAIN source : source[p] # "blank"
           /\ ~\E n \in DOMAIN nodes : nodes[n].shape = "token" /\ nodes[n].from = p}
Holders(p) == {n \in DOMAIN nodes : nodes[n].from <= p /\ p <= nodes[n].to}
Deepest(n, p) == n \in Holders(p) /\ n = Max(Holders(p))

(* "transpile must fail loudly, never succeed with dropped content"        *)
(* (transpile_test.go:2805): what an accepted file has lost in a node was  *)
(* copied with it (emitDefault).  The walk is to see to that for the nodes *)
(* whose emitters pick out fields, but looks only at the types listed, so  *)
(* the code does not keep this: see Unnoticed.                             *)
Copied(p) == \E n \in DOMAIN nodes : Deepest(n, p) /\ nodes[n].shape = "verbatim"
AcceptedDropsNothing ==
  reading = "accepted" =>
    \A p \in Lost : (\E n \in Holders(p) : n # 1) => Copied(p)

(* The walk does not notice what is lost before the file's own start,      *)
(* behind the last child of an inner node, or in a node whose type is not  *)
(* in coverageCheckedContainers (errors.go:448-480).                       *)
Unnoticed(p) ==
  \/ p < nodes[1].from /\ Kids(1) # {}
  \/ \E n \in DOMAIN nodes :
       /\ Deepest(n, p)
       /\ \/ nodes[n].shape \in {"verbatim", "fields"}
          \/ n # 1 /\ \A k \in Kids(n) : nodes[k].to < p

(* What the walk is there for: an accepted file has lost nothing between   *)
(* the children of a checked node, before the first of them, or at its     *)
(* end, and what is reported is the first text that was lost so, at any    *)
(* depth (errors.go:540-561).                                              *)
LossIsReported ==
  LET noticed == {p \in Lost : ~Unnoticed(p)}
      flawless == \A n \in DOMAIN nodes : ~Flawed(n)
  IN /\ reading = "accepted" => flawless /\ noticed = {}
     /\ reading = "reported" /\ flawless => noticed # {} /\ reports = <<Min(noticed)>>

(* Every broken block has one report, unless a flaw outside of all blocks  *)
(* came first, and it is the local one: no flaw within it has a keyword as *)
(* telling as its own (errors.go:933-936,                                  *)
(* TestFormatParseErrorUsesDeepestLocalDiagnostic).                        *)
Within(m, n) == m > n /\ nodes[n].from <= nodes[m].from /\ nodes[m].to <= nodes[n].to /\ Span(m) < Span(n)
ReportsAreLocal ==
  LET flaws == {n \in DOMAIN nodes : Flawed(n)}
      BlocksOf(ns) == {TopLevelBlock[n] : n \in ns}
  IN reading = "reported" /\ flaws # {} =>
       /\ ToSet(reports) \subseteq flaws
       /\ \A i, j \in DOMAIN reports :
            i < j => TopLevelBlock[reports[i]] # TopLevelBlock[reports[j]] /\ TopLevelBlock[reports[i]] # 0
       /\ \A n \in flaws : TopLevelBlock[n] \notin BlocksOf(ToSet(reports)) =>
            \E m \in flaws : m < n /\ TopLevelBlock[m] = 0
       /\ \A r \in ToSet(reports), m \in flaws :
            Within(m, r) /\ TopLevelBlock[m] = TopLevelBlock[r] => Signal(m) < Signal(r)
=============================================================================
