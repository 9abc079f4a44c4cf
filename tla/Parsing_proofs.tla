------------------------------ MODULE Parsing_proofs ------------------------------
(***************************************************************************)
(* Theorems about the language blob, for any number of versions, and about *)
(* what is told of a file that was parsed, for a file of any size.         *)
(***************************************************************************)
EXTENDS Language, Diagnostics, SequenceTheorems, WellFoundedInduction, NaturalsInduction, TLAPS


LEMMA InitType == LanguageInit => LanguageTypeOK
<1> SUFFICES ASSUME LanguageInit
             PROVE  LanguageTypeOK
  OBVIOUS
<1>1. Blob(0, 0) \in Blobs
  BY DEF Blob, Blobs
<1>2. Tree \in Trees
  BY <1>1 DEF LanguageInit, Tree, Trees
<1>3. QED
  BY <1>1, <1>2 DEF LanguageInit, LanguageTypeOK

LEMMA StepType == LanguageTypeOK /\ [LanguageNext]_languageVars => LanguageTypeOK'
<1> SUFFICES ASSUME LanguageTypeOK, [LanguageNext]_languageVars
             PROVE  LanguageTypeOK'
  OBVIOUS
<1> USE DEF LanguageTypeOK, Tree, Trees, files, tree
<1>0. /\ grammar \in Nat /\ compiler \in Nat /\ bin \in Blobs \cup {Partial}
      /\ hash \in Nat \cup {Partial} /\ json \in Nat \cup {Partial}
      /\ of.grammar \in Nat /\ Blob(grammar, compiler) \in Blobs
  BY DEF Blobs, Blob
<1>1. CASE EditGrammar
  <2>1. grammar' \in Nat
    BY <1>1, LanguageAssumption DEF EditGrammar
  <2>2. QED
    BY <1>0, <1>1, <2>1 DEF EditGrammar
<1>2. CASE Bump
  BY <1>0, <1>2 DEF Bump
<1>3. CASE Generate
  BY <1>0, <1>3 DEF Generate
<1>4. CASE WriteBin
  BY <1>0, <1>4 DEF WriteBin
<1>5. CASE WriteHash
  BY <1>0, <1>5 DEF WriteHash
<1>6. CASE WriteJSON
  BY <1>0, <1>6 DEF WriteJSON
<1>7. CASE Fail
  BY <1>0, <1>7 DEF Fail
<1>8. CASE Commit \/ ReleaseGate \/ Tag
  BY <1>0, <1>8 DEF Commit, ReleaseGate, Tag
<1>9. CASE UNCHANGED languageVars
  BY <1>0, <1>9 DEF languageVars
<1>10. QED
  BY <1>1, <1>2, <1>3, <1>4, <1>5, <1>6, <1>7, <1>8, <1>9 DEF LanguageNext

(***************************************************************************)
(* Without reverts a build parses with its own grammar's tables, or not at *)
(* all.                                                                    *)
(***************************************************************************)

(* Why: versions only grow, the blob is written before its hash, and a     *)
(* generation that is at work when the hash matches was built from the     *)
(* current grammar.                                                        *)
OwnInv ==
  /\ LanguageTypeOK
  /\ of.grammar <= grammar
  /\ hash \in Nat => hash <= grammar
  /\ hash = grammar /\ bin # Partial => bin.grammar = grammar
  /\ hash = grammar /\ gen # "idle" => of.grammar = grammar
  /\ gen = "hash" => bin = of
  /\ Own(head) /\ Own(tagged)

LEMMA OwnTree == OwnInv => Own(Tree)
BY DEF OwnInv, LanguageTypeOK, Own, Load, Tree

LEMMA InitOwn == LanguageInit => OwnInv
<1> SUFFICES ASSUME LanguageInit
             PROVE  OwnInv
  OBVIOUS
<1>1. of.grammar = 0 /\ bin.grammar = 0
  BY DEF LanguageInit, Blob
<1>2. Own(Tree)
  BY <1>1 DEF LanguageInit, Own, Load, Tree
<1>3. QED
  BY <1>1, <1>2, InitType DEF LanguageInit, OwnInv

LEMMA StepOwn ==
  ASSUME ~Reverts
  PROVE  OwnInv /\ [LanguageNext]_languageVars => OwnInv'
<1> SUFFICES ASSUME OwnInv, [LanguageNext]_languageVars
             PROVE  OwnInv'
  OBVIOUS
<1>0. /\ grammar \in Nat /\ of.grammar \in Nat /\ of \in Blobs
      /\ hash \in Nat \cup {Partial} /\ Partial \notin Nat
      /\ LanguageTypeOK'
  BY StepType, LanguageAssumption DEF OwnInv, LanguageTypeOK, Tree, Trees, Blobs
<1> USE DEF OwnInv, files, tree
<1>1. CASE EditGrammar
  <2>1. grammar' \in Nat /\ grammar' > grammar
    BY <1>1, LanguageAssumption DEF EditGrammar
  <2>2. hash' # grammar'
    BY <1>0, <1>1, <2>1 DEF EditGrammar
  <2>3. QED
    BY <1>0, <1>1, <2>1, <2>2 DEF EditGrammar, Own
<1>2. CASE Bump
  BY <1>0, <1>2 DEF Bump
<1>3. CASE Generate
  <2>1. of'.grammar = grammar
    BY <1>3 DEF Generate, Blob
  <2>2. QED
    BY <1>0, <1>3, <2>1 DEF Generate
<1>4. CASE WriteBin
  BY <1>0, <1>4 DEF WriteBin
<1>5. CASE WriteHash
  BY <1>0, <1>5 DEF WriteHash
<1>6. CASE WriteJSON
  BY <1>0, <1>6 DEF WriteJSON
<1>7. CASE Fail
  <2>1. UNCHANGED <<grammar, of, head, tagged>> /\ gen' = "idle"
    BY <1>7 DEF Fail
  <2>2. hash' = hash \/ hash' = Partial
    BY <1>7 DEF Fail
  <2>3. bin' = bin \/ bin' = Partial
    BY <1>7 DEF Fail
  <2>4. QED
    BY <1>0, <2>1, <2>2, <2>3
<1>8. CASE Commit
  <2>1. Own(Tree)
    BY OwnTree
  <2>2. QED
    BY <1>0, <1>8, <2>1 DEF Commit
<1>9. CASE ReleaseGate \/ Tag
  BY <1>0, <1>9 DEF ReleaseGate, Tag
<1>10. CASE UNCHANGED languageVars
  BY <1>0, <1>10 DEF languageVars
<1>11. QED
  BY <1>1, <1>2, <1>3, <1>4, <1>5, <1>6, <1>7, <1>8, <1>9, <1>10 DEF LanguageNext

(* With interrupted generations, new grammars and new compilers, at any    *)
(* moment: a build of the tree, of the commit or of the release never      *)
(* takes a blob that is not its grammar's, as long as no version comes     *)
(* back (language_blob_embed.go:17-19).                                    *)
THEOREM BlobIsOwn ==
  ASSUME ~Reverts
  PROVE  LanguageSpec => []LoadsOwnGrammar
<1>1. OwnInv /\ [LanguageNext]_languageVars => OwnInv'
  BY StepOwn
<1>2. OwnInv => LoadsOwnGrammar
  BY OwnTree DEF OwnInv, LoadsOwnGrammar
<1>3. QED
  BY <1>1, <1>2, InitOwn, PTL DEF LanguageSpec

-----------------------------------------------------------------------------
(***************************************************************************)
(* What a .dmj file that does not parse is told.                           *)
(***************************************************************************)

(* The tree.  A node is closed once the parser has left it.                *)
Tokens == {"blank", "outer", "inner"}
NodeType == [shape : {"file", "token"} \union Inner, parent : Nat, from : Nat \ {0}, to : Nat]
Closed(a) == \A i \in DOMAIN open : open[i] # a

DiagnosticTypes ==
  /\ source \in Seq(Tokens)
  /\ nodes \in Seq(NodeType)
  /\ open \in Seq(Nat)

(* One node by itself. *)
NodeShape(b) ==
  /\ nodes[b].from <= Len(source) + 1
  /\ Closed(b) => nodes[b].to <= Len(source)
  /\ nodes[b].shape = "token" =>
       /\ nodes[b].to = nodes[b].from /\ nodes[b].from \in DOMAIN source
       /\ source[nodes[b].from] # "blank" /\ Closed(b)
  /\ nodes[b].shape = "missing" => nodes[b].to + 1 = nodes[b].from /\ Closed(b)
  /\ IF b = 1 THEN nodes[b].shape = "file" /\ nodes[b].parent = 0
     ELSE /\ nodes[b].shape # "file" /\ nodes[b].parent \in 1..(b - 1)
          /\ nodes[nodes[b].parent].shape \notin {"token", "missing"}
          /\ Closed(b) /\ nodes[b].shape # "missing" => nodes[b].from <= nodes[b].to

(* Of two nodes the later one begins later, and lies within the earlier    *)
(* one or behind it.                                                       *)
Nested(a, b) ==
  /\ nodes[a].from <= nodes[b].from
  /\ Closed(a) => nodes[a].to < nodes[b].from \/ (Closed(b) /\ nodes[b].to <= nodes[a].to)

(* What stands between a node and its parent ends before the node begins.  *)
BelowParent(b) ==
  LET a == nodes[b].parent
  IN /\ Closed(a) => Closed(b) /\ nodes[b].to <= nodes[a].to
     /\ \A c \in (a + 1)..(b - 1) : Closed(c) /\ nodes[c].to < nodes[b].from

TreeInv ==
  /\ \A b \in DOMAIN nodes : NodeShape(b)
  /\ \A a, b \in DOMAIN nodes : a < b => Nested(a, b)
  /\ \A b \in DOMAIN nodes : b # 1 => BelowParent(b)
  /\ \A i \in DOMAIN open : open[i] \in DOMAIN nodes
  /\ open # <<>> => open[1] = 1
  /\ \A i, j \in DOMAIN open : i < j => open[i] < open[j]
  /\ \A i \in DOMAIN open : i # 1 => nodes[open[i]].parent = open[i - 1]
  /\ reading # "parse" => open = <<>> /\ nodes # <<>>

LEMMA AppendFacts ==
  ASSUME NEW S, NEW s \in Seq(S), NEW x \in S
  PROVE  /\ Append(s, x) \in Seq(S)
         /\ Len(Append(s, x)) = Len(s) + 1
         /\ DOMAIN Append(s, x) = 1..(Len(s) + 1)
         /\ \A i \in DOMAIN s : Append(s, x)[i] = s[i]
         /\ Append(s, x)[Len(s) + 1] = x
OBVIOUS

LEMMA SequenceFacts ==
  ASSUME NEW S, NEW s \in Seq(S)
  PROVE  /\ Len(s) \in Nat /\ DOMAIN s = 1..Len(s)
         /\ \A i \in DOMAIN s : s[i] \in S
         /\ s = <<>> <=> Len(s) = 0
OBVIOUS

(* The innermost open node, and what is left when the parser leaves it.    *)
LEMMA Innermost ==
  ASSUME DiagnosticTypes, TreeInv, open # <<>>
  PROVE  /\ Last(open) \in DOMAIN nodes /\ ~Closed(Last(open))
         /\ \A b \in DOMAIN nodes : b > Last(open) => Closed(b)
         /\ Front(open) \in Seq(Nat) /\ Len(Front(open)) = Len(open) - 1
         /\ \A i \in DOMAIN Front(open) : i \in DOMAIN open /\ Front(open)[i] = open[i]
         /\ \A b \in DOMAIN nodes :
              Closed(b) \/ b = Last(open) <=> \A i \in DOMAIN Front(open) : Front(open)[i] # b
<1>1. open \in Seq(Nat) /\ Len(open) \in Nat \ {0} /\ DOMAIN open = 1..Len(open)
  BY DEF DiagnosticTypes
<1>2. Last(open) = open[Len(open)] /\ Len(open) \in DOMAIN open
  BY <1>1 DEF Last
<1>3. \A i \in DOMAIN open : i # Len(open) => open[i] < Last(open)
  BY <1>1, <1>2 DEF TreeInv
<1>4. Last(open) \in DOMAIN nodes /\ ~Closed(Last(open))
  BY <1>2 DEF TreeInv, Closed
<1>5. DOMAIN nodes = 1..Len(nodes) /\ Len(nodes) \in Nat
  BY DEF DiagnosticTypes
<1>6. ASSUME NEW b \in DOMAIN nodes, b > Last(open)
      PROVE  Closed(b)
  BY <1>1, <1>2, <1>3, <1>4, <1>5, <1>6 DEF Closed
<1>7. /\ Front(open) \in Seq(Nat) /\ Len(Front(open)) = Len(open) - 1
      /\ DOMAIN Front(open) = 1..(Len(open) - 1)
      /\ \A i \in DOMAIN Front(open) : i \in DOMAIN open /\ Front(open)[i] = open[i]
  BY <1>1 DEF Front
<1>8. ASSUME NEW b \in DOMAIN nodes
      PROVE  Closed(b) \/ b = Last(open) <=> \A i \in DOMAIN Front(open) : Front(open)[i] # b
  <2>1. ASSUME Closed(b) \/ b = Last(open), NEW i \in DOMAIN Front(open), Front(open)[i] = b
        PROVE  FALSE
    <3>1. i \in DOMAIN open /\ open[i] = b /\ i # Len(open)
      BY <1>1, <1>7, <2>1
    <3>2. open[i] < Last(open)
      BY <1>3, <3>1
    <3>3. Last(open) \in Nat
      BY <1>4, <1>5
    <3>4. QED
      BY <2>1, <3>1, <3>2, <3>3 DEF Closed
  <2>2. ASSUME \A i \in DOMAIN Front(open) : Front(open)[i] # b, b # Last(open)
        PROVE  Closed(b)
    <3>1. SUFFICES ASSUME NEW i \in DOMAIN open, open[i] = b PROVE FALSE
      BY DEF Closed
    <3>2. CASE i = Len(open)
      BY <1>2, <2>2, <3>1, <3>2
    <3>3. CASE i # Len(open)
      <4>1. i \in DOMAIN Front(open)
        BY <1>1, <1>7, <3>3
      <4>2. QED
        BY <1>7, <2>2, <3>1, <4>1
    <3>4. QED
      BY <3>2, <3>3
  <2>3. QED
    BY <2>1, <2>2
<1>9. QED
  BY <1>4, <1>6, <1>7, <1>8

(* A node is added behind all that has been read. *)
LEMMA AddsNode ==
  ASSUME DiagnosticTypes, DiagnosticTypes', TreeInv,
         NEW node \in NodeType, nodes' = Append(nodes, node),
         node.from = Len(source) + 1,
         node.parent = IF open = <<>> THEN 0 ELSE Last(open), open = <<>> => nodes = <<>>,
         Len(source) <= Len(source'), \A p \in DOMAIN source : source'[p] = source[p],
         \A b \in DOMAIN nodes : Closed(b)' <=> Closed(b),
         NEW new, new = Len(nodes) + 1, NodeShape(new)'
  PROVE  /\ \A b \in DOMAIN nodes' : NodeShape(b)'
         /\ \A a, b \in DOMAIN nodes' : a < b => Nested(a, b)'
         /\ \A b \in DOMAIN nodes' : b # 1 => BelowParent(b)'
<1>1. /\ Len(nodes) \in Nat /\ DOMAIN nodes = 1..Len(nodes) /\ DOMAIN nodes' = 1..new
      /\ \A b \in DOMAIN nodes : nodes'[b] = nodes[b] /\ nodes[b] \in NodeType
      /\ nodes'[new] = node
  BY AppendFacts, SequenceFacts DEF DiagnosticTypes
<1>2. Len(source) \in Nat /\ Len(source') \in Nat /\ DOMAIN source = 1..Len(source)
      /\ DOMAIN source' = 1..Len(source')
  BY DEF DiagnosticTypes
<1>3. \A b \in DOMAIN nodes : nodes[b].from \in Nat /\ nodes[b].to \in Nat
  BY <1>1 DEF NodeType
<1>4. ASSUME NEW b \in DOMAIN nodes
      PROVE  NodeShape(b)'
  <2>1. NodeShape(b) /\ nodes'[b] = nodes[b]
    BY <1>1 DEF TreeInv
  <2>2. b # 1 => nodes[b].parent \in DOMAIN nodes /\ nodes'[nodes[b].parent] = nodes[nodes[b].parent]
    BY <1>1, <2>1 DEF NodeShape
  <2>3. nodes[b].from <= Len(source') + 1 /\ (Closed(b) => nodes[b].to <= Len(source'))
    BY <1>2, <1>3, <2>1 DEF NodeShape
  <2>4. nodes[b].shape = "token" =>
          nodes[b].from \in DOMAIN source' /\ source'[nodes[b].from] # "blank"
    BY <1>2, <2>1 DEF NodeShape
  <2>5. QED
    BY <2>1, <2>2, <2>3, <2>4 DEF NodeShape
<1>5. ASSUME NEW a \in DOMAIN nodes, NEW b \in DOMAIN nodes, a < b
      PROVE  Nested(a, b)'
  <2>1. Nested(a, b)
    BY <1>5 DEF TreeInv
  <2>2. QED
    BY <1>1, <2>1 DEF Nested
<1>6. ASSUME NEW a \in DOMAIN nodes
      PROVE  Nested(a, new)'
  <2>1. NodeShape(a) /\ nodes'[a] = nodes[a] /\ nodes'[new].from = Len(source) + 1
    BY <1>1 DEF TreeInv
  <2>2. nodes[a].from <= Len(source) + 1 /\ (Closed(a) => nodes[a].to < Len(source) + 1)
    BY <1>2, <1>3, <2>1 DEF NodeShape
  <2>3. QED
    BY <2>1, <2>2 DEF Nested
<1>7. ASSUME NEW b \in DOMAIN nodes, b # 1
      PROVE  BelowParent(b)'
  <2>1. BelowParent(b) /\ NodeShape(b)
    BY <1>7 DEF TreeInv
  <2>2. nodes[b].parent \in DOMAIN nodes /\ nodes[b].parent \in Nat
    BY <1>1, <1>7, <2>1 DEF NodeShape
  <2>3. \A c \in (nodes[b].parent + 1)..(b - 1) : c \in DOMAIN nodes
    BY <1>1, <2>2
  <2>4. nodes'[b] = nodes[b] /\ nodes'[nodes[b].parent] = nodes[nodes[b].parent]
        /\ \A c \in (nodes[b].parent + 1)..(b - 1) : nodes'[c] = nodes[c]
    BY <1>1, <2>2, <2>3
  <2>5. QED
    BY <2>1, <2>2, <2>3, <2>4 DEF BelowParent
<1>8. new # 1 => BelowParent(new)'
  <2>1. SUFFICES ASSUME Len(nodes) # 0
                 PROVE  BelowParent(new)'
    BY <1>1
  <2>2. open # <<>>
    BY <2>1, SequenceFacts DEF DiagnosticTypes
  <2>c. PICK up : up = Last(open)
    OBVIOUS
  <2>3. /\ up \in DOMAIN nodes /\ ~Closed(up) /\ node.parent = up
        /\ \A b \in DOMAIN nodes : b > up => Closed(b)
    BY <2>2, <2>c, Innermost
  <2>4. ASSUME NEW c \in (up + 1)..Len(nodes)
        PROVE  Closed(c)' /\ nodes'[c].to < Len(source) + 1
    <3>1. c \in DOMAIN nodes /\ c > up
      BY <1>1, <2>3
    <3>2. Closed(c) /\ NodeShape(c) /\ nodes'[c] = nodes[c]
      BY <1>1, <2>3, <3>1 DEF TreeInv
    <3>3. nodes[c].to < Len(source) + 1
      BY <1>2, <1>3, <3>1, <3>2 DEF NodeShape
    <3>4. QED
      BY <3>1, <3>2, <3>3
  <2>5. ~Closed(up)'
    BY <2>3
  <2>6. new - 1 = Len(nodes)
    BY <1>1
  <2>7. QED
    BY <1>1, <2>3, <2>4, <2>5, <2>6 DEF BelowParent
<1>9. QED
  BY <1>1, <1>4, <1>5, <1>6, <1>7, <1>8 DEF TreeInv

LEMMA StepTree == DiagnosticTypes /\ TreeInv /\ [DiagnosticsNext]_diagnosticVars
                    => DiagnosticTypes' /\ TreeInv'
<1> SUFFICES ASSUME DiagnosticTypes, TreeInv, [DiagnosticsNext]_diagnosticVars
             PROVE  DiagnosticTypes' /\ TreeInv'
  OBVIOUS
<1>t. /\ Len(nodes) \in Nat /\ DOMAIN nodes = 1..Len(nodes) /\ nodes \in Seq(NodeType)
      /\ Len(source) \in Nat /\ DOMAIN source = 1..Len(source) /\ source \in Seq(Tokens)
      /\ Len(open) \in Nat /\ DOMAIN open = 1..Len(open) /\ open \in Seq(Nat)
      /\ \A i \in DOMAIN open : open[i] \in Nat
  BY DEF DiagnosticTypes
<1>n. PICK new : new = Len(nodes) + 1
  OBVIOUS
<1>p. /\ open = <<>> => (IF open = <<>> THEN 0 ELSE Last(open)) = 0
      /\ open # <<>> => /\ Last(open) \in DOMAIN nodes
                        /\ nodes[Last(open)].shape \notin {"token", "missing"}
  <2>1. open # <<>> => Last(open) \in DOMAIN nodes /\ ~Closed(Last(open))
    BY Innermost
  <2>2. open # <<>> => NodeShape(Last(open))
    BY <2>1 DEF TreeInv
  <2>3. QED
    BY <2>1, <2>2 DEF NodeShape
<1>1. ASSUME NEW token \in Tokens, Read(token)
      PROVE  DiagnosticTypes' /\ TreeInv'
  <2>1. /\ source' = Append(source, token) /\ open' = open /\ reading' = reading /\ reading = "parse"
    BY <1>1 DEF Read
  <2>2. /\ source' \in Seq(Tokens) /\ Len(source') = Len(source) + 1
        /\ DOMAIN source' = 1..(Len(source) + 1)
        /\ \A p \in DOMAIN source : source'[p] = source[p]
        /\ source'[Len(source) + 1] = token
    BY <1>t, <2>1, AppendFacts
  <2>3. CASE nodes' = nodes
    <3>1. DiagnosticTypes'
      BY <1>t, <2>1, <2>2, <2>3 DEF DiagnosticTypes
    <3>2. ASSUME NEW b \in DOMAIN nodes
          PROVE  NodeShape(b)'
      <4>1. NodeShape(b) /\ nodes[b] \in NodeType
        BY <1>t DEF TreeInv
      <4>2. nodes[b].from \in Nat /\ nodes[b].to \in Nat
        BY <4>1 DEF NodeType
      <4>3. (Closed(b)' <=> Closed(b)) /\ nodes[b].from <= Len(source') + 1
            /\ (Closed(b) => nodes[b].to <= Len(source'))
        BY <1>t, <2>1, <2>2, <4>1, <4>2 DEF NodeShape, Closed
      <4>4. nodes[b].shape = "token" =>
              nodes[b].from \in DOMAIN source' /\ source'[nodes[b].from] # "blank"
        BY <1>t, <2>2, <4>1 DEF NodeShape
      <4>5. QED
        BY <2>3, <4>1, <4>3, <4>4 DEF NodeShape
    <3>3. QED
      BY <2>1, <2>3, <3>1, <3>2 DEF TreeInv, Nested, BelowParent, Closed
  <2>4. CASE nodes' # nodes
    <3> DEFINE node == [Node("token") EXCEPT !.to = Len(source) + 1]
    <3>1. open # <<>> /\ token # "blank" /\ nodes' = Append(nodes, node)
      BY <1>1, <2>4 DEF Read
    <3>2. node = [shape |-> "token", parent |-> Last(open), from |-> Len(source) + 1, to |-> Len(source) + 1]
      BY <3>1 DEF Node
    <3> HIDE DEF node
    <3>3. node \in NodeType
      <4>1. Last(open) \in Nat /\ Len(source) + 1 \in Nat \ {0}
        BY <1>t, <1>p, <3>1
      <4>2. QED
        BY <3>2, <4>1 DEF NodeType
    <3>4. /\ nodes' \in Seq(NodeType) /\ DOMAIN nodes' = 1..(Len(nodes) + 1) /\ Len(nodes') = Len(nodes) + 1
          /\ nodes'[Len(nodes) + 1] = node /\ \A b \in DOMAIN nodes : nodes'[b] = nodes[b]
      BY <1>t, <3>1, <3>3, AppendFacts
    <3>5. DiagnosticTypes'
      BY <1>t, <2>1, <2>2, <3>4 DEF DiagnosticTypes
    <3>6. \A b \in DOMAIN nodes : Closed(b)' <=> Closed(b)
      BY <2>1 DEF Closed
    <3>7. Closed(new)'
      <4>1. \A i \in DOMAIN open : open[i] \in DOMAIN nodes
        BY DEF TreeInv
      <4>2. QED
        BY <1>n, <1>t, <2>1, <4>1 DEF Closed
    <3>8. Last(open) \in DOMAIN nodes /\ nodes'[Last(open)] = nodes[Last(open)]
      BY <1>p, <3>1, <3>4
    <3>9. NodeShape(new)'
      BY <1>n, <1>t, <1>p, <2>2, <3>1, <3>2, <3>4, <3>7, <3>8 DEF NodeShape
    <3>10. /\ \A b \in DOMAIN nodes' : NodeShape(b)'
           /\ \A a, b \in DOMAIN nodes' : a < b => Nested(a, b)'
           /\ \A b \in DOMAIN nodes' : b # 1 => BelowParent(b)'
      <4>1. node.from = Len(source) + 1 /\ node.parent = (IF open = <<>> THEN 0 ELSE Last(open))
            /\ Len(source) <= Len(source')
        BY <1>t, <2>2, <3>1, <3>2
      <4>2. QED
        BY <1>n, <2>2, <3>1, <3>3, <3>5, <3>6, <3>9, <4>1, AddsNode
    <3>11. \A i \in DOMAIN open : open[i] \in DOMAIN nodes /\ nodes'[open[i]] = nodes[open[i]] /\ open[i] \in DOMAIN nodes'
      BY <1>t, <3>4 DEF TreeInv
    <3>12. QED
      BY <2>1, <3>5, <3>10, <3>11 DEF TreeInv
  <2>5. QED
    BY <2>3, <2>4
<1>2. ASSUME NEW shape \in {"file"} \union Shapes, Enter(shape)
      PROVE  DiagnosticTypes' /\ TreeInv'
  <2> DEFINE node == Node(shape)
  <2>1. /\ nodes' = Append(nodes, node) /\ source' = source /\ reading' = reading /\ reading = "parse"
        /\ open' = IF shape = "missing" THEN open ELSE Append(open, Len(nodes'))
        /\ IF nodes = <<>> THEN shape = "file" ELSE open # <<>> /\ shape \in Shapes
    BY <1>2 DEF Enter
  <2>2. /\ node.shape = shape /\ node.parent = (IF open = <<>> THEN 0 ELSE Last(open))
        /\ node.from = Len(source) + 1 /\ node.to = Len(source)
    BY DEF Node
  <2>3. node \in NodeType
    <3>1. shape \in {"file"} \union Inner
      BY DiagnosticsAssumption
    <3>2. node.parent \in Nat
      BY <1>t, <1>p, <2>2
    <3>3. QED
      BY <1>t, <2>2, <3>1, <3>2 DEF NodeType, Node
  <2> HIDE DEF node
  <2>4. /\ nodes' \in Seq(NodeType) /\ DOMAIN nodes' = 1..(Len(nodes) + 1) /\ Len(nodes') = Len(nodes) + 1
        /\ nodes'[Len(nodes) + 1] = node /\ \A b \in DOMAIN nodes : nodes'[b] = nodes[b]
    BY <1>t, <2>1, <2>3, AppendFacts
  <2>e. shape # "missing" =>
          /\ open' \in Seq(Nat) /\ Len(open') = Len(open) + 1 /\ DOMAIN open' = 1..(Len(open) + 1)
          /\ open'[Len(open) + 1] = Len(nodes) + 1 /\ \A i \in DOMAIN open : open'[i] = open[i]
    <3>1. Len(nodes) + 1 \in Nat
      BY <1>t
    <3>2. QED
      BY <1>t, <2>1, <2>4, <3>1, AppendFacts
  <2>5. DiagnosticTypes'
    BY <1>t, <2>1, <2>4, <2>e DEF DiagnosticTypes
  <2>o. \A i \in DOMAIN open : open[i] \in DOMAIN nodes /\ open[i] < Len(nodes) + 1
    BY <1>t DEF TreeInv
  <2>6. ASSUME NEW b \in DOMAIN nodes
        PROVE  Closed(b)' <=> Closed(b)
    BY <1>t, <2>1, <2>e DEF Closed
  <2>7. Closed(new)' <=> shape = "missing"
    <3>1. CASE shape = "missing"
      BY <1>n, <2>1, <2>o, <3>1 DEF Closed
    <3>2. CASE shape # "missing"
      <4>1. Len(open) + 1 \in DOMAIN open' /\ open'[Len(open) + 1] = new
        BY <1>n, <1>t, <2>e, <3>2
      <4>2. QED
        BY <3>2, <4>1 DEF Closed
    <3>3. QED
      BY <3>1, <3>2
  <2>n. nodes = <<>> => open = <<>>
    <3>1. SUFFICES ASSUME nodes = <<>>, open # <<>> PROVE FALSE
      OBVIOUS
    <3>2. QED
      BY <1>t, <1>p, <3>1
  <2>8. NodeShape(new)'
    <3>1. CASE nodes = <<>>
      BY <1>n, <1>t, <2>1, <2>2, <2>4, <2>7, <2>n, <3>1, SequenceFacts DEF NodeShape
    <3>2. CASE nodes # <<>>
      <4>1. /\ Last(open) \in DOMAIN nodes /\ nodes'[Last(open)] = nodes[Last(open)]
            /\ nodes[Last(open)].shape \notin {"token", "missing"} /\ node.parent = Last(open)
        BY <1>p, <2>1, <2>2, <2>4, <3>2
      <4>2. Len(nodes) # 0 /\ shape \notin {"file", "token"}
        BY <1>t, <2>1, <3>2, DiagnosticsAssumption, SequenceFacts DEF Inner
      <4>3. /\ nodes'[new] = node /\ new \in Nat /\ new # 1 /\ node.parent \in 1..(new - 1)
            /\ Len(source) \in Nat /\ source' = source
        BY <1>n, <1>t, <2>1, <2>4, <4>1, <4>2
      <4>4. QED
        BY <2>2, <2>7, <4>1, <4>2, <4>3 DEF NodeShape
    <3>3. QED
      BY <3>1, <3>2
  <2>9. /\ \A b \in DOMAIN nodes' : NodeShape(b)'
        /\ \A a, b \in DOMAIN nodes' : a < b => Nested(a, b)'
        /\ \A b \in DOMAIN nodes' : b # 1 => BelowParent(b)'
    BY <1>n, <1>t, <2>1, <2>2, <2>3, <2>5, <2>6, <2>8, AddsNode
  <2>10. \A i \in DOMAIN open : open[i] \in DOMAIN nodes' /\ nodes'[open[i]] = nodes[open[i]]
    BY <1>t, <2>4, <2>o
  <2>11. CASE shape = "missing"
    BY <2>1, <2>5, <2>9, <2>10, <2>11 DEF TreeInv
  <2>12. CASE shape # "missing"
    <3>1. \A i \in DOMAIN open' : open'[i] \in DOMAIN nodes'
      <4>1. SUFFICES ASSUME NEW i \in DOMAIN open'
                     PROVE  open'[i] \in DOMAIN nodes'
        OBVIOUS
      <4>2. CASE i \in DOMAIN open
        BY <2>e, <2>10, <2>12, <4>2
      <4>3. CASE i \notin DOMAIN open
        <5>1. i = Len(open) + 1
          BY <1>t, <2>e, <2>12, <4>1, <4>3
        <5>2. QED
          BY <1>t, <2>4, <2>e, <2>12, <5>1
      <4>4. QED
        BY <4>2, <4>3
    <3>2. open'[1] = 1
      <4>1. CASE open = <<>>
        <5>1. nodes = <<>>
          BY <2>1, <4>1
        <5>2. Len(open) = 0 /\ Len(nodes) = 0
          BY <4>1, <5>1, SequenceFacts
        <5>3. QED
          BY <2>e, <2>12, <5>2
      <4>2. CASE open # <<>>
        <5>1. open[1] = 1
          BY <4>2 DEF TreeInv
        <5>2. 1 \in DOMAIN open
          BY <1>t, <4>2
        <5>3. QED
          BY <2>e, <2>12, <5>1, <5>2
      <4>3. QED
        BY <4>1, <4>2
    <3>3. \A i, j \in DOMAIN open' : i < j => open'[i] < open'[j]
      <4>1. SUFFICES ASSUME NEW i \in DOMAIN open', NEW j \in DOMAIN open', i < j
                     PROVE  open'[i] < open'[j]
        OBVIOUS
      <4>2. i \in DOMAIN open /\ open'[i] = open[i]
        BY <1>t, <2>e, <2>12, <4>1
      <4>3. CASE j = Len(open) + 1
        BY <2>e, <2>12, <2>o, <4>2, <4>3
      <4>4. CASE j # Len(open) + 1
        <5>1. j \in DOMAIN open /\ open'[j] = open[j]
          BY <1>t, <2>e, <2>12, <4>1, <4>4
        <5>2. QED
          BY <4>1, <4>2, <5>1 DEF TreeInv
      <4>5. QED
        BY <4>3, <4>4
    <3>4. \A i \in DOMAIN open' : i # 1 => nodes'[open'[i]].parent = open'[i - 1]
      <4>1. SUFFICES ASSUME NEW i \in DOMAIN open', i # 1
                     PROVE  nodes'[open'[i]].parent = open'[i - 1]
        OBVIOUS
      <4>2. i - 1 \in DOMAIN open
        BY <1>t, <2>e, <2>12, <4>1
      <4>3. CASE i = Len(open) + 1
        <5>1. open # <<>>
          BY <1>t, <4>2
        <5>2. node.parent = open[Len(open)]
          BY <2>2, <5>1 DEF Last
        <5>3. i - 1 = Len(open)
          BY <1>t, <4>3
        <5>4. QED
          BY <2>4, <2>e, <2>12, <4>2, <4>3, <5>2, <5>3
      <4>4. CASE i # Len(open) + 1
        <5>1. i \in DOMAIN open
          BY <1>t, <2>e, <2>12, <4>1, <4>4
        <5>2. nodes[open[i]].parent = open[i - 1]
          BY <4>1, <5>1 DEF TreeInv
        <5>3. QED
          BY <2>e, <2>10, <2>12, <4>2, <5>1, <5>2
      <4>5. QED
        BY <4>3, <4>4
    <3>5. QED
      BY <2>1, <2>5, <2>9, <3>1, <3>2, <3>3, <3>4 DEF TreeInv
  <2>13. QED
    BY <2>11, <2>12
<1>3. CASE Leave
  <2> DEFINE a == Last(open)
  <2>1. /\ open # <<>> /\ source' = source /\ reading' = reading /\ reading = "parse"
        /\ open' = Front(open) /\ nodes' = [nodes EXCEPT ![a].to = Len(source)]
        /\ Len(open) > 1 => nodes[a].from <= Len(source)
    BY <1>3 DEF Leave
  <2>2. /\ a \in DOMAIN nodes /\ ~Closed(a)
        /\ \A b \in DOMAIN nodes : b > a => Closed(b)
        /\ open' \in Seq(Nat) /\ Len(open') = Len(open) - 1
        /\ \A i \in DOMAIN open' : i \in DOMAIN open /\ open'[i] = open[i]
        /\ \A b \in DOMAIN nodes : Closed(b)' <=> Closed(b) \/ b = a
    <3>1. open # <<>>
      BY <2>1
    <3>2. \A b \in DOMAIN nodes : (Closed(b) \/ b = a) <=> (\A i \in DOMAIN open' : open'[i] # b)
      BY <2>1, <3>1, Innermost
    <3>3. QED
      BY <2>1, <3>1, <3>2, Innermost DEF Closed
  <2>3. a = open[Len(open)] /\ Len(open) # 0 /\ (a # 1 => Len(open) > 1)
    <3>1. Len(open) # 0
      BY <1>t, <2>1
    <3>2. QED
      BY <1>t, <2>1, <3>1 DEF Last, TreeInv
  <2> HIDE DEF a
  <2>4. /\ DOMAIN nodes' = DOMAIN nodes
        /\ \A b \in DOMAIN nodes : nodes[b] \in NodeType
        /\ \A b \in DOMAIN nodes : /\ nodes'[b].from = nodes[b].from /\ nodes'[b].shape = nodes[b].shape
                                   /\ nodes'[b].parent = nodes[b].parent
                                   /\ nodes'[b].to = IF b = a THEN Len(source) ELSE nodes[b].to
    <3>1. \A b \in DOMAIN nodes : nodes[b] \in NodeType
      BY <1>t
    <3>2. DOMAIN nodes' = DOMAIN nodes
      BY <2>1
    <3>3. ASSUME NEW b \in DOMAIN nodes
          PROVE  /\ nodes'[b].from = nodes[b].from /\ nodes'[b].shape = nodes[b].shape
                 /\ nodes'[b].parent = nodes[b].parent
                 /\ nodes'[b].to = IF b = a THEN Len(source) ELSE nodes[b].to
      <4>1. nodes'[b] = IF b = a THEN [nodes[a] EXCEPT !.to = Len(source)] ELSE nodes[b]
        BY <2>1, <2>2
      <4>2. nodes[a] \in [shape : {"file", "token"} \union Inner, parent : Nat, from : Nat \ {0}, to : Nat]
        BY <2>2, <3>1 DEF NodeType
      <4>3. QED
        BY <4>1, <4>2
    <3>4. QED
      BY <3>1, <3>2, <3>3
  <2>5. DiagnosticTypes'
    <3>1. nodes' \in Seq(NodeType)
      <4>1. [nodes[a] EXCEPT !.to = Len(source)] \in NodeType
        <5>1. nodes[a] \in NodeType /\ Len(source) \in Nat
          BY <1>t, <2>2
        <5>2. QED
          BY <5>1 DEF NodeType
      <4>2. QED
        BY <1>t, <2>1, <2>2, <4>1
    <3>2. QED
      BY <1>t, <2>1, <2>2, <3>1 DEF DiagnosticTypes
  <2>6. \A b \in DOMAIN nodes : /\ nodes[b].from \in Nat /\ nodes[b].to \in Nat
                                /\ NodeShape(b) /\ (b # 1 => BelowParent(b))
                                /\ (b # 1 => nodes[b].parent \in DOMAIN nodes /\ nodes[b].parent < b)
    <3>1. \A b \in DOMAIN nodes : NodeShape(b) /\ (b # 1 => BelowParent(b))
      BY DEF TreeInv
    <3>2. QED
      <4>1. ASSUME NEW b \in DOMAIN nodes
            PROVE  nodes[b].from \in Nat /\ nodes[b].to \in Nat
        BY <2>4 DEF NodeType
      <4>2. ASSUME NEW b \in DOMAIN nodes, b # 1
            PROVE  nodes[b].parent \in DOMAIN nodes /\ nodes[b].parent < b
        <5>1. nodes[b].parent \in 1..(b - 1)
          BY <3>1, <4>2 DEF NodeShape
        <5>2. QED
          BY <1>t, <5>1
      <4>3. QED
        BY <3>1, <4>1, <4>2
  <2>7. ASSUME NEW b \in DOMAIN nodes
        PROVE  NodeShape(b)'
    <3>1. CASE b = a
      <4>1. nodes[a].shape \notin {"token", "missing"}
        BY <2>2, <2>6 DEF NodeShape
      <4>2. a # 1 => nodes[a].from <= Len(source)
        BY <2>1, <2>3
      <4>3. NodeShape(a)
        BY <2>2, <2>6
      <4>4. a # 1 => nodes'[nodes[a].parent].shape = nodes[nodes[a].parent].shape
        BY <2>2, <2>4, <2>6
      <4>5. a = 1 => nodes[a].shape = "file" /\ nodes[a].parent = 0
        BY <4>3 DEF NodeShape
      <4>6. a # 1 => nodes[a].shape # "file" /\ nodes[a].parent \in 1..(a - 1)
                     /\ nodes[nodes[a].parent].shape \notin {"token", "missing"}
        BY <4>3 DEF NodeShape
      <4>7. nodes[a].from <= Len(source) + 1
        BY <4>3 DEF NodeShape
      <4>8. Len(source) <= Len(source)
        BY <1>t
      <4>9. nodes'[a].from = nodes[a].from /\ nodes'[a].shape = nodes[a].shape
            /\ nodes'[a].parent = nodes[a].parent /\ nodes'[a].to = Len(source)
        BY <2>2, <2>4
      <4>10. QED
        BY <2>1, <3>1, <4>1, <4>2, <4>4, <4>5, <4>6, <4>7, <4>8, <4>9 DEF NodeShape
    <3>2. CASE b # a
      <4>1. Closed(b)' <=> Closed(b)
        BY <2>2, <3>2
      <4>2. nodes'[b].from = nodes[b].from /\ nodes'[b].shape = nodes[b].shape
            /\ nodes'[b].parent = nodes[b].parent /\ nodes'[b].to = nodes[b].to
        BY <2>4, <3>2
      <4>3. b # 1 => nodes'[nodes[b].parent].shape = nodes[nodes[b].parent].shape
        BY <2>4, <2>6
      <4>4. NodeShape(b)
        BY <2>6
      <4>5. QED
        BY <2>1, <4>1, <4>2, <4>3, <4>4 DEF NodeShape
    <3>3. QED
      BY <3>1, <3>2
  <2>8. ASSUME NEW b \in DOMAIN nodes, NEW c \in DOMAIN nodes, b < c
        PROVE  Nested(b, c)'
    <3>1. Nested(b, c) /\ nodes'[b].from = nodes[b].from /\ nodes'[c].from = nodes[c].from
      BY <2>4, <2>8 DEF TreeInv
    <3>2. CASE b = a
      <4>1. Closed(c) /\ c # a
        BY <1>t, <2>2, <2>8, <3>2
      <4>2. Closed(c)' /\ nodes'[c].to = nodes[c].to /\ nodes[c].to <= Len(source) /\ nodes'[b].to = Len(source)
        BY <2>2, <2>4, <2>6, <3>2, <4>1 DEF NodeShape
      <4>3. QED
        BY <3>1, <4>2 DEF Nested
    <3>3. CASE b # a
      <4>1. (Closed(b)' <=> Closed(b)) /\ nodes'[b].to = nodes[b].to
        BY <2>2, <2>4, <3>3
      <4>2. c = a => ~Closed(c)
        BY <2>2
      <4>3. Closed(c) => Closed(c)' /\ nodes'[c].to = nodes[c].to
        BY <2>2, <2>4, <4>2
      <4>4. QED
        BY <3>1, <4>1, <4>3 DEF Nested
    <3>4. QED
      BY <3>2, <3>3
  <2>9. ASSUME NEW b \in DOMAIN nodes, b # 1
        PROVE  BelowParent(b)'
    <3>1. BelowParent(b) /\ nodes[b].parent \in DOMAIN nodes /\ nodes[b].parent < b
          /\ nodes'[b].parent = nodes[b].parent /\ nodes'[b].from = nodes[b].from
      BY <2>4, <2>6, <2>9
    <3>2. ASSUME NEW c \in (nodes[b].parent + 1)..(b - 1)
          PROVE  Closed(c)' /\ nodes'[c].to < nodes[b].from
      <4>1. Closed(c) /\ nodes[c].to < nodes[b].from /\ c \in DOMAIN nodes
        BY <1>t, <3>1 DEF BelowParent
      <4>2. c # a
        BY <2>2, <4>1
      <4>3. QED
        BY <2>2, <2>4, <4>1, <4>2
    <3>3. ASSUME Closed(nodes[b].parent)'
          PROVE  Closed(b)' /\ nodes'[b].to <= nodes'[nodes[b].parent].to
      <4>1. CASE nodes[b].parent = a
        <5>1. Closed(b) /\ b # a
          BY <1>t, <2>2, <3>1, <4>1
        <5>2. nodes[b].to <= Len(source)
          BY <2>6, <5>1 DEF NodeShape
        <5>3. QED
          BY <2>2, <2>4, <4>1, <5>1, <5>2
      <4>2. CASE nodes[b].parent # a
        <5>1. Closed(nodes[b].parent)
          BY <2>2, <3>1, <3>3, <4>2
        <5>2. Closed(b) /\ nodes[b].to <= nodes[nodes[b].parent].to
          BY <3>1, <5>1 DEF BelowParent
        <5>3. b # a
          BY <2>2, <5>2
        <5>4. QED
          BY <2>2, <2>4, <3>1, <4>2, <5>2, <5>3
      <4>3. QED
        BY <4>1, <4>2
    <3>4. QED
      BY <3>1, <3>2, <3>3 DEF BelowParent
  <2>10. \A i \in DOMAIN open' : open'[i] \in DOMAIN nodes'
    BY <2>2, <2>4 DEF TreeInv
  <2>11. open' # <<>> => open'[1] = 1
    <3>1. DOMAIN open' = 1..Len(open') /\ (open' # <<>> => Len(open') # 0) /\ Len(open') \in Nat
      BY <2>2
    <3>2. open' # <<>> => 1 \in DOMAIN open'
      BY <3>1
    <3>3. QED
      BY <2>1, <2>2, <3>2 DEF TreeInv
  <2>12. \A i, j \in DOMAIN open' : i < j => open'[i] < open'[j]
    BY <2>2 DEF TreeInv
  <2>13. ASSUME NEW i \in DOMAIN open', i # 1
         PROVE  nodes'[open'[i]].parent = open'[i - 1]
    <3>1. i \in DOMAIN open /\ i - 1 \in DOMAIN open' /\ open[i] \in DOMAIN nodes
      BY <1>t, <2>2, <2>13 DEF TreeInv
    <3>2. nodes[open[i]].parent = open[i - 1]
      BY <2>13, <3>1 DEF TreeInv
    <3>3. QED
      BY <2>2, <2>4, <3>1, <3>2
  <2>14. QED
    BY <2>1, <2>4, <2>5, <2>7, <2>8, <2>9, <2>10, <2>11, <2>12, <2>13 DEF TreeInv
<1>4. CASE UNCHANGED <<source, nodes, open>> /\ (reading' # "parse" => open = <<>> /\ nodes # <<>>)
  <2>1. \A b : (Closed(b)' <=> Closed(b)) /\ (NodeShape(b)' <=> NodeShape(b)) /\ (BelowParent(b)' <=> BelowParent(b))
    BY <1>4 DEF Closed, NodeShape, BelowParent
  <2>2. \A b, c : Nested(b, c)' <=> Nested(b, c)
    BY <1>4 DEF Closed, Nested
  <2>3. DiagnosticTypes'
    BY <1>4 DEF DiagnosticTypes
  <2>4. QED
    BY <1>4, <2>1, <2>2, <2>3 DEF TreeInv
<1>5. ASSUME Parsed \/ Cover \/ FindGap \/ Covered \/ Group \/ AllGrouped \/ Pick \/ Report
             \/ UNCHANGED diagnosticVars
      PROVE  UNCHANGED <<source, nodes, open>> /\ (reading' # "parse" => open = <<>> /\ nodes # <<>>)
  <2>1. reading # "parse" => open = <<>> /\ nodes # <<>>
    BY DEF TreeInv
  <2>2. CASE Parsed
    BY <2>2 DEF Parsed
  <2>3. CASE Cover \/ FindGap \/ Covered
    BY <2>1, <2>3 DEF Cover, FindGap, Covered
  <2>4. CASE Group \/ AllGrouped
    BY <2>1, <2>4 DEF Group, AllGrouped
  <2>5. CASE Pick \/ Report
    BY <2>1, <2>5 DEF Pick, Report
  <2>6. CASE UNCHANGED diagnosticVars
    BY <2>1, <2>6 DEF diagnosticVars
  <2>7. QED
    BY <1>5, <2>2, <2>3, <2>4, <2>5, <2>6
<1>6. QED
  BY <1>1, <1>2, <1>3, <1>4, <1>5 DEF DiagnosticsNext, Tokens

LEMMA InitTree == DiagnosticsInit => DiagnosticTypes /\ TreeInv
<1> SUFFICES ASSUME DiagnosticsInit PROVE DiagnosticTypes /\ TreeInv
  OBVIOUS
<1>1. nodes = <<>> /\ source = <<>> /\ open = <<>> /\ reading = "parse"
  BY DEF DiagnosticsInit
<1>2. DOMAIN nodes = {} /\ DOMAIN open = {}
  BY <1>1
<1>3. QED
  BY <1>1, <1>2 DEF TreeInv, DiagnosticTypes

-----------------------------------------------------------------------------
(* The walk for gaps. *)
Flawless == \A n \in DOMAIN nodes : ~Flawed(n)
NoGapTo(k) == \A j \in 2..(k - 1) : j \in DOMAIN nodes => GapBefore(j) = {}

CoverInv ==
  /\ visit \in Nat \ {0}
  /\ reading = "cover" => Flawless /\ NoGapTo(visit) /\ visit >= 2
  /\ reading = "accepted" => Flawless /\ NoGapTo(Len(nodes) + 1) /\ Remainder = {}
  /\ reading \in {"group", "pick"} => ~Flawless
  /\ reading = "reported" /\ Flawless =>
       \/ \E k \in DOMAIN nodes : /\ k # 1 /\ NoGapTo(k) /\ GapBefore(k) # {}
                                  /\ reports = <<Min(GapBefore(k))>>
       \/ NoGapTo(Len(nodes) + 1) /\ Remainder # {} /\ reports = <<Min(Remainder)>>

(* The flaws found, and the best of each group. *)
BlockKeys == {TopLevelBlock[n] : n \in DOMAIN nodes}
GroupType == [key : BlockKeys, found : Seq(Nat)]
GroupsMadeOf(gs, v) ==
  /\ gs \in Seq(GroupType)
  /\ \A g, h \in DOMAIN gs : g # h => gs[g].key # gs[h].key
  /\ \A g \in DOMAIN gs : gs[g].found # <<>>
  /\ \A g \in DOMAIN gs : \A i \in DOMAIN gs[g].found :
       LET n == gs[g].found[i]
       IN n \in DOMAIN nodes /\ n < v /\ Flawed(n) /\ TopLevelBlock[n] = gs[g].key
  /\ \A n \in DOMAIN nodes : n < v /\ Flawed(n) =>
       \E g \in DOMAIN gs : \E i \in DOMAIN gs[g].found : gs[g].found[i] = n
  /\ \A g, h \in DOMAIN gs : g < h =>
       \A i \in DOMAIN gs[h].found : gs[g].found[1] < gs[h].found[i]
GroupsMade(v) == GroupsMadeOf(groups, v)

BestTo(r, found, n) ==
  /\ \E i \in 1..(n - 1) : r = found[i]
  /\ \A i \in 1..(n - 1) : ~BetterDiagnostic(found[i], r)
BestOf(r, g) == BestTo(r, groups[g].found, Len(groups[g].found) + 1)

GroupInv ==
  /\ reading \in {"parse", "cover"} => groups = <<>> /\ reports = <<>> /\ candidate = 1
  /\ reading = "group" => GroupsMade(visit) /\ reports = <<>> /\ candidate = 1
  /\ reading = "pick" \/ (reading = "reported" /\ ~Flawless) =>
       /\ GroupsMade(Len(nodes) + 1)
       /\ reports \in Seq(Nat)
       /\ \A i \in DOMAIN reports : i \in DOMAIN groups /\ BestOf(reports[i], i)
  /\ reading = "pick" =>
       /\ Len(reports) < Len(groups)
       /\ \A i \in DOMAIN reports : groups[i].key # 0
       /\ candidate \in 1..(Len(ThisGroup.found) + 1)
       /\ candidate > 1 => BestTo(winner, ThisGroup.found, candidate)
  /\ reading = "reported" /\ ~Flawless =>
       /\ \A i \in DOMAIN reports : i # Len(reports) => groups[i].key # 0
       /\ reports # <<>>
       /\ Len(reports) = Len(groups) \/ groups[Len(reports)].key = 0

(* A set of natural numbers that is not empty has a least one.             *)
LEMMA LeastExists ==
  ASSUME NEW S \in SUBSET Nat, S # {}
  PROVE  \E m \in S : \A k \in S : m <= k
<1> DEFINE Less == {ss \in Nat \X Nat : ss[1] < ss[2]}
<1>0. IsWellFoundedOn(Less, Nat)
  BY NatLessThanWellFounded, Zenon DEF OpToRel
<1> HIDE DEF Less
<1>1. PICK m \in S : \A k \in S : ~(<<k, m>> \in Less)
  BY <1>0, WFMin
<1>2. \A k \in S : ~(k < m)
  BY <1>1 DEF Less
<1>3. QED
  BY <1>2

LEMMA MaxIs ==
  ASSUME NEW S \in SUBSET Int, S # {}, NEW bound \in Int, \A x \in S : x <= bound
  PROVE  Max(S) \in S /\ \A x \in S : x <= Max(S)
<1> DEFINE Below == {bound - x : x \in S}
<1>1. Below \in SUBSET Nat /\ Below # {}
  <2>1. ASSUME NEW x \in S PROVE bound - x \in Nat
    <3>1. x \in Int /\ x <= bound
      OBVIOUS
    <3>2. QED
      BY <3>1
  <2>2. QED
    BY <2>1
<1>2. PICK d \in Below : \A k \in Below : d <= k
  BY <1>1, LeastExists
<1>3. PICK y \in S : d = bound - y
  BY <1>2
<1>4. \A x \in S : y >= x
  <2>1. SUFFICES ASSUME NEW x \in S PROVE y >= x
    OBVIOUS
  <2>2. d <= bound - x
    BY <1>2
  <2>3. QED
    BY <1>3, <2>2
<1>5. \E x \in S : \A z \in S : x >= z
  BY <1>4
<1>6. Max(S) \in S /\ \A z \in S : Max(S) >= z
  BY <1>5 DEF Max
<1>7. QED
  BY <1>6

LEMMA MinIs ==
  ASSUME NEW S \in SUBSET Int, NEW p \in S, \A x \in S : p <= x
  PROVE  Min(S) = p
<1>1. Min(S) \in S /\ \A x \in S : Min(S) <= x
  BY DEF Min
<1>2. Min(S) <= p /\ p <= Min(S) /\ Min(S) \in Int /\ p \in Int
  BY <1>1
<1>3. QED
  BY <1>2

LEMMA MinIn ==
  ASSUME NEW S \in SUBSET Nat, S # {}
  PROVE  Min(S) \in S /\ \A x \in S : Min(S) <= x
<1>1. PICK m \in S : \A k \in S : m <= k
  BY LeastExists
<1>2. Min(S) = m
  BY <1>1, MinIs
<1>3. QED
  BY <1>1, <1>2

(* A tree that has been read, and has no flaw.                             *)
WholeTree ==
  /\ Len(nodes) \in Nat /\ DOMAIN nodes = 1..Len(nodes) /\ 1 \in DOMAIN nodes
  /\ Len(source) \in Nat /\ DOMAIN source = 1..Len(source)
  /\ nodes[1].shape = "file" /\ nodes[1].parent = 0
  /\ \A b \in DOMAIN nodes : /\ nodes[b].from \in Nat \ {0} /\ nodes[b].to \in Nat
                             /\ nodes[b].from <= Len(source) + 1 /\ nodes[b].to <= Len(source)
  /\ \A b \in DOMAIN nodes : nodes[b].shape = "token" => nodes[b].to = nodes[b].from
  /\ \A b \in DOMAIN nodes : b # 1 =>
       /\ nodes[b].from <= nodes[b].to
       /\ nodes[b].shape \in {"token", "block", "checked", "verbatim", "fields"}
       /\ nodes[b].parent \in DOMAIN nodes /\ nodes[b].parent < b
       /\ nodes[nodes[b].parent].shape # "token"
       /\ nodes[b].to <= nodes[nodes[b].parent].to
  /\ \A b, c \in DOMAIN nodes : b # 1 /\ nodes[b].parent < c /\ c < b => nodes[c].to < nodes[b].from
  /\ \A a, b \in DOMAIN nodes : a < b =>
       nodes[a].from <= nodes[b].from /\ (nodes[a].to < nodes[b].from \/ nodes[b].to <= nodes[a].to)

LEMMA TreeIsWhole ==
  ASSUME DiagnosticTypes, TreeInv, open = <<>>, nodes # <<>>, Flawless
  PROVE  WholeTree
<1>1. /\ Len(nodes) \in Nat \ {0} /\ DOMAIN nodes = 1..Len(nodes) /\ 1 \in DOMAIN nodes
      /\ Len(source) \in Nat /\ DOMAIN source = 1..Len(source)
      /\ \A b \in DOMAIN nodes : nodes[b] \in NodeType
  BY DEF DiagnosticTypes
<1>2. \A b : Closed(b)
  BY DEF Closed
<1>3. \A b \in DOMAIN nodes : /\ nodes[b].from \in Nat \ {0} /\ nodes[b].to \in Nat
                              /\ nodes[b].shape \in {"file", "token"} \union Inner
  BY <1>1 DEF NodeType
<1>4. \A b \in DOMAIN nodes : NodeShape(b) /\ (b # 1 => BelowParent(b))
  BY DEF TreeInv
<1>5. \A b \in DOMAIN nodes : nodes[b].shape \notin {"error", "missing"}
  BY DEF Flawless, Flawed
<1>6. nodes[1].shape = "file" /\ nodes[1].parent = 0
  BY <1>1, <1>4 DEF NodeShape
<1>7. ASSUME NEW b \in DOMAIN nodes
      PROVE  /\ nodes[b].from <= Len(source) + 1 /\ nodes[b].to <= Len(source)
             /\ nodes[b].shape = "token" => nodes[b].to = nodes[b].from
  BY <1>2, <1>4 DEF NodeShape
<1>8. ASSUME NEW b \in DOMAIN nodes, b # 1
      PROVE  /\ nodes[b].from <= nodes[b].to
             /\ nodes[b].shape \in {"token", "block", "checked", "verbatim", "fields"}
             /\ nodes[b].parent \in 1..(b - 1)
             /\ nodes[nodes[b].parent].shape # "token"
  BY <1>2, <1>3, <1>4, <1>5, <1>8 DEF NodeShape, Inner
<1>9. ASSUME NEW b \in DOMAIN nodes, b # 1
      PROVE  nodes[b].parent \in DOMAIN nodes /\ nodes[b].parent < b
  BY <1>1, <1>8, <1>9
<1>10. ASSUME NEW b \in DOMAIN nodes, b # 1
       PROVE  nodes[b].to <= nodes[nodes[b].parent].to
  BY <1>2, <1>4, <1>10 DEF BelowParent
<1>11. ASSUME NEW b \in DOMAIN nodes, NEW c \in DOMAIN nodes, b # 1, nodes[b].parent < c, c < b
       PROVE  nodes[c].to < nodes[b].from
  <2>1. c \in (nodes[b].parent + 1)..(b - 1)
    BY <1>1, <1>9, <1>11
  <2>2. QED
    BY <1>4, <1>11, <2>1 DEF BelowParent
<1>12. ASSUME NEW a \in DOMAIN nodes, NEW b \in DOMAIN nodes, a < b
       PROVE  nodes[a].from <= nodes[b].from /\ (nodes[a].to < nodes[b].from \/ nodes[b].to <= nodes[a].to)
  <2>1. Nested(a, b)
    BY <1>12 DEF TreeInv
  <2>2. QED
    BY <1>2, <2>1 DEF Nested
<1>13. QED
  BY <1>1, <1>3, <1>6, <1>7, <1>8, <1>9, <1>10, <1>11, <1>12 DEF WholeTree

LEMMA TreeBounds ==
  ASSUME WholeTree
  PROVE  /\ \A b \in DOMAIN nodes : /\ b \in Nat \ {0} /\ nodes[b].from \in Nat \ {0}
                                      /\ nodes[b].to \in Nat
         /\ \A a, b \in DOMAIN nodes : a < b => nodes[a].from <= nodes[b].from
         /\ 1 \in DOMAIN nodes
<1>1. Len(nodes) \in Nat /\ DOMAIN nodes = 1..Len(nodes)
  BY DEF WholeTree
<1>2. \A b \in DOMAIN nodes : b \in Nat \ {0}
  BY <1>1
<1>3. QED
  BY <1>2 DEF WholeTree

LEMMA UnderRoot ==
  ASSUME WholeTree, NEW b \in DOMAIN nodes, b # 1
  PROVE  nodes[b].to <= nodes[1].to
<1> DEFINE Out == {j \in DOMAIN nodes : j # 1 /\ nodes[j].to > nodes[1].to}
<1>1. SUFFICES ASSUME Out # {} PROVE FALSE
  BY DEF WholeTree
<1>2. Out \in SUBSET Nat
  BY DEF WholeTree
<1>3. PICK j \in Out : \A k \in Out : j <= k
  BY <1>1, <1>2, LeastExists
<1>4. nodes[j].parent \in DOMAIN nodes /\ nodes[j].parent < j /\ nodes[j].to <= nodes[nodes[j].parent].to
      /\ nodes[j].to > nodes[1].to
  BY DEF WholeTree
<1>5. nodes[j].parent \notin Out
  BY <1>3, <1>4 DEF WholeTree
<1>6. nodes[j].parent # 1
  BY <1>4 DEF WholeTree
<1>7. nodes[nodes[j].parent].to <= nodes[1].to
  <2>1. nodes[nodes[j].parent].to \in Nat /\ nodes[1].to \in Nat
    BY <1>4, TreeBounds
  <2>2. QED
    BY <1>4, <1>5, <1>6, <2>1
<1>8. nodes[nodes[j].parent].to \in Nat /\ nodes[1].to \in Nat /\ nodes[j].to \in Nat
  BY <1>4, TreeBounds
<1>9. QED
  BY <1>4, <1>7, <1>8

(* A node that lies within another is within a child of it. *)
LEMMA KidAbove ==
  ASSUME WholeTree, NEW n \in DOMAIN nodes, NEW h \in DOMAIN nodes, n < h,
         \A j \in DOMAIN nodes : n < j /\ j <= h => nodes[j].from <= nodes[n].to
  PROVE  \E j \in Kids(n) : j <= h /\ nodes[h].to <= nodes[j].to
<1> DEFINE Around == {j \in DOMAIN nodes : n < j /\ j <= h /\ nodes[h].to <= nodes[j].to}
<1>1. Around \in SUBSET Nat /\ h \in Around
  BY DEF WholeTree
<1>2. PICK j \in Around : \A k \in Around : j <= k
  BY <1>1, LeastExists
<1>3. /\ j \in DOMAIN nodes /\ n < j /\ j <= h /\ nodes[h].to <= nodes[j].to /\ j # 1
      /\ nodes[j].parent \in DOMAIN nodes /\ nodes[j].parent < j
      /\ nodes[j].to <= nodes[nodes[j].parent].to
  BY DEF WholeTree
<1>4. ~(n < nodes[j].parent)
  <2>1. SUFFICES ASSUME n < nodes[j].parent PROVE FALSE
    OBVIOUS
  <2>2. nodes[j].parent \in Around
    <3>1. PICK u : u = nodes[j].parent
      OBVIOUS
    <3>2. /\ u \in Nat /\ j \in Nat /\ h \in Nat
          /\ nodes[u].to \in Nat /\ nodes[j].to \in Nat /\ nodes[h].to \in Nat
      BY <1>3, <3>1, TreeBounds
    <3>3. u <= h /\ nodes[h].to <= nodes[u].to
      BY <1>3, <3>1, <3>2
    <3>4. QED
      BY <1>3, <2>1, <3>1, <3>3
  <2>3. QED
    BY <1>2, <1>3, <2>2 DEF WholeTree
<1>5. ~(nodes[j].parent < n)
  <2>1. SUFFICES ASSUME nodes[j].parent < n PROVE FALSE
    OBVIOUS
  <2>2. nodes[n].to < nodes[j].from
    BY <1>3, <2>1 DEF WholeTree
  <2>3. nodes[j].from <= nodes[n].to
    BY <1>3
  <2>4. QED
    BY <1>3, <2>2, <2>3 DEF WholeTree
<1>6. nodes[j].parent = n
  <2>1. nodes[j].parent \in Nat /\ n \in Nat
    BY <1>3 DEF WholeTree
  <2>2. QED
    BY <1>4, <1>5, <2>1
<1>7. QED
  BY <1>3, <1>6 DEF Kids

LEMMA KidAboveBefore ==
  ASSUME WholeTree, NEW n \in DOMAIN nodes, NEW k \in Kids(n), NEW h \in DOMAIN nodes, n < h, h < k, k # 1
  PROVE  \E j \in Kids(n) : j < k /\ nodes[h].to <= nodes[j].to
<1>1. k \in DOMAIN nodes /\ nodes[k].parent = n
  BY DEF Kids
<1>2. nodes[k].from <= nodes[k].to /\ nodes[k].to <= nodes[n].to
  BY <1>1 DEF WholeTree
<1>3. ASSUME NEW j \in DOMAIN nodes, n < j, j <= h
      PROVE  nodes[j].from <= nodes[n].to
  <2>1. j < k
    BY <1>1, <1>3 DEF WholeTree
  <2>2. nodes[j].from <= nodes[k].from
    BY <1>1, <2>1, TreeBounds
  <2>3. nodes[j].from \in Nat /\ nodes[k].from \in Nat /\ nodes[k].to \in Nat /\ nodes[n].to \in Nat
    BY <1>1, TreeBounds
  <2>4. QED
    BY <1>2, <2>2, <2>3
<1>4. PICK j \in Kids(n) : j <= h /\ nodes[h].to <= nodes[j].to
  BY <1>3, KidAbove
<1>5. j < k
  BY <1>1, <1>4 DEF WholeTree, Kids
<1>6. QED
  BY <1>4, <1>5

LEMMA KidOfRoot ==
  ASSUME WholeTree, NEW h \in DOMAIN nodes, h # 1
  PROVE  \E j \in Kids(1) : j <= h /\ nodes[h].to <= nodes[j].to
<1>1. \A j \in DOMAIN nodes : 1 < j /\ j <= h => nodes[j].from <= nodes[1].to
  <2>1. SUFFICES ASSUME NEW j \in DOMAIN nodes, 1 < j PROVE nodes[j].from <= nodes[1].to
    OBVIOUS
  <2>2. nodes[j].to <= nodes[1].to
    BY <2>1, UnderRoot
  <2>3. QED
    BY <2>1, <2>2 DEF WholeTree
<1>2. 1 < h /\ 1 \in DOMAIN nodes
  BY DEF WholeTree
<1>3. QED
  BY <1>1, <1>2, KidAbove

(* Where the text before a child, and the end of the file, begin.          *)
LEMMA PrevEndIs ==
  ASSUME WholeTree, NEW k \in DOMAIN nodes, k # 1, NEW n, n = nodes[k].parent
  PROVE  /\ PrevEnd(k) \in Int /\ nodes[n].from - 1 <= PrevEnd(k)
         /\ \A j \in Kids(n) : j < k => nodes[j].to <= PrevEnd(k)
         /\ \/ PrevEnd(k) = nodes[n].from - 1
            \/ \E j \in Kids(n) : j < k /\ PrevEnd(k) = nodes[j].to
<1> DEFINE S == {nodes[n].from - 1} \union {nodes[j].to : j \in {j \in Kids(n) : j < k}}
<1>1. n \in DOMAIN nodes /\ nodes[n].from \in Nat
  BY DEF WholeTree
<1>k. \A j \in Kids(n) : nodes[j].to \in Nat /\ nodes[j].to <= Len(source)
  BY DEF WholeTree, Kids
<1>f. nodes[n].from - 1 \in Int /\ nodes[n].from - 1 <= Len(source)
  BY <1>1 DEF WholeTree
<1>2. S \in SUBSET Int /\ S # {}
  BY <1>k, <1>f
<1>3. \A x \in S : x <= Len(source)
  BY <1>k, <1>f
<1>4. Len(source) \in Int
  BY DEF WholeTree
<1>5. Max(S) \in S /\ \A x \in S : x <= Max(S)
  BY <1>2, <1>3, <1>4, MaxIs
<1>6. PrevEnd(k) = Max(S)
  BY DEF PrevEnd
<1>7. QED
  BY <1>2, <1>5, <1>6

TailStart == Max({0} \union {nodes[k].to : k \in Kids(1)})
LEMMA TailStartIs ==
  ASSUME WholeTree
  PROVE  /\ TailStart \in Nat /\ \A j \in Kids(1) : nodes[j].to <= TailStart
         /\ TailStart = 0 \/ \E j \in Kids(1) : TailStart = nodes[j].to
         /\ Remainder = Words(TailStart + 1, Len(source))
<1> DEFINE S == {0} \union {nodes[k].to : k \in Kids(1)}
<1>1. S \in SUBSET Nat /\ S # {} /\ \A x \in S : x <= Len(source)
  BY DEF WholeTree, Kids
<1>2. Len(source) \in Int /\ S \in SUBSET Int
  BY <1>1 DEF WholeTree
<1>3. Max(S) \in S /\ \A x \in S : x <= Max(S)
  BY <1>1, <1>2, MaxIs
<1>4. TailStart = Max(S)
  BY DEF TailStart
<1>5. QED
  BY <1>1, <1>3, <1>4 DEF Remainder, TailStart

LEMMA GapIs ==
  ASSUME WholeTree, NEW k \in DOMAIN nodes, k # 1, NEW p \in GapBefore(k)
  PROVE  /\ Checked(nodes[k].parent) /\ p \in DOMAIN source /\ source[p] # "blank"
         /\ PrevEnd(k) < p /\ p < nodes[k].from /\ p \in Nat
<1>1. Checked(nodes[k].parent) /\ p \in Words(PrevEnd(k) + 1, nodes[k].from - 1)
  BY DEF GapBefore
<1>2. /\ PrevEnd(k) \in Int /\ nodes[nodes[k].parent].from - 1 <= PrevEnd(k)
      /\ nodes[nodes[k].parent].from \in Nat \ {0} /\ nodes[k].from \in Nat
      /\ nodes[k].from <= Len(source) + 1
  BY PrevEndIs DEF WholeTree
<1>3. p \in (PrevEnd(k) + 1)..(nodes[k].from - 1) /\ source[p] # "blank"
  BY <1>1 DEF Words
<1>4. Len(source) \in Nat /\ DOMAIN source = 1..Len(source)
  BY DEF WholeTree
<1>5. p \in Int /\ PrevEnd(k) < p /\ p < nodes[k].from
  BY <1>2, <1>3
<1>6. p \in 1..Len(source)
  BY <1>2, <1>4, <1>5
<1>7. QED
  BY <1>1, <1>3, <1>4, <1>5, <1>6

LEMMA RemainderIs ==
  ASSUME WholeTree, NEW p \in Remainder
  PROVE  /\ p \in DOMAIN source /\ source[p] # "blank" /\ TailStart < p /\ p \in Nat
<1>1. p \in (TailStart + 1)..Len(source) /\ source[p] # "blank"
  BY TailStartIs DEF Words
<1>2. QED
  BY <1>1, TailStartIs DEF WholeTree

(* What stands before a child, and behind the others, is lost and noticed. *)
LEMMA GapIsNoticed ==
  ASSUME WholeTree, NEW k \in DOMAIN nodes, k # 1, NEW p \in GapBefore(k)
  PROVE  p \in Lost /\ ~Unnoticed(p)
<1>0. PICK n : n = nodes[k].parent
  OBVIOUS
<1>1. /\ Checked(n) /\ p \in DOMAIN source /\ source[p] # "blank"
      /\ PrevEnd(k) < p /\ p < nodes[k].from /\ p \in Nat
  BY <1>0, GapIs
<1>2. /\ PrevEnd(k) \in Int /\ nodes[n].from - 1 <= PrevEnd(k)
      /\ \A j \in Kids(n) : j < k => nodes[j].to <= PrevEnd(k)
  BY <1>0, PrevEndIs
<1>3. /\ n \in DOMAIN nodes /\ n < k /\ nodes[n].from \in Nat /\ nodes[n].to \in Nat
      /\ nodes[k].from <= nodes[k].to /\ nodes[k].to <= nodes[n].to /\ k \in Kids(n)
      /\ nodes[k].from \in Nat /\ nodes[k].to \in Nat /\ nodes[n].shape # "token"
  BY <1>0 DEF WholeTree, Kids
<1>4. nodes[n].from <= p /\ p <= nodes[n].to
  BY <1>1, <1>2, <1>3
<1>5. ASSUME NEW h \in DOMAIN nodes, n < h
      PROVE  nodes[h].from > p \/ nodes[h].to < p
  <2>1. CASE h >= k
    <3>1. nodes[k].from <= nodes[h].from /\ nodes[h].from \in Nat
      BY <2>1 DEF WholeTree
    <3>2. QED
      BY <1>1, <1>3, <3>1
  <2>2. CASE h < k
    <3>1. PICK j \in Kids(n) : j < k /\ nodes[h].to <= nodes[j].to
      BY <1>3, <1>5, <2>2, KidAboveBefore
    <3>2. nodes[j].to <= PrevEnd(k) /\ nodes[j].to \in Nat /\ nodes[h].to \in Nat
      BY <1>2, <3>1 DEF WholeTree, Kids
    <3>3. QED
      BY <1>1, <1>2, <3>1, <3>2
  <2>3. QED
    BY <2>1, <2>2 DEF WholeTree
<1>6. p \in Lost
  <2>1. SUFFICES ASSUME NEW t \in DOMAIN nodes, nodes[t].shape = "token", nodes[t].from = p
                 PROVE  FALSE
    BY <1>1 DEF Lost
  <2>2. nodes[t].to = p /\ t # n
    BY <1>3, <2>1 DEF WholeTree
  <2>3. ~(n < t)
    BY <1>1, <1>5, <2>1, <2>2
  <2>4. t < n
    BY <1>3, <2>2, <2>3 DEF WholeTree
  <2>5. nodes[t].to < nodes[n].from \/ nodes[n].to <= nodes[t].to
    BY <1>3, <2>4 DEF WholeTree
  <2>6. QED
    BY <1>1, <1>3, <1>4, <2>2, <2>5
<1>7. n \in Holders(p)
  BY <1>3, <1>4 DEF Holders
<1>8. Max(Holders(p)) = n
  <2>1. Holders(p) \in SUBSET Int /\ Holders(p) # {} /\ \A x \in Holders(p) : x <= Len(nodes)
    BY <1>7 DEF Holders, WholeTree
  <2>b. Len(nodes) \in Int
    BY DEF WholeTree
  <2>2. Max(Holders(p)) \in Holders(p) /\ n <= Max(Holders(p))
    BY <1>7, <2>1, <2>b, MaxIs
  <2>3. \A h \in Holders(p) : ~(n < h)
    <3>1. SUFFICES ASSUME NEW h \in Holders(p), n < h PROVE FALSE
      OBVIOUS
    <3>2. h \in DOMAIN nodes /\ nodes[h].from <= p /\ p <= nodes[h].to
          /\ nodes[h].from \in Nat /\ nodes[h].to \in Nat
      BY DEF Holders, WholeTree
    <3>3. QED
      BY <1>1, <1>5, <3>1, <3>2
  <2>4. QED
    BY <1>3, <2>1, <2>2, <2>3 DEF WholeTree
<1>9. ~(p < nodes[1].from)
  <2>1. nodes[1].from <= nodes[n].from /\ nodes[1].from \in Nat
    <3>1. 1 \in DOMAIN nodes /\ n \in Nat \ {0} /\ nodes[1].from \in Nat
      BY <1>3, TreeBounds
    <3>2. CASE n = 1
      BY <1>3, <3>1, <3>2
    <3>3. CASE n # 1
      <4>1. 1 < n
        BY <3>1, <3>3
      <4>2. QED
        BY <1>3, <3>1, <4>1, TreeBounds
    <3>4. QED
      BY <3>2, <3>3
  <2>2. QED
    BY <1>1, <1>3, <1>4, <2>1
<1>10. nodes[n].shape \notin {"verbatim", "fields"}
  BY <1>1 DEF Checked
<1>11. ~(nodes[k].to < p)
  BY <1>1, <1>3
<1>12. QED
  BY <1>3, <1>6, <1>8, <1>9, <1>10, <1>11 DEF Unnoticed, Deepest

LEMMA RemainderIsNoticed ==
  ASSUME WholeTree, NEW p \in Remainder
  PROVE  p \in Lost /\ ~Unnoticed(p)
<1>1. p \in DOMAIN source /\ source[p] # "blank" /\ TailStart < p /\ p \in Nat
  BY RemainderIs
<1>2. TailStart \in Nat /\ \A j \in Kids(1) : nodes[j].to <= TailStart /\ nodes[j].to \in Nat
  BY TailStartIs DEF WholeTree, Kids
<1>3. ASSUME NEW h \in DOMAIN nodes, h # 1
      PROVE  nodes[h].to < p
  <2>1. PICK j \in Kids(1) : j <= h /\ nodes[h].to <= nodes[j].to
    BY <1>3, KidOfRoot
  <2>2. QED
    BY <1>1, <1>2, <2>1 DEF WholeTree
<1>4. p \in Lost
  <2>1. SUFFICES ASSUME NEW t \in DOMAIN nodes, nodes[t].shape = "token", nodes[t].from = p
                 PROVE  FALSE
    BY <1>1 DEF Lost
  <2>2. nodes[t].to = p /\ t # 1
    BY <2>1 DEF WholeTree
  <2>3. QED
    BY <1>1, <1>3, <2>2
<1>5. ~(p < nodes[1].from /\ Kids(1) # {})
  <2>1. SUFFICES ASSUME NEW j \in Kids(1), p < nodes[1].from PROVE FALSE
    OBVIOUS
  <2>2. j \in DOMAIN nodes /\ j # 1 /\ 1 < j /\ 1 \in DOMAIN nodes
    BY DEF WholeTree, Kids
  <2>3. nodes[1].from <= nodes[j].from /\ nodes[j].from <= nodes[j].to /\ nodes[1].from \in Nat
        /\ nodes[j].from \in Nat /\ nodes[j].to \in Nat
    BY <2>2 DEF WholeTree
  <2>4. QED
    BY <1>1, <1>3, <2>1, <2>2, <2>3
<1>6. ASSUME NEW n \in Holders(p)
      PROVE  n = 1
  <2>1. n \in DOMAIN nodes /\ p <= nodes[n].to /\ nodes[n].to \in Nat
    BY DEF Holders, WholeTree
  <2>2. QED
    BY <1>1, <1>3, <2>1
<1>7. nodes[1].shape \notin {"verbatim", "fields"}
  BY DEF WholeTree
<1>8. QED
  BY <1>4, <1>5, <1>6, <1>7 DEF Unnoticed, Deepest

(* What is lost and noticed stands before a child or behind all of them.   *)
LEMMA LossIsSeen ==
  ASSUME WholeTree, NEW p \in Lost, ~Unnoticed(p)
  PROVE  p \in Remainder \/ \E k \in DOMAIN nodes : k # 1 /\ p \in GapBefore(k)
<1>1. /\ p \in DOMAIN source /\ source[p] # "blank" /\ p \in Nat /\ p >= 1 /\ p <= Len(source)
      /\ \A t \in DOMAIN nodes : nodes[t].shape = "token" => nodes[t].from # p
  BY DEF Lost, WholeTree
<1>2. TailStart < p => p \in Remainder
  <2>1. SUFFICES ASSUME TailStart < p PROVE p \in Words(TailStart + 1, Len(source))
    BY TailStartIs
  <2>2. QED
    BY <1>1, <2>1, TailStartIs DEF Words, WholeTree
<1>3. (\A k \in Kids(1) : nodes[k].to < p) => TailStart < p
  BY <1>1, TailStartIs
<1>4. CASE Holders(p) = {}
  <2>1. CASE Kids(1) = {}
    BY <1>2, <1>3, <2>1
  <2>2. CASE Kids(1) # {}
    <3>1. ~(p < nodes[1].from)
      BY <2>2 DEF Unnoticed, Deepest
    <3>2. 1 \in DOMAIN nodes /\ 1 \notin Holders(p) /\ nodes[1].from \in Nat /\ nodes[1].to \in Nat
      BY <1>4 DEF WholeTree
    <3>3. nodes[1].to < p
      BY <1>1, <3>1, <3>2 DEF Holders
    <3>4. ASSUME NEW k \in Kids(1)
          PROVE  nodes[k].to < p
      <4>1. k \in DOMAIN nodes /\ k # 1 /\ nodes[k].to \in Nat
        BY DEF WholeTree, Kids
      <4>2. nodes[k].to <= nodes[1].to
        BY <4>1, UnderRoot
      <4>3. QED
        BY <1>1, <3>2, <3>3, <4>1, <4>2
    <3>5. QED
      BY <1>2, <1>3, <3>4
  <2>3. QED
    BY <2>1, <2>2
<1>5. CASE Holders(p) # {}
  <2>1. PICK n : n = Max(Holders(p))
    OBVIOUS
  <2>2. Holders(p) \in SUBSET Int /\ \A x \in Holders(p) : x <= Len(nodes)
    BY DEF Holders, WholeTree
  <2>3. Len(nodes) \in Int
    BY DEF WholeTree
  <2>4. n \in Holders(p) /\ \A x \in Holders(p) : x <= n
    BY <1>5, <2>1, <2>2, <2>3, MaxIs
  <2>5. /\ n \in DOMAIN nodes /\ nodes[n].from <= p /\ p <= nodes[n].to
        /\ nodes[n].from \in Nat /\ nodes[n].to \in Nat
    BY <2>4 DEF Holders, WholeTree
  <2>6. nodes[n].shape \notin {"verbatim", "fields"} /\ (n = 1 \/ ~(\A k \in Kids(n) : nodes[k].to < p))
    <3>1. Deepest(n, p)
      BY <2>1, <2>4 DEF Deepest
    <3>2. QED
      BY <2>5, <3>1 DEF Unnoticed
  <2>7. nodes[n].shape # "token"
    <3>1. SUFFICES ASSUME nodes[n].shape = "token" PROVE FALSE
      OBVIOUS
    <3>2. nodes[n].to = nodes[n].from
      BY <2>5, <3>1 DEF WholeTree
    <3>3. nodes[n].from = p
      BY <1>1, <2>5, <3>2
    <3>4. QED
      BY <1>1, <2>5, <3>1, <3>3
  <2>8. Checked(n)
    BY <2>5, <2>6, <2>7 DEF Checked, WholeTree
  <2>9. CASE \A k \in Kids(n) : nodes[k].to < p
    BY <1>2, <1>3, <2>6, <2>9
  <2>10. CASE ~(\A k \in Kids(n) : nodes[k].to < p)
    <3> DEFINE Past == {k \in Kids(n) : ~(nodes[k].to < p)}
    <3>1. Past \in SUBSET Nat /\ Past # {}
      BY <2>10 DEF Kids, WholeTree
    <3>2. PICK k \in Past : \A j \in Past : k <= j
      BY <3>1, LeastExists
    <3>3. /\ k \in DOMAIN nodes /\ k # 1 /\ nodes[k].parent = n /\ nodes[k].to >= p /\ n < k
          /\ nodes[k].from \in Nat /\ nodes[k].to \in Nat /\ nodes[n].from - 1 < p
      BY <1>1, <2>5 DEF Kids, WholeTree
    <3>4. p < nodes[k].from
      <4>1. k \notin Holders(p)
        BY <2>4, <2>5, <3>3 DEF WholeTree
      <4>2. QED
        BY <1>1, <3>3, <4>1 DEF Holders
    <3>5. \A j \in Kids(n) : j < k => nodes[j].to < p
      <4>1. SUFFICES ASSUME NEW j \in Kids(n), j < k, ~(nodes[j].to < p) PROVE FALSE
        OBVIOUS
      <4>2. j \in Past /\ j \in Nat /\ k \in Nat
        BY <3>3, <4>1 DEF Kids, WholeTree
      <4>3. QED
        BY <3>2, <4>1, <4>2
    <3>6. PrevEnd(k) < p /\ PrevEnd(k) \in Int
      BY <3>3, <3>5, PrevEndIs
    <3>7. p \in (PrevEnd(k) + 1)..(nodes[k].from - 1)
      BY <1>1, <3>3, <3>4, <3>6
    <3>8. p \in GapBefore(k)
      BY <1>1, <2>8, <3>3, <3>7 DEF GapBefore, Words
    <3>9. QED
      BY <3>3, <3>8
  <2>11. QED
    BY <2>9, <2>10
<1>6. QED
  BY <1>4, <1>5

(* The walk meets what is lost in the order of the text.                   *)
LEMMA GapsInOrder ==
  ASSUME WholeTree, NEW k \in DOMAIN nodes, k # 1, NEW p \in GapBefore(k),
         NEW l \in DOMAIN nodes, k < l, NEW q \in GapBefore(l)
  PROVE  p < q
<1>0. PICK n : n = nodes[l].parent
  OBVIOUS
<1>1. p < nodes[k].from /\ p \in Nat /\ PrevEnd(l) < q /\ q < nodes[l].from /\ q \in Nat /\ l # 1
  BY GapIs DEF WholeTree
<1>2. /\ PrevEnd(l) \in Int /\ nodes[n].from - 1 <= PrevEnd(l)
      /\ \A j \in Kids(n) : j < l => nodes[j].to <= PrevEnd(l)
  BY <1>0, <1>1, PrevEndIs
<1>3. /\ n \in DOMAIN nodes /\ n < l /\ nodes[n].from \in Nat /\ nodes[k].from \in Nat
      /\ nodes[k].from <= nodes[k].to /\ nodes[k].to \in Nat /\ l \in Kids(n)
  BY <1>0, <1>1 DEF WholeTree, Kids
<1>4. CASE k <= n
  <2>1. nodes[k].from <= nodes[n].from
    BY <1>3, <1>4 DEF WholeTree
  <2>2. QED
    BY <1>1, <1>2, <1>3, <2>1
<1>5. CASE n < k
  <2>1. PICK j \in Kids(n) : j < l /\ nodes[k].to <= nodes[j].to
    BY <1>1, <1>3, <1>5, KidAboveBefore
  <2>2. nodes[j].to <= PrevEnd(l) /\ nodes[j].to \in Nat
    BY <1>2, <2>1 DEF WholeTree, Kids
  <2>3. QED
    BY <1>1, <1>2, <1>3, <2>1, <2>2
<1>6. QED
  BY <1>3, <1>4, <1>5 DEF WholeTree

LEMMA RemainderIsLast ==
  ASSUME WholeTree, NEW k \in DOMAIN nodes, k # 1, NEW p \in GapBefore(k), NEW q \in Remainder
  PROVE  p < q
<1>1. p < nodes[k].from /\ p \in Nat /\ TailStart < q /\ q \in Nat
  BY GapIs, RemainderIs
<1>2. PICK j \in Kids(1) : j <= k /\ nodes[k].to <= nodes[j].to
  BY KidOfRoot
<1>3. nodes[j].to <= TailStart /\ TailStart \in Nat /\ nodes[j].to \in Nat
  BY <1>2, TailStartIs DEF WholeTree, Kids
<1>4. nodes[k].from <= nodes[k].to /\ nodes[k].from \in Nat /\ nodes[k].to \in Nat
  BY DEF WholeTree
<1>5. QED
  BY <1>1, <1>2, <1>3, <1>4

LEMMA LossHolds == DiagnosticTypes /\ TreeInv /\ CoverInv => LossIsReported
<1> SUFFICES ASSUME DiagnosticTypes, TreeInv, CoverInv PROVE LossIsReported
  OBVIOUS
<1> DEFINE noticed == {p \in Lost : ~Unnoticed(p)}
<1>1. reading \in {"accepted", "reported"} /\ Flawless => WholeTree
  BY TreeIsWhole DEF TreeInv
<1>2. reading = "accepted" => Flawless /\ noticed = {}
  <2>1. SUFFICES ASSUME reading = "accepted" PROVE Flawless /\ noticed = {}
    OBVIOUS
  <2>2. Flawless /\ NoGapTo(Len(nodes) + 1) /\ Remainder = {} /\ WholeTree
    BY <1>1, <2>1 DEF CoverInv
  <2>3. \A k \in DOMAIN nodes : k # 1 => GapBefore(k) = {}
    BY <2>2 DEF NoGapTo, WholeTree
  <2>4. QED
    BY <2>2, <2>3, LossIsSeen
<1>3. ASSUME reading = "reported", Flawless
      PROVE  noticed # {} /\ reports = <<Min(noticed)>>
  <2>1. WholeTree
    BY <1>1, <1>3
  <2>2. noticed \in SUBSET Nat
    BY <2>1 DEF Lost, WholeTree
  <2>3. ASSUME NEW k \in DOMAIN nodes, k # 1, NoGapTo(k), GapBefore(k) # {}
        PROVE  noticed # {} /\ Min(noticed) = Min(GapBefore(k))
    <3>1. GapBefore(k) \in SUBSET Nat
      BY <2>1, <2>3, GapIs
    <3>2. PICK p : p = Min(GapBefore(k))
      OBVIOUS
    <3>3. p \in GapBefore(k) /\ \A x \in GapBefore(k) : p <= x
      BY <2>3, <3>1, <3>2, MinIn
    <3>4. p \in noticed
      BY <2>1, <2>3, <3>3, GapIsNoticed
    <3>5. ASSUME NEW x \in noticed
          PROVE  p <= x
      <4>1. p \in Nat /\ x \in Nat
        BY <2>2, <3>4
      <4>2. CASE x \in Remainder
        <5>1. p < x
          BY <2>1, <2>3, <3>3, <4>2, RemainderIsLast
        <5>2. QED
          BY <4>1, <5>1
      <4>3. ASSUME NEW l \in DOMAIN nodes, l # 1, x \in GapBefore(l)
            PROVE  p <= x
        <5>1. ~(l < k)
          <6>1. SUFFICES ASSUME l < k PROVE FALSE
            OBVIOUS
          <6>2. l \in 2..(k - 1)
            BY <2>1, <4>3, <6>1 DEF WholeTree
          <6>3. QED
            BY <2>3, <4>3, <6>2 DEF NoGapTo
        <5>2. CASE l = k
          BY <3>3, <4>3, <5>2
        <5>3. CASE k < l
          <6>1. p < x
            BY <2>1, <2>3, <3>3, <4>3, <5>3, GapsInOrder
          <6>2. QED
            BY <4>1, <6>1
        <5>4. QED
          BY <2>1, <5>1, <5>2, <5>3 DEF WholeTree
      <4>4. x \in Lost /\ ~Unnoticed(x)
        OBVIOUS
      <4>5. x \in Remainder \/ \E l \in DOMAIN nodes : l # 1 /\ x \in GapBefore(l)
        BY <2>1, <4>4, LossIsSeen
      <4>6. QED
        BY <4>2, <4>3, <4>5
    <3>6. noticed \in SUBSET Int
      BY <2>2
    <3> HIDE DEF noticed
    <3>7. QED
      BY <3>2, <3>4, <3>5, <3>6, MinIs
  <2>4. ASSUME NoGapTo(Len(nodes) + 1), Remainder # {}
        PROVE  noticed # {} /\ Min(noticed) = Min(Remainder)
    <3>1. Remainder \in SUBSET Nat
      BY <2>1, RemainderIs
    <3>2. PICK p : p = Min(Remainder)
      OBVIOUS
    <3>3. p \in Remainder /\ \A x \in Remainder : p <= x
      BY <2>4, <3>1, <3>2, MinIn
    <3>4. p \in noticed
      BY <2>1, <3>3, RemainderIsNoticed
    <3>5. \A k \in DOMAIN nodes : k # 1 => GapBefore(k) = {}
      BY <2>1, <2>4 DEF NoGapTo, WholeTree
    <3>6. \A x \in noticed : x \in Remainder
      BY <2>1, <3>5, LossIsSeen
    <3>7. noticed \in SUBSET Int
      BY <2>2
    <3> HIDE DEF noticed
    <3>8. QED
      BY <3>2, <3>3, <3>4, <3>6, <3>7, MinIs
  <2>5. QED
    BY <1>3, <2>3, <2>4 DEF CoverInv
<1>4. QED
  BY <1>2, <1>3 DEF LossIsReported, Flawless

LEMMA InitCover == DiagnosticsInit => CoverInv
BY DEF DiagnosticsInit, CoverInv

LEMMA StepCover == DiagnosticTypes /\ TreeInv /\ CoverInv /\ [DiagnosticsNext]_diagnosticVars => CoverInv'
<1> SUFFICES ASSUME DiagnosticTypes, TreeInv, CoverInv, [DiagnosticsNext]_diagnosticVars
             PROVE  CoverInv'
  OBVIOUS
<1>0. visit \in Nat \ {0} /\ Len(nodes) \in Nat /\ DOMAIN nodes = 1..Len(nodes)
  BY DEF CoverInv, DiagnosticTypes
<1>1. CASE (\E token \in {"blank", "outer", "inner"} : Read(token))
           \/ (\E shape \in {"file"} \union Shapes : Enter(shape)) \/ Leave
  <2>1. reading' = "parse" /\ visit' = visit
    BY <1>1 DEF Read, Enter, Leave
  <2>2. QED
    BY <1>0, <2>1 DEF CoverInv
<1>2. CASE Parsed
  <2>1. CASE Flawless
    <3>1. reading' = "cover" /\ visit' = 2 /\ nodes' = nodes
      BY <1>2, <2>1 DEF Parsed, Flawless
    <3>2. Flawless' /\ NoGapTo(2)'
      BY <2>1, <3>1 DEF Flawless, Flawed, NoGapTo
    <3>3. NoGapTo(visit)'
      BY <3>1, <3>2
    <3>4. QED
      BY <3>1, <3>2, <3>3 DEF CoverInv
  <2>2. CASE ~Flawless
    <3>1. reading' = "group" /\ visit' = 1 /\ nodes' = nodes
      BY <1>2, <2>2 DEF Parsed, Flawless
    <3>2. ~Flawless'
      BY <2>2, <3>1 DEF Flawless, Flawed
    <3>3. QED
      BY <3>1, <3>2 DEF CoverInv
  <2>3. QED
    BY <2>1, <2>2
<1>s. ASSUME UNCHANGED <<source, nodes>>
      PROVE  /\ Flawless' <=> Flawless
             /\ Remainder' = Remainder
             /\ \A k : GapBefore(k)' = GapBefore(k)
             /\ \A k : NoGapTo(k)' <=> NoGapTo(k)
  <2>1. \A k : GapBefore(k)' = GapBefore(k)
    BY <1>s DEF GapBefore, Checked, Words, PrevEnd, Kids
  <2>2. Remainder' = Remainder
    BY <1>s DEF Remainder, Words, Kids
  <2>3. \A k : NoGapTo(k)' <=> NoGapTo(k)
    BY <1>s, <2>1 DEF NoGapTo
  <2>4. Flawless' <=> Flawless
    BY <1>s DEF Flawless, Flawed
  <2>5. QED
    BY <2>1, <2>2, <2>3, <2>4
<1>3. CASE Cover
  <2>1. /\ reading = "cover" /\ reading' = "cover" /\ visit \in DOMAIN nodes /\ GapBefore(visit) = {}
        /\ visit' = visit + 1 /\ UNCHANGED <<source, nodes>>
    BY <1>3 DEF Cover
  <2>2. Flawless /\ NoGapTo(visit) /\ visit >= 2
    BY <2>1 DEF CoverInv
  <2>3. NoGapTo(visit + 1)
    <3>1. SUFFICES ASSUME NEW j \in 2..visit, j \in DOMAIN nodes PROVE GapBefore(j) = {}
      BY <1>0 DEF NoGapTo
    <3>2. CASE j = visit
      BY <2>1, <3>2
    <3>3. CASE j # visit
      BY <1>0, <2>2, <3>1, <3>3 DEF NoGapTo
    <3>4. QED
      BY <3>2, <3>3
  <2>4. PICK w : w = visit + 1
    OBVIOUS
  <2>5. NoGapTo(w)' /\ visit' = w /\ w >= 2 /\ w \in Nat \ {0}
    BY <1>0, <1>s, <2>1, <2>2, <2>3, <2>4
  <2>6. QED
    BY <1>s, <2>1, <2>2, <2>5 DEF CoverInv
<1>n. Len(nodes)' = Len(nodes') /\ (visit \notin DOMAIN nodes /\ visit >= 2 => visit >= Len(nodes) + 1)
  BY <1>0
<1>e. ASSUME visit \notin DOMAIN nodes, visit >= 2, NoGapTo(visit)
      PROVE  NoGapTo(Len(nodes) + 1)
  BY <1>0, <1>e DEF NoGapTo
<1>4. CASE FindGap
  <2>1. /\ reading = "cover" /\ reading' = "reported" /\ UNCHANGED <<source, nodes, visit>>
        /\ LET gap == IF visit \in DOMAIN nodes THEN GapBefore(visit) ELSE Remainder
           IN gap # {} /\ reports' = <<Min(gap)>>
    BY <1>4 DEF FindGap
  <2>2. Flawless /\ NoGapTo(visit) /\ visit >= 2
    BY <2>1 DEF CoverInv
  <2>3. CASE visit \in DOMAIN nodes
    <3>1. PICK k : k = visit
      OBVIOUS
    <3>2. k \in DOMAIN nodes' /\ k # 1 /\ NoGapTo(k)' /\ GapBefore(k)' # {} /\ reports' = <<Min(GapBefore(k)')>>
      BY <1>s, <2>1, <2>2, <2>3, <3>1
    <3>3. QED
      BY <1>0, <1>s, <2>1, <3>2 DEF CoverInv
  <2>4. CASE visit \notin DOMAIN nodes
    <3>1. PICK k : k = Len(nodes) + 1
      OBVIOUS
    <3>2. NoGapTo(k)' /\ Remainder' # {} /\ reports' = <<Min(Remainder')>> /\ k = Len(nodes') + 1
      BY <1>s, <1>e, <2>1, <2>2, <2>4, <3>1
    <3>3. NoGapTo(Len(nodes) + 1)'
      BY <3>2
    <3>4. QED
      BY <1>0, <2>1, <3>2, <3>3 DEF CoverInv
  <2>5. QED
    BY <2>3, <2>4
<1>5. CASE Covered
  <2>1. /\ reading = "cover" /\ reading' = "accepted" /\ UNCHANGED <<source, nodes, visit>>
        /\ visit \notin DOMAIN nodes /\ Remainder = {}
    BY <1>5 DEF Covered
  <2>2. Flawless /\ NoGapTo(visit) /\ visit >= 2
    BY <2>1 DEF CoverInv
  <2>3. PICK k : k = Len(nodes) + 1
    OBVIOUS
  <2>4. NoGapTo(k)' /\ Remainder' = {} /\ k = Len(nodes') + 1
    BY <1>s, <1>e, <2>1, <2>2, <2>3
  <2>5. NoGapTo(Len(nodes) + 1)'
    BY <2>4
  <2>6. QED
    BY <1>0, <1>s, <2>1, <2>2, <2>4, <2>5 DEF CoverInv
<1>6. CASE Group \/ AllGrouped \/ Pick \/ Report
  <2>1. /\ reading \in {"group", "pick"} /\ reading' \in {"group", "pick", "reported"}
        /\ UNCHANGED <<source, nodes>> /\ visit' \in {visit, visit + 1}
    BY <1>6 DEF Group, AllGrouped, Pick, Report
  <2>2. ~Flawless'
    BY <1>s, <2>1 DEF CoverInv
  <2>3. QED
    BY <1>0, <2>1, <2>2 DEF CoverInv
<1>7. CASE UNCHANGED diagnosticVars
  <2>1. UNCHANGED <<source, nodes, reading, visit, reports>>
    BY <1>7 DEF diagnosticVars
  <2>2. PICK v, w : v = visit /\ w = Len(nodes) + 1
    OBVIOUS
  <2>3. (NoGapTo(v)' <=> NoGapTo(visit)) /\ (NoGapTo(w)' <=> NoGapTo(Len(nodes) + 1))
    BY <1>s, <2>1, <2>2
  <2>4. (NoGapTo(visit)' <=> NoGapTo(visit)) /\ (NoGapTo(Len(nodes) + 1)' <=> NoGapTo(Len(nodes) + 1))
    BY <2>1, <2>2, <2>3
  <2>5. QED
    BY <1>s, <2>1, <2>4 DEF CoverInv
<1>8. QED
  BY <1>1, <1>2, <1>3, <1>4, <1>5, <1>6, <1>7 DEF DiagnosticsNext

(* What the parser leaves out of a tree without flaws, at any depth of a   *)
(* file of any size, is reported, the first of it, or goes unnoticed       *)
(* (CheckTreeCoversSource).                                                *)
THEOREM LossReported == DiagnosticsSpec => []LossIsReported
<1>1. QED
  BY InitTree, StepTree, InitCover, StepCover, LossHolds, PTL DEF DiagnosticsSpec

-----------------------------------------------------------------------------
(* Better is an order on flaws, and what lies within has no better keyword. *)
LEMMA BetterIsOrder ==
  ASSUME NEW a, NEW c, NEW w, \A x \in {a, c, w} :
           /\ Signal(x) \in Int /\ Span(x) \in Int /\ nodes[x].from \in Int
           /\ nodes[x].shape \in {"error", "missing"}
  PROVE  ~BetterDiagnostic(c, c) /\ (BetterDiagnostic(a, c) /\ BetterDiagnostic(c, w) => BetterDiagnostic(a, w))
<1>1. /\ Signal(a) \in Int /\ Span(a) \in Int /\ nodes[a].from \in Int
      /\ nodes[a].shape \in {"error", "missing"}
  OBVIOUS
<1>2. /\ Signal(c) \in Int /\ Span(c) \in Int /\ nodes[c].from \in Int
      /\ nodes[c].shape \in {"error", "missing"}
  OBVIOUS
<1>3. /\ Signal(w) \in Int /\ Span(w) \in Int /\ nodes[w].from \in Int
      /\ nodes[w].shape \in {"error", "missing"}
  OBVIOUS
<1>4. ~BetterDiagnostic(c, c)
  BY <1>2 DEF BetterDiagnostic
<1>5. BetterDiagnostic(a, c) /\ BetterDiagnostic(c, w) => BetterDiagnostic(a, w)
  BY <1>1, <1>2, <1>3 DEF BetterDiagnostic
<1>6. QED
  BY <1>4, <1>5

LEMMA SignalIs ==
  ASSUME NEW n
  PROVE  /\ Signal(n) \in Int /\ Signal(n) >= -1
         /\ \A p \in nodes[n].from..nodes[n].to : KeywordSignal(source[p]) <= Signal(n)
         /\ Signal(n) = -1 \/ \E p \in nodes[n].from..nodes[n].to : Signal(n) = KeywordSignal(source[p])
<1> DEFINE S == {-1} \union {KeywordSignal(source[p]) : p \in nodes[n].from..nodes[n].to}
<1>1. \A t : KeywordSignal(t) \in {-1, 1, 2}
  BY DEF KeywordSignal
<1>2. S \in SUBSET Int /\ S # {} /\ \A x \in S : x <= 2
  BY <1>1
<1>3. 2 \in Int
  OBVIOUS
<1>4. Max(S) \in S /\ \A x \in S : x <= Max(S)
  BY <1>2, <1>3, MaxIs
<1>5. Signal(n) = Max(S)
  BY DEF Signal
<1>6. QED
  BY <1>2, <1>4, <1>5

LEMMA SignalWithin ==
  ASSUME DiagnosticTypes, NEW m \in DOMAIN nodes, NEW n \in DOMAIN nodes,
         nodes[n].from <= nodes[m].from, nodes[m].to <= nodes[n].to
  PROVE  Signal(m) <= Signal(n)
<1>0. \A b \in DOMAIN nodes : nodes[b] \in NodeType
  BY SequenceFacts DEF DiagnosticTypes
<1>1. \A b \in DOMAIN nodes : nodes[b].from \in Nat /\ nodes[b].to \in Nat
  BY <1>0 DEF NodeType
<1>2. \A p \in nodes[m].from..nodes[m].to : p \in nodes[n].from..nodes[n].to
  BY <1>1
<1>3. /\ Signal(n) \in Int /\ Signal(n) >= -1
      /\ \A p \in nodes[n].from..nodes[n].to : KeywordSignal(source[p]) <= Signal(n)
  BY SignalIs
<1>4. Signal(m) = -1 \/ \E p \in nodes[m].from..nodes[m].to : Signal(m) = KeywordSignal(source[p])
  BY SignalIs
<1>5. QED
  BY <1>2, <1>3, <1>4

LEMMA FlawFacts ==
  ASSUME DiagnosticTypes, NEW n \in DOMAIN nodes, Flawed(n)
  PROVE  /\ Signal(n) \in Int /\ Span(n) \in Int /\ nodes[n].from \in Int /\ n \in Nat
         /\ nodes[n].shape \in {"error", "missing"}
<1>0. n \in Nat /\ nodes[n] \in NodeType
  BY SequenceFacts DEF DiagnosticTypes
<1>1. nodes[n].from \in Int /\ nodes[n].to \in Int /\ n \in Nat
  BY <1>0 DEF NodeType
<1>2. Signal(n) \in Int
  BY SignalIs
<1>3. QED
  BY <1>1, <1>2 DEF Span, Flawed

(* The flaw that the walk comes to joins its group, or begins a new one.   *)
LEMMA AddsFlaw ==
  ASSUME DiagnosticTypes, NEW v \in DOMAIN nodes, Flawed(v), GroupsMadeOf(groups, v),
         NEW gs, gs = Grouped(v)
  PROVE  GroupsMadeOf(gs, v + 1)
<1>1. PICK key : key = TopLevelBlock[v]
  OBVIOUS
<1>2. /\ key \in BlockKeys /\ v \in Nat /\ DOMAIN nodes = 1..Len(nodes) /\ Len(nodes) \in Nat
  BY <1>1 DEF BlockKeys, DiagnosticTypes
<1>3. /\ groups \in Seq(GroupType) /\ Len(groups) \in Nat /\ DOMAIN groups = 1..Len(groups)
      /\ \A g \in DOMAIN groups : groups[g] \in GroupType /\ groups[g].found \in Seq(Nat)
  <2>1. groups \in Seq(GroupType)
    BY DEF GroupsMadeOf
  <2>2. Len(groups) \in Nat /\ DOMAIN groups = 1..Len(groups) /\ \A g \in DOMAIN groups : groups[g] \in GroupType
    BY <2>1, SequenceFacts
  <2>3. QED
    BY <2>1, <2>2 DEF GroupType
<1>4. \E k \in DOMAIN gs :
        /\ gs \in Seq(GroupType) /\ DOMAIN gs = DOMAIN groups \union {k} /\ k \in Nat
        /\ gs[k].key = key
        /\ \A g \in DOMAIN groups :
             /\ gs[g].key = groups[g].key
             /\ g # k => gs[g] = groups[g]
             /\ \A i \in DOMAIN groups[g].found :
                  i \in DOMAIN gs[g].found /\ gs[g].found[i] = groups[g].found[i]
        /\ \A i \in DOMAIN gs[k].found : gs[k].found[i] = v \/
             (k \in DOMAIN groups /\ i \in DOMAIN groups[k].found /\ gs[k].found[i] = groups[k].found[i])
        /\ \E i \in DOMAIN gs[k].found : gs[k].found[i] = v
        /\ k \in DOMAIN groups \/ \A g \in DOMAIN groups : g < k /\ groups[g].key # key
  <2>1. CASE \E g \in DOMAIN groups : groups[g].key = key
    <3>1. PICK k \in DOMAIN groups : groups[k].key = key
      BY <2>1
    <3>2. \A g \in DOMAIN groups : groups[g].key = key <=> g = k
      BY <3>1 DEF GroupsMadeOf
    <3>3. PICK more : more = Append(groups[k].found, v)
      OBVIOUS
    <3>4. /\ more \in Seq(Nat) /\ DOMAIN more = 1..(Len(groups[k].found) + 1)
          /\ Len(groups[k].found) \in Nat /\ DOMAIN groups[k].found = 1..Len(groups[k].found)
          /\ \A i \in DOMAIN groups[k].found : more[i] = groups[k].found[i]
          /\ more[Len(groups[k].found) + 1] = v
      <4>1. groups[k].found \in Seq(Nat)
        BY <1>3
      <4>2. Len(groups[k].found) \in Nat /\ DOMAIN groups[k].found = 1..Len(groups[k].found)
        BY <4>1, SequenceFacts
      <4>3. QED
        BY <1>2, <3>3, <4>1, <4>2, AppendFacts
    <3>5. gs = [g \in DOMAIN groups |->
                 IF groups[g].key = key THEN [groups[g] EXCEPT !.found = Append(@, v)] ELSE groups[g]]
      BY <1>1, <2>1 DEF Grouped
    <3>6. DOMAIN gs = DOMAIN groups /\ \A g \in DOMAIN groups : g # k => gs[g] = groups[g]
      BY <3>2, <3>5
    <3>7. gs[k] = [groups[k] EXCEPT !.found = more]
      BY <3>1, <3>3, <3>5
    <3>8. gs[k] \in GroupType /\ gs[k].key = key /\ gs[k].found = more
      BY <1>3, <3>1, <3>4, <3>7 DEF GroupType
    <3>9. gs \in Seq(GroupType)
      <4>1. \A g \in 1..Len(groups) : gs[g] \in GroupType
        BY <1>3, <3>6, <3>8
      <4>2. gs = [g \in 1..Len(groups) |-> gs[g]]
        BY <1>3, <3>5
      <4>3. QED
        BY <1>3, <4>1, <4>2
    <3>10. /\ \A i \in DOMAIN gs[k].found : gs[k].found[i] = v \/
             (i \in DOMAIN groups[k].found /\ gs[k].found[i] = groups[k].found[i])
           /\ \A i \in DOMAIN groups[k].found :
                i \in DOMAIN gs[k].found /\ gs[k].found[i] = groups[k].found[i]
           /\ \E i \in DOMAIN gs[k].found : gs[k].found[i] = v
      <4>1. \A i \in DOMAIN more : i \in DOMAIN groups[k].found \/ i = Len(groups[k].found) + 1
        BY <3>4
      <4>2. \A i \in DOMAIN groups[k].found : i \in DOMAIN more
        BY <3>4
      <4>3. Len(groups[k].found) + 1 \in DOMAIN more
        BY <3>4
      <4>4. QED
        BY <3>4, <3>8, <4>1, <4>2, <4>3
    <3>11. ASSUME NEW g \in DOMAIN groups
           PROVE  /\ gs[g].key = groups[g].key
                  /\ \A i \in DOMAIN groups[g].found :
                       i \in DOMAIN gs[g].found /\ gs[g].found[i] = groups[g].found[i]
      BY <3>1, <3>6, <3>8, <3>10
    <3>12. k \in Nat /\ DOMAIN gs = DOMAIN groups \union {k} /\ k \in DOMAIN gs
      BY <1>3, <3>6
    <3>13. QED
      BY <3>6, <3>8, <3>9, <3>10, <3>11, <3>12
  <2>2. CASE ~\E g \in DOMAIN groups : groups[g].key = key
    <3>1. PICK one : one = [key |-> key, found |-> <<v>>]
      OBVIOUS
    <3>2. one \in GroupType /\ one.key = key /\ one.found = <<v>>
      BY <1>2, <3>1 DEF GroupType
    <3>3. gs = Append(groups, one)
      BY <1>1, <2>2, <3>1 DEF Grouped
    <3>4. PICK k : k = Len(groups) + 1
      OBVIOUS
    <3>5. /\ gs \in Seq(GroupType) /\ DOMAIN gs = 1..k /\ gs[k] = one
          /\ \A g \in DOMAIN groups : gs[g] = groups[g]
      BY <1>3, <3>2, <3>3, <3>4, AppendFacts
    <3>6. k \in Nat /\ k \in DOMAIN gs /\ k \notin DOMAIN groups /\ \A g \in DOMAIN groups : g < k
      BY <1>3, <3>4, <3>5
    <3>7. DOMAIN gs = DOMAIN groups \union {k}
      BY <1>3, <3>4, <3>5
    <3>8. DOMAIN gs[k].found = {1} /\ gs[k].found[1] = v
      BY <3>2, <3>5
    <3>9. \A i \in DOMAIN gs[k].found : gs[k].found[i] = v
      BY <3>8
    <3>10. \E i \in DOMAIN gs[k].found : gs[k].found[i] = v
      BY <3>8
    <3>11. gs[k].key = key
      BY <3>2, <3>5
    <3>12. QED
      BY <2>2, <3>5, <3>6, <3>7, <3>9, <3>10, <3>11
  <2>3. QED
    BY <2>1, <2>2
<1>5. PICK k \in DOMAIN gs :
        /\ gs \in Seq(GroupType) /\ DOMAIN gs = DOMAIN groups \union {k} /\ k \in Nat
        /\ gs[k].key = key
        /\ \A g \in DOMAIN groups :
             /\ gs[g].key = groups[g].key
             /\ g # k => gs[g] = groups[g]
             /\ \A i \in DOMAIN groups[g].found :
                  i \in DOMAIN gs[g].found /\ gs[g].found[i] = groups[g].found[i]
        /\ \A i \in DOMAIN gs[k].found : gs[k].found[i] = v \/
             (k \in DOMAIN groups /\ i \in DOMAIN groups[k].found /\ gs[k].found[i] = groups[k].found[i])
        /\ \E i \in DOMAIN gs[k].found : gs[k].found[i] = v
        /\ k \in DOMAIN groups \/ \A g \in DOMAIN groups : g < k /\ groups[g].key # key
  BY <1>4
<1>6. ASSUME NEW g \in DOMAIN gs, NEW i \in DOMAIN gs[g].found
      PROVE  \/ gs[g].found[i] = v /\ g = k
             \/ g \in DOMAIN groups /\ i \in DOMAIN groups[g].found /\ gs[g].found[i] = groups[g].found[i]
  BY <1>5
<1>7. \A g, h \in DOMAIN gs : g # h => gs[g].key # gs[h].key
  <2>1. SUFFICES ASSUME NEW g \in DOMAIN gs, NEW h \in DOMAIN gs, g # h, gs[g].key = gs[h].key PROVE FALSE
    OBVIOUS
  <2>2. CASE g \in DOMAIN groups /\ h \in DOMAIN groups
    BY <1>5, <2>1, <2>2 DEF GroupsMadeOf
  <2>3. CASE ~(g \in DOMAIN groups /\ h \in DOMAIN groups)
    BY <1>5, <2>1, <2>3
  <2>4. QED
    BY <2>2, <2>3
<1>8. ASSUME NEW g \in DOMAIN gs, gs[g].found = <<>>
      PROVE  FALSE
  <2>1. DOMAIN gs[g].found = {}
    BY <1>8
  <2>2. g # k
    BY <1>5, <2>1
  <2>3. g \in DOMAIN groups /\ gs[g] = groups[g]
    BY <1>5, <2>2
  <2>4. QED
    BY <1>8, <2>3 DEF GroupsMadeOf
<1>9. ASSUME NEW g \in DOMAIN gs, NEW i \in DOMAIN gs[g].found, NEW n, n = gs[g].found[i]
      PROVE  n \in DOMAIN nodes /\ n < v + 1 /\ Flawed(n) /\ TopLevelBlock[n] = gs[g].key
  <2>1. CASE n = v /\ g = k
    BY <1>1, <1>2, <1>5, <2>1
  <2>2. CASE g \in DOMAIN groups /\ i \in DOMAIN groups[g].found /\ n = groups[g].found[i]
    <3>1. n \in DOMAIN nodes /\ n < v /\ Flawed(n) /\ TopLevelBlock[n] = groups[g].key
      BY <2>2 DEF GroupsMadeOf
    <3>2. n \in Nat
      BY <1>2, <3>1
    <3>3. QED
      BY <1>2, <1>5, <2>2, <3>1, <3>2
  <2>3. QED
    BY <1>6, <1>9, <2>1, <2>2
<1>10. ASSUME NEW n \in DOMAIN nodes, n < v + 1, Flawed(n)
       PROVE  \E g \in DOMAIN gs : \E i \in DOMAIN gs[g].found : gs[g].found[i] = n
  <2>1. CASE n = v
    BY <1>5, <2>1
  <2>2. CASE n # v
    <3>1. n < v
      BY <1>2, <1>10, <2>2
    <3>2. PICK g \in DOMAIN groups : \E i \in DOMAIN groups[g].found : groups[g].found[i] = n
      BY <1>10, <3>1 DEF GroupsMadeOf
    <3>3. QED
      BY <1>5, <3>2
  <2>3. QED
    BY <2>1, <2>2
<1>11. ASSUME NEW g \in DOMAIN gs, NEW h \in DOMAIN gs, g < h, NEW i \in DOMAIN gs[h].found
       PROVE  gs[g].found[1] < gs[h].found[i]
  <2>1. g \in DOMAIN groups
    <3>1. CASE g = k /\ g \notin DOMAIN groups
      <4>1. h \in DOMAIN groups /\ h < g /\ h \in Nat /\ g \in Nat
        BY <1>3, <1>5, <1>11, <3>1
      <4>2. QED
        BY <1>11, <4>1
    <3>2. QED
      BY <1>5, <3>1
  <2>2. 1 \in DOMAIN groups[g].found
    <3>1. groups[g].found \in Seq(Nat) /\ groups[g].found # <<>>
      BY <1>3, <2>1 DEF GroupsMadeOf
    <3>2. Len(groups[g].found) \in Nat /\ Len(groups[g].found) # 0 /\ DOMAIN groups[g].found = 1..Len(groups[g].found)
      BY <3>1, SequenceFacts
    <3>3. QED
      BY <3>2
  <2>3. gs[g].found[1] = groups[g].found[1]
    BY <1>5, <2>1, <2>2
  <2>4. groups[g].found[1] < v
    BY <2>1, <2>2 DEF GroupsMadeOf
  <2>5. CASE gs[h].found[i] = v
    BY <2>3, <2>4, <2>5
  <2>6. CASE h \in DOMAIN groups /\ i \in DOMAIN groups[h].found /\ gs[h].found[i] = groups[h].found[i]
    BY <1>11, <2>1, <2>3, <2>6 DEF GroupsMadeOf
  <2>7. QED
    BY <1>6, <2>5, <2>6
<1>12. QED
  BY <1>5, <1>7, <1>8, <1>9, <1>10, <1>11 DEF GroupsMadeOf

LEMMA SameTree ==
  ASSUME UNCHANGED <<source, nodes>>
  PROVE  /\ Flawless' <=> Flawless
         /\ \A gs, v : GroupsMadeOf(gs, v)' <=> GroupsMadeOf(gs, v)
         /\ \A r, found, n : BestTo(r, found, n)' <=> BestTo(r, found, n)
<1>1. TopLevelBlock' = TopLevelBlock
  BY DEF TopLevelBlock
<1>2. \A n : Flawed(n)' <=> Flawed(n)
  BY DEF Flawed
<1>3. GroupType' = GroupType
  BY <1>1 DEF GroupType, BlockKeys
<1>4. \A gs, v : GroupsMadeOf(gs, v)' <=> GroupsMadeOf(gs, v)
  BY <1>1, <1>2, <1>3 DEF GroupsMadeOf
<1>5. \A n : Signal(n)' = Signal(n) /\ Span(n)' = Span(n)
  BY DEF Signal, Span, KeywordSignal
<1>6. \A c, b : BetterDiagnostic(c, b)' <=> BetterDiagnostic(c, b)
  BY <1>5 DEF BetterDiagnostic
<1>7. \A r, found, n : BestTo(r, found, n)' <=> BestTo(r, found, n)
  BY <1>6 DEF BestTo
<1>8. Flawless' <=> Flawless
  BY <1>2 DEF Flawless
<1>9. QED
  BY <1>4, <1>7, <1>8

LEMMA GroupFacts ==
  ASSUME DiagnosticTypes, NEW v, GroupsMadeOf(groups, v), NEW g \in DOMAIN groups,
         NEW found, found = groups[g].found
  PROVE  /\ found \in Seq(Nat) /\ Len(found) \in Nat \ {0} /\ DOMAIN found = 1..Len(found)
         /\ \A i \in DOMAIN found : found[i] \in DOMAIN nodes /\ Flawed(found[i])
<1>1. groups[g] \in GroupType /\ found # <<>>
  BY SequenceFacts DEF GroupsMadeOf
<1>2. found \in Seq(Nat)
  BY <1>1 DEF GroupType
<1>3. Len(found) \in Nat \ {0} /\ DOMAIN found = 1..Len(found)
  BY <1>1, <1>2, SequenceFacts
<1>4. \A i \in DOMAIN found : found[i] \in DOMAIN nodes /\ Flawed(found[i])
  BY DEF GroupsMadeOf
<1>5. QED
  BY <1>2, <1>3, <1>4

(* The next flaw of a group is compared with the best so far. *)
LEMMA BestExtends ==
  ASSUME DiagnosticTypes, NEW found \in Seq(Nat), NEW n \in DOMAIN found,
         \A i \in DOMAIN found : found[i] \in DOMAIN nodes /\ Flawed(found[i]),
         NEW r, n > 1 => BestTo(r, found, n),
         NEW s, s = IF n = 1 \/ BetterDiagnostic(found[n], r) THEN found[n] ELSE r
  PROVE  BestTo(s, found, n + 1)
<1>1. n \in Nat /\ n >= 1 /\ DOMAIN found = 1..Len(found) /\ Len(found) \in Nat
  OBVIOUS
<1>2. \A i \in 1..n : i \in DOMAIN found
  BY <1>1
<1>3. \A i \in 1..n : /\ Signal(found[i]) \in Int /\ Span(found[i]) \in Int /\ nodes[found[i]].from \in Int
                      /\ nodes[found[i]].shape \in {"error", "missing"}
  BY <1>2, FlawFacts
<1>4. \A i \in 1..n : i = n \/ (n > 1 /\ i \in 1..(n - 1))
  BY <1>1
<1>5. PICK c : c = found[n] /\ n \in 1..n
  BY <1>1
<1>6. ~BetterDiagnostic(c, c)
  BY <1>3, <1>5, BetterIsOrder
<1>7. CASE n = 1
  BY <1>1, <1>4, <1>5, <1>6, <1>7 DEF BestTo
<1>8. CASE n # 1 /\ BetterDiagnostic(c, r)
  <2>1. n > 1 /\ s = c
    BY <1>1, <1>5, <1>8
  <2>2. PICK j \in 1..(n - 1) : r = found[j]
    BY <2>1 DEF BestTo
  <2>3. j \in 1..n
    BY <1>1
  <2>4. ASSUME NEW i \in 1..n, BetterDiagnostic(found[i], c)
        PROVE  FALSE
    <3>1. i # n
      BY <1>5, <1>6, <2>4
    <3>2. ~BetterDiagnostic(found[i], r)
      BY <1>4, <2>1, <3>1 DEF BestTo
    <3>3. PICK a : a = found[i]
      OBVIOUS
    <3>4. \A x \in {a, c, r} :
            /\ Signal(x) \in Int /\ Span(x) \in Int /\ nodes[x].from \in Int
            /\ nodes[x].shape \in {"error", "missing"}
      BY <1>3, <1>5, <2>2, <2>3, <3>3
    <3>5. BetterDiagnostic(a, c) /\ BetterDiagnostic(c, r) => BetterDiagnostic(a, r)
      BY <3>4, BetterIsOrder
    <3>6. QED
      BY <1>8, <2>4, <3>2, <3>3, <3>5
  <2>5. (n + 1) - 1 = n
    BY <1>1
  <2>6. QED
    BY <1>5, <2>1, <2>4, <2>5 DEF BestTo
<1>9. CASE n # 1 /\ ~BetterDiagnostic(c, r)
  <2>1. n > 1 /\ s = r /\ (n + 1) - 1 = n
    BY <1>1, <1>5, <1>9
  <2>2. PICK j \in 1..(n - 1) : r = found[j]
    BY <2>1 DEF BestTo
  <2>3. j \in 1..n
    BY <1>1
  <2>4. \A i \in 1..n : ~BetterDiagnostic(found[i], r)
    BY <1>4, <1>5, <1>9, <2>1 DEF BestTo
  <2>5. QED
    BY <2>1, <2>2, <2>3, <2>4 DEF BestTo
<1>10. QED
  BY <1>7, <1>8, <1>9

LEMMA InitGroups == DiagnosticsInit => GroupInv
BY DEF DiagnosticsInit, GroupInv

LEMMA StepGroups ==
  DiagnosticTypes /\ TreeInv /\ CoverInv /\ GroupInv /\ [DiagnosticsNext]_diagnosticVars => GroupInv'
<1> SUFFICES ASSUME DiagnosticTypes, TreeInv, CoverInv, GroupInv, [DiagnosticsNext]_diagnosticVars
             PROVE  GroupInv'
  OBVIOUS
<1>v. visit \in Nat \ {0} /\ Len(nodes) \in Nat /\ DOMAIN nodes = 1..Len(nodes)
  BY DEF CoverInv, DiagnosticTypes
<1>k. ASSUME UNCHANGED <<source, nodes, groups>>
      PROVE  /\ Flawless' <=> Flawless
             /\ \A v : GroupsMade(v)' <=> GroupsMade(v)
             /\ \A r, i : BestOf(r, i)' <=> BestOf(r, i)
  <2>1. \A v : GroupsMade(v)' <=> GroupsMade(v)
    <3>1. PICK gs : gs = groups
      OBVIOUS
    <3>2. \A v : GroupsMadeOf(gs, v)' <=> GroupsMadeOf(gs, v)
      BY <1>k, SameTree
    <3>3. QED
      BY <1>k, <3>1, <3>2 DEF GroupsMade
  <2>2. ASSUME NEW r, NEW i
        PROVE  BestOf(r, i)' <=> BestOf(r, i)
    <3>1. PICK found, n : found = groups[i].found /\ n = Len(found) + 1
      OBVIOUS
    <3>2. BestTo(r, found, n)' <=> BestTo(r, found, n)
      BY <1>k, SameTree
    <3>3. QED
      BY <1>k, <3>1, <3>2 DEF BestOf
  <2>3. QED
    BY <1>k, <2>1, <2>2, SameTree
<1>1. CASE reading' \in {"parse", "cover"} /\ reading \in {"parse", "cover"} /\ UNCHANGED <<groups, reports, candidate>>
  BY <1>1 DEF GroupInv
<1>2. CASE Parsed
  <2>1. CASE Flawless
    BY <1>1, <1>2, <2>1 DEF Parsed, Flawless
  <2>2. CASE ~Flawless
    <3>1. /\ reading' = "group" /\ visit' = 1 /\ groups' = <<>> /\ reports' = <<>> /\ candidate' = 1
          /\ UNCHANGED <<source, nodes>>
      BY <1>2, <2>2 DEF Parsed, Flawless, GroupInv
    <3>2. PICK gs, v : gs = <<>> /\ v = 1
      OBVIOUS
    <3>3. GroupsMadeOf(gs, v)
      <4>1. DOMAIN gs = {} /\ gs \in Seq(GroupType) /\ \A n \in DOMAIN nodes : ~(n < v)
        BY <1>v, <3>2
      <4>2. QED
        BY <4>1 DEF GroupsMadeOf
    <3>4. GroupsMadeOf(gs, v)'
      BY <3>1, <3>3, SameTree
    <3>5. GroupsMade(visit)'
      BY <3>1, <3>2, <3>4 DEF GroupsMade
    <3>6. QED
      BY <3>1, <3>5 DEF GroupInv
  <2>3. QED
    BY <2>1, <2>2
<1>3. CASE FindGap \/ Covered
  <2>1. reading = "cover" /\ reading' \in {"accepted", "reported"} /\ UNCHANGED <<source, nodes, groups>>
    BY <1>3 DEF FindGap, Covered
  <2>2. Flawless'
    BY <1>k, <2>1 DEF CoverInv
  <2>3. QED
    BY <2>1, <2>2 DEF GroupInv
<1>4. CASE Group
  <2>1. /\ reading = "group" /\ reading' = "group" /\ visit \in DOMAIN nodes
        /\ groups' = IF Flawed(visit) THEN Grouped(visit) ELSE groups
        /\ visit' = visit + 1 /\ UNCHANGED <<source, nodes, candidate, reports>>
    BY <1>4 DEF Group
  <2>2. GroupsMade(visit) /\ reports = <<>> /\ candidate = 1
    BY <2>1 DEF GroupInv
  <2>3. PICK gs, w : gs = groups' /\ w = visit + 1
    OBVIOUS
  <2>4. GroupsMadeOf(gs, w)
    <3>1. CASE Flawed(visit)
      <4>1. PICK v : v = visit
        OBVIOUS
      <4>2. GroupsMadeOf(groups, v) /\ gs = Grouped(v) /\ v \in DOMAIN nodes /\ Flawed(v)
        BY <2>1, <2>2, <2>3, <3>1, <4>1 DEF GroupsMade
      <4>3. QED
        BY <2>3, <4>1, <4>2, AddsFlaw
    <3>2. CASE ~Flawed(visit)
      <4>1. gs = groups /\ \A n \in DOMAIN nodes : n < w <=> (n < visit \/ n = visit)
        BY <1>v, <2>1, <2>3, <3>2
      <4>2. QED
        BY <2>2, <3>2, <4>1 DEF GroupsMade, GroupsMadeOf
    <3>3. QED
      BY <3>1, <3>2
  <2>5. GroupsMadeOf(gs, w)'
    BY <2>1, <2>4, SameTree
  <2>6. GroupsMade(visit)'
    BY <2>1, <2>3, <2>5 DEF GroupsMade
  <2>7. QED
    BY <2>1, <2>2, <2>6 DEF GroupInv
<1>g. ASSUME GroupsMade(Len(nodes) + 1), NEW g \in DOMAIN groups
      PROVE  /\ groups[g].found \in Seq(Nat) /\ Len(groups[g].found) \in Nat \ {0}
             /\ DOMAIN groups[g].found = 1..Len(groups[g].found)
             /\ \A i \in DOMAIN groups[g].found : groups[g].found[i] \in DOMAIN nodes /\ Flawed(groups[g].found[i])
  BY <1>g, GroupFacts DEF GroupsMade
<1>5. CASE AllGrouped
  <2>1. /\ reading = "group" /\ reading' = "pick" /\ visit \notin DOMAIN nodes
        /\ UNCHANGED <<source, nodes, groups, candidate, reports>>
    BY <1>5 DEF AllGrouped
  <2>2. GroupsMade(visit) /\ reports = <<>> /\ candidate = 1 /\ ~Flawless
    BY <2>1 DEF GroupInv, CoverInv
  <2>3. PICK w : w = Len(nodes) + 1
    OBVIOUS
  <2>4. GroupsMade(w)
    <3>1. \A n \in DOMAIN nodes : n < w /\ n < visit
      BY <1>v, <2>1, <2>3
    <3>2. QED
      BY <2>2, <3>1 DEF GroupsMade, GroupsMadeOf
  <2>5. GroupsMade(w)'
    BY <1>k, <2>1, <2>4
  <2>6. groups \in Seq(GroupType) /\ DOMAIN groups # {}
    <3>1. PICK n \in DOMAIN nodes : Flawed(n)
      BY <2>2 DEF Flawless
    <3>2. n < w
      BY <1>v, <2>3
    <3>3. QED
      BY <2>4, <3>1, <3>2 DEF GroupsMade, GroupsMadeOf
  <2>7. Len(groups) \in Nat \ {0} /\ 1 \in DOMAIN groups
    BY <2>6
  <2>8. Len(reports) = 0 /\ DOMAIN reports = {} /\ reports \in Seq(Nat)
    BY <2>2
  <2>9. ThisGroup' = groups[1]
    BY <2>1, <2>8 DEF ThisGroup
  <2>10. candidate' \in 1..(Len(ThisGroup'.found) + 1)
    <3>1. Len(groups[1].found) \in Nat
      BY <1>g, <2>3, <2>4, <2>7
    <3>2. QED
      BY <2>1, <2>2, <2>9, <3>1
  <2>11. GroupsMade(Len(nodes) + 1)'
    BY <2>1, <2>3, <2>5
  <2>12. QED
    BY <2>1, <2>2, <2>7, <2>8, <2>10, <2>11 DEF GroupInv
<1>p. ASSUME reading = "pick"
      PROVE  /\ GroupsMade(Len(nodes) + 1) /\ ~Flawless /\ groups \in Seq(GroupType)
             /\ Len(reports) \in Nat /\ DOMAIN reports = 1..Len(reports) /\ reports \in Seq(Nat)
             /\ \A i \in DOMAIN reports : i \in DOMAIN groups /\ BestOf(reports[i], i) /\ groups[i].key # 0
             /\ Len(groups) \in Nat /\ Len(reports) < Len(groups) /\ DOMAIN groups = 1..Len(groups)
             /\ Len(reports) + 1 \in DOMAIN groups
             /\ candidate \in 1..(Len(ThisGroup.found) + 1) /\ candidate \in Nat \ {0}
             /\ candidate > 1 => BestTo(winner, ThisGroup.found, candidate)
  <2>1. /\ GroupsMade(Len(nodes) + 1) /\ reports \in Seq(Nat) /\ Len(reports) < Len(groups)
        /\ \A i \in DOMAIN reports : i \in DOMAIN groups /\ BestOf(reports[i], i) /\ groups[i].key # 0
        /\ candidate \in 1..(Len(ThisGroup.found) + 1)
        /\ candidate > 1 => BestTo(winner, ThisGroup.found, candidate)
    BY <1>p DEF GroupInv
  <2>2. groups \in Seq(GroupType)
    BY <2>1 DEF GroupsMade, GroupsMadeOf
  <2>3. Len(groups) \in Nat /\ DOMAIN groups = 1..Len(groups) /\ Len(reports) \in Nat /\ DOMAIN reports = 1..Len(reports)
    BY <2>1, <2>2, SequenceFacts
  <2>4. Len(reports) + 1 \in DOMAIN groups
    BY <2>1, <2>3
  <2>5. Len(ThisGroup.found) \in Nat
    BY <1>g, <2>1, <2>4 DEF ThisGroup
  <2>6. candidate \in Nat \ {0}
    BY <2>1, <2>5
  <2>7. ~Flawless
    BY <1>p DEF CoverInv
  <2>8. QED
    BY <2>1, <2>2, <2>3, <2>4, <2>6, <2>7
<1>6. CASE Pick
  <2>1. /\ reading = "pick" /\ reading' = "pick" /\ candidate \in DOMAIN ThisGroup.found
        /\ winner' = IF candidate = 1 \/ BetterDiagnostic(ThisGroup.found[candidate], winner)
                       THEN ThisGroup.found[candidate] ELSE winner
        /\ candidate' = candidate + 1 /\ UNCHANGED <<source, nodes, groups, reports>>
    BY <1>6 DEF Pick
  <2>2. PICK found, n, r, s : found = ThisGroup.found /\ n = candidate /\ r = winner /\ s = winner'
    OBVIOUS
  <2>3. /\ found \in Seq(Nat) /\ Len(found) \in Nat /\ DOMAIN found = 1..Len(found)
        /\ \A i \in DOMAIN found : found[i] \in DOMAIN nodes /\ Flawed(found[i])
    BY <1>g, <1>p, <2>1, <2>2 DEF ThisGroup
  <2>4. /\ n \in DOMAIN found /\ (n > 1 => BestTo(r, found, n))
        /\ s = IF n = 1 \/ BetterDiagnostic(found[n], r) THEN found[n] ELSE r
    BY <1>p, <2>1, <2>2
  <2>5. PICK m : m = n + 1
    OBVIOUS
  <2>6. BestTo(s, found, m)
    BY <2>3, <2>4, <2>5, BestExtends
  <2>7. BestTo(s, found, m)'
    BY <2>1, <2>6, SameTree
  <2>8. ThisGroup' = ThisGroup
    BY <2>1 DEF ThisGroup
  <2>9. BestTo(winner, ThisGroup.found, candidate)'
    BY <2>1, <2>2, <2>5, <2>7, <2>8
  <2>10. candidate' \in 1..(Len(ThisGroup'.found) + 1)
    BY <2>1, <2>2, <2>3, <2>8
  <2>11. PICK w : w = Len(nodes) + 1
    OBVIOUS
  <2>12. GroupsMade(w)' /\ w = Len(nodes') + 1
    BY <1>k, <1>p, <2>1, <2>11
  <2>13. GroupsMade(Len(nodes) + 1)'
    BY <2>12
  <2>14. \A i \in DOMAIN reports' : i \in DOMAIN groups' /\ BestOf(reports[i], i)'
    <3>1. SUFFICES ASSUME NEW i \in DOMAIN reports PROVE i \in DOMAIN groups /\ BestOf(reports[i], i)'
      BY <2>1
    <3>2. PICK q : q = reports[i]
      OBVIOUS
    <3>3. BestOf(q, i)' /\ i \in DOMAIN groups
      BY <1>k, <1>p, <2>1, <3>2
    <3>4. QED
      BY <2>1, <3>2, <3>3
  <2>15. QED
    BY <1>p, <2>1, <2>9, <2>10, <2>13, <2>14 DEF GroupInv
<1>7. CASE Report
  <2>1. /\ reading = "pick" /\ candidate \notin DOMAIN ThisGroup.found
        /\ reports' = Append(reports, winner)
        /\ reading' = IF ThisGroup.key = 0 \/ Len(reports') = Len(groups) THEN "reported" ELSE "pick"
        /\ candidate' = 1 /\ UNCHANGED <<source, nodes, groups>>
    BY <1>7 DEF Report
  <2>2. PICK found, g, r : found = groups[g].found /\ g = Len(reports) + 1 /\ r = winner
    OBVIOUS
  <2>3. /\ found \in Seq(Nat) /\ Len(found) \in Nat \ {0} /\ DOMAIN found = 1..Len(found)
        /\ g \in DOMAIN groups /\ ThisGroup = groups[g]
    BY <1>g, <1>p, <2>1, <2>2 DEF ThisGroup
  <2>4. candidate = Len(found) + 1 /\ candidate > 1
    <3>1. ThisGroup.found = found /\ Len(found) \in Nat \ {0} /\ DOMAIN found = 1..Len(found)
      BY <2>2, <2>3
    <3>2. candidate \in 1..(Len(found) + 1) /\ candidate \notin 1..Len(found)
      BY <1>p, <2>1, <3>1
    <3>3. QED
      BY <3>1, <3>2
  <2>5. BestTo(r, found, Len(found) + 1)
    <3>1. BestTo(winner, ThisGroup.found, candidate)
      BY <1>p, <2>1, <2>4
    <3>2. QED
      BY <2>2, <2>3, <2>4, <3>1
  <2>6. BestOf(r, g)
    BY <2>2, <2>5 DEF BestOf
  <2>7. r \in Nat
    <3>1. PICK i \in 1..((Len(found) + 1) - 1) : r = found[i]
      BY <2>5 DEF BestTo
    <3>2. i \in DOMAIN found
      BY <2>3
    <3>3. QED
      BY <2>3, <3>1, <3>2
  <2>8. /\ reports' \in Seq(Nat) /\ Len(reports') = g /\ DOMAIN reports' = 1..g
        /\ reports'[g] = r /\ \A i \in DOMAIN reports : reports'[i] = reports[i]
        /\ g \in Nat /\ \A i \in DOMAIN reports' : i = g \/ i \in DOMAIN reports
    <3>1. reports \in Seq(Nat) /\ Len(reports) \in Nat /\ DOMAIN reports = 1..Len(reports)
      BY <1>p, <2>1
    <3>2. QED
      BY <2>1, <2>2, <2>7, <3>1, AppendFacts
  <2>9. PICK w : w = Len(nodes) + 1
    OBVIOUS
  <2>10. GroupsMade(w)' /\ w = Len(nodes') + 1
    BY <1>k, <1>p, <2>1, <2>9
  <2>11. GroupsMade(Len(nodes) + 1)'
    BY <2>10
  <2>12. \A i \in DOMAIN reports' : i \in DOMAIN groups' /\ BestOf(reports[i], i)'
    <3>1. SUFFICES ASSUME NEW i \in DOMAIN reports' PROVE i \in DOMAIN groups /\ BestOf(reports[i], i)'
      BY <2>1
    <3>2. PICK q : q = reports'[i]
      OBVIOUS
    <3>3. BestOf(q, i) /\ i \in DOMAIN groups
      BY <1>p, <2>1, <2>3, <2>6, <2>8, <3>2
    <3>4. BestOf(q, i)'
      BY <1>k, <2>1, <3>3
    <3>5. QED
      BY <3>2, <3>3, <3>4
  <2>13. \A i \in DOMAIN reports' : i # g => groups'[i].key # 0
    BY <1>p, <2>1, <2>8
  <2>14. ~Flawless'
    BY <1>k, <1>p, <2>1
  <2>15. CASE reading' = "reported"
    <3>1. Len(reports') = Len(groups') \/ groups'[Len(reports')].key = 0
      BY <2>1, <2>3, <2>8, <2>15
    <3>2. reports' # <<>>
      <4>1. g \in 1..g
        <5>1. DOMAIN groups = 1..Len(groups) /\ Len(groups) \in Nat
          BY <1>p, <2>1
        <5>2. g \in 1..Len(groups)
          BY <2>3, <5>1
        <5>3. QED
          BY <5>1, <5>2
      <4>2. QED
        BY <2>8, <4>1
    <3>3. QED
      BY <2>8, <2>11, <2>12, <2>13, <2>14, <2>15, <3>1, <3>2 DEF GroupInv
  <2>16. CASE reading' = "pick"
    <3>1. ThisGroup.key # 0 /\ g # Len(groups)
      BY <2>1, <2>8, <2>16
    <3>2. Len(reports') < Len(groups')
      BY <1>p, <2>1, <2>3, <2>8, <3>1
    <3>3. \A i \in DOMAIN reports' : groups'[i].key # 0
      BY <2>1, <2>3, <2>13, <3>1
    <3>4. g + 1 \in DOMAIN groups /\ ThisGroup' = groups[g + 1]
      <4>1. DOMAIN groups = 1..Len(groups) /\ Len(groups) \in Nat
        BY <1>p, <2>1
      <4>2. g < Len(groups) /\ g \in Nat
        BY <2>1, <2>8, <3>2
      <4>3. g + 1 \in DOMAIN groups
        BY <4>1, <4>2
      <4>4. ThisGroup' = groups[g + 1]
        BY <2>1, <2>8 DEF ThisGroup
      <4>5. QED
        BY <4>3, <4>4
    <3>5. Len(ThisGroup'.found) \in Nat
      BY <1>g, <1>p, <2>1, <3>4
    <3>6. candidate' \in 1..(Len(ThisGroup'.found) + 1) /\ ~(candidate' > 1)
      BY <2>1, <3>5
    <3>7. QED
      BY <2>8, <2>11, <2>12, <2>16, <3>2, <3>3, <3>6 DEF GroupInv
  <2>17. QED
    BY <2>1, <2>15, <2>16
<1>8. CASE UNCHANGED diagnosticVars
  <2>1. UNCHANGED <<source, nodes, reading, visit, groups, candidate, winner, reports>>
    BY <1>8 DEF diagnosticVars
  <2>2. PICK v, w, r, found, n :
          v = visit /\ w = Len(nodes) + 1 /\ r = winner /\ found = ThisGroup.found /\ n = candidate
    OBVIOUS
  <2>3. ThisGroup' = ThisGroup
    BY <2>1 DEF ThisGroup
  <2>4. (GroupsMade(visit)' <=> GroupsMade(visit)) /\ (GroupsMade(Len(nodes) + 1)' <=> GroupsMade(Len(nodes) + 1))
    <3>1. (GroupsMade(v)' <=> GroupsMade(v)) /\ (GroupsMade(w)' <=> GroupsMade(w))
      BY <1>k, <2>1
    <3>2. QED
      BY <2>1, <2>2, <3>1
  <2>5. \A i : BestOf(reports[i], i)' <=> BestOf(reports[i], i)
    <3>1. SUFFICES ASSUME NEW i PROVE BestOf(reports[i], i)' <=> BestOf(reports[i], i)
      OBVIOUS
    <3>2. PICK q : q = reports[i]
      OBVIOUS
    <3>3. BestOf(q, i)' <=> BestOf(q, i)
      BY <1>k, <2>1
    <3>4. QED
      BY <2>1, <3>2, <3>3
  <2>6. BestTo(winner, ThisGroup.found, candidate)' <=> BestTo(winner, ThisGroup.found, candidate)
    <3>1. BestTo(r, found, n)' <=> BestTo(r, found, n)
      BY <2>1, SameTree
    <3>2. QED
      BY <2>1, <2>2, <2>3, <3>1
  <2>7. Flawless' <=> Flawless
    BY <1>k, <2>1
  <2>8. QED
    BY <2>1, <2>3, <2>4, <2>5, <2>6, <2>7 DEF GroupInv
<1>9. CASE (\E token \in {"blank", "outer", "inner"} : Read(token))
           \/ (\E shape \in {"file"} \union Shapes : Enter(shape)) \/ Leave \/ Cover
  BY <1>1, <1>9 DEF Read, Enter, Leave, Cover
<1>10. QED
  BY <1>2, <1>3, <1>4, <1>5, <1>6, <1>7, <1>8, <1>9 DEF DiagnosticsNext

LEMMA LocalHolds == DiagnosticTypes /\ GroupInv => ReportsAreLocal
<1> SUFFICES ASSUME DiagnosticTypes, GroupInv, reading = "reported", ~Flawless PROVE ReportsAreLocal
  BY DEF ReportsAreLocal, Flawless
<1> DEFINE flaws == {n \in DOMAIN nodes : Flawed(n)}
<1> DEFINE BlocksOf(ns) == {TopLevelBlock[n] : n \in ns}
<1>1. /\ GroupsMadeOf(groups, Len(nodes) + 1) /\ reports \in Seq(Nat)
      /\ \A i \in DOMAIN reports : i \in DOMAIN groups /\ BestOf(reports[i], i)
      /\ \A i \in DOMAIN reports : i # Len(reports) => groups[i].key # 0
      /\ reports # <<>>
      /\ Len(reports) = Len(groups) \/ groups[Len(reports)].key = 0
  BY DEF GroupInv, GroupsMade
<1>2. /\ groups \in Seq(GroupType) /\ Len(groups) \in Nat /\ DOMAIN groups = 1..Len(groups)
      /\ Len(reports) \in Nat \ {0} /\ DOMAIN reports = 1..Len(reports)
      /\ Len(nodes) \in Nat /\ DOMAIN nodes = 1..Len(nodes)
  BY <1>1, SequenceFacts DEF GroupsMadeOf, DiagnosticTypes
<1>3. ASSUME NEW g \in DOMAIN groups
      PROVE  /\ Len(groups[g].found) \in Nat \ {0} /\ DOMAIN groups[g].found = 1..Len(groups[g].found)
             /\ \A i \in DOMAIN groups[g].found :
                  /\ groups[g].found[i] \in flaws
                  /\ TopLevelBlock[groups[g].found[i]] = groups[g].key
  <2>1. Len(groups[g].found) \in Nat \ {0} /\ DOMAIN groups[g].found = 1..Len(groups[g].found)
    BY <1>1, GroupFacts
  <2>2. QED
    BY <1>1, <2>1 DEF GroupsMadeOf
<1>4. ASSUME NEW i \in DOMAIN reports
      PROVE  /\ reports[i] \in flaws /\ TopLevelBlock[reports[i]] = groups[i].key
             /\ \A k \in DOMAIN groups[i].found : ~BetterDiagnostic(groups[i].found[k], reports[i])
  <2>1. i \in DOMAIN groups /\ BestTo(reports[i], groups[i].found, Len(groups[i].found) + 1)
    BY <1>1 DEF BestOf
  <2>2. DOMAIN groups[i].found = 1..((Len(groups[i].found) + 1) - 1)
    BY <1>3, <2>1
  <2>3. QED
    BY <1>3, <2>1, <2>2 DEF BestTo
<1>5. ASSUME NEW r \in ToSet(reports)
      PROVE  \E i \in DOMAIN reports : r = reports[i]
  BY DEF ToSet
<1>6. ToSet(reports) \subseteq flaws
  BY <1>4, <1>5
<1>7. ASSUME NEW i \in DOMAIN reports, NEW j \in DOMAIN reports, i < j
      PROVE  TopLevelBlock[reports[i]] # TopLevelBlock[reports[j]] /\ TopLevelBlock[reports[i]] # 0
  <2>0. i # j /\ i # Len(reports)
    BY <1>2, <1>7
  <2>1. i # j /\ i # Len(reports) /\ i \in DOMAIN groups /\ j \in DOMAIN groups
    BY <1>1, <2>0
  <2>2. groups[i].key # groups[j].key /\ groups[i].key # 0
    BY <1>1, <2>1 DEF GroupsMadeOf
  <2>3. QED
    BY <1>4, <2>2
<1>8. ASSUME NEW n \in flaws
      PROVE  \E g \in DOMAIN groups : \E i \in DOMAIN groups[g].found :
               groups[g].found[i] = n /\ groups[g].key = TopLevelBlock[n]
  <2>1. n < Len(nodes) + 1 /\ n \in DOMAIN nodes /\ Flawed(n)
    BY <1>2
  <2>2. PICK g \in DOMAIN groups : \E i \in DOMAIN groups[g].found : groups[g].found[i] = n
    BY <1>1, <2>1 DEF GroupsMadeOf
  <2>3. QED
    BY <1>3, <2>2
<1>9. ASSUME NEW n \in flaws, TopLevelBlock[n] \notin BlocksOf(ToSet(reports))
      PROVE  \E m \in flaws : m < n /\ TopLevelBlock[m] = 0
  <2>1. PICK g \in DOMAIN groups : \E i \in DOMAIN groups[g].found :
               groups[g].found[i] = n /\ groups[g].key = TopLevelBlock[n]
    BY <1>8
  <2>2. g \notin DOMAIN reports
    <3>1. SUFFICES ASSUME g \in DOMAIN reports PROVE FALSE
      OBVIOUS
    <3>2. TopLevelBlock[reports[g]] = TopLevelBlock[n] /\ reports[g] \in ToSet(reports)
      BY <1>4, <2>1, <3>1 DEF ToSet
    <3>3. QED
      BY <1>9, <3>2
  <2>3. PICK l : l = Len(reports)
    OBVIOUS
  <2>4. l < g /\ l \in DOMAIN groups /\ l # Len(groups)
    <3>1. PICK all : all = Len(groups)
      OBVIOUS
    <3>2. all \in Nat /\ g \in 1..all /\ l \in Nat \ {0} /\ ~(g \in 1..l)
      BY <1>2, <2>2, <2>3, <3>1
    <3>3. l < g /\ l \in 1..all /\ l # all
      BY <3>2
    <3>4. QED
      BY <1>2, <3>1, <3>3
  <2>5. groups[l].key = 0
    BY <1>1, <2>3, <2>4
  <2>6. groups[l].found[1] < n
    BY <1>1, <2>1, <2>4 DEF GroupsMadeOf
  <2>7. groups[l].found[1] \in flaws /\ TopLevelBlock[groups[l].found[1]] = 0
    <3>1. 1 \in DOMAIN groups[l].found
      BY <1>3, <2>4
    <3>2. QED
      BY <1>3, <2>4, <2>5, <3>1
  <2>8. QED
    BY <2>6, <2>7
<1>10. ASSUME NEW r \in ToSet(reports), NEW m \in flaws, Within(m, r), TopLevelBlock[m] = TopLevelBlock[r]
       PROVE  Signal(m) < Signal(r)
  <2>1. PICK i \in DOMAIN reports : r = reports[i]
    BY <1>5
  <2>2. PICK g \in DOMAIN groups : \E k \in DOMAIN groups[g].found :
               groups[g].found[k] = m /\ groups[g].key = TopLevelBlock[m]
    BY <1>8
  <2>3. g = i
    BY <1>1, <1>4, <1>10, <2>1, <2>2 DEF GroupsMadeOf
  <2>4. ~BetterDiagnostic(m, r)
    BY <1>4, <2>1, <2>2, <2>3
  <2>5. r \in flaws
    BY <1>4, <2>1
  <2>6. Signal(m) <= Signal(r)
    BY <1>10, <2>5, SignalWithin DEF Within
  <2>7. Signal(m) \in Int /\ Signal(r) \in Int /\ Span(m) < Span(r)
    BY <1>10, SignalIs DEF Within
  <2>8. QED
    BY <2>4, <2>6, <2>7 DEF BetterDiagnostic
<1>11. QED
  BY <1>6, <1>7, <1>9, <1>10 DEF ReportsAreLocal

(* Of a tree with flaws, of any size, each broken block gets one report,   *)
(* and no flaw within what is reported has a keyword as telling as its own *)
(* (findErrors, pickBestDiagnostic).                                       *)
THEOREM ReportsLocal == DiagnosticsSpec => []ReportsAreLocal
<1>1. QED
  BY InitTree, StepTree, InitCover, StepCover, InitGroups, StepGroups, LocalHolds, PTL DEF DiagnosticsSpec
=============================================================================
