------------------------------ MODULE Language ------------------------------
(***************************************************************************)
(* The parser's language blob.  `go generate` compiles the grammar into    *)
(* language.bin, language.hash and testdata/grammar.json (cmd/genblob);    *)
(* the package embeds the first two and takes the blob when the hash is    *)
(* that of its own grammar (language_blob_embed.go).  Grammar and compiler *)
(* change meanwhile, generations stop half-way, and `make tag` releases    *)
(* what is committed.                                                      *)
(***************************************************************************)
EXTENDS Integers

CONSTANTS
  MaxGrammar,   \* bound on the versions of the grammar: 0..MaxGrammar
  MaxCompiler,  \* bound on the versions of gotreesitter: 0..MaxCompiler
  Reverts,      \* the grammar may go back to an earlier version
  Partial       \* a file WriteFile has truncated but not filled

ASSUME LanguageAssumption ==
  /\ MaxGrammar \in Nat /\ MaxCompiler \in Nat
  /\ Reverts \in BOOLEAN
  /\ Partial \notin Nat

VARIABLES
  grammar, compiler, \* in the working tree
  bin,      \* language.bin: what it was compiled from, or Partial
  hash,     \* language.hash: the grammar hashed, or Partial
  json,     \* testdata/grammar.json: the grammar exported, or Partial
  gen,      \* the file genblob writes next: "idle", "bin", "hash", "json"
  of,       \* the grammar and the compiler it was built with
  head,     \* the last commit, a record of the five
  gate,     \* release-gate has passed, and git tag is to come
  tagged    \* the commit of the last release

files == <<bin, hash, json>>
tree == <<grammar, compiler, files>>
languageVars == <<tree, gen, of, head, gate, tagged>>

Blob(g, c) == [grammar |-> g, compiler |-> c]
Blobs == [grammar : Nat, compiler : Nat]

Tree == [grammar |-> grammar, compiler |-> compiler, bin |-> bin, hash |-> hash, json |-> json]

LanguageInit ==
  /\ grammar = 0 /\ compiler = 0
  /\ bin = Blob(0, 0) /\ hash = 0 /\ json = 0
  /\ gen = "idle" /\ of = Blob(0, 0)
  /\ head = Tree
  /\ gate = FALSE
  /\ tagged = Tree

-----------------------------------------------------------------------------
(* loadEmbeddedLanguageBlob, and getDanmujiLanguage, which decodes what it *)
(* is given: the blob a build of this tree parses with, Partial when it    *)
(* has none and every call of TranspileDanmuji fails.                      *)
Load(t) ==
  IF t.hash = t.grammar /\ t.bin # Partial THEN t.bin ELSE Partial

(* go test ./...: the tests that look at the three files. *)
Green(t) ==
  /\ Load(t) # Partial                        \* nothing transpiles without it
  /\ t.bin = Blob(t.grammar, t.compiler)      \* TestEmbeddedBlobIsFresh
  /\ t.json = t.grammar                       \* TestGrammarJSONMatchesGenerated

-----------------------------------------------------------------------------
EditGrammar ==
  /\ \E g \in 0..MaxGrammar :
       /\ g > grammar \/ (Reverts /\ g # grammar)
       /\ grammar' = g
  /\ UNCHANGED <<compiler, files, gen, of, head, gate, tagged>>

Bump ==
  /\ compiler < MaxCompiler
  /\ compiler' = compiler + 1
  /\ UNCHANGED <<grammar, files, gen, of, head, gate, tagged>>

(* go run ./cmd/genblob: what it will write is settled when it is built. *)
Generate ==
  /\ gen = "idle"
  /\ gen' = "bin"
  /\ of' = Blob(grammar, compiler)
  /\ UNCHANGED <<tree, head, gate, tagged>>

(* Mutant: the hash is brought up to date first. *)
WriteBinLast ==
  /\ gen = "bin"
  /\ \/ hash # of.grammar /\ hash' = of.grammar /\ UNCHANGED <<bin, gen>>
     \/ hash = of.grammar /\ bin' = of /\ gen' = "hash" /\ UNCHANGED hash
  /\ UNCHANGED <<grammar, compiler, json, of, head, gate, tagged>>

WriteBin ==
  /\ gen = "bin"
  /\ bin' = of
  /\ gen' = "hash"
  /\ UNCHANGED <<grammar, compiler, hash, json, of, head, gate, tagged>>

WriteHash ==
  /\ gen = "hash"
  /\ hash' = of.grammar
  /\ gen' = "json"
  /\ UNCHANGED <<grammar, compiler, bin, json, of, head, gate, tagged>>

WriteJSON ==
  /\ gen = "json"
  /\ json' = of.grammar
  /\ gen' = "idle"
  /\ UNCHANGED <<grammar, compiler, bin, hash, of, head, gate, tagged>>

(* A write that fails ends genblob (os.Exit), as ctrl+c does; the file it  *)
(* was at may be cut short.                                                *)
Fail ==
  /\ gen # "idle"
  /\ gen' = "idle"
  /\ \/ UNCHANGED files
     \/ gen = "bin" /\ bin' = Partial /\ UNCHANGED <<hash, json>>
     \/ gen = "hash" /\ hash' = Partial /\ UNCHANGED <<bin, json>>
     \/ gen = "json" /\ json' = Partial /\ UNCHANGED <<bin, hash>>
  /\ UNCHANGED <<grammar, compiler, of, head, gate, tagged>>

Commit ==
  /\ head # Tree
  /\ head' = Tree
  /\ UNCHANGED <<tree, gen, of, gate, tagged>>

(* make tag: the tests run on the working tree; git tag takes the commit.  *)
ReleaseGate ==
  /\ ~gate /\ Green(Tree)
  /\ gate' = TRUE
  /\ UNCHANGED <<tree, gen, of, head, tagged>>

Tag ==
  /\ gate
  /\ gate' = FALSE
  /\ tagged' = head
  /\ UNCHANGED <<tree, gen, of, head>>

LanguageNext ==
  \/ EditGrammar \/ Bump
  \/ Generate \/ WriteBin \/ WriteHash \/ WriteJSON \/ Fail
  \/ Commit \/ ReleaseGate \/ Tag

LanguageSpec == LanguageInit /\ [][LanguageNext]_languageVars

-----------------------------------------------------------------------------
Trees ==
  [grammar : Nat, compiler : Nat, bin : Blobs \cup {Partial},
   hash : Nat \cup {Partial}, json : Nat \cup {Partial}]

LanguageTypeOK ==
  /\ Tree \in Trees
  /\ gen \in {"idle", "bin", "hash", "json"}
  /\ of \in Blobs
  /\ head \in Trees
  /\ gate \in BOOLEAN
  /\ tagged \in Trees

(* A build never parses with another grammar's tables, at whatever moment  *)
(* of a generation it is made and wherever earlier generations stopped: it *)
(* "returns the embedded blob if the grammar hash matches" and an error    *)
(* "if the grammar has changed since the blob was generated"               *)
(* (language_blob_embed.go:17-19).                                         *)
Own(t) == Load(t) = Partial \/ Load(t).grammar = t.grammar
LoadsOwnGrammar == Own(Tree) /\ Own(head) /\ Own(tagged)
=============================================================================
