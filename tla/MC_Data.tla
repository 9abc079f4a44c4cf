------------------------------ MODULE MC_Data ------------------------------
(***************************************************************************)
(* Instances for TLC of the parts that turn what an author writes into     *)
(* rows, literals, cells, verdicts and diagnostics.  They share nothing:   *)
(* a behaviour of the run is one of one part while the others are idle.    *)
(***************************************************************************)
EXTENDS Factories, DataBlocks, TableRow, Matchers, Diagnostics

Init == FactoriesInit /\ DataInit /\ RowInit /\ MatchersInit /\ DiagnosticsInit

OneOf(busy) ==
  /\ busy = "factories" \/ stage = "idle"
  /\ busy = "data" \/ phase = "idle"
  /\ busy = "row" \/ cutting = "idle"
  /\ busy = "matcher" \/ call.op = "idle"
  /\ busy = "diagnostics" \/ (source = <<>> /\ nodes = <<>>)

Next ==
  \/ OneOf("factories") /\ FactoriesNext
     /\ UNCHANGED <<dataVars, rowVars, matcherVars, diagnosticVars>>
  \/ OneOf("data") /\ DataNext
     /\ UNCHANGED <<factoryVars, rowVars, matcherVars, diagnosticVars>>
  \/ OneOf("row") /\ RowNext
     /\ UNCHANGED <<factoryVars, dataVars, matcherVars, diagnosticVars>>
  \/ OneOf("matcher") /\ MatchersNext
     /\ UNCHANGED <<factoryVars, dataVars, rowVars, diagnosticVars>>
  \/ OneOf("diagnostics") /\ DiagnosticsNext
     /\ UNCHANGED <<factoryVars, dataVars, rowVars, matcherVars>>

Spec == Init /\ [][Next]_<<factoryVars, dataVars, rowVars, matcherVars, diagnosticVars>>

-----------------------------------------------------------------------------
(* Bodies of up to three blocks, one factory and one build of it in either *)
(* order; and two factories, of one name or of two, around a build.        *)
Defaults(fs) == [kind |-> "defaults", fields |-> fs]
Trait(n, fs) == [kind |-> "trait", name |-> n, fields |-> fs]
Factory(n, body) == [kind |-> "factory", name |-> n, body |-> body]
Build(n, ts, over) == [kind |-> "build", name |-> n, traits |-> ts, overrides |-> over]
FactoryFields == STRING \X Nat
Bodies ==
  BoundedSeq({Defaults(<< <<"a", 1>>, <<"b", 2>> >>), Defaults(<< <<"b", 3>> >>),
              Trait("t", << <<"b", 4>>, <<"c", 5>> >>), Trait("t", << <<"a", 6>> >>),
              Trait("u", << <<"a", 7>>, <<"c", 8>> >>)}, 3)
FewBodies == {<<>>, <<Defaults(<< <<"a", 1>> >>)>>,
              <<Trait("t", << <<"a", 2>> >>), Defaults(<< <<"b", 3>> >>)>>}
Builds(names) ==
  {Build(n, ts, over) : n \in names,
     ts \in {<<>>, <<"t">>, <<"t", "u">>, <<"u", "t">>, <<"w", "t">>},
     over \in {<<>>, << <<"b", 9>> >>, << <<"d", 10>>, <<"a", 11>>, <<"d", 12>> >>}}

FilesWritten ==
  {<<Factory("F", body), b>> : body \in Bodies, b \in Builds({"F"})}
  \union {<<b, Factory("F", body)>> : body \in Bodies, b \in Builds({"F"})}
  \union {<<Factory("F", f), b, Factory(n, g)>> :
             f, g \in FewBodies, b \in Builds({"F", "G", "H"}), n \in {"F", "G"}}
  \union {<<Factory("F", f), b, c>> : f \in FewBodies, b, c \in Builds({"F", "G"})}

(* each: up to four parts; matrix: up to three dimensions.                 *)
V(n) == <<"v", n>>
SomeValues == {V(n) : n \in 1..9}
SomeKeys == {"name", "a", "b", "c", "k", "l", "m"}
DefaultsBlock(fs) == [kind |-> "defaults", fields |-> fs]
Entry(fs) == [kind |-> "entry", fields |-> fs]
Each(parts) == [kind |-> "each", parts |-> parts]
Ident(n) == [ident |-> TRUE, val |-> V(n)]
Expr(n) == [ident |-> FALSE, val |-> V(n)]
Dimension(key, values) == [key |-> key, values |-> values]
Matrix(dims) == [kind |-> "matrix", parts |-> dims]
Parts ==
  {DefaultsBlock(<< <<"a", V(1)>> >>), DefaultsBlock(<< <<"b", V(2)>>, <<"a", V(3)>> >>),
   DefaultsBlock(<< <<"name", V(4)>> >>), Entry(<< <<"a", V(5)>> >>),
   Entry(<< <<"c", V(6)>>, <<"c", V(7)>> >>), Entry(<< <<"name", V(8)>>, <<"b", V(9)>> >>)}
Dimensions(key) ==
  {Dimension(key, vs) : vs \in {<<Expr(1)>>, <<Expr(1), Expr(2)>>, <<Ident(3)>>,
                                <<Expr(1), Ident(2), Expr(3)>>}}
BlocksWritten ==
  {Each(ps) : ps \in BoundedSeq(Parts, 4)}
  \union {Matrix(<<>>)}
  \union {Matrix(<<d>>) : d \in Dimensions("k")}
  \union {Matrix(<<d, e>>) : d \in Dimensions("k"), e \in Dimensions("l")}
  \union {Matrix(<<d, e, f>>) :
            d \in Dimensions("k"), e \in Dimensions("l"), f \in Dimensions("m")}

(* A cell is an expression: bars within quotes and brackets, a bracket, a  *)
(* backslash and the other quotes within each kind of quotes.              *)
Cells ==
  {<<"x">>, <<"x", "x">>,
   <<"\"", "|", "\"">>, <<"'", "|", "'">>, <<"tick", "|", "tick">>,
   <<"\"", "\\", "\"", "|", "\"">>, <<"'", "\\", "'", "'">>, <<"\"", "\\", "\\", "\"">>,
   <<"tick", "\\", "tick">>, <<"\"", "(", "\"">>, <<"'", "\"", "'">>,
   <<"tick", "'", "|", "tick">>,
   <<"(", "x", "|", "[", "x", "|", "x", "]", ")">>, <<"{", "\"", "}", "\"", "|", "x", "}">>}
(* Read from the left; what cannot go on stays as it is. *)
ReadingOf(c) ==
  [n \in 0..Len(c) |->
     FoldLeft(LAMBDA now, r :
                LET States == {StillOpen(q, e, bs) : q \in {"none", "'", "\"", "tick"}, e \in BOOLEAN,
                                                bs \in BoundedSeq(Opening, 2)}
                IN CHOOSE after \in States : GoesOn(now, r, after),
              Nothing, SubSeq(c, 1, n))]
Readings == [c \in Cells |-> ReadingOf(c)]
CellRows == {<<c>> : c \in Cells} \union (Cells \X Cells) \union (Cells \X Cells \X Cells)

-----------------------------------------------------------------------------
(* Integers of four bits, floats of two significant ones.                  *)
Floats == {n \in -8..16 : ToFloat(n) = n}
Numbers == {Signed(n) : n \in -8..7} \union {Unsigned(n) : n \in 0..15}
             \union {Float(n) : n \in Floats}
Few == {Signed(-1), Unsigned(15), Signed(4), Signed(5), Float(4), Text(<<"a">>)}
Slices(n) == {Slice(s) : s \in BoundedSeq(Few, n)}
Others == {Nil, NilSlice, Text(<<"a", "b">>), Text(<<"b">>), Map(<<"a">> :> Signed(1))}

(* What `matches` looks at, and what it asks for, by key.                  *)
A == <<"a">>
B == <<"b">>
MatchFields ==
  {A :> v @@ B :> w : v, w \in {Signed(5), NilPointer, Slice(<<Unsigned(5)>>), Text(<<"a", "b">>)}}
Targets ==
  {Struct(f, h) : f \in MatchFields, h \in {{}, {B}}} \union {Map(f) : f \in MatchFields}
  \union {Nil, NilPointer, NilMap, Text(A), Map(A :> Unsigned(5))}
Specs == {Signed(5), Contained(Signed(5)), Contained(Text(B)), MustBeNil, MustNotBeNil}

CallsMade ==
  [op : {"equal"}, expected : Numbers \union Others, actual : Numbers \union Others]
  \union [op : {"contains"}, expected : Few \union {Nil, Text(<<"b">>)},
          actual : Slices(2) \union Others]
  \union [op : {"unordered"}, expected : Slices(3) \union Others, actual : Slices(2) \union Others]
  \union {[op |-> "unordered", expected |-> Slice(e), actual |-> Slice(a)] :
            e, a \in {s \in BoundedSeq(Few, 3) : Len(s) = 3}}
  \union [op : {"matches"},
          expected : {<<>>} \union {<< <<B, s>> >> : s \in Specs}
                     \union {<< <<A, s>>, <<B, t>> >> : s, t \in Specs},
          actual : Targets \union {Pointer(v) : v \in Targets}
                     \union {Pointer(Pointer(v)) : v \in Targets}]
=============================================================================
