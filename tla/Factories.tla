------------------------------ MODULE Factories ------------------------------
(***************************************************************************)
(* `factory` and `build`: named sets of field values, layered into struct  *)
(* literals (transpile_factory.go).  A file is walked twice: the first     *)
(* walk collects every factory and every build, then the builds are        *)
(* checked against the factories, and the second walk writes the literals. *)
(* A field is a pair <<key, value>>; the value is opaque.                  *)
(***************************************************************************)
EXTENDS Integers, Sequences

CONSTANTS
  Fields, \* the fields there are
  Files   \* what an author may write: sequences of factories and builds

VARIABLES
  file,      \* the file transpiled, <<>> while there is none
  stage,     \* "idle", "collect", "validate", "emit", "done" or "refused"
  item,      \* the item, or the build, that comes next
  inner,     \* the block of the factory, or the layer of the build, that comes next
  field,     \* the field of that layer that comes next
  def,       \* the factory being collected
  factories, \* t.factories: name -> defaults and traits
  builds,    \* t.pendingBuilds
  errors,    \* the semantic errors
  literal,   \* order and values, of the build being emitted
  literals   \* what each build became, by its place in the file

factoryVars ==
  <<file, stage, item, inner, field, def, factories, builds, errors, literal, literals>>

FactoryBlock ==
  [kind : {"defaults"}, fields : Seq(Fields)]
    \union [kind : {"trait"}, name : STRING, fields : Seq(Fields)]
Item ==
  [kind : {"factory"}, name : STRING, body : Seq(FactoryBlock)]
    \union [kind : {"build"}, name : STRING, traits : Seq(STRING), overrides : Seq(Fields)]

ASSUME FactoriesAssumption == Files \subseteq Seq(Item)

With(f, x, v) == [y \in DOMAIN f \union {x} |-> IF y = x THEN v ELSE f[y]]
NoFields == [x \in {} |-> <<>>]
NoDef == [defaults |-> <<>>, traits |-> NoFields, seen |-> FALSE]

FactoriesInit ==
  /\ file = <<>> /\ stage = "idle" /\ item = 1 /\ inner = 1 /\ field = 1
  /\ def = NoDef /\ factories = [x \in {} |-> NoDef] /\ builds = <<>> /\ errors = {}
  /\ literal = <<>> /\ literals = [x \in {} |-> <<>>]

-----------------------------------------------------------------------------
BeginFile ==
  /\ stage = "idle"
  /\ file' \in Files
  /\ stage' = "collect"
  /\ UNCHANGED <<item, inner, field, def, factories, builds, errors, literal, literals>>

At(s, kind) == stage = s /\ item \in DOMAIN file /\ file[item].kind = kind

(* A name is declared once: a second factory of it is passed over. *)
Redeclared == At("collect", "factory") /\ file[item].name \in DOMAIN factories

RefuseFactory ==
  /\ Redeclared
  /\ errors' = errors \union {<<"declared twice", file[item].name>>}
  /\ item' = item + 1
  /\ UNCHANGED <<file, stage, inner, field, def, factories, builds, literal, literals>>

(* The body, block by block: a second defaults block replaces the first, a *)
(* second trait of a name is refused.                                      *)
InBody == At("collect", "factory") /\ ~Redeclared /\ inner \in DOMAIN file[item].body
ThisBlock == file[item].body[inner]

CollectDefaults ==
  /\ InBody /\ ThisBlock.kind = "defaults"
  /\ def' = [def EXCEPT !.defaults = ThisBlock.fields, !.seen = TRUE]
  /\ inner' = inner + 1
  /\ UNCHANGED <<file, stage, item, field, factories, builds, errors, literal, literals>>

CollectTrait ==
  /\ InBody /\ ThisBlock.kind = "trait"
  /\ IF ThisBlock.name \in DOMAIN def.traits
     THEN /\ errors' = errors \union {<<"trait twice", ThisBlock.name>>}
          /\ UNCHANGED def
     ELSE /\ def' = [def EXCEPT !.traits = With(@, ThisBlock.name, ThisBlock.fields)]
          /\ UNCHANGED errors
  /\ inner' = inner + 1
  /\ UNCHANGED <<file, stage, item, field, factories, builds, literal, literals>>

CollectFactory ==
  /\ At("collect", "factory") /\ ~Redeclared /\ inner \notin DOMAIN file[item].body
  /\ errors' = IF def.seen THEN errors ELSE errors \union {<<"no defaults", file[item].name>>}
  /\ factories' = With(factories, file[item].name, def)
  /\ item' = item + 1 /\ inner' = 1 /\ def' = NoDef
  /\ UNCHANGED <<file, stage, field, builds, literal, literals>>

CollectBuild ==
  /\ At("collect", "build")
  /\ builds' = Append(builds, file[item])
  /\ item' = item + 1
  /\ UNCHANGED <<file, stage, inner, field, def, factories, errors, literal, literals>>

Collected ==
  /\ stage = "collect" /\ item \notin DOMAIN file
  /\ stage' = "validate" /\ item' = 1
  /\ UNCHANGED <<file, inner, field, def, factories, builds, errors, literal, literals>>

(* validateFactoryUsage, for one build. *)
Unknown(b) ==
  IF b.name \notin DOMAIN factories THEN {<<"unknown factory", b.name>>}
  ELSE {<<"unknown trait", b.traits[i]>> :
          i \in {i \in DOMAIN b.traits : b.traits[i] \notin DOMAIN factories[b.name].traits}}

ValidateBuild ==
  /\ stage = "validate" /\ item \in DOMAIN builds
  /\ errors' = errors \union Unknown(builds[item])
  /\ item' = item + 1
  /\ UNCHANGED <<file, stage, inner, field, def, factories, builds, literal, literals>>

Validated ==
  /\ stage = "validate" /\ item \notin DOMAIN builds
  /\ stage' = IF errors = {} THEN "emit" ELSE "refused"
  /\ item' = 1
  /\ UNCHANGED <<file, inner, field, def, factories, builds, errors, literal, literals>>

-----------------------------------------------------------------------------
(* emitBuildExpression: defaults, then the traits in the order named, then *)
(* the overrides.                                                          *)
TraitFields(d, t) == IF t \in DOMAIN d.traits THEN d.traits[t] ELSE <<>>
Layers(d, b) ==
  [n \in 1..(Len(b.traits) + 2) |->
     CASE n = 1 -> d.defaults
       [] n = Len(b.traits) + 2 -> b.overrides
       [] OTHER -> TraitFields(d, b.traits[n - 1])]

(* Mutant: the first value of a key stays. *)
AssignOnce(lit, f) ==
  IF \E i \in DOMAIN lit : lit[i][1] = f[1] THEN lit ELSE Append(lit, f)

(* A later assignment of a key keeps its place and changes its value.      *)
Assign(lit, f) ==
  IF \E i \in DOMAIN lit : lit[i][1] = f[1]
  THEN [i \in DOMAIN lit |-> IF lit[i][1] = f[1] THEN f ELSE lit[i]]
  ELSE Append(lit, f)

Known == file[item].name \in DOMAIN factories
TheseLayers == Layers(factories[file[item].name], file[item])

Apply ==
  /\ At("emit", "build") /\ Known /\ inner \in DOMAIN TheseLayers
  /\ field \in DOMAIN TheseLayers[inner]
  /\ literal' = Assign(literal, TheseLayers[inner][field])
  /\ field' = field + 1
  /\ UNCHANGED <<file, stage, item, inner, def, factories, builds, errors, literals>>

NextLayer ==
  /\ At("emit", "build") /\ Known /\ inner \in DOMAIN TheseLayers
  /\ field \notin DOMAIN TheseLayers[inner]
  /\ inner' = inner + 1 /\ field' = 1
  /\ UNCHANGED <<file, stage, item, def, factories, builds, errors, literal, literals>>

EmitBuild ==
  /\ At("emit", "build") /\ (Known => inner \notin DOMAIN TheseLayers)
  /\ literals' = With(literals, item, literal)
  /\ item' = item + 1 /\ inner' = 1 /\ literal' = <<>>
  /\ UNCHANGED <<file, stage, field, def, factories, builds, errors>>

(* A collected factory leaves nothing behind. *)
EmitFactory ==
  /\ At("emit", "factory")
  /\ item' = item + 1
  /\ UNCHANGED <<file, stage, inner, field, def, factories, builds, errors, literal, literals>>

Emitted ==
  /\ stage = "emit" /\ item \notin DOMAIN file
  /\ stage' = "done"
  /\ UNCHANGED <<file, item, inner, field, def, factories, builds, errors, literal, literals>>

FactoriesNext ==
  \/ BeginFile \/ RefuseFactory \/ CollectDefaults \/ CollectTrait \/ CollectFactory
  \/ CollectBuild \/ Collected \/ ValidateBuild \/ Validated
  \/ Apply \/ NextLayer \/ EmitBuild \/ EmitFactory \/ Emitted

FactoriesSpec == FactoriesInit /\ [][FactoriesNext]_factoryVars

-----------------------------------------------------------------------------
(* The properties read the file, not what the walks made of it.            *)
Declares(i, name) == i \in DOMAIN file /\ file[i].kind = "factory" /\ file[i].name = name
IsDefaults(body, j) == j \in DOMAIN body /\ body[j].kind = "defaults"
IsTrait(body, j, name) == j \in DOMAIN body /\ body[j].kind = "trait" /\ body[j].name = name

WrongFactory(i) ==
  \/ \E j \in DOMAIN file : j # i /\ Declares(j, file[i].name)
  \/ \A j \in DOMAIN file[i].body : ~IsDefaults(file[i].body, j)
  \/ \E j, k \in DOMAIN file[i].body :
       j # k /\ IsTrait(file[i].body, j, file[i].body[j].name)
             /\ IsTrait(file[i].body, k, file[i].body[j].name)
WrongBuild(i) ==
  \/ \A d \in DOMAIN file : ~Declares(d, file[i].name)
  \/ \E n \in DOMAIN file[i].traits : \A d \in DOMAIN file :
       Declares(d, file[i].name) =>
         \A j \in DOMAIN file[d].body : ~IsTrait(file[d].body, j, file[i].traits[n])
Wrong(i) == IF file[i].kind = "factory" THEN WrongFactory(i) ELSE WrongBuild(i)

(* A file is refused exactly when one of its items is wrong: a factory     *)
(* declared twice, without defaults or with two traits of a name, a build  *)
(* of a factory or of a trait that no declaration of the file, before the  *)
(* build or after it, provides.  (collectFactoryDecl, validateFactoryUsage.) *)
Refusals ==
  stage \in {"emit", "done", "refused"} =>
    (stage = "refused" <=> \E i \in DOMAIN file : Wrong(i))

(* The layers of a build, from the outermost to the innermost: the last    *)
(* defaults block of its factory, its traits, what it sets itself.         *)
IsLast(body, j) == IsDefaults(body, j) /\ \A k \in DOMAIN body : IsDefaults(body, k) => k <= j
Layered(body, b) ==
  [n \in 1..(Len(b.traits) + 2) |->
     CASE n = 1 -> body[CHOOSE j \in DOMAIN body : IsLast(body, j)].fields
       [] n = Len(b.traits) + 2 -> b.overrides
       [] OTHER -> body[CHOOSE j \in DOMAIN body : IsTrait(body, j, b.traits[n - 1])].fields]

(* The literal has every key of its layers, each once (Go rejects a field  *)
(* set twice), and with the value set last.                                *)
Resolves(lit, layers) ==
  /\ \A n \in DOMAIN layers : \A k \in DOMAIN layers[n] :
       \E i \in DOMAIN lit : lit[i][1] = layers[n][k][1]
  /\ \A i, j \in DOMAIN lit : i # j => lit[i][1] # lit[j][1]
  /\ \A i \in DOMAIN lit : \E n \in DOMAIN layers : \E k \in DOMAIN layers[n] :
       /\ lit[i] = layers[n][k]
       /\ \A m \in DOMAIN layers : \A j \in DOMAIN layers[m] :
            m > n \/ (m = n /\ j > k) => layers[m][j][1] # lit[i][1]

(* What is not refused is resolved: every build becomes a literal with the *)
(* keys of all its layers, and with the value of the innermost layer that  *)
(* sets the key: the overrides, else the last trait named, else the        *)
(* defaults.  (emitBuildExpression.)                                       *)
BuildResolves ==
  /\ Refusals
  /\ stage = "done" =>
       \A n \in DOMAIN file : file[n].kind = "build" =>
         /\ n \in DOMAIN literals
         /\ \A d \in DOMAIN file :
              Declares(d, file[n].name) => Resolves(literals[n], Layered(file[d].body, file[n]))
=============================================================================
