------------------------------ MODULE DataBlocks ------------------------------
(***************************************************************************)
(* `each ... do` and `matrix ... do`: how their scenarios become the rows  *)
(* of a Go slice (transpile_data.go:13-289).  A block is read part by      *)
(* part and field by field, in the order written, and its rows are written *)
(* at the end.  A value is opaque; what matters of it in a matrix is       *)
(* whether it is a bare identifier.                                        *)
(***************************************************************************)
EXTENDS Integers, Sequences, FiniteSets

CONSTANTS
  KeyNames, \* the keys there are
  Values,   \* the values there are
  Blocks,   \* what an author may write
  Missing   \* nil, for a field nobody gives a value

VARIABLES
  block,    \* the block being emitted, <<>> while there is none
  phase,    \* "idle", "read" or "written"
  part,     \* the part that comes next
  place,    \* the field, or the value, of it that comes next
  fields,   \* each: allFields, the fields in order of appearance
  defaults, \* each: field -> value
  entry,    \* each: the fields of the scenario being read
  entries,  \* each: the fields of the scenarios read
  combos,   \* matrix: the product of the dimensions read
  combo,    \* matrix: the one that is extended next
  longer,   \* matrix: newCombos
  rows      \* the scenarios written

dataVars ==
  <<block, phase, part, place, fields, defaults, entry, entries, combos, combo, longer, rows>>

(* each: defaults and entries, made of fields <<key, value>>; matrix: one  *)
(* sequence of values for each dimension.                                  *)
EachPart == [kind : {"defaults", "entry"}, fields : Seq(KeyNames \X Values)]
MatrixField == [key : KeyNames, values : Seq([ident : BOOLEAN, val : Values])]
DataBlock ==
  [kind : {"each"}, parts : Seq(EachPart)] \union [kind : {"matrix"}, parts : Seq(MatrixField)]

ASSUME DataBlocksAssumption == Blocks \subseteq DataBlock /\ "name" \in KeyNames

Unset == [x \in {} |-> Missing]

DataInit ==
  /\ block = <<>> /\ phase = "idle" /\ part = 1 /\ place = 1
  /\ fields = <<"name">> /\ defaults = Unset /\ entry = Unset /\ entries = <<>>
  /\ combos = <<Unset>> /\ combo = 1 /\ longer = <<>>
  /\ rows = <<>>

-----------------------------------------------------------------------------
(* addField *)
AddField(fs, key) == IF \E i \in DOMAIN fs : fs[i] = key THEN fs ELSE Append(fs, key)

(* A map assignment: a key set again takes the new value. *)
Put(m, key, v) == [k \in DOMAIN m \union {key} |-> IF k = key THEN v ELSE m[k]]

Open ==
  /\ phase = "idle"
  /\ block' \in Blocks
  /\ phase' = "read"
  /\ UNCHANGED <<part, place, fields, defaults, entry, entries, combos, combo, longer, rows>>

Reading(kind) == phase = "read" /\ block.kind = kind /\ part \in DOMAIN block.parts
ThisPart == block.parts[part]
NextPart == part' = part + 1 /\ place' = 1

InPart(kind) == Reading("each") /\ ThisPart.kind = kind
ThisField == ThisPart.fields[place]
ReadField ==
  /\ place \in DOMAIN ThisPart.fields
  /\ fields' = AddField(fields, ThisField[1])
  /\ place' = place + 1

ReadDefault ==
  /\ InPart("defaults") /\ ReadField
  /\ defaults' = Put(defaults, ThisField[1], ThisField[2])
  /\ UNCHANGED <<block, phase, part, entry, entries, combos, combo, longer, rows>>

EndDefaults ==
  /\ InPart("defaults") /\ place \notin DOMAIN ThisPart.fields
  /\ NextPart
  /\ UNCHANGED <<block, phase, fields, defaults, entry, entries, combos, combo, longer, rows>>

ReadOwn ==
  /\ InPart("entry") /\ ReadField
  /\ entry' = Put(entry, ThisField[1], ThisField[2])
  /\ UNCHANGED <<block, phase, part, defaults, entries, combos, combo, longer, rows>>

(* Mutant: the next entry begins with what the defaults are by then. *)
EndEntryOver ==
  /\ InPart("entry") /\ place \notin DOMAIN ThisPart.fields
  /\ entries' = Append(entries, entry) /\ entry' = defaults
  /\ NextPart
  /\ UNCHANGED <<block, phase, fields, defaults, combos, combo, longer, rows>>

EndEntry ==
  /\ InPart("entry") /\ place \notin DOMAIN ThisPart.fields
  /\ entries' = Append(entries, entry) /\ entry' = Unset
  /\ NextPart
  /\ UNCHANGED <<block, phase, fields, defaults, combos, combo, longer, rows>>

(* One more dimension: every combination so far with every value of it,    *)
(* but a bare identifier is passed over as if it were the key (the test of *)
(* 199).                                                                   *)
ThisValue == ThisPart.values[place]
Combine ==
  /\ Reading("matrix") /\ combo \in DOMAIN combos /\ place \in DOMAIN ThisPart.values
  /\ longer' = IF ThisValue.ident THEN longer
               ELSE Append(longer, Put(combos[combo], ThisPart.key, ThisValue.val))
  /\ place' = place + 1
  /\ UNCHANGED <<block, phase, part, fields, defaults, entry, entries, combos, combo, rows>>

NextCombo ==
  /\ Reading("matrix") /\ combo \in DOMAIN combos /\ place \notin DOMAIN ThisPart.values
  /\ combo' = combo + 1 /\ place' = 1
  /\ UNCHANGED <<block, phase, part, fields, defaults, entry, entries, combos, longer, rows>>

EndDimension ==
  /\ Reading("matrix") /\ combo \notin DOMAIN combos
  /\ combos' = longer /\ longer' = <<>> /\ combo' = 1
  /\ NextPart
  /\ UNCHANGED <<block, phase, fields, defaults, entry, entries, rows>>

(* A field of a scenario: its own, the default, a name by position, nil.   *)
Value(i, f) ==
  CASE f \in DOMAIN entries[i] -> entries[i][f]
    [] f \notin DOMAIN entries[i] /\ f \in DOMAIN defaults -> defaults[f]
    [] f \notin DOMAIN entries[i] \union DOMAIN defaults /\ f = "name" -> <<"scenario", i>>
    [] OTHER -> Missing

WriteRows ==
  /\ phase = "read" /\ block.kind = "each" /\ part \notin DOMAIN block.parts
  /\ phase' = "written"
  /\ rows' = [i \in DOMAIN entries |-> [f \in {fields[n] : n \in DOMAIN fields} |-> Value(i, f)]]
  /\ UNCHANGED <<block, part, place, fields, defaults, entry, entries, combos, combo, longer>>

WriteCombos ==
  /\ phase = "read" /\ block.kind = "matrix" /\ part \notin DOMAIN block.parts
  /\ phase' = "written"
  /\ rows' = combos
  /\ UNCHANGED <<block, part, place, fields, defaults, entry, entries, combos, combo, longer>>

DataNext ==
  \/ Open \/ ReadDefault \/ EndDefaults \/ ReadOwn \/ EndEntry
  \/ Combine \/ NextCombo \/ EndDimension \/ WriteRows \/ WriteCombos

DataSpec == DataInit /\ [][DataNext]_dataVars

-----------------------------------------------------------------------------
(* What the parts of the block give a key. *)
PartsOf(kind) == {p \in DOMAIN block.parts : block.parts[p].kind = kind}
Keys(p) == {block.parts[p].fields[n][1] : n \in DOMAIN block.parts[p].fields}
GivesLast(p, key, v) ==
  \E n \in DOMAIN block.parts[p].fields :
    /\ block.parts[p].fields[n] = <<key, v>>
    /\ \A m \in DOMAIN block.parts[p].fields : m > n => block.parts[p].fields[m][1] # key

HasDefault(key) == \E p \in PartsOf("defaults") : key \in Keys(p)
IsDefault(key, v) ==
  \E p \in PartsOf("defaults") :
    GivesLast(p, key, v) /\ \A q \in PartsOf("defaults") : q > p => key \notin Keys(q)

RowOf(p) == Cardinality({q \in PartsOf("entry") : q <= p})

(* README.md:346: "Each entry inherits from `defaults` and only specifies  *)
(* what changes."  Every entry becomes a row of its own, in order, with    *)
(* the same fields; a field has the entry's own value, and without one the *)
(* default, wherever in the block the defaults stand.  (emitEachDo.)       *)
DefaultsReachAll ==
  (phase = "written" /\ block.kind = "each") =>
    /\ Len(rows) = Cardinality(PartsOf("entry"))
    /\ \A p \in PartsOf("entry") :
         LET row == rows[RowOf(p)]
         IN /\ DOMAIN row = {"name"} \union UNION {Keys(q) : q \in DOMAIN block.parts}
            /\ \A f \in DOMAIN row :
                 CASE f \in Keys(p) -> GivesLast(p, f, row[f])
                   [] f \notin Keys(p) /\ HasDefault(f) -> IsDefault(f, row[f])
                   [] OTHER -> row[f] = IF f = "name" THEN <<"scenario", RowOf(p)>> ELSE Missing

(* README.md:413: "Cartesian product of all dimensions."  Every choice of  *)
(* one written value per dimension is a row, exactly once.  (A key twice   *)
(* does not compile, a value written twice is a row written twice.)        *)
(* The code breaks it: a value that is a bare identifier is passed over    *)
(* with the key, and a dimension of such values leaves no rows at all      *)
(* (emitMatrix, transpile_data.go:199).                                    *)
Offered(d) ==
  LET vs == block.parts[d].values IN {vs[n].val : n \in DOMAIN vs}
Once(d) ==
  /\ \A e \in DOMAIN block.parts : e # d => block.parts[e].key # block.parts[d].key
  /\ \A n, m \in DOMAIN block.parts[d].values :
       n # m => block.parts[d].values[n].val # block.parts[d].values[m].val
MatrixIsProduct ==
  (phase = "written" /\ block.kind = "matrix" /\ \A d \in DOMAIN block.parts : Once(d)) =>
    /\ {rows[i] : i \in DOMAIN rows} =
         {r \in [{block.parts[d].key : d \in DOMAIN block.parts} ->
                  UNION {Offered(d) : d \in DOMAIN block.parts}] :
            \A d \in DOMAIN block.parts : r[block.parts[d].key] \in Offered(d)}
    /\ \A i, j \in DOMAIN rows : i # j => rows[i] # rows[j]

HasIdentifier(d) == \E n \in DOMAIN block.parts[d].values : block.parts[d].values[n].ident

(* The rows of a table-driven block are the scenarios its author asked     *)
(* for, in either form of the block: none lost, doubled or mixed up; in a  *)
(* matrix, as long as none of its values is a bare identifier.             *)
RowsAreWritten ==
  /\ DefaultsReachAll
  /\ MatrixIsProduct \/ \E d \in DOMAIN block.parts : HasIdentifier(d)
=============================================================================
