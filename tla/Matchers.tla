------------------------------ MODULE Matchers ------------------------------
(***************************************************************************)
(* The matchers of `eventually`, `consistently` and `property` blocks: the *)
(* Go helpers that transpile_fixtures.go:743-1019 puts into a generated    *)
(* file.  An integer has Width bits and a float Precision significant ones *)
(* (64 and 53 in Go), so that converting one to the other rounds.  One     *)
(* call is one behaviour, with a step per element or key.                  *)
(***************************************************************************)
EXTENDS Integers, Sequences, FiniteSets

CONSTANTS
  Width, Precision, \* of an integer and of a float
  Calls             \* [op, expected, actual] of the calls made

VARIABLES
  call,    \* the call, its op "idle" while there is none
  next,    \* the expected element or key that comes next
  used,    \* unordered_equal: the indices of actual already paired
  verdict  \* "none", "yes", "no" or "panic"

matcherVars == <<call, next, used, verdict>>

(* A value is what reflect sees of it; the int types compare alike (757).  *)
Nil == [kind |-> "nil"]
Signed(n) == [kind |-> "int", val |-> n]
Unsigned(n) == [kind |-> "uint", val |-> n]
Float(n) == [kind |-> "float", val |-> n]
Text(s) == [kind |-> "string", val |-> s]
Slice(s) == [kind |-> "slice", val |-> s]
Map(f) == [kind |-> "map", val |-> f]
Struct(f, hidden) == [kind |-> "struct", val |-> f, hidden |-> hidden]
Pointer(v) == [kind |-> "pointer", val |-> v]
NilSlice == [kind |-> "nil slice"]
NilMap == [kind |-> "nil map"]
NilPointer == [kind |-> "nil pointer"]

(* What `matches` may ask of a field instead of a value.                   *)
Contained(v) == [kind |-> "must contain", val |-> v]
MustBeNil == [kind |-> "must be nil"]
MustNotBeNil == [kind |-> "must not be nil"]

(* The calls made are written in Go: slices and key lists are sequences,   *)
(* and a number is one its type has.                                       *)
ElementsOf(v) == IF v.kind = "slice" THEN {v.val[i] : i \in DOMAIN v.val} ELSE {v}
IsSequence(s) == Len(s) \in Nat /\ DOMAIN s = 1..Len(s)
InRange(v) ==
  /\ v.kind \in {"int", "uint", "float"} => v.val \in Int
  /\ v.kind = "int" => -(2^Width) <= 2 * v.val /\ 2 * v.val < 2^Width
  /\ v.kind = "uint" => 0 <= v.val /\ v.val < 2^Width
IsValue(v) == (v.kind = "slice" => IsSequence(v.val)) /\ \A x \in ElementsOf(v) : InRange(x)
IsCall(c) ==
  /\ DOMAIN c = {"op", "expected", "actual"} /\ c.op \in {"equal", "contains", "unordered", "matches"}
  /\ IF c.op = "matches" THEN IsSequence(c.expected) ELSE IsValue(c.expected) /\ IsValue(c.actual)

ASSUME MatchersAssumption ==
  /\ Width \in Nat \ {0} /\ Precision \in Nat \ {0} /\ 2^Width \in Nat \ {0}
  /\ \A c \in Calls : IsCall(c)

MatchersInit ==
  /\ call = [op |-> "idle"] /\ next = 1 /\ used = {} /\ verdict = "none"

-----------------------------------------------------------------------------
(* float64(n): the nearest number of Precision bits, ties to even.         *)
Bits(n) == CHOOSE b \in 0..(Width + 1) : n < 2^b /\ (b = 0 \/ 2^(b - 1) <= n)
Round(n) ==
  LET unit == IF Bits(n) > Precision THEN 2^(Bits(n) - Precision) ELSE 1
      q == n \div unit
      up == 2 * (n % unit) > unit \/ (2 * (n % unit) = unit /\ q % 2 = 1)
  IN unit * (IF up THEN q + 1 ELSE q)
ToFloat(n) == IF n < 0 THEN -Round(-n) ELSE Round(n)

ToUnsigned(n) == n % 2^Width

Numeric(v) == v.kind \in {"int", "uint", "float"}

(* Mutant: the sign is not looked at. *)
NumericEqualUnguarded(e, a) ==
  IF "float" \in {e.kind, a.kind} THEN ToFloat(e.val) = ToFloat(a.val)
  ELSE ToUnsigned(e.val) = ToUnsigned(a.val)

(* danmujiNumericEqual; a float's value is one ToFloat leaves alone.       *)
NumericEqual(e, a) ==
  CASE "float" \in {e.kind, a.kind} -> ToFloat(e.val) = ToFloat(a.val)
    [] e.kind = a.kind /\ e.kind # "float" -> e.val = a.val
    [] e.kind = "int" /\ a.kind = "uint" -> e.val >= 0 /\ ToUnsigned(e.val) = a.val
    [] e.kind = "uint" /\ a.kind = "int" -> a.val >= 0 /\ e.val = ToUnsigned(a.val)

(* danmujiDeepEqual: the same, or numbers that compare equal.              *)
DeepEqual(e, a) ==
  \/ Numeric(e) /\ Numeric(a) /\ NumericEqual(e, a)
  \/ e.kind = a.kind /\ ~Numeric(e) /\ e = a

Infix(needle, s) ==
  \E i \in 0..(Len(s) - Len(needle)) : \A j \in DOMAIN needle : s[i + j] = needle[j]

(* danmujiContains: the key of a map has to be of its type (a panic is     *)
(* recovered), an element of a slice only to be equal.                     *)
HasElement(actual, e) ==
  CASE e.kind = "nil" -> FALSE
    [] actual.kind = "string" -> e.kind = "string" /\ Infix(e.val, actual.val)
    [] actual.kind = "slice" -> \E i \in DOMAIN actual.val : DeepEqual(actual.val[i], e)
    [] actual.kind = "map" -> e.kind = "string" /\ e.val \in DOMAIN actual.val
    [] OTHER -> FALSE

Nilish(v) == v.kind \in {"nil", "nil slice", "nil map", "nil pointer"}

(* danmujiMatchValue *)
Satisfies(v, spec) ==
  CASE spec.kind = "must contain" -> HasElement(v, spec.val)
    [] spec.kind = "must be nil" -> Nilish(v)
    [] spec.kind = "must not be nil" -> ~Nilish(v)
    [] OTHER -> DeepEqual(spec, v)

-----------------------------------------------------------------------------
Asked(op) == call.op = op /\ verdict = "none"
Answer(v) == verdict' = v /\ UNCHANGED <<call, next, used>>
YesIf(b) == IF b THEN "yes" ELSE "no"

Ask ==
  /\ call.op = "idle"
  /\ call' \in Calls
  /\ UNCHANGED <<next, used, verdict>>

Equal == Asked("equal") /\ Answer(YesIf(DeepEqual(call.expected, call.actual)))
ContainsElement ==
  Asked("contains") /\ Answer(YesIf(HasElement(call.actual, call.expected)))

(* danmujiUnorderedEqualDetail: a nil slice is a slice of no elements.     *)
IsSlice(v) == v.kind \in {"slice", "nil slice"}
Elements(v) == IF v.kind = "slice" THEN v.val ELSE <<>>
Comparable ==
  /\ IsSlice(call.expected) /\ IsSlice(call.actual)
  /\ Len(Elements(call.expected)) = Len(Elements(call.actual))

Refuse ==
  /\ Asked("unordered") /\ next = 1
  /\ ~Comparable
  /\ Answer(YesIf(call.expected.kind = "nil" /\ call.actual.kind = "nil"))

(* Mutant: an element may be paired twice. *)
AnyCandidate ==
  {j \in DOMAIN call.actual.val : DeepEqual(call.expected.val[next], call.actual.val[j])}

Candidates ==
  {j \in DOMAIN call.actual.val : j \notin used /\
     DeepEqual(call.expected.val[next], call.actual.val[j])}

PairElement ==
  /\ Asked("unordered") /\ Comparable /\ next \in DOMAIN Elements(call.expected)
  /\ IF Candidates = {} THEN Answer("no")
     ELSE /\ used' = used \union {CHOOSE j \in Candidates : \A k \in Candidates : j <= k}
          /\ next' = next + 1
          /\ UNCHANGED <<call, verdict>>

AllPaired ==
  /\ Asked("unordered") /\ Comparable /\ next \notin DOMAIN Elements(call.expected)
  /\ Answer("yes")

(* danmujiPartialMatch: pointers are followed; the keys, a sequence of     *)
(* <<key, spec>>, come sorted.                                             *)
FollowPointer ==
  /\ Asked("matches") /\ call.actual.kind = "pointer"
  /\ call' = [call EXCEPT !.actual = @.val]
  /\ UNCHANGED <<next, used, verdict>>

NothingThere ==
  /\ Asked("matches") /\ call.actual.kind \in {"nil", "nil pointer"}
  /\ Answer("no")

Target == call.actual
Key == call.expected[next][1]
HasField(v, key) == v.kind \in {"struct", "map"} /\ key \in DOMAIN v.val
Hidden(v, key) == v.kind = "struct" /\ key \in v.hidden  \* Interface() panics

(* Mutant: a field that is not there is passed over. *)
KeyVerdictIfThere ==
  CASE ~HasField(Target, Key) -> "yes"
    [] OTHER -> YesIf(Satisfies(Target.val[Key], call.expected[next][2]))

KeyVerdict ==
  CASE ~HasField(Target, Key) -> "no"
    [] HasField(Target, Key) /\ Hidden(Target, Key) -> "panic"
    [] OTHER -> YesIf(Satisfies(Target.val[Key], call.expected[next][2]))

MatchKey ==
  /\ Asked("matches") /\ Target.kind \notin {"nil", "nil pointer", "pointer"}
  /\ next \in DOMAIN call.expected
  /\ IF KeyVerdict = "yes" THEN next' = next + 1 /\ UNCHANGED <<call, used, verdict>>
     ELSE Answer(KeyVerdict)

AllKeysMatch ==
  /\ Asked("matches") /\ Target.kind \notin {"nil", "nil pointer", "pointer"}
  /\ next \notin DOMAIN call.expected
  /\ Answer("yes")

MatchersNext ==
  \/ Ask \/ Equal \/ ContainsElement \/ Refuse \/ PairElement \/ AllPaired
  \/ FollowPointer \/ NothingThere \/ MatchKey \/ AllKeysMatch

MatchersSpec == MatchersInit /\ [][MatchersNext]_matcherVars

-----------------------------------------------------------------------------
(* The properties compare numbers as numbers.  Equality is only that where *)
(* nothing is rounded: no float is involved, or every number is one a      *)
(* float can hold.                                                         *)
Same(e, a) ==
  IF Numeric(e) /\ Numeric(a) THEN e.val = a.val ELSE e.kind = a.kind /\ e = a

Unrounded ==
  LET numbers == {v \in ElementsOf(call.expected) \union ElementsOf(call.actual) : Numeric(v)}
  IN \/ \A v \in numbers : v.kind # "float"
     \/ \A v \in numbers : ToFloat(v.val) = v.val

(* Where nothing is rounded, two numbers are equal exactly when they are   *)
(* the same number, whatever their types and their order -- a negative     *)
(* integer is never the large unsigned one with its bits --, and a slice   *)
(* contains what is the same as one of its elements.  (danmujiNumericEqual,*)
(* danmujiDeepEqual, danmujiContains.)                                     *)
EqualityIsExact ==
  /\ (call.op = "equal" /\ verdict # "none" /\ Unrounded) =>
       (verdict = "yes" <=> Same(call.expected, call.actual))
  /\ (call.op = "contains" /\ verdict # "none" /\ Unrounded /\ call.actual.kind = "slice"
       /\ call.expected.kind # "nil") =>
       (verdict = "yes" <=> \E a \in ElementsOf(call.actual) : Same(call.expected, a))

(* unordered_equal says yes only when the elements can be paired off one   *)
(* to one, each with an equal one; where nothing is rounded it says yes    *)
(* whenever they can.  (danmujiUnorderedEqualDetail takes the first equal  *)
(* element that is left; a float between two integers is equal to both.)   *)
Pairable ==
  LET e == Elements(call.expected)
      a == Elements(call.actual)
  IN /\ IsSlice(call.expected) /\ IsSlice(call.actual)
     /\ \E p \in [DOMAIN e -> DOMAIN a] :
          /\ \A i, j \in DOMAIN e : i # j => p[i] # p[j]
          /\ DOMAIN a = {p[i] : i \in DOMAIN e}
          /\ \A i \in DOMAIN e : DeepEqual(e[i], a[p[i]])

UnorderedIsPermutation ==
  (call.op = "unordered" /\ verdict # "none" /\ call.expected.kind # "nil") =>
    /\ verdict = "yes" => Pairable
    /\ (Pairable /\ Unrounded) => verdict = "yes"

(* `matches` says yes only when every key it names is a field that is      *)
(* there and satisfies what is asked of it, and no only when one is not;   *)
(* a key of an unexported field ends the test.  (danmujiPartialMatch.)     *)
Meets(key, spec) ==
  HasField(Target, key) /\ ~Hidden(Target, key) /\ Satisfies(Target.val[key], spec)

MatchesEveryKey ==
  call.op = "matches" =>
    LET asked == {call.expected[i] : i \in DOMAIN call.expected}
    IN /\ verdict = "yes" => \A k \in asked : Meets(k[1], k[2])
       /\ verdict = "no" => Nilish(Target) \/ \E k \in asked : ~Meets(k[1], k[2])
       /\ verdict = "panic" => \E k \in asked : HasField(Target, k[1]) /\ Hidden(Target, k[1])
=============================================================================
