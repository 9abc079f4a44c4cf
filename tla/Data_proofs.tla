----------------------------- MODULE Data_proofs -----------------------------
(***************************************************************************)
(* Theorems about what a generated file makes of the data an author        *)
(* writes: the verdicts of the matchers, for any values, slices and lists  *)
(* of keys, the cells of a table, the literals of the factories and the    *)
(* rows of the table-driven blocks, for any file.                          *)
(***************************************************************************)
EXTENDS Matchers, TableRow, Factories, DataBlocks, FiniteSetTheorems, TLAPS

(* Integers of the same sign bit convert without a change.                 *)
LEMMA ToUnsignedSame ==
  ASSUME NEW n \in Int, 0 <= n, n < 2^Width
  PROVE  ToUnsigned(n) = n
<1>1. 2^Width \in Nat \ {0}
  BY MatchersAssumption
<1> DEFINE size == 2^Width
<1>2. size \in Nat \ {0} /\ n < size
  BY <1>1
<1> HIDE DEF size
<1>3. n % size = n
  BY <1>2
<1>4. QED
  BY <1>3 DEF size, ToUnsigned

(* Two numbers that a float would not round, or that are no floats.        *)
ExactPair(e, a) ==
  \/ e.kind # "float" /\ a.kind # "float"
  \/ (Numeric(e) => ToFloat(e.val) = e.val) /\ (Numeric(a) => ToFloat(a.val) = a.val)

LEMMA NumbersCompare ==
  ASSUME NEW e, NEW a, InRange(e), InRange(a), ExactPair(e, a), Numeric(e), Numeric(a)
  PROVE  NumericEqual(e, a) <=> e.val = a.val
<1>0. e.val \in Int /\ a.val \in Int
  BY DEF InRange, Numeric
<1>1. CASE "float" \in {e.kind, a.kind}
  <2>1. NumericEqual(e, a) <=> ToFloat(e.val) = ToFloat(a.val)
    BY <1>1 DEF NumericEqual
  <2>2. ToFloat(e.val) = e.val /\ ToFloat(a.val) = a.val
    BY <1>1 DEF ExactPair
  <2>3. QED
    BY <2>1, <2>2
<1>2. CASE e.kind = a.kind /\ e.kind # "float"
  BY <1>2 DEF NumericEqual
<1>3. CASE e.kind = "int" /\ a.kind = "uint"
  <2>1. NumericEqual(e, a) <=> e.val >= 0 /\ ToUnsigned(e.val) = a.val
    BY <1>3 DEF NumericEqual
  <2>2. e.val >= 0 => ToUnsigned(e.val) = e.val
    <3>1. e.val >= 0 => e.val < 2^Width
      BY <1>0, <1>3, MatchersAssumption DEF InRange
    <3>2. QED
      BY <1>0, <3>1, ToUnsignedSame
  <2>3. 0 <= a.val
    BY <1>3 DEF InRange
  <2>4. QED
    BY <1>0, <2>1, <2>2, <2>3
<1>4. CASE e.kind = "uint" /\ a.kind = "int"
  <2>1. NumericEqual(e, a) <=> a.val >= 0 /\ e.val = ToUnsigned(a.val)
    BY <1>4 DEF NumericEqual
  <2>2. a.val >= 0 => ToUnsigned(a.val) = a.val
    <3>1. a.val >= 0 => a.val < 2^Width
      BY <1>0, <1>4, MatchersAssumption DEF InRange
    <3>2. QED
      BY <1>0, <3>1, ToUnsignedSame
  <2>3. 0 <= e.val
    BY <1>4 DEF InRange
  <2>4. QED
    BY <1>0, <2>1, <2>2, <2>3
<1>5. QED
  BY <1>1, <1>2, <1>3, <1>4 DEF Numeric

LEMMA EqualIsSame ==
  ASSUME NEW e, NEW a, InRange(e), InRange(a), ExactPair(e, a)
  PROVE  DeepEqual(e, a) <=> Same(e, a)
<1>1. CASE Numeric(e) /\ Numeric(a)
  <2>1. NumericEqual(e, a) <=> e.val = a.val
    BY <1>1, NumbersCompare
  <2>2. QED
    BY <1>1, <2>1 DEF DeepEqual, Same
<1>2. CASE ~(Numeric(e) /\ Numeric(a))
  <2>1. e.kind = a.kind => (Numeric(e) <=> Numeric(a))
    BY DEF Numeric
  <2>2. QED
    BY <1>2, <2>1 DEF DeepEqual, Same
<1>3. QED
  BY <1>1, <1>2

(* What Unrounded says of any two of the elements that are compared.       *)
LEMMA UnroundedPair ==
  ASSUME Unrounded,
         NEW e \in ElementsOf(call.expected) \union ElementsOf(call.actual),
         NEW a \in ElementsOf(call.expected) \union ElementsOf(call.actual)
  PROVE  ExactPair(e, a)
<1>1. CASE \A v \in ElementsOf(call.expected) \union ElementsOf(call.actual) : Numeric(v) => v.kind # "float"
  BY <1>1 DEF ExactPair, Numeric
<1>2. CASE \A v \in ElementsOf(call.expected) \union ElementsOf(call.actual) : Numeric(v) => ToFloat(v.val) = v.val
  BY <1>2 DEF ExactPair
<1>3. QED
  BY <1>1, <1>2 DEF Unrounded

(***************************************************************************)
(* One question, one answer: `equal` and `contains`.                       *)
(***************************************************************************)

(* The call is one of those made, but for the pointers `matches` has       *)
(* followed in it.                                                         *)
CallMade ==
  \/ call.op = "idle" /\ verdict = "none"
  \/ call.op = "matches" /\ DOMAIN call = {"op", "expected", "actual"} /\ IsSequence(call.expected)
  \/ call.op # "matches" /\ call \in Calls

Answered ==
  /\ call.op = "equal" /\ verdict # "none" => verdict = YesIf(DeepEqual(call.expected, call.actual))
  /\ call.op = "contains" /\ verdict # "none" => verdict = YesIf(HasElement(call.actual, call.expected))

CallInv == CallMade /\ Answered /\ next \in Nat \ {0} /\ (call.op = "idle" => next = 1 /\ used = {})

LEMMA InitCall == MatchersInit => CallInv
BY DEF MatchersInit, CallInv, CallMade, Answered

LEMMA StepCall == CallInv /\ [MatchersNext]_matcherVars => CallInv'
<1> SUFFICES ASSUME CallInv, [MatchersNext]_matcherVars
             PROVE  CallInv'
  OBVIOUS
<1> USE DEF CallInv, CallMade, Answered
<1>1. CASE Ask
  <2>1. call' \in Calls /\ UNCHANGED <<next, used, verdict>> /\ call.op = "idle"
    BY <1>1 DEF Ask
  <2>2. verdict = "none"
    BY <2>1, MatchersAssumption DEF IsCall
  <2>3. IsCall(call')
    BY <2>1, MatchersAssumption
  <2>4. QED
    BY <2>1, <2>2, <2>3 DEF IsCall
<1>2. CASE Equal \/ ContainsElement
  BY <1>2 DEF Equal, ContainsElement, Asked, Answer
<1>3. CASE Refuse \/ PairElement \/ AllPaired
  BY <1>3 DEF Refuse, PairElement, AllPaired, Asked, Answer
<1>4. CASE FollowPointer
  <2>1. DOMAIN call = {"op", "expected", "actual"} /\ call.op = "matches"
    BY <1>4 DEF FollowPointer, Asked
  <2>2. call'.op = "matches" /\ call'.expected = call.expected /\ DOMAIN call' = DOMAIN call
    BY <1>4, <2>1 DEF FollowPointer
  <2>3. QED
    BY <1>4, <2>1, <2>2 DEF FollowPointer
<1>5. CASE NothingThere \/ AllKeysMatch
  BY <1>5 DEF NothingThere, AllKeysMatch, Asked, Answer
<1>6. CASE MatchKey
  <2>1. call' = call /\ used' = used /\ call.op = "matches"
    BY <1>6 DEF MatchKey, Asked, Answer
  <2>2. next' = next \/ next' = next + 1
    BY <1>6 DEF MatchKey, Answer
  <2>3. QED
    BY <2>1, <2>2
<1>7. CASE UNCHANGED matcherVars
  BY <1>7 DEF matcherVars
<1>8. QED
  BY <1>1, <1>2, <1>3, <1>4, <1>5, <1>6, <1>7 DEF MatchersNext

LEMMA ElementsInRange ==
  ASSUME CallInv, call.op \in {"equal", "contains", "unordered"}
  PROVE  /\ IsValue(call.expected) /\ IsValue(call.actual)
         /\ \A x \in ElementsOf(call.expected) \union ElementsOf(call.actual) : InRange(x)
BY MatchersAssumption DEF CallInv, CallMade, IsCall, IsValue

(* Numbers of any types are equal exactly when they are the same number,   *)
(* and a slice contains exactly what is the same as one of its elements,   *)
(* for any width of integers and precision of floats, where nothing is     *)
(* rounded (danmujiNumericEqual, danmujiDeepEqual, danmujiContains).       *)
THEOREM EqualityHolds == MatchersSpec => []EqualityIsExact
<1>1. CallInv => EqualityIsExact
  <2> SUFFICES ASSUME CallInv
               PROVE  EqualityIsExact
    OBVIOUS
  <2>1. ASSUME call.op = "equal", verdict # "none", Unrounded
        PROVE  verdict = "yes" <=> Same(call.expected, call.actual)
    <3>1. verdict = YesIf(DeepEqual(call.expected, call.actual))
      BY <2>1 DEF CallInv, Answered
    <3>2. DeepEqual(call.expected, call.actual) <=> Same(call.expected, call.actual)
      <4>1. CASE call.expected.kind # "slice" /\ call.actual.kind # "slice"
        <5>1. call.expected \in ElementsOf(call.expected) /\ call.actual \in ElementsOf(call.actual)
          BY <4>1 DEF ElementsOf
        <5>2. QED
          BY <2>1, <5>1, UnroundedPair, ElementsInRange, EqualIsSame
      <4>2. CASE ~(call.expected.kind # "slice" /\ call.actual.kind # "slice")
        BY <4>2 DEF DeepEqual, Same, Numeric
      <4>3. QED
        BY <4>1, <4>2
    <3>3. QED
      BY <3>1, <3>2 DEF YesIf
  <2>2. ASSUME call.op = "contains", verdict # "none", Unrounded, call.actual.kind = "slice",
               call.expected.kind # "nil"
        PROVE  verdict = "yes" <=> \E a \in ElementsOf(call.actual) : Same(call.expected, a)
    <3>1. verdict = YesIf(HasElement(call.actual, call.expected))
      BY <2>2 DEF CallInv, Answered
    <3>2. HasElement(call.actual, call.expected)
            <=> \E i \in DOMAIN call.actual.val : DeepEqual(call.actual.val[i], call.expected)
      BY <2>2 DEF HasElement
    <3>3. ASSUME NEW a \in ElementsOf(call.actual)
          PROVE  DeepEqual(a, call.expected) <=> Same(call.expected, a)
      <4>1. Same(call.expected, a) <=> Same(a, call.expected)
        BY DEF Same
      <4>2. CASE call.expected.kind # "slice"
        <5>1. call.expected \in ElementsOf(call.expected)
          BY <4>2 DEF ElementsOf
        <5>2. ExactPair(a, call.expected)
          BY <2>2, <5>1, UnroundedPair
        <5>3. InRange(a) /\ InRange(call.expected)
          BY <2>2, <5>1, ElementsInRange
        <5>4. QED
          BY <4>1, <5>2, <5>3, EqualIsSame
      <4>3. CASE call.expected.kind = "slice"
        BY <4>3 DEF DeepEqual, Same, Numeric
      <4>4. QED
        BY <4>2, <4>3
    <3>4. ElementsOf(call.actual) = {call.actual.val[i] : i \in DOMAIN call.actual.val}
      BY <2>2 DEF ElementsOf
    <3>5. QED
      BY <3>1, <3>2, <3>3, <3>4 DEF YesIf
  <2>3. QED
    BY <2>1, <2>2 DEF EqualityIsExact
<1>2. QED
  BY <1>1, InitCall, StepCall, PTL DEF MatchersSpec

(***************************************************************************)
(* `matches`, a key at a time.                                             *)
(***************************************************************************)

Pair(n) == call.expected[n]

(* Every key before the next one has been met by the value the pointers    *)
(* lead to; as long as there is a pointer to follow, none has been asked.  *)
KeysMet ==
  call.op = "matches" =>
    /\ call.actual.kind = "pointer" => next = 1
    /\ next <= Len(call.expected) + 1
    /\ verdict \in {"none", "yes"} => \A n \in 1..(next - 1) : Meets(Pair(n)[1], Pair(n)[2])
    /\ verdict = "yes" => next = Len(call.expected) + 1
    /\ verdict = "no" => Nilish(Target) \/ \E n \in DOMAIN call.expected : ~Meets(Pair(n)[1], Pair(n)[2])
    /\ verdict = "panic" => \E n \in DOMAIN call.expected : HasField(Target, Pair(n)[1]) /\ Hidden(Target, Pair(n)[1])

(* What KeyVerdict says of the key that comes next. *)
LEMMA KeyAsked ==
  /\ KeyVerdict = "yes" <=> Meets(Pair(next)[1], Pair(next)[2])
  /\ KeyVerdict = "panic" => HasField(Target, Pair(next)[1]) /\ Hidden(Target, Pair(next)[1])
  /\ KeyVerdict \in {"yes", "no", "panic"}
<1>1. CASE ~HasField(Target, Key)
  BY <1>1 DEF KeyVerdict, Meets, Pair, Key
<1>2. CASE HasField(Target, Key) /\ Hidden(Target, Key)
  BY <1>2 DEF KeyVerdict, Meets, Pair, Key
<1>3. CASE HasField(Target, Key) /\ ~Hidden(Target, Key)
  <2>1. KeyVerdict = YesIf(Satisfies(Target.val[Key], call.expected[next][2]))
    BY <1>3 DEF KeyVerdict
  <2>2. QED
    BY <1>3, <2>1 DEF Meets, Pair, Key, YesIf
<1>4. QED
  BY <1>1, <1>2, <1>3

LEMMA InitKeys == MatchersInit => KeysMet
BY DEF MatchersInit, KeysMet

LEMMA StepKeys == CallInv /\ KeysMet /\ [MatchersNext]_matcherVars => KeysMet'
<1> SUFFICES ASSUME CallInv, KeysMet, [MatchersNext]_matcherVars
             PROVE  KeysMet'
  OBVIOUS
<1>t. /\ next \in Nat \ {0} /\ (call.op = "idle" => next = 1 /\ verdict = "none")
      /\ call.op = "matches" => /\ IsSequence(call.expected) /\ Len(call.expected) \in Nat
                                /\ DOMAIN call.expected = 1..Len(call.expected)
                                /\ DOMAIN call = {"op", "expected", "actual"}
  BY MatchersAssumption DEF CallInv, CallMade, IsSequence, IsCall
<1>1. CASE Ask
  <2>1. call' \in Calls /\ next' = 1 /\ verdict' = "none"
    BY <1>1, <1>t DEF Ask
  <2>2. IsCall(call')
    BY <2>1, MatchersAssumption
  <2>3. call'.op = "matches" => Len(call'.expected) \in Nat
    BY <2>2 DEF IsCall, IsSequence
  <2>4. QED
    BY <2>1, <2>3 DEF KeysMet
<1>2. CASE UNCHANGED <<call, next, verdict>> \/ (call' = call /\ call.op # "matches")
  BY <1>2 DEF KeysMet, Meets, HasField, Hidden, Target, Pair
<1>3. CASE Equal \/ ContainsElement \/ Refuse \/ PairElement \/ AllPaired
  <2>1. call' = call /\ call.op # "matches"
    BY <1>3 DEF Equal, ContainsElement, Refuse, PairElement, AllPaired, Asked, Answer
  <2>2. QED
    BY <1>2, <2>1
<1>4. CASE FollowPointer
  <2>1. /\ call.op = "matches" /\ next = 1 /\ verdict = "none" /\ next' = 1 /\ verdict' = "none"
        /\ Len(call.expected) \in Nat
    BY <1>4, <1>t DEF FollowPointer, Asked, KeysMet
  <2>2. call'.expected = call.expected
    BY <1>4, <1>t, <2>1 DEF FollowPointer
  <2>3. QED
    BY <2>1, <2>2 DEF KeysMet
<1>5. CASE NothingThere
  <2>1. call' = call /\ next' = next /\ verdict' = "no" /\ Nilish(Target) /\ verdict = "none"
    BY <1>5 DEF NothingThere, Asked, Answer, Nilish, Target
  <2>2. Nilish(Target)'
    BY <2>1 DEF Nilish, Target
  <2>3. QED
    BY <2>1, <2>2 DEF KeysMet
<1>6. CASE MatchKey
  <2>1. /\ call.op = "matches" /\ verdict = "none" /\ call' = call /\ next \in DOMAIN call.expected
        /\ call.actual.kind # "pointer"
    BY <1>6 DEF MatchKey, Asked, Answer, Target
  <2>2. \A n : /\ Meets(Pair(n)[1], Pair(n)[2])' <=> Meets(Pair(n)[1], Pair(n)[2])
               /\ HasField(Target, Pair(n)[1])' <=> HasField(Target, Pair(n)[1])
               /\ Hidden(Target, Pair(n)[1])' <=> Hidden(Target, Pair(n)[1])
    BY <2>1 DEF Meets, HasField, Hidden, Target, Pair
  <2>3. CASE KeyVerdict = "yes"
    <3>1. next' = next + 1 /\ verdict' = verdict
      BY <1>6, <2>3 DEF MatchKey
    <3>2. Meets(Pair(next)[1], Pair(next)[2])
      BY <2>3, KeyAsked
    <3>3. \A n \in 1..next : Meets(Pair(n)[1], Pair(n)[2])
      BY <1>t, <2>1, <3>2 DEF KeysMet
    <3>4. next' <= Len(call.expected) + 1 /\ next' - 1 = next
      BY <1>t, <2>1, <3>1
    <3>5. \A n \in 1..(next' - 1) : Meets(Pair(n)[1], Pair(n)[2])'
      BY <2>2, <3>3, <3>4
    <3>6. verdict' = "none" /\ call'.actual.kind # "pointer"
      BY <2>1, <3>1
    <3>7. QED
      BY <2>1, <3>4, <3>5, <3>6 DEF KeysMet
  <2>4. CASE KeyVerdict # "yes"
    <3>1. next' = next /\ verdict' = KeyVerdict /\ verdict' \in {"no", "panic"}
      BY <1>6, <2>4, KeyAsked DEF MatchKey, Answer
    <3>2. ~Meets(Pair(next)[1], Pair(next)[2])
      BY <2>4, KeyAsked
    <3>3. verdict' = "panic" => HasField(Target, Pair(next)[1]) /\ Hidden(Target, Pair(next)[1])
      BY <3>1, KeyAsked
    <3>4. \E n \in DOMAIN call.expected : ~Meets(Pair(n)[1], Pair(n)[2])
      BY <2>1, <3>2
    <3>5. verdict' = "panic" => \E n \in DOMAIN call.expected : HasField(Target, Pair(n)[1]) /\ Hidden(Target, Pair(n)[1])
      BY <2>1, <3>3
    <3>6. next <= Len(call.expected) + 1
      BY <2>1 DEF KeysMet
    <3>7. QED
      BY <2>1, <2>2, <3>1, <3>4, <3>5, <3>6 DEF KeysMet
  <2>5. QED
    BY <2>3, <2>4
<1>7. CASE AllKeysMatch
  <2>1. /\ call.op = "matches" /\ verdict = "none" /\ call' = call /\ next' = next /\ verdict' = "yes"
        /\ next \notin DOMAIN call.expected
    BY <1>7 DEF AllKeysMatch, Asked, Answer
  <2>2. next = Len(call.expected) + 1
    BY <1>t, <2>1 DEF KeysMet
  <2>3. \A n \in 1..(next - 1) : Meets(Pair(n)[1], Pair(n)[2])'
    BY <2>1 DEF KeysMet, Meets, HasField, Hidden, Target, Pair
  <2>4. call.actual.kind = "pointer" => next = 1
    BY <2>1 DEF KeysMet
  <2>5. QED
    BY <2>1, <2>2, <2>3, <2>4 DEF KeysMet
<1>8. CASE UNCHANGED matcherVars
  BY <1>2, <1>8 DEF matcherVars
<1>9. QED
  BY <1>1, <1>3, <1>4, <1>5, <1>6, <1>7, <1>8 DEF MatchersNext

(* `matches` passes exactly on what every key asks, for any number of keys *)
(* and pointers, and ends the test only at an unexported field             *)
(* (danmujiPartialMatch).                                                  *)
THEOREM KeysAllMatch == MatchersSpec => []MatchesEveryKey
<1>1. CallInv /\ KeysMet => MatchesEveryKey
  <2> SUFFICES ASSUME CallInv, KeysMet, call.op = "matches"
               PROVE  MatchesEveryKey
    BY DEF MatchesEveryKey
  <2>1. DOMAIN call.expected = 1..Len(call.expected) /\ Len(call.expected) \in Nat
    BY MatchersAssumption DEF CallInv, CallMade, IsSequence, IsCall
  <2> DEFINE asked == {call.expected[i] : i \in DOMAIN call.expected}
  <2>2. verdict = "yes" => \A k \in asked : Meets(k[1], k[2])
    BY <2>1 DEF KeysMet, Pair
  <2>3. verdict = "no" => Nilish(Target) \/ \E k \in asked : ~Meets(k[1], k[2])
    BY DEF KeysMet, Pair
  <2>4. verdict = "panic" => \E k \in asked : HasField(Target, k[1]) /\ Hidden(Target, k[1])
    BY DEF KeysMet, Pair
  <2>5. QED
    BY <2>2, <2>3, <2>4 DEF MatchesEveryKey
<1>2. QED
  BY <1>1, InitCall, StepCall, InitKeys, StepKeys, PTL DEF MatchersSpec

(***************************************************************************)
(* `unordered_equal`, an element at a time.                                *)
(***************************************************************************)

(* A set of natural numbers that is not empty has a least one.             *)
LEMMA LeastExists ==
  ASSUME NEW S \in SUBSET Nat, S # {}
  PROVE  \E m \in S : \A k \in S : m <= k
<1> DEFINE Less == {ss \in Nat \X Nat : ss[1] < ss[2]}
<1>0. IsWellFoundedOn(Less, Nat)
  BY NatLessThanWellFounded, Zenon DEF OpToRel
<1> HIDE DEF Less
<1>1. PICK m \in S : \A k \in S : ~(<<k, m>> \in Less)
  BY <1>0, WFMin
<1>2. \A k \in S : ~(k < m)
  BY <1>1 DEF Less
<1>3. QED
  BY <1>2

LEMMA OntoAll ==
  ASSUME NEW n \in Nat, NEW U \in SUBSET (1..n), NEW p \in Bijection(1..n, U)
  PROVE  /\ p \in [1..n -> 1..n]
         /\ \A i, j \in 1..n : i # j => p[i] # p[j]
         /\ 1..n = {p[i] : i \in 1..n}
<1>1. IsFiniteSet(1..n)
  BY FS_Interval
<1>2. Cardinality(U) = Cardinality(1..n)
  <2>1. Bijection(1..n, U) # {}
    OBVIOUS
  <2>2. ExistsBijection(1..n, U)
    BY <2>1 DEF ExistsBijection
  <2>3. QED
    BY <1>1, <2>2, FS_Bijection
<1>3. U = 1..n
  <2> DEFINE all == 1..n
  <2>1. IsFiniteSet(all) /\ U \in SUBSET all /\ Cardinality(all) = Cardinality(U)
    BY <1>1, <1>2
  <2> HIDE DEF all
  <2>2. U = all
    BY <2>1, FS_Subset
  <2>3. QED
    BY <2>2 DEF all
<1>4. p \in [1..n -> U] /\ (\A x, y \in 1..n : p[x] = p[y] => x = y)
  BY DEF Bijection, Injection, IsInjective
<1>5. \A t \in U : \E x \in 1..n : p[x] = t
  BY DEF Bijection, Surjection
<1>6. 1..n = {p[i] : i \in 1..n}
  BY <1>3, <1>4, <1>5
<1>7. QED
  BY <1>3, <1>4, <1>6

LEMMA SameLength ==
  ASSUME NEW n \in Nat, NEW m \in Nat, NEW q \in [1..n -> 1..m],
         \A i, j \in 1..n : i # j => q[i] # q[j], 1..m = {q[i] : i \in 1..n}
  PROVE  m = n
<1>1. q \in Bijection(1..n, 1..m)
  BY DEF Bijection, Injection, Surjection, IsInjective
<1>2. \A k \in Nat : IsFiniteSet(1..k) /\ Cardinality(1..k) = k
  BY FS_Interval
<1>3. Cardinality(1..m) = Cardinality(1..n)
  BY <1>1, <1>2, FS_Bijection DEF ExistsBijection
<1>4. QED
  BY <1>2, <1>3

LEMMA SameIsEquivalence ==
  ASSUME NEW x, NEW y, NEW z
  PROVE  /\ Same(x, y) <=> Same(y, x)
         /\ Same(x, y) /\ Same(y, z) => Same(x, z)
BY DEF Same, Numeric

(* Where the first k - 1 elements of e have been paired with elements U of *)
(* a, each with the same one, and none that is left in a is the same as    *)
(* e[k], there is no way to pair all of them: the elements of e that are   *)
(* the same as e[k] are one more than those of a.                          *)
LEMMA NoneLeft ==
  ASSUME NEW n \in Nat, NEW k \in 1..n, NEW e, NEW a, NEW U \in SUBSET (1..n),
         NEW p \in Bijection(1..(k - 1), U),
         \A i \in 1..(k - 1) : Same(e[i], a[p[i]]),
         \A j \in (1..n) \ U : ~Same(e[k], a[j]),
         NEW q \in [1..n -> 1..n], \A i, j \in 1..n : i # j => q[i] # q[j],
         \A i \in 1..n : Same(e[i], a[q[i]])
  PROVE  FALSE
<1> DEFINE C == {j \in 1..n : Same(e[k], a[j])}
           D == {i \in 1..(k - 1) : Same(e[i], e[k])}
<1>1. p \in Injection(1..(k - 1), U) /\ p \in Surjection(1..(k - 1), U)
  BY DEF Bijection
<1>2. IsFiniteSet(D) /\ IsFiniteSet(C) /\ Cardinality(D) \in Nat /\ Cardinality(C) \in Nat
  <2>1. C \in SUBSET (1..n) /\ D \in SUBSET (1..n)
    OBVIOUS
  <2>2. IsFiniteSet(D) /\ IsFiniteSet(C)
    <3>1. IsFiniteSet(1..n)
      BY FS_Interval
    <3>2. QED
      BY <2>1, <3>1, FS_Subset
  <2>3. QED
    BY <2>2, FS_CardinalityType
<1>3. Cardinality(C) <= Cardinality(D)
  <2> DEFINE f == [i \in D |-> p[i]]
  <2>1. \A i \in D : p[i] \in C
    <3> SUFFICES ASSUME NEW i \in D
                 PROVE  p[i] \in C
      OBVIOUS
    <3>1. i \in 1..(k - 1) /\ p[i] \in 1..n
      BY <1>1 DEF Injection
    <3>2. Same(e[i], a[p[i]]) /\ Same(e[k], e[i])
      BY <3>1, SameIsEquivalence
    <3>3. QED
      BY <3>1, <3>2, SameIsEquivalence
  <2>2. ASSUME NEW j \in C
        PROVE  \E i \in D : f[i] = j
    <3>1. j \in U
      OBVIOUS
    <3>2. PICK i \in 1..(k - 1) : p[i] = j
      BY <1>1, <3>1 DEF Surjection
    <3>3. Same(e[i], a[j]) /\ Same(a[j], e[k])
      BY <3>2, SameIsEquivalence
    <3>4. i \in D
      BY <3>3, SameIsEquivalence
    <3>5. QED
      BY <3>2, <3>4
  <2>3. f \in [D -> C]
    BY <2>1
  <2>4. f \in Surjection(D, C)
    BY <2>2, <2>3 DEF Surjection
  <2>5. QED
    BY <1>2, <2>4, FS_Surjection
<1>4. Cardinality(D \cup {k}) <= Cardinality(C)
  <2> DEFINE g == [i \in D \cup {k} |-> q[i]]
  <2>1. \A i \in D \cup {k} : i \in 1..n /\ Same(e[k], e[i])
    BY SameIsEquivalence DEF Same
  <2>2. \A i \in D \cup {k} : q[i] \in C
    <3> SUFFICES ASSUME NEW i \in D \cup {k}
                 PROVE  q[i] \in C
      OBVIOUS
    <3>1. i \in 1..n /\ Same(e[k], e[i]) /\ Same(e[i], a[q[i]])
      BY <2>1
    <3>2. QED
      BY <3>1, SameIsEquivalence
  <2>3. g \in [D \cup {k} -> C]
    BY <2>2
  <2>4. IsInjective(g)
    BY <2>1 DEF IsInjective
  <2>5. g \in Injection(D \cup {k}, C)
    BY <2>3, <2>4 DEF Injection
  <2>6. QED
    BY <1>2, <2>5, FS_Injection
<1>5. Cardinality(D \cup {k}) = Cardinality(D) + 1
  <2>1. k \notin D
    OBVIOUS
  <2>2. IsFiniteSet(D)
    BY <1>2
  <2> HIDE DEF D
  <2>3. QED
    BY <2>1, <2>2, FS_AddElement
<1>6. QED
  BY <1>2, <1>3, <1>4, <1>5

(* The first next - 1 elements of expected are paired one to one with the  *)
(* used ones of actual, each with an equal one; a "no" is for lengths that *)
(* differ or for an element that nothing left is equal to.                 *)
Wanted == Elements(call.expected)
Given == Elements(call.actual)

PairsFound ==
  call.op = "unordered" =>
    /\ next <= Len(Wanted) + 1
    /\ used \subseteq DOMAIN Given
    /\ \E p \in Bijection(1..(next - 1), used) :
         \A i \in 1..(next - 1) : DeepEqual(Wanted[i], Given[p[i]])
    /\ verdict \in {"none", "yes", "no"}
    /\ verdict = "yes" /\ call.expected.kind # "nil" => Comparable /\ next = Len(Wanted) + 1
    /\ verdict = "no" => \/ ~Comparable
                         \/ /\ next \in DOMAIN Wanted
                            /\ \A j \in DOMAIN Given \ used : ~DeepEqual(Wanted[next], Given[j])

LEMMA ElementsAreSequences ==
  ASSUME CallInv, call.op = "unordered"
  PROVE  /\ Len(Wanted) \in Nat /\ DOMAIN Wanted = 1..Len(Wanted)
         /\ Len(Given) \in Nat /\ DOMAIN Given = 1..Len(Given)
<1>1. IsValue(call.expected) /\ IsValue(call.actual)
  BY ElementsInRange
<1>2. QED
  BY <1>1 DEF Wanted, Given, Elements, IsValue, IsSequence

LEMMA EmptyPairing ==
  ASSUME NEW e, NEW a
  PROVE  \E p \in Bijection(1..(1 - 1), {}) : \A i \in 1..(1 - 1) : DeepEqual(e[i], a[p[i]])
<1> DEFINE p == [i \in 1..(1 - 1) |-> 0]
<1>1. 1..(1 - 1) = {}
  OBVIOUS
<1>2. p \in Bijection(1..(1 - 1), {})
  BY <1>1 DEF Bijection, Injection, Surjection, IsInjective
<1>3. QED
  BY <1>1, <1>2

LEMMA InitPairs == MatchersInit => PairsFound
BY DEF MatchersInit, PairsFound

(* The pairing that has the next element with j. *)
LEMMA PairingGrows ==
  ASSUME NEW k \in Nat \ {0}, NEW U, NEW e, NEW a, NEW j, j \notin U,
         NEW p \in Bijection(1..(k - 1), U), DeepEqual(e[k], a[j]),
         \A i \in 1..(k - 1) : DeepEqual(e[i], a[p[i]])
  PROVE  \E q \in Bijection(1..((k + 1) - 1), U \cup {j}) :
           \A i \in 1..((k + 1) - 1) : DeepEqual(e[i], a[q[i]])
<1> DEFINE q == [i \in 1..k |-> IF i = k THEN j ELSE p[i]]
<1>0. /\ p \in [1..(k - 1) -> U] /\ \A x, y \in 1..(k - 1) : p[x] = p[y] => x = y
      /\ \A u \in U : \E x \in 1..(k - 1) : p[x] = u
  BY DEF Bijection, Injection, Surjection, IsInjective
<1>1. (k + 1) - 1 = k /\ \A i \in 1..k : i = k \/ i \in 1..(k - 1)
  OBVIOUS
<1>2. q \in [1..k -> U \cup {j}]
  BY <1>0, <1>1
<1>3. IsInjective(q)
  BY <1>0, <1>1 DEF IsInjective
<1>4. \A u \in U \cup {j} : \E x \in 1..k : q[x] = u
  <2> SUFFICES ASSUME NEW u \in U \cup {j}
               PROVE  \E x \in 1..k : q[x] = u
    OBVIOUS
  <2>1. CASE u = j
    <3>1. k \in 1..k /\ q[k] = j
      OBVIOUS
    <3>2. QED
      BY <2>1, <3>1
  <2>2. CASE u \in U
    <3>1. PICK x \in 1..(k - 1) : p[x] = u
      BY <1>0, <2>2
    <3>2. x \in 1..k /\ x # k
      OBVIOUS
    <3>3. QED
      BY <3>1, <3>2
  <2>3. QED
    BY <2>1, <2>2
<1>5. q \in Bijection(1..k, U \cup {j})
  BY <1>2, <1>3, <1>4 DEF Bijection, Injection, Surjection
<1>6. \A i \in 1..k : DeepEqual(e[i], a[q[i]])
  BY <1>1
<1>7. QED
  BY <1>1, <1>5, <1>6

LEMMA StepPairs == CallInv /\ PairsFound /\ [MatchersNext]_matcherVars => PairsFound'
<1> SUFFICES ASSUME CallInv, PairsFound, [MatchersNext]_matcherVars
             PROVE  PairsFound'
  OBVIOUS
<1>t. /\ next \in Nat \ {0} /\ (call.op = "idle" => next = 1 /\ used = {} /\ verdict = "none")
      /\ call.op = "matches" => DOMAIN call = {"op", "expected", "actual"}
  BY MatchersAssumption DEF CallInv, CallMade, IsCall
<1>1. CASE Ask
  <2>1. call' \in Calls /\ next' = 1 /\ used' = {} /\ verdict' = "none"
    BY <1>1, <1>t DEF Ask
  <2>2. \E p \in Bijection(1..(next' - 1), used') :
          \A i \in 1..(next' - 1) : DeepEqual(Wanted'[i], Given'[p[i]])
    BY <2>1, EmptyPairing
  <2>3. call'.op = "unordered" => Len(Wanted') \in Nat
    <3>1. call'.op = "unordered" => IsValue(call'.expected)
      BY <2>1, MatchersAssumption DEF IsCall
    <3>2. QED
      BY <3>1 DEF Wanted, Elements, IsValue, IsSequence
  <2>4. QED
    BY <2>1, <2>2, <2>3 DEF PairsFound
<1>2. CASE Equal \/ ContainsElement \/ FollowPointer \/ NothingThere \/ MatchKey \/ AllKeysMatch
  <2>1. call.op # "unordered" /\ call'.op = call.op
    BY <1>2, <1>t DEF Equal, ContainsElement, FollowPointer, NothingThere, MatchKey, AllKeysMatch, Asked, Answer
  <2>2. QED
    BY <2>1 DEF PairsFound
<1>3. CASE Refuse
  <2>1. /\ call' = call /\ next' = next /\ used' = used /\ ~Comparable /\ call.op = "unordered"
        /\ verdict' = YesIf(call.expected.kind = "nil" /\ call.actual.kind = "nil")
    BY <1>3 DEF Refuse, Asked, Answer
  <2>2. Wanted' = Wanted /\ Given' = Given /\ (Comparable' <=> Comparable)
    BY <2>1 DEF Wanted, Given, Elements, Comparable, IsSlice
  <2>3. verdict' \in {"yes", "no"} /\ (verdict' = "yes" => call.expected.kind = "nil")
    BY <2>1 DEF YesIf
  <2>4. QED
    BY <2>1, <2>2, <2>3 DEF PairsFound
<1>4. CASE PairElement
  <2>1. /\ call' = call /\ call.op = "unordered" /\ verdict = "none" /\ Comparable
        /\ next \in DOMAIN Wanted
    BY <1>4 DEF PairElement, Asked, Answer, Wanted
  <2>2. Wanted' = Wanted /\ Given' = Given /\ (Comparable' <=> Comparable)
    BY <2>1 DEF Wanted, Given, Elements, Comparable, IsSlice
  <2>3. /\ Len(Wanted) \in Nat /\ DOMAIN Wanted = 1..Len(Wanted) /\ Len(Given) = Len(Wanted)
        /\ DOMAIN Given = 1..Len(Given)
    BY <2>1, ElementsAreSequences DEF Comparable, Wanted, Given
  <2>4. Wanted = call.expected.val /\ Given = call.actual.val
    <3>1. Len(Wanted) > 0 /\ Len(Given) > 0
      BY <2>1, <2>3
    <3>2. Wanted # <<>> /\ Given # <<>>
      BY <3>1
    <3>3. QED
      BY <3>2 DEF Wanted, Given, Elements
  <2>5. Candidates = {j \in DOMAIN Given : j \notin used /\ DeepEqual(Wanted[next], Given[j])}
    BY <2>4 DEF Candidates
  <2>6. CASE Candidates = {}
    <3>1. verdict' = "no" /\ next' = next /\ used' = used
      BY <1>4, <2>6 DEF PairElement, Answer
    <3>2. \A j \in DOMAIN Given \ used : ~DeepEqual(Wanted[next], Given[j])
      BY <2>5, <2>6
    <3>3. QED
      BY <2>1, <2>2, <3>1, <3>2 DEF PairsFound
  <2>7. CASE Candidates # {}
    <3> DEFINE j == CHOOSE m \in Candidates : \A k \in Candidates : m <= k
    <3>1. used' = used \cup {j} /\ next' = next + 1 /\ verdict' = verdict
      BY <1>4, <2>7 DEF PairElement
    <3>2. j \in Candidates
      <4>1. Candidates \in SUBSET Nat
        BY <2>3, <2>5
      <4>2. QED
        BY <2>7, <4>1, LeastExists
    <3> HIDE DEF j
    <3>3. j \in DOMAIN Given /\ j \notin used /\ DeepEqual(Wanted[next], Given[j])
      BY <2>5, <3>2
    <3>4. PICK p \in Bijection(1..(next - 1), used) :
            \A i \in 1..(next - 1) : DeepEqual(Wanted[i], Given[p[i]])
      BY <2>1 DEF PairsFound
    <3>5. \E q \in Bijection(1..((next + 1) - 1), used \cup {j}) :
            \A i \in 1..((next + 1) - 1) : DeepEqual(Wanted[i], Given[q[i]])
      BY <1>t, <3>3, <3>4, PairingGrows
    <3>6. next + 1 <= Len(Wanted) + 1 /\ used \cup {j} \subseteq DOMAIN Given
      BY <2>1, <2>3, <3>3 DEF PairsFound
    <3>7. QED
      BY <2>1, <2>2, <3>1, <3>5, <3>6 DEF PairsFound
  <2>8. QED
    BY <2>6, <2>7
<1>5. CASE AllPaired
  <2>1. /\ call' = call /\ next' = next /\ used' = used /\ Comparable /\ call.op = "unordered"
        /\ verdict' = "yes" /\ next \notin DOMAIN Wanted
    BY <1>5 DEF AllPaired, Asked, Answer, Wanted
  <2>2. Wanted' = Wanted /\ Given' = Given /\ (Comparable' <=> Comparable)
    BY <2>1 DEF Wanted, Given, Elements, Comparable, IsSlice
  <2>3. next = Len(Wanted) + 1
    BY <1>t, <2>1, ElementsAreSequences DEF PairsFound
  <2>4. QED
    BY <2>1, <2>2, <2>3 DEF PairsFound
<1>6. CASE UNCHANGED matcherVars
  BY <1>6 DEF matcherVars, PairsFound, Wanted, Given, Elements, Comparable, IsSlice
<1>7. QED
  BY <1>1, <1>2, <1>3, <1>4, <1>5, <1>6 DEF MatchersNext

(* `unordered_equal` answers exactly whether the elements can be paired    *)
(* off, for slices of any length: a yes comes with the pairing it found,   *)
(* and taking the first equal element that is left never loses one, as     *)
(* long as nothing is rounded (danmujiUnorderedEqualDetail).               *)
THEOREM UnorderedPairs == MatchersSpec => []UnorderedIsPermutation
<1>1. CallInv /\ PairsFound => UnorderedIsPermutation
  <2> SUFFICES ASSUME CallInv, PairsFound, call.op = "unordered", verdict # "none",
                      call.expected.kind # "nil"
               PROVE  /\ verdict = "yes" => Pairable
                      /\ (Pairable /\ Unrounded) => verdict = "yes"
    BY DEF UnorderedIsPermutation
  <2> DEFINE n == Len(Wanted)
  <2>0. n \in Nat /\ DOMAIN Wanted = 1..n /\ Len(Given) \in Nat /\ DOMAIN Given = 1..Len(Given)
    BY ElementsAreSequences
  <2>1. PICK p \in Bijection(1..(next - 1), used) :
          \A i \in 1..(next - 1) : DeepEqual(Wanted[i], Given[p[i]])
    BY DEF PairsFound
  <2>2. ASSUME verdict = "yes"
        PROVE  Pairable
    <3>1. Comparable /\ next = n + 1 /\ Len(Given) = n /\ used \subseteq 1..n
      BY <2>0, <2>2 DEF PairsFound, Comparable, Wanted, Given
    <3>2. next - 1 = n
      BY <2>0, <3>1
    <3>3. p \in Bijection(1..n, used)
      BY <3>2
    <3>4. /\ p \in [1..n -> 1..n] /\ \A i, j \in 1..n : i # j => p[i] # p[j]
          /\ 1..n = {p[i] : i \in 1..n}
      <4>1. n \in Nat /\ used \in SUBSET (1..n) /\ p \in Bijection(1..n, used)
        BY <2>0, <3>1, <3>3
      <4> HIDE DEF n
      <4>2. QED
        BY <4>1, OntoAll
    <3>6. \A i \in 1..n : DeepEqual(Wanted[i], Given[p[i]])
      BY <2>1, <3>2
    <3>7. IsSlice(call.expected) /\ IsSlice(call.actual) /\ DOMAIN Given = 1..n
      BY <2>0, <3>1 DEF Comparable
    <3>8. QED
      BY <2>0, <3>4, <3>6, <3>7 DEF Pairable, Wanted, Given
  <2>3. ASSUME Pairable, Unrounded, verdict # "yes"
        PROVE  FALSE
    <3>1. PICK q \in [DOMAIN Wanted -> DOMAIN Given] :
            /\ \A i, j \in DOMAIN Wanted : i # j => q[i] # q[j]
            /\ DOMAIN Given = {q[i] : i \in DOMAIN Wanted}
            /\ \A i \in DOMAIN Wanted : DeepEqual(Wanted[i], Given[q[i]])
      BY <2>3 DEF Pairable, Wanted, Given
    <3>2. Len(Given) = n
      <4> DEFINE m == Len(Given)
      <4>1. /\ m \in Nat /\ q \in [1..n -> 1..m] /\ \A i, j \in 1..n : i # j => q[i] # q[j]
            /\ 1..m = {q[i] : i \in 1..n}
        BY <2>0, <3>1
      <4> HIDE DEF m, n
      <4>2. m = n
        BY <2>0, <4>1, SameLength
      <4>3. QED
        BY <4>2 DEF m
    <3>3. Comparable
      BY <2>3, <3>2 DEF Comparable, Pairable, Wanted, Given
    <3>4. /\ next \in 1..n /\ used \in SUBSET (1..n)
          /\ \A j \in (1..n) \ used : ~DeepEqual(Wanted[next], Given[j])
      BY <2>0, <2>3, <3>2, <3>3 DEF PairsFound
    <3>5. \A i, j \in 1..n : DeepEqual(Wanted[i], Given[j]) <=> Same(Wanted[i], Given[j])
      <4> SUFFICES ASSUME NEW i \in 1..n, NEW j \in 1..n
                   PROVE  DeepEqual(Wanted[i], Given[j]) <=> Same(Wanted[i], Given[j])
        OBVIOUS
      <4>1. call.expected.kind = "slice" /\ call.actual.kind = "slice"
        <5>1. Len(Wanted) > 0 /\ Len(Given) > 0
          BY <2>0, <3>2
        <5>2. Wanted # <<>> /\ Given # <<>>
          BY <5>1
        <5>3. QED
          BY <5>2 DEF Wanted, Given, Elements
      <4>2. Wanted[i] \in ElementsOf(call.expected) /\ Given[j] \in ElementsOf(call.actual)
        BY <2>0, <3>2, <4>1 DEF Wanted, Given, Elements, ElementsOf
      <4>3. InRange(Wanted[i]) /\ InRange(Given[j]) /\ ExactPair(Wanted[i], Given[j])
        BY <2>3, <4>2, ElementsInRange, UnroundedPair
      <4>4. QED
        BY <4>3, EqualIsSame
    <3>6. \A i \in 1..(next - 1) : i \in 1..n /\ p[i] \in 1..n
      <4>1. p \in [1..(next - 1) -> used]
        BY <2>1 DEF Bijection, Injection
      <4>2. n \in Nat /\ next \in 1..n /\ used \in SUBSET (1..n)
        BY <2>0, <3>4
      <4> HIDE DEF n
      <4>3. TAKE i \in 1..(next - 1)
      <4>4. p[i] \in used
        BY <4>1, <4>3
      <4>5. i \in 1..n
        BY <4>2, <4>3
      <4>6. p[i] \in 1..n
        BY <4>2, <4>4
      <4>7. QED
        BY <4>5, <4>6
    <3>7. \A i \in 1..(next - 1) : Same(Wanted[i], Given[p[i]])
      BY <2>1, <3>5, <3>6
    <3>8. \A j \in (1..n) \ used : ~Same(Wanted[next], Given[j])
      BY <3>4, <3>5
    <3>9. /\ q \in [1..n -> 1..n] /\ \A i, j \in 1..n : i # j => q[i] # q[j]
          /\ \A i \in 1..n : Same(Wanted[i], Given[q[i]])
      <4>1. q \in [1..n -> 1..n]
        BY <2>0, <3>1, <3>2
      <4>2. QED
        BY <2>0, <3>1, <3>5, <4>1
    <3>10. QED
      BY <2>0, <3>4, <3>7, <3>8, <3>9, NoneLeft
  <2>4. QED
    BY <2>2, <2>3
<1>2. QED
  BY <1>1, InitCall, StepCall, InitPairs, StepPairs, PTL DEF MatchersSpec

(***************************************************************************)
(* A row of a table, a rune at a time.                                     *)
(***************************************************************************)

(* How many brackets of a kind are open among those that Go has to see     *)
(* closed: what the scanner counts.                                        *)
Count(bs, b) == Cardinality({i \in DOMAIN bs : bs[i] = b})

LEMMA CountType ==
  ASSUME NEW bs \in Seq(Opening), NEW b
  PROVE  IsFiniteSet({i \in DOMAIN bs : bs[i] = b}) /\ Count(bs, b) \in Nat
<1> DEFINE S == {i \in DOMAIN bs : bs[i] = b}
<1>1. S \in SUBSET (1..Len(bs)) /\ Len(bs) \in Nat
  OBVIOUS
<1>2. IsFiniteSet(1..Len(bs))
  BY <1>1, FS_Interval
<1>3. IsFiniteSet(S)
  BY <1>1, <1>2, FS_Subset
<1>4. QED
  BY <1>3, FS_CardinalityType DEF Count

LEMMA CountNone == \A b : Count(<<>>, b) = 0
<1>1. \A b : {i \in DOMAIN <<>> : <<>>[i] = b} = {}
  OBVIOUS
<1>2. QED
  BY <1>1, FS_EmptySet DEF Count

LEMMA CountAppend ==
  ASSUME NEW bs \in Seq(Opening), NEW r \in Opening, NEW b
  PROVE  Count(Append(bs, r), b) = IF r = b THEN Count(bs, b) + 1 ELSE Count(bs, b)
<1> DEFINE S == {i \in DOMAIN bs : bs[i] = b}
           T == {i \in DOMAIN Append(bs, r) : Append(bs, r)[i] = b}
           n == Len(bs) + 1
<1>1. T = IF r = b THEN S \cup {n} ELSE S
  <2>1. /\ DOMAIN Append(bs, r) = 1..n /\ DOMAIN bs = 1..Len(bs) /\ Len(bs) \in Nat
        /\ Append(bs, r)[n] = r /\ \A i \in 1..Len(bs) : Append(bs, r)[i] = bs[i]
    OBVIOUS
  <2>2. \A i : i \in T <=> (i \in S \/ (r = b /\ i = n))
    BY <2>1
  <2> HIDE DEF S, T, n
  <2>3. QED
    BY <2>2
<1>2. n \notin S
  OBVIOUS
<1>3. IsFiniteSet(S)
  BY CountType
<1> HIDE DEF S, n
<1>4. Cardinality(S \cup {n}) = Cardinality(S) + 1
  BY <1>2, <1>3, FS_AddElement
<1>5. QED
  BY <1>1, <1>4 DEF Count, S

LEMMA CountFront ==
  ASSUME NEW bs \in Seq(Opening), bs # <<>>, NEW b
  PROVE  /\ Front(bs) \in Seq(Opening) /\ Last(bs) \in Opening
         /\ Count(Front(bs), b) = IF Last(bs) = b THEN Count(bs, b) - 1 ELSE Count(bs, b)
         /\ Last(bs) = b => Count(bs, b) > 0
<1> DEFINE front == Front(bs)
           last == Last(bs)
<1>1. front \in Seq(Opening) /\ last \in Opening /\ bs = Append(front, last)
  BY DEF Front, Last
<1> HIDE DEF front, last
<1>2. Count(Append(front, last), b) = IF last = b THEN Count(front, b) + 1 ELSE Count(front, b)
  BY <1>1, CountAppend
<1>3. Count(front, b) \in Nat /\ Count(bs, b) = Count(Append(front, last), b)
  BY <1>1, CountType
<1>4. front \in Seq(Opening) /\ last \in Opening
      /\ Count(front, b) = (IF last = b THEN Count(bs, b) - 1 ELSE Count(bs, b))
      /\ (last = b => Count(bs, b) > 0)
  BY <1>1, <1>2, <1>3
<1>5. QED
  BY <1>4 DEF front, last

(* What Go has open where the scanner is, and that the scanner knows all   *)
(* of it that it needs.                                                    *)
Now == IF column \in 1..Len(written) THEN GoReading[written[column]][rune - 1] ELSE Nothing

Knows(now, q, e, ds) ==
  /\ now = StillOpen(q, e, now.brackets) /\ now.brackets \in Seq(Opening)
  /\ ds = [b \in Opening |-> Count(now.brackets, b)]

RowInv ==
  /\ cutting = "idle" => RowInit
  /\ cutting = "scan" =>
       /\ written \in RowsWritten
       /\ column \in 0..(Len(written) + 1) /\ rune \in Nat \ {0}
       /\ IF column <= Len(written) THEN rune <= Len(RunesOf(column)) + 1 ELSE rune = 1
       /\ cells = [i \in 1..(IF column = 0 THEN 0 ELSE column - 1) |-> written[i]]
       /\ cell = [i \in 1..(rune - 1) |-> RunesOf(column)[i]]
       /\ escaped \in BOOLEAN /\ Knows(Now, quote, escaped, depth)
  /\ CellsComeBack

LEMMA KnowsNothing == Knows(Nothing, "none", FALSE, [b \in Opening |-> 0])
BY CountNone DEF Knows, Nothing, StillOpen

(* A rune changes what Go has open as the scanner notes it. *)
LEMMA KnowsEscaped ==
  ASSUME NEW now, NEW q, NEW ds, NEW r, NEW after, Knows(now, q, TRUE, ds), GoesOn(now, r, after)
  PROVE  Knows(after, q, FALSE, ds)
<1> DEFINE bs == now.brackets
<1>0. bs \in Seq(Opening) /\ ds = [b \in Opening |-> Count(bs, b)]
  BY DEF Knows
<1>1. now.escaped /\ now = [quote |-> q, escaped |-> TRUE, brackets |-> bs]
  BY DEF Knows, StillOpen
<1>b. bs = now.brackets
  OBVIOUS
<1> HIDE DEF bs
<1>2. after = [now EXCEPT !.escaped = FALSE]
  BY <1>1 DEF GoesOn
<1>3. after = [quote |-> q, escaped |-> FALSE, brackets |-> bs]
  BY <1>1, <1>2
<1>4. QED
  BY <1>0, <1>3 DEF Knows, StillOpen

LEMMA KnowsQuoted ==
  ASSUME NEW now, NEW q, NEW ds, NEW r, NEW after, Knows(now, q, FALSE, ds), GoesOn(now, r, after),
         q # "none"
  PROVE  Knows(after, IF r = q THEN "none" ELSE q, r = Backslash /\ q # Tick, ds)
<1> DEFINE bs == now.brackets
<1>0. bs \in Seq(Opening) /\ ds = [b \in Opening |-> Count(bs, b)]
  BY DEF Knows
<1>1. ~now.escaped /\ now.quote = q /\ now = [quote |-> q, escaped |-> FALSE, brackets |-> bs]
  BY DEF Knows, StillOpen
<1>b. bs = now.brackets
  OBVIOUS
<1> HIDE DEF bs
<1>2. after = StillOpen(IF r = q THEN "none" ELSE q, r = Backslash /\ q # Tick, bs)
  BY <1>1, <1>b DEF GoesOn
<1>3. after.brackets = bs
  BY <1>2 DEF StillOpen
<1>4. QED
  BY <1>0, <1>2, <1>3 DEF Knows

(* Outside of quotes; and the rune is no bar that cuts. *)
LEMMA KnowsBare ==
  ASSUME NEW now, NEW ds, NEW r, NEW after, Knows(now, "none", FALSE, ds), GoesOn(now, r, after)
  PROVE  /\ Knows(after, IF r \in Interpreted \union {Tick} THEN r ELSE "none", FALSE,
                  CASE r \in Opening -> [ds EXCEPT ![r] = @ + 1]
                    [] r \in Closing /\ ds[Opener(r)] > 0 -> [ds EXCEPT ![Opener(r)] = @ - 1]
                    [] OTHER -> ds)
         /\ r = Bar => \E b \in Opening : ds[b] # 0
<1> DEFINE bs == now.brackets
<1>2. bs \in Seq(Opening) /\ ds = [b \in Opening |-> Count(bs, b)]
  BY DEF Knows
<1>1. ~now.escaped /\ now.quote = "none" /\ now = [quote |-> "none", escaped |-> FALSE, brackets |-> bs]
  BY DEF Knows, StillOpen
<1>b. bs = now.brackets
  OBVIOUS
<1> HIDE DEF bs
<1>t. "none" \notin Interpreted \union {Tick} /\ (Interpreted \union {Tick}) \cap (Opening \union Closing) = {}
      /\ Opening \cap Closing = {} /\ Bar \notin Interpreted \union {Tick} \union Opening \union Closing
      /\ \A x \in Closing : Opener(x) \in Opening
  BY DEF Interpreted, Tick, Opening, Closing, Bar, Opener
<1>3. CASE r \in Interpreted \union {Tick}
  <2>1. after = [now EXCEPT !.quote = r]
    BY <1>1, <1>3, <1>t DEF GoesOn
  <2>2. after = [quote |-> r, escaped |-> FALSE, brackets |-> bs]
    BY <1>1, <2>1
  <2>3. Knows(after, r, FALSE, ds)
    BY <1>2, <2>2 DEF Knows, StillOpen
  <2>4. QED
    BY <1>3, <1>t, <2>3
<1>4. CASE r \in Opening
  <2>1. after = [now EXCEPT !.brackets = Append(bs, r)]
    BY <1>1, <1>b, <1>4, <1>t DEF GoesOn
  <2>2. after = [quote |-> "none", escaped |-> FALSE, brackets |-> Append(bs, r)]
    BY <1>1, <2>1
  <2>3. after.brackets \in Seq(Opening) /\ after.brackets = Append(bs, r)
    BY <1>2, <1>4, <2>2
  <2>4. \A b \in Opening : Count(after.brackets, b) = IF r = b THEN Count(bs, b) + 1 ELSE Count(bs, b)
    BY <1>2, <1>4, <2>3, CountAppend
  <2>5. [ds EXCEPT ![r] = @ + 1] = [b \in Opening |-> Count(after.brackets, b)]
    BY <1>2, <1>4, <2>4
  <2>6. Knows(after, "none", FALSE, [ds EXCEPT ![r] = @ + 1])
    BY <2>2, <2>3, <2>5 DEF Knows, StillOpen
  <2>7. QED
    BY <1>4, <1>t, <2>6
<1>5. CASE r \in Closing
  <2>1. /\ bs # <<>> /\ Last(bs) = Opener(r)
        /\ after = [now EXCEPT !.brackets = Front(bs)]
    BY <1>1, <1>b, <1>5, <1>t DEF GoesOn
  <2>2. after = [quote |-> "none", escaped |-> FALSE, brackets |-> Front(bs)]
    BY <1>1, <2>1
  <2>3. after.brackets \in Seq(Opening) /\ after.brackets = Front(bs)
    BY <1>2, <2>1, <2>2, CountFront
  <2>4. \A b \in Opening : /\ Count(after.brackets, b) = IF Opener(r) = b THEN Count(bs, b) - 1 ELSE Count(bs, b)
                           /\ Opener(r) = b => Count(bs, b) > 0
    BY <1>2, <2>1, <2>3, CountFront
  <2>5. ds[Opener(r)] > 0
    BY <1>2, <1>5, <1>t, <2>4
  <2>6. [ds EXCEPT ![Opener(r)] = @ - 1] = [b \in Opening |-> Count(after.brackets, b)]
    BY <1>2, <1>5, <1>t, <2>4
  <2>7. Knows(after, "none", FALSE, [ds EXCEPT ![Opener(r)] = @ - 1])
    BY <2>2, <2>3, <2>6 DEF Knows, StillOpen
  <2>8. QED
    BY <1>5, <1>t, <2>5, <2>7
<1>6. CASE r \notin Interpreted \union {Tick} \union Opening \union Closing
  <2>1. after = now /\ (r = Bar => bs # <<>>)
    BY <1>1, <1>b, <1>6 DEF GoesOn
  <2>2. r = Bar => \E b \in Opening : ds[b] # 0
    <3>1. ASSUME bs # <<>>
          PROVE  Last(bs) \in Opening /\ Count(bs, Last(bs)) > 0
      BY <1>2, <3>1, CountFront
    <3>2. QED
      BY <1>2, <2>1, <3>1
  <2>3. QED
    BY <1>6, <2>1, <2>2
<1>7. QED
  BY <1>3, <1>4, <1>5, <1>6

LEMMA InitRow == RowInit => RowInv
BY DEF RowInit, RowInv, CellsComeBack

(* The rows written are sequences of expressions. *)
LEMMA CellsWritten ==
  ASSUME NEW row \in RowsWritten
  PROVE  /\ Len(row) \in Nat /\ DOMAIN row = 1..Len(row)
         /\ \A c \in 1..Len(row) :
              /\ Len(row[c]) \in Nat \ {0} /\ DOMAIN row[c] = 1..Len(row[c])
              /\ GoReading[row[c]][0] = Nothing /\ GoReading[row[c]][Len(row[c])] = Nothing
              /\ \A n \in 1..Len(row[c]) :
                   GoesOn(GoReading[row[c]][n - 1], row[c][n], GoReading[row[c]][n])
<1>1. row \in Seq(DOMAIN GoReading)
  BY TableRowAssumption
<1>2. \A c \in 1..Len(row) : IsExpression(row[c])
  BY <1>1, TableRowAssumption
<1>3. \A s \in Seq(STRING) : Len(s) \in Nat /\ DOMAIN s = 1..Len(s) /\ (s # <<>> => Len(s) # 0)
  OBVIOUS
<1>4. QED
  BY <1>1, <1>2, <1>3 DEF IsExpression

(* Where the scanner is: before the row, in a cell, at the bar behind it,  *)
(* or behind the row.                                                      *)
LEMMA Places ==
  ASSUME RowInv, cutting = "scan"
  PROVE  /\ column = 0 => Scanning /\ AtBar /\ Now = Nothing /\ rune = 1
         /\ column \in 1..Len(written) =>
              /\ Scanning /\ RunesOf(column) = written[column]
              /\ Now = GoReading[written[column]][rune - 1]
              /\ AtBar => rune = Len(written[column]) + 1 /\ Now = Nothing
              /\ ~AtBar => /\ rune \in 1..Len(written[column])
                           /\ GoesOn(Now, ThisRune, GoReading[written[column]][rune])
         /\ column \notin 0..Len(written) => ~Scanning /\ column = Len(written) + 1 /\ rune = 1
         /\ Len(written) \in Nat
<1>1. written \in RowsWritten /\ column \in 0..(Len(written) + 1) /\ rune \in Nat \ {0}
  BY DEF RowInv
<1>2. column <= Len(written) => rune <= Len(RunesOf(column)) + 1
  BY DEF RowInv
<1>3. Len(written) \in Nat
  BY <1>1, CellsWritten
<1>4. ASSUME column = 0
      PROVE  Scanning /\ AtBar /\ Now = Nothing /\ rune = 1
  BY <1>1, <1>2, <1>3, <1>4 DEF Scanning, AtBar, Now, RunesOf
<1>5. ASSUME column \in 1..Len(written)
      PROVE  /\ Scanning /\ RunesOf(column) = written[column]
             /\ Now = GoReading[written[column]][rune - 1]
             /\ AtBar => rune = Len(written[column]) + 1 /\ Now = Nothing
             /\ ~AtBar => /\ rune \in 1..Len(written[column])
                          /\ GoesOn(Now, ThisRune, GoReading[written[column]][rune])
  <2> DEFINE c == written[column]
             n == Len(c)
  <2>1. /\ n \in Nat \ {0} /\ DOMAIN c = 1..n
        /\ GoReading[c][n] = Nothing
        /\ \A k \in 1..n : GoesOn(GoReading[c][k - 1], c[k], GoReading[c][k])
    BY <1>1, <1>5, CellsWritten
  <2>2. Scanning /\ RunesOf(column) = c /\ Now = GoReading[c][rune - 1]
    BY <1>3, <1>5 DEF Scanning, RunesOf, Now
  <2>3. AtBar <=> rune \notin 1..n
    BY <2>1, <2>2 DEF AtBar
  <2>4. rune <= n + 1
    BY <1>2, <1>3, <1>5, <2>2
  <2> HIDE DEF n
  <2>5. AtBar => rune = n + 1 /\ rune - 1 = n
    BY <1>1, <2>1, <2>3, <2>4
  <2>6. ~AtBar => rune \in 1..n /\ ThisRune = c[rune]
    BY <2>2, <2>3 DEF ThisRune
  <2>7. AtBar => Now = Nothing
    BY <2>1, <2>2, <2>5
  <2>8. ~AtBar => GoesOn(Now, ThisRune, GoReading[c][rune])
    BY <2>1, <2>2, <2>6
  <2>9. QED
    BY <2>2, <2>5, <2>6, <2>7, <2>8 DEF n
<1>6. ASSUME column \notin 0..Len(written)
      PROVE  ~Scanning /\ column = Len(written) + 1 /\ rune = 1
  <2>1. column = Len(written) + 1
    BY <1>1, <1>3, <1>6
  <2>2. QED
    BY <1>3, <2>1 DEF Scanning, RowInv
<1>7. QED
  BY <1>3, <1>4, <1>5, <1>6

(* In quotes and brackets the scanner never leaves the cell. *)
LEMMA TakesInCell ==
  ASSUME RowInv, TakeEscaped \/ TakeQuoted \/ TakeRaw \/ TakeBare
  PROVE  column \in 1..Len(written) /\ ~AtBar
<1>1. cutting = "scan" /\ Scanning
  BY DEF TakeEscaped, TakeQuoted, TakeRaw, TakeBare, Bare, Scanning
<1>2. Knows(Now, quote, escaped, depth)
  BY <1>1 DEF RowInv
<1>3. ASSUME Now = Nothing, AtBar
      PROVE  FALSE
  <2>1. quote = "none" /\ escaped = FALSE /\ depth = [b \in Opening |-> Count(<<>>, b)]
    BY <1>2, <1>3 DEF Knows, Nothing, StillOpen
  <2>2. Outside /\ ThisRune = Bar
    BY <1>3, <2>1, CountNone DEF Outside, ThisRune
  <2>3. "none" \notin Interpreted \union {Tick}
    BY DEF Interpreted, Tick
  <2>4. QED
    BY <2>1, <2>2, <2>3 DEF TakeEscaped, TakeQuoted, TakeRaw, TakeBare
<1>4. column \in 0..Len(written)
  BY <1>1, Places
<1>5. QED
  BY <1>1, <1>3, <1>4, Places

(* What is open after a rune that goes to the cell. *)
LEMMA TakesKnown ==
  ASSUME RowInv, TakeEscaped \/ TakeQuoted \/ TakeRaw \/ TakeBare
  PROVE  Knows(GoReading[written[column]][rune], quote', escaped', depth')
<1>1. cutting = "scan" /\ column \in 1..Len(written) /\ ~AtBar
  BY TakesInCell DEF TakeEscaped, TakeQuoted, TakeRaw, TakeBare, Bare, Scanning
<1> DEFINE after == GoReading[written[column]][rune]
<1>2. GoesOn(Now, ThisRune, after) /\ Knows(Now, quote, escaped, depth)
  BY <1>1, Places DEF RowInv
<1>t. "none" \notin Interpreted \union {Tick} /\ Tick \notin Interpreted
  BY DEF Interpreted, Tick
<1> HIDE DEF after
<1>3. CASE TakeEscaped
  <2>1. escaped = TRUE /\ escaped' = FALSE /\ quote' = quote /\ depth' = depth
    BY <1>1, <1>3 DEF TakeEscaped, RowInv
  <2>2. Knows(Now, quote, TRUE, depth)
    BY <1>2, <2>1
  <2>3. Knows(after, quote, FALSE, depth)
    BY <1>2, <2>2, KnowsEscaped
  <2>4. QED
    BY <2>1, <2>3 DEF after
<1>4. CASE TakeQuoted \/ TakeRaw
  <2>1. /\ escaped = FALSE /\ quote # "none" /\ quote' = (IF ThisRune = quote THEN "none" ELSE quote)
        /\ depth' = depth
    BY <1>1, <1>4, <1>t DEF TakeQuoted, TakeRaw, RowInv
  <2>2. escaped' = (ThisRune = Backslash /\ quote # Tick)
    <3>1. CASE TakeQuoted
      BY <1>t, <3>1 DEF TakeQuoted
    <3>2. CASE TakeRaw
      BY <2>1, <3>2 DEF TakeRaw
    <3>3. QED
      BY <1>4, <3>1, <3>2
  <2>3. Knows(Now, quote, FALSE, depth)
    BY <1>2, <2>1
  <2>4. Knows(after, IF ThisRune = quote THEN "none" ELSE quote, ThisRune = Backslash /\ quote # Tick, depth)
    BY <1>2, <2>1, <2>3, KnowsQuoted
  <2>5. QED
    BY <2>1, <2>2, <2>4 DEF after
<1>5. CASE TakeBare
  <2>1. /\ escaped = FALSE /\ quote = "none" /\ escaped' = FALSE
        /\ quote' = (IF ThisRune \in Interpreted \union {Tick} THEN ThisRune ELSE "none")
    BY <1>1, <1>5 DEF TakeBare, Bare, RowInv
  <2>2. depth' = CASE ThisRune \in Opening -> [depth EXCEPT ![ThisRune] = @ + 1]
                   [] ThisRune \in Closing /\ depth[Opener(ThisRune)] > 0 ->
                        [depth EXCEPT ![Opener(ThisRune)] = @ - 1]
                   [] OTHER -> depth
    BY <1>5 DEF TakeBare
  <2>3. Knows(Now, "none", FALSE, depth)
    BY <1>2, <2>1
  <2>4. QED
    BY <1>2, <2>1, <2>2, <2>3, KnowsBare DEF after
<1>6. QED
  BY <1>3, <1>4, <1>5

(* A rune of a cell goes to the current cell. *)
LEMMA StepTake ==
  ASSUME RowInv, TakeEscaped \/ TakeQuoted \/ TakeRaw \/ TakeBare
  PROVE  RowInv'
<1>1. /\ cutting = "scan" /\ cutting' = "scan" /\ written' = written /\ cells' = cells
      /\ Take
  BY DEF TakeEscaped, TakeQuoted, TakeRaw, TakeBare, Bare, Scanning, Take
<1>2. column \in 1..Len(written) /\ ~AtBar
  BY TakesInCell
<1>3. /\ column' = column /\ rune' = rune + 1 /\ cell' = Append(cell, ThisRune)
  BY <1>1, <1>2 DEF Take, StepOver
<1>4. /\ rune \in 1..Len(written[column]) /\ RunesOf(column) = written[column] /\ ThisRune = written[column][rune]
      /\ Len(written) \in Nat
  BY <1>1, <1>2, Places DEF ThisRune
<1>5. Len(written[column]) \in Nat
  BY <1>1, <1>2, CellsWritten DEF RowInv
<1>6. RunesOf(column)' = written[column]
  BY <1>1, <1>3, <1>4 DEF RunesOf
<1>7. cell' = [i \in 1..rune |-> written[column][i]]
  <2>1. cell = [i \in 1..(rune - 1) |-> written[column][i]]
    BY <1>1, <1>4 DEF RowInv
  <2> DEFINE c == written[column]
  <2>2. rune \in Nat \ {0} /\ c[rune] = ThisRune
    BY <1>4, <1>5
  <2> HIDE DEF c
  <2>3. Append([i \in 1..(rune - 1) |-> c[i]], c[rune]) = [i \in 1..rune |-> c[i]]
    BY <2>2
  <2>4. QED
    BY <1>3, <2>1, <2>2, <2>3 DEF c
<1>8. Now' = GoReading[written[column]][rune]
  <2>1. (rune + 1) - 1 = rune
    BY <1>4, <1>5
  <2>2. QED
    BY <1>1, <1>2, <1>3, <2>1 DEF Now
<1>9. Knows(Now', quote', escaped', depth')
  BY <1>8, TakesKnown
<1>10. escaped' \in BOOLEAN
  BY <1>1 DEF TakeEscaped, TakeQuoted, TakeRaw, TakeBare, RowInv
<1>11. rune' \in Nat \ {0} /\ rune' <= Len(written[column]) + 1 /\ rune' - 1 = rune /\ column <= Len(written)
  BY <1>2, <1>3, <1>4, <1>5
<1>12. QED
  BY <1>1, <1>2, <1>3, <1>6, <1>7, <1>9, <1>10, <1>11 DEF RowInv, CellsComeBack

LEMMA StepRow == RowInv /\ [RowNext]_rowVars => RowInv'
<1> SUFFICES ASSUME RowInv, [RowNext]_rowVars
             PROVE  RowInv'
  OBVIOUS
<1>1. CASE StartRow
  <2>1. /\ RowInit /\ written' \in RowsWritten /\ cutting' = "scan"
        /\ UNCHANGED <<column, rune, cell, cells, depth, quote, escaped>>
    BY <1>1 DEF StartRow, RowInv
  <2>2. /\ column' = 0 /\ rune' = 1 /\ cell' = <<>> /\ cells' = <<>> /\ quote' = "none" /\ escaped' = FALSE
        /\ depth' = [b \in Opening |-> 0]
    BY <2>1 DEF RowInit
  <2>3. Len(written') \in Nat
    BY <2>1, CellsWritten
  <2>4. Now' = Nothing /\ RunesOf(column)' = <<>>
    BY <2>2 DEF Now, RunesOf
  <2>5. Knows(Now', quote', escaped', depth')
    BY <2>2, <2>4, KnowsNothing
  <2>6. /\ cells' = [i \in 1..(IF column' = 0 THEN 0 ELSE column' - 1) |-> written'[i]]
        /\ cell' = [i \in 1..(rune' - 1) |-> RunesOf(column)'[i]]
    BY <2>2
  <2>7. IF column' <= Len(written') THEN rune' <= Len(RunesOf(column)') + 1 ELSE rune' = 1
    BY <2>2, <2>3, <2>4
  <2>8. column' \in 0..(Len(written') + 1) /\ rune' \in Nat \ {0} /\ escaped' \in BOOLEAN
    <3>1. column' = 0 /\ rune' = 1
      BY <2>2
    <3>2. column' \in 0..(Len(written') + 1) /\ rune' \in Nat \ {0}
      BY <3>1, <2>3
    <3>3. escaped' = FALSE
      BY <2>2
    <3>4. escaped' \in BOOLEAN
      BY <3>3, Zenon
    <3>5. QED
      BY <3>2, <3>4
  <2>9. cutting' = "scan" /\ written' \in RowsWritten
    BY <2>1
  <2>10. QED
    BY <2>5, <2>6, <2>7, <2>8, <2>9 DEF RowInv, CellsComeBack
<1>2. CASE TakeEscaped \/ TakeQuoted \/ TakeRaw \/ TakeBare
  BY <1>2, StepTake
<1>3. CASE Cut
  <2>1. /\ cutting = "scan" /\ Scanning /\ ~escaped /\ quote = "none" /\ ThisRune = Bar /\ Outside
        /\ cells' = Flushed /\ cell' = <<>> /\ StepOver
        /\ UNCHANGED <<written, depth, quote, escaped, cutting>>
    BY <1>3 DEF Cut, Bare, Scanning
  <2>2. Knows(Now, quote, escaped, depth) /\ escaped = FALSE /\ column \in 0..Len(written)
    BY <2>1, Places DEF RowInv
  <2>3. AtBar
    <3>1. SUFFICES ASSUME ~AtBar
                   PROVE  FALSE
      OBVIOUS
    <3>2. column \in 1..Len(written)
      BY <2>1, <2>2, <3>1, Places
    <3>3. GoesOn(Now, Bar, GoReading[written[column]][rune])
      BY <2>1, <3>1, <3>2, Places
    <3>4. \E b \in Opening : depth[b] # 0
      BY <2>1, <2>2, <3>3, KnowsBare
    <3>5. QED
      BY <2>1, <3>4 DEF Outside
  <2>4. column' = column + 1 /\ rune' = 1 /\ Len(written) \in Nat
    BY <2>1, <2>3, Places DEF StepOver
  <2>5. Now = Nothing
    BY <2>1, <2>2, <2>3, Places
  <2>6. Now' = Nothing
    <3>1. column' \in 1..Len(written) => Now' = GoReading[written[column']][0]
      BY <2>1, <2>4 DEF Now
    <3>2. column' \in 1..Len(written) => GoReading[written[column']][0] = Nothing
      BY <2>1, CellsWritten DEF RowInv
    <3>3. QED
      BY <2>1, <3>1, <3>2 DEF Now
  <2>7. cells' = [i \in 1..column |-> written[i]]
    <3>1. CASE column = 0
      <4>1. cell = [i \in 1..(1 - 1) |-> RunesOf(column)[i]] /\ cells = [i \in 1..0 |-> written[i]]
        BY <2>1, <3>1, Places DEF RowInv
      <4>2. cell = <<>>
        BY <4>1
      <4>3. QED
        BY <2>1, <3>1, <4>1, <4>2 DEF Flushed
    <3>2. CASE column # 0
      <4> DEFINE c == written[column]
      <4>1. column \in 1..Len(written)
        BY <2>2, <2>4, <3>2
      <4>2. /\ rune = Len(c) + 1 /\ RunesOf(column) = c
        BY <2>1, <2>3, <4>1, Places
      <4>3. Len(c) \in Nat \ {0} /\ DOMAIN c = 1..Len(c) /\ c \in Seq(STRING)
        <5>1. c \in DOMAIN GoReading
          BY <2>1, <4>1, TableRowAssumption DEF RowInv
        <5>2. QED
          BY <2>1, <4>1, <5>1, CellsWritten, TableRowAssumption DEF RowInv, IsExpression
      <4>4. cell = [i \in 1..(rune - 1) |-> c[i]] /\ cells = [i \in 1..(column - 1) |-> written[i]]
        BY <2>1, <3>2, <4>2 DEF RowInv
      <4>5. cell = c /\ cell # <<>>
        <5>1. rune - 1 = Len(c)
          BY <4>2, <4>3
        <5>2. cell = [i \in 1..Len(c) |-> c[i]]
          BY <4>4, <5>1
        <5> HIDE DEF c
        <5>3. cell = c
          BY <4>3, <5>2
        <5>4. QED
          BY <4>3, <5>3
      <4>6. cells' = Append(cells, written[column])
        BY <2>1, <4>5 DEF Flushed
      <4>7. Append([i \in 1..(column - 1) |-> written[i]], written[column]) = [i \in 1..column |-> written[i]]
        BY <2>4, <4>1
      <4>8. QED
        BY <4>4, <4>6, <4>7
    <3>3. QED
      BY <3>1, <3>2
  <2>8. Len(RunesOf(column)') \in Nat \/ column' > Len(written)
    BY <2>1, <2>2, <2>4, CellsWritten DEF RowInv, RunesOf
  <2>9. column' \in 0..(Len(written) + 1) /\ column' # 0 /\ column' - 1 = column
    BY <2>2, <2>4
  <2>10. cell' = [i \in 1..(rune' - 1) |-> RunesOf(column)'[i]]
    BY <2>1, <2>4
  <2>11. Knows(Now', quote', escaped', depth')
    BY <2>1, <2>2, <2>5, <2>6
  <2>12. IF column' <= Len(written') THEN rune' <= Len(RunesOf(column)') + 1 ELSE rune' = 1
    BY <2>1, <2>2, <2>4, <2>8
  <2>13. QED
    BY <2>1, <2>2, <2>4, <2>7, <2>9, <2>10, <2>11, <2>12 DEF RowInv, CellsComeBack
<1>4. CASE EndOfRow
  <2>1. /\ cutting = "scan" /\ ~Scanning /\ cells' = Flushed /\ cutting' = "cut" /\ written' = written
    BY <1>4 DEF EndOfRow
  <2>2. column = Len(written) + 1 /\ rune = 1 /\ Len(written) \in Nat
    <3>1. column \in 0..(Len(written) + 1) /\ Len(written) \in Nat
      BY <2>1, Places DEF RowInv
    <3>2. column = Len(written) + 1
      BY <2>1, <3>1 DEF Scanning
    <3>3. QED
      BY <2>1, <3>1, <3>2 DEF RowInv
  <2>3. cell = <<>>
    BY <2>1, <2>2 DEF RowInv
  <2>4. cells = [i \in 1..Len(written) |-> written[i]]
    <3>1. (Len(written) + 1) - 1 = Len(written) /\ Len(written) + 1 # 0
      BY <2>2
    <3>2. QED
      BY <2>1, <2>2, <3>1 DEF RowInv
  <2>5. [i \in 1..Len(written) |-> written[i]] = written
    <3>1. written \in Seq(DOMAIN GoReading)
      BY <2>1, TableRowAssumption DEF RowInv
    <3>2. QED
      BY <3>1
  <2>6. cells' = written'
    BY <2>1, <2>3, <2>4, <2>5 DEF Flushed
  <2>7. QED
    BY <2>1, <2>6 DEF RowInv, CellsComeBack
<1>5. CASE UNCHANGED rowVars
  <2>1. RowInit => RowInit'
    BY <1>5 DEF rowVars, RowInit
  <2>2. Now' = Now /\ RunesOf(column)' = RunesOf(column)
    BY <1>5 DEF rowVars, Now, RunesOf
  <2>3. QED
    BY <1>5, <2>1, <2>2 DEF rowVars, RowInv, CellsComeBack
<1>6. QED
  BY <1>1, <1>2, <1>3, <1>4, <1>5 DEF RowNext

(* Every row of a table comes out as it was written, for any number of     *)
(* cells and any Go expressions in them: one flag for all quotes and a     *)
(* counter for each kind of bracket are enough to know which bars are the  *)
(* row's own (extractTableRowCells).                                       *)
THEOREM RowsComeBack == RowSpec => []CellsComeBack
<1>1. RowInv => CellsComeBack
  BY DEF RowInv
<1>2. QED
  BY <1>1, InitRow, StepRow, PTL DEF RowSpec
-----------------------------------------------------------------------------
(* Factories.  What a definition holds once the first blocks of a body     *)
(* have been read, whatever is wrong with the body.                        *)
TraitMaps == UNION {[S -> Seq(Fields)] : S \in SUBSET STRING}
DefType == [defaults : Seq(Fields), traits : TraitMaps, seen : BOOLEAN]

Represents(d, body, n) ==
  /\ d \in DefType
  /\ d.seen <=> \E j \in 1..(n - 1) : IsDefaults(body, j)
  /\ d.seen => \E j \in 1..(n - 1) :
       /\ IsDefaults(body, j) /\ d.defaults = body[j].fields
       /\ \A k \in 1..(n - 1) : IsDefaults(body, k) => k <= j
  /\ \A t \in STRING : t \in DOMAIN d.traits <=> \E j \in 1..(n - 1) : IsTrait(body, j, t)
  /\ \A t \in DOMAIN d.traits : \E j \in 1..(n - 1) :
       /\ IsTrait(body, j, t) /\ d.traits[t] = body[j].fields
       /\ \A k \in 1..(n - 1) : IsTrait(body, k, t) => j <= k

FactoryTypes ==
  /\ file \in Seq(Item)
  /\ stage \in {"idle", "collect", "validate", "emit", "done", "refused"}
  /\ item \in Nat \ {0} /\ inner \in Nat \ {0} /\ field \in Nat \ {0}
  /\ def \in DefType
  /\ builds \in Seq(Item)
  /\ literal \in Seq(Fields)

LEMMA ItemShape ==
  ASSUME NEW x \in Item
  PROVE  /\ x.kind \in {"factory", "build"} /\ x.name \in STRING
         /\ x.kind = "factory" => x.body \in Seq(FactoryBlock)
         /\ x.kind = "build" => x.traits \in Seq(STRING) /\ x.overrides \in Seq(Fields)
BY DEF Item

LEMMA BlockShape ==
  ASSUME NEW b \in FactoryBlock
  PROVE  /\ b.kind \in {"defaults", "trait"} /\ b.fields \in Seq(Fields)
         /\ b.kind = "trait" => b.name \in STRING
BY DEF FactoryBlock

(* A collected function, with one more name. *)
LEMMA WithOne ==
  ASSUME NEW f \in TraitMaps, NEW t \in STRING, NEW v \in Seq(Fields)
  PROVE  /\ With(f, t, v) \in TraitMaps
         /\ DOMAIN With(f, t, v) = DOMAIN f \union {t}
         /\ \A u \in DOMAIN f \ {t} : With(f, t, v)[u] = f[u]
         /\ With(f, t, v)[t] = v
<1>1. PICK T \in SUBSET STRING : f \in [T -> Seq(Fields)]
  BY DEF TraitMaps
<1>2. With(f, t, v) = [u \in T \union {t} |-> IF u = t THEN v ELSE f[u]]
  BY <1>1 DEF With
<1>3. With(f, t, v) \in [T \union {t} -> Seq(Fields)]
  BY <1>1, <1>2
<1>4. T \union {t} \in SUBSET STRING
  OBVIOUS
<1>5. QED
  BY <1>1, <1>2, <1>3, <1>4 DEF TraitMaps

LEMMA ReadsDefaults ==
  ASSUME NEW d, NEW body \in Seq(FactoryBlock), NEW n \in DOMAIN body,
         Represents(d, body, n), body[n].kind = "defaults"
  PROVE  Represents([d EXCEPT !.defaults = body[n].fields, !.seen = TRUE], body, n + 1)
<1> DEFINE e == [d EXCEPT !.defaults = body[n].fields, !.seen = TRUE]
<1>1. n \in Nat \ {0} /\ body[n].fields \in Seq(Fields) /\ IsDefaults(body, n)
  BY BlockShape DEF IsDefaults
<1>2. 1..((n + 1) - 1) = 1..(n - 1) \union {n}
  BY <1>1
<1>3. /\ e \in DefType /\ e.seen = TRUE /\ e.defaults = body[n].fields /\ e.traits = d.traits
  BY <1>1 DEF DefType, Represents
<1>4. \A t : ~IsTrait(body, n, t)
  BY DEF IsTrait
<1>5. \A k \in 1..((n + 1) - 1) : k <= n
  BY <1>1
<1> HIDE DEF e
<1>6. e.seen <=> \E j \in 1..((n + 1) - 1) : IsDefaults(body, j)
  BY <1>1, <1>2, <1>3
<1>7. \E j \in 1..((n + 1) - 1) :
        /\ IsDefaults(body, j) /\ e.defaults = body[j].fields
        /\ \A k \in 1..((n + 1) - 1) : IsDefaults(body, k) => k <= j
  BY <1>1, <1>2, <1>3, <1>5
<1>8. /\ \A t \in STRING : t \in DOMAIN e.traits <=> \E j \in 1..((n + 1) - 1) : IsTrait(body, j, t)
      /\ \A t \in DOMAIN e.traits : \E j \in 1..((n + 1) - 1) :
           /\ IsTrait(body, j, t) /\ e.traits[t] = body[j].fields
           /\ \A k \in 1..((n + 1) - 1) : IsTrait(body, k, t) => j <= k
  BY <1>2, <1>3, <1>4 DEF Represents
<1>9. Represents(e, body, n + 1)
  BY <1>3, <1>6, <1>7, <1>8 DEF Represents
<1>10. QED
  BY <1>9 DEF e

LEMMA ReadsTrait ==
  ASSUME NEW d, NEW body \in Seq(FactoryBlock), NEW n \in DOMAIN body,
         Represents(d, body, n), body[n].kind = "trait"
  PROVE  Represents(IF body[n].name \in DOMAIN d.traits THEN d
                    ELSE [d EXCEPT !.traits = With(@, body[n].name, body[n].fields)], body, n + 1)
<1> DEFINE t0 == body[n].name
           f0 == body[n].fields
<1>1. n \in Nat \ {0} /\ f0 \in Seq(Fields) /\ t0 \in STRING /\ IsTrait(body, n, t0)
  BY BlockShape DEF IsTrait
<1>2. 1..((n + 1) - 1) = 1..(n - 1) \union {n}
  BY <1>1
<1>3. ~IsDefaults(body, n) /\ \A t : IsTrait(body, n, t) => t = t0
  BY DEF IsDefaults, IsTrait
<1>4. \A k \in 1..(n - 1) : k <= n
  BY <1>1
<1>5. CASE t0 \in DOMAIN d.traits
  <2>1. Represents(d, body, n + 1)
    <3>1. \A t \in DOMAIN d.traits : \E j \in 1..((n + 1) - 1) :
            /\ IsTrait(body, j, t) /\ d.traits[t] = body[j].fields
            /\ \A k \in 1..((n + 1) - 1) : IsTrait(body, k, t) => j <= k
      BY <1>2, <1>4 DEF Represents
    <3>2. \A t \in STRING : t \in DOMAIN d.traits <=> \E j \in 1..((n + 1) - 1) : IsTrait(body, j, t)
      BY <1>2, <1>3, <1>5 DEF Represents
    <3>3. /\ d \in DefType
          /\ d.seen <=> \E j \in 1..((n + 1) - 1) : IsDefaults(body, j)
          /\ d.seen => \E j \in 1..((n + 1) - 1) :
               /\ IsDefaults(body, j) /\ d.defaults = body[j].fields
               /\ \A k \in 1..((n + 1) - 1) : IsDefaults(body, k) => k <= j
      BY <1>2, <1>3 DEF Represents
    <3>4. QED
      BY <3>1, <3>2, <3>3 DEF Represents
  <2>2. QED
    BY <1>5, <2>1
<1>6. CASE t0 \notin DOMAIN d.traits
  <2> DEFINE e == [d EXCEPT !.traits = With(@, t0, f0)]
             ts == With(d.traits, t0, f0)
  <2>1. d.traits \in TraitMaps
    BY DEF Represents, DefType
  <2>2. /\ ts \in TraitMaps
        /\ DOMAIN ts = DOMAIN d.traits \union {t0}
        /\ \A u \in DOMAIN d.traits : ts[u] = d.traits[u]
        /\ ts[t0] = f0
    <3> DEFINE tr == d.traits
    <3>0. tr \in TraitMaps /\ f0 \in Seq(Fields) /\ t0 \in STRING /\ ts = With(tr, t0, f0)
      BY <1>1, <2>1
    <3> HIDE DEF tr, f0, t0, e, ts
    <3>a. /\ With(tr, t0, f0) \in TraitMaps
          /\ DOMAIN With(tr, t0, f0) = DOMAIN tr \union {t0}
          /\ \A u \in DOMAIN tr \ {t0} : With(tr, t0, f0)[u] = tr[u]
          /\ With(tr, t0, f0)[t0] = f0
      BY <3>0, WithOne
    <3>1. /\ ts \in TraitMaps
          /\ DOMAIN ts = DOMAIN d.traits \union {t0}
          /\ \A u \in DOMAIN d.traits \ {t0} : ts[u] = d.traits[u]
          /\ ts[t0] = f0
      BY <3>0, <3>a DEF tr
    <3>2. QED
      BY <1>6, <3>1
  <2> HIDE DEF ts
  <2>3. e \in DefType /\ e.seen = d.seen /\ e.defaults = d.defaults /\ e.traits = ts
    BY <2>2 DEF Represents, DefType, ts
  <2> HIDE DEF e
  <2>4. /\ e.seen <=> \E j \in 1..((n + 1) - 1) : IsDefaults(body, j)
        /\ e.seen => \E j \in 1..((n + 1) - 1) :
             /\ IsDefaults(body, j) /\ e.defaults = body[j].fields
             /\ \A k \in 1..((n + 1) - 1) : IsDefaults(body, k) => k <= j
    BY <1>2, <1>3, <2>3 DEF Represents
  <2>5. \A t \in STRING : t \in DOMAIN ts <=> \E j \in 1..((n + 1) - 1) : IsTrait(body, j, t)
    BY <1>1, <1>2, <1>3, <2>2 DEF Represents
  <2>6. \A t \in DOMAIN ts : \E j \in 1..((n + 1) - 1) :
          /\ IsTrait(body, j, t) /\ ts[t] = body[j].fields
          /\ \A k \in 1..((n + 1) - 1) : IsTrait(body, k, t) => j <= k
    <3>1. SUFFICES ASSUME NEW t \in DOMAIN ts
                   PROVE  \E j \in 1..((n + 1) - 1) :
                            /\ IsTrait(body, j, t) /\ ts[t] = body[j].fields
                            /\ \A k \in 1..((n + 1) - 1) : IsTrait(body, k, t) => j <= k
      OBVIOUS
    <3>2. CASE t = t0
      <4>1. \A k \in 1..(n - 1) : ~IsTrait(body, k, t0)
        BY <1>1, <1>6 DEF Represents
      <4>2. n \in 1..((n + 1) - 1) /\ n <= n
        BY <1>1
      <4>3. QED
        BY <1>1, <1>2, <2>2, <3>2, <4>1, <4>2
    <3>3. CASE t # t0
      <4>1. t \in DOMAIN d.traits /\ ts[t] = d.traits[t] /\ ~IsTrait(body, n, t)
        BY <1>3, <2>2, <3>3
      <4>2. QED
        BY <1>2, <4>1 DEF Represents
    <3>4. QED
      BY <3>2, <3>3
  <2>7. Represents(e, body, n + 1)
    BY <2>3, <2>4, <2>5, <2>6 DEF Represents
  <2>8. QED
    BY <1>6, <2>7 DEF e
<1>7. QED
  BY <1>5, <1>6

LEMMA ReadsNothing == ASSUME NEW body PROVE Represents(NoDef, body, 1)
<1>1. NoFields \in [{} -> Seq(Fields)] /\ {} \in SUBSET STRING
  BY DEF NoFields
<1>2. NoFields \in TraitMaps /\ DOMAIN NoFields = {}
  BY <1>1 DEF TraitMaps
<1>3. <<>> \in Seq(Fields)
  OBVIOUS
<1>4. NoDef \in DefType /\ NoDef.seen = FALSE /\ DOMAIN NoDef.traits = {}
  BY <1>2, <1>3 DEF NoDef, DefType
<1>5. 1..(1 - 1) = {}
  OBVIOUS
<1>6. QED
  BY <1>4, <1>5 DEF Represents

-----------------------------------------------------------------------------
(* A literal with all that is set before the field k of the layer n.       *)
Before(n, k, a, b) == n < a \/ (n = a /\ k < b)
SetLast(lit, layers, a, b, i) ==
  \E n \in DOMAIN layers : \E k \in DOMAIN layers[n] :
    /\ Before(n, k, a, b) /\ lit[i] = layers[n][k]
    /\ \A m \in DOMAIN layers : \A j \in DOMAIN layers[m] :
         Before(m, j, a, b) /\ (m > n \/ (m = n /\ j > k)) => layers[m][j][1] # lit[i][1]
ResolvesTo(lit, layers, a, b) ==
  /\ \A n \in DOMAIN layers : \A k \in DOMAIN layers[n] :
       Before(n, k, a, b) => \E i \in DOMAIN lit : lit[i][1] = layers[n][k][1]
  /\ \A i, j \in DOMAIN lit : i # j => lit[i][1] # lit[j][1]
  /\ \A i \in DOMAIN lit : SetLast(lit, layers, a, b, i)

LEMMA AssignShape ==
  ASSUME NEW lit \in Seq(Fields), NEW f \in Fields
  PROVE  /\ Assign(lit, f) \in Seq(Fields) /\ DOMAIN lit \subseteq DOMAIN Assign(lit, f)
         /\ \E e \in DOMAIN Assign(lit, f) :
              /\ Assign(lit, f)[e] = f
              /\ \A i \in DOMAIN Assign(lit, f) :
                   Assign(lit, f)[i] = f \/ (i \in DOMAIN lit /\ Assign(lit, f)[i] = lit[i] /\ lit[i][1] # f[1])
              /\ \A i \in DOMAIN lit : Assign(lit, f)[i][1] = lit[i][1]
              /\ (\A i, j \in DOMAIN lit : i # j => lit[i][1] # lit[j][1]) =>
                   \A i \in DOMAIN Assign(lit, f) : Assign(lit, f)[i][1] = f[1] => i = e
<1>1. CASE \E i \in DOMAIN lit : lit[i][1] = f[1]
  <2> DEFINE new == [i \in DOMAIN lit |-> IF lit[i][1] = f[1] THEN f ELSE lit[i]]
  <2>1. Assign(lit, f) = new /\ new \in Seq(Fields) /\ DOMAIN new = DOMAIN lit
    BY <1>1 DEF Assign
  <2>2. PICK e \in DOMAIN lit : lit[e][1] = f[1]
    BY <1>1
  <2>3. \A i \in DOMAIN lit : new[i] = IF lit[i][1] = f[1] THEN f ELSE lit[i]
    OBVIOUS
  <2> HIDE DEF new
  <2>4. new[e] = f /\ \A i \in DOMAIN lit : new[i][1] = lit[i][1]
    BY <2>2, <2>3
  <2>5. (\A i, j \in DOMAIN lit : i # j => lit[i][1] # lit[j][1]) =>
          \A i \in DOMAIN new : new[i][1] = f[1] => i = e
    BY <2>1, <2>2, <2>4
  <2>6. QED
    BY <2>1, <2>2, <2>3, <2>4, <2>5
<1>2. CASE \A i \in DOMAIN lit : lit[i][1] # f[1]
  <2> DEFINE new == Append(lit, f)
             e == Len(lit) + 1
  <2>1. Assign(lit, f) = new
    BY <1>2 DEF Assign
  <2>2. /\ new \in Seq(Fields) /\ DOMAIN new = DOMAIN lit \union {e} /\ new[e] = f
        /\ \A i \in DOMAIN lit : new[i] = lit[i]
    OBVIOUS
  <2> HIDE DEF new
  <2>3. QED
    BY <1>2, <2>1, <2>2
<1>3. QED
  BY <1>1, <1>2

LEMMA AssignResolves ==
  ASSUME NEW layers \in Seq(Seq(Fields)), NEW a \in DOMAIN layers, NEW b \in DOMAIN layers[a],
         NEW lit \in Seq(Fields), ResolvesTo(lit, layers, a, b)
  PROVE  /\ Assign(lit, layers[a][b]) \in Seq(Fields)
         /\ ResolvesTo(Assign(lit, layers[a][b]), layers, a, b + 1)
<1> DEFINE f == layers[a][b]
           new == Assign(lit, f)
<1>1. f \in Fields /\ a \in Nat /\ b \in Nat
  OBVIOUS
<1>2. /\ new \in Seq(Fields) /\ DOMAIN lit \subseteq DOMAIN new
  BY <1>1, AssignShape
<1>3. PICK e \in DOMAIN new :
        /\ new[e] = f
        /\ \A i \in DOMAIN new : new[i] = f \/ (i \in DOMAIN lit /\ new[i] = lit[i] /\ lit[i][1] # f[1])
        /\ \A i \in DOMAIN lit : new[i][1] = lit[i][1]
        /\ (\A i, j \in DOMAIN lit : i # j => lit[i][1] # lit[j][1]) =>
             \A i \in DOMAIN new : new[i][1] = f[1] => i = e
  BY <1>1, AssignShape
<1>4. \A n \in DOMAIN layers : \A k \in DOMAIN layers[n] :
        Before(n, k, a, b + 1) <=> Before(n, k, a, b) \/ (n = a /\ k = b)
  BY <1>1 DEF Before
<1>5. \A i, j \in DOMAIN lit : i # j => lit[i][1] # lit[j][1]
  BY DEF ResolvesTo
<1> HIDE DEF new, f
<1>6. \A n \in DOMAIN layers : \A k \in DOMAIN layers[n] :
        Before(n, k, a, b + 1) => \E i \in DOMAIN new : new[i][1] = layers[n][k][1]
  <2>1. SUFFICES ASSUME NEW n \in DOMAIN layers, NEW k \in DOMAIN layers[n], Before(n, k, a, b + 1)
                 PROVE  \E i \in DOMAIN new : new[i][1] = layers[n][k][1]
    OBVIOUS
  <2>2. CASE n = a /\ k = b
    BY <1>3, <2>2 DEF f
  <2>3. CASE Before(n, k, a, b)
    <3>1. PICK i \in DOMAIN lit : lit[i][1] = layers[n][k][1]
      BY <2>3 DEF ResolvesTo
    <3>2. QED
      BY <1>2, <1>3, <3>1
  <2>4. QED
    BY <1>4, <2>1, <2>2, <2>3
<1>7. \A i, j \in DOMAIN new : i # j => new[i][1] # new[j][1]
  <2>1. SUFFICES ASSUME NEW i \in DOMAIN new, NEW j \in DOMAIN new, new[i][1] = new[j][1]
                 PROVE  i = j
    OBVIOUS
  <2>2. \A k \in DOMAIN new : new[k] = f => k = e
    BY <1>3, <1>5
  <2>3. QED
    BY <1>3, <1>5, <2>1, <2>2
<1>8. \A i \in DOMAIN new : SetLast(new, layers, a, b + 1, i)
  <2>1. SUFFICES ASSUME NEW i \in DOMAIN new
                 PROVE  SetLast(new, layers, a, b + 1, i)
    OBVIOUS
  <2>2. CASE new[i] = f
    <3>1. \A m \in DOMAIN layers : \A j \in DOMAIN layers[m] :
            Before(m, j, a, b + 1) => ~(m > a \/ (m = a /\ j > b))
      BY <1>1 DEF Before
    <3>2. Before(a, b, a, b + 1)
      BY <1>1 DEF Before
    <3>3. QED
      BY <2>2, <3>1, <3>2 DEF SetLast, f
  <2>3. CASE i \in DOMAIN lit /\ new[i] = lit[i] /\ lit[i][1] # f[1]
    <3>1. SetLast(lit, layers, a, b, i)
      BY <2>3 DEF ResolvesTo
    <3>2. PICK n \in DOMAIN layers : \E k \in DOMAIN layers[n] :
            /\ Before(n, k, a, b) /\ lit[i] = layers[n][k]
            /\ \A m \in DOMAIN layers : \A j \in DOMAIN layers[m] :
                 Before(m, j, a, b) /\ (m > n \/ (m = n /\ j > k)) => layers[m][j][1] # lit[i][1]
      BY <3>1 DEF SetLast
    <3>3. PICK k \in DOMAIN layers[n] :
            /\ Before(n, k, a, b) /\ lit[i] = layers[n][k]
            /\ \A m \in DOMAIN layers : \A j \in DOMAIN layers[m] :
                 Before(m, j, a, b) /\ (m > n \/ (m = n /\ j > k)) => layers[m][j][1] # lit[i][1]
      BY <3>2
    <3>4. Before(n, k, a, b + 1) /\ new[i] = layers[n][k]
      BY <1>4, <2>3, <3>3
    <3>5. \A m \in DOMAIN layers : \A j \in DOMAIN layers[m] :
            Before(m, j, a, b + 1) /\ (m > n \/ (m = n /\ j > k)) => layers[m][j][1] # new[i][1]
      BY <1>4, <2>3, <3>3 DEF f
    <3>6. QED
      BY <3>4, <3>5 DEF SetLast
  <2>4. QED
    BY <1>3, <2>2, <2>3
<1>9. ResolvesTo(new, layers, a, b + 1)
  BY <1>6, <1>7, <1>8 DEF ResolvesTo
<1>10. QED
  BY <1>2, <1>9 DEF new, f

LEMMA LayerEnds ==
  ASSUME NEW layers \in Seq(Seq(Fields)), NEW a \in DOMAIN layers, NEW b \in Nat \ {0},
         b \notin DOMAIN layers[a], NEW lit, ResolvesTo(lit, layers, a, b)
  PROVE  ResolvesTo(lit, layers, a + 1, 1)
<1>1. \A n \in DOMAIN layers : \A k \in DOMAIN layers[n] :
        Before(n, k, a + 1, 1) <=> Before(n, k, a, b)
  <2>1. SUFFICES ASSUME NEW n \in DOMAIN layers, NEW k \in DOMAIN layers[n]
                 PROVE  Before(n, k, a + 1, 1) <=> Before(n, k, a, b)
    OBVIOUS
  <2>2. layers[n] \in Seq(Fields) /\ layers[a] \in Seq(Fields) /\ a \in Nat /\ n \in Nat
    OBVIOUS
  <2>3. k \in 1..Len(layers[n]) /\ b > Len(layers[a]) /\ Len(layers[a]) \in Nat
    BY <2>2
  <2>4. QED
    BY <2>2, <2>3 DEF Before
<1>2. \A i : SetLast(lit, layers, a, b, i) => SetLast(lit, layers, a + 1, 1, i)
  BY <1>1 DEF SetLast
<1>3. QED
  BY <1>1, <1>2 DEF ResolvesTo

LEMMA NothingResolved ==
  ASSUME NEW layers \in Seq(Seq(Fields))
  PROVE  ResolvesTo(<<>>, layers, 1, 1)
<1>1. \A n \in DOMAIN layers : \A k \in DOMAIN layers[n] : ~Before(n, k, 1, 1)
  <2>1. SUFFICES ASSUME NEW n \in DOMAIN layers, NEW k \in DOMAIN layers[n]
                 PROVE  ~Before(n, k, 1, 1)
    OBVIOUS
  <2>2. n >= 1 /\ n \in Nat /\ layers[n] \in Seq(Fields)
    OBVIOUS
  <2>3. k >= 1 /\ k \in Nat
    BY <2>2
  <2>4. QED
    BY <2>2, <2>3 DEF Before
<1>2. QED
  BY <1>1 DEF ResolvesTo

LEMMA AllResolved ==
  ASSUME NEW layers \in Seq(Seq(Fields)), NEW a \in Nat, a \notin DOMAIN layers, a # 0,
         NEW lit, ResolvesTo(lit, layers, a, 1)
  PROVE  Resolves(lit, layers)
<1>1. \A n \in DOMAIN layers : \A k \in DOMAIN layers[n] : Before(n, k, a, 1)
  BY DEF Before
<1>2. QED
  BY <1>1 DEF ResolvesTo, SetLast, Resolves

-----------------------------------------------------------------------------
(* The first walk has come to Reach; what it knows is what the file says   *)
(* before that place.                                                      *)
Reach == IF stage = "collect" THEN item ELSE Len(file) + 1
IsFirst(i, t) == Declares(i, t) /\ \A k \in 1..(Reach - 1) : Declares(k, t) => i <= k

WalkInv ==
  /\ stage = "idle" => file = <<>> /\ item = 1
  /\ stage = "collect" => item <= Len(file) + 1
  /\ IF At("collect", "factory")
     THEN /\ Represents(def, file[item].body, inner) /\ inner <= Len(file[item].body) + 1
          /\ Redeclared => def = NoDef /\ inner = 1
     ELSE def = NoDef /\ (~At("emit", "build") => inner = 1)

FactoriesKnown ==
  /\ \A t \in STRING : t \in DOMAIN factories <=> \E i \in 1..(Reach - 1) : Declares(i, t)
  /\ \A t \in DOMAIN factories :
       /\ t \in STRING
       /\ \E i \in 1..(Reach - 1) :
            IsFirst(i, t) /\ Represents(factories[t], file[i].body, Len(file[i].body) + 1)

BuildsKnown ==
  /\ \A n \in DOMAIN builds : \E i \in 1..(Reach - 1) : file[i] = builds[n] /\ file[i].kind = "build"
  /\ \A i \in 1..(Reach - 1) : file[i].kind = "build" => \E n \in DOMAIN builds : builds[n] = file[i]

LEMMA FileShape ==
  ASSUME FactoryTypes, NEW i \in DOMAIN file
  PROVE  /\ i \in 1..Len(file) /\ i \in Nat /\ file[i] \in Item
         /\ file[i].kind \in {"factory", "build"} /\ file[i].name \in STRING
         /\ file[i].kind = "factory" => file[i].body \in Seq(FactoryBlock)
         /\ file[i].kind = "build" =>
              file[i].traits \in Seq(STRING) /\ file[i].overrides \in Seq(Fields)
<1>1. file[i] \in Item /\ i \in 1..Len(file) /\ i \in Nat
  BY DEF FactoryTypes
<1>2. QED
  BY <1>1, ItemShape

LEMMA LayersShape ==
  ASSUME NEW d \in DefType, NEW b \in Item, b.kind = "build"
  PROVE  /\ Layers(d, b) \in Seq(Seq(Fields))
         /\ DOMAIN Layers(d, b) = 1..(Len(b.traits) + 2) /\ Len(b.traits) \in Nat
<1>1. b.traits \in Seq(STRING) /\ b.overrides \in Seq(Fields) /\ Len(b.traits) \in Nat
  BY ItemShape
<1>2. d.defaults \in Seq(Fields) /\ d.traits \in TraitMaps
  BY DEF DefType
<1>3. \A t : TraitFields(d, t) \in Seq(Fields)
  <2>1. SUFFICES ASSUME NEW t
                 PROVE  TraitFields(d, t) \in Seq(Fields)
    OBVIOUS
  <2> DEFINE ts == d.traits
  <2>2. PICK S \in SUBSET STRING : ts \in [S -> Seq(Fields)]
    BY <1>2 DEF TraitMaps
  <2>3. TraitFields(d, t) = IF t \in DOMAIN ts THEN ts[t] ELSE <<>>
    BY DEF TraitFields
  <2> HIDE DEF ts
  <2>4. t \in DOMAIN ts => ts[t] \in Seq(Fields)
    BY <2>2
  <2>5. <<>> \in Seq(Fields)
    OBVIOUS
  <2>6. QED
    BY <2>3, <2>4, <2>5
<1> DEFINE N == Len(b.traits) + 2
           L(n) == CASE n = 1 -> d.defaults
                     [] n = Len(b.traits) + 2 -> b.overrides
                     [] OTHER -> TraitFields(d, b.traits[n - 1])
<1>4. \A n \in 1..N : L(n) \in Seq(Fields)
  BY <1>1, <1>2, <1>3
<1>5. Layers(d, b) = [n \in 1..N |-> L(n)] /\ N \in Nat
  BY <1>1 DEF Layers
<1> HIDE DEF N, L
<1>6. Layers(d, b) \in [1..N -> Seq(Fields)]
  BY <1>4, <1>5
<1>7. QED
  BY <1>1, <1>5, <1>6 DEF N

LEMMA TheLayers ==
  ASSUME FactoryTypes, WalkInv, FactoriesKnown, At("emit", "build"), Known
  PROVE  /\ TheseLayers \in Seq(Seq(Fields))
         /\ DOMAIN TheseLayers = 1..(Len(file[item].traits) + 2) /\ Len(file[item].traits) \in Nat
<1>1. file[item] \in Item /\ file[item].kind = "build"
  BY FileShape DEF At
<1>2. factories[file[item].name] \in DefType
  BY DEF FactoriesKnown, Known, Represents
<1>3. QED
  BY <1>1, <1>2, LayersShape DEF TheseLayers

LEMMA StepTypes ==
  FactoryTypes /\ WalkInv /\ FactoriesKnown /\ [FactoriesNext]_factoryVars => FactoryTypes'
<1> SUFFICES ASSUME FactoryTypes, WalkInv, FactoriesKnown, [FactoriesNext]_factoryVars
             PROVE  FactoryTypes'
  OBVIOUS
<1>n. NoDef \in DefType
  BY ReadsNothing DEF Represents
<1>1. CASE BeginFile
  BY <1>1, FactoriesAssumption DEF BeginFile, FactoryTypes
<1>2. CASE RefuseFactory \/ Collected \/ ValidateBuild \/ Validated \/ EmitFactory \/ Emitted \/ NextLayer
  <2>1. /\ UNCHANGED <<file, def, builds, literal>>
        /\ item' \in {item, item + 1, 1} /\ inner' \in {inner, inner + 1} /\ field' \in {field, 1}
        /\ stage' \in {stage, "validate", "emit", "refused", "done"}
    BY <1>2 DEF RefuseFactory, Collected, ValidateBuild, Validated, EmitFactory, Emitted, NextLayer
  <2>2. QED
    BY <2>1 DEF FactoryTypes
<1>3. CASE CollectDefaults
  <2>1. /\ At("collect", "factory") /\ inner \in DOMAIN file[item].body /\ ThisBlock.kind = "defaults"
        /\ def' = [def EXCEPT !.defaults = ThisBlock.fields, !.seen = TRUE] /\ inner' = inner + 1
        /\ UNCHANGED <<file, stage, item, field, factories, builds, errors, literal, literals>>
    BY <1>3 DEF CollectDefaults, InBody
  <2>2. file[item].body \in Seq(FactoryBlock)
    BY <2>1, FileShape DEF At
  <2>3. Represents(def, file[item].body, inner)
    BY <2>1 DEF WalkInv
  <2>4. Represents(def', file[item].body, inner + 1)
    BY <2>1, <2>2, <2>3, ReadsDefaults DEF ThisBlock
  <2>5. QED
    BY <2>1, <2>4 DEF FactoryTypes, Represents
<1>4. CASE CollectTrait
  <2>1. /\ At("collect", "factory") /\ inner \in DOMAIN file[item].body /\ ThisBlock.kind = "trait"
        /\ def' = IF ThisBlock.name \in DOMAIN def.traits THEN def
                  ELSE [def EXCEPT !.traits = With(@, ThisBlock.name, ThisBlock.fields)]
        /\ inner' = inner + 1
        /\ UNCHANGED <<file, stage, item, field, factories, builds, literal, literals>>
    BY <1>4 DEF CollectTrait, InBody
  <2>2. file[item].body \in Seq(FactoryBlock)
    BY <2>1, FileShape DEF At
  <2>3. Represents(def, file[item].body, inner)
    BY <2>1 DEF WalkInv
  <2>4. Represents(def', file[item].body, inner + 1)
    BY <2>1, <2>2, <2>3, ReadsTrait DEF ThisBlock
  <2>5. QED
    BY <2>1, <2>4 DEF FactoryTypes, Represents
<1>5. CASE CollectFactory
  <2>1. UNCHANGED <<file, stage, field, builds, literal>> /\ item' = item + 1 /\ inner' = 1 /\ def' = NoDef
    BY <1>5 DEF CollectFactory
  <2>2. QED
    BY <1>n, <2>1 DEF FactoryTypes
<1>6. CASE CollectBuild
  <2>1. file[item] \in Item
    BY <1>6, FileShape DEF CollectBuild, At
  <2>2. QED
    BY <1>6, <2>1 DEF CollectBuild, FactoryTypes
<1>7. CASE Apply
  <2>1. /\ At("emit", "build") /\ Known /\ inner \in DOMAIN TheseLayers /\ field \in DOMAIN TheseLayers[inner]
        /\ literal' = Assign(literal, TheseLayers[inner][field]) /\ field' = field + 1
        /\ UNCHANGED <<file, stage, item, inner, def, factories, builds, errors, literals>>
    BY <1>7 DEF Apply
  <2>2. TheseLayers[inner][field] \in Fields
    BY <2>1, TheLayers
  <2>3. literal' \in Seq(Fields)
    BY <2>1, <2>2, AssignShape DEF FactoryTypes
  <2>4. QED
    BY <2>1, <2>3 DEF FactoryTypes
<1>8. CASE EmitBuild
  BY <1>8 DEF EmitBuild, FactoryTypes
<1>9. CASE UNCHANGED factoryVars
  BY <1>9 DEF factoryVars, FactoryTypes
<1>10. QED
  BY <1>1, <1>2, <1>3, <1>4, <1>5, <1>6, <1>7, <1>8, <1>9 DEF FactoriesNext

LEMMA FreshPlace ==
  ASSUME NEW f \in Seq(Item), NEW i \in DOMAIN f, f[i].kind = "factory"
  PROVE  Represents(NoDef, f[i].body, 1) /\ 1 <= Len(f[i].body) + 1
<1>1. f[i].body \in Seq(FactoryBlock)
  BY ItemShape
<1>2. Len(f[i].body) \in Nat
  BY <1>1
<1>3. QED
  BY <1>2, ReadsNothing

LEMMA StepWalk ==
  FactoryTypes /\ WalkInv /\ FactoriesKnown /\ [FactoriesNext]_factoryVars => WalkInv'
<1> SUFFICES ASSUME FactoryTypes, WalkInv, FactoriesKnown, [FactoriesNext]_factoryVars
             PROVE  WalkInv'
  OBVIOUS
<1>t. FactoryTypes'
  BY StepTypes
(* Wherever an item begins, nothing of it has been read. *)
<1>f. ASSUME def' = NoDef, inner' = 1, stage' # "idle", stage' = "collect" => item' <= Len(file') + 1
      PROVE  WalkInv'
  <2>1. At("collect", "factory")' =>
          Represents(NoDef, file'[item'].body, 1) /\ 1 <= Len(file'[item'].body) + 1
    BY <1>t, FreshPlace DEF At, FactoryTypes
  <2>2. QED
    BY <1>f, <2>1 DEF WalkInv
<1>1. CASE BeginFile
  <2>1. def' = NoDef /\ inner' = 1 /\ item' = 1 /\ stage' = "collect"
    BY <1>1 DEF BeginFile, WalkInv, At
  <2>2. Len(file') \in Nat
    BY <1>t DEF FactoryTypes
  <2>3. QED
    BY <1>f, <2>1, <2>2
<1>2. CASE RefuseFactory
  <2>1. /\ At("collect", "factory") /\ Redeclared /\ item' = item + 1
        /\ UNCHANGED <<file, stage, inner, def>>
    BY <1>2 DEF RefuseFactory, Redeclared
  <2>2. def = NoDef /\ inner = 1
    BY <2>1 DEF WalkInv
  <2>3. item \in 1..Len(file) /\ stage = "collect" /\ Len(file) \in Nat /\ item \in Nat
    BY <2>1, FileShape DEF At, FactoryTypes
  <2>4. QED
    BY <1>f, <2>1, <2>2, <2>3
<1>3. CASE CollectDefaults
  <2>1. /\ At("collect", "factory") /\ ~Redeclared /\ inner \in DOMAIN file[item].body
        /\ ThisBlock.kind = "defaults"
        /\ def' = [def EXCEPT !.defaults = ThisBlock.fields, !.seen = TRUE] /\ inner' = inner + 1
        /\ UNCHANGED <<file, stage, item, factories>>
    BY <1>3 DEF CollectDefaults, InBody
  <2>2. file[item].body \in Seq(FactoryBlock) /\ Represents(def, file[item].body, inner)
    BY <2>1, FileShape DEF At, WalkInv
  <2>3. Represents(def', file[item].body, inner')
    BY <2>1, <2>2, ReadsDefaults DEF ThisBlock
  <2>4. inner' <= Len(file[item].body) + 1
    BY <2>1, <2>2
  <2>5. QED
    BY <2>1, <2>3, <2>4 DEF WalkInv, At, Redeclared
<1>4. CASE CollectTrait
  <2>1. /\ At("collect", "factory") /\ ~Redeclared /\ inner \in DOMAIN file[item].body
        /\ ThisBlock.kind = "trait"
        /\ def' = IF ThisBlock.name \in DOMAIN def.traits THEN def
                  ELSE [def EXCEPT !.traits = With(@, ThisBlock.name, ThisBlock.fields)]
        /\ inner' = inner + 1
        /\ UNCHANGED <<file, stage, item, factories>>
    BY <1>4 DEF CollectTrait, InBody
  <2>2. file[item].body \in Seq(FactoryBlock) /\ Represents(def, file[item].body, inner)
    BY <2>1, FileShape DEF At, WalkInv
  <2>3. Represents(def', file[item].body, inner')
    BY <2>1, <2>2, ReadsTrait DEF ThisBlock
  <2>4. inner' <= Len(file[item].body) + 1
    BY <2>1, <2>2
  <2>5. QED
    BY <2>1, <2>3, <2>4 DEF WalkInv, At, Redeclared
<1>5. CASE CollectFactory
  <2>1. def' = NoDef /\ inner' = 1 /\ item' = item + 1 /\ UNCHANGED <<file, stage>> /\ At("collect", "factory")
    BY <1>5 DEF CollectFactory
  <2>2. item \in 1..Len(file) /\ stage = "collect" /\ Len(file) \in Nat
    BY <2>1, FileShape DEF At, FactoryTypes
  <2>3. QED
    BY <1>f, <2>1, <2>2
<1>6. CASE CollectBuild
  <2>1. At("collect", "build") /\ item' = item + 1 /\ UNCHANGED <<file, stage, inner, def>>
    BY <1>6 DEF CollectBuild
  <2>2. /\ item \in 1..Len(file) /\ stage = "collect" /\ Len(file) \in Nat
        /\ ~At("collect", "factory") /\ ~At("emit", "build")
    BY <2>1, FileShape DEF At, FactoryTypes
  <2>3. def = NoDef /\ inner = 1
    BY <2>2 DEF WalkInv
  <2>4. QED
    BY <1>f, <2>1, <2>2, <2>3
<1>7. CASE Collected
  <2>1. /\ ~At("collect", "factory") /\ ~At("emit", "build") /\ stage' = "validate"
        /\ UNCHANGED <<inner, def>>
    BY <1>7 DEF Collected, At
  <2>2. def = NoDef /\ inner = 1
    BY <2>1 DEF WalkInv
  <2>3. QED
    BY <1>f, <2>1, <2>2
<1>8. CASE ValidateBuild \/ Validated
  <2>1. /\ ~At("collect", "factory") /\ ~At("emit", "build") /\ stage' \in {"validate", "emit", "refused"}
        /\ UNCHANGED <<inner, def>>
    BY <1>8 DEF ValidateBuild, Validated, At
  <2>2. def = NoDef /\ inner = 1
    BY <2>1 DEF WalkInv
  <2>3. QED
    BY <1>f, <2>1, <2>2
<1>9. CASE Apply \/ NextLayer
  <2>1. stage = "emit" /\ At("emit", "build") /\ UNCHANGED <<file, stage, item, def>>
    BY <1>9 DEF Apply, NextLayer, At
  <2>2. QED
    BY <2>1 DEF WalkInv, At
<1>10. CASE EmitBuild \/ EmitFactory \/ Emitted
  <2>1. /\ stage = "emit" /\ stage' \in {"emit", "done"} /\ def' = def
        /\ inner' = 1 \/ (inner' = inner /\ ~At("emit", "build"))
    BY <1>10 DEF EmitBuild, EmitFactory, Emitted, At
  <2>2. QED
    BY <2>1 DEF WalkInv, At
<1>11. CASE UNCHANGED factoryVars
  BY <1>11 DEF factoryVars, WalkInv, At, Redeclared
<1>12. QED
  BY <1>1, <1>2, <1>3, <1>4, <1>5, <1>6, <1>7, <1>8, <1>9, <1>10, <1>11 DEF FactoriesNext

LEMMA StepKnown ==
  FactoryTypes /\ WalkInv /\ FactoriesKnown /\ BuildsKnown /\ [FactoriesNext]_factoryVars
    => FactoriesKnown' /\ BuildsKnown'
<1> SUFFICES ASSUME FactoryTypes, WalkInv, FactoriesKnown, BuildsKnown, [FactoriesNext]_factoryVars
             PROVE  FactoriesKnown' /\ BuildsKnown'
  OBVIOUS
<1>t. Len(file) \in Nat /\ item \in Nat \ {0} /\ (stage = "collect" => item <= Len(file) + 1)
  BY DEF FactoryTypes, WalkInv
<1>s. ASSUME UNCHANGED <<file, factories, builds>>, Reach' = Reach
      PROVE  FactoriesKnown' /\ BuildsKnown'
  BY <1>s DEF FactoriesKnown, BuildsKnown, IsFirst, Declares
(* One item further. *)
<1>m. ASSUME item \in DOMAIN file, stage = "collect", UNCHANGED <<file, stage>>, item' = item + 1
      PROVE  /\ Reach = item /\ Reach' = item + 1 /\ item \in Nat
             /\ 1..(Reach' - 1) = 1..(Reach - 1) \union {item}
             /\ \A k \in 1..(Reach - 1) : k <= item
  BY <1>m, <1>t DEF Reach
<1>1. CASE BeginFile
  <2>1. file = <<>> /\ stage = "idle" /\ item' = 1 /\ stage' = "collect" /\ UNCHANGED <<factories, builds>>
    BY <1>1 DEF BeginFile, WalkInv
  <2>2. Reach = 1 /\ Reach' = 1
    BY <2>1 DEF Reach
  <2>3. 1..(1 - 1) = {}
    OBVIOUS
  <2>4. (\A t \in DOMAIN factories : FALSE) /\ (\A n \in DOMAIN builds : FALSE)
    BY <2>2, <2>3 DEF FactoriesKnown, BuildsKnown
  <2>5. QED
    BY <2>1, <2>2, <2>3, <2>4 DEF FactoriesKnown, BuildsKnown
<1>2. CASE RefuseFactory
  <2> DEFINE t0 == file[item].name
  <2>1. /\ item \in DOMAIN file /\ stage = "collect" /\ UNCHANGED <<file, stage, factories, builds>>
        /\ item' = item + 1 /\ Declares(item, t0) /\ t0 \in DOMAIN factories /\ file[item].kind = "factory"
    BY <1>2 DEF RefuseFactory, Redeclared, At, Declares
  <2>2. /\ Reach = item /\ Reach' = item + 1 /\ item \in Nat
        /\ 1..(Reach' - 1) = 1..(Reach - 1) \union {item}
        /\ \A k \in 1..(Reach - 1) : k <= item
    BY <1>m, <2>1
  <2>3. \A i, t : Declares(i, t)' <=> Declares(i, t)
    BY <2>1 DEF Declares
  <2>4. \A t : Declares(item, t) => t = t0
    BY DEF Declares
  <2>5. BuildsKnown'
    BY <2>1, <2>2 DEF BuildsKnown
  <2>6. \A i \in 1..(Reach - 1), t \in STRING : IsFirst(i, t) => IsFirst(i, t)'
    BY <2>2, <2>3 DEF IsFirst
  <2>7. \A t \in STRING : t \in DOMAIN factories' <=> \E i \in 1..(Reach' - 1) : Declares(i, t)'
    BY <2>1, <2>2, <2>3, <2>4 DEF FactoriesKnown
  <2>8. QED
    BY <2>1, <2>2, <2>5, <2>6, <2>7 DEF FactoriesKnown
<1>3. CASE CollectDefaults \/ CollectTrait
  <2>1. UNCHANGED <<file, factories, builds, stage, item>>
    BY <1>3 DEF CollectDefaults, CollectTrait
  <2>2. QED
    BY <1>s, <2>1 DEF Reach
<1>4. CASE CollectFactory
  <2> DEFINE t0 == file[item].name
  <2>1. /\ item \in DOMAIN file /\ stage = "collect" /\ UNCHANGED <<file, stage, builds>>
        /\ item' = item + 1 /\ Declares(item, t0) /\ t0 \notin DOMAIN factories
        /\ At("collect", "factory") /\ ~Redeclared /\ inner \notin DOMAIN file[item].body
        /\ factories' = With(factories, t0, def)
    BY <1>4 DEF CollectFactory, Redeclared, At, Declares
  <2>2. /\ Reach = item /\ Reach' = item + 1 /\ item \in Nat
        /\ 1..(Reach' - 1) = 1..(Reach - 1) \union {item}
        /\ \A k \in 1..(Reach - 1) : k <= item
    BY <1>m, <2>1
  <2>3. \A i, t : Declares(i, t)' <=> Declares(i, t)
    BY <2>1 DEF Declares
  <2>4. (\A t : Declares(item, t) => t = t0) /\ t0 \in STRING
    BY <2>1, FileShape DEF Declares
  <2>5. BuildsKnown'
    BY <2>1, <2>2 DEF BuildsKnown, At
  <2>6. /\ DOMAIN factories' = DOMAIN factories \union {t0} /\ factories'[t0] = def
        /\ \A t \in DOMAIN factories : factories'[t] = factories[t]
    BY <2>1 DEF With
  <2>7. \A i \in 1..(Reach - 1), t \in STRING : IsFirst(i, t) => IsFirst(i, t)'
    BY <2>2, <2>3 DEF IsFirst
  <2>8. \A t \in STRING : t \in DOMAIN factories' <=> \E i \in 1..(Reach' - 1) : Declares(i, t)'
    BY <2>1, <2>2, <2>3, <2>4, <2>6 DEF FactoriesKnown
  <2>9. Represents(def, file[item].body, Len(file[item].body) + 1)
    <3>1. Represents(def, file[item].body, inner) /\ inner <= Len(file[item].body) + 1
      BY <2>1 DEF WalkInv
    <3>2. file[item].body \in Seq(FactoryBlock) /\ inner \in Nat \ {0}
      BY <2>1, FileShape DEF At, FactoryTypes
    <3>3. inner = Len(file[item].body) + 1
      BY <2>1, <3>1, <3>2
    <3>4. QED
      BY <3>1, <3>3
  <2>10. \A i, t : i = item /\ t = t0 => IsFirst(i, t)'
    <3>1. \A k \in 1..(Reach - 1) : ~Declares(k, t0)
      BY <2>1, <2>4 DEF FactoriesKnown
    <3>2. \A k \in 1..(Reach' - 1) : Declares(k, t0) => item <= k
      BY <2>2, <3>1
    <3>3. QED
      BY <2>1, <2>3, <3>2 DEF IsFirst
  <2>11. ASSUME NEW t \in DOMAIN factories'
         PROVE  /\ t \in STRING
                /\ \E i \in 1..(Reach' - 1) : IsFirst(i, t)'
                     /\ Represents(factories'[t], file'[i].body, Len(file'[i].body) + 1)
    <3>1. CASE t = t0
      BY <2>1, <2>2, <2>4, <2>6, <2>9, <2>10, <3>1
    <3>2. CASE t \in DOMAIN factories
      BY <2>1, <2>2, <2>6, <2>7, <3>2 DEF FactoriesKnown
    <3>3. QED
      BY <2>6, <2>11, <3>1, <3>2
  <2>12. QED
    BY <2>5, <2>8, <2>11 DEF FactoriesKnown
<1>5. CASE CollectBuild
  <2>1. /\ item \in DOMAIN file /\ stage = "collect" /\ UNCHANGED <<file, stage, factories>>
        /\ item' = item + 1 /\ file[item].kind = "build" /\ builds' = Append(builds, file[item])
    BY <1>5 DEF CollectBuild, At
  <2>2. /\ Reach = item /\ Reach' = item + 1 /\ item \in Nat
        /\ 1..(Reach' - 1) = 1..(Reach - 1) \union {item}
        /\ \A k \in 1..(Reach - 1) : k <= item
    BY <1>m, <2>1
  <2>3. \A i, t : Declares(i, t)' <=> Declares(i, t)
    BY <2>1 DEF Declares
  <2>4. \A t : ~Declares(item, t)
    BY <2>1 DEF Declares
  <2>5. FactoriesKnown'
    <3>1. \A i \in 1..(Reach - 1), t \in STRING : IsFirst(i, t) => IsFirst(i, t)'
      BY <2>2, <2>3 DEF IsFirst
    <3>2. \A t \in STRING : t \in DOMAIN factories' <=> \E i \in 1..(Reach' - 1) : Declares(i, t)'
      BY <2>1, <2>2, <2>3, <2>4 DEF FactoriesKnown
    <3>3. QED
      BY <2>1, <2>2, <3>1, <3>2 DEF FactoriesKnown
  <2>6. /\ DOMAIN builds' = DOMAIN builds \union {Len(builds) + 1}
        /\ builds'[Len(builds) + 1] = file[item]
        /\ \A n \in DOMAIN builds : builds'[n] = builds[n]
    BY <2>1 DEF FactoryTypes
  <2>7. BuildsKnown'
    <3> DEFINE bs == builds'
               N == Len(builds) + 1
    <3>0. /\ file' = file /\ file[item].kind = "build" /\ DOMAIN bs = DOMAIN builds \union {N} /\ bs[N] = file[item]
          /\ \A n \in DOMAIN builds : bs[n] = builds[n]
      BY <2>1, <2>6
    <3> HIDE DEF bs, N
    <3>1. \A n \in DOMAIN bs : \E i \in 1..(Reach' - 1) : file'[i] = bs[n] /\ file'[i].kind = "build"
      BY <2>2, <3>0 DEF BuildsKnown
    <3>2. \A i \in 1..(Reach' - 1) : file'[i].kind = "build" => \E n \in DOMAIN bs : bs[n] = file'[i]
      BY <2>2, <3>0 DEF BuildsKnown
    <3>3. QED
      BY <3>1, <3>2 DEF BuildsKnown, bs
  <2>8. QED
    BY <2>5, <2>7
<1>6. CASE Collected
  <2>1. UNCHANGED <<file, factories, builds>> /\ Reach' = Reach
    BY <1>6, <1>t DEF Collected, Reach, FactoryTypes
  <2>2. QED
    BY <1>s, <2>1
<1>7. CASE ValidateBuild \/ Validated \/ Apply \/ NextLayer \/ EmitBuild \/ EmitFactory \/ Emitted
  <2>1. UNCHANGED <<file, factories, builds>> /\ stage # "collect" /\ stage' # "collect"
    BY <1>7 DEF ValidateBuild, Validated, Apply, NextLayer, EmitBuild, EmitFactory, Emitted, At
  <2>2. QED
    BY <1>s, <2>1 DEF Reach
<1>8. CASE UNCHANGED factoryVars
  BY <1>8, <1>s DEF factoryVars, Reach
<1>9. QED
  BY <1>1, <1>2, <1>3, <1>4, <1>5, <1>6, <1>7, <1>8 DEF FactoriesNext

-----------------------------------------------------------------------------
(* There is an error as soon as something that was read is wrong.          *)
DoubleTrait(body, n) ==
  \E j \in 1..(n - 1) : \E k \in 1..(j - 1) : \E t \in STRING :
    IsTrait(body, j, t) /\ IsTrait(body, k, t)
FineFactory(i) ==
  /\ \A k \in 1..(i - 1) : ~Declares(k, file[i].name)
  /\ \E j \in 1..Len(file[i].body) : IsDefaults(file[i].body, j)
  /\ ~DoubleTrait(file[i].body, Len(file[i].body) + 1)
FineBefore == \A i \in 1..(Reach - 1) : file[i].kind = "factory" => FineFactory(i)
GoodBuild(b) ==
  /\ b.name \in DOMAIN factories
  /\ \A n \in DOMAIN b.traits : b.traits[n] \in DOMAIN factories[b.name].traits

ErrorsKnown ==
  /\ stage = "idle" => errors = {}
  /\ stage = "collect" =>
       (errors = {} <=> /\ FineBefore
                        /\ At("collect", "factory") => ~DoubleTrait(file[item].body, inner))
  /\ stage = "validate" =>
       /\ item <= Len(builds) + 1
       /\ errors = {} <=> FineBefore /\ \A n \in 1..(item - 1) : GoodBuild(builds[n])
  /\ stage \in {"emit", "done"} => FineBefore /\ \A n \in DOMAIN builds : GoodBuild(builds[n])
  /\ stage = "refused" => ~(FineBefore /\ \A n \in DOMAIN builds : GoodBuild(builds[n]))

LEMMA NoDoubleYet == ASSUME NEW body PROVE ~DoubleTrait(body, 1)
<1>1. 1..(1 - 1) = {}
  OBVIOUS
<1>2. QED
  BY <1>1 DEF DoubleTrait

LEMMA DoubleStep ==
  ASSUME NEW body, NEW n \in Nat \ {0}
  PROVE  DoubleTrait(body, n + 1) <=>
           \/ DoubleTrait(body, n)
           \/ \E t \in STRING : IsTrait(body, n, t) /\ \E k \in 1..(n - 1) : IsTrait(body, k, t)
<1>1. 1..((n + 1) - 1) = 1..(n - 1) \union {n}
  OBVIOUS
<1>2. QED
  BY <1>1 DEF DoubleTrait

LEMMA StepErrors ==
  FactoryTypes /\ WalkInv /\ FactoriesKnown /\ BuildsKnown /\ ErrorsKnown /\ [FactoriesNext]_factoryVars
    => ErrorsKnown'
<1> SUFFICES ASSUME FactoryTypes, WalkInv, FactoriesKnown, BuildsKnown, ErrorsKnown,
                    [FactoriesNext]_factoryVars
             PROVE  ErrorsKnown'
  OBVIOUS
<1>t. Len(file) \in Nat /\ item \in Nat \ {0} /\ inner \in Nat \ {0}
  BY DEF FactoryTypes
<1>w. FactoryTypes' /\ WalkInv'
  BY StepTypes, StepWalk
<1>f. ASSUME file' = file
      PROVE  /\ \A i : FineFactory(i)' <=> FineFactory(i)
             /\ Reach' = Reach => (FineBefore' <=> FineBefore)
  BY <1>f DEF FineFactory, Declares, FineBefore
(* Once an item has been read the next one begins. *)
<1>m. ASSUME item \in DOMAIN file, stage = "collect", UNCHANGED <<file, stage>>, item' = item + 1
      PROVE  /\ item \in Nat /\ Reach = item
             /\ FineBefore' <=> FineBefore /\ (file[item].kind = "factory" => FineFactory(item))
             /\ At("collect", "factory")' /\ inner' = 1 => ~DoubleTrait(file[item].body, inner)'
  <2>1. Reach = item /\ Reach' = item + 1 /\ item \in Nat /\ 1..(Reach' - 1) = 1..(Reach - 1) \union {item}
    BY <1>m, <1>t DEF Reach
  <2>2. FineBefore' <=> FineBefore /\ (file[item].kind = "factory" => FineFactory(item))
    BY <1>f, <1>m, <2>1 DEF FineBefore
  <2>3. QED
    BY <2>1, <2>2, NoDoubleYet
<1>1. CASE BeginFile
  <2>1. file = <<>> /\ stage = "idle" /\ item' = 1 /\ stage' = "collect" /\ errors' = errors /\ inner' = 1
    BY <1>1 DEF BeginFile, WalkInv, At
  <2>2. Reach' = 1 /\ errors = {}
    BY <2>1 DEF Reach, ErrorsKnown
  <2>3. 1..(1 - 1) = {}
    OBVIOUS
  <2>4. FineBefore' /\ ~DoubleTrait(file[item].body, inner)'
    BY <2>1, <2>2, <2>3, NoDoubleYet DEF FineBefore
  <2>5. QED
    BY <2>1, <2>2, <2>4 DEF ErrorsKnown
<1>2. CASE RefuseFactory
  <2>1. /\ item \in DOMAIN file /\ stage = "collect" /\ UNCHANGED <<file, stage>>
        /\ item' = item + 1 /\ file[item].kind = "factory" /\ file[item].name \in DOMAIN factories
        /\ errors' # {}
    BY <1>2 DEF RefuseFactory, Redeclared, At
  <2>2. item \in Nat /\ Reach = item
    BY <1>m, <2>1
  <2>3. ~FineFactory(item)
    <3>1. \E i \in 1..(Reach - 1) : IsFirst(i, file[item].name)
      BY <2>1 DEF FactoriesKnown
    <3>2. QED
      BY <2>2, <3>1 DEF FineFactory, IsFirst
  <2>4. ~FineBefore'
    BY <1>m, <2>1, <2>3
  <2>5. QED
    BY <2>1, <2>4 DEF ErrorsKnown
<1>3. CASE CollectDefaults
  <2>1. /\ At("collect", "factory") /\ ThisBlock.kind = "defaults" /\ inner' = inner + 1
        /\ UNCHANGED <<file, stage, item, errors>>
    BY <1>3 DEF CollectDefaults, InBody
  <2>2. \A t : ~IsTrait(file[item].body, inner, t)
    BY <2>1 DEF IsTrait, ThisBlock
  <2>3. DoubleTrait(file[item].body, inner + 1) <=> DoubleTrait(file[item].body, inner)
    BY <1>t, <2>2, DoubleStep
  <2>4. FineBefore' <=> FineBefore
    BY <1>f, <2>1 DEF Reach
  <2>5. QED
    BY <2>1, <2>3, <2>4 DEF ErrorsKnown, At
<1>4. CASE CollectTrait
  <2>1. /\ At("collect", "factory") /\ inner \in DOMAIN file[item].body /\ ThisBlock.kind = "trait"
        /\ inner' = inner + 1
        /\ errors' = IF ThisBlock.name \in DOMAIN def.traits
                     THEN errors \union {<<"trait twice", ThisBlock.name>>} ELSE errors
        /\ UNCHANGED <<file, stage, item>>
    BY <1>4 DEF CollectTrait, InBody
  <2>2. ThisBlock.name \in STRING
    <3>1. file[item].body \in Seq(FactoryBlock)
      BY <2>1, FileShape DEF At
    <3>2. \A b \in Seq(FactoryBlock) : inner \in DOMAIN b => b[inner] \in FactoryBlock
      OBVIOUS
    <3>3. ThisBlock \in FactoryBlock
      BY <2>1, <3>1, <3>2 DEF ThisBlock
    <3>4. QED
      BY <2>1, <3>3, BlockShape
  <2>3. \A t : IsTrait(file[item].body, inner, t) <=> t = ThisBlock.name
    BY <2>1 DEF IsTrait, ThisBlock
  <2>4. Represents(def, file[item].body, inner)
    BY <2>1 DEF WalkInv
  <2>5. ThisBlock.name \in DOMAIN def.traits <=>
          \E k \in 1..(inner - 1) : IsTrait(file[item].body, k, ThisBlock.name)
    BY <2>2, <2>4 DEF Represents
  <2>6. DoubleTrait(file[item].body, inner + 1) <=>
          DoubleTrait(file[item].body, inner) \/ ThisBlock.name \in DOMAIN def.traits
    <3>1. DoubleTrait(file[item].body, inner + 1) <=>
            \/ DoubleTrait(file[item].body, inner)
            \/ \E t \in STRING : /\ IsTrait(file[item].body, inner, t)
                               /\ \E k \in 1..(inner - 1) : IsTrait(file[item].body, k, t)
      BY <1>t, DoubleStep
    <3>2. (\E t \in STRING : /\ IsTrait(file[item].body, inner, t)
                             /\ \E k \in 1..(inner - 1) : IsTrait(file[item].body, k, t))
            <=> ThisBlock.name \in DOMAIN def.traits
      BY <2>2, <2>3, <2>5
    <3>3. QED
      BY <3>1, <3>2
  <2>7. FineBefore' <=> FineBefore
    BY <1>f, <2>1 DEF Reach
  <2>8. errors' = {} <=> errors = {} /\ ThisBlock.name \notin DOMAIN def.traits
    BY <2>1
  <2>9. stage = "collect" /\ At("collect", "factory")'
    BY <2>1 DEF At
  <2>10. DoubleTrait(file[item].body, inner)' <=> DoubleTrait(file[item].body, inner + 1)
    BY <2>1
  <2>11. errors' = {} <=> FineBefore' /\ ~DoubleTrait(file[item].body, inner)'
    BY <2>1, <2>6, <2>7, <2>8, <2>9, <2>10 DEF ErrorsKnown
  <2>12. QED
    BY <2>1, <2>9, <2>11 DEF ErrorsKnown
<1>5. CASE CollectFactory
  <2>1. /\ item \in DOMAIN file /\ stage = "collect" /\ UNCHANGED <<file, stage>>
        /\ At("collect", "factory") /\ ~Redeclared /\ inner \notin DOMAIN file[item].body
        /\ item' = item + 1 /\ inner' = 1 /\ file[item].kind = "factory"
        /\ errors' = IF def.seen THEN errors ELSE errors \union {<<"no defaults", file[item].name>>}
    BY <1>5 DEF CollectFactory, At
  <2>2. file[item].body \in Seq(FactoryBlock) /\ file[item].name \in STRING
    BY <2>1, FileShape
  <2>3. Represents(def, file[item].body, inner) /\ inner <= Len(file[item].body) + 1
    BY <2>1 DEF WalkInv
  <2>4. inner = Len(file[item].body) + 1 /\ 1..(inner - 1) = 1..Len(file[item].body)
    <3> DEFINE body == file[item].body
    <3>1. body \in Seq(FactoryBlock) /\ inner \notin DOMAIN body /\ inner <= Len(body) + 1
      BY <2>1, <2>2, <2>3
    <3> HIDE DEF body
    <3>2. inner = Len(body) + 1 /\ Len(body) \in Nat
      BY <1>t, <3>1
    <3>3. 1..(inner - 1) = 1..Len(body)
      BY <3>2
    <3>4. QED
      BY <3>2, <3>3 DEF body
  <2>5. def.seen <=> \E j \in 1..Len(file[item].body) : IsDefaults(file[item].body, j)
    BY <2>3, <2>4 DEF Represents
  <2>6. \A k \in 1..(item - 1) : ~Declares(k, file[item].name)
    <3>1. file[item].name \notin DOMAIN factories /\ Reach = item
      BY <2>1 DEF Redeclared, Reach
    <3>2. QED
      BY <2>2, <3>1 DEF FactoriesKnown
  <2>7. FineFactory(item) <=> def.seen /\ ~DoubleTrait(file[item].body, inner)
    BY <2>4, <2>5, <2>6 DEF FineFactory
  <2>8. errors' = {} <=> errors = {} /\ def.seen
    BY <2>1
  <2>9. /\ FineBefore' <=> FineBefore /\ FineFactory(item)
        /\ At("collect", "factory")' => ~DoubleTrait(file[item].body, inner)'
    BY <1>m, <2>1
  <2>10. errors = {} <=> FineBefore /\ ~DoubleTrait(file[item].body, inner)
    BY <2>1 DEF ErrorsKnown
  <2>11. QED
    BY <2>1, <2>7, <2>8, <2>9, <2>10 DEF ErrorsKnown
<1>6. CASE CollectBuild
  <2>1. /\ item \in DOMAIN file /\ stage = "collect" /\ UNCHANGED <<file, stage, errors, inner>>
        /\ file[item].kind = "build" /\ ~At("collect", "factory") /\ ~At("emit", "build") /\ item' = item + 1
    BY <1>6 DEF CollectBuild, At
  <2>2. inner = 1
    BY <2>1 DEF WalkInv
  <2>3. /\ FineBefore' <=> FineBefore
        /\ At("collect", "factory")' => ~DoubleTrait(file[item].body, inner)'
    BY <1>m, <2>1, <2>2
  <2>4. QED
    BY <2>1, <2>3 DEF ErrorsKnown
<1>7. CASE Collected
  <2>1. /\ stage = "collect" /\ stage' = "validate" /\ item' = 1 /\ UNCHANGED <<file, errors, builds>>
        /\ item \notin DOMAIN file /\ ~At("collect", "factory")
    BY <1>7 DEF Collected, At
  <2>2. Reach' = Reach
    BY <1>t, <2>1 DEF Reach, WalkInv, FactoryTypes
  <2>3. FineBefore' <=> FineBefore
    BY <1>f, <2>1, <2>2
  <2>4. 1..(1 - 1) = {} /\ Len(builds) \in Nat
    BY DEF FactoryTypes
  <2>5. QED
    BY <2>1, <2>3, <2>4 DEF ErrorsKnown
<1>8. CASE ValidateBuild
  <2> DEFINE b == builds[item]
  <2>1. /\ stage = "validate" /\ item \in DOMAIN builds /\ errors' = errors \union Unknown(b)
        /\ item' = item + 1 /\ UNCHANGED <<file, stage, factories, builds>>
    BY <1>8 DEF ValidateBuild
  <2>2. Unknown(b) = {} <=> GoodBuild(b)
    BY DEF Unknown, GoodBuild
  <2>3. 1..(item' - 1) = 1..(item - 1) \union {item} /\ Reach' = Reach /\ item' <= Len(builds) + 1
    BY <1>t, <2>1 DEF Reach, FactoryTypes
  <2>4. FineBefore' <=> FineBefore
    BY <1>f, <2>1, <2>3
  <2>5. \A c : GoodBuild(c)' <=> GoodBuild(c)
    BY <2>1 DEF GoodBuild
  <2>6. errors' = {} <=> errors = {} /\ GoodBuild(b)
    BY <2>1, <2>2
  <2>7. (\A n \in 1..(item' - 1) : GoodBuild(builds[n])) <=> GoodBuild(b) /\ \A n \in 1..(item - 1) : GoodBuild(builds[n])
    BY <2>3
  <2>8. errors' = {} <=> FineBefore' /\ \A n \in 1..(item' - 1) : GoodBuild(builds[n])
    BY <2>1, <2>4, <2>6, <2>7 DEF ErrorsKnown
  <2>9. \A n : GoodBuild(builds[n])' <=> GoodBuild(builds[n])
    BY <2>1, <2>5
  <2>10. stage' = "validate" /\ item' <= Len(builds') + 1
    BY <2>1, <2>3
  <2>11. ErrorsKnown'
    <3>1. errors' = {} <=> FineBefore' /\ (\A n \in 1..(item - 1) : GoodBuild(builds[n]))'
      BY <2>8, <2>9
    <3>2. QED
      BY <2>10, <3>1 DEF ErrorsKnown
  <2>12. QED
    BY <2>11
<1>9. CASE Validated
  <2>1. /\ stage = "validate" /\ item \notin DOMAIN builds /\ stage' = IF errors = {} THEN "emit" ELSE "refused"
        /\ UNCHANGED <<file, factories, builds>>
    BY <1>9 DEF Validated
  <2>2. FineBefore' <=> FineBefore
    BY <1>f, <2>1 DEF Reach
  <2>3. \A c : GoodBuild(c)' <=> GoodBuild(c)
    BY <2>1 DEF GoodBuild
  <2>4. 1..(item - 1) = DOMAIN builds
    BY <1>t, <2>1 DEF FactoryTypes, ErrorsKnown
  <2>5. QED
    BY <2>1, <2>2, <2>3, <2>4 DEF ErrorsKnown
<1>10. CASE Apply \/ NextLayer \/ EmitBuild \/ EmitFactory \/ Emitted
  <2>1. stage = "emit" /\ stage' \in {"emit", "done"} /\ UNCHANGED <<file, factories, builds>>
    BY <1>10 DEF Apply, NextLayer, EmitBuild, EmitFactory, Emitted, At
  <2>2. FineBefore' <=> FineBefore
    BY <1>f, <2>1 DEF Reach
  <2>3. \A c : GoodBuild(c)' <=> GoodBuild(c)
    BY <2>1 DEF GoodBuild
  <2>4. QED
    BY <2>1, <2>2, <2>3 DEF ErrorsKnown
<1>11. CASE UNCHANGED factoryVars
  <2>1. FineBefore' <=> FineBefore
    BY <1>11, <1>f DEF factoryVars, Reach
  <2>2. \A c : GoodBuild(c)' <=> GoodBuild(c)
    BY <1>11 DEF factoryVars, GoodBuild
  <2>3. QED
    BY <1>11, <2>1, <2>2 DEF factoryVars, ErrorsKnown, At
<1>12. QED
  BY <1>1, <1>2, <1>3, <1>4, <1>5, <1>6, <1>7, <1>8, <1>9, <1>10, <1>11 DEF FactoriesNext

-----------------------------------------------------------------------------
(* The second walk: the literal of the build being written has what was    *)
(* set so far, those before it have everything.                            *)
LayersOf(n) == Layers(factories[file[n].name], file[n])
Underway(n) ==
  /\ inner <= Len(LayersOf(n)) + 1
  /\ inner \notin DOMAIN LayersOf(n) => field = 1
  /\ ResolvesTo(literal, LayersOf(n), inner, field)
Written(n) == n \in DOMAIN literals /\ Resolves(literals[n], LayersOf(n))

EmitKnown ==
  /\ IF At("emit", "build") THEN Underway(item) ELSE literal = <<>> /\ field = 1
  /\ stage \in {"emit", "done"} => \A n \in 1..(item - 1) : file[n].kind = "build" => Written(n)
  /\ stage = "done" => item \notin DOMAIN file

LEMMA LayersOfShape ==
  ASSUME FactoryTypes, FactoriesKnown, NEW n \in DOMAIN file, file[n].kind = "build",
         file[n].name \in DOMAIN factories
  PROVE  LayersOf(n) \in Seq(Seq(Fields)) /\ Len(LayersOf(n)) \in Nat
<1>1. file[n] \in Item
  BY FileShape
<1>2. factories[file[n].name] \in DefType
  BY DEF FactoriesKnown, Represents
<1>3. LayersOf(n) \in Seq(Seq(Fields))
  BY <1>1, <1>2, LayersShape DEF LayersOf
<1>4. QED
  BY <1>3

LEMMA BuildsAreKnown ==
  ASSUME FactoryTypes, BuildsKnown, ErrorsKnown, stage \in {"emit", "done"},
         NEW n \in DOMAIN file, file[n].kind = "build"
  PROVE  GoodBuild(file[n]) /\ file[n].name \in DOMAIN factories
<1>1. n \in 1..(Reach - 1)
  BY FileShape DEF Reach, FactoryTypes
<1>2. PICK m \in DOMAIN builds : builds[m] = file[n]
  BY <1>1 DEF BuildsKnown
<1>3. GoodBuild(file[n])
  BY <1>2 DEF ErrorsKnown
<1>4. QED
  BY <1>3 DEF GoodBuild

LEMMA StepEmit ==
  /\ FactoryTypes /\ WalkInv /\ FactoriesKnown /\ BuildsKnown /\ ErrorsKnown /\ EmitKnown
  /\ [FactoriesNext]_factoryVars
  => EmitKnown'
<1> SUFFICES ASSUME FactoryTypes, WalkInv, FactoriesKnown, BuildsKnown, ErrorsKnown, EmitKnown,
                    [FactoriesNext]_factoryVars
             PROVE  EmitKnown'
  OBVIOUS
<1>t. Len(file) \in Nat /\ item \in Nat \ {0} /\ inner \in Nat \ {0} /\ field \in Nat \ {0}
  BY DEF FactoryTypes
<1>e. FactoryTypes' /\ WalkInv' /\ FactoriesKnown' /\ BuildsKnown' /\ ErrorsKnown'
  BY StepTypes, StepWalk, StepKnown, StepErrors
(* An item whose turn it is has nothing yet. *)
<1>f. ASSUME literal' = <<>>, field' = 1, inner' = 1, UNCHANGED <<file, factories, builds>>
      PROVE  IF At("emit", "build")' THEN Underway(item)' ELSE literal' = <<>> /\ field' = 1
  <2>1. SUFFICES ASSUME At("emit", "build")'
                 PROVE  Underway(item)'
    BY <1>f
  <2> DEFINE n == item'
             L == Layers(factories[file[n].name], file[n])
  <2>2. stage' = "emit" /\ n \in DOMAIN file /\ file[n].kind = "build"
    BY <1>f, <2>1 DEF At
  <2>3. n \in 1..(Reach' - 1)
    BY <1>f, <1>t, <2>2 DEF Reach, FactoryTypes
  <2>4. \E m \in DOMAIN builds : builds[m] = file[n]
    BY <1>e, <1>f, <2>2, <2>3 DEF BuildsKnown
  <2>5. \A m \in DOMAIN builds : GoodBuild(builds[m])'
    BY <1>e, <1>f, <2>2 DEF ErrorsKnown
  <2>6. file[n].name \in DOMAIN factories
    BY <1>f, <2>4, <2>5 DEF GoodBuild
  <2>7. L = LayersOf(n)
    BY DEF LayersOf
  <2> HIDE DEF n
  <2>8. L \in Seq(Seq(Fields)) /\ Len(L) \in Nat
    BY <2>2, <2>6, <2>7, LayersOfShape
  <2>9. ResolvesTo(<<>>, L, 1, 1)
    BY <2>8, NothingResolved
  <2> HIDE DEF L
  <2>10. 1 <= Len(L) + 1
    BY <2>8
  <2>11. LayersOf(item)' = L
    BY <1>f DEF n, L, LayersOf
  <2>12. QED
    BY <1>f, <2>9, <2>10, <2>11 DEF Underway
<1>o. ASSUME ~At("emit", "build"), stage' \notin {"emit", "done"}, UNCHANGED <<literal, field>>
      PROVE  EmitKnown'
  BY <1>o DEF EmitKnown, At
<1>1. CASE BeginFile \/ RefuseFactory \/ CollectDefaults \/ CollectTrait \/ CollectFactory
             \/ CollectBuild \/ Collected \/ ValidateBuild
  <2>1. ~At("emit", "build") /\ stage' \notin {"emit", "done"} /\ UNCHANGED <<literal, field>>
    BY <1>1 DEF BeginFile, RefuseFactory, Redeclared, CollectDefaults, CollectTrait, InBody, CollectFactory,
                CollectBuild, Collected, ValidateBuild, At
  <2>2. QED
    BY <1>o, <2>1
<1>2. CASE Validated
  <2>1. /\ ~At("emit", "build") /\ ~At("collect", "factory") /\ stage' \in {"emit", "refused"} /\ item' = 1
        /\ UNCHANGED <<literal, field, inner, file, factories, builds>>
    BY <1>2 DEF Validated, At
  <2>2. literal' = <<>> /\ field' = 1 /\ inner' = 1
    BY <2>1 DEF EmitKnown, WalkInv
  <2>3. IF At("emit", "build")' THEN Underway(item)' ELSE literal' = <<>> /\ field' = 1
    BY <1>f, <2>1, <2>2
  <2>4. 1..(1 - 1) = {}
    OBVIOUS
  <2>5. QED
    BY <2>1, <2>3, <2>4 DEF EmitKnown
<1>u. ASSUME UNCHANGED <<file, factories>>
      PROVE  \A n : LayersOf(n)' = LayersOf(n)
  BY <1>u DEF LayersOf
<1>3. CASE Apply
  <2>1. /\ At("emit", "build") /\ Known /\ inner \in DOMAIN TheseLayers /\ field \in DOMAIN TheseLayers[inner]
        /\ literal' = Assign(literal, TheseLayers[inner][field]) /\ field' = field + 1
        /\ UNCHANGED <<file, stage, item, inner, factories, literals>>
    BY <1>3 DEF Apply
  <2> DEFINE L == TheseLayers
  <2>2. L = LayersOf(item) /\ L \in Seq(Seq(Fields)) /\ LayersOf(item)' = L
    BY <2>1, TheLayers DEF TheseLayers, LayersOf
  <2>3. Underway(item)
    BY <2>1 DEF EmitKnown
  <2>4. inner <= Len(L) + 1 /\ ResolvesTo(literal, L, inner, field)
    BY <2>2, <2>3 DEF Underway
  <2>5. literal \in Seq(Fields)
    BY DEF FactoryTypes
  <2>6. inner \in DOMAIN L /\ field \in DOMAIN L[inner] /\ literal' = Assign(literal, L[inner][field])
    BY <2>1
  <2> HIDE DEF L
  <2>7. ResolvesTo(literal', L, inner, field + 1)
    BY <2>2, <2>4, <2>5, <2>6, AssignResolves
  <2>8. Underway(item)'
    BY <2>1, <2>2, <2>4, <2>6, <2>7 DEF Underway
  <2>9. \A n : Written(n) => Written(n)'
    BY <1>u, <2>1 DEF Written
  <2>10. At("emit", "build")' /\ stage = "emit"
    BY <2>1 DEF At
  <2>11. QED
    BY <2>1, <2>8, <2>9, <2>10 DEF EmitKnown
<1>4. CASE NextLayer
  <2>1. /\ At("emit", "build") /\ Known /\ inner \in DOMAIN TheseLayers /\ field \notin DOMAIN TheseLayers[inner]
        /\ inner' = inner + 1 /\ field' = 1
        /\ UNCHANGED <<file, stage, item, factories, literal, literals>>
    BY <1>4 DEF NextLayer
  <2> DEFINE L == TheseLayers
  <2>2. L = LayersOf(item) /\ L \in Seq(Seq(Fields)) /\ LayersOf(item)' = L
    BY <2>1, TheLayers DEF TheseLayers, LayersOf
  <2>3. Underway(item)
    BY <2>1 DEF EmitKnown
  <2>4. ResolvesTo(literal, L, inner, field)
    BY <2>2, <2>3 DEF Underway
  <2>6. inner \in DOMAIN L /\ field \notin DOMAIN L[inner]
    BY <2>1
  <2> HIDE DEF L
  <2>7. ResolvesTo(literal, L, inner + 1, 1)
    BY <1>t, <2>2, <2>4, <2>6, LayerEnds
  <2>8. inner + 1 <= Len(L) + 1
    BY <2>2, <2>6
  <2>9. Underway(item)'
    BY <2>1, <2>2, <2>7, <2>8 DEF Underway
  <2>10. \A n : Written(n) => Written(n)'
    BY <1>u, <2>1 DEF Written
  <2>11. At("emit", "build")' /\ stage = "emit"
    BY <2>1 DEF At
  <2>12. QED
    BY <2>1, <2>9, <2>10, <2>11 DEF EmitKnown
<1>5. CASE EmitBuild
  <2>1. /\ At("emit", "build") /\ (Known => inner \notin DOMAIN TheseLayers)
        /\ literals' = With(literals, item, literal) /\ item' = item + 1 /\ inner' = 1 /\ literal' = <<>>
        /\ UNCHANGED <<file, stage, field, factories, builds>>
    BY <1>5 DEF EmitBuild
  <2>2. item \in DOMAIN file /\ file[item].kind = "build" /\ stage = "emit" /\ item \in Nat
    BY <2>1, FileShape DEF At
  <2>3. file[item].name \in DOMAIN factories
    BY <2>2, BuildsAreKnown
  <2> DEFINE L == LayersOf(item)
  <2>4. inner \notin DOMAIN L
    BY <2>1, <2>3 DEF Known, TheseLayers, LayersOf
  <2>5. Underway(item)
    BY <2>1 DEF EmitKnown
  <2>6. field = 1 /\ ResolvesTo(literal, L, inner, 1)
    BY <2>4, <2>5 DEF Underway
  <2>7. L \in Seq(Seq(Fields))
    BY <2>2, <2>3, LayersOfShape
  <2> HIDE DEF L
  <2>8. Resolves(literal, L)
    BY <1>t, <2>4, <2>6, <2>7, AllResolved
  <2>9. /\ item \in DOMAIN literals' /\ literals'[item] = literal
        /\ \A n \in DOMAIN literals : n # item => n \in DOMAIN literals' /\ literals'[n] = literals[n]
    BY <2>1 DEF With
  <2>10. 1..(item' - 1) = 1..(item - 1) \union {item}
    BY <1>t, <2>1
  <2>11. ASSUME NEW n \in 1..(item' - 1), file[n].kind = "build"
         PROVE  Written(n)'
    <3>1. CASE n = item
      <4>1. \A k : k = item => LayersOf(k)' = L
        BY <1>u, <2>1 DEF L
      <4>2. QED
        BY <2>8, <2>9, <3>1, <4>1 DEF Written
    <3>2. CASE n # item
      <4>1. n \in 1..(item - 1)
        BY <2>10, <3>2
      <4>2. Written(n)
        BY <2>2, <2>11, <4>1 DEF EmitKnown
      <4>3. LayersOf(n)' = LayersOf(n)
        BY <1>u, <2>1
      <4>4. QED
        BY <2>9, <3>2, <4>2, <4>3 DEF Written
    <3>3. QED
      BY <3>1, <3>2
  <2>12. IF At("emit", "build")' THEN Underway(item)' ELSE literal' = <<>> /\ field' = 1
    BY <1>f, <2>1, <2>6
  <2>13. QED
    BY <2>1, <2>2, <2>11, <2>12 DEF EmitKnown
<1>6. CASE EmitFactory
  <2>1. /\ At("emit", "factory") /\ item' = item + 1
        /\ UNCHANGED <<file, stage, field, inner, factories, builds, literal, literals>>
    BY <1>6 DEF EmitFactory
  <2>2. /\ ~At("emit", "build") /\ ~At("collect", "factory") /\ stage = "emit"
        /\ file[item].kind # "build"
    BY <2>1 DEF At
  <2>3. literal = <<>> /\ field = 1 /\ inner = 1
    BY <2>2 DEF EmitKnown, WalkInv
  <2>4. IF At("emit", "build")' THEN Underway(item)' ELSE literal' = <<>> /\ field' = 1
    BY <1>f, <2>1, <2>3
  <2>5. 1..(item' - 1) = 1..(item - 1) \union {item}
    BY <1>t, <2>1
  <2>6. \A n : Written(n) => Written(n)'
    BY <1>u, <2>1 DEF Written
  <2>7. \A n \in 1..(item' - 1) : file'[n].kind = "build" => Written(n)'
    BY <2>1, <2>2, <2>5, <2>6 DEF EmitKnown
  <2>8. QED
    BY <2>1, <2>2, <2>4, <2>7 DEF EmitKnown
<1>7. CASE Emitted
  <2>1. /\ stage = "emit" /\ item \notin DOMAIN file /\ stage' = "done"
        /\ UNCHANGED <<file, item, field, factories, literal, literals>>
    BY <1>7 DEF Emitted
  <2>2. ~At("emit", "build") /\ ~At("emit", "build")'
    BY <2>1 DEF At
  <2>3. \A n : Written(n) => Written(n)'
    BY <1>u, <2>1 DEF Written
  <2>4. QED
    BY <2>1, <2>2, <2>3 DEF EmitKnown
<1>8. CASE UNCHANGED factoryVars
  <2>1. \A n : Written(n) => Written(n)'
    BY <1>8, <1>u DEF factoryVars, Written
  <2>2. Underway(item) => Underway(item)'
    BY <1>8, <1>u DEF factoryVars, Underway
  <2>3. QED
    BY <1>8, <2>1, <2>2 DEF factoryVars, EmitKnown, At
<1>9. QED
  BY <1>1, <1>2, <1>3, <1>4, <1>5, <1>6, <1>7, <1>8 DEF FactoriesNext
-----------------------------------------------------------------------------
(* What the walks know once the file has been read, against what the file  *)
(* says.                                                                   *)
WholeFile == stage \in {"emit", "done", "refused"}

LEMMA Whole ==
  ASSUME FactoryTypes, WholeFile
  PROVE  Reach - 1 = Len(file) /\ 1..(Reach - 1) = DOMAIN file /\ Len(file) \in Nat
BY DEF WholeFile, Reach, FactoryTypes

LEMMA OnceDeclared ==
  ASSUME FactoryTypes, FineBefore, WholeFile, NEW i, NEW j, NEW t,
         Declares(i, t), Declares(j, t)
  PROVE  i = j
<1>1. i \in DOMAIN file /\ j \in DOMAIN file /\ i \in Nat /\ j \in Nat
  BY FileShape DEF Declares
<1>2. i \in 1..(Reach - 1) /\ j \in 1..(Reach - 1) /\ i >= 1 /\ j >= 1
  BY <1>1, Whole
<1>3. FineFactory(i) /\ FineFactory(j)
  BY <1>2 DEF FineBefore, Declares
<1>4. (\A k \in 1..(i - 1) : ~Declares(k, t)) /\ \A k \in 1..(j - 1) : ~Declares(k, t)
  BY <1>3 DEF FineFactory, Declares
<1>5. j \notin 1..(i - 1) /\ i \notin 1..(j - 1)
  BY <1>4
<1>6. QED
  BY <1>1, <1>2, <1>5

(* A factory is known by its only declaration. *)
LEMMA KnownByFile ==
  ASSUME FactoryTypes, FactoriesKnown, FineBefore, WholeFile, NEW d, NEW t, Declares(d, t)
  PROVE  /\ d \in DOMAIN file /\ t \in STRING /\ t \in DOMAIN factories
         /\ file[d].body \in Seq(FactoryBlock)
         /\ Represents(factories[t], file[d].body, Len(file[d].body) + 1)
<1>1. d \in DOMAIN file /\ t \in STRING /\ file[d].body \in Seq(FactoryBlock)
  BY FileShape DEF Declares
<1>2. t \in DOMAIN factories
  BY <1>1, Whole DEF FactoriesKnown
<1>3. PICK i \in 1..(Reach - 1) :
        IsFirst(i, t) /\ Represents(factories[t], file[i].body, Len(file[i].body) + 1)
  BY <1>2 DEF FactoriesKnown
<1>4. i = d
  BY <1>3, OnceDeclared DEF IsFirst
<1>5. QED
  BY <1>1, <1>2, <1>3, <1>4

LEMMA UnfineIsWrong ==
  ASSUME FactoryTypes, NEW i \in DOMAIN file, file[i].kind = "factory", ~FineFactory(i)
  PROVE  WrongFactory(i)
<1> DEFINE body == file[i].body
<1>1. body \in Seq(FactoryBlock) /\ i \in Nat /\ i \in 1..Len(file) /\ Len(file) \in Nat
  BY FileShape DEF FactoryTypes
<1>2. CASE \E k \in 1..(i - 1) : Declares(k, file[i].name)
  <2>1. PICK k \in 1..(i - 1) : Declares(k, file[i].name)
    BY <1>2
  <2>2. k \in DOMAIN file /\ k # i
    BY <1>1, <2>1 DEF Declares
  <2>3. QED
    BY <2>1, <2>2 DEF WrongFactory
<1>3. CASE \A j \in 1..Len(body) : ~IsDefaults(body, j)
  BY <1>1, <1>3 DEF WrongFactory
<1>4. CASE DoubleTrait(body, Len(body) + 1)
  <2> HIDE DEF body
  <2>1. PICK j \in 1..((Len(body) + 1) - 1), t \in STRING :
          IsTrait(body, j, t) /\ \E k \in 1..(j - 1) : IsTrait(body, k, t)
    BY <1>4 DEF DoubleTrait
  <2>2. PICK k \in 1..(j - 1) : IsTrait(body, k, t)
    BY <2>1
  <2>3. j # k /\ j \in DOMAIN body /\ k \in DOMAIN body /\ body[j].name = t
    BY <1>1, <2>1, <2>2 DEF IsTrait
  <2>4. QED
    BY <2>1, <2>2, <2>3 DEF WrongFactory, body
<1>5. QED
  BY <1>2, <1>3, <1>4 DEF FineFactory

LEMMA WrongIsUnfine ==
  ASSUME FactoryTypes, WholeFile, FineBefore, NEW i \in DOMAIN file, file[i].kind = "factory"
  PROVE  ~WrongFactory(i)
<1> DEFINE body == file[i].body
<1>1. body \in Seq(FactoryBlock) /\ i \in 1..(Reach - 1) /\ Len(body) \in Nat
  BY FileShape, Whole
<1>2. FineFactory(i)
  BY <1>1 DEF FineBefore
<1>3. ~ \E j \in DOMAIN file : j # i /\ Declares(j, file[i].name)
  BY OnceDeclared DEF Declares
<1>4. ~ \A j \in DOMAIN body : ~IsDefaults(body, j)
  BY <1>1, <1>2 DEF FineFactory
<1>5. ~DoubleTrait(body, Len(body) + 1)
  BY <1>2 DEF FineFactory
<1> HIDE DEF body
<1>6. \A j, k \in DOMAIN body : j < k =>
        ~(IsTrait(body, j, body[j].name) /\ IsTrait(body, k, body[j].name))
  <2>1. SUFFICES ASSUME NEW j \in DOMAIN body, NEW k \in DOMAIN body, j < k,
                        IsTrait(body, j, body[j].name), IsTrait(body, k, body[j].name)
                 PROVE  FALSE
    OBVIOUS
  <2>2. k \in 1..((Len(body) + 1) - 1) /\ j \in 1..(k - 1)
    BY <1>1, <2>1
  <2>3. body[j] \in FactoryBlock /\ body[j].kind = "trait"
    BY <1>1, <2>1 DEF IsTrait
  <2>4. body[j].name \in STRING
    BY <2>3, BlockShape
  <2>5. QED
    BY <1>5, <2>1, <2>2, <2>4 DEF DoubleTrait
<1>7. \A j, k \in DOMAIN body : j # k =>
        ~(IsTrait(body, j, body[j].name) /\ IsTrait(body, k, body[j].name))
  <2>1. SUFFICES ASSUME NEW j \in DOMAIN body, NEW k \in DOMAIN body, j # k,
                        IsTrait(body, j, body[j].name), IsTrait(body, k, body[j].name)
                 PROVE  FALSE
    OBVIOUS
  <2>2. body[k].name = body[j].name
    BY <2>1 DEF IsTrait
  <2>3. j < k \/ k < j
    BY <1>1, <2>1
  <2>4. QED
    BY <1>6, <2>1, <2>2, <2>3
<1>8. QED
  BY <1>3, <1>4, <1>7 DEF WrongFactory, body

LEMMA BuildIsWrong ==
  ASSUME FactoryTypes, FactoriesKnown, WholeFile, FineBefore, NEW i \in DOMAIN file,
         file[i].kind = "build"
  PROVE  WrongBuild(i) <=> ~GoodBuild(file[i])
<1> DEFINE b == file[i]
<1>1. b.name \in STRING /\ b.traits \in Seq(STRING)
  BY FileShape
<1>2. b.name \in DOMAIN factories <=> \E d \in DOMAIN file : Declares(d, b.name)
  BY <1>1, Whole DEF FactoriesKnown
<1>3. CASE \A d \in DOMAIN file : ~Declares(d, b.name)
  BY <1>2, <1>3 DEF WrongBuild, GoodBuild
<1>4. CASE \E d \in DOMAIN file : Declares(d, b.name)
  <2>1. PICK d \in DOMAIN file : Declares(d, b.name)
    BY <1>4
  <2> DEFINE body == file[d].body
             def0 == factories[b.name]
  <2>2. /\ body \in Seq(FactoryBlock) /\ Represents(def0, body, Len(body) + 1)
    BY <2>1, KnownByFile
  <2>3. \A e \in DOMAIN file : Declares(e, b.name) => e = d
    BY <2>1, OnceDeclared
  <2>4. \A t \in STRING : t \in DOMAIN def0.traits <=> \E j \in DOMAIN body : IsTrait(body, j, t)
    <3> HIDE DEF body, def0
    <3>1. 1..((Len(body) + 1) - 1) = DOMAIN body
      BY <2>2
    <3>2. QED
      BY <2>2, <3>1 DEF Represents
  <2>5. WrongBuild(i) <=> \E n \in DOMAIN b.traits :
          \A j \in DOMAIN body : ~IsTrait(body, j, b.traits[n])
    BY <2>1, <2>3 DEF WrongBuild
  <2>6. \A n \in DOMAIN b.traits : b.traits[n] \in STRING
    BY <1>1
  <2>7. GoodBuild(b) <=> \A n \in DOMAIN b.traits : b.traits[n] \in DOMAIN def0.traits
    BY <1>2, <1>4 DEF GoodBuild
  <2>8. QED
    BY <2>4, <2>5, <2>6, <2>7
<1>5. QED
  BY <1>3, <1>4

LEMMA RefusalsHold ==
  FactoryTypes /\ FactoriesKnown /\ BuildsKnown /\ ErrorsKnown => Refusals
<1> SUFFICES ASSUME FactoryTypes, FactoriesKnown, BuildsKnown, ErrorsKnown, WholeFile
             PROVE  stage = "refused" <=> \E i \in DOMAIN file : Wrong(i)
  BY DEF Refusals, WholeFile
<1> DEFINE Fine == FineBefore /\ \A n \in DOMAIN builds : GoodBuild(builds[n])
<1>1. stage = "refused" <=> ~Fine
  BY DEF WholeFile, ErrorsKnown
<1>2. CASE ~FineBefore
  <2>1. PICK i \in 1..(Reach - 1) : file[i].kind = "factory" /\ ~FineFactory(i)
    BY <1>2 DEF FineBefore
  <2>2. i \in DOMAIN file
    BY <2>1, Whole
  <2>3. Wrong(i)
    BY <2>1, <2>2, UnfineIsWrong DEF Wrong
  <2>4. QED
    BY <1>1, <1>2, <2>2, <2>3
<1>3. CASE FineBefore
  <2>1. \A i \in DOMAIN file : file[i].kind = "factory" => ~Wrong(i)
    BY <1>3, WrongIsUnfine DEF Wrong
  <2>2. \A i \in DOMAIN file : file[i].kind = "build" => (Wrong(i) <=> ~GoodBuild(file[i]))
    BY <1>3, BuildIsWrong DEF Wrong
  <2>3. \A i \in DOMAIN file : file[i].kind \in {"factory", "build"}
    BY FileShape
  <2>4. \A n \in DOMAIN builds : \E i \in DOMAIN file : file[i] = builds[n] /\ file[i].kind = "build"
    BY Whole DEF BuildsKnown
  <2>5. \A i \in DOMAIN file : file[i].kind = "build" => \E n \in DOMAIN builds : builds[n] = file[i]
    BY Whole DEF BuildsKnown
  <2>6. (\A n \in DOMAIN builds : GoodBuild(builds[n])) <=>
          \A i \in DOMAIN file : file[i].kind = "build" => GoodBuild(file[i])
    BY <2>4, <2>5
  <2>7. QED
    BY <1>1, <1>3, <2>1, <2>2, <2>3, <2>6
<1>4. QED
  BY <1>2, <1>3

(* The layers written are those of the declaration. *)
LEMMA LayersAgree ==
  ASSUME FactoryTypes, FactoriesKnown, BuildsKnown, ErrorsKnown, stage = "done",
         NEW n \in DOMAIN file, file[n].kind = "build", NEW d, Declares(d, file[n].name)
  PROVE  LayersOf(n) = Layered(file[d].body, file[n])
<1> DEFINE b == file[n]
           body == file[d].body
           def0 == factories[b.name]
<1>1. WholeFile /\ FineBefore /\ GoodBuild(b)
  BY BuildsAreKnown DEF WholeFile, ErrorsKnown
<1>2. /\ body \in Seq(FactoryBlock) /\ Represents(def0, body, Len(body) + 1) /\ d \in DOMAIN file
  BY <1>1, KnownByFile
<1>3. FineFactory(d)
  BY <1>1, <1>2, Whole DEF FineBefore, Declares
<1>4. (\E j \in 1..Len(body) : IsDefaults(body, j)) /\ ~DoubleTrait(body, Len(body) + 1)
  BY <1>3 DEF FineFactory
<1>5. \A k \in DOMAIN b.traits : b.traits[k] \in DOMAIN def0.traits /\ b.traits[k] \in STRING
  BY <1>1, FileShape DEF GoodBuild
<1>6. b.traits \in Seq(STRING) /\ Len(b.traits) \in Nat
  BY FileShape
<1>7. 1..((Len(body) + 1) - 1) = DOMAIN body /\ 1..Len(body) = DOMAIN body /\ \A j \in DOMAIN body : j \in Nat
  BY <1>2
<1> HIDE DEF body, def0
<1>8. def0.defaults = body[CHOOSE j \in DOMAIN body : IsLast(body, j)].fields
  <2>1. PICK j \in DOMAIN body : /\ IsDefaults(body, j) /\ def0.defaults = body[j].fields
                                 /\ \A k \in DOMAIN body : IsDefaults(body, k) => k <= j
    BY <1>2, <1>4, <1>7 DEF Represents
  <2>2. IsLast(body, j) /\ \A k \in DOMAIN body : IsLast(body, k) => k = j
    BY <1>7, <2>1 DEF IsLast
  <2>3. (CHOOSE k \in DOMAIN body : IsLast(body, k)) = j
    BY <2>2
  <2>4. QED
    BY <2>1, <2>3
<1>9. \A t \in DOMAIN def0.traits : t \in STRING =>
        def0.traits[t] = body[CHOOSE j \in DOMAIN body : IsTrait(body, j, t)].fields
  <2>1. SUFFICES ASSUME NEW t \in DOMAIN def0.traits, t \in STRING
                 PROVE  def0.traits[t] = body[CHOOSE j \in DOMAIN body : IsTrait(body, j, t)].fields
    OBVIOUS
  <2>2. PICK j \in DOMAIN body : /\ IsTrait(body, j, t) /\ def0.traits[t] = body[j].fields
                                 /\ \A k \in DOMAIN body : IsTrait(body, k, t) => j <= k
    BY <1>2, <1>7 DEF Represents
  <2>3. \A k \in DOMAIN body : IsTrait(body, k, t) => k = j
    <3>1. SUFFICES ASSUME NEW k \in DOMAIN body, IsTrait(body, k, t), k # j
                   PROVE  FALSE
      OBVIOUS
    <3>2. j <= k /\ j \in 1..(k - 1)
      BY <1>7, <2>2, <3>1
    <3>3. QED
      BY <1>4, <1>7, <2>1, <2>2, <3>1, <3>2 DEF DoubleTrait
  <2>4. (CHOOSE k \in DOMAIN body : IsTrait(body, k, t)) = j
    BY <2>2, <2>3
  <2>5. QED
    BY <2>2, <2>4
<1> DEFINE L(k) == CASE k = 1 -> def0.defaults
                     [] k = Len(b.traits) + 2 -> b.overrides
                     [] OTHER -> TraitFields(def0, b.traits[k - 1])
           M(k) == CASE k = 1 -> body[CHOOSE j \in DOMAIN body : IsLast(body, j)].fields
                     [] k = Len(b.traits) + 2 -> b.overrides
                     [] OTHER -> body[CHOOSE j \in DOMAIN body : IsTrait(body, j, b.traits[k - 1])].fields
<1>10. \A k \in 1..(Len(b.traits) + 2) : L(k) = M(k)
  <2>1. SUFFICES ASSUME NEW k \in 1..(Len(b.traits) + 2)
                 PROVE  L(k) = M(k)
    OBVIOUS
  <2>2. CASE k = 1
    BY <1>8, <2>2
  <2>3. CASE k = Len(b.traits) + 2
    BY <1>6, <2>3
  <2>4. CASE k # 1 /\ k # Len(b.traits) + 2
    <3>1. (k - 1) \in DOMAIN b.traits
      BY <1>6, <2>4
    <3>2. b.traits[k - 1] \in DOMAIN def0.traits /\ b.traits[k - 1] \in STRING
      BY <1>5, <3>1
    <3>3. TraitFields(def0, b.traits[k - 1]) =
            body[CHOOSE j \in DOMAIN body : IsTrait(body, j, b.traits[k - 1])].fields
      BY <1>9, <3>2 DEF TraitFields
    <3>4. QED
      BY <2>4, <3>3
  <2>5. QED
    BY <2>2, <2>3, <2>4
<1>11. LayersOf(n) = [k \in 1..(Len(b.traits) + 2) |-> L(k)]
  BY DEF LayersOf, Layers, def0
<1>12. Layered(body, b) = [k \in 1..(Len(b.traits) + 2) |-> M(k)]
  BY DEF Layered
<1> HIDE DEF L, M, b
<1>13. LayersOf(n) = Layered(body, b)
  BY <1>10, <1>11, <1>12
<1>14. QED
  BY <1>13 DEF b, body

(* Every build of a file that is not refused becomes a literal with the    *)
(* keys of all its layers and the innermost value of each, and a file is   *)
(* refused exactly when one of its factories or builds is wrong, whatever  *)
(* the file.  (transpile_factory.go.)                                      *)
THEOREM BuildsResolve == FactoriesSpec => []BuildResolves
<1> DEFINE Inv == /\ FactoryTypes /\ WalkInv /\ FactoriesKnown /\ BuildsKnown /\ ErrorsKnown
                  /\ EmitKnown
<1>1. FactoriesInit => Inv
  <2> SUFFICES ASSUME FactoriesInit PROVE Inv
    OBVIOUS
  <2>1. FactoryTypes
    BY ReadsNothing DEF FactoriesInit, FactoryTypes, Represents
  <2>2. stage = "idle" /\ Reach = 1 /\ 1..(1 - 1) = {} /\ DOMAIN file = {}
    BY DEF FactoriesInit, Reach
  <2>3. WalkInv /\ EmitKnown
    BY <2>2 DEF FactoriesInit, WalkInv, EmitKnown, At
  <2>4. FactoriesKnown
    BY <2>2 DEF FactoriesInit, FactoriesKnown
  <2>5. BuildsKnown
    BY <2>2 DEF FactoriesInit, BuildsKnown
  <2>6. ErrorsKnown
    BY <2>2 DEF FactoriesInit, ErrorsKnown
  <2>7. QED
    BY <2>1, <2>3, <2>4, <2>5, <2>6
<1>2. Inv /\ [FactoriesNext]_factoryVars => Inv'
  BY StepTypes, StepWalk, StepKnown, StepErrors, StepEmit
<1>3. Inv => BuildResolves
  <2> SUFFICES ASSUME Inv PROVE BuildResolves
    OBVIOUS
  <2>1. Refusals
    BY RefusalsHold
  <2>2. ASSUME stage = "done", NEW n \in DOMAIN file, file[n].kind = "build"
        PROVE  /\ n \in DOMAIN literals
               /\ \A d \in DOMAIN file :
                    Declares(d, file[n].name) => Resolves(literals[n], Layered(file[d].body, file[n]))
    <3>1. n \in 1..(item - 1)
      BY <2>2, FileShape DEF EmitKnown, FactoryTypes
    <3>2. Written(n)
      BY <2>2, <3>1 DEF EmitKnown
    <3>3. QED
      BY <2>2, <3>2, LayersAgree DEF Written
  <2>3. QED
    BY <2>1, <2>2 DEF BuildResolves
<1>4. QED
  BY <1>1, <1>2, <1>3, PTL DEF FactoriesSpec
-----------------------------------------------------------------------------
(* Table-driven blocks.  A map of the fields, or of the dimensions, read.  *)
ValueMaps == UNION {[S -> Values] : S \in SUBSET KeyNames}

LEMMA PutOne ==
  ASSUME NEW m \in ValueMaps, NEW key \in KeyNames, NEW v \in Values
  PROVE  /\ Put(m, key, v) \in ValueMaps
         /\ DOMAIN Put(m, key, v) = DOMAIN m \union {key}
         /\ \A k \in DOMAIN m \ {key} : Put(m, key, v)[k] = m[k]
         /\ Put(m, key, v)[key] = v
<1>1. PICK S \in SUBSET KeyNames : m \in [S -> Values]
  BY DEF ValueMaps
<1>2. Put(m, key, v) = [k \in S \union {key} |-> IF k = key THEN v ELSE m[k]]
  BY <1>1 DEF Put
<1>3. Put(m, key, v) \in [S \union {key} -> Values]
  BY <1>1, <1>2
<1>4. S \union {key} \in SUBSET KeyNames
  OBVIOUS
<1>5. QED
  BY <1>1, <1>2, <1>3, <1>4 DEF ValueMaps

LEMMA NoneSet == Unset \in ValueMaps /\ DOMAIN Unset = {}
<1>1. Unset \in [{} -> Values] /\ {} \in SUBSET KeyNames
  BY DEF Unset
<1>2. QED
  BY <1>1 DEF ValueMaps

LEMMA MapsAgree ==
  ASSUME NEW f \in ValueMaps, NEW g \in ValueMaps, DOMAIN f = DOMAIN g,
         \A k \in DOMAIN f : f[k] = g[k]
  PROVE  f = g
<1>1. PICK S \in SUBSET KeyNames : f \in [S -> Values]
  BY DEF ValueMaps
<1>2. PICK T \in SUBSET KeyNames : g \in [T -> Values]
  BY DEF ValueMaps
<1>3. S = T /\ g \in [S -> Values]
  BY <1>1, <1>2
<1>4. f = [k \in S |-> f[k]] /\ g = [k \in S |-> g[k]]
  BY <1>1, <1>3
<1>5. \A k \in S : f[k] = g[k]
  BY <1>1
<1>6. [k \in S |-> f[k]] = [k \in S |-> g[k]]
  BY <1>5
<1>7. QED
  BY <1>4, <1>6

(* The map holds what is set last before the place n. *)
Holds(m, fs, n) ==
  /\ m \in ValueMaps
  /\ \A f \in KeyNames : f \in DOMAIN m <=> \E k \in 1..(n - 1) : fs[k][1] = f
  /\ \A f \in DOMAIN m : \E k \in 1..(n - 1) :
       fs[k] = <<f, m[f]>> /\ \A j \in 1..(n - 1) : j > k => fs[j][1] # f

LEMMA PutHolds ==
  ASSUME NEW fs \in Seq(KeyNames \X Values), NEW n \in DOMAIN fs, NEW m, Holds(m, fs, n)
  PROVE  Holds(Put(m, fs[n][1], fs[n][2]), fs, n + 1)
<1> DEFINE key == fs[n][1]
           v == fs[n][2]
           new == Put(m, key, v)
<1>1. fs[n] = <<key, v>> /\ key \in KeyNames /\ v \in Values /\ n \in Nat \ {0} /\ m \in ValueMaps
  BY DEF Holds
<1>2. 1..((n + 1) - 1) = 1..(n - 1) \union {n} /\ \A k \in 1..(n - 1) : n > k /\ ~(k > n)
  BY <1>1
<1>3. n \in 1..((n + 1) - 1) /\ ~(n > n)
  BY <1>1
<1>k. \A k \in 1..(n - 1) : k \in 1..((n + 1) - 1)
  BY <1>2
<1> HIDE DEF key, v
<1>4. /\ new \in ValueMaps /\ DOMAIN new = DOMAIN m \union {key} /\ new[key] = v
      /\ \A k \in DOMAIN m \ {key} : new[k] = m[k]
  <2> HIDE DEF new
  <2>1. m \in ValueMaps /\ key \in KeyNames /\ v \in Values
    BY ONLY <1>1
  <2>2. /\ Put(m, key, v) \in ValueMaps /\ DOMAIN Put(m, key, v) = DOMAIN m \union {key}
        /\ Put(m, key, v)[key] = v /\ \A k \in DOMAIN m \ {key} : Put(m, key, v)[k] = m[k]
    BY ONLY <2>1, PutOne
  <2>3. new = Put(m, key, v)
    BY ONLY DEF new
  <2>4. QED
    BY ONLY <2>2, <2>3
<1> HIDE DEF new
<1>5. \A f \in KeyNames : f \in DOMAIN new <=> \E k \in 1..((n + 1) - 1) : fs[k][1] = f
  BY <1>1, <1>2, <1>4 DEF Holds, key
<1>6. ASSUME NEW f \in DOMAIN new
      PROVE  \E k \in 1..((n + 1) - 1) :
               fs[k] = <<f, new[f]>> /\ \A j \in 1..((n + 1) - 1) : j > k => fs[j][1] # f
  <2>1. CASE f = key
    BY <1>1, <1>2, <1>3, <1>4, <2>1
  <2>2. CASE f # key
    <3>1. PICK k \in 1..(n - 1) :
            fs[k] = <<f, m[f]>> /\ \A j \in 1..(n - 1) : j > k => fs[j][1] # f
      BY <1>4, <2>2 DEF Holds
    <3>2. \A j \in 1..((n + 1) - 1) : j > k => fs[j][1] # f
      BY <1>2, <2>2, <3>1 DEF key
    <3>3. new[f] = m[f] /\ k \in 1..((n + 1) - 1)
      BY <1>4, <1>k, <2>2
    <3>4. QED
      BY <3>1, <3>2, <3>3
  <2>3. QED
    BY <2>1, <2>2
<1>7. Holds(new, fs, n + 1)
  BY <1>4, <1>5, <1>6 DEF Holds
<1>8. QED
  BY <1>7 DEF new, key, v

LEMMA HoldsNothing == ASSUME NEW fs PROVE Holds(Unset, fs, 1)
<1>1. 1..(1 - 1) = {}
  OBVIOUS
<1>2. QED
  BY <1>1, NoneSet DEF Holds

-----------------------------------------------------------------------------
DataTypes ==
  /\ phase \in {"idle", "read", "written"}
  /\ phase # "idle" => block \in DataBlock
  /\ part \in Nat \ {0} /\ place \in Nat \ {0} /\ combo \in Nat \ {0}
  /\ fields \in Seq(KeyNames)
  /\ defaults \in ValueMaps /\ entry \in ValueMaps /\ entries \in Seq(ValueMaps)
  /\ combos \in Seq(ValueMaps) /\ longer \in Seq(ValueMaps)

LEMMA EachShape ==
  ASSUME DataTypes, phase # "idle", block.kind = "each", NEW p \in DOMAIN block.parts
  PROVE  /\ block.parts \in Seq(EachPart) /\ p \in Nat \ {0} /\ Len(block.parts) \in Nat
         /\ block.parts[p].kind \in {"defaults", "entry"}
         /\ block.parts[p].fields \in Seq(KeyNames \X Values)
<1>1. block.parts \in Seq(EachPart)
  BY DEF DataTypes, DataBlock
<1>2. block.parts[p] \in EachPart /\ p \in Nat \ {0} /\ Len(block.parts) \in Nat
  BY <1>1
<1>3. QED
  BY <1>1, <1>2 DEF EachPart

LEMMA MatrixShape ==
  ASSUME DataTypes, phase # "idle", block.kind = "matrix"
  PROVE  /\ block.parts \in Seq(MatrixField) /\ Len(block.parts) \in Nat
         /\ \A p \in DOMAIN block.parts :
              /\ p \in Nat \ {0} /\ block.parts[p].key \in KeyNames
              /\ block.parts[p].values \in Seq([ident : BOOLEAN, val : Values])
              /\ \A n \in DOMAIN block.parts[p].values :
                   block.parts[p].values[n].val \in Values /\ block.parts[p].values[n].ident \in BOOLEAN
<1>1. block.parts \in Seq(MatrixField)
  BY DEF DataTypes, DataBlock
<1>2. Len(block.parts) \in Nat /\ \A p \in DOMAIN block.parts : p \in Nat \ {0} /\ block.parts[p] \in MatrixField
  BY <1>1
<1>3. \A x \in MatrixField : x.key \in KeyNames /\ x.values \in Seq([ident : BOOLEAN, val : Values])
  BY DEF MatrixField
<1> DEFINE Offers == [ident : BOOLEAN, val : Values]
<1>4. \A w \in Offers : w.val \in Values /\ w.ident \in BOOLEAN
  OBVIOUS
<1> HIDE DEF Offers
<1>5. \A s \in Seq(Offers) : \A n \in DOMAIN s : s[n] \in Offers
  OBVIOUS
<1>6. \A s \in Seq(Offers) : \A n \in DOMAIN s : s[n].val \in Values /\ s[n].ident \in BOOLEAN
  BY <1>4, <1>5
<1>7. QED
  BY <1>1, <1>2, <1>3, <1>6 DEF Offers

LEMMA StepDataTypes == DataTypes /\ [DataNext]_dataVars => DataTypes'
<1> SUFFICES ASSUME DataTypes, [DataNext]_dataVars
             PROVE  DataTypes'
  OBVIOUS
<1>1. CASE Open
  BY <1>1, DataBlocksAssumption DEF Open, DataTypes
<1>2. CASE ReadDefault \/ ReadOwn
  <2>1. /\ phase = "read" /\ block.kind = "each" /\ part \in DOMAIN block.parts
        /\ place \in DOMAIN block.parts[part].fields /\ place' = place + 1
        /\ fields' = AddField(fields, ThisField[1])
        /\ UNCHANGED <<block, phase, part, entries, combos, combo, longer>>
        /\ \/ defaults' = Put(defaults, ThisField[1], ThisField[2]) /\ entry' = entry
           \/ entry' = Put(entry, ThisField[1], ThisField[2]) /\ defaults' = defaults
    BY <1>2 DEF ReadDefault, ReadOwn, InPart, Reading, ReadField, ThisPart
  <2>2. block.parts[part].fields \in Seq(KeyNames \X Values)
    BY <2>1, EachShape
  <2>3. \A fs \in Seq(KeyNames \X Values) : \A n \in DOMAIN fs : fs[n][1] \in KeyNames /\ fs[n][2] \in Values
    OBVIOUS
  <2>4. ThisField[1] \in KeyNames /\ ThisField[2] \in Values
    BY <2>1, <2>2, <2>3 DEF ThisField, ThisPart
  <2>5. fields' \in Seq(KeyNames)
    <3>1. \A key \in KeyNames : Append(fields, key) \in Seq(KeyNames)
      BY DEF DataTypes
    <3>2. fields' \in {fields, Append(fields, ThisField[1])}
      BY <2>1 DEF AddField
    <3>3. QED
      BY <2>4, <3>1, <3>2 DEF DataTypes
  <2>6. defaults' \in ValueMaps /\ entry' \in ValueMaps
    <3>1. defaults \in ValueMaps /\ entry \in ValueMaps
      BY DEF DataTypes
    <3>2. /\ Put(defaults, ThisField[1], ThisField[2]) \in ValueMaps
          /\ Put(entry, ThisField[1], ThisField[2]) \in ValueMaps
      BY <2>4, <3>1, PutOne
    <3>3. QED
      BY <2>1, <3>1, <3>2
  <2>7. QED
    BY <2>1, <2>5, <2>6 DEF DataTypes
<1>3. CASE EndDefaults \/ EndEntry
  <2>1. /\ UNCHANGED <<block, phase, fields, defaults, combos, combo, longer>>
        /\ part' = part + 1 /\ place' = 1
        /\ entry' \in {entry, Unset} /\ entries' \in {entries, Append(entries, entry)}
    BY <1>3 DEF EndDefaults, EndEntry, NextPart
  <2>2. Append(entries, entry) \in Seq(ValueMaps)
    BY DEF DataTypes
  <2>3. entry' \in ValueMaps /\ entries' \in Seq(ValueMaps)
    BY <2>1, <2>2, NoneSet DEF DataTypes
  <2>4. part' \in Nat \ {0} /\ place' \in Nat \ {0}
    BY <2>1 DEF DataTypes
  <2>5. QED
    BY <2>1, <2>3, <2>4 DEF DataTypes
<1>4. CASE Combine
  <2>1. /\ phase = "read" /\ block.kind = "matrix" /\ part \in DOMAIN block.parts
        /\ combo \in DOMAIN combos /\ place \in DOMAIN ThisPart.values
        /\ longer' \in {longer, Append(longer, Put(combos[combo], ThisPart.key, ThisValue.val))}
        /\ place' = place + 1
        /\ UNCHANGED <<block, phase, part, fields, defaults, entry, entries, combos, combo>>
    BY <1>4 DEF Combine, Reading
  <2>2. ThisPart.key \in KeyNames /\ ThisValue.val \in Values
    BY <2>1, MatrixShape DEF ThisPart, ThisValue
  <2>3. combos[combo] \in ValueMaps
    BY <2>1 DEF DataTypes
  <2>4. Put(combos[combo], ThisPart.key, ThisValue.val) \in ValueMaps
    BY <2>2, <2>3, PutOne
  <2>5. longer' \in Seq(ValueMaps)
    <3>1. \A m \in ValueMaps : Append(longer, m) \in Seq(ValueMaps)
      BY DEF DataTypes
    <3>2. QED
      BY <2>1, <2>4, <3>1 DEF DataTypes
  <2>6. QED
    BY <2>1, <2>5 DEF DataTypes
<1>5. CASE NextCombo
  BY <1>5 DEF NextCombo, DataTypes
<1>6. CASE EndDimension
  BY <1>6 DEF EndDimension, NextPart, DataTypes
<1>7. CASE WriteRows \/ WriteCombos
  <2>1. phase # "idle" /\ phase' = "written"
        /\ UNCHANGED <<block, part, place, fields, defaults, entry, entries, combos, combo, longer>>
    BY <1>7 DEF WriteRows, WriteCombos
  <2>2. QED
    BY <2>1 DEF DataTypes
<1>8. CASE UNCHANGED dataVars
  BY <1>8 DEF dataVars, DataTypes
<1>9. QED
  BY <1>1, <1>2, <1>3, <1>4, <1>5, <1>6, <1>7, <1>8 DEF DataNext
-----------------------------------------------------------------------------
(* `each`: what is known after the fields that have been read.             *)
Read(p, n) ==
  /\ p \in DOMAIN block.parts /\ n \in DOMAIN block.parts[p].fields
  /\ Before(p, n, part, place)
KeyAt(p, n) == block.parts[p].fields[n][1]
ReadByDefaults(p, n) == Read(p, n) /\ block.parts[p].kind = "defaults"

EachPlace ==
  /\ part <= Len(block.parts) + 1
  /\ IF part \in DOMAIN block.parts THEN place <= Len(block.parts[part].fields) + 1 ELSE place = 1
FieldsRead ==
  \A f : (\E n \in DOMAIN fields : fields[n] = f) <=>
            f = "name" \/ \E p, n : Read(p, n) /\ KeyAt(p, n) = f
DefaultAt(f, v, p, n) ==
  /\ ReadByDefaults(p, n) /\ block.parts[p].fields[n] = <<f, v>>
  /\ \A q, m : ReadByDefaults(q, m) /\ Before(p, n, q, m) => KeyAt(q, m) # f
DefaultsRead ==
  /\ \A f \in KeyNames : f \in DOMAIN defaults <=> \E p, n : ReadByDefaults(p, n) /\ KeyAt(p, n) = f
  /\ \A f \in DOMAIN defaults : \E p, n : DefaultAt(f, defaults[f], p, n)
EntryRead ==
  IF part \in PartsOf("entry") THEN Holds(entry, block.parts[part].fields, place) ELSE entry = Unset
EntryOf(p) ==
  /\ RowOf(p) \in DOMAIN entries
  /\ Holds(entries[RowOf(p)], block.parts[p].fields, Len(block.parts[p].fields) + 1)
EntriesRead ==
  /\ Len(entries) = Cardinality({q \in PartsOf("entry") : q < part})
  /\ \A p \in PartsOf("entry") : p < part => EntryOf(p)
EachWritten ==
  phase = "written" =>
    /\ part \notin DOMAIN block.parts
    /\ rows = [i \in DOMAIN entries |-> [f \in {fields[n] : n \in DOMAIN fields} |-> Value(i, f)]]
EachRead == EachPlace /\ FieldsRead /\ DefaultsRead /\ EntryRead /\ EntriesRead /\ EachWritten

EachInv ==
  /\ phase = "idle" => DataInit
  /\ phase # "idle" /\ block.kind = "each" => EachRead

LEMMA EachParts ==
  ASSUME NEW b \in DataBlock, b.kind = "each"
  PROVE  /\ b.parts \in Seq(EachPart) /\ Len(b.parts) \in Nat /\ DOMAIN b.parts = 1..Len(b.parts)
         /\ \A p \in DOMAIN b.parts :
              /\ p \in Nat \ {0} /\ b.parts[p].kind \in {"defaults", "entry"}
              /\ b.parts[p].fields \in Seq(KeyNames \X Values)
              /\ Len(b.parts[p].fields) \in Nat
              /\ DOMAIN b.parts[p].fields = 1..Len(b.parts[p].fields)
              /\ \A n \in DOMAIN b.parts[p].fields :
                   /\ n \in Nat \ {0} /\ b.parts[p].fields[n][1] \in KeyNames
                   /\ b.parts[p].fields[n] = <<b.parts[p].fields[n][1], b.parts[p].fields[n][2]>>
<1> DEFINE ps == b.parts
<1>1. ps \in Seq(EachPart)
  BY DEF DataBlock
<1>2. \A x \in EachPart : x.kind \in {"defaults", "entry"} /\ x.fields \in Seq(KeyNames \X Values)
  BY DEF EachPart
<1>3. \A s \in Seq(KeyNames \X Values) :
        /\ Len(s) \in Nat /\ DOMAIN s = 1..Len(s)
        /\ \A n \in DOMAIN s : n \in Nat \ {0} /\ s[n][1] \in KeyNames /\ s[n] = <<s[n][1], s[n][2]>>
  OBVIOUS
<1> HIDE DEF ps
<1>4. Len(ps) \in Nat /\ DOMAIN ps = 1..Len(ps) /\ \A p \in DOMAIN ps : p \in Nat \ {0} /\ ps[p] \in EachPart
  BY <1>1
<1>5. /\ ps \in Seq(EachPart) /\ Len(ps) \in Nat /\ DOMAIN ps = 1..Len(ps)
      /\ \A p \in DOMAIN ps :
           /\ p \in Nat \ {0} /\ ps[p].kind \in {"defaults", "entry"}
           /\ ps[p].fields \in Seq(KeyNames \X Values)
           /\ Len(ps[p].fields) \in Nat
           /\ DOMAIN ps[p].fields = 1..Len(ps[p].fields)
           /\ \A n \in DOMAIN ps[p].fields :
                /\ n \in Nat \ {0} /\ ps[p].fields[n][1] \in KeyNames
                /\ ps[p].fields[n] = <<ps[p].fields[n][1], ps[p].fields[n][2]>>
  BY <1>1, <1>2, <1>3, <1>4
<1>6. QED
  BY <1>5 DEF ps

LEMMA BeginsEach ==
  DataTypes /\ EachInv /\ Open => EachInv'
<1> SUFFICES ASSUME DataTypes, EachInv, Open, block'.kind = "each"
             PROVE  EachRead'
  BY DEF EachInv, Open
<1>1. DataInit /\ block' \in DataBlock /\ phase' = "read"
      /\ UNCHANGED <<part, place, fields, defaults, entry, entries, combos, combo, longer, rows>>
  BY DataBlocksAssumption DEF Open, EachInv
<1>2. /\ part' = 1 /\ place' = 1 /\ fields' = <<"name">> /\ defaults' = Unset /\ entry' = Unset
      /\ entries' = <<>>
  BY <1>1 DEF DataInit
<1> DEFINE ps == block'.parts
<1>3. /\ ps \in Seq(EachPart) /\ Len(ps) \in Nat /\ DOMAIN ps = 1..Len(ps)
      /\ \A p \in DOMAIN ps : Len(ps[p].fields) \in Nat /\ \A n \in DOMAIN ps[p].fields : n \in Nat \ {0}
      /\ \A p \in DOMAIN ps : p \in Nat \ {0}
  BY <1>1, EachParts
<1>4. \A p, n : ~Read(p, n)'
  BY <1>2, <1>3 DEF Read, Before
<1>5. EachPlace'
  BY <1>2, <1>3 DEF EachPlace
<1>6. FieldsRead'
  <2>1. \A n \in DOMAIN fields' : fields'[n] = "name"
    BY <1>2
  <2>2. 1 \in DOMAIN fields' /\ fields'[1] = "name"
    BY <1>2
  <2>3. QED
    BY <1>4, <2>1, <2>2 DEF FieldsRead
<1>7. DefaultsRead'
  BY <1>2, <1>4, NoneSet DEF DefaultsRead, ReadByDefaults
<1>8. EntryRead'
  BY <1>2, HoldsNothing DEF EntryRead
<1>9. EntriesRead'
  <2>1. \A p \in PartsOf("entry")' : ~(p < 1)
    BY <1>3 DEF PartsOf
  <2>2. {q \in PartsOf("entry")' : q < 1} = {} /\ Len(entries') = 0
    BY <1>2, <2>1
  <2>3. QED
    BY <1>2, <2>1, <2>2, FS_EmptySet DEF EntriesRead
<1>10. EachWritten'
  BY <1>1 DEF EachWritten
<1>11. QED
  BY <1>5, <1>6, <1>7, <1>8, <1>9, <1>10 DEF EachRead

LEMMA SameParts ==
  ASSUME block' = block
  PROVE  /\ \A k : PartsOf(k)' = PartsOf(k)
         /\ \A p, n : KeyAt(p, n)' = KeyAt(p, n)
         /\ \A p : RowOf(p)' = RowOf(p)
BY DEF PartsOf, KeyAt, RowOf

LEMMA ReadsField ==
  ASSUME DataTypes, EachInv, ReadDefault \/ ReadOwn
  PROVE  EachRead'
<1> DEFINE fs == block.parts[part].fields
           key == fs[place][1]
           v == fs[place][2]
<1>1. /\ phase = "read" /\ block.kind = "each" /\ part \in DOMAIN block.parts
      /\ place \in DOMAIN fs /\ place' = place + 1
      /\ fields' = AddField(fields, key)
      /\ UNCHANGED <<block, phase, part, entries, combos, combo, longer>>
      /\ \/ /\ block.parts[part].kind = "defaults"
            /\ defaults' = Put(defaults, key, v) /\ entry' = entry
         \/ /\ block.parts[part].kind = "entry"
            /\ entry' = Put(entry, key, v) /\ defaults' = defaults
  BY DEF ReadDefault, ReadOwn, InPart, Reading, ReadField, ThisPart, ThisField
<1>2. EachRead
  BY <1>1 DEF EachInv
<1>3. /\ block \in DataBlock /\ part \in Nat \ {0} /\ place \in Nat \ {0}
      /\ defaults \in ValueMaps /\ entry \in ValueMaps /\ fields \in Seq(KeyNames)
  BY <1>1 DEF DataTypes
<1>4. /\ fs \in Seq(KeyNames \X Values) /\ Len(fs) \in Nat /\ DOMAIN fs = 1..Len(fs)
      /\ key \in KeyNames /\ v \in Values /\ fs[place] = <<key, v>>
      /\ \A p \in DOMAIN block.parts : p \in Nat \ {0}
                                       /\ \A n \in DOMAIN block.parts[p].fields : n \in Nat \ {0}
  <2>1. fs \in Seq(KeyNames \X Values) /\ Len(fs) \in Nat /\ DOMAIN fs = 1..Len(fs)
    BY <1>1, <1>3, EachParts
  <2>2. \A p \in DOMAIN block.parts : p \in Nat \ {0}
                                       /\ \A n \in DOMAIN block.parts[p].fields : n \in Nat \ {0}
    BY <1>1, <1>3, EachParts
  <2>3. \A s \in Seq(KeyNames \X Values) : \A n \in DOMAIN s :
          s[n][1] \in KeyNames /\ s[n][2] \in Values /\ s[n] = <<s[n][1], s[n][2]>>
    OBVIOUS
  <2>4. QED
    BY <1>1, <2>1, <2>2, <2>3
<1>5. \A p, n : Read(p, n)' <=> Read(p, n) \/ (p = part /\ n = place)
  BY <1>1, <1>3, <1>4 DEF Read, Before
<1>6. \A p, n : ~(Read(p, n) /\ Before(part, place, p, n))
  BY <1>3, <1>4 DEF Read, Before
<1>7. \A p, n : Read(p, n) => Before(p, n, part, place) /\ ~(p = part /\ n = place)
  BY <1>3, <1>4 DEF Read, Before
<1>8. ~Before(part, place, part, place)
  BY <1>3 DEF Before
<1>9. \A p, n : KeyAt(p, n)' = KeyAt(p, n)
  BY <1>1, SameParts
<1>10. KeyAt(part, place) = key
  BY DEF KeyAt
<1> HIDE DEF key, v
<1>11. EachPlace'
  BY <1>1, <1>2, <1>3, <1>4 DEF EachRead, EachPlace
<1>12. FieldsRead'
  <2>1. \A f : (\E n \in DOMAIN fields' : fields'[n] = f) <=> f = key \/ \E n \in DOMAIN fields : fields[n] = f
    <3>1. CASE \E i \in DOMAIN fields : fields[i] = key
      BY <1>1, <3>1 DEF AddField
    <3>2. CASE ~ \E i \in DOMAIN fields : fields[i] = key
      <4>1. fields' = Append(fields, key)
        BY <1>1, <3>2 DEF AddField
      <4>2. /\ DOMAIN Append(fields, key) = DOMAIN fields \union {Len(fields) + 1}
            /\ Append(fields, key)[Len(fields) + 1] = key
            /\ \A n \in DOMAIN fields : Append(fields, key)[n] = fields[n]
        BY <1>3
      <4>3. QED
        BY <4>1, <4>2
    <3>3. QED
      BY <3>1, <3>2
  <2>2. \A f : (\E p, n : Read(p, n)' /\ KeyAt(p, n)' = f) <=> f = key \/ \E p, n : Read(p, n) /\ KeyAt(p, n) = f
    BY <1>5, <1>9, <1>10
  <2>3. QED
    BY <1>2, <2>1, <2>2 DEF EachRead, FieldsRead
<1>13. DefaultsRead'
  <2>1. CASE block.parts[part].kind = "defaults"
    <3> DEFINE new == Put(defaults, key, v)
    <3>1. /\ new \in ValueMaps /\ DOMAIN new = DOMAIN defaults \union {key} /\ new[key] = v
          /\ \A k \in DOMAIN defaults \ {key} : new[k] = defaults[k]
      <4>1. key \in KeyNames /\ v \in Values /\ defaults \in ValueMaps
        BY <1>3, <1>4
      <4>2. QED
        BY <4>1, PutOne
    <3>2. defaults' = new
      BY <1>1, <2>1
    <3> HIDE DEF new
    <3>3. \A p, n : ReadByDefaults(p, n)' <=> ReadByDefaults(p, n) \/ (p = part /\ n = place)
      BY <1>1, <1>5, <2>1 DEF ReadByDefaults
    <3>4. \A f \in KeyNames : f \in DOMAIN new <=> \E p, n : ReadByDefaults(p, n)' /\ KeyAt(p, n)' = f
      BY <1>2, <1>9, <1>10, <3>1, <3>3 DEF EachRead, DefaultsRead
    <3>5. ASSUME NEW f \in DOMAIN new
          PROVE  \E w, p, n : w = new[f] /\ DefaultAt(f, w, p, n)'
      <4>1. CASE f = key
        <5>1. block.parts[part].fields[place] = <<f, new[f]>>
          BY <1>4, <3>1, <4>1
        <5>2. \A q, m : ReadByDefaults(q, m)' => ~Before(part, place, q, m)
          BY <1>6, <1>8, <3>3 DEF ReadByDefaults
        <5>3. \A w, p, n : w = new[f] /\ p = part /\ n = place => DefaultAt(f, w, p, n)'
          BY <1>1, <3>3, <5>1, <5>2 DEF DefaultAt
        <5>4. QED
          BY <5>3
      <4>2. CASE f # key
        <5>1. f \in DOMAIN defaults /\ new[f] = defaults[f]
          BY <3>1, <4>2
        <5>2. PICK p, n : DefaultAt(f, defaults[f], p, n)
          BY <1>2, <5>1 DEF EachRead, DefaultsRead
        <5>3. \A q, m : ReadByDefaults(q, m)' /\ Before(p, n, q, m) => KeyAt(q, m)' # f
          BY <1>9, <1>10, <3>3, <4>2, <5>2 DEF DefaultAt
        <5>4. \A w : w = new[f] => DefaultAt(f, w, p, n)'
          BY <1>1, <3>3, <5>1, <5>2, <5>3 DEF DefaultAt
        <5>5. QED
          BY <5>4
      <4>3. QED
        BY <4>1, <4>2
    <3>6. QED
      BY <3>2, <3>4, <3>5 DEF DefaultsRead
  <2>2. CASE block.parts[part].kind = "entry"
    <3>1. defaults' = defaults /\ \A p, n : ReadByDefaults(p, n)' <=> ReadByDefaults(p, n)
      BY <1>1, <1>5, <2>2 DEF ReadByDefaults
    <3>2. \A f, w, p, n : DefaultAt(f, w, p, n)' <=> DefaultAt(f, w, p, n)
      BY <1>1, <1>9, <3>1 DEF DefaultAt
    <3>3. QED
      BY <1>2, <1>9, <3>1, <3>2 DEF EachRead, DefaultsRead
  <2>3. QED
    BY <1>1, <2>1, <2>2
<1>14. EntryRead'
  <2>1. CASE block.parts[part].kind = "entry"
    <3>1. part \in PartsOf("entry") /\ PartsOf("entry")' = PartsOf("entry")
      BY <1>1, <2>1, SameParts DEF PartsOf
    <3>2. Holds(entry, fs, place)
      BY <1>2, <3>1 DEF EachRead, EntryRead
    <3>3. Holds(Put(entry, key, v), fs, place + 1)
      BY <1>1, <1>4, <3>2, PutHolds DEF key, v
    <3>4. entry' = Put(entry, key, v)
      BY <1>1, <2>1
    <3>5. QED
      BY <1>1, <3>1, <3>3, <3>4 DEF EntryRead
  <2>2. CASE block.parts[part].kind = "defaults"
    <3>1. part \notin PartsOf("entry") /\ PartsOf("entry")' = PartsOf("entry") /\ entry' = entry
      BY <1>1, <2>2, SameParts DEF PartsOf
    <3>2. QED
      BY <1>1, <1>2, <3>1 DEF EachRead, EntryRead
  <2>3. QED
    BY <1>1, <2>1, <2>2
<1>15. EntriesRead'
  <2>1. PartsOf("entry")' = PartsOf("entry") /\ \A p : EntryOf(p)' <=> EntryOf(p)
    BY <1>1, SameParts DEF EntryOf
  <2>2. QED
    BY <1>1, <1>2, <2>1 DEF EachRead, EntriesRead
<1>16. EachWritten'
  BY <1>1 DEF EachWritten
<1>17. QED
  BY <1>11, <1>12, <1>13, <1>14, <1>15, <1>16 DEF EachRead
LEMMA EndsPart ==
  ASSUME DataTypes, EachInv, EndDefaults \/ EndEntry
  PROVE  EachRead'
<1> DEFINE fs == block.parts[part].fields
           Below(p) == {q \in PartsOf("entry") : q < p}
<1>1. /\ phase = "read" /\ block.kind = "each" /\ part \in DOMAIN block.parts
      /\ place \notin DOMAIN fs /\ part' = part + 1 /\ place' = 1
      /\ UNCHANGED <<block, phase, fields, defaults, combos, combo, longer>>
      /\ \/ /\ block.parts[part].kind = "defaults" /\ entry' = entry /\ entries' = entries
         \/ /\ block.parts[part].kind = "entry" /\ entry' = Unset /\ entries' = Append(entries, entry)
  BY DEF EndDefaults, EndEntry, InPart, Reading, ThisPart, NextPart
<1>2. EachRead
  BY <1>1 DEF EachInv
<1>3. /\ block \in DataBlock /\ part \in Nat \ {0} /\ place \in Nat \ {0}
      /\ entry \in ValueMaps /\ entries \in Seq(ValueMaps)
  BY <1>1 DEF DataTypes
<1>4. /\ Len(block.parts) \in Nat /\ DOMAIN block.parts = 1..Len(block.parts)
      /\ \A p \in DOMAIN block.parts :
           /\ p \in Nat \ {0} /\ Len(block.parts[p].fields) \in Nat
           /\ DOMAIN block.parts[p].fields = 1..Len(block.parts[p].fields)
           /\ \A n \in DOMAIN block.parts[p].fields : n \in Nat \ {0}
  BY <1>1, <1>3, EachParts
<1>5. place = Len(fs) + 1
  <2>1. place <= Len(fs) + 1 /\ Len(fs) \in Nat /\ DOMAIN fs = 1..Len(fs)
    BY <1>1, <1>2, <1>4 DEF EachRead, EachPlace
  <2>2. QED
    BY <1>1, <1>3, <2>1
<1>6. \A p, n : Read(p, n)' <=> Read(p, n)
  <2>1. \A p, n : p \in DOMAIN block.parts /\ n \in DOMAIN block.parts[p].fields =>
          (Before(p, n, part + 1, 1) <=> Before(p, n, part, place))
    <3>1. SUFFICES ASSUME NEW p \in DOMAIN block.parts, NEW n \in DOMAIN block.parts[p].fields
                   PROVE  Before(p, n, part + 1, 1) <=> Before(p, n, part, place)
      OBVIOUS
    <3>2. /\ p \in Nat /\ n \in Nat \ {0} /\ n <= Len(block.parts[p].fields)
          /\ Len(block.parts[p].fields) \in Nat
      BY <1>4
    <3>3. p = part => n < place
      BY <1>3, <1>5, <3>2
    <3>4. QED
      BY <1>3, <3>2, <3>3 DEF Before
  <2>2. QED
    BY <1>1, <2>1 DEF Read
<1>7. \A p, n : KeyAt(p, n)' = KeyAt(p, n)
  BY <1>1, SameParts
<1>8. PartsOf("entry")' = PartsOf("entry") /\ \A p : RowOf(p)' = RowOf(p)
  BY <1>1, SameParts
<1>9. EachPlace'
  <2>1. /\ part + 1 <= Len(block.parts) + 1
        /\ part + 1 \in DOMAIN block.parts => 1 <= Len(block.parts[part + 1].fields) + 1
    BY <1>1, <1>3, <1>4
  <2>2. QED
    BY <1>1, <2>1 DEF EachPlace
<1>10. FieldsRead'
  BY <1>1, <1>2, <1>6, <1>7 DEF EachRead, FieldsRead
<1>11. DefaultsRead'
  <2>1. \A p, n : ReadByDefaults(p, n)' <=> ReadByDefaults(p, n)
    BY <1>1, <1>6 DEF ReadByDefaults
  <2>2. \A f, w, p, n : DefaultAt(f, w, p, n)' <=> DefaultAt(f, w, p, n)
    BY <1>1, <1>7, <2>1 DEF DefaultAt
  <2>3. QED
    BY <1>1, <1>2, <1>7, <2>1, <2>2 DEF EachRead, DefaultsRead
<1>12. EntryRead'
  <2>1. entry' = Unset
    BY <1>1, <1>2 DEF EachRead, EntryRead, PartsOf
  <2>2. QED
    BY <1>1, <2>1, HoldsNothing DEF EntryRead
<1>13. EntriesRead'
  <2>1. CASE block.parts[part].kind = "defaults"
    <3>1. part \notin PartsOf("entry") /\ entries' = entries
      BY <1>1, <2>1 DEF PartsOf
    <3>2. \A p \in PartsOf("entry") : p < part + 1 <=> p < part
      BY <1>3, <1>4, <3>1 DEF PartsOf
    <3>3. {q \in PartsOf("entry") : q < part + 1} = {q \in PartsOf("entry") : q < part}
      BY <3>2
    <3>4. \A p : EntryOf(p)' <=> EntryOf(p)
      BY <1>1, <1>8, <3>1 DEF EntryOf
    <3>5. /\ Len(entries) = Cardinality({q \in PartsOf("entry") : q < part + 1})
          /\ \A p \in PartsOf("entry") : p < part + 1 => EntryOf(p)
      BY <1>2, <3>2, <3>3 DEF EachRead, EntriesRead
    <3>6. QED
      BY <1>1, <1>8, <3>1, <3>4, <3>5 DEF EntriesRead
  <2>2. CASE block.parts[part].kind = "entry"
    <3> DEFINE N == Len(entries)
    <3>1. part \in PartsOf("entry") /\ entries' = Append(entries, entry)
      BY <1>1, <2>2 DEF PartsOf
    <3>2. Holds(entry, fs, Len(fs) + 1)
      BY <1>2, <1>5, <3>1 DEF EachRead, EntryRead
    <3>3. \A p \in PartsOf("entry") : /\ (p < part + 1 <=> p < part \/ p = part)
                                      /\ (p <= part <=> p < part \/ p = part)
                                      /\ ~(part < part)
      BY <1>3, <1>4 DEF PartsOf
    <3>4. /\ {q \in PartsOf("entry") : q < part + 1} = Below(part) \union {part}
          /\ {q \in PartsOf("entry") : q <= part} = Below(part) \union {part}
          /\ part \notin Below(part)
      BY <3>1, <3>3
    <3>5. IsFiniteSet(Below(part))
      <4>1. Below(part) \subseteq 1..Len(block.parts)
        BY <1>4 DEF PartsOf
      <4>2. IsFiniteSet(1..Len(block.parts))
        BY <1>4, FS_Interval
      <4>3. QED
        BY <4>1, <4>2, FS_Subset
    <3>6. Cardinality(Below(part) \union {part}) = Cardinality(Below(part)) + 1
      BY <3>4, <3>5, FS_AddElement
    <3>7. N = Cardinality(Below(part)) /\ N \in Nat
      BY <1>2, <1>3 DEF EachRead, EntriesRead
    <3>8. RowOf(part) = N + 1 /\ Cardinality({q \in PartsOf("entry") : q < part + 1}) = N + 1
      BY <3>4, <3>6, <3>7 DEF RowOf
    <3> DEFINE es == Append(entries, entry)
    <3>9. /\ Len(es) = N + 1 /\ DOMAIN es = DOMAIN entries \union {N + 1} /\ es[N + 1] = entry
          /\ \A i \in DOMAIN entries : es[i] = entries[i]
      BY <1>3
    <3> HIDE DEF es, N
    <3>10. \A p \in PartsOf("entry") : p < part => EntryOf(p)'
      <4>1. SUFFICES ASSUME NEW p \in PartsOf("entry"), p < part
                     PROVE  EntryOf(p)'
        OBVIOUS
      <4>2. EntryOf(p)
        BY <1>2, <4>1 DEF EachRead, EntriesRead
      <4>3. RowOf(p) \in DOMAIN es /\ es[RowOf(p)] = entries[RowOf(p)]
        BY <3>9, <4>2 DEF EntryOf
      <4>4. QED
        BY <1>1, <1>8, <3>1, <4>2, <4>3 DEF EntryOf, es
    <3>11. \A p : p = part => EntryOf(p)'
      <4>1. RowOf(part) \in DOMAIN es /\ es[RowOf(part)] = entry
        BY <3>8, <3>9
      <4>2. QED
        BY <1>1, <1>8, <3>1, <3>2, <4>1 DEF EntryOf, es
    <3>12. Len(entries') = Cardinality({q \in PartsOf("entry") : q < part + 1})
      BY <3>1, <3>8, <3>9 DEF es
    <3>13. \A p \in PartsOf("entry") : p < part + 1 => EntryOf(p)'
      BY <3>3, <3>10, <3>11
    <3>14. QED
      BY <1>1, <1>8, <3>12, <3>13 DEF EntriesRead
  <2>3. QED
    BY <1>1, <2>1, <2>2
<1>14. EachWritten'
  BY <1>1 DEF EachWritten
<1>15. QED
  BY <1>9, <1>10, <1>11, <1>12, <1>13, <1>14 DEF EachRead

LEMMA StaysRead ==
  ASSUME EachRead, UNCHANGED <<block, part, place, fields, defaults, entry, entries>>, EachWritten'
  PROVE  EachRead'
<1>1. /\ \A p, n : Read(p, n)' <=> Read(p, n)
      /\ \A p, n : KeyAt(p, n)' = KeyAt(p, n)
      /\ \A k : PartsOf(k)' = PartsOf(k)
      /\ \A p : RowOf(p)' = RowOf(p)
  BY SameParts DEF Read
<1>2. \A p, n : ReadByDefaults(p, n)' <=> ReadByDefaults(p, n)
  BY <1>1 DEF ReadByDefaults
<1>3. \A f, w, p, n : DefaultAt(f, w, p, n)' <=> DefaultAt(f, w, p, n)
  BY <1>1, <1>2 DEF DefaultAt
<1>4. \A p : EntryOf(p)' <=> EntryOf(p)
  BY <1>1 DEF EntryOf
<1>5. EachPlace' /\ FieldsRead'
  <2>1. EachPlace'
    BY DEF EachRead, EachPlace
  <2>2. FieldsRead
    BY DEF EachRead
  <2>3. FieldsRead'
    BY <1>1, <2>2 DEF FieldsRead
  <2>4. QED
    BY <2>1, <2>3
<1>6. DefaultsRead'
  BY <1>1, <1>2, <1>3 DEF EachRead, DefaultsRead
<1>7. EntryRead' /\ EntriesRead'
  BY <1>1, <1>4 DEF EachRead, EntryRead, EntriesRead
<1>8. QED
  BY <1>5, <1>6, <1>7 DEF EachRead

LEMMA StepEach == DataTypes /\ EachInv /\ [DataNext]_dataVars => EachInv'
<1> SUFFICES ASSUME DataTypes, EachInv, [DataNext]_dataVars
             PROVE  EachInv'
  OBVIOUS
<1>1. CASE Open
  BY <1>1, BeginsEach
<1>2. CASE ReadDefault \/ ReadOwn
  <2>1. phase' # "idle"
    BY <1>2 DEF ReadDefault, ReadOwn, InPart, Reading
  <2>2. QED
    BY <1>2, <2>1, ReadsField DEF EachInv
<1>3. CASE EndDefaults \/ EndEntry
  <2>1. phase' # "idle"
    BY <1>3 DEF EndDefaults, EndEntry, InPart, Reading
  <2>2. QED
    BY <1>3, <2>1, EndsPart DEF EachInv
<1>4. CASE Combine \/ NextCombo \/ EndDimension \/ WriteCombos
  <2>1. phase' # "idle" /\ block'.kind # "each"
    BY <1>4 DEF Combine, NextCombo, EndDimension, WriteCombos, Reading
  <2>2. QED
    BY <2>1 DEF EachInv
<1>5. CASE WriteRows
  <2>1. /\ phase = "read" /\ block.kind = "each" /\ part \notin DOMAIN block.parts /\ phase' = "written"
        /\ rows' = [i \in DOMAIN entries |-> [f \in {fields[n] : n \in DOMAIN fields} |-> Value(i, f)]]
        /\ UNCHANGED <<block, part, place, fields, defaults, entry, entries>>
    BY <1>5 DEF WriteRows
  <2> DEFINE R == [i \in DOMAIN entries |-> [f \in {fields[n] : n \in DOMAIN fields} |-> Value(i, f)]]
  <2>2. R' = R
    BY <2>1 DEF Value
  <2>3. EachWritten'
    BY <2>1, <2>2 DEF EachWritten
  <2>4. QED
    BY <2>1, <2>3, StaysRead DEF EachInv
<1>6. CASE UNCHANGED dataVars
  <2>1. UNCHANGED <<phase, block, part, place, fields, defaults, entry, entries, rows>> /\ (DataInit => DataInit')
    BY <1>6 DEF dataVars, DataInit
  <2> DEFINE R == [i \in DOMAIN entries |-> [f \in {fields[n] : n \in DOMAIN fields} |-> Value(i, f)]]
  <2>2. R' = R
    BY <2>1 DEF Value
  <2>3. EachWritten => EachWritten'
    BY <2>1, <2>2 DEF EachWritten
  <2>4. EachRead => EachRead'
    BY <2>1, <2>3, StaysRead DEF EachRead
  <2>5. QED
    BY <2>1, <2>4 DEF EachInv
<1>7. QED
  BY <1>1, <1>2, <1>3, <1>4, <1>5, <1>6 DEF DataNext

LEMMA DefaultsReachThem == DataTypes /\ EachInv => DefaultsReachAll
<1> SUFFICES ASSUME DataTypes, EachInv, phase = "written", block.kind = "each"
             PROVE  DefaultsReachAll
  BY DEF DefaultsReachAll
<1>1. EachRead /\ block \in DataBlock /\ entries \in Seq(ValueMaps) /\ fields \in Seq(KeyNames)
      /\ part \in Nat \ {0}
  BY DEF EachInv, DataTypes
<1>2. /\ part \notin DOMAIN block.parts /\ part <= Len(block.parts) + 1
      /\ rows = [i \in DOMAIN entries |-> [f \in {fields[n] : n \in DOMAIN fields} |-> Value(i, f)]]
  BY <1>1 DEF EachRead, EachWritten, EachPlace
<1>3. /\ Len(block.parts) \in Nat /\ DOMAIN block.parts = 1..Len(block.parts)
      /\ \A p \in DOMAIN block.parts :
           /\ p \in Nat \ {0} /\ Len(block.parts[p].fields) \in Nat
           /\ DOMAIN block.parts[p].fields = 1..Len(block.parts[p].fields)
           /\ \A n \in DOMAIN block.parts[p].fields :
                n \in Nat \ {0} /\ block.parts[p].fields[n][1] \in KeyNames
  BY <1>1, EachParts
<1>4. \A p \in DOMAIN block.parts : p < part
  BY <1>1, <1>2, <1>3
<1>5. \A p, n : Read(p, n) <=> p \in DOMAIN block.parts /\ n \in DOMAIN block.parts[p].fields
  BY <1>4 DEF Read, Before
<1>6. Len(rows) = Cardinality(PartsOf("entry"))
  <2>1. PartsOf("entry") = {q \in PartsOf("entry") : q < part}
    BY <1>4 DEF PartsOf
  <2>2. Len(entries) = Cardinality(PartsOf("entry"))
    BY <1>1, <2>1 DEF EachRead, EntriesRead
  <2> DEFINE R(i) == [f \in {fields[n] : n \in DOMAIN fields} |-> Value(i, f)]
             S == {R(i) : i \in DOMAIN entries}
  <2>3. rows = [i \in DOMAIN entries |-> R(i)] /\ \A i \in DOMAIN entries : R(i) \in S
    BY <1>2
  <2>4. DOMAIN entries = 1..Len(entries) /\ Len(entries) \in Nat
    BY <1>1
  <2> HIDE DEF R, S
  <2>5. rows \in Seq(S) /\ Len(rows) = Len(entries)
    BY <2>3, <2>4
  <2>6. QED
    BY <2>2, <2>5
<1>7. ASSUME NEW p \in PartsOf("entry")
      PROVE  LET row == rows[RowOf(p)]
             IN /\ DOMAIN row = {"name"} \union UNION {Keys(q) : q \in DOMAIN block.parts}
                /\ \A f \in DOMAIN row :
                     CASE f \in Keys(p) -> GivesLast(p, f, row[f])
                       [] f \notin Keys(p) /\ HasDefault(f) -> IsDefault(f, row[f])
                       [] OTHER -> row[f] = IF f = "name" THEN <<"scenario", RowOf(p)>> ELSE Missing
  <2> DEFINE i == RowOf(p)
             row == rows[i]
             fs == block.parts[p].fields
             own == entries[i]
  <2>1. p \in DOMAIN block.parts /\ p < part
    BY <1>4 DEF PartsOf
  <2>2. i \in DOMAIN entries /\ Holds(own, fs, Len(fs) + 1)
    BY <1>1, <2>1 DEF EachRead, EntriesRead, EntryOf
  <2>3. row = [f \in {fields[n] : n \in DOMAIN fields} |-> Value(i, f)]
    BY <1>2, <2>2
  <2>4. \A f : f \in DOMAIN row <=> \E n \in DOMAIN fields : fields[n] = f
    BY <2>3
  <2>5. \A f \in DOMAIN row : f \in KeyNames /\ row[f] = Value(i, f)
    BY <1>1, <2>3
  <2>6. \A q \in DOMAIN block.parts : \A f : f \in Keys(q) <=> \E n \in DOMAIN block.parts[q].fields : KeyAt(q, n) = f
    BY DEF Keys, KeyAt
  <2>8. \A f : f \in DOMAIN row <=> f = "name" \/ \E q \in DOMAIN block.parts : f \in Keys(q)
    BY <1>1, <1>5, <2>4, <2>6 DEF EachRead, FieldsRead
  <2>9. DOMAIN row = {"name"} \union UNION {Keys(q) : q \in DOMAIN block.parts}
    <3>1. \A f : f \in DOMAIN row <=> f \in {"name"} \union UNION {Keys(q) : q \in DOMAIN block.parts}
      BY <2>8
    <3>2. QED
      BY <3>1
  <2>10. Len(fs) \in Nat /\ DOMAIN fs = 1..Len(fs) /\ 1..((Len(fs) + 1) - 1) = DOMAIN fs
    BY <1>3, <2>1
  <2>11. \A f \in KeyNames : f \in DOMAIN own <=> f \in Keys(p)
    BY <2>1, <2>2, <2>6, <2>10 DEF Holds, KeyAt
  <2>12. \A f \in DOMAIN own : GivesLast(p, f, own[f])
    BY <2>2, <2>10 DEF Holds, GivesLast
  <2>13. \A f \in KeyNames : f \in DOMAIN defaults <=> HasDefault(f)
    BY <1>1, <1>5, <2>6 DEF EachRead, DefaultsRead, ReadByDefaults, HasDefault, PartsOf
  <2>14. \A f \in DOMAIN defaults : IsDefault(f, defaults[f])
    <3>1. SUFFICES ASSUME NEW f \in DOMAIN defaults
                   PROVE  IsDefault(f, defaults[f])
      OBVIOUS
    <3>2. PICK q, n : DefaultAt(f, defaults[f], q, n)
      BY <1>1 DEF EachRead, DefaultsRead
    <3>3. /\ q \in PartsOf("defaults") /\ n \in DOMAIN block.parts[q].fields
          /\ block.parts[q].fields[n] = <<f, defaults[f]>> /\ q \in Nat
      BY <1>3, <3>2 DEF DefaultAt, ReadByDefaults, Read, PartsOf
    <3>4. \A r, m : /\ r \in PartsOf("defaults") /\ m \in DOMAIN block.parts[r].fields
                    /\ r > q \/ (r = q /\ m > n)
                    => KeyAt(r, m) # f
      <4>1. SUFFICES ASSUME NEW r \in PartsOf("defaults"), NEW m \in DOMAIN block.parts[r].fields,
                            r > q \/ (r = q /\ m > n)
                     PROVE  KeyAt(r, m) # f
        OBVIOUS
      <4>2. ReadByDefaults(r, m)
        BY <1>5 DEF ReadByDefaults, PartsOf
      <4>3. Before(q, n, r, m)
        BY <1>3, <3>3, <4>1 DEF Before, PartsOf
      <4>4. QED
        BY <3>2, <4>2, <4>3 DEF DefaultAt
    <3>5. GivesLast(q, f, defaults[f])
      BY <3>3, <3>4 DEF GivesLast, KeyAt
    <3>6. \A r \in PartsOf("defaults") : r > q => f \notin Keys(r)
      BY <2>6, <3>4 DEF PartsOf
    <3>7. QED
      BY <3>3, <3>5, <3>6 DEF IsDefault
  <2> HIDE DEF i, row, fs, own
  <2>15. ASSUME NEW f \in DOMAIN row
         PROVE  CASE f \in Keys(p) -> GivesLast(p, f, row[f])
                  [] f \notin Keys(p) /\ HasDefault(f) -> IsDefault(f, row[f])
                  [] OTHER -> row[f] = IF f = "name" THEN <<"scenario", i>> ELSE Missing
    <3>1. f \in KeyNames /\ row[f] = Value(i, f)
      BY <2>5
    <3>2. CASE f \in Keys(p)
      <4>1. f \in DOMAIN entries[i]
        BY <2>11, <3>1, <3>2 DEF own
      <4>2. row[f] = entries[i][f]
        BY <3>1, <4>1 DEF Value
      <4>3. QED
        BY <2>12, <3>2, <4>1, <4>2 DEF own
    <3>3. CASE f \notin Keys(p) /\ HasDefault(f)
      <4>1. f \notin DOMAIN entries[i] /\ f \in DOMAIN defaults
        BY <2>11, <2>13, <3>1, <3>3 DEF own
      <4>2. row[f] = defaults[f]
        BY <3>1, <4>1 DEF Value
      <4>3. QED
        BY <2>14, <3>3, <4>1, <4>2
    <3>4. CASE f \notin Keys(p) /\ ~HasDefault(f)
      <4>1. f \notin DOMAIN entries[i] /\ f \notin DOMAIN defaults
        BY <2>11, <2>13, <3>1, <3>4 DEF own
      <4>2. row[f] = IF f = "name" THEN <<"scenario", i>> ELSE Missing
        BY <3>1, <4>1 DEF Value
      <4>3. QED
        BY <3>4, <4>2
    <3>5. QED
      BY <3>2, <3>3, <3>4
  <2>16. QED
    BY <2>9, <2>15 DEF i, row
<1>8. QED
  BY <1>6, <1>7 DEF DefaultsReachAll
-----------------------------------------------------------------------------
(* `matrix`: the combinations of the dimensions read, and those of the     *)
(* dimension being read that have been made so far.                        *)
KeyOf(d) == block.parts[d].key
ValuesOf(d) == block.parts[d].values
Expressions(d) == LET vs == ValuesOf(d) IN {vs[n].val : n \in {n \in DOMAIN vs : ~vs[n].ident}}
Chosen(r, n) ==
  /\ r \in ValueMaps /\ DOMAIN r = {KeyOf(d) : d \in 1..(n - 1)}
  /\ \A d \in 1..(n - 1) : r[KeyOf(d)] \in Expressions(d)
AllOnce == \A d \in DOMAIN block.parts : Once(d)
CombosRead ==
  /\ \A i \in DOMAIN combos : Chosen(combos[i], part)
  /\ \A r : Chosen(r, part) => \E i \in DOMAIN combos : combos[i] = r
  /\ \A i, j \in DOMAIN combos : i # j => combos[i] # combos[j]

Extended(i, n) == Put(combos[i], KeyOf(part), ValuesOf(part)[n].val)
Combines(i, n) == i \in DOMAIN combos /\ n \in DOMAIN ValuesOf(part) /\ ~ValuesOf(part)[n].ident
Combined(i, n) == Combines(i, n) /\ Before(i, n, combo, place)
ComboPlace ==
  /\ combo <= Len(combos) + 1
  /\ IF combo \in DOMAIN combos THEN place <= Len(ValuesOf(part)) + 1 ELSE place = 1
LongerRead ==
  /\ \A j \in DOMAIN longer : \E i, n : Combined(i, n) /\ longer[j] = Extended(i, n)
  /\ \A i, n : Combined(i, n) => \E j \in DOMAIN longer : longer[j] = Extended(i, n)
  /\ \A i, j \in DOMAIN longer : i # j => longer[i] # longer[j]
MatrixWritten == phase = "written" => part \notin DOMAIN block.parts /\ rows = combos
MatrixRead ==
  /\ part <= Len(block.parts) + 1
  /\ part \in DOMAIN block.parts => ComboPlace
  /\ AllOnce => CombosRead /\ (part \in DOMAIN block.parts => LongerRead)
  /\ MatrixWritten
MatrixInv == phase # "idle" /\ block.kind = "matrix" => MatrixRead

InMatrix == phase # "idle" /\ block.kind = "matrix" /\ part \in DOMAIN block.parts

LEMMA MatrixParts ==
  ASSUME NEW b \in DataBlock, b.kind = "matrix"
  PROVE  /\ b.parts \in Seq(MatrixField) /\ Len(b.parts) \in Nat /\ DOMAIN b.parts = 1..Len(b.parts)
         /\ \A p \in DOMAIN b.parts :
              /\ p \in Nat \ {0} /\ b.parts[p].key \in KeyNames
              /\ Len(b.parts[p].values) \in Nat
              /\ DOMAIN b.parts[p].values = 1..Len(b.parts[p].values)
              /\ \A n \in DOMAIN b.parts[p].values :
                   n \in Nat \ {0} /\ b.parts[p].values[n].val \in Values
<1> DEFINE ps == b.parts
           W == [ident : BOOLEAN, val : Values]
<1>1. ps \in Seq(MatrixField)
  BY DEF DataBlock
<1>2. \A x \in MatrixField : x.key \in KeyNames /\ x.values \in Seq(W)
  BY DEF MatrixField
<1>3. \A w \in W : w.val \in Values
  OBVIOUS
<1> HIDE DEF W, ps
<1>4. \A s \in Seq(W) : Len(s) \in Nat /\ DOMAIN s = 1..Len(s) /\ \A n \in DOMAIN s : n \in Nat \ {0} /\ s[n] \in W
  OBVIOUS
<1>5. Len(ps) \in Nat /\ DOMAIN ps = 1..Len(ps) /\ \A p \in DOMAIN ps : p \in Nat \ {0} /\ ps[p] \in MatrixField
  BY <1>1
<1>6. \A p \in DOMAIN ps :
        /\ p \in Nat \ {0} /\ ps[p].key \in KeyNames
        /\ Len(ps[p].values) \in Nat
        /\ DOMAIN ps[p].values = 1..Len(ps[p].values)
        /\ \A n \in DOMAIN ps[p].values : n \in Nat \ {0} /\ ps[p].values[n].val \in Values
  BY <1>2, <1>3, <1>4, <1>5
<1>7. QED
  BY <1>1, <1>5, <1>6 DEF ps

LEMMA SameMatrix ==
  ASSUME block' = block
  PROVE  /\ \A d : KeyOf(d)' = KeyOf(d) /\ ValuesOf(d)' = ValuesOf(d) /\ Expressions(d)' = Expressions(d)
         /\ \A r, n : Chosen(r, n)' <=> Chosen(r, n)
         /\ AllOnce' <=> AllOnce
BY DEF KeyOf, ValuesOf, Expressions, Chosen, AllOnce, Once

LEMMA BeginsMatrix ==
  DataTypes /\ EachInv /\ Open => MatrixInv'
<1> SUFFICES ASSUME DataTypes, EachInv, Open, block'.kind = "matrix"
             PROVE  MatrixRead'
  BY DEF MatrixInv
<1>1. /\ DataInit /\ block' \in DataBlock /\ phase' = "read"
      /\ UNCHANGED <<part, place, combos, combo, longer>>
  BY DataBlocksAssumption DEF Open, EachInv
<1>2. part' = 1 /\ place' = 1 /\ combos' = <<Unset>> /\ combo' = 1 /\ longer' = <<>>
  BY <1>1 DEF DataInit
<1>3. /\ Len(block'.parts) \in Nat
      /\ \A p \in DOMAIN block'.parts : Len(block'.parts[p].values) \in Nat
                                        /\ \A n \in DOMAIN block'.parts[p].values : n \in Nat \ {0}
  BY <1>1, MatrixParts
<1>4. 1..(1 - 1) = {} /\ {KeyOf(d)' : d \in {}} = {}
  OBVIOUS
<1>5. DOMAIN <<Unset>> = {1} /\ <<Unset>>[1] = Unset /\ Len(<<Unset>>) = 1
  OBVIOUS
<1>6. \A r : Chosen(r, 1)' <=> r = Unset
  <2>1. \A r : Chosen(r, 1)' <=> r \in ValueMaps /\ DOMAIN r = {}
    BY <1>4 DEF Chosen
  <2>2. \A r \in ValueMaps : DOMAIN r = {} => r = Unset
    BY NoneSet, MapsAgree
  <2>3. QED
    BY <2>1, <2>2, NoneSet
<1>7. CombosRead'
  BY <1>2, <1>5, <1>6 DEF CombosRead
<1>8. part' \in DOMAIN block'.parts => \A i, n : ~Combined(i, n)'
  <2>1. SUFFICES ASSUME 1 \in DOMAIN block'.parts, NEW i, NEW n, Combines(i, n)', Before(i, n, 1, 1)
                 PROVE  FALSE
    BY <1>2 DEF Combined
  <2>2. i = 1 /\ n \in Nat \ {0}
    BY <1>2, <1>3, <1>5, <2>1 DEF Combines, ValuesOf
  <2>3. QED
    BY <2>1, <2>2 DEF Before
<1>9. part' \in DOMAIN block'.parts => LongerRead' /\ ComboPlace'
  BY <1>2, <1>3, <1>5, <1>8 DEF LongerRead, ComboPlace, ValuesOf
<1>10. QED
  BY <1>1, <1>2, <1>3, <1>7, <1>9 DEF MatrixRead, MatrixWritten

(* The extended combinations are those of one more dimension, each of one  *)
(* combination and one value.                                              *)
LEMMA Extends ==
  ASSUME DataTypes, InMatrix, AllOnce, CombosRead
  PROVE  /\ \A i, n : Combines(i, n) => Chosen(Extended(i, n), part + 1)
         /\ \A r : Chosen(r, part + 1) => \E i, n : Combines(i, n) /\ r = Extended(i, n)
         /\ \A i, n, j, m : Combines(i, n) /\ Combines(j, m) /\ Extended(i, n) = Extended(j, m)
                              => i = j /\ n = m
<1> DEFINE key == KeyOf(part)
           below == {KeyOf(d) : d \in 1..(part - 1)}
           val(n) == ValuesOf(part)[n].val
<1>1. /\ block \in DataBlock /\ part \in Nat \ {0} /\ combos \in Seq(ValueMaps)
      /\ part \in DOMAIN block.parts
  BY DEF DataTypes, InMatrix
<1>2. /\ key \in KeyNames /\ DOMAIN block.parts = 1..Len(block.parts) /\ Len(block.parts) \in Nat
      /\ \A n \in DOMAIN ValuesOf(part) : val(n) \in Values
      /\ \A d \in DOMAIN block.parts : KeyOf(d) \in KeyNames
  BY <1>1, MatrixParts DEF InMatrix, KeyOf, ValuesOf
<1>3. 1..((part + 1) - 1) = 1..(part - 1) \union {part} /\ \A d \in 1..(part - 1) : d # part /\ d \in DOMAIN block.parts
  BY <1>1, <1>2
<1>4. /\ \A d \in 1..(part - 1) : KeyOf(d) # key
      /\ \A n, m \in DOMAIN ValuesOf(part) : n # m => val(n) # val(m)
  BY <1>1, <1>3 DEF AllOnce, Once, KeyOf, ValuesOf
<1>5. key \notin below
  BY <1>4
<1>6. {KeyOf(d) : d \in 1..((part + 1) - 1)} = below \union {key}
  BY <1>3
<1>7. \A v : v \in Expressions(part) <=> \E n \in DOMAIN ValuesOf(part) : ~ValuesOf(part)[n].ident /\ val(n) = v
  BY DEF Expressions, ValuesOf
<1>8. \A d \in 1..(part - 1) : KeyOf(d) \in below
  OBVIOUS
<1> HIDE DEF key, below, val
<1>9. \A i, n : Combines(i, n) =>
        /\ combos[i] \in ValueMaps /\ DOMAIN combos[i] = below
        /\ \A d \in 1..(part - 1) : combos[i][KeyOf(d)] \in Expressions(d)
        /\ Extended(i, n) \in ValueMaps /\ DOMAIN Extended(i, n) = below \union {key}
        /\ \A k \in below : Extended(i, n)[k] = combos[i][k]
        /\ Extended(i, n)[key] = val(n) /\ val(n) \in Expressions(part)
  <2>1. SUFFICES ASSUME NEW i, NEW n, Combines(i, n)
                 PROVE  /\ combos[i] \in ValueMaps /\ DOMAIN combos[i] = below
                        /\ \A d \in 1..(part - 1) : combos[i][KeyOf(d)] \in Expressions(d)
                        /\ Extended(i, n) \in ValueMaps /\ DOMAIN Extended(i, n) = below \union {key}
                        /\ \A k \in below : Extended(i, n)[k] = combos[i][k]
                        /\ Extended(i, n)[key] = val(n) /\ val(n) \in Expressions(part)
    OBVIOUS
  <2>2. Chosen(combos[i], part)
    BY <2>1 DEF Combines, CombosRead
  <2>3. /\ combos[i] \in ValueMaps /\ DOMAIN combos[i] = below
        /\ \A d \in 1..(part - 1) : combos[i][KeyOf(d)] \in Expressions(d)
    BY <2>2 DEF Chosen, below
  <2>4. n \in DOMAIN ValuesOf(part) /\ val(n) \in Values /\ val(n) \in Expressions(part)
    BY <1>2, <1>7, <2>1 DEF Combines
  <2> DEFINE c == combos[i]
             v == val(n)
             e == Put(c, key, v)
  <2>c. c \in ValueMaps /\ v \in Values /\ key \in KeyNames
    BY <1>2, <2>3, <2>4
  <2>6. Extended(i, n) = e
    BY DEF Extended, key, val
  <2> HIDE DEF c, v, e
  <2>e. /\ e \in ValueMaps /\ DOMAIN e = DOMAIN c \union {key} /\ e[key] = v
        /\ \A k \in DOMAIN c \ {key} : e[k] = c[k]
    BY <2>c, PutOne DEF e
  <2>5. /\ e \in ValueMaps /\ DOMAIN e = DOMAIN combos[i] \union {key} /\ e[key] = val(n)
        /\ \A k \in DOMAIN combos[i] \ {key} : e[k] = combos[i][k]
    BY <2>e DEF c, v
  <2>7. QED
    BY <1>5, <2>3, <2>4, <2>5, <2>6
<1>10. ASSUME NEW i, NEW n, Combines(i, n)
       PROVE  Chosen(Extended(i, n), part + 1)
  <2> DEFINE e == Extended(i, n)
  <2>1. e \in ValueMaps /\ DOMAIN e = below \union {key} /\ e[key] \in Expressions(part)
    BY <1>9, <1>10
  <2>2. \A d \in 1..(part - 1) : e[KeyOf(d)] \in Expressions(d)
    BY <1>8, <1>9, <1>10
  <2> HIDE DEF e
  <2>3. \A d \in 1..((part + 1) - 1) : e[KeyOf(d)] \in Expressions(d)
    BY <1>3, <2>1, <2>2 DEF key
  <2>4. Chosen(e, part + 1)
    BY <1>6, <2>1, <2>3 DEF Chosen
  <2>5. QED
    BY <2>4 DEF e
<1>11. ASSUME NEW r, Chosen(r, part + 1)
       PROVE  \E i, n : Combines(i, n) /\ r = Extended(i, n)
  <2> DEFINE s == [k \in below |-> r[k]]
  <2>1. /\ r \in ValueMaps /\ DOMAIN r = below \union {key} /\ r[key] \in Expressions(part)
        /\ \A d \in 1..(part - 1) : r[KeyOf(d)] \in Expressions(d)
    BY <1>3, <1>6, <1>11 DEF Chosen, key
  <2>2. s \in ValueMaps /\ DOMAIN s = below /\ \A k \in below : s[k] = r[k]
    <3>1. PICK S \in SUBSET KeyNames : r \in [S -> Values]
      BY <2>1 DEF ValueMaps
    <3>2. below \subseteq S /\ below \in SUBSET KeyNames
      BY <2>1, <3>1
    <3>3. s \in [below -> Values]
      BY <3>1, <3>2
    <3>4. QED
      BY <3>2, <3>3 DEF ValueMaps
  <2> HIDE DEF s
  <2>3. Chosen(s, part)
    BY <1>8, <2>1, <2>2 DEF Chosen, below
  <2>4. PICK i \in DOMAIN combos : combos[i] = s
    BY <2>3 DEF CombosRead
  <2>5. PICK n \in DOMAIN ValuesOf(part) : ~ValuesOf(part)[n].ident /\ val(n) = r[key]
    BY <1>7, <2>1
  <2>6. Combines(i, n)
    BY <2>4, <2>5 DEF Combines
  <2> DEFINE e == Extended(i, n)
  <2>7. /\ e \in ValueMaps /\ DOMAIN e = below \union {key} /\ e[key] = val(n)
        /\ \A k \in below : e[k] = combos[i][k]
    BY <1>9, <2>6
  <2>8. \A k \in DOMAIN r : r[k] = e[k]
    BY <2>1, <2>2, <2>4, <2>5, <2>7
  <2> HIDE DEF e
  <2>9. r = e
    BY <2>1, <2>7, <2>8, MapsAgree
  <2>10. QED
    BY <2>6, <2>9 DEF e
<1>12. ASSUME NEW i, NEW n, NEW j, NEW m, Combines(i, n), Combines(j, m), Extended(i, n) = Extended(j, m)
       PROVE  i = j /\ n = m
  <2>1. val(n) = val(m)
    BY <1>9, <1>12
  <2>2. n = m
    BY <1>4, <1>12, <2>1 DEF Combines
  <2>3. /\ combos[i] \in ValueMaps /\ combos[j] \in ValueMaps
        /\ DOMAIN combos[i] = DOMAIN combos[j] /\ \A k \in DOMAIN combos[i] : combos[i][k] = combos[j][k]
    BY <1>9, <1>12
  <2>4. combos[i] = combos[j]
    BY <2>3, MapsAgree
  <2>5. i = j
    BY <1>12, <2>4 DEF Combines, CombosRead
  <2>6. QED
    BY <2>2, <2>5
<1>13. QED
  BY <1>10, <1>11, <1>12

LEMMA StepMatrix == DataTypes /\ EachInv /\ MatrixInv /\ [DataNext]_dataVars => MatrixInv'
<1> SUFFICES ASSUME DataTypes, EachInv, MatrixInv, [DataNext]_dataVars
             PROVE  MatrixInv'
  OBVIOUS
<1>1. CASE Open
  BY <1>1, BeginsMatrix
<1>2. CASE ReadDefault \/ ReadOwn \/ EndDefaults \/ EndEntry \/ WriteRows
  <2>1. block'.kind # "matrix"
    BY <1>2 DEF ReadDefault, ReadOwn, EndDefaults, EndEntry, WriteRows, InPart, Reading
  <2>2. QED
    BY <2>1 DEF MatrixInv
(* One dimension, from its first combination to its last. *)
<1>a. ASSUME phase = "read", block.kind = "matrix", part \in DOMAIN block.parts
      PROVE  /\ MatrixRead /\ ComboPlace /\ block \in DataBlock
             /\ part \in Nat \ {0} /\ combo \in Nat \ {0} /\ place \in Nat \ {0}
             /\ combos \in Seq(ValueMaps) /\ longer \in Seq(ValueMaps) /\ Len(combos) \in Nat
             /\ DOMAIN combos = 1..Len(combos)
             /\ Len(ValuesOf(part)) \in Nat /\ DOMAIN ValuesOf(part) = 1..Len(ValuesOf(part))
             /\ Len(block.parts) \in Nat
  <2>1. /\ block \in DataBlock /\ part \in Nat \ {0} /\ combo \in Nat \ {0} /\ place \in Nat \ {0}
        /\ combos \in Seq(ValueMaps) /\ longer \in Seq(ValueMaps)
    BY <1>a DEF DataTypes
  <2>2. /\ Len(ValuesOf(part)) \in Nat /\ DOMAIN ValuesOf(part) = 1..Len(ValuesOf(part))
        /\ Len(block.parts) \in Nat
    BY <1>a, <2>1, MatrixParts DEF ValuesOf
  <2>3. Len(combos) \in Nat /\ DOMAIN combos = 1..Len(combos)
    BY <2>1
  <2>4. MatrixRead /\ ComboPlace
    BY <1>a DEF MatrixInv, MatrixRead
  <2>5. QED
    BY <2>1, <2>2, <2>3, <2>4
<1>b. ASSUME UNCHANGED <<block, part, combos>>
      PROVE  /\ \A i, n : Extended(i, n)' = Extended(i, n) /\ (Combines(i, n)' <=> Combines(i, n))
             /\ (AllOnce' <=> AllOnce) /\ (CombosRead' <=> CombosRead)
             /\ ValuesOf(part)' = ValuesOf(part)
  <2>1. /\ \A d : KeyOf(d)' = KeyOf(d) /\ ValuesOf(d)' = ValuesOf(d)
        /\ \A r, n : Chosen(r, n)' <=> Chosen(r, n)
        /\ AllOnce' <=> AllOnce
    BY <1>b, SameMatrix
  <2>2. /\ \A i, n : Combines(i, n)' <=> Combines(i, n)
        /\ ValuesOf(part)' = ValuesOf(part)
    BY <1>b, <2>1 DEF Combines
  <2>3. \A i, n : Extended(i, n)' = Extended(i, n)
    BY <1>b, <2>1 DEF Extended, Put
  <2>4. CombosRead' <=> CombosRead
    BY <1>b, <2>1 DEF CombosRead
  <2>5. QED
    BY <2>1, <2>2, <2>3, <2>4
<1>3. CASE Combine
  <2>1. /\ phase = "read" /\ block.kind = "matrix" /\ part \in DOMAIN block.parts
        /\ combo \in DOMAIN combos /\ place \in DOMAIN ValuesOf(part) /\ place' = place + 1
        /\ longer' = IF ValuesOf(part)[place].ident THEN longer ELSE Append(longer, Extended(combo, place))
        /\ UNCHANGED <<block, phase, part, combos, combo>>
    BY <1>3 DEF Combine, Reading, ThisPart, ThisValue, ValuesOf, Extended, KeyOf
  <2>2. \A i, n : Combined(i, n)' <=> Combined(i, n) \/ (i = combo /\ n = place /\ Combines(i, n))
    <3>1. \A i, n : Combines(i, n) =>
            (Before(i, n, combo, place + 1) <=> Before(i, n, combo, place) \/ (i = combo /\ n = place))
      BY <1>a, <2>1 DEF Combines, Before
    <3>2. QED
      BY <1>b, <2>1, <3>1 DEF Combined
  <2>3. ComboPlace'
    BY <1>a, <1>b, <2>1 DEF ComboPlace
  <2>4. ASSUME AllOnce
        PROVE  LongerRead'
    <3>1. LongerRead /\ CombosRead
      BY <1>a, <2>1, <2>4 DEF MatrixRead
    <3>2. CASE ValuesOf(part)[place].ident
      <4>1. longer' = longer /\ \A i, n : Combined(i, n)' <=> Combined(i, n)
        BY <2>1, <2>2, <3>2 DEF Combines
      <4>2. QED
        BY <1>b, <2>1, <3>1, <4>1 DEF LongerRead
    <3>3. CASE ~ValuesOf(part)[place].ident
      <4> DEFINE e == Extended(combo, place)
                 new == Append(longer, e)
      <4>1. Combines(combo, place) /\ longer' = new
        BY <2>1, <3>3 DEF Combines
      <4>2. /\ DOMAIN new = DOMAIN longer \union {Len(longer) + 1} /\ new[Len(longer) + 1] = e
            /\ \A j \in DOMAIN longer : new[j] = longer[j]
        BY <1>a, <2>1
      <4>3. \A j \in DOMAIN longer : longer[j] # e
        <5>1. SUFFICES ASSUME NEW j \in DOMAIN longer, longer[j] = e
                       PROVE  FALSE
          OBVIOUS
        <5>2. PICK i, n : Combined(i, n) /\ longer[j] = Extended(i, n)
          BY <3>1 DEF LongerRead
        <5>3. Combines(i, n) /\ Extended(i, n) = Extended(combo, place)
          BY <5>1, <5>2 DEF Combined
        <5>4. i = combo /\ n = place
          BY <2>1, <2>4, <3>1, <4>1, <5>3, Extends DEF InMatrix
        <5>5. ~Before(combo, place, combo, place)
          BY <1>a, <2>1 DEF Before
        <5>6. QED
          BY <5>2, <5>4, <5>5 DEF Combined
      <4> HIDE DEF new, e
      <4>4. \A j \in DOMAIN new : \E i, n : Combined(i, n)' /\ new[j] = Extended(i, n)
        BY <2>2, <3>1, <4>1, <4>2 DEF LongerRead, e
      <4>5. \A i, n : Combined(i, n)' => \E j \in DOMAIN new : new[j] = Extended(i, n)
        BY <2>2, <3>1, <4>1, <4>2 DEF LongerRead, e
      <4>6. \A i, j \in DOMAIN new : i # j => new[i] # new[j]
        BY <3>1, <4>2, <4>3 DEF LongerRead
      <4>7. QED
        BY <1>b, <2>1, <4>1, <4>4, <4>5, <4>6 DEF LongerRead
    <3>4. QED
      BY <3>2, <3>3
  <2>5. QED
    BY <1>a, <1>b, <2>1, <2>3, <2>4 DEF MatrixInv, MatrixRead, MatrixWritten
<1>4. CASE NextCombo
  <2>1. /\ phase = "read" /\ block.kind = "matrix" /\ part \in DOMAIN block.parts
        /\ combo \in DOMAIN combos /\ place \notin DOMAIN ValuesOf(part) /\ place' = 1 /\ combo' = combo + 1
        /\ UNCHANGED <<block, phase, part, combos, longer>>
    BY <1>4 DEF NextCombo, Reading, ThisPart, ValuesOf
  <2>2. place = Len(ValuesOf(part)) + 1
    BY <1>a, <2>1 DEF ComboPlace
  <2>3. \A i, n : Combined(i, n)' <=> Combined(i, n)
    <3>1. \A i, n : Combines(i, n) =>
            (Before(i, n, combo + 1, 1) <=> Before(i, n, combo, place))
      BY <1>a, <2>1, <2>2 DEF Combines, Before
    <3>2. QED
      BY <1>b, <2>1, <3>1 DEF Combined
  <2>4. ComboPlace'
    BY <1>a, <1>b, <2>1 DEF ComboPlace
  <2>5. LongerRead => LongerRead'
    BY <1>b, <2>1, <2>3 DEF LongerRead
  <2>6. QED
    BY <1>a, <1>b, <2>1, <2>4, <2>5 DEF MatrixInv, MatrixRead, MatrixWritten
<1>5. CASE EndDimension
  <2>1. /\ phase = "read" /\ block.kind = "matrix" /\ part \in DOMAIN block.parts
        /\ combo \notin DOMAIN combos /\ combos' = longer /\ longer' = <<>> /\ combo' = 1
        /\ part' = part + 1 /\ place' = 1 /\ UNCHANGED <<block, phase>>
    BY <1>5 DEF EndDimension, Reading, NextPart
  <2>2. \A i, n : Combined(i, n) <=> Combines(i, n)
    BY <1>a, <2>1 DEF ComboPlace, Combined, Combines, Before
  <2>3. AllOnce' <=> AllOnce
    BY <2>1, SameMatrix
  <2>4. ASSUME AllOnce
        PROVE  CombosRead'
    <3>1. LongerRead /\ CombosRead
      BY <1>a, <2>1, <2>4 DEF MatrixRead
    <3>2. /\ \A i, n : Combines(i, n) => Chosen(Extended(i, n), part + 1)
          /\ \A r : Chosen(r, part + 1) => \E i, n : Combines(i, n) /\ r = Extended(i, n)
      BY <2>1, <2>4, <3>1, Extends DEF InMatrix
    <3>3. \A j \in DOMAIN longer : Chosen(longer[j], part + 1)
      BY <2>2, <3>1, <3>2 DEF LongerRead
    <3>4. \A r : Chosen(r, part + 1) => \E j \in DOMAIN longer : longer[j] = r
      BY <2>2, <3>1, <3>2 DEF LongerRead
    <3>5. \A r, n : Chosen(r, n)' <=> Chosen(r, n)
      BY <2>1, SameMatrix
    <3>6. QED
      BY <2>1, <3>1, <3>3, <3>4, <3>5 DEF CombosRead, LongerRead
  <2>5. ASSUME part' \in DOMAIN block'.parts
        PROVE  LongerRead' /\ ComboPlace'
    <3>1. /\ Len(block.parts[part + 1].values) \in Nat
          /\ \A n \in DOMAIN block.parts[part + 1].values : n \in Nat \ {0}
      BY <1>a, <2>1, <2>5, MatrixParts
    <3>2. \A i, n : ~Combined(i, n)'
      <4>1. SUFFICES ASSUME NEW i, NEW n, i \in DOMAIN longer,
                            n \in DOMAIN block.parts[part + 1].values, Before(i, n, 1, 1)
                     PROVE  FALSE
        BY <2>1 DEF Combined, Combines, ValuesOf
      <4>2. i \in Nat \ {0} /\ n \in Nat \ {0}
        BY <1>a, <2>1, <3>1, <4>1
      <4>3. QED
        BY <4>1, <4>2 DEF Before
    <3>3. LongerRead'
      BY <2>1, <3>2 DEF LongerRead
    <3>4. Len(longer) \in Nat
      BY <1>a, <2>1
    <3>5. QED
      BY <2>1, <3>1, <3>3, <3>4 DEF ComboPlace, ValuesOf
  <2>6. part + 1 <= Len(block.parts) + 1
    BY <1>a, <2>1, MatrixParts
  <2>7. QED
    BY <2>1, <2>3, <2>4, <2>5, <2>6 DEF MatrixInv, MatrixRead, MatrixWritten
<1>s. ASSUME phase # "idle", UNCHANGED <<block, part, place, combos, combo, longer>>, MatrixWritten',
             block.kind = "matrix"
      PROVE  MatrixInv'
  <2>1. MatrixRead
    BY <1>s DEF MatrixInv
  <2>2. \A i, n : Combined(i, n)' <=> Combined(i, n)
    BY <1>b, <1>s DEF Combined
  <2>3. (LongerRead <=> LongerRead') /\ (ComboPlace <=> ComboPlace')
    BY <1>b, <1>s, <2>2 DEF LongerRead, ComboPlace
  <2>4. QED
    BY <1>b, <1>s, <2>1, <2>3 DEF MatrixInv, MatrixRead
<1>6. CASE WriteCombos
  BY <1>6, <1>s DEF WriteCombos, MatrixWritten
<1>7. CASE UNCHANGED dataVars
  <2>1. MatrixRead => MatrixWritten'
    BY <1>7 DEF dataVars, MatrixRead, MatrixWritten
  <2>2. QED
    BY <1>7, <1>s, <2>1 DEF dataVars, MatrixInv
<1>8. QED
  BY <1>1, <1>2, <1>3, <1>4, <1>5, <1>6, <1>7 DEF DataNext

(* What is written is the product of the values that are no identifiers,   *)
(* each combination of it once.                                            *)
LEMMA ExpressionsAreWritten ==
  ASSUME DataTypes, MatrixInv, phase = "written", block.kind = "matrix", AllOnce
  PROVE  /\ {rows[i] : i \in DOMAIN rows} =
                 {r \in [{block.parts[d].key : d \in DOMAIN block.parts} ->
                          UNION {Expressions(d) : d \in DOMAIN block.parts}] :
                    \A d \in DOMAIN block.parts : r[block.parts[d].key] \in Expressions(d)}
         /\ \A i, j \in DOMAIN rows : i # j => rows[i] # rows[j]
<1> DEFINE K == {block.parts[d].key : d \in DOMAIN block.parts}
           U == UNION {Expressions(d) : d \in DOMAIN block.parts}
<1>1. /\ MatrixRead /\ CombosRead /\ rows = combos /\ part \notin DOMAIN block.parts
      /\ part <= Len(block.parts) + 1 /\ part \in Nat \ {0} /\ block \in DataBlock
  BY DEF MatrixInv, MatrixRead, MatrixWritten, DataTypes
<1>2. /\ Len(block.parts) \in Nat /\ DOMAIN block.parts = 1..Len(block.parts)
      /\ \A d \in DOMAIN block.parts : KeyOf(d) \in KeyNames /\ Expressions(d) \subseteq Values
  BY <1>1, MatrixParts DEF KeyOf, ValuesOf, Expressions
<1>3. 1..(part - 1) = DOMAIN block.parts
  BY <1>1, <1>2
<1>4. K \in SUBSET KeyNames /\ U \subseteq Values
  BY <1>2 DEF KeyOf
<1>5. {KeyOf(d) : d \in 1..(part - 1)} = K
  BY <1>3 DEF KeyOf
<1>6. \A d \in DOMAIN block.parts : KeyOf(d) \in K /\ Expressions(d) \subseteq U /\ KeyOf(d) = block.parts[d].key
  BY DEF KeyOf
<1>7. \A k \in K : \E d \in DOMAIN block.parts : KeyOf(d) = k
  BY DEF KeyOf
<1> HIDE DEF K, U
<1>8. \A r : Chosen(r, part) <=>
               r \in [K -> U] /\ \A d \in DOMAIN block.parts : r[KeyOf(d)] \in Expressions(d)
  <2>1. ASSUME NEW r, Chosen(r, part)
        PROVE  r \in [K -> U] /\ \A d \in DOMAIN block.parts : r[KeyOf(d)] \in Expressions(d)
    <3>1. r \in ValueMaps /\ DOMAIN r = K /\ \A d \in DOMAIN block.parts : r[KeyOf(d)] \in Expressions(d)
      BY <1>3, <1>5, <2>1 DEF Chosen
    <3>2. PICK S \in SUBSET KeyNames : r \in [S -> Values]
      BY <3>1 DEF ValueMaps
    <3>3. \A k \in K : r[k] \in U
      BY <1>6, <1>7, <3>1
    <3>4. r \in [K -> U]
      BY <3>1, <3>2, <3>3
    <3>5. QED
      BY <3>1, <3>4
  <2>2. ASSUME NEW r \in [K -> U], \A d \in DOMAIN block.parts : r[KeyOf(d)] \in Expressions(d)
        PROVE  Chosen(r, part)
    <3>1. r \in [K -> Values] /\ DOMAIN r = K
      BY <1>4, <2>2
    <3>2. r \in ValueMaps
      BY <1>4, <3>1 DEF ValueMaps
    <3>3. QED
      BY <1>3, <1>5, <2>2, <3>1, <3>2 DEF Chosen
  <2>3. QED
    BY <2>1, <2>2
<1>9. \A r : r \in {rows[i] : i \in DOMAIN rows} <=>
               r \in [K -> U] /\ \A d \in DOMAIN block.parts : r[KeyOf(d)] \in Expressions(d)
  BY <1>1, <1>8 DEF CombosRead
<1>10. {rows[i] : i \in DOMAIN rows} =
         {r \in [K -> U] : \A d \in DOMAIN block.parts : r[block.parts[d].key] \in Expressions(d)}
  BY <1>6, <1>9
<1>11. \A i, j \in DOMAIN rows : i # j => rows[i] # rows[j]
  BY <1>1 DEF CombosRead
<1>12. QED
  BY <1>10, <1>11 DEF K, U

LEMMA ProductIsWritten ==
  DataTypes /\ MatrixInv => MatrixIsProduct \/ \E d \in DOMAIN block.parts : HasIdentifier(d)
<1> SUFFICES ASSUME DataTypes, MatrixInv, phase = "written", block.kind = "matrix", AllOnce,
                    \A d \in DOMAIN block.parts : ~HasIdentifier(d)
             PROVE  MatrixIsProduct
  BY DEF MatrixIsProduct, AllOnce
<1>1. \A d \in DOMAIN block.parts : Expressions(d) = Offered(d)
  BY DEF Expressions, Offered, ValuesOf, HasIdentifier
<1> DEFINE K == {block.parts[d].key : d \in DOMAIN block.parts}
<1>2. UNION {Expressions(d) : d \in DOMAIN block.parts} = UNION {Offered(d) : d \in DOMAIN block.parts}
  BY <1>1
<1> DEFINE U == UNION {Offered(d) : d \in DOMAIN block.parts}
<1> HIDE DEF K, U
<1>3. {r \in [K -> U] : \A d \in DOMAIN block.parts : r[block.parts[d].key] \in Expressions(d)} =
        {r \in [K -> U] : \A d \in DOMAIN block.parts : r[block.parts[d].key] \in Offered(d)}
  BY <1>1
<1>4. /\ {rows[i] : i \in DOMAIN rows} =
           {r \in [K -> U] : \A d \in DOMAIN block.parts : r[block.parts[d].key] \in Offered(d)}
      /\ \A i, j \in DOMAIN rows : i # j => rows[i] # rows[j]
  BY <1>2, <1>3, ExpressionsAreWritten DEF K, U
<1>5. QED
  BY <1>4 DEF MatrixIsProduct, K, U

(* The rows of every block are those its author asked for: an entry of an  *)
(* `each` has its own values and the last default of every other field,    *)
(* the rows of a `matrix` without bare identifiers are the product of its  *)
(* dimensions, whatever the parts and their order.                         *)
(* (transpile_data.go:13-289.)                                             *)
THEOREM BlocksAreWritten == DataSpec => []RowsAreWritten
<1>1. DataInit => DataTypes /\ EachInv /\ MatrixInv
  <2> SUFFICES ASSUME DataInit PROVE DataTypes /\ EachInv /\ MatrixInv
    OBVIOUS
  <2>1. phase = "idle" /\ DataInit
    BY DEF DataInit
  <2>2. fields \in Seq(KeyNames)
    BY DataBlocksAssumption DEF DataInit
  <2>3. combos \in Seq(ValueMaps) /\ longer \in Seq(ValueMaps) /\ entries \in Seq(ValueMaps)
    BY NoneSet DEF DataInit
  <2>4. DataTypes
    BY <2>2, <2>3, NoneSet DEF DataInit, DataTypes
  <2>5. QED
    BY <2>1, <2>4 DEF EachInv, MatrixInv
<1>2. DataTypes /\ EachInv /\ MatrixInv /\ [DataNext]_dataVars => (DataTypes /\ EachInv /\ MatrixInv)'
  BY StepDataTypes, StepEach, StepMatrix
<1>3. DataTypes /\ EachInv /\ MatrixInv => RowsAreWritten
  BY DefaultsReachThem, ProductIsWritten DEF RowsAreWritten
<1>4. QED
  BY <1>1, <1>2, <1>3, PTL DEF DataSpec
=============================================================================
