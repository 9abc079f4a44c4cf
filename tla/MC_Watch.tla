------------------------------ MODULE MC_Watch ------------------------------
(* Instances of Watch for TLC. *)
EXTENDS Watch

CONSTANTS a, b, good, bad

Plain(n) == [base |-> n, test |-> FALSE]    \* n.dmj
Suffixed(n) == [base |-> n, test |-> TRUE]  \* n_test.dmj

One == {Plain(a)}
OneRank == [s \in One |-> 1]
Two == {Plain(a), Suffixed(b)}
TwoRank == [s \in Two |-> IF s = Plain(a) THEN 1 ELSE 2]

(* The formatter writes a text of its own from good and keeps bad.         *)
Tidied == [t \in Texts |-> IF t = bad THEN bad ELSE CHOOSE x \in Texts \ {good, bad} : TRUE]
AsTheyAre == [t \in Texts |-> t]
OnlyB == {Suffixed(b)}
=============================================================================
