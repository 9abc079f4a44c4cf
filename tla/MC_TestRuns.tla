---------------------------- MODULE MC_TestRuns ----------------------------
(* Instances of TestRuns for TLC. *)
EXTENDS CommandRuns

CONSTANTS a, b

Plain(n) == [base |-> n, test |-> FALSE]    \* n.dmj
Suffixed(n) == [base |-> n, test |-> TRUE]  \* n_test.dmj

\* Two files with outputs of their own.
Apart == {Plain(a), Suffixed(b)}
ApartRank == [s \in Apart |-> IF s = Plain(a) THEN 1 ELSE 2]
=============================================================================
