--------------------------- MODULE MC_TestBinary ---------------------------
(* Instances of TestBinary for TLC. *)
EXTENDS TestBinary

Written(serial, body) == [serial |-> serial, body |-> body]

\* What the README shows, with the tag and without.
Mixed ==
  {Written(TRUE, <<"profile", "rows", "require", "verify">>), Written(FALSE, <<"profile", "after_all", "rows", "verify">>),
   Written(TRUE, <<"no_leaks", "go", "require", "stop">>), Written(FALSE, <<"process", "require", "after_all">>), Written(FALSE, <<"setenv">>)}
=============================================================================
