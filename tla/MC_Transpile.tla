---------------------------- MODULE MC_Transpile ----------------------------
(***************************************************************************)
(* Instances for TLC of the transpiler and of the blob its parser loads.   *)
(* They share no state: a behaviour of the run is one of one of them while *)
(* the other is as it began.                                               *)
(***************************************************************************)
EXTENDS Transpile, Language

MCInit == Init /\ LanguageInit

MCNext ==
  \/ LanguageInit /\ Next /\ UNCHANGED languageVars
  \/ Init /\ LanguageNext /\ UNCHANGED vars

MCSpec == MCInit /\ [][MCNext]_<<vars, languageVars>>
=============================================================================
