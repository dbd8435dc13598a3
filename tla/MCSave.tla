------------------------------- MODULE MCSave -------------------------------
(***************************************************************************)
(* Instances of Save that only differ by their name.                       *)
(***************************************************************************)
EXTENDS Save, TLC

Symmetry == Permutations(Instance)
=============================================================================
