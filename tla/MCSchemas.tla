----------------------------- MODULE MCSchemas ------------------------------
(***************************************************************************)
(* Schemas of the models of MCModels.                                      *)
(***************************************************************************)
EXTENDS Schemas, MCModels, TLC

Symmetry == Permutations(Goroutine)
=============================================================================
