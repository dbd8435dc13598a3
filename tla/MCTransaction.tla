---------------------------- MODULE MCTransaction ----------------------------
(***************************************************************************)
(* Small instances of Transaction.  Clones are only compared with each     *)
(* other, and so are goroutines: both are interchangeable where no         *)
(* liveness property is checked.                                           *)
(***************************************************************************)
EXTENDS Transaction, TLC

Symmetry == Permutations(Node \ {Pool}) \cup Permutations(Thread)
=============================================================================
