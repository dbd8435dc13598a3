----------------------------- MODULE MCNodeCalls -----------------------------
(***************************************************************************)
(* Small instances of NodeCalls.  The nodes other than the pool are only   *)
(* ever compared, so they are interchangeable.                             *)
(***************************************************************************)
EXTENDS NodeCalls, TLC

Clones == Permutations(Node \ {Pool})
=============================================================================
