------------------------------ MODULE NestedTx ------------------------------
(***************************************************************************)
(* What makroud.Transaction promises, without sessions, savepoints or      *)
(* nodes: every call opens a scope, a scope that ends well gives its       *)
(* writes to the enclosing scope, the outermost one to the database, and   *)
(* a scope that ends with an error takes its writes with it.               *)
(***************************************************************************)
EXTENDS Naturals, Sequences

CONSTANTS Thread, Item

VARIABLES scopes,   \* the writes of every open call of a thread, outermost first
          saved     \* writes in the database

vars == <<scopes, saved>>

Init == /\ scopes = [p \in Thread |-> <<>>]
        /\ saved = {}

Depth(p) == Len(scopes[p])

Open(p) == /\ scopes' = [scopes EXCEPT ![p] = Append(@, {})]
           /\ UNCHANGED saved

Put(p, w) == /\ Depth(p) > 0
             /\ scopes' = [scopes EXCEPT ![p][Depth(p)] = @ \cup {w}]
             /\ UNCHANGED saved

\* All but the innermost scope of p.
Outer(p) == SubSeq(scopes[p], 1, Depth(p) - 1)

\* Also what becomes of a nested scope whose panic is recovered.
KeepInner(p) ==
    /\ Depth(p) > 1
    /\ scopes' = [scopes EXCEPT
           ![p] = [Outer(p) EXCEPT ![Depth(p) - 1] = @ \cup scopes[p][Depth(p)]]]
    /\ UNCHANGED saved

KeepOutermost(p) ==
    /\ Depth(p) = 1
    /\ scopes' = [scopes EXCEPT ![p] = <<>>]
    /\ saved' = saved \cup scopes[p][1]

\* The writes of a scope that ends with an error are gone.  (When the error is
\* that of the last COMMIT they may as well be saved: KeepOutermost.)
Drop(p) == /\ Depth(p) > 0
           /\ scopes' = [scopes EXCEPT ![p] = Outer(p)]
           /\ UNCHANGED saved

Next == \E p \in Thread :
            \/ Open(p)
            \/ \E w \in Item : Put(p, w)
            \/ KeepInner(p)
            \/ KeepOutermost(p)
            \/ Drop(p)

Spec == Init /\ [][Next]_vars
=============================================================================
