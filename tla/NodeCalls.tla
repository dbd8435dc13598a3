------------------------------ MODULE NodeCalls ------------------------------
(***************************************************************************)
(* Callers that hold the nodes directly, in any number and in any order:   *)
(* they begin on, write through, commit and roll back whichever node they  *)
(* kept, siblings and parents out of order, finished ones included.        *)
(***************************************************************************)
EXTENDS Node

CONSTANTS Reuse,     \* callers begin a transaction on a finished nested node
          Toggle     \* callers call EnableSavepoint after the first BeginTx

ASSUME ReuseAssumption == Reuse \in BOOLEAN
ASSUME ToggleAssumption == Toggle \in BOOLEAN

VARIABLES scope,      \* history: the nodes whose Rollback must undo the writes of n
          ended,      \* history: the call that ended n by returning nil
          wrote,      \* history: nodes that wrote in their transaction, each at most once
          undone      \* history: writes a Rollback that returned nil covers

history == <<scope, ended, wrote, undone>>
vars == <<nodeVars, dbVars, history>>

TypeOK == /\ NodeTypeOK
          /\ DbTypeOK
          /\ scope \in [Node -> SUBSET Node]
          /\ ended \in [Node -> {"no", "commit", "rollback"}]
          /\ wrote \in SUBSET Node
          /\ undone \in SUBSET Node

Init == /\ NodeInit
        /\ DbInit
        /\ scope = [n \in Node |-> {}]
        /\ ended = [n \in Node |-> "no"]
        /\ wrote = {}
        /\ undone = {}

------------------------------------------------------------------------------
DoBegin(n, m, ok) ==
    /\ InTx(n) \/ ~node[n].nested \/ Reuse
    /\ BeginTx(n, m, ok)
    /\ scope' = IF ok THEN [scope EXCEPT ![m] = {m} \cup (IF InTx(n) THEN scope[n] ELSE {})]
                      ELSE scope
    /\ UNCHANGED <<ended, wrote, undone>>

DoExec(n, ok) ==
    /\ n \notin wrote
    /\ Exec(n, ok)
    /\ wrote' = IF ok /\ InTx(n) THEN wrote \cup {n} ELSE wrote
    /\ UNCHANGED <<scope, ended, undone>>

DoCommit(n, ok) ==
    /\ Commit(n, ok)
    /\ ended' = IF ok THEN [ended EXCEPT ![n] = "commit"] ELSE ended
    /\ UNCHANGED <<scope, wrote, undone>>

DoRollback(n, ok) ==
    /\ Rollback(n, ok)
    /\ IF ok /\ InTx(n)
       THEN /\ ended' = [ended EXCEPT ![n] = "rollback"]
            /\ undone' = undone \cup {w \in wrote : n \in scope[w]}
       ELSE UNCHANGED <<ended, undone>>
    /\ UNCHANGED <<scope, wrote>>

DoToggle(n, enabled) ==
    /\ Toggle
    /\ EnableSavepoint(n, enabled)
    /\ UNCHANGED history

DoClose(n) == Close(n) /\ UNCHANGED history

\* The context given to the BeginTx that opened a sql.Tx is cancelled.  (BeginTx
\* does not use the context of a nested node.)
Cancel(m) == ContextDone(m) /\ UNCHANGED <<nodeVars, history>>

Next == \E n \in Node :
            \/ \E ok \in BOOLEAN :
                   \/ \E m \in Node : DoBegin(n, m, ok)
                   \/ DoExec(n, ok)
                   \/ DoCommit(n, ok)
                   \/ DoRollback(n, ok)
                   \/ DoToggle(n, ok)
            \/ DoClose(n)
            \/ Cancel(n)

Spec == Init /\ [][Next]_vars

------------------------------------------------------------------------------
\* Every connection in use has exactly one node that can give it back: the one
\* whose BeginTx opened the sql.Tx, which is not nested and still refers to it.
\* BeginTx, Commit and Rollback keep this together, through nested, savePointID
\* and tx: without it a connection is never returned, or returned twice.
OwnerHolds ==
    \A t \in Node : Held(t) =>
        {n \in born : node[n].tx = t /\ ~node[n].nested} = {t}

\* Why it stays true: a node that is not nested never has another session than
\* the one named after it, and unless nested nodes are begun on after their end
\* that session is referred to until it is done.
OwnTx == \A n \in born : ~node[n].nested =>
             node[n].savePointID = None /\ node[n].tx \in {n, None}
OwnerLives == \A t \in Node : Held(t) => t \in born /\ node[t].tx = t /\ ~node[t].nested
Ownership == /\ \A n \in Node \ born : session[n].state = "idle"
             /\ OwnTx
             /\ Reuse \/ OwnerLives

\* Writes reach the database only when the node that opened their sql.Tx, and no
\* other, is committed, or outside of any transaction: a nested Commit never
\* publishes what its parent may still roll back.
OnlyOwnerPublishes ==
    [][\A w \in durable' \ durable :
           \/ ~InTx(w)
           \/ \E t \in Node : /\ Held(t) /\ w \in Pending(t)
                              /\ node[t].tx = t /\ ~node[t].nested /\ ~Held(t)'
                              /\ \A n \in Node \ {t} : node'[n] = node[n]]_vars

\* When Rollback returns nil, the writes made through that node and through
\* the nodes begun below it are never durable, whatever the other nodes of the
\* same transaction did in between.
RolledBackIsGone == undone \cap durable = {}

\* "Rollback rollbacks the associated transaction" (node.go:84): a Rollback that
\* returns nil on a node with a savepoint leaves none of the writes made in its
\* scope on the transaction's stack, unless EnableSavepoint(false) came in between:
\* Rollback reads savePointEnabled again (node.go:237), Commit does not.
RollbackDropsWrites ==
    [][\A n \in born, t \in Node :
           /\ node[n].tx = t /\ node[n].savePointID # None
           /\ ended[n] = "no" /\ ended'[n] = "rollback"
           => \A w \in Pending(t)' : n \notin scope[w]]_vars
=============================================================================
