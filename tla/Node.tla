-------------------------------- MODULE Node --------------------------------
(***************************************************************************)
(* node.go: a Node is a connector on a pool or on a transaction.  BeginTx  *)
(* clones its receiver; a clone that finds no transaction opens a sql.Tx,  *)
(* one that finds a transaction either adds a savepoint or shares it.      *)
(* The methods are the actions of this module; who calls them, and when,   *)
(* is the business of the modules that extend it.  The last parameter of   *)
(* an action says whether the method returns a nil error.                  *)
(***************************************************************************)
EXTENDS SqlTx

CONSTANTS Pool,        \* the node that Connect or NewNode returns
          Savepoints   \* the argument of EnableSavepoint on that node

ASSUME PoolAssumption == Pool \in Node
ASSUME SavepointsAssumption == Savepoints \in BOOLEAN

VARIABLES node,     \* the fields of every node, see NodeFields
          born,     \* the nodes that exist
          closed    \* Close was called on the sql.DB that all nodes share

nodeVars == <<node, born, closed>>

NodeFields == [tx: Node \cup {None},     \* nil is None
               savePointID: Node \cup {None},   \* "" is None, a fresh uuid the new node
               savePointEnabled: BOOLEAN,
               nested: BOOLEAN]

NodeTypeOK == /\ node \in [Node -> NodeFields]
              /\ born \in SUBSET Node
              /\ closed \in BOOLEAN

\* Connect and getNodeForClient; the fields of a node to come are those of the
\* pool node and mean nothing before BeginTx sets them.
NodeInit == /\ node = [n \in Node |-> [tx |-> None, savePointID |-> None,
                                       savePointEnabled |-> Savepoints, nested |-> FALSE]]
            /\ born = {Pool}
            /\ closed = FALSE

InTx(n) == node[n].tx # None

------------------------------------------------------------------------------
\* BeginTx hands out the clone m of n with some of its fields replaced.
Clone(n, m, fields) == /\ node' = [node EXCEPT ![m] = fields]
                       /\ born' = born \cup {m}
                       /\ UNCHANGED closed

\* clone.tx == nil: a new sql.Tx.  nested and savePointID are n's own.
BeginNew(n, m, ok) ==
    /\ ~InTx(n)
    /\ \/ /\ ok /\ ~closed
          /\ Begin(m)
          /\ Clone(n, m, [node[n] EXCEPT !.tx = m])
       \/ /\ ~ok
          /\ UNCHANGED <<nodeVars, dbVars>>

\* Mutants: the clone stays a top-level node, or keeps the savePointID of n.
BeginSavepoint_NotNested(n, m, ok) ==
    /\ InTx(n) /\ node[n].savePointEnabled /\ ok
    /\ Savepoint(node[n].tx, m)
    /\ Clone(n, m, [node[n] EXCEPT !.savePointID = m])

BeginSavepoint_KeepsID(n, m, ok) ==
    /\ InTx(n) /\ node[n].savePointEnabled /\ ok
    /\ Savepoint(node[n].tx, m)
    /\ Clone(n, m, [node[n] EXCEPT !.nested = TRUE])

\* clone.savePointEnabled: a savepoint in the transaction of n.
BeginSavepoint(n, m, ok) ==
    /\ InTx(n) /\ node[n].savePointEnabled
    /\ \/ /\ ok
          /\ Savepoint(node[n].tx, m)
          /\ Clone(n, m, [node[n] EXCEPT !.nested = TRUE, !.savePointID = m])
       \/ /\ ~ok
          /\ Refuse(node[n].tx)
          /\ UNCHANGED nodeVars

\* Mutant: the clone stays a top-level node.
BeginShared_NotNested(n, m, ok) ==
    /\ InTx(n) /\ ~node[n].savePointEnabled /\ ok
    /\ Clone(n, m, node[n])
    /\ UNCHANGED dbVars

\* default: the transaction of n is shared, no statement is sent.
BeginShared(n, m, ok) ==
    /\ InTx(n) /\ ~node[n].savePointEnabled
    /\ ok
    /\ Clone(n, m, [node[n] EXCEPT !.nested = TRUE])
    /\ UNCHANGED dbVars

BeginTx(n, m, ok) ==
    /\ n \in born /\ m \notin born
    /\ \/ BeginNew(n, m, ok)
       \/ BeginSavepoint(n, m, ok)
       \/ BeginShared(n, m, ok)

------------------------------------------------------------------------------
\* Mutant: cleared with a value that is no transaction.
Forget_Mistyped(n) == /\ node' = [node EXCEPT ![n].tx = FALSE]
                      /\ UNCHANGED <<born, closed>>

Forget(n) == /\ node' = [node EXCEPT ![n].tx = None]
             /\ UNCHANGED <<born, closed>>

\* A method whose statement works forgets the transaction, one whose
\* statement fails returns early and keeps it.
ForgetIf(n, ok) == \/ ok /\ Forget(n)
                   \/ ~ok /\ UNCHANGED nodeVars

\* Commit on a node whose tx is nil: ErrCommitNotInTransaction.
CommitNotInTx(n, ok) ==
    /\ ~InTx(n)
    /\ ~ok
    /\ UNCHANGED <<nodeVars, dbVars>>

\* Mutants: COMMIT instead of RELEASE, or nothing is sent.
CommitSavepoint_EndsTx(n, ok) ==
    /\ InTx(n) /\ node[n].savePointID # None /\ ok
    /\ CommitTx(node[n].tx)
    /\ Forget(n)

CommitSavepoint_NotSent(n, ok) ==
    /\ InTx(n) /\ node[n].savePointID # None /\ ok
    /\ Forget(n)
    /\ UNCHANGED dbVars

CommitSavepoint(n, ok) ==
    /\ InTx(n) /\ node[n].savePointID # None
    /\ \/ ok /\ Release(node[n].tx, node[n].savePointID)
       \/ ~ok /\ Refuse(node[n].tx)
    /\ ForgetIf(n, ok)

CommitOwner(n, ok) ==
    /\ InTx(n) /\ node[n].savePointID = None /\ ~node[n].nested
    /\ \/ ok /\ CommitTx(node[n].tx)
       \/ ~ok /\ CommitTxFails(node[n].tx)
    /\ ForgetIf(n, ok)

\* A nested node without savepoint: nothing is sent.
CommitShared(n, ok) ==
    /\ InTx(n) /\ node[n].savePointID = None /\ node[n].nested
    /\ ok
    /\ Forget(n)
    /\ UNCHANGED dbVars

Commit(n, ok) ==
    /\ n \in born
    /\ \/ CommitNotInTx(n, ok)
       \/ CommitSavepoint(n, ok)
       \/ CommitOwner(n, ok)
       \/ CommitShared(n, ok)

------------------------------------------------------------------------------
\* Rollback on a node whose tx is nil does nothing and returns nil.
RollbackNotInTx(n, ok) ==
    /\ ~InTx(n)
    /\ ok
    /\ UNCHANGED <<nodeVars, dbVars>>

\* Unlike Commit, Rollback reads savePointEnabled again.
UsesSavepoint(n) == node[n].savePointEnabled /\ node[n].savePointID # None

\* Mutant: no ROLLBACK TO, as for a node without savepoint.
RollbackSavepoint_NotSent(n, ok) ==
    /\ InTx(n) /\ UsesSavepoint(n) /\ ok
    /\ Forget(n)
    /\ UNCHANGED dbVars

RollbackSavepoint(n, ok) ==
    /\ InTx(n) /\ UsesSavepoint(n)
    /\ \/ ok /\ RollbackTo(node[n].tx, node[n].savePointID)
       \/ ~ok /\ Refuse(node[n].tx)
    /\ ForgetIf(n, ok)

\* Mutant: the transaction is forgotten and never rolled back.
RollbackOwner_NotSent(n, ok) ==
    /\ InTx(n) /\ ~UsesSavepoint(n) /\ ~node[n].nested /\ ok
    /\ Forget(n)
    /\ UNCHANGED dbVars

RollbackOwner(n, ok) ==
    /\ InTx(n) /\ ~UsesSavepoint(n) /\ ~node[n].nested
    /\ \/ ok /\ RollbackTx(node[n].tx)
       \/ ~ok /\ RollbackTxFails(node[n].tx)
    /\ ForgetIf(n, ok)

RollbackShared(n, ok) ==
    /\ InTx(n) /\ ~UsesSavepoint(n) /\ node[n].nested
    /\ ok
    /\ Forget(n)
    /\ UNCHANGED dbVars

Rollback(n, ok) ==
    /\ n \in born
    /\ \/ RollbackNotInTx(n, ok)
       \/ RollbackSavepoint(n, ok)
       \/ RollbackOwner(n, ok)
       \/ RollbackShared(n, ok)

------------------------------------------------------------------------------
\* Exec, Query, QueryRow, Prepare and their Context variants choose between
\* the pool and the transaction in the same way; the statement writes n.
Exec(n, ok) ==
    /\ n \in born
    /\ \/ /\ ~InTx(n) /\ ok /\ ~closed
          /\ AutoCommit(n)
       \/ /\ ~InTx(n) /\ ~ok
          /\ UNCHANGED dbVars
       \/ /\ InTx(n) /\ ok
          /\ Write(node[n].tx, n)
       \/ /\ InTx(n) /\ ~ok
          /\ Refuse(node[n].tx)
    /\ UNCHANGED nodeVars

EnableSavepoint(n, enabled) ==
    /\ n \in born
    /\ node' = [node EXCEPT ![n].savePointEnabled = enabled]
    /\ UNCHANGED <<born, closed, dbVars>>

\* Close closes the shared sql.DB, whichever node it is called on; sessions in
\* progress keep their connections until they end.
Close(n) ==
    /\ n \in born
    /\ closed' = TRUE
    /\ UNCHANGED <<node, born, dbVars>>
=============================================================================
