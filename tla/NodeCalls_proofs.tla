-------------------------- MODULE NodeCalls_proofs --------------------------
(***************************************************************************)
(* For any number of nodes, connections and callers: the state of          *)
(* NodeCalls is well typed, every connection in use has exactly one node   *)
(* that can give it back, and what a Rollback covers is gone.              *)
(***************************************************************************)
EXTENDS NodeCalls, SqlTx_proofs

------------------------------------------------------------------------------
\* A step that begins and ends no session.
Keeps == \A u \in Node : /\ Held(u)' <=> Held(u)
                         /\ session'[u].state = "idle" <=> session[u].state = "idle"

\* BeginTx keeps the fields and sessions well typed and changes no other node
\* than the clone: without error the clone either opens its own session or is
\* nested, with an error there is no clone.
LEMMA BeginEffect ==
    ASSUME NodeTypeOK, DbTypeOK, NEW n \in Node, NEW m \in Node, NEW ok \in BOOLEAN,
           BeginTx(n, m, ok)
    PROVE  /\ NodeTypeOK' /\ DbTypeOK'
           /\ \/ /\ ~InTx(n) /\ ok
                 /\ Begin(m)
                 /\ node' = [node EXCEPT ![m] = [node[n] EXCEPT !.tx = m]]
                 /\ born' = born \cup {m}
              \/ /\ InTx(n) /\ ok /\ Keeps
                 /\ node'[m].nested
                 /\ \A u \in Node \ {m} : node'[u] = node[u]
                 /\ born' = born \cup {m}
              \/ Keeps /\ UNCHANGED <<node, born>>
<1>1. CASE BeginNew(n, m, ok)
  <2>1. CASE ok
    <3>1. Begin(m) /\ Clone(n, m, [node[n] EXCEPT !.tx = m]) /\ ~InTx(n)
      BY <1>1, <2>1 DEF BeginNew
    <3>2. DbTypeOK'
      BY <3>1, BeginHoldsOne
    <3> QED
      BY <3>1, <3>2, <2>1 DEF Clone, NodeTypeOK, NodeFields
  <2>2. CASE ~ok
    BY <1>1, <2>2 DEF BeginNew, nodeVars, dbVars, NodeTypeOK, DbTypeOK, Keeps, Held
  <2> QED
    BY <2>1, <2>2
<1>2. CASE BeginSavepoint(n, m, ok)
  <2>1. InTx(n) /\ node[n].tx \in Node
    BY <1>2 DEF BeginSavepoint, InTx, NodeTypeOK, NodeFields
  <2>2. CASE ok
    <3>1. Savepoint(node[n].tx, m)
      BY <1>2, <2>2 DEF BeginSavepoint
    <3>2. Clone(n, m, [node[n] EXCEPT !.nested = TRUE, !.savePointID = m])
      BY <1>2, <2>2 DEF BeginSavepoint
    <3>3. NodeTypeOK' /\ node'[m].nested
      <4>1. node[n] \in NodeFields
        BY DEF NodeTypeOK
      <4>2. /\ [node[n] EXCEPT !.nested = TRUE, !.savePointID = m] \in NodeFields
            /\ [node[n] EXCEPT !.nested = TRUE, !.savePointID = m].nested
        BY <4>1 DEF NodeFields
      <4> QED
        BY <3>2, <4>2 DEF Clone, NodeTypeOK
    <3>4. (\A u \in Node \ {m} : node'[u] = node[u]) /\ born' = born \cup {m}
      BY <3>2 DEF Clone, NodeTypeOK
    <3> QED
      BY <3>1, <3>3, <3>4, <2>1, <2>2, StatementKeepsSessions DEF Keeps
  <2>3. CASE ~ok
    <3>1. Refuse(node[n].tx) /\ UNCHANGED nodeVars
      BY <1>2, <2>3 DEF BeginSavepoint
    <3> QED
      BY <3>1, <2>1, StatementKeepsSessions DEF Keeps, nodeVars, NodeTypeOK
  <2> QED
    BY <2>2, <2>3
<1>3. CASE BeginShared(n, m, ok)
  <2>1. /\ InTx(n) /\ ok /\ UNCHANGED <<dbVars, closed>> /\ born' = born \cup {m}
        /\ node' = [node EXCEPT ![m] = [node[n] EXCEPT !.nested = TRUE]]
    BY <1>3 DEF BeginShared, Clone
  <2>2. [node[n] EXCEPT !.nested = TRUE] \in NodeFields
    BY DEF NodeTypeOK, NodeFields
  <2>3. NodeTypeOK' /\ node'[m].nested /\ \A u \in Node \ {m} : node'[u] = node[u]
    BY <2>1, <2>2 DEF NodeTypeOK, NodeFields
  <2> QED
    BY <2>1, <2>3 DEF dbVars, DbTypeOK, Keeps, Held
<1> QED
  BY <1>1, <1>2, <1>3 DEF BeginTx

\* A node with a savepoint or a shared transaction sends statements; a node that
\* opened its transaction ends it.  In both cases only that node forgets it.
Ends(n) == /\ ~node[n].nested /\ InTx(n)
           /\ \A u \in Node \ {node[n].tx} : session'[u] = session[u]
           /\ session[node[n].tx].state # "idle"
           /\ session'[node[n].tx].state = "done"
Forgets(n) == node' = [node EXCEPT ![n].tx = None]

\* What Commit does to sessions and fields.
LEMMA CommitEffect ==
    ASSUME NodeTypeOK, DbTypeOK, NEW n \in Node, NEW ok \in BOOLEAN, Commit(n, ok),
           node[n].savePointID # None => node[n].nested
    PROVE  /\ NodeTypeOK' /\ DbTypeOK' /\ born' = born
           /\ node' = node \/ Forgets(n)
           /\ \/ Keeps /\ (node[n].nested \/ UNCHANGED node)
              \/ Ends(n)
<1>0. ASSUME ForgetIf(n, ok)
      PROVE  NodeTypeOK' /\ born' = born /\ (node' = node \/ Forgets(n))
  BY <1>0 DEF ForgetIf, Forget, Forgets, nodeVars, NodeTypeOK, NodeFields
<1>1. InTx(n) => node[n].tx \in Node
  BY DEF InTx, NodeTypeOK, NodeFields
<1>2. CASE CommitNotInTx(n, ok)
  BY <1>2 DEF CommitNotInTx, nodeVars, dbVars, NodeTypeOK, DbTypeOK, Keeps, Held
<1>3. CASE CommitSavepoint(n, ok)
  <2>1. Release(node[n].tx, node[n].savePointID) \/ Refuse(node[n].tx)
    BY <1>3 DEF CommitSavepoint
  <2>2. node[n].savePointID \in Node /\ InTx(n) /\ node[n].nested /\ ForgetIf(n, ok)
    BY <1>3 DEF CommitSavepoint, NodeTypeOK, NodeFields
  <2>3. DbTypeOK' /\ Keeps
    BY <2>1, <2>2, <1>1, StatementKeepsSessions DEF Keeps
  <2> QED
    BY <2>2, <2>3, <1>0
<1>4. CASE CommitOwner(n, ok)
  <2>1. CommitTx(node[n].tx) \/ CommitTxFails(node[n].tx)
    BY <1>4 DEF CommitOwner
  <2>2. InTx(n) /\ ~node[n].nested /\ ForgetIf(n, ok)
    BY <1>4 DEF CommitOwner
  <2>3. DbTypeOK' /\ Ends(n)
    BY <2>1, <2>2, <1>1, EndFreesOne DEF Ends
  <2> QED
    BY <2>2, <2>3, <1>0
<1>5. CASE CommitShared(n, ok)
  BY <1>5 DEF CommitShared, Forget, Forgets, NodeTypeOK, NodeFields, dbVars, DbTypeOK, Keeps, Held
<1> QED
  BY <1>2, <1>3, <1>4, <1>5 DEF Commit

\* What Rollback does to sessions and fields.
LEMMA RollbackEffect ==
    ASSUME NodeTypeOK, DbTypeOK, NEW n \in Node, NEW ok \in BOOLEAN, Rollback(n, ok),
           node[n].savePointID # None => node[n].nested
    PROVE  /\ NodeTypeOK' /\ DbTypeOK' /\ born' = born
           /\ node' = node \/ Forgets(n)
           /\ \/ Keeps /\ (node[n].nested \/ UNCHANGED node)
              \/ Ends(n)
<1>0. ASSUME ForgetIf(n, ok)
      PROVE  NodeTypeOK' /\ born' = born /\ (node' = node \/ Forgets(n))
  BY <1>0 DEF ForgetIf, Forget, Forgets, nodeVars, NodeTypeOK, NodeFields
<1>1. InTx(n) => node[n].tx \in Node
  BY DEF InTx, NodeTypeOK, NodeFields
<1>2. CASE RollbackNotInTx(n, ok)
  BY <1>2 DEF RollbackNotInTx, nodeVars, dbVars, NodeTypeOK, DbTypeOK, Keeps, Held
<1>3. CASE RollbackSavepoint(n, ok)
  <2>1. RollbackTo(node[n].tx, node[n].savePointID) \/ Refuse(node[n].tx)
    BY <1>3 DEF RollbackSavepoint
  <2>2. node[n].savePointID \in Node /\ InTx(n) /\ node[n].nested /\ ForgetIf(n, ok)
    BY <1>3 DEF RollbackSavepoint, UsesSavepoint, NodeTypeOK, NodeFields
  <2>3. DbTypeOK' /\ Keeps
    BY <2>1, <2>2, <1>1, StatementKeepsSessions DEF Keeps
  <2> QED
    BY <2>2, <2>3, <1>0
<1>4. CASE RollbackOwner(n, ok)
  <2>1. RollbackTx(node[n].tx) \/ RollbackTxFails(node[n].tx)
    BY <1>4 DEF RollbackOwner
  <2>2. InTx(n) /\ ~node[n].nested /\ ForgetIf(n, ok)
    BY <1>4 DEF RollbackOwner
  <2>3. DbTypeOK' /\ Ends(n)
    BY <2>1, <2>2, <1>1, EndFreesOne DEF Ends
  <2> QED
    BY <2>2, <2>3, <1>0
<1>5. CASE RollbackShared(n, ok)
  BY <1>5 DEF RollbackShared, Forget, Forgets, NodeTypeOK, NodeFields, dbVars, DbTypeOK, Keeps, Held
<1> QED
  BY <1>2, <1>3, <1>4, <1>5 DEF Rollback

\* What a statement does: nothing to the fields, nothing to who holds what.
LEMMA ExecEffect ==
    ASSUME NodeTypeOK, DbTypeOK, NEW n \in Node, NEW ok \in BOOLEAN, Exec(n, ok)
    PROVE  NodeTypeOK' /\ DbTypeOK' /\ Keeps /\ UNCHANGED <<node, born>>
<1>1. UNCHANGED <<node, born>> /\ NodeTypeOK'
  BY DEF Exec, nodeVars, NodeTypeOK
<1>2. CASE InTx(n)
  <2>1. node[n].tx \in Node /\ (Write(node[n].tx, n) \/ Refuse(node[n].tx))
    BY <1>2 DEF Exec, InTx, NodeTypeOK, NodeFields
  <2> QED
    BY <1>1, <2>1, StatementKeepsSessions DEF Keeps
<1>3. CASE ~InTx(n)
  BY <1>1, <1>3 DEF Exec, AutoCommit, dbVars, DbTypeOK, Keeps, Held
<1> QED
  BY <1>2, <1>3

------------------------------------------------------------------------------
\* The history variables of NodeCalls.
HistoryTypeOK == /\ scope \in [Node -> SUBSET Node]
                 /\ ended \in [Node -> {"no", "commit", "rollback"}]
                 /\ wrote \in SUBSET Node
                 /\ undone \in SUBSET Node

\* Every step keeps the history well typed.
LEMMA HistoryStep ==
    ASSUME TypeOK, [Next]_vars
    PROVE  HistoryTypeOK'
<1> USE DEF TypeOK, HistoryTypeOK
<1>1. CASE UNCHANGED vars
  BY <1>1 DEF vars, history
<1>2. ASSUME NEW n \in Node, NEW m \in Node, NEW ok \in BOOLEAN, DoBegin(n, m, ok)
      PROVE  HistoryTypeOK'
  BY <1>2 DEF DoBegin
<1>3. ASSUME NEW n \in Node, NEW ok \in BOOLEAN,
             DoExec(n, ok) \/ DoCommit(n, ok) \/ DoRollback(n, ok)
      PROVE  HistoryTypeOK'
  BY <1>3 DEF DoExec, DoCommit, DoRollback
<1>4. ASSUME NEW n \in Node, NEW enabled \in BOOLEAN,
             DoToggle(n, enabled) \/ DoClose(n) \/ Cancel(n)
      PROVE  HistoryTypeOK'
  BY <1>4 DEF DoToggle, DoClose, Cancel, history
<1> QED
  BY <1>1, <1>2, <1>3, <1>4 DEF Next

\* Every step keeps the types and the ownership of sessions.
LEMMA OwnershipStep ==
    ASSUME TypeOK, Ownership, [Next]_vars
    PROVE  NodeTypeOK' /\ DbTypeOK' /\ Ownership'
<1> USE NoneAssumption
<1>0. NodeTypeOK /\ DbTypeOK /\ session \in [Node -> Session] /\ born \subseteq Node
  BY DEF TypeOK, DbTypeOK, NodeTypeOK
<1>1. CASE UNCHANGED vars
  BY <1>0, <1>1 DEF vars, nodeVars, dbVars, NodeTypeOK, DbTypeOK, Ownership, OwnTx, OwnerLives, Held
<1>2. ASSUME NEW n \in Node, NEW m \in Node, NEW ok \in BOOLEAN, DoBegin(n, m, ok)
      PROVE  NodeTypeOK' /\ DbTypeOK' /\ Ownership'
  <2>1. BeginTx(n, m, ok) /\ n \in born /\ m \notin born
    BY <1>2 DEF DoBegin, BeginTx
  <2>2. NodeTypeOK' /\ DbTypeOK'
    BY <1>0, <2>1, BeginEffect
  <2>3. CASE ~InTx(n) /\ Begin(m) /\ born' = born \cup {m}
                /\ node' = [node EXCEPT ![m] = [node[n] EXCEPT !.tx = m]]
    <3>1. /\ ~Reuse => ~node[n].nested
          /\ ~node[n].nested => node[n].savePointID = None
      BY <1>2, <2>1, <2>3 DEF DoBegin, Ownership, OwnTx
    <3>2. /\ session'[m].state = "open"
          /\ \A u \in Node \ {m} : session'[u] = session[u]
      BY <1>0, <2>3, BeginHoldsOne
    <3>3. /\ node'[m].tx = m
          /\ node'[m].nested = node[n].nested /\ node'[m].savePointID = node[n].savePointID
          /\ \A u \in Node \ {m} : node'[u] = node[u]
      BY <1>0, <2>3 DEF NodeTypeOK, NodeFields
    <3> QED
      BY <2>1, <2>2, <2>3, <3>1, <3>2, <3>3 DEF Ownership, OwnTx, OwnerLives, Held
  <2>4. CASE /\ Keeps
             /\ node'[m].nested
             /\ \A u \in Node \ {m} : node'[u] = node[u]
             /\ born' = born \cup {m}
    BY <1>0, <2>1, <2>2, <2>4 DEF Keeps, Ownership, OwnTx, OwnerLives
  <2>5. CASE Keeps /\ UNCHANGED <<node, born>>
    BY <1>0, <2>2, <2>5 DEF Keeps, Ownership, OwnTx, OwnerLives
  <2> QED
    BY <1>0, <2>1, <2>3, <2>4, <2>5, BeginEffect
<1>3. ASSUME NEW n \in Node, NEW ok \in BOOLEAN, DoCommit(n, ok) \/ DoRollback(n, ok)
      PROVE  NodeTypeOK' /\ DbTypeOK' /\ Ownership'
  <2>1. n \in born /\ (Commit(n, ok) \/ Rollback(n, ok))
    BY <1>3 DEF DoCommit, DoRollback, Commit, Rollback
  <2>2. node[n].savePointID # None => node[n].nested
    BY <1>0, <2>1 DEF Ownership, OwnTx, OwnerLives, NodeTypeOK, NodeFields
  <2>3. /\ NodeTypeOK' /\ DbTypeOK' /\ born' = born
        /\ node' = node \/ Forgets(n)
        /\ \/ Keeps /\ (node[n].nested \/ UNCHANGED node)
           \/ Ends(n)
    BY <1>0, <2>1, <2>2, CommitEffect, RollbackEffect
  <2>4. CASE Keeps /\ UNCHANGED node
    BY <1>0, <2>3, <2>4 DEF Keeps, Ownership, OwnTx, OwnerLives
  <2>5. CASE Keeps /\ node[n].nested /\ Forgets(n)
    <3>1. /\ node'[n].nested
          /\ \A u \in Node \ {n} : node'[u] = node[u]
      BY <1>0, <2>5 DEF Forgets, NodeTypeOK, NodeFields
    <3>2. ~Reuse => \A t \in Node : Held(t)' => t # n
      BY <2>5 DEF Keeps, Ownership, OwnTx, OwnerLives
    <3> QED
      BY <1>0, <2>3, <2>5, <3>1, <3>2 DEF Keeps, Ownership, OwnTx, OwnerLives
  <2>6. CASE Ends(n)
    <3>1. node[n].tx = n
      BY <2>1, <2>6 DEF Ends, InTx, Ownership, OwnTx, OwnerLives
    <3>2. session'[n].state = "done" /\ \A u \in Node \ {n} : session'[u] = session[u]
      BY <2>6, <3>1 DEF Ends
    <3>3. /\ node'[n].tx \in {n, None}
          /\ ~node'[n].nested /\ node'[n].savePointID = None
          /\ \A u \in Node \ {n} : node'[u] = node[u]
      <4>1. ~node[n].nested /\ node[n].savePointID = None
        BY <2>1, <2>6 DEF Ends, Ownership, OwnTx, OwnerLives
      <4> QED
        BY <1>0, <2>3, <3>1, <4>1 DEF Forgets, NodeTypeOK, NodeFields
    <3> QED
      BY <1>0, <2>1, <2>3, <3>2, <3>3 DEF Ownership, OwnTx, OwnerLives, Held
  <2> QED
    BY <2>3, <2>4, <2>5, <2>6
<1>4. ASSUME NEW n \in Node, NEW ok \in BOOLEAN, DoExec(n, ok)
      PROVE  NodeTypeOK' /\ DbTypeOK' /\ Ownership'
  <2>1. NodeTypeOK' /\ DbTypeOK' /\ Keeps /\ UNCHANGED <<node, born>>
    BY <1>0, <1>4, ExecEffect DEF DoExec
  <2> QED
    BY <1>0, <2>1 DEF Keeps, Ownership, OwnTx, OwnerLives
<1>5. ASSUME NEW n \in Node, NEW enabled \in BOOLEAN, DoToggle(n, enabled)
      PROVE  NodeTypeOK' /\ DbTypeOK' /\ Ownership'
  BY <1>0, <1>5 DEF DoToggle, EnableSavepoint, dbVars, NodeTypeOK, NodeFields, DbTypeOK,
                    Ownership, OwnTx, OwnerLives, Held
<1>6. ASSUME NEW n \in Node, DoClose(n)
      PROVE  NodeTypeOK' /\ DbTypeOK' /\ Ownership'
  BY <1>0, <1>6 DEF DoClose, Close, dbVars, NodeTypeOK, DbTypeOK, Ownership, OwnTx, OwnerLives, Held
<1>7. ASSUME NEW n \in Node, Cancel(n)
      PROVE  NodeTypeOK' /\ DbTypeOK' /\ Ownership'
  <2>1. NodeTypeOK' /\ UNCHANGED <<node, born>>
    BY <1>0, <1>7 DEF Cancel, nodeVars, NodeTypeOK
  <2>2. /\ DbTypeOK' /\ session[n].state # "idle" /\ session'[n].state = "done"
        /\ \A u \in Node \ {n} : session'[u] = session[u]
    BY <1>0, <1>7, EndFreesOne DEF Cancel
  <2> QED
    BY <2>1, <2>2 DEF Ownership, OwnTx, OwnerLives, Held
<1> QED
  BY <1>1, <1>2, <1>3, <1>4, <1>5, <1>6, <1>7 DEF Next

\* The initial state is well typed and holds no session.
LEMMA InitOwnership == Init => TypeOK /\ Ownership
<1> SUFFICES ASSUME Init PROVE TypeOK /\ Ownership
  OBVIOUS
<1>1. NodeTypeOK
  BY PoolAssumption, SavepointsAssumption DEF Init, NodeInit, NodeTypeOK, NodeFields
<1>2. DbTypeOK
  <2>1. [state |-> "idle", layers |-> <<>>] \in Session
    BY EmptySeq DEF Session
  <2> QED
    BY <2>1 DEF Init, DbInit, DbTypeOK
<1>3. TypeOK
  BY <1>1, <1>2 DEF Init, TypeOK
<1>4. Ownership
  BY PoolAssumption DEF Init, NodeInit, DbInit, Ownership, OwnTx, OwnerLives, Held
<1> QED
  BY <1>3, <1>4

\* The state of NodeCalls is well typed.
THEOREM TypeCorrect == Spec => []TypeOK
<1>1. TypeOK /\ Ownership /\ [Next]_vars => (TypeOK /\ Ownership)'
  BY OwnershipStep, HistoryStep DEF TypeOK, HistoryTypeOK
<1> QED
  BY <1>1, InitOwnership, PTL DEF Spec

\* Begin, Commit and Rollback in any order, by any number of callers, on any
\* number of nodes: as long as nobody begins on a finished nested node, every
\* connection in use has its owner, and only one.
THEOREM OwnerAlwaysHolds == ASSUME ~Reuse PROVE Spec => []OwnerHolds
<1>1. TypeOK /\ Ownership /\ [Next]_vars => (TypeOK /\ Ownership)'
  BY OwnershipStep, HistoryStep DEF TypeOK, HistoryTypeOK
<1>2. TypeOK /\ Ownership => OwnerHolds
  BY NoneAssumption DEF TypeOK, NodeTypeOK, NodeFields, Ownership, OwnTx, OwnerLives, OwnerHolds
<1> QED
  BY <1>1, <1>2, InitOwnership, PTL DEF Spec

\* What a nested Commit leaves to its parent is published by nobody but the
\* owner of the session, even when finished nested nodes are begun on again.
THEOREM OwnerPublishes == Spec => OnlyOwnerPublishes
<1> DEFINE Publishes == \A w \in durable' \ durable :
               \/ ~InTx(w)
               \/ \E t \in Node : /\ Held(t) /\ w \in Pending(t)
                                  /\ node[t].tx = t /\ ~node[t].nested /\ ~Held(t)'
                                  /\ \A n \in Node \ {t} : node'[n] = node[n]
<1>1. TypeOK /\ Ownership /\ [Next]_vars => (TypeOK /\ Ownership)'
  BY OwnershipStep, HistoryStep DEF TypeOK, HistoryTypeOK
<1>2. TypeOK /\ Ownership /\ [Next]_vars => [Publishes]_vars
  <2> SUFFICES ASSUME TypeOK, Ownership, Next PROVE Publishes
    OBVIOUS
  <2>0. NodeTypeOK /\ DbTypeOK /\ session \in [Node -> Session] /\ born \subseteq Node
    BY DEF TypeOK, DbTypeOK, NodeTypeOK
  <2>1. ASSUME NEW n \in Node, NEW m \in Node, NEW ok \in BOOLEAN, DoBegin(n, m, ok)
        PROVE  UNCHANGED durable
    BY <2>1 DEF DoBegin, BeginTx, BeginNew, BeginSavepoint, BeginShared, Begin, Savepoint,
                Refuse, dbVars
  <2>2. ASSUME NEW n \in Node, NEW ok \in BOOLEAN, DoExec(n, ok)
        PROVE  Publishes
    BY <2>2 DEF DoExec, Exec, AutoCommit, Write, Refuse, dbVars
  <2>3. ASSUME NEW n \in Node, NEW ok \in BOOLEAN, DoCommit(n, ok)
        PROVE  Publishes
    <3>1. CASE CommitOwner(n, ok)
      <4>1. n \in born /\ ~node[n].nested /\ node[n].tx = n
        BY <2>3, <3>1 DEF DoCommit, Commit, CommitOwner, InTx, Ownership, OwnTx
      <4>2. CommitTx(n) \/ CommitTxFails(n)
        BY <3>1, <4>1 DEF CommitOwner
      <4>3. session'[n].state = "done"
        BY <2>0, <4>2, EndFreesOne
      <4>4. \A w \in durable' \ durable : session[n].state = "open" /\ w \in Pending(n)
        BY <4>2 DEF CommitTx, CommitTxFails
      <4>5. \A u \in Node \ {n} : node'[u] = node[u]
        BY <3>1 DEF CommitOwner, ForgetIf, Forget, nodeVars, TypeOK, NodeTypeOK
      <4> QED
        BY <4>1, <4>3, <4>4, <4>5 DEF Held
    <3>2. CASE CommitNotInTx(n, ok) \/ CommitSavepoint(n, ok) \/ CommitShared(n, ok)
      BY <3>2 DEF CommitNotInTx, CommitSavepoint, CommitShared, Release, Refuse, dbVars
    <3> QED
      BY <2>3, <3>1, <3>2 DEF DoCommit, Commit
  <2>4. ASSUME NEW n \in Node, NEW ok \in BOOLEAN, DoRollback(n, ok)
        PROVE  UNCHANGED durable
    BY <2>4 DEF DoRollback, Rollback, RollbackNotInTx, RollbackSavepoint, RollbackOwner,
                RollbackShared, RollbackTo, Refuse, RollbackTx, RollbackTxFails, dbVars
  <2>5. ASSUME NEW n \in Node, NEW enabled \in BOOLEAN,
               DoToggle(n, enabled) \/ DoClose(n) \/ Cancel(n)
        PROVE  UNCHANGED durable
    BY <2>5 DEF DoToggle, DoClose, Cancel, EnableSavepoint, Close, ContextDone, dbVars
  <2> QED
    BY <2>1, <2>2, <2>3, <2>4, <2>5 DEF Next
<1> QED
  BY <1>1, <1>2, InitOwnership, PTL DEF Spec, OnlyOwnerPublishes

------------------------------------------------------------------------------
\* With savepoints that nobody switches off: a node in a transaction works in the
\* session of its scope, and the savepoint it would release or roll back to is its
\* own, or, for a node begun on a finished one, not on the stack of its session.
Placed(n) ==
    /\ node[n].savePointEnabled
    /\ node[n].nested <=> node[n].savePointID # None
    /\ node[n].savePointID \in born \cup {None}
    /\ InTx(n) => /\ Used(node[n].tx) /\ node[n].tx \in scope[n]
                  /\ node[n].savePointID \notin {n, None} =>
                         node[n].tx \notin scope[node[n].savePointID]

\* A scope has at most one session, and contains the scopes of its nodes.
Within(m) == /\ scope[m] \subseteq born
             /\ \A x \in scope[m] : scope[x] \subseteq scope[m]
             /\ \A x, y \in scope[m] : Used(x) /\ Used(y) => x = y

Fresh == wrote \subseteq born /\ durable \subseteq born /\ \A n \in Node \ born : ~Used(n)
NodesInv == Fresh /\ \A n \in Node : Placed(n) /\ Within(n)

\* A write belongs to the session it lies in, and lies above the savepoints of its
\* scope, or in the layer of one.
WriteOK(t, j, w) == /\ w \in wrote /\ t \in scope[w]
                    /\ \A a \in 1..Size(t) : Sp(t, a) \in scope[w] => a <= j
StackOK(t) == /\ 1 \in 1..Size(t) /\ Sp(t, 1) = None
              /\ \A j \in 2..Size(t) : Sp(t, j) \in born /\ t \in scope[Sp(t, j)]
              /\ \A j \in 1..Size(t) : \A w \in Wr(t, j) : WriteOK(t, j, w)
StacksInv == \A t \in Node : Used(t) => StackOK(t)

\* What is durable was written in a session that is done, or outside of any
\* transaction by a node that never was in one; what a Rollback covers lies on no
\* stack that may still be committed.
Live(t) == session[t].state \in {"open", "aborted"}
Saved(w) == IF w \in wrote THEN \A t \in scope[w] : Used(t) => session[t].state = "done"
                           ELSE ~InTx(w)
Gone(w) == /\ w \in wrote \ durable
           /\ \A t \in Node : Live(t) => \A j \in 1..Size(t) : w \notin Wr(t, j)
WritesInv == (\A w \in durable : Saved(w)) /\ (\A w \in undone : Gone(w))

CallInv == NodesInv /\ StacksInv /\ WritesInv

------------------------------------------------------------------------------
\* The kinds of steps.  A BeginTx that works makes the clone m.
Clones(m, fields, s) ==
    /\ m \in Node \ born
    /\ node' = [node EXCEPT ![m] = fields] /\ born' = born \cup {m}
    /\ scope' = [scope EXCEPT ![m] = s]
    /\ UNCHANGED <<wrote, undone>>
Opens(n, m) == /\ n \in born /\ ~InTx(n)
               /\ Begin(m)
               /\ Clones(m, [node[n] EXCEPT !.tx = m], {m})
Nests(n, m) == /\ n \in born /\ InTx(n)
               /\ Savepoint(node[n].tx, m)
               /\ Clones(m, [node[n] EXCEPT !.nested = TRUE, !.savePointID = m], {m} \cup scope[n])

\* Any other step makes no node; at most n forgets its transaction.
Stays(n) == n \in born /\ UNCHANGED <<born, scope>> /\ (node' = node \/ Forgets(n))

Covered(n) == {w \in wrote : n \in scope[w]}

Writes(n) == /\ Stays(n) /\ InTx(n) /\ n \notin wrote
             /\ Write(node[n].tx, n)
             /\ wrote' = wrote \cup {n} /\ UNCHANGED undone
Releases(n) == /\ Stays(n) /\ InTx(n) /\ node[n].savePointID # None
               /\ Release(node[n].tx, node[n].savePointID)
               /\ UNCHANGED <<wrote, undone>>
RollsTo(n) == /\ Stays(n) /\ InTx(n) /\ node[n].savePointID # None
              /\ RollbackTo(node[n].tx, node[n].savePointID)
              /\ wrote' = wrote /\ undone' = undone \cup Covered(n)

\* No stack changes, and no session gets better.
Worsens(u) == /\ SameStack(u) /\ (Used(u)' <=> Used(u))
              /\ Live(u)' => Live(u)
              /\ session[u].state = "done" => session'[u].state = "done"
Calm(n) == Stays(n) /\ wrote' = wrote /\ \A u \in Node : Worsens(u)

Rests(n) == Calm(n) /\ UNCHANGED <<durable, undone>>
WritesAlone(n) == /\ Calm(n) /\ ~InTx(n) /\ n \notin wrote
                  /\ durable' = durable \cup {n} /\ UNCHANGED undone
Saves(n) == /\ Calm(n) /\ InTx(n)
            /\ session[node[n].tx].state = "open" /\ session'[node[n].tx].state = "done"
            /\ durable' = durable \cup Pending(node[n].tx) /\ UNCHANGED undone
RollsBack(n) == /\ Calm(n) /\ InTx(n) /\ node[n].savePointID = None
                /\ Live(node[n].tx) /\ session'[node[n].tx].state = "done"
                /\ durable' = durable /\ undone' = undone \cup Covered(n)

Kinds == \E n \in Node : \/ \E m \in Node : Opens(n, m) \/ Nests(n, m)
                         \/ Writes(n) \/ Releases(n) \/ RollsTo(n)
                         \/ Rests(n) \/ WritesAlone(n) \/ Saves(n) \/ RollsBack(n)

\* Statements that fail, ends of sessions and cancelled contexts.
LEMMA OpsWorsen ==
    ASSUME DbTypeOK, NEW t \in Node, NEW u \in Node,
           \/ Refuse(t) \/ CommitTx(t) \/ CommitTxFails(t)
           \/ RollbackTx(t) \/ RollbackTxFails(t) \/ ContextDone(t)
    PROVE  Worsens(u)
<1>1. SameStack(u) /\ (u # t => session'[u] = session[u])
  BY OpsKeepStacks
<1>2. session \in [Node -> Session]
  BY DEF DbTypeOK
<1>3. CASE u = t /\ Refuse(t)
  <2>1. \/ session'[t].state = (IF session[t].state = "open" THEN "aborted" ELSE session[t].state)
        \/ session[t].state \in {"open", "aborted", "lost"} /\ session'[t].state = "lost"
    BY <1>2, <1>3 DEF Refuse, Held, Session
  <2> QED
    BY <1>1, <1>3, <2>1 DEF Worsens, Used, Live
<1>4. CASE u = t /\ ~Refuse(t)
  <2>1. session'[t].state = "done" /\ session[t].state # "idle"
    BY <1>4, EndFreesOne
  <2> QED
    BY <1>1, <1>4, <2>1 DEF Worsens, Used, Live
<1>5. CASE u # t
  BY <1>1, <1>5 DEF Worsens, Used, Live
<1> QED
  BY <1>3, <1>4, <1>5

LEMMA NothingWorsens ==
    ASSUME UNCHANGED session, NEW u \in Node
    PROVE  Worsens(u)
BY DEF Worsens, SameStack, Used, Live

\* BeginTx, with savepoints.
LEMMA BeginKinds ==
    ASSUME TypeOK, CallInv, NEW n \in Node, NEW m \in Node, NEW ok \in BOOLEAN, DoBegin(n, m, ok)
    PROVE  Opens(n, m) \/ Nests(n, m) \/ Rests(n)
<1>1. /\ n \in born /\ m \in Node \ born /\ Placed(n) /\ UNCHANGED <<wrote, undone>>
      /\ BeginNew(n, m, ok) \/ BeginSavepoint(n, m, ok)
  BY DEF DoBegin, BeginTx, BeginShared, CallInv, NodesInv, Placed
<1>2. scope' = IF ok THEN [scope EXCEPT ![m] = {m} \cup (IF InTx(n) THEN scope[n] ELSE {})] ELSE scope
  BY DEF DoBegin
<1>3. CASE BeginNew(n, m, ok) /\ ok
  BY <1>1, <1>2, <1>3 DEF BeginNew, Opens, Clones, Clone
<1>4. CASE BeginNew(n, m, ok) /\ ~ok
  <2>1. UNCHANGED <<nodeVars, dbVars, scope>>
    BY <1>2, <1>4 DEF BeginNew
  <2> QED
    BY <1>1, <2>1, NothingWorsens DEF nodeVars, dbVars, Rests, Calm, Stays
<1>5. CASE BeginSavepoint(n, m, ok) /\ ok
  BY <1>1, <1>2, <1>5 DEF BeginSavepoint, Nests, Clones, Clone
<1>6. CASE BeginSavepoint(n, m, ok) /\ ~ok
  <2>1. node[n].tx \in Node
    BY <1>6 DEF BeginSavepoint, InTx, TypeOK, NodeTypeOK, NodeFields
  <2>2. Refuse(node[n].tx) /\ UNCHANGED <<nodeVars, scope>>
    BY <1>2, <1>6 DEF BeginSavepoint
  <2>3. \A u \in Node : Worsens(u)
    BY <2>1, <2>2, OpsWorsen DEF TypeOK
  <2> QED
    BY <1>1, <2>2, <2>3 DEF nodeVars, Refuse, Rests, Calm, Stays
<1> QED
  BY <1>1, <1>3, <1>4, <1>5, <1>6

LEMMA ExecKinds ==
    ASSUME TypeOK, CallInv, NEW n \in Node, NEW ok \in BOOLEAN, DoExec(n, ok)
    PROVE  Writes(n) \/ WritesAlone(n) \/ Rests(n)
<1>1. Stays(n) /\ UNCHANGED undone /\ n \notin wrote
  BY DEF DoExec, Exec, Stays, nodeVars
<1>2. wrote' = IF ok /\ InTx(n) THEN wrote \cup {n} ELSE wrote
  BY DEF DoExec
<1>3. CASE ~InTx(n) /\ ok /\ AutoCommit(n)
  BY <1>1, <1>2, <1>3, NothingWorsens DEF AutoCommit, WritesAlone, Calm
<1>4. CASE ~InTx(n) /\ UNCHANGED dbVars
  BY <1>1, <1>2, <1>4, NothingWorsens DEF dbVars, Rests, Calm
<1>5. CASE InTx(n) /\ ok /\ Write(node[n].tx, n)
  BY <1>1, <1>2, <1>5 DEF Writes
<1>6. CASE InTx(n) /\ ~ok /\ Refuse(node[n].tx)
  <2>1. node[n].tx \in Node
    BY <1>6 DEF InTx, TypeOK, NodeTypeOK, NodeFields
  <2>2. \A u \in Node : Worsens(u)
    BY <1>6, <2>1, OpsWorsen DEF TypeOK
  <2> QED
    BY <1>1, <1>2, <1>6, <2>2 DEF Refuse, Rests, Calm
<1> QED
  BY <1>3, <1>4, <1>5, <1>6 DEF DoExec, Exec

LEMMA CommitKinds ==
    ASSUME TypeOK, CallInv, NEW n \in Node, NEW ok \in BOOLEAN, DoCommit(n, ok)
    PROVE  Releases(n) \/ Saves(n) \/ Rests(n)
<1>1. n \in born /\ UNCHANGED <<scope, wrote, undone>> /\ Placed(n)
  BY DEF DoCommit, Commit, CallInv, NodesInv
<1>2. CommitNotInTx(n, ok) \/ CommitSavepoint(n, ok) \/ CommitOwner(n, ok)
  BY <1>1 DEF DoCommit, Commit, CommitShared, Placed
<1>3. Stays(n)
  BY <1>1, <1>2 DEF CommitNotInTx, CommitSavepoint, CommitOwner, ForgetIf, Forget, Forgets,
                    nodeVars, Stays
<1>4. InTx(n) => node[n].tx \in Node
  BY DEF InTx, TypeOK, NodeTypeOK, NodeFields
<1>5. CASE CommitNotInTx(n, ok)
  BY <1>1, <1>3, <1>5, NothingWorsens DEF CommitNotInTx, dbVars, Rests, Calm
<1>6. CASE InTx(n) /\ node[n].savePointID # None /\ Release(node[n].tx, node[n].savePointID)
  BY <1>1, <1>3, <1>6 DEF Releases
<1>7. CASE InTx(n) /\ (Refuse(node[n].tx) \/ CommitTx(node[n].tx) \/ CommitTxFails(node[n].tx))
  <2>1. \A u \in Node : Worsens(u)
    BY <1>4, <1>7, OpsWorsen DEF TypeOK
  <2>2. CASE durable' = durable
    BY <1>1, <1>3, <2>1, <2>2 DEF Rests, Calm
  <2>3. CASE durable' # durable
    <3>1. /\ session[node[n].tx].state = "open" /\ durable' = durable \cup Pending(node[n].tx)
          /\ CommitTx(node[n].tx) \/ CommitTxFails(node[n].tx)
      BY <1>7, <2>3 DEF Refuse, CommitTx, CommitTxFails
    <3>2. session'[node[n].tx].state = "done"
      BY <1>4, <1>7, <3>1, EndFreesOne DEF TypeOK
    <3> QED
      BY <1>1, <1>3, <1>7, <2>1, <3>1, <3>2 DEF Saves, Calm
  <2> QED
    BY <2>2, <2>3
<1> QED
  BY <1>2, <1>5, <1>6, <1>7 DEF CommitSavepoint, CommitOwner

LEMMA RollbackKinds ==
    ASSUME TypeOK, CallInv, NEW n \in Node, NEW ok \in BOOLEAN, DoRollback(n, ok)
    PROVE  /\ RollsTo(n) \/ RollsBack(n) \/ Rests(n)
           /\ ended' # ended => RollsTo(n) \/ RollsBack(n)
<1>1. n \in born /\ UNCHANGED <<scope, wrote>> /\ Placed(n)
  BY DEF DoRollback, Rollback, CallInv, NodesInv
<1>2. /\ RollbackNotInTx(n, ok) \/ RollbackSavepoint(n, ok) \/ RollbackOwner(n, ok)
      /\ undone' = IF ok /\ InTx(n) THEN undone \cup Covered(n) ELSE undone
      /\ ~(ok /\ InTx(n)) => ended' = ended
  BY <1>1 DEF DoRollback, Rollback, RollbackShared, UsesSavepoint, Placed, Covered
<1>3. Stays(n)
  BY <1>1, <1>2 DEF RollbackNotInTx, RollbackSavepoint, RollbackOwner, ForgetIf, Forget, Forgets,
                    nodeVars, Stays
<1>4. InTx(n) => node[n].tx \in Node
  BY DEF InTx, TypeOK, NodeTypeOK, NodeFields
<1>5. CASE RollbackNotInTx(n, ok)
  BY <1>1, <1>2, <1>3, <1>5, NothingWorsens DEF RollbackNotInTx, dbVars, Rests, Calm
<1>6. CASE RollbackSavepoint(n, ok) /\ ok
  BY <1>1, <1>2, <1>3, <1>6 DEF RollbackSavepoint, UsesSavepoint, RollsTo
<1>7. CASE RollbackOwner(n, ok) /\ ok
  <2>1. InTx(n) /\ node[n].savePointID = None /\ RollbackTx(node[n].tx)
    BY <1>1, <1>7 DEF RollbackOwner, Placed
  <2>2. \A u \in Node : Worsens(u)
    BY <1>4, <2>1, OpsWorsen DEF TypeOK
  <2>3. session'[node[n].tx].state = "done"
    BY <1>4, <2>1, EndFreesOne DEF TypeOK
  <2> QED
    BY <1>1, <1>2, <1>3, <1>7, <2>1, <2>2, <2>3 DEF RollbackTx, Live, RollsBack, Calm
<1>8. CASE (RollbackSavepoint(n, ok) \/ RollbackOwner(n, ok)) /\ ~ok
  <2>1. InTx(n) /\ (Refuse(node[n].tx) \/ RollbackTxFails(node[n].tx))
    BY <1>8 DEF RollbackSavepoint, RollbackOwner
  <2>2. \A u \in Node : Worsens(u)
    BY <1>4, <2>1, OpsWorsen DEF TypeOK
  <2> QED
    BY <1>1, <1>2, <1>3, <1>8, <2>1, <2>2 DEF Refuse, RollbackTxFails, Rests, Calm
<1> QED
  BY <1>2, <1>5, <1>6, <1>7, <1>8

LEMMA StepKinds ==
    ASSUME ~Toggle, TypeOK, CallInv, Next
    PROVE  Kinds
<1>1. ASSUME NEW n \in Node, NEW m \in Node, NEW ok \in BOOLEAN, DoBegin(n, m, ok)
      PROVE  Kinds
  BY <1>1, BeginKinds DEF Kinds
<1>2. ASSUME NEW n \in Node, NEW ok \in BOOLEAN,
             DoExec(n, ok) \/ DoCommit(n, ok) \/ DoRollback(n, ok)
      PROVE  Kinds
  BY <1>2, ExecKinds, CommitKinds, RollbackKinds DEF Kinds
<1>3. ASSUME NEW n \in Node, DoClose(n)
      PROVE  Kinds
  <2>1. n \in born /\ UNCHANGED <<node, born, dbVars, history>>
    BY <1>3 DEF DoClose, Close
  <2> QED
    BY <2>1, NothingWorsens DEF dbVars, history, Rests, Calm, Stays, Kinds
<1>4. ASSUME NEW n \in Node, Cancel(n)
      PROVE  Kinds
  <2>1. ContextDone(n) /\ UNCHANGED <<nodeVars, history>> /\ durable' = durable
    BY <1>4 DEF Cancel, ContextDone
  <2>2. \A u \in Node : Worsens(u)
    BY <2>1, OpsWorsen DEF TypeOK
  <2>3. n \in born
    BY <2>1 DEF ContextDone, Held, Used, CallInv, NodesInv, Fresh
  <2> QED
    BY <2>1, <2>2, <2>3 DEF nodeVars, history, Rests, Calm, Stays, Kinds
<1> QED
  BY <1>1, <1>2, <1>3, <1>4 DEF Next, DoToggle

------------------------------------------------------------------------------
\* How nodes, scopes and sessions evolve, whatever the step.
Evolves ==
    /\ born \subseteq born' /\ wrote \subseteq wrote'
    /\ \A m \in born : /\ scope'[m] = scope[m] /\ (Used(m)' <=> Used(m))
                       /\ session[m].state = "done" => session'[m].state = "done"
                       /\ node'[m].tx \in {node[m].tx, None}
    /\ \A w \in wrote' \ wrote : InTx(w)

\* The writes on a stack that may still be committed were there before, or are new.
Shrinks(t) == Live(t)' =>
    \A j \in 1..(Size(t)') : \A w \in Wr(t, j)' :
        w \in wrote => Live(t) /\ \E i \in 1..Size(t) : w \in Wr(t, i)

Step == Evolves /\ NodesInv' /\ StacksInv' /\ \A t \in Node : Shrinks(t)

LEMMA CutKeeps ==
    ASSUME TypeOK, CallInv, Evolves, NEW t \in Node, Used(t), Cuts(t),
           \A j \in 1..(Size(t)') : \A w \in Wr(t, j)' : Moves(t, w, j),
           Live(t)' => Live(t)
    PROVE  StackOK(t)' /\ Shrinks(t)
<1>1. StackOK(t) /\ Size(t) \in Nat /\ t \in born
  BY LayerFacts DEF CallInv, NodesInv, Fresh, StacksInv, TypeOK
<1>2. /\ Size(t)' \in 1..Size(t)
      /\ \A j \in 1..(Size(t)') : j \in 1..Size(t) /\ Sp(t, j)' = Sp(t, j)
  BY <1>1 DEF Cuts
<1>3. 1 \in 1..(Size(t)') /\ Sp(t, 1)' = None
  <2>1. 1 \in 1..(Size(t)')
    BY <1>1, <1>2
  <2> QED
    BY <1>1, <1>2, <2>1 DEF StackOK
<1>4. ASSUME NEW j \in 2..(Size(t)')
      PROVE  Sp(t, j)' \in born' /\ t \in scope'[Sp(t, j)']
  <2>1. j \in 2..Size(t) /\ Sp(t, j)' = Sp(t, j)
    BY <1>1, <1>2, <1>4
  <2> QED
    BY <1>1, <2>1 DEF StackOK, Evolves
<1>5. ASSUME NEW j \in 1..(Size(t)'), NEW w \in Wr(t, j)'
      PROVE  WriteOK(t, j, w)' /\ \E i \in 1..Size(t) : w \in Wr(t, i)
  <2>1. PICK i \in 1..Size(t) : w \in Wr(t, i) /\ (i = j \/ j = Size(t)')
    BY DEF Moves
  <2>2. WriteOK(t, i, w) /\ w \in born
    BY <1>1, <2>1 DEF StackOK, WriteOK, CallInv, NodesInv, Fresh
  <2>3. ASSUME NEW a \in 1..(Size(t)'), Sp(t, a)' \in scope'[w]
        PROVE  a <= j
    <3>1. a <= i
      BY <1>2, <2>2, <2>3 DEF WriteOK, Evolves
    <3>2. a <= Size(t)'
      BY <1>1, <1>2
    <3> QED
      BY <2>1, <3>1, <3>2
  <2> QED
    BY <2>1, <2>2, <2>3 DEF WriteOK, Evolves
<1> QED
  BY <1>3, <1>4, <1>5 DEF StackOK, Shrinks

LEMMA SameKeeps ==
    ASSUME TypeOK, CallInv, Evolves, NEW t \in Node, Used(t), SameStack(t), Live(t)' => Live(t)
    PROVE  StackOK(t)' /\ Shrinks(t)
<1>1. 1 \in 1..Size(t) /\ DbTypeOK
  BY DEF CallInv, StacksInv, StackOK, TypeOK
<1> QED
  BY <1>1, SameMoves, CutKeeps

\* A session that does not change.
LEMMA OtherKeeps ==
    ASSUME TypeOK, CallInv, Evolves, NEW t \in Node, session'[t] = session[t]
    PROVE  (Used(t) => StackOK(t)') /\ (Used(t)' <=> Used(t)) /\ (Used(t) => Shrinks(t))
BY SameKeeps DEF SameStack, Live, Used

LEMMA IdleShrinks ==
    ASSUME NEW t \in Node, ~Used(t)'
    PROVE  Shrinks(t)
BY DEF Shrinks, Live, Used

\* A step that makes no node.
LEMMA StaysPlaced ==
    ASSUME TypeOK, CallInv, NEW n \in Node, Stays(n), \A u \in Node : Used(u)' <=> Used(u),
           wrote' \subseteq born, durable' \subseteq born
    PROVE  NodesInv'
<1>1. Fresh'
  BY DEF CallInv, NodesInv, Fresh, Stays
<1>2. ASSUME NEW m \in Node
      PROVE  Placed(m)' /\ Within(m)'
  <2>1. Placed(m) /\ Within(m) /\ scope[m] \subseteq Node
    BY DEF CallInv, NodesInv, TypeOK
  <2>2. /\ node'[m].savePointEnabled = node[m].savePointEnabled
        /\ node'[m].nested = node[m].nested /\ node'[m].savePointID = node[m].savePointID
        /\ node'[m].tx \in {node[m].tx, None}
    BY DEF Stays, Forgets, TypeOK, NodeTypeOK, NodeFields
  <2>3. node[m].tx \in Node \cup {None}
    BY DEF TypeOK, NodeTypeOK, NodeFields
  <2>4. Placed(m)'
    BY <2>1, <2>2, <2>3 DEF Placed, InTx, Stays
  <2>5. Within(m)'
    BY <2>1 DEF Within, Stays
  <2> QED
    BY <2>4, <2>5
<1> QED
  BY <1>1, <1>2 DEF NodesInv

LEMMA StaysEvolves ==
    ASSUME TypeOK, NEW n \in Node, Stays(n), \A u \in Node : Used(u)' <=> Used(u),
           wrote \subseteq wrote', \A w \in wrote' \ wrote : InTx(w),
           \A u \in Node : session[u].state = "done" => session'[u].state = "done"
    PROVE  Evolves
<1>1. \A m \in born : node'[m].tx \in {node[m].tx, None} /\ m \in Node
  BY DEF Stays, Forgets, TypeOK, NodeTypeOK, NodeFields
<1> QED
  BY <1>1 DEF Evolves, Stays

LEMMA CalmStep ==
    ASSUME TypeOK, CallInv, NEW n \in Node, Calm(n), durable' \subseteq born
    PROVE  Step
<1>1. Evolves
  BY StaysEvolves DEF Calm, Worsens
<1>2. NodesInv'
  BY StaysPlaced DEF Calm, Worsens, CallInv, NodesInv, Fresh
<1>3. ASSUME NEW t \in Node
      PROVE  (Used(t)' => StackOK(t)') /\ Shrinks(t)
  <2>1. CASE Used(t)
    BY <1>1, <2>1, SameKeeps DEF Calm, Worsens
  <2>2. CASE ~Used(t)
    BY <2>2, IdleShrinks DEF Calm, Worsens
  <2> QED
    BY <2>1, <2>2
<1> QED
  BY <1>1, <1>2, <1>3 DEF Step, StacksInv

\* What a session in use, in which a node works, is known by.
LEMMA Working ==
    ASSUME TypeOK, CallInv, NEW n \in Node, InTx(n)
    PROVE  /\ node[n].tx \in Node /\ node[n].tx \in born /\ Used(node[n].tx)
           /\ StackOK(node[n].tx) /\ node[n].tx \in scope[n] /\ DbTypeOK
           /\ n \in born => n \in Node
<1>1. node[n].tx \in Node
  BY DEF InTx, TypeOK, NodeTypeOK, NodeFields
<1> QED
  BY <1>1 DEF CallInv, NodesInv, Fresh, Placed, StacksInv, TypeOK

\* A statement in the session of n: the other sessions stay.
LEMMA StatementStep ==
    ASSUME TypeOK, CallInv, NEW n \in Node, Stays(n), InTx(n),
           wrote' \in {wrote, wrote \cup {n}}, durable' = durable,
           NEW t, t = node[n].tx, Live(t), Live(t)',
           \A u \in Node \ {t} : session'[u] = session[u],
           Evolves => StackOK(t)' /\ Shrinks(t)
    PROVE  Step
<1>1. t \in Node /\ Used(t) /\ Used(t)' /\ session[t].state # "done"
  BY Working DEF Live, Used
<1>2. \A u \in Node : /\ Used(u)' <=> Used(u)
                      /\ session[u].state = "done" => session'[u].state = "done"
  BY <1>1 DEF Used
<1>3. Evolves
  BY <1>2, StaysEvolves
<1>4. NodesInv'
  <2>1. wrote' \subseteq born /\ durable' \subseteq born
    BY DEF CallInv, NodesInv, Fresh, Stays
  <2> QED
    BY <1>2, <2>1, StaysPlaced
<1>5. ASSUME NEW u \in Node
      PROVE  (Used(u)' => StackOK(u)') /\ Shrinks(u)
  <2>1. CASE u = t
    BY <1>3, <2>1
  <2>2. CASE u # t /\ Used(u)
    BY <1>3, <2>2, OtherKeeps
  <2>3. CASE ~Used(u)
    BY <1>2, <2>3, IdleShrinks
  <2> QED
    BY <2>1, <2>2, <2>3
<1> QED
  BY <1>3, <1>4, <1>5 DEF Step, StacksInv

LEMMA WritesStep ==
    ASSUME TypeOK, CallInv, NEW n \in Node, Writes(n)
    PROVE  Step /\ durable' = durable
<1>1. PICK t \in Node : /\ t = node[n].tx /\ Used(t) /\ StackOK(t) /\ t \in scope[n] /\ DbTypeOK
                        /\ Write(t, n) /\ Stays(n) /\ InTx(n) /\ n \notin wrote
                        /\ wrote' = wrote \cup {n} /\ scope' = scope /\ born' = born
  BY Working DEF Writes, Stays
<1>2. /\ session[t].state = "open" /\ session'[t].state = "open" /\ durable' = durable
      /\ \A u \in Node \ {t} : session'[u] = session[u]
      /\ Size(t)' = Size(t) /\ Size(t) \in Nat /\ Size(t) \in 1..Size(t)
      /\ \A j \in 1..Size(t) :
             /\ Sp(t, j)' = Sp(t, j)
             /\ Wr(t, j)' = IF j = Size(t) THEN Wr(t, j) \cup {n} ELSE Wr(t, j)
  <2>1. 1 \in 1..Size(t)
    BY <1>1 DEF StackOK
  <2> QED
    BY <1>1, <2>1, WriteToTop
<1>3. ASSUME NEW j \in 1..Size(t), NEW w \in Wr(t, j)'
      PROVE  WriteOK(t, j, w)' /\ (w \in wrote => w \in Wr(t, j))
  <2>1. CASE w \in Wr(t, j)
    <3>1. WriteOK(t, j, w)
      BY <1>1, <2>1 DEF StackOK
    <3> QED
      BY <1>1, <1>2, <2>1, <3>1 DEF WriteOK
  <2>2. CASE w \notin Wr(t, j)
    <3>1. w = n /\ j = Size(t)
      BY <1>2, <2>2
    <3>2. \A a \in 1..Size(t) : a <= Size(t)
      BY <1>2
    <3> QED
      BY <1>1, <1>2, <3>1, <3>2 DEF WriteOK
  <2> QED
    BY <2>1, <2>2
<1>4. ASSUME NEW j \in 2..Size(t)
      PROVE  Sp(t, j)' \in born' /\ t \in scope'[Sp(t, j)']
  <2>1. j \in 1..Size(t)
    BY <1>2
  <2> QED
    BY <1>1, <1>2, <2>1 DEF StackOK
<1>5. 1 \in 1..Size(t) /\ Sp(t, 1)' = None
  <2>1. 1 \in 1..Size(t) /\ Sp(t, 1) = None
    BY <1>1 DEF StackOK
  <2> QED
    BY <1>2, <2>1
<1>6. StackOK(t)' /\ Shrinks(t) /\ Live(t) /\ Live(t)'
  BY <1>2, <1>3, <1>4, <1>5 DEF StackOK, Shrinks, Live
<1> QED
  BY <1>1, <1>2, <1>6, StatementStep

LEMMA ReleasesStep ==
    ASSUME TypeOK, CallInv, NEW n \in Node, Releases(n)
    PROVE  Step /\ durable' = durable
<1>1. PICK t, x : /\ t \in Node /\ t = node[n].tx /\ Used(t) /\ StackOK(t) /\ DbTypeOK
                  /\ x = node[n].savePointID /\ Sp(t, 1) # x /\ Release(t, x)
                  /\ Stays(n) /\ InTx(n) /\ wrote' = wrote
  BY Working DEF Releases, StackOK
<1>2. PICK a \in 2..Size(t) : Merges(t, a)
  BY <1>1, ReleaseMerges
<1>3. /\ session[t].state = "open" /\ session'[t].state = "open" /\ durable' = durable
      /\ \A u \in Node \ {t} : session'[u] = session[u]
  BY <1>1, ReleaseMerges
<1>4. Cuts(t) /\ \A j \in 1..(Size(t)') : \A w \in Wr(t, j)' : Moves(t, w, j)
  BY <1>1, <1>2, MergeMoves DEF Merges
<1>5. Live(t) /\ Live(t)' /\ (Evolves => StackOK(t)' /\ Shrinks(t))
  BY <1>1, <1>3, <1>4, CutKeeps DEF Live
<1> QED
  BY <1>1, <1>3, <1>5, StatementStep

\* ROLLBACK TO also leaves no write of the scope of n on the stack.
LEMMA RollsToStep ==
    ASSUME TypeOK, CallInv, NEW n \in Node, RollsTo(n), NEW t, t = node[n].tx
    PROVE  /\ Step /\ durable' = durable /\ Live(t)
           /\ \A j \in 1..(Size(t)') : \A w \in Wr(t, j)' : n \notin scope[w]
<1>1. PICK x : /\ t \in Node /\ Used(t) /\ StackOK(t) /\ DbTypeOK
               /\ x = node[n].savePointID /\ Sp(t, 1) # x /\ RollbackTo(t, x)
               /\ x # None
               /\ Stays(n) /\ InTx(n) /\ wrote' = wrote
  BY Working DEF RollsTo, StackOK
<1>2. PICK a \in 2..Size(t) : Sp(t, a) = x /\ Resets(t, a)
  BY <1>1, RollbackResets
<1>3. /\ session[t].state \in {"open", "aborted"} /\ session'[t].state = "open"
      /\ durable' = durable /\ \A u \in Node \ {t} : session'[u] = session[u]
  BY <1>1, RollbackResets
<1>4. /\ Cuts(t) /\ \A j \in 1..(Size(t)') : \A w \in Wr(t, j)' : Moves(t, w, j)
      /\ \A j \in 1..a : j \in 1..Size(t) /\ (j = a \/ j < a)
  BY <1>1, <1>2, ResetMoves DEF Resets
<1>5. Live(t) /\ Live(t)' /\ (Evolves => StackOK(t)' /\ Shrinks(t))
  BY <1>1, <1>3, <1>4, CutKeeps DEF Live
<1>6. Step
  BY <1>1, <1>3, <1>5, StatementStep
<1>7. x = n
  <2>1. Placed(n) /\ t \in scope[Sp(t, a)]
    BY <1>1, <1>2 DEF CallInv, NodesInv, StackOK
  <2> QED
    BY <1>1, <1>2, <2>1 DEF Placed
<1>8. ASSUME NEW j \in 1..(Size(t)'), NEW w \in Wr(t, j)', n \in scope[w]
      PROVE  FALSE
  <2>1. j < a /\ w \in Wr(t, j) /\ j \in 1..Size(t)
    BY <1>2, <1>4 DEF Resets
  <2>2. a \in 1..Size(t) /\ WriteOK(t, j, w)
    BY <1>1, <1>2, <1>4, <2>1 DEF StackOK, Resets
  <2>3. a <= j
    BY <1>2, <1>7, <1>8, <2>2 DEF WriteOK
  <2> QED
    BY <2>1, <2>3
<1> QED
  BY <1>1, <1>3, <1>5, <1>6, <1>8

\* A new node is in no scope, works in no session and has written nothing.
LEMMA ClonesFacts ==
    ASSUME TypeOK, CallInv, NEW m, NEW fields, NEW s \in SUBSET Node, Clones(m, fields, s)
    PROVE  /\ m \in Node /\ m \notin born /\ m \notin wrote /\ m \notin durable /\ ~Used(m)
           /\ \A x \in Node : m \notin scope[x] /\ scope[x] \subseteq born
           /\ scope'[m] = s /\ \A x \in Node \ {m} : scope'[x] = scope[x]
           /\ node'[m] = fields /\ \A x \in Node \ {m} : node'[x] = node[x]
           /\ born' = born \cup {m} /\ wrote' = wrote
<1>1. m \in Node /\ m \notin born /\ ~Used(m)
  BY DEF Clones, CallInv, NodesInv, Fresh
<1>2. \A x \in Node : scope[x] \subseteq born
  BY DEF CallInv, NodesInv, Within
<1> QED
  BY <1>1, <1>2 DEF Clones, CallInv, NodesInv, Fresh, TypeOK, NodeTypeOK

\* The scope of a new node.
LEMMA ClonesWithin ==
    ASSUME TypeOK, CallInv, NEW m, NEW fields, NEW n \in born, NEW s,
           s \in {{m}, {m} \cup scope[n]},
           Clones(m, fields, s), \A u \in Node \ {m} : Used(u)' <=> Used(u),
           s # {m} => ~Used(m)'
    PROVE  \A x \in Node : Within(x)'
<1>0. n \in Node /\ scope[n] \subseteq Node /\ m \in Node
  BY DEF Clones, TypeOK, NodeTypeOK
<1>1. s \in SUBSET Node
  BY <1>0
<1>2. /\ m \notin born /\ ~Used(m)
      /\ \A x \in Node : m \notin scope[x] /\ scope[x] \subseteq born /\ Within(x)
      /\ scope'[m] = s /\ \A x \in Node \ {m} : scope'[x] = scope[x]
      /\ born' = born \cup {m} /\ born \subseteq Node
  BY <1>1, ClonesFacts DEF CallInv, NodesInv, TypeOK, NodeTypeOK
<1>3. ASSUME NEW x \in Node, x # m
      PROVE  Within(x)'
  <2>1. scope'[x] = scope[x] /\ Within(x) /\ scope[x] \subseteq Node \ {m}
    BY <1>2, <1>3
  <2>2. \A y \in scope[x] : scope'[y] = scope[y] /\ (Used(y)' <=> Used(y))
    BY <1>2, <2>1
  <2> QED
    BY <1>2, <2>1, <2>2 DEF Within
<1>4. Within(m)'
  <2>1. CASE s = {m}
    BY <1>2, <2>1 DEF Within
  <2>2. CASE s # {m}
    <3>1. s = {m} \cup scope[n] /\ scope'[n] = scope[n] /\ Within(n) /\ ~Used(m)'
      BY <1>0, <1>2, <2>2
    <3>2. \A y \in scope[n] : scope'[y] = scope[y] /\ (Used(y)' <=> Used(y)) /\ y # m
      BY <1>0, <1>2
    <3>3. scope'[m] \subseteq born'
      BY <1>0, <1>2, <3>1
    <3>4. \A y \in scope'[m] : scope'[y] \subseteq scope'[m]
      BY <1>2, <3>1, <3>2 DEF Within
    <3>5. \A y, z \in scope'[m] : Used(y)' /\ Used(z)' => y = z
      BY <1>2, <3>1, <3>2 DEF Within
    <3> QED
      BY <3>3, <3>4, <3>5 DEF Within
  <2> QED
    BY <2>1, <2>2
<1> QED
  BY <1>3, <1>4

LEMMA ClonesStep ==
    ASSUME TypeOK, CallInv, NEW n \in born, NEW m, NEW fields, NEW s,
           s \in {{m}, {m} \cup scope[n]}, Clones(m, fields, s),
           \A u \in Node \ {m} : /\ Used(u)' <=> Used(u)
                                 /\ session[u].state = "done" => session'[u].state = "done",
           s # {m} => ~Used(m)', durable' = durable, Placed(m)'
    PROVE  Evolves /\ NodesInv'
<1>1. n \in Node /\ s \in SUBSET Node
  BY DEF Clones, TypeOK, NodeTypeOK
<1>2. /\ m \in Node /\ m \notin born /\ m \notin wrote /\ m \notin durable /\ ~Used(m)
      /\ \A x \in Node : m \notin scope[x]
      /\ \A x \in Node \ {m} : scope'[x] = scope[x]
      /\ \A x \in Node \ {m} : node'[x] = node[x]
      /\ born' = born \cup {m} /\ wrote' = wrote /\ born \subseteq Node
  BY <1>1, ClonesFacts DEF TypeOK, NodeTypeOK
<1>3. Evolves
  BY <1>2 DEF Evolves
<1>4. \A x \in Node : Within(x)'
  BY ClonesWithin
<1>5. ASSUME NEW x \in Node, x # m
      PROVE  Placed(x)'
  <2>1. Placed(x) /\ node'[x] = node[x] /\ scope'[x] = scope[x]
    BY <1>2, <1>5 DEF CallInv, NodesInv
  <2>2. InTx(x) => node[x].tx \in Node \ {m}
    BY <1>2, <2>1, Working
  <2>3. \A y \in born : scope'[y] = scope[y] /\ y \in born'
    BY <1>2
  <2> QED
    BY <2>1, <2>2, <2>3 DEF Placed, InTx
<1>6. Fresh'
  BY <1>2 DEF CallInv, NodesInv, Fresh
<1> QED
  BY <1>3, <1>4, <1>5, <1>6 DEF NodesInv

LEMMA OpensStep ==
    ASSUME TypeOK, CallInv, NEW n, NEW m, Opens(n, m)
    PROVE  Step /\ durable' = durable
<1>1. /\ n \in born /\ n \in Node /\ m \in Node /\ DbTypeOK /\ Begin(m) /\ Placed(n)
      /\ Clones(m, [node[n] EXCEPT !.tx = m], {m})
  BY DEF Opens, Clones, CallInv, NodesInv, TypeOK, NodeTypeOK
<1>2. /\ m \notin born /\ ~Used(m)
      /\ \A x \in Node : m \notin scope[x]
      /\ scope'[m] = {m} /\ \A x \in Node \ {m} : scope'[x] = scope[x]
      /\ node'[m] = [node[n] EXCEPT !.tx = m]
      /\ born' = born \cup {m} /\ wrote' = wrote /\ born \subseteq Node
  <2>1. {m} \in SUBSET Node
    BY <1>1
  <2> QED
    BY <1>1, <2>1, ClonesFacts DEF TypeOK, NodeTypeOK
<1>3. /\ Size(m)' = 1 /\ Sp(m, 1)' = None /\ Wr(m, 1)' = {} /\ durable' = durable
      /\ session'[m].state = "open"
      /\ \A u \in Node \ {m} : session'[u] = session[u]
  BY <1>1, BeginStack, BeginHoldsOne
<1>4. Placed(m)'
  <2>1. node[n] \in NodeFields
    BY <1>1 DEF TypeOK, NodeTypeOK
  <2>2. /\ node'[m].tx = m /\ node'[m].savePointEnabled
        /\ node'[m].nested <=> node'[m].savePointID # None
        /\ node'[m].savePointID \in born \cup {None}
    BY <1>1, <1>2, <2>1 DEF NodeFields, Placed
  <2>3. Used(m)'
    BY <1>3 DEF Used
  <2>4. \A x \in born : m \notin scope'[x]
    BY <1>2
  <2> QED
    BY <1>2, <2>2, <2>3, <2>4, NoneAssumption DEF Placed
<1>5. Evolves /\ NodesInv'
  <2>1. \A u \in Node \ {m} : /\ Used(u)' <=> Used(u)
                              /\ session[u].state = "done" => session'[u].state = "done"
    BY <1>3 DEF Used
  <2> QED
    BY <1>1, <1>3, <1>4, <2>1, ClonesStep
<1>6. ASSUME NEW u \in Node
      PROVE  (Used(u)' => StackOK(u)') /\ Shrinks(u)
  <2>1. CASE u = m
    <3>1. \A j \in 1..1 : j = 1
      OBVIOUS
    <3>2. \A j \in 2..1 : FALSE
      OBVIOUS
    <3> QED
      BY <1>3, <2>1, <3>1, <3>2 DEF StackOK, Shrinks
  <2>2. CASE u # m /\ Used(u)
    BY <1>3, <1>5, <2>2, OtherKeeps
  <2>3. CASE u # m /\ ~Used(u)
    BY <1>3, <2>3, IdleShrinks DEF Used
  <2> QED
    BY <2>1, <2>2, <2>3
<1> QED
  BY <1>3, <1>5, <1>6 DEF Step, StacksInv

LEMMA NestsStep ==
    ASSUME TypeOK, CallInv, NEW n, NEW m, Nests(n, m)
    PROVE  Step /\ durable' = durable
<1>1. PICK t \in Node :
          /\ n \in born /\ n \in Node /\ m \in Node /\ DbTypeOK /\ Placed(n) /\ InTx(n)
          /\ t = node[n].tx /\ Used(t) /\ StackOK(t) /\ t \in scope[n] /\ t \in born
          /\ Savepoint(t, m)
          /\ Clones(m, [node[n] EXCEPT !.nested = TRUE, !.savePointID = m], {m} \cup scope[n])
  <2>1. n \in Node /\ n \in born /\ InTx(n)
    BY DEF Nests, TypeOK, NodeTypeOK
  <2> QED
    BY <2>1, Working DEF Nests, Clones, CallInv, NodesInv
<1>2. /\ m \notin born /\ ~Used(m)
      /\ \A x \in Node : m \notin scope[x]
      /\ scope'[m] = {m} \cup scope[n] /\ \A x \in Node \ {m} : scope'[x] = scope[x]
      /\ node'[m] = [node[n] EXCEPT !.nested = TRUE, !.savePointID = m]
      /\ born' = born \cup {m} /\ wrote' = wrote /\ born \subseteq Node
  <2>1. {m} \cup scope[n] \in SUBSET Node
    BY <1>1 DEF TypeOK
  <2> QED
    BY <1>1, <2>1, ClonesFacts DEF TypeOK, NodeTypeOK
<1>3. PICK top \in Nat \ {0} : top = Size(t) + 1 /\ Size(t) \in Nat /\ Size(t) \in 1..Size(t)
  BY <1>1, LayerFacts DEF StackOK
<1>4. /\ session[t].state = "open" /\ session'[t].state = "open" /\ durable' = durable
      /\ \A u \in Node \ {t} : session'[u] = session[u]
      /\ Size(t)' = top /\ Sp(t, top)' = m /\ Wr(t, top)' = {}
      /\ \A j \in 1..Size(t) : Sp(t, j)' = Sp(t, j) /\ Wr(t, j)' = Wr(t, j)
  BY <1>1, <1>3, SavepointOnTop
<1>5. \A u \in Node : /\ Used(u)' <=> Used(u)
                      /\ session[u].state = "done" => session'[u].state = "done"
  BY <1>4 DEF Used
<1>6. Placed(m)'
  <2>1. node[n] \in NodeFields
    BY <1>1 DEF TypeOK, NodeTypeOK
  <2>2. /\ node'[m].tx = t /\ node'[m].savePointEnabled
        /\ node'[m].nested /\ node'[m].savePointID = m
    BY <1>1, <1>2, <2>1 DEF NodeFields, Placed
  <2>3. Used(t)' /\ t \in scope'[m] /\ m \in born' /\ m # None
    BY <1>1, <1>2, <1>5, NoneAssumption
  <2> QED
    BY <2>2, <2>3 DEF Placed
<1>7. Evolves /\ NodesInv'
  BY <1>1, <1>2, <1>4, <1>5, <1>6, ClonesStep
<1>8. \A j \in 1..top : j = top \/ j \in 1..Size(t)
  BY <1>3
<1>9. 1 \in 1..top /\ Sp(t, 1)' = None
  <2>1. 1 \in 1..Size(t) /\ Sp(t, 1) = None
    BY <1>1 DEF StackOK
  <2> QED
    BY <1>3, <1>4, <2>1
<1>10. ASSUME NEW j \in 2..top
       PROVE  Sp(t, j)' \in born' /\ t \in scope'[Sp(t, j)']
  <2>1. CASE j = top
    BY <1>1, <1>2, <1>4, <2>1
  <2>2. CASE j # top
    <3>1. j \in 2..Size(t) /\ j \in 1..Size(t)
      BY <1>3, <2>2
    <3>2. Sp(t, j) \in born /\ t \in scope[Sp(t, j)] /\ Sp(t, j)' = Sp(t, j)
      BY <1>1, <1>4, <3>1 DEF StackOK
    <3> QED
      BY <1>2, <3>2
  <2> QED
    BY <2>1, <2>2
<1>11. ASSUME NEW j \in 1..top, NEW w \in Wr(t, j)'
       PROVE  WriteOK(t, j, w)' /\ j \in 1..Size(t) /\ w \in Wr(t, j)
  <2>1. j \in 1..Size(t) /\ w \in Wr(t, j)
    BY <1>4, <1>8, <1>11
  <2>2. WriteOK(t, j, w) /\ w \in born /\ w \in Node /\ scope'[w] = scope[w] /\ m \notin scope[w]
    BY <1>1, <1>2, <2>1 DEF StackOK, WriteOK, CallInv, NodesInv, Fresh
  <2>3. \A a \in 1..top : Sp(t, a)' \in scope'[w] => a <= j
    BY <1>4, <1>8, <2>2 DEF WriteOK
  <2> QED
    BY <1>2, <2>1, <2>2, <2>3, <1>4 DEF WriteOK
<1>12. StackOK(t)' /\ Shrinks(t)
  BY <1>4, <1>9, <1>10, <1>11 DEF StackOK, Shrinks, Live
<1>13. ASSUME NEW u \in Node
       PROVE  (Used(u)' => StackOK(u)') /\ Shrinks(u)
  <2>1. CASE u = t
    BY <1>12, <2>1
  <2>2. CASE u # t /\ Used(u)
    BY <1>4, <1>7, <2>2, OtherKeeps
  <2>3. CASE u # t /\ ~Used(u)
    BY <1>5, <2>3, IdleShrinks
  <2> QED
    BY <2>1, <2>2, <2>3
<1> QED
  BY <1>4, <1>7, <1>13 DEF Step, StacksInv

------------------------------------------------------------------------------
\* What was saved stays so, and what a Rollback covered stays gone.
LEMMA SavedKeeps ==
    ASSUME TypeOK, CallInv, Step, NEW w \in durable
    PROVE  Saved(w)'
<1>1. Saved(w) /\ w \in born /\ scope[w] \subseteq born /\ w \in Node
  BY DEF CallInv, WritesInv, NodesInv, Fresh, Within, TypeOK, DbTypeOK
<1>2. CASE w \in wrote
  BY <1>1, <1>2 DEF Saved, Step, Evolves
<1>3. CASE w \notin wrote
  BY <1>1, <1>3 DEF Saved, Step, Evolves, InTx
<1> QED
  BY <1>2, <1>3

LEMMA GoneKeeps ==
    ASSUME TypeOK, CallInv, Step, NEW w \in undone, w \notin durable'
    PROVE  Gone(w)'
<1>1. Gone(w)
  BY DEF CallInv, WritesInv
<1> QED
  BY <1>1 DEF Gone, Step, Evolves, Shrinks

\* A pending write belongs to its session only.
LEMMA OneSession ==
    ASSUME TypeOK, CallInv, NEW n \in Node, InTx(n), NEW w \in Node,
           n \in scope[w], NEW u \in scope[w], Used(u)
    PROVE  u = node[n].tx
BY Working DEF CallInv, NodesInv, Within

\* The writes that a Rollback of n covers are not durable, and those that lie on a
\* stack lie on the one of n.
LEMMA CoveredFacts ==
    ASSUME TypeOK, CallInv, NEW n \in Node, InTx(n), Live(node[n].tx), NEW w \in Covered(n)
    PROVE  /\ w \in wrote /\ w \notin durable
           /\ \A u \in Node : \A j \in 1..Size(u) : w \in Wr(u, j) /\ Used(u) => u = node[n].tx
<1>1. w \in wrote /\ w \in Node /\ n \in scope[w]
  BY DEF Covered, TypeOK
<1>2. node[n].tx \in scope[w] /\ Used(node[n].tx)
  BY <1>1, Working DEF CallInv, NodesInv, Within
<1>3. w \notin durable
  BY <1>1, <1>2 DEF CallInv, WritesInv, Saved, Live
<1>4. ASSUME NEW u \in Node, NEW j \in 1..Size(u), w \in Wr(u, j), Used(u)
      PROVE  u = node[n].tx
  <2>1. u \in scope[w]
    BY <1>4 DEF CallInv, StacksInv, StackOK, WriteOK
  <2> QED
    BY <1>1, <1>4, <2>1, OneSession
<1> QED
  BY <1>1, <1>3, <1>4

\* What a COMMIT saves was written in its session, and in no other.
LEMMA PendingFacts ==
    ASSUME TypeOK, CallInv, NEW t \in Node, Used(t), NEW w \in Pending(t)
    PROVE  /\ w \in wrote /\ w \in born /\ w \in Node
           /\ \A u \in scope[w] : Used(u) => u = t
           /\ \E j \in 1..Size(t) : w \in Wr(t, j)
<1>1. PICK j \in 1..Size(t) : w \in Wr(t, j)
  BY LayerFacts DEF TypeOK, Pending, Wr
<1>2. WriteOK(t, j, w) /\ w \in Node
  BY <1>1 DEF CallInv, StacksInv, StackOK, WriteOK, TypeOK
<1> QED
  BY <1>1, <1>2 DEF WriteOK, CallInv, NodesInv, Fresh, Within

LEMMA CoveredGone ==
    ASSUME TypeOK, CallInv, Step, NEW n \in Node, InTx(n), NEW t, t = node[n].tx, Live(t),
           durable' = durable, NEW w \in Covered(n),
           Live(t)' => \A j \in 1..(Size(t)') : w \notin Wr(t, j)'
    PROVE  Gone(w)'
<1>1. w \in wrote /\ w \notin durable /\ w \in wrote'
  BY CoveredFacts DEF Step, Evolves
<1>2. ASSUME NEW u \in Node, Live(u)', NEW j \in 1..(Size(u)'), w \in Wr(u, j)'
      PROVE  FALSE
  <2>1. PICK i \in 1..Size(u) : w \in Wr(u, i) /\ Live(u)
    BY <1>1, <1>2 DEF Step, Shrinks
  <2>2. u = t
    BY <2>1, CoveredFacts DEF Live, Used
  <2> QED
    BY <1>2, <2>2
<1> QED
  BY <1>1, <1>2 DEF Gone

\* The invariant of callers in any order.
LEMMA CallStep ==
    ASSUME ~Toggle, TypeOK, CallInv, [Next]_vars
    PROVE  CallInv'
<1> DEFINE Goal == CallInv'
<1>1. CASE UNCHANGED vars
  BY <1>1 DEF vars, nodeVars, dbVars, history, CallInv, NodesInv, Fresh, Placed, InTx, Within,
              StacksInv, StackOK, WriteOK, WritesInv, Saved, Gone, Used, Live, Size, Sp, Wr
<1>2. ASSUME Step, durable' \subseteq durable, undone' \subseteq undone
      PROVE  Goal
  BY <1>2, SavedKeeps, GoneKeeps DEF CallInv, WritesInv, Step, Gone
<1>3. ASSUME NEW n \in Node, NEW m \in Node, Opens(n, m) \/ Nests(n, m)
      PROVE  Goal
  <2>1. undone' = undone
    BY <1>3 DEF Opens, Nests, Clones
  <2> QED
    BY <1>2, <1>3, <2>1, OpensStep, NestsStep
<1>4. ASSUME NEW n \in Node, Writes(n) \/ Releases(n)
      PROVE  Goal
  <2>1. undone' = undone
    BY <1>4 DEF Writes, Releases
  <2> QED
    BY <1>2, <1>4, <2>1, WritesStep, ReleasesStep
<1>5. ASSUME NEW n \in Node, Rests(n)
      PROVE  Goal
  <2>1. durable' = durable /\ undone' = undone /\ durable' \subseteq born
    BY <1>5 DEF Rests, CallInv, NodesInv, Fresh
  <2> QED
    BY <1>2, <1>5, <2>1, CalmStep DEF Rests
<1>6. ASSUME NEW n \in Node, WritesAlone(n)
      PROVE  Goal
  <2>1. /\ durable' = durable \cup {n} /\ undone' = undone /\ n \in born /\ Calm(n)
        /\ n \notin wrote /\ n \notin wrote' /\ ~InTx(n)
    BY <1>6 DEF WritesAlone, Calm, Stays
  <2>2. Step
    <3>1. durable' \subseteq born
      BY <2>1 DEF CallInv, NodesInv, Fresh
    <3> QED
      BY <2>1, <3>1, CalmStep
  <2>3. Saved(n)'
    BY <2>1, <2>2 DEF Saved, Step, Evolves, InTx
  <2>4. ASSUME NEW w \in undone
        PROVE  Gone(w)'
    <3>1. w \notin durable'
      BY <2>1 DEF CallInv, WritesInv, Gone
    <3> QED
      BY <2>2, <3>1, GoneKeeps
  <2>5. \A w \in durable' : Saved(w)'
    BY <2>1, <2>2, <2>3, SavedKeeps
  <2> QED
    BY <2>1, <2>2, <2>4, <2>5 DEF CallInv, WritesInv, Step
<1>7. ASSUME NEW n \in Node, Saves(n)
      PROVE  Goal
  <2>1. PICK t \in Node : t = node[n].tx /\ Used(t)
    BY <1>7, Working DEF Saves
  <2>2. /\ Calm(n) /\ session[t].state = "open" /\ session'[t].state = "done"
        /\ durable' = durable \cup Pending(t) /\ undone' = undone
    BY <1>7, <2>1 DEF Saves
  <2>3. Step
    <3>1. durable' \subseteq born
      BY <2>1, <2>2, PendingFacts DEF CallInv, NodesInv, Fresh
    <3> QED
      BY <2>2, <3>1, CalmStep
  <2>4. ASSUME NEW w \in Pending(t)
        PROVE  Saved(w)'
    <3>1. /\ w \in wrote /\ w \in born /\ \A u \in scope[w] : Used(u) => u = t
      BY <2>1, PendingFacts
    <3>2. scope[w] \subseteq born /\ w \in Node
      BY <2>1, PendingFacts DEF CallInv, NodesInv, Within
    <3> QED
      BY <2>2, <2>3, <3>1, <3>2 DEF Step, Evolves, Saved
  <2>5. ASSUME NEW w \in undone
        PROVE  Gone(w)'
    <3>1. w \notin durable /\ \A j \in 1..Size(t) : w \notin Wr(t, j)
      BY <2>1, <2>2 DEF CallInv, WritesInv, Gone, Live
    <3>2. w \notin durable'
      BY <2>1, <2>2, <3>1, PendingFacts
    <3> QED
      BY <2>3, <3>2, GoneKeeps
  <2>6. \A w \in durable' : Saved(w)'
    BY <2>2, <2>3, <2>4, SavedKeeps
  <2> QED
    BY <2>2, <2>3, <2>5, <2>6 DEF CallInv, WritesInv, Step
<1>8. ASSUME NEW n \in Node, RollsTo(n) \/ RollsBack(n)
      PROVE  Goal
  <2>1. PICK t \in Node : t = node[n].tx /\ Used(t)
    BY <1>8, Working DEF RollsTo, RollsBack
  <2>2. InTx(n) /\ undone' = undone \cup Covered(n)
    BY <1>8 DEF RollsTo, RollsBack
  <2>3. /\ Step /\ durable' = durable /\ Live(t)
        /\ \A w \in Covered(n) : Live(t)' => \A j \in 1..(Size(t)') : w \notin Wr(t, j)'
    <3>1. CASE RollsTo(n)
      BY <2>1, <3>1, RollsToStep DEF Covered
    <3>2. CASE RollsBack(n)
      <4>1. durable' = durable /\ durable' \subseteq born /\ Live(t) /\ ~Live(t)' /\ Calm(n)
        BY <2>1, <3>2 DEF RollsBack, Live, CallInv, NodesInv, Fresh
      <4> QED
        BY <4>1, CalmStep
    <3> QED
      BY <1>8, <3>1, <3>2
  <2>4. ASSUME NEW w \in undone'
        PROVE  Gone(w)'
    <3>1. CASE w \in Covered(n)
      BY <2>1, <2>2, <2>3, <3>1, CoveredGone
    <3>2. CASE w \in undone
      BY <2>3, <3>2, GoneKeeps DEF CallInv, WritesInv, Gone
    <3> QED
      BY <2>2, <3>1, <3>2
  <2> QED
    BY <2>3, <2>4, SavedKeeps DEF CallInv, WritesInv, Step
<1> HIDE DEF Goal
<1>9. ASSUME Next
      PROVE  Goal
  <2>1. Kinds
    BY <1>9, StepKinds
  <2>2. PICK n \in Node : \/ \E m \in Node : Opens(n, m) \/ Nests(n, m)
                          \/ Writes(n) \/ Releases(n) \/ RollsTo(n)
                          \/ Rests(n) \/ WritesAlone(n) \/ Saves(n) \/ RollsBack(n)
    BY <2>1 DEF Kinds
  <2>3. CASE \E m \in Node : Opens(n, m) \/ Nests(n, m)
    BY <1>3, <2>3
  <2> QED
    BY <1>4, <1>5, <1>6, <1>7, <1>8, <2>2, <2>3
<1> QED
  BY <1>1, <1>9 DEF Goal

LEMMA InitCalls == ASSUME Savepoints PROVE Init => CallInv
<1> SUFFICES ASSUME Init
             PROVE  CallInv
  OBVIOUS
<1>1. /\ \A n \in Node : node[n] = [tx |-> None, savePointID |-> None,
                                    savePointEnabled |-> Savepoints, nested |-> FALSE]
      /\ \A n \in Node : ~Used(n) /\ scope[n] = {}
      /\ wrote = {} /\ durable = {} /\ undone = {}
  BY DEF Init, NodeInit, DbInit, Used
<1> QED
  BY <1>1 DEF CallInv, NodesInv, Fresh, Placed, InTx, Within, StacksInv, WritesInv

\* "Rollback rollbacks the associated transaction" (node.go:84): with savepoints,
\* the writes made through a node whose Rollback returned nil, or through the
\* nodes begun below it, are never durable, whatever siblings and parents do,
\* in whatever order, on nodes that have ended as well.
THEOREM RolledBackStaysGone ==
    ASSUME Savepoints, ~Toggle
    PROVE  Spec => []RolledBackIsGone
<1>1. TypeOK /\ Ownership /\ CallInv /\ [Next]_vars => (TypeOK /\ Ownership /\ CallInv)'
  BY CallStep, OwnershipStep, HistoryStep DEF TypeOK, HistoryTypeOK
<1>2. CallInv => RolledBackIsGone
  BY DEF CallInv, WritesInv, Gone, RolledBackIsGone
<1> QED
  BY <1>1, <1>2, InitOwnership, InitCalls, PTL DEF Spec

\* A Rollback of a node with a savepoint that returns nil takes every write of its
\* scope from the transaction's stack at once, also those that nested nodes made
\* and committed.
THEOREM RollbackAlwaysDrops ==
    ASSUME Savepoints, ~Toggle
    PROVE  Spec => RollbackDropsWrites
<1> DEFINE Drops == \A n \in born, t \in Node :
               /\ node[n].tx = t /\ node[n].savePointID # None
               /\ ended[n] = "no" /\ ended'[n] = "rollback"
               => \A w \in Pending(t)' : n \notin scope[w]
<1>1. TypeOK /\ Ownership /\ CallInv /\ [Next]_vars => (TypeOK /\ Ownership /\ CallInv)'
  BY CallStep, OwnershipStep, HistoryStep DEF TypeOK, HistoryTypeOK
<1>2. TypeOK /\ TypeOK' /\ CallInv /\ [Next]_vars => [Drops]_vars
  <2> SUFFICES ASSUME TypeOK, TypeOK', CallInv, Next, NEW n \in born, NEW t \in Node,
                      node[n].tx = t, node[n].savePointID # None,
                      ended[n] = "no", ended'[n] = "rollback", NEW w \in Pending(t)'
               PROVE  n \notin scope[w]
    OBVIOUS
  <2>1. n \in Node
    BY DEF TypeOK, NodeTypeOK
  <2>2. PICK ok \in BOOLEAN : DoRollback(n, ok)
    <3>1. ASSUME NEW x \in Node, NEW m \in Node, NEW ok \in BOOLEAN, DoBegin(x, m, ok)
          PROVE  FALSE
      BY <3>1 DEF DoBegin
    <3>2. ASSUME NEW x \in Node, NEW ok \in BOOLEAN, DoExec(x, ok) \/ DoCommit(x, ok)
          PROVE  FALSE
      BY <2>1, <3>2 DEF DoExec, DoCommit, TypeOK
    <3>3. ASSUME NEW x \in Node, DoClose(x) \/ Cancel(x)
          PROVE  FALSE
      BY <3>3 DEF DoClose, Cancel, history
    <3>4. ASSUME NEW x \in Node, NEW ok \in BOOLEAN, DoRollback(x, ok)
          PROVE  x = n
      BY <2>1, <3>4 DEF DoRollback, TypeOK
    <3> QED
      BY <3>1, <3>2, <3>3, <3>4 DEF Next, DoToggle
  <2>3. RollsTo(n)
    BY <2>1, <2>2, RollbackKinds DEF RollsBack
  <2>4. \A j \in 1..(Size(t)') : \A x \in Wr(t, j)' : n \notin scope[x]
    BY <2>1, <2>3, RollsToStep
  <2>5. PICK j \in 1..(Size(t)') : w \in Wr(t, j)'
    <3>1. DOMAIN session'[t].layers = 1..Len(session'[t].layers)
      BY LenProperties DEF TypeOK, DbTypeOK, Session
    <3> QED
      BY <3>1 DEF Pending, Size, Wr
  <2> QED
    BY <2>4, <2>5
<1> QED
  BY <1>1, <1>2, InitOwnership, InitCalls, PTL DEF Spec, RollbackDropsWrites
=============================================================================
