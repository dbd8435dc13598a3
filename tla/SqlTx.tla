-------------------------------- MODULE SqlTx --------------------------------
(***************************************************************************)
(* What the connector relies on and does not implement: a database/sql     *)
(* pool over PostgreSQL (lib/pq).  Everything here is external to the      *)
(* repository and is modelled from the way node.go calls it.               *)
(*                                                                         *)
(* A sql.Tx is named after the node whose BeginTx opened it.  A session    *)
(* keeps a stack of layers: the first belongs to the transaction itself,   *)
(* each later one to a savepoint, and a layer holds the writes made since. *)
(* A write is named after the node that makes it.                          *)
(*                                                                         *)
(*   open     the server accepts statements                                *)
(*   aborted  a statement failed: only ROLLBACK and ROLLBACK TO work       *)
(*   lost     the connection broke; the sql.Tx does not know yet           *)
(*   done     the sql.Tx is finished, its connection is back in the pool   *)
(***************************************************************************)
EXTENDS Naturals, Sequences, FiniteSets

CONSTANTS Node,      \* every node that can ever exist, hence every sql.Tx
          None,      \* no transaction, no savepoint
          MaxOpen    \* sql.DB.SetMaxOpenConns

ASSUME NoneAssumption == None \notin Node
ASSUME MaxOpenAssumption == MaxOpen \in Nat \ {0}

VARIABLES session,   \* session[t]: the database side of the sql.Tx t
          durable    \* writes that survive the end of every session

dbVars == <<session, durable>>

Layer == [sp: Node \cup {None}, writes: SUBSET Node]
Session == [state: {"idle", "open", "aborted", "lost", "done"}, layers: Seq(Layer)]

DbTypeOK == /\ session \in [Node -> Session]
            /\ durable \in SUBSET Node

DbInit == /\ session = [t \in Node |-> [state |-> "idle", layers |-> <<>>]]
          /\ durable = {}

------------------------------------------------------------------------------
\* A session holds one pooled connection from BEGIN to the end of the sql.Tx.
Held(t) == session[t].state \in {"open", "aborted", "lost"}

FreeConn == Cardinality({t \in Node : Held(t)}) < MaxOpen

Pending(t) == UNION {session[t].layers[i].writes : i \in DOMAIN session[t].layers}

\* Edits of a stack s: a write into its last layer, the layers from i on merged
\* into the one below, the i-th layer emptied and those above it dropped.
AddToTop(s, w) == [s EXCEPT ![Len(s)].writes = @ \cup {w}]
MergeDown(s, i) == [SubSeq(s, 1, i - 1) EXCEPT
                       ![i - 1].writes = UNION {s[j].writes : j \in (i - 1)..Len(s)}]
ResetTo(s, i) == Append(SubSeq(s, 1, i - 1), [s[i] EXCEPT !.writes = {}])

\* The positions of the savepoint id on the stack of t.
At(t, id) == {i \in DOMAIN session[t].layers : session[t].layers[i].sp = id}

\* BEGIN: sql.DB.BeginTx waits for a free connection.
Begin(t) ==
    /\ session[t].state = "idle"
    /\ FreeConn
    /\ session' = [session EXCEPT ![t] =
           [state |-> "open", layers |-> <<[sp |-> None, writes |-> {}]>>]]
    /\ UNCHANGED durable

\* A statement that writes w inside the session t.
Write(t, w) ==
    /\ session[t].state = "open"
    /\ session' = [session EXCEPT ![t].layers = AddToTop(@, w)]
    /\ UNCHANGED durable

\* A statement that writes w outside of any transaction.
AutoCommit(w) ==
    /\ FreeConn
    /\ durable' = durable \cup {w}
    /\ UNCHANGED session

\* A statement returns an error: the server refuses it and aborts the
\* transaction, or the connection is lost, or there was nothing left to use.
Refuse(t) ==
    /\ \/ session' = [session EXCEPT ![t].state = IF @ = "open" THEN "aborted" ELSE @]
       \/ /\ Held(t)
          /\ session' = [session EXCEPT ![t].state = "lost"]
    /\ UNCHANGED durable

Savepoint(t, id) ==
    /\ session[t].state = "open"
    /\ session' = [session EXCEPT ![t].layers =
           Append(@, [sp |-> id, writes |-> {}])]
    /\ UNCHANGED durable

\* RELEASE SAVEPOINT id merges it, and every savepoint above it, into the
\* layer below.
Release(t, id) ==
    /\ session[t].state = "open"
    /\ \E i \in At(t, id) :
           session' = [session EXCEPT ![t].layers = MergeDown(@, i)]
    /\ UNCHANGED durable

\* ROLLBACK TO SAVEPOINT id empties it, drops the savepoints above it and
\* repairs an aborted transaction; the savepoint itself stays.
RollbackTo(t, id) ==
    /\ session[t].state \in {"open", "aborted"}
    /\ \E i \in At(t, id) :
           session' = [session EXCEPT ![t] =
               [state |-> "open", layers |-> ResetTo(@.layers, i)]]
    /\ UNCHANGED durable

\* sql.Tx.Commit returns nil.
CommitTx(t) ==
    /\ session[t].state = "open"
    /\ durable' = durable \cup Pending(t)
    /\ session' = [session EXCEPT ![t].state = "done"]

\* sql.Tx.Commit returns an error and is done all the same.  COMMIT of an
\* aborted transaction is a ROLLBACK; a connection that breaks during COMMIT
\* leaves the outcome unknown.
CommitTxFails(t) ==
    /\ session[t].state # "idle"
    /\ session' = [session EXCEPT ![t].state = "done"]
    /\ \/ UNCHANGED durable
       \/ session[t].state = "open" /\ durable' = durable \cup Pending(t)

RollbackTx(t) ==
    /\ session[t].state \in {"open", "aborted"}
    /\ session' = [session EXCEPT ![t].state = "done"]
    /\ UNCHANGED durable

\* sql.Tx.Rollback returns an error: the connection is lost or the sql.Tx was
\* already done.
RollbackTxFails(t) ==
    /\ session[t].state # "idle"
    /\ session' = [session EXCEPT ![t].state = "done"]
    /\ UNCHANGED durable

\* The context given to sql.DB.BeginTx is cancelled: the sql package rolls back.
ContextDone(t) ==
    /\ Held(t)
    /\ session' = [session EXCEPT ![t].state = "done"]
    /\ UNCHANGED durable
==============================================================================
