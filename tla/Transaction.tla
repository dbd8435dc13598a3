----------------------------- MODULE Transaction -----------------------------
(***************************************************************************)
(* transaction.go on top of client.go and node.go: goroutines that call    *)
(* makroud.Transaction, whose handlers write, call Transaction again on    *)
(* the driver they received, and return nil or an error.                   *)
(***************************************************************************)
EXTENDS Node

CONSTANTS Thread,     \* goroutines
          OuterUse,   \* handlers also use the drivers of enclosing scopes
          Panics      \* handlers panic

ASSUME OuterUseAssumption == OuterUse \in BOOLEAN
ASSUME PanicsAssumption == Panics \in BOOLEAN

VARIABLES frames,     \* the Transaction calls in progress, outermost first
          waiting,    \* the driver whose Begin a goroutine is in, or None
          outcome,    \* history: how the Transaction call that made m returned
          scope,      \* history: m and the enclosing transactions of m
          wrote       \* history: nodes that wrote (each writes at most once)

callVars == <<frames, waiting>>
history == <<outcome, scope, wrote>>
vars == <<nodeVars, dbVars, callVars, history>>

Frame == [driver: Node, tx: Node]

TypeOK == /\ NodeTypeOK
          /\ DbTypeOK
          /\ frames \in [Thread -> Seq(Frame)]
          /\ waiting \in [Thread -> Node \cup {None}]
          /\ outcome \in [Node -> {"none", "nil", "handlerError", "commitError", "panic"}]
          /\ scope \in [Node -> SUBSET Node]
          /\ wrote \in SUBSET Node

Init == /\ NodeInit
        /\ DbInit
        /\ frames = [p \in Thread |-> <<>>]
        /\ waiting = [p \in Thread |-> None]
        /\ outcome = [n \in Node |-> "none"]
        /\ scope = [n \in Node |-> {}]
        /\ wrote = {}

------------------------------------------------------------------------------
Depth(p) == Len(frames[p])
Top(p) == frames[p][Depth(p)]
Busy(p) == frames[p] # <<>> \/ waiting[p] # None
InHandler(p) == frames[p] # <<>> /\ waiting[p] = None

\* The drivers a goroutine has at hand: the one its innermost handler received
\* and, for OuterUse, those its closure captured.
Driver(p) == IF frames[p] = <<>> THEN {Pool}
             ELSE {Top(p).tx} \cup
                  (IF OuterUse THEN {frames[p][i].driver : i \in 1..Depth(p)} ELSE {})

\* Bound: as many Transaction calls as there are nodes to name their clones.
NodesLeft == Cardinality(Node \ born) > Cardinality({p \in Thread : waiting[p] # None})

\* Transaction, up to driver.Begin.
Call(p, d) ==
    /\ waiting[p] = None /\ NodesLeft
    /\ d \in Driver(p)
    /\ waiting' = [waiting EXCEPT ![p] = d]
    /\ UNCHANGED <<frames, nodeVars, dbVars, history>>

\* Client.Begin returns a client on the new node, and the handler starts.
Started(p, m) ==
    /\ waiting[p] # None
    /\ BeginTx(waiting[p], m, TRUE)
    /\ frames' = [frames EXCEPT ![p] = Append(@, [driver |-> waiting[p], tx |-> m])]
    /\ waiting' = [waiting EXCEPT ![p] = None]
    /\ scope' = [scope EXCEPT ![m] = {m} \cup scope[waiting[p]]]
    /\ UNCHANGED <<outcome, wrote>>

\* Client.Begin fails and Transaction returns its error; there is no clone (m
\* is only what BeginTx would have made).
NotStarted(p, m) ==
    /\ waiting[p] # None
    /\ BeginTx(waiting[p], m, FALSE)
    /\ waiting' = [waiting EXCEPT ![p] = None]
    /\ UNCHANGED <<frames, history>>

\* The handler runs a statement that writes.
HandlerWrites(p, d, ok) ==
    /\ InHandler(p) /\ d \in Driver(p) \ wrote
    /\ Exec(d, ok)
    /\ wrote' = IF ok THEN wrote \cup {d} ELSE wrote
    /\ UNCHANGED <<callVars, outcome, scope>>

\* The innermost call returns, to the enclosing handler or to the goroutine.
Return(p, result) ==
    /\ frames' = [frames EXCEPT ![p] = SubSeq(@, 1, Depth(p) - 1)]
    /\ outcome' = [outcome EXCEPT ![Top(p).tx] = result]
    /\ UNCHANGED <<waiting, scope, wrote>>

\* Mutants: a handler that fails is committed, or nothing is called at all.
HandlerFails_Commits(p, ok) ==
    /\ InHandler(p)
    /\ Commit(Top(p).tx, ok)
    /\ Return(p, "handlerError")

HandlerFails_NoRollback(p, ok) ==
    /\ InHandler(p) /\ ok
    /\ Return(p, "handlerError")
    /\ UNCHANGED <<nodeVars, dbVars>>

\* The handler returns an error: tx.Rollback(), whose own error is dropped, but for
\* the observer of the driver given to Transaction, if it has one.
HandlerFails(p, ok) ==
    /\ InHandler(p)
    /\ Rollback(Top(p).tx, ok)
    /\ Return(p, "handlerError")

\* Mutant: the error of Commit is dropped.
HandlerSucceeds_DropsError(p, ok) ==
    /\ InHandler(p)
    /\ Commit(Top(p).tx, ok)
    /\ Return(p, "nil")

\* The handler returns nil: tx.Commit(), whose error is returned.
HandlerSucceeds(p, ok) ==
    /\ InHandler(p)
    /\ Commit(Top(p).tx, ok)
    /\ Return(p, IF ok THEN "nil" ELSE "commitError")

\* The handler panics: Transaction defers nothing, so neither Rollback nor Commit
\* is called.  The enclosing handler recovers, or the panic goes on through it.
HandlerPanics(p) ==
    /\ Panics /\ InHandler(p)
    /\ Return(p, "panic")
    /\ UNCHANGED <<nodeVars, dbVars>>

\* The context of an outermost transaction is cancelled.
Cancel(t) ==
    /\ ContextDone(t)
    /\ UNCHANGED <<nodeVars, callVars, history>>

Next == \/ \E p \in Thread :
             \/ \E d \in Node : Call(p, d)
             \/ \E m \in Node : Started(p, m) \/ NotStarted(p, m)
             \/ \E ok \in BOOLEAN :
                    \/ \E d \in Node : HandlerWrites(p, d, ok)
                    \/ HandlerFails(p, ok)
                    \/ HandlerSucceeds(p, ok)
             \/ HandlerPanics(p)
        \/ \E t \in Node : Cancel(t)

Spec == Init /\ [][Next]_vars

\* A statement returns, with or without an error; a Begin on the pool returns once
\* database/sql has a free connection for it.  A handler makes finitely many calls:
\* one that gets control back again and again returns.  Nothing else is fair: no
\* context needs to be cancelled, no statement needs to fail.
BeginReturns(p) ==
    /\ waiting[p] # None
    /\ \E m \in Node : \/ Started(p, m)
                      \/ /\ InTx(waiting[p])
                         /\ NotStarted(p, m)
HandlerReturns(p) == \E ok \in BOOLEAN : HandlerFails(p, ok) \/ HandlerSucceeds(p, ok)

Fairness == \A p \in Thread : WF_vars(BeginReturns(p)) /\ SF_vars(HandlerReturns(p))

FairSpec == Spec /\ Fairness

------------------------------------------------------------------------------
\* The outermost transaction of n.
Owner(n) == CHOOSE r \in scope[n] : session[r].state # "idle"

\* The writes of r's session whose nested transactions all returned nil.
Kept(r) == {w \in wrote : /\ r \in scope[w] /\ Owner(w) = r
                          /\ \A m \in scope[w] \ {r} : outcome[m] = "nil"}

\* "If this function returns an error, the transaction rollbacks automatically"
\* (README.md:598): a write is durable only if its own Transaction call and the
\* enclosing ones returned nil; only an error of the last COMMIT leaves doubt, and
\* only a nested handler whose panic was recovered leaves its writes behind.
\* Rollback errors are dropped and handlers may swallow the errors of nested
\* calls, so this rests on what PostgreSQL refuses afterwards.
FailedIsGone ==
    \A w \in durable \cap wrote : \A m \in scope[w] :
        \/ outcome[m] = "nil"
        \/ outcome[m] = "commitError" /\ m = Owner(w)
        \/ outcome[m] = "panic" /\ m # Owner(w)

\* "Otherwise, the transaction will be committed" (README.md:599), as a "single,
\* all-or-nothing operation" (README.md:595): when the outermost call returned
\* nil everything it kept is durable, and when its COMMIT failed, all or none.
AllOrNothing ==
    \A r \in Node : session[r].state # "idle" =>
        /\ outcome[r] = "nil" => Kept(r) \subseteq durable
        /\ outcome[r] = "commitError" => Kept(r) \subseteq durable \/ Kept(r) \cap durable = {}

\* Where the layers of the i-th call of p begin on the stack of its session.
\* ROLLBACK TO keeps the savepoint, so calls that failed leave layers behind.
SessionOf(p) == session[frames[p][1].tx]
Base(p, i) == IF i = 1 THEN 1
              ELSE CHOOSE j \in At(frames[p][1].tx, frames[p][i].tx) : TRUE
Span(p, i) == Base(p, i)..(IF i = Depth(p) THEN Len(SessionOf(p).layers) ELSE Base(p, i + 1) - 1)

\* While a session accepts statements, the calls in progress on it own savepoints
\* in the order of the calls, and whatever else is on its stack was left by calls
\* that failed or panicked: a savepoint released too early, or one left by a call that is
\* still to be undone, would send the next writes to the wrong transaction.
StackMatchesCalls ==
    \A p \in Thread : InHandler(p) /\ SessionOf(p).state = "open" =>
        /\ \A i \in 2..Depth(p) : At(frames[p][1].tx, frames[p][i].tx) # {}
        /\ \A i \in 1..Depth(p) : Span(p, i) # {}
        /\ \A i \in 1..Depth(p) : \A j \in Span(p, i) \ {Base(p, i)} :
               outcome[SessionOf(p).layers[j].sp] \in {"handlerError", "panic"}

\* A connection is in use only during the Transaction call that took it, unless
\* that call panicked.
ConnectionsReturned ==
    \A t \in Node : Held(t) /\ outcome[t] # "panic" =>
        \E p \in Thread : \E i \in DOMAIN frames[p] : frames[p][i].tx = t

\* Every Transaction call returns, although the pool is smaller than the number
\* of goroutines that begin.
EveryCallReturns == \A p \in Thread : Busy(p) ~> ~Busy(p)

\* The connector implements nested all-or-nothing scopes: the writes of a scope
\* are those its layers hold, less the ones of calls that have failed.
Failed == {n \in Node : outcome[n] \in {"handlerError", "commitError"}}

Abstract == INSTANCE NestedTx WITH
    Item <- Node,
    saved <- durable,
    scopes <- [p \in Thread |-> [i \in DOMAIN frames[p] |->
                  {w \in UNION {SessionOf(p).layers[j].writes : j \in Span(p, i)} :
                       scope[w] \cap Failed = {}}]]

Implements == Abstract!Spec
=============================================================================
