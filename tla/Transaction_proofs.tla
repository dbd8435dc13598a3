------------------------- MODULE Transaction_proofs -------------------------
(***************************************************************************)
(* For any number of goroutines, nodes and connections, with or without    *)
(* savepoints: the Transaction calls in progress nest properly, and no     *)
(* connection stays in use after the call that took it.  With savepoints,  *)
(* what a failed Transaction call wrote never becomes durable, and the     *)
(* calls implement nested all-or-nothing scopes.                           *)
(***************************************************************************)
EXTENDS Transaction, SqlTx_proofs

\* The call that made m is in progress.
Active(m) == \E p \in Thread : \E i \in 1..Depth(p) : frames[p][i].tx = m

\* p's i-th call made m by d.Begin, and m works in the session t.
InSession(p, i, m, t) ==
    /\ m \in born \ {Pool} /\ outcome[m] = "none"
    /\ t \in Node /\ Used(t)
    /\ node[m].savePointEnabled = Savepoints
    /\ \E k \in 1..i : frames[p][k].tx = t

InScope(p, i, m, t) ==
    /\ {m, t} \subseteq scope[m]
    /\ \A x \in scope[m] : node[x].tx = t /\ \E k \in 1..i : frames[p][k].tx = x

Placed(p, i, m, d, t) ==
    IF m = t
    THEN d = Pool /\ ~node[m].nested /\ node[m].savePointID = None
    ELSE /\ ~Used(m) /\ node[m].nested
         /\ node[m].savePointID = (IF Savepoints THEN m ELSE None)
         /\ scope[m] = {m} \cup scope[d]
         /\ \E k \in 1..(i - 1) : frames[p][k].tx = d

CallOK(p, i, m, d, t) ==
    InSession(p, i, m, t) /\ InScope(p, i, m, t) /\ Placed(p, i, m, d, t)

CallsOK == \A p \in Thread : \A i \in 1..Depth(p) :
    CallOK(p, i, frames[p][i].tx, frames[p][i].driver, node[frames[p][i].tx].tx)

\* No two calls have the same clone.
Apart == \A p, q \in Thread : \A i \in 1..Depth(p) : \A j \in 1..Depth(q) :
    frames[p][i].tx = frames[q][j].tx => p = q /\ i = j

\* Only the pool and the clones a goroutine has are begun on.
WaitOK == \A p \in Thread :
    waiting[p] \in {None, Pool} \/ \E k \in 1..Depth(p) : frames[p][k].tx = waiting[p]

\* A clone is made by one call, which ends with an outcome.
Fresh == /\ \A n \in Node \ born : ~Used(n) /\ scope[n] = {} /\ outcome[n] = "none" /\ n \notin wrote
         /\ \A n \in Node : scope[n] \subseteq born \ {Pool}
         /\ \A n \in born \ {Pool} : Active(n) \/ outcome[n] # "none"

PoolOK == /\ Pool \in born /\ ~Used(Pool) /\ scope[Pool] = {}
          /\ node[Pool] = [tx |-> None, savePointID |-> None,
                           savePointEnabled |-> Savepoints, nested |-> FALSE]

\* The transactions that enclose a write have one sql.Tx, and share its scope.
Rooted == \A w \in Node : scope[w] = {} \/ \E t \in scope[w] :
    /\ Used(t)
    /\ \A x \in scope[w] : t \in scope[x] /\ (x # t => ~Used(x))

Returned == \A t \in Node : Held(t) /\ outcome[t] # "panic" => Active(t)

CallsInv == CallsOK /\ Apart /\ WaitOK /\ Fresh /\ PoolOK /\ Rooted /\ Returned

------------------------------------------------------------------------------
LEMMA FrameFacts ==
    ASSUME TypeOK, NEW p \in Thread
    PROVE  /\ frames[p] \in Seq(Frame) /\ Depth(p) \in Nat
           /\ DOMAIN frames[p] = 1..Depth(p)
           /\ frames[p] = <<>> <=> Depth(p) = 0
           /\ \A i \in 1..Depth(p) : /\ frames[p][i] \in Frame
                                     /\ frames[p][i].tx \in Node
                                     /\ frames[p][i].driver \in Node
<1>1. frames[p] \in Seq(Frame)
  BY DEF TypeOK
<1>2. /\ Depth(p) \in Nat
      /\ DOMAIN frames[p] = 1..Depth(p)
      /\ \A i \in 1..Depth(p) : frames[p][i] \in Frame
  BY <1>1, LenProperties, ElementOfSeq DEF Depth
<1>3. frames[p] = <<>> <=> Depth(p) = 0
  BY <1>1, EmptySeq DEF Depth
<1> QED
  BY <1>1, <1>2, <1>3 DEF Frame

\* A call starts: p's frames get one more.
LEMMA Pushed ==
    ASSUME TypeOK, NEW p \in Thread, NEW f \in Frame,
           frames' = [frames EXCEPT ![p] = Append(@, f)]
    PROVE  /\ frames' \in [Thread -> Seq(Frame)]
           /\ \A q \in Thread : q # p => Depth(q)' = Depth(q)
           /\ Depth(p)' = Depth(p) + 1
           /\ frames'[p][Depth(p) + 1] = f
           /\ \A q \in Thread : \A i \in 1..Depth(q) : frames'[q][i] = frames[q][i]
<1>1. /\ frames'[p] = Append(frames[p], f)
      /\ \A q \in Thread : q # p => frames'[q] = frames[q]
  BY DEF TypeOK
<1>2. frames[p] \in Seq(Frame) /\ Depth(p) \in Nat
  BY FrameFacts
<1>3. Append(frames[p], f) \in Seq(Frame)
  BY <1>2, AppendProperties
<1>4. /\ Len(frames'[p]) = Depth(p) + 1
      /\ frames'[p][Depth(p) + 1] = f
      /\ \A i \in 1..Depth(p) : frames'[p][i] = frames[p][i]
  BY <1>1, <1>2, AppendProperties DEF Depth
<1> QED
  BY <1>1, <1>3, <1>4 DEF Depth, TypeOK

\* A call returns: p's innermost frame goes.
LEMMA Popped ==
    ASSUME TypeOK, NEW p \in Thread, frames[p] # <<>>,
           frames' = [frames EXCEPT ![p] = SubSeq(@, 1, Depth(p) - 1)]
    PROVE  /\ frames' \in [Thread -> Seq(Frame)]
           /\ \A q \in Thread : q # p => Depth(q)' = Depth(q)
           /\ Depth(p)' = Depth(p) - 1
           /\ \A q \in Thread : \A i \in 1..(Depth(q)') :
                  i \in 1..Depth(q) /\ frames'[q][i] = frames[q][i]
<1>1. /\ frames'[p] = SubSeq(frames[p], 1, Depth(p) - 1)
      /\ \A q \in Thread : q # p => frames'[q] = frames[q]
  BY DEF TypeOK
<1>2. frames[p] \in Seq(Frame) /\ Depth(p) \in Nat \ {0}
  BY FrameFacts
<1>3. /\ \A i \in 1..(Depth(p) - 1) : frames[p][i] \in Frame
      /\ 1 \in Int /\ Depth(p) - 1 \in Int
  BY <1>2, FrameFacts
<1>4. /\ SubSeq(frames[p], 1, Depth(p) - 1) \in Seq(Frame)
      /\ Len(SubSeq(frames[p], 1, Depth(p) - 1)) = Depth(p) - 1
      /\ \A i \in 1..(Depth(p) - 1) : SubSeq(frames[p], 1, Depth(p) - 1)[i] = frames[p][i]
  BY <1>2, <1>3, SubSeqProperties DEF Depth
<1>5. Depth(p)' = Depth(p) - 1 /\ \A q \in Thread : q # p => Depth(q)' = Depth(q)
  BY <1>1, <1>4 DEF Depth
<1>6. frames' \in [Thread -> Seq(Frame)]
  BY <1>1, <1>4 DEF TypeOK
<1>7. ASSUME NEW q \in Thread, NEW i \in 1..(Depth(q)')
      PROVE  i \in 1..Depth(q) /\ frames'[q][i] = frames[q][i]
  BY <1>1, <1>2, <1>4, <1>5
<1> QED
  BY <1>5, <1>6, <1>7

------------------------------------------------------------------------------
\* What a step can be once the calls in progress are in order.
Waits(p) == \E d \in Driver(p) \cup {None} : waiting' = [waiting EXCEPT ![p] = d]

Quiet(p) == Waits(p) /\ UNCHANGED <<frames, node, born, dbVars, history>>

Refused(p, k) == /\ Waits(p) /\ Refuse(node[frames[p][k].tx].tx)
                 /\ UNCHANGED <<frames, node, born, history>>

PoolWrites == /\ AutoCommit(Pool) /\ Pool \notin wrote /\ wrote' = wrote \cup {Pool}
              /\ UNCHANGED <<callVars, node, born, outcome, scope>>

CallWrites(p, k) == /\ Write(node[frames[p][k].tx].tx, frames[p][k].tx)
                    /\ frames[p][k].tx \notin wrote /\ wrote' = wrote \cup {frames[p][k].tx}
                    /\ UNCHANGED <<callVars, node, born, outcome, scope>>

Cancelled(t) == ContextDone(t) /\ UNCHANGED <<callVars, node, born, history>>

Clones(m, t, nested) ==
    /\ node' \in [Node -> NodeFields]
    /\ \A u \in Node \ {m} : node'[u] = node[u]
    /\ node'[m].tx = t /\ node'[m].savePointEnabled = Savepoints
    /\ node'[m].nested <=> nested
    /\ node'[m].savePointID = IF nested /\ Savepoints THEN m ELSE None

Pushes(p, n, m, t, nested) ==
    /\ m \notin born /\ born' = born \cup {m}
    /\ Clones(m, t, nested)
    /\ frames' = [frames EXCEPT ![p] = Append(@, [driver |-> n, tx |-> m])]
    /\ waiting[p] = n /\ waiting' = [waiting EXCEPT ![p] = None]
    /\ scope' = [scope EXCEPT ![m] = {m} \cup scope[n]]
    /\ UNCHANGED <<outcome, wrote>>

Opens(p, m) == Pushes(p, Pool, m, m, FALSE) /\ Begin(m)

Nests(p, k, m) ==
    LET n == frames[p][k].tx
    IN  /\ Pushes(p, n, m, node[n].tx, TRUE)
        /\ IF Savepoints THEN Savepoint(node[n].tx, m) ELSE UNCHANGED dbVars

Pops(p, result) ==
    /\ InHandler(p) /\ Return(p, result)
    /\ node' \in {node, [node EXCEPT ![Top(p).tx].tx = None]} /\ UNCHANGED born

EndsNested(p, x, t, result) ==
    /\ x # t
    /\ IF Savepoints
       THEN \/ result = "nil" /\ Release(t, x)
            \/ result = "commitError" /\ Refuse(t)
            \/ result = "handlerError" /\ (RollbackTo(t, x) \/ Refuse(t))
       ELSE result \in {"nil", "handlerError"} /\ UNCHANGED dbVars

EndsOwner(x, t, result) ==
    /\ x = t
    /\ \/ result = "nil" /\ CommitTx(t)
       \/ result = "commitError" /\ CommitTxFails(t)
       \/ result = "handlerError" /\ (RollbackTx(t) \/ RollbackTxFails(t))

Ends(p, result) ==
    LET x == Top(p).tx
    IN  /\ Pops(p, result)
        /\ \/ EndsNested(p, x, node[x].tx, result)
           \/ EndsOwner(x, node[x].tx, result)
           \/ result = "panic" /\ UNCHANGED dbVars

Kinds == \/ \E p \in Thread :
              \/ Quiet(p)
              \/ \E k \in 1..Depth(p) : Refused(p, k) \/ CallWrites(p, k)
              \/ \E m \in Node : Opens(p, m) \/ \E k \in 1..Depth(p) : Nests(p, k, m)
              \/ \E result \in {"nil", "handlerError", "commitError", "panic"} : Ends(p, result)
         \/ PoolWrites
         \/ \E t \in Node : Cancelled(t)
         \/ UNCHANGED <<frames, waiting, node, born, dbVars, history>>

\* What the calls in progress say of a clone and of the drivers at hand.
LEMMA ActiveFacts ==
    ASSUME TypeOK, CallsInv, NEW p \in Thread, NEW k \in 1..Depth(p)
    PROVE  LET m == frames[p][k].tx
           IN  /\ m \in born \ {Pool} /\ m \in Node /\ InTx(m)
               /\ node[m].tx \in Node /\ Used(node[m].tx)
               /\ outcome[m] = "none"
               /\ node[m].savePointEnabled = Savepoints
               /\ m = node[m].tx => ~node[m].nested /\ node[m].savePointID = None
               /\ m # node[m].tx => /\ node[m].nested /\ ~Used(m)
                                    /\ node[m].savePointID = IF Savepoints THEN m ELSE None
<1> DEFINE m == frames[p][k].tx
<1>1. CallOK(p, k, m, frames[p][k].driver, node[m].tx)
  BY DEF CallsInv, CallsOK
<1>2. m \in Node
  BY FrameFacts
<1> HIDE DEF m
<1>3. InTx(m)
  BY <1>1, NoneAssumption DEF CallOK, InSession, InTx
<1>4. m = frames[p][k].tx
  BY DEF m
<1>5. InSession(p, k, m, node[m].tx) /\ Placed(p, k, m, frames[p][k].driver, node[m].tx)
  BY <1>1 DEF CallOK
<1>6. m \in born \ {Pool} /\ outcome[m] = "none" /\ node[m].tx \in Node /\ Used(node[m].tx)
      /\ node[m].savePointEnabled = Savepoints
  BY <1>5 DEF InSession
<1>7. /\ m = node[m].tx => ~node[m].nested /\ node[m].savePointID = None
      /\ m # node[m].tx => /\ node[m].nested /\ ~Used(m)
                           /\ node[m].savePointID = IF Savepoints THEN m ELSE None
  BY <1>5 DEF Placed
<1> QED
  BY <1>2, <1>3, <1>4, <1>6, <1>7

LEMMA DriverFacts ==
    ASSUME TypeOK, CallsInv, NEW p \in Thread, NEW d \in Driver(p)
    PROVE  d = Pool \/ \E k \in 1..Depth(p) : frames[p][k].tx = d
<1>1. CASE frames[p] = <<>>
  BY <1>1 DEF Driver
<1>2. ASSUME frames[p] # <<>>, d = Top(p).tx
      PROVE  \E k \in 1..Depth(p) : frames[p][k].tx = d
  BY <1>2, FrameFacts DEF Top
<1>3. ASSUME NEW i \in 1..Depth(p), d = frames[p][i].driver
      PROVE  d = Pool \/ \E k \in 1..Depth(p) : frames[p][k].tx = d
  <2>1. Placed(p, i, frames[p][i].tx, frames[p][i].driver, node[frames[p][i].tx].tx)
    BY DEF CallsInv, CallsOK, CallOK
  <2>2. d = Pool \/ \E k \in 1..(i - 1) : frames[p][k].tx = d
    BY <1>3, <2>1 DEF Placed
  <2> QED
    BY <2>2, FrameFacts
<1> QED
  BY <1>1, <1>2, <1>3 DEF Driver

\* Each action of Next is one of these kinds.
LEMMA CallKind ==
    ASSUME TypeOK, CallsInv, NEW p \in Thread, NEW d \in Node, Call(p, d)
    PROVE  Quiet(p)
BY DEF Call, Quiet, Waits, nodeVars

LEMMA StartedKind ==
    ASSUME TypeOK, CallsInv, NEW p \in Thread, NEW m \in Node, Started(p, m)
    PROVE  Opens(p, m) \/ \E k \in 1..Depth(p) : Nests(p, k, m)
<1> DEFINE n == waiting[p]
<1>1. BeginTx(n, m, TRUE) /\ n # None /\ m \notin born
  BY DEF Started, BeginTx
<1>2. ASSUME n \in Node, NEW f \in NodeFields, Clone(n, m, f)
      PROVE  /\ node' \in [Node -> NodeFields]
             /\ \A u \in Node \ {m} : node'[u] = node[u]
             /\ node'[m] = f /\ born' = born \cup {m}
  BY <1>2 DEF Clone, TypeOK, NodeTypeOK
<1>3. CASE n = Pool
  <2>1. ~InTx(n)
    BY <1>3 DEF CallsInv, PoolOK, InTx
  <2>2. BeginNew(n, m, TRUE)
    BY <1>1, <2>1 DEF BeginTx, BeginSavepoint, BeginShared
  <2>3. Begin(m) /\ Clone(n, m, [node[n] EXCEPT !.tx = m])
    BY <2>2 DEF BeginNew
  <2>4. node[n] \in NodeFields
    BY <1>3, PoolAssumption DEF TypeOK, NodeTypeOK
  <2>5. /\ ~node[n].nested /\ node[n].savePointID = None
        /\ node[n].savePointEnabled = Savepoints
    BY <1>3 DEF CallsInv, PoolOK
  <2>6. Clones(m, m, FALSE) /\ born' = born \cup {m}
    <3> DEFINE f == [node[n] EXCEPT !.tx = m]
    <3>1. /\ f \in NodeFields /\ f.tx = m /\ ~f.nested
          /\ f.savePointID = None /\ f.savePointEnabled = Savepoints
      BY <2>4, <2>5 DEF NodeFields
    <3> HIDE DEF f
    <3>2. Clone(n, m, f)
      BY <2>3 DEF f
    <3> QED
      BY <1>2, <1>3, <3>1, <3>2, PoolAssumption DEF Clones
  <2> QED
    BY <1>1, <1>3, <2>3, <2>6 DEF Started, Opens, Pushes
<1>4. CASE n # Pool
  <2>1. PICK k \in 1..Depth(p) : frames[p][k].tx = n
    BY <1>1, <1>4 DEF CallsInv, WaitOK
  <2>2. /\ InTx(n) /\ n \in Node /\ node[n].savePointEnabled = Savepoints
        /\ ~Savepoints => node[n].savePointID = None
    BY <2>1, ActiveFacts
  <2>3. node[n] \in NodeFields
    BY <2>2 DEF TypeOK, NodeTypeOK
  <2>4. BeginSavepoint(n, m, TRUE) \/ BeginShared(n, m, TRUE)
    BY <1>1, <2>2 DEF BeginTx, BeginNew
  <2>5. /\ Clones(m, node[n].tx, TRUE) /\ born' = born \cup {m}
        /\ IF Savepoints THEN Savepoint(node[n].tx, m) ELSE UNCHANGED dbVars
    <3>1. CASE Savepoints
      <4> DEFINE f == [node[n] EXCEPT !.nested = TRUE, !.savePointID = m]
      <4>1. Savepoint(node[n].tx, m) /\ Clone(n, m, f)
        BY <2>2, <2>4, <3>1 DEF BeginSavepoint, BeginShared
      <4>2. /\ f \in NodeFields /\ f.tx = node[n].tx /\ f.nested
            /\ f.savePointID = m /\ f.savePointEnabled = Savepoints
        BY <2>2, <2>3 DEF NodeFields
      <4> HIDE DEF f
      <4> QED
        BY <1>2, <2>2, <3>1, <4>1, <4>2 DEF Clones
    <3>2. CASE ~Savepoints
      <4> DEFINE f == [node[n] EXCEPT !.nested = TRUE]
      <4>1. UNCHANGED dbVars /\ Clone(n, m, f)
        BY <2>2, <2>4, <3>2 DEF BeginSavepoint, BeginShared
      <4>2. /\ f \in NodeFields /\ f.tx = node[n].tx /\ f.nested
            /\ f.savePointID = None /\ f.savePointEnabled = Savepoints
        BY <2>2, <2>3, <3>2 DEF NodeFields
      <4> HIDE DEF f
      <4> QED
        BY <1>2, <2>2, <3>2, <4>1, <4>2 DEF Clones
    <3> QED
      BY <3>1, <3>2
  <2>6. Pushes(p, n, m, node[n].tx, TRUE)
    BY <1>1, <2>5 DEF Pushes, Started
  <2> QED
    BY <2>1, <2>5, <2>6 DEF Nests
<1> QED
  BY <1>3, <1>4

LEMMA NotStartedKind ==
    ASSUME TypeOK, CallsInv, NEW p \in Thread, NEW m \in Node, NotStarted(p, m)
    PROVE  Quiet(p) \/ \E k \in 1..Depth(p) : Refused(p, k)
<1>1. BeginTx(waiting[p], m, FALSE) /\ waiting[p] # None
  BY DEF NotStarted
<1>2. Waits(p) /\ UNCHANGED <<frames, history>>
  BY DEF NotStarted, Waits
<1>3. CASE waiting[p] = Pool
  <2>1. ~InTx(waiting[p])
    BY <1>3 DEF CallsInv, PoolOK, InTx
  <2>2. UNCHANGED <<nodeVars, dbVars>>
    BY <1>1, <2>1 DEF BeginTx, BeginNew, BeginSavepoint, BeginShared
  <2> QED
    BY <1>2, <2>2 DEF Quiet, nodeVars
<1>4. CASE waiting[p] # Pool
  <2>1. PICK k \in 1..Depth(p) : frames[p][k].tx = waiting[p]
    BY <1>1, <1>4 DEF CallsInv, WaitOK
  <2>2. InTx(waiting[p])
    BY <2>1, ActiveFacts
  <2>3. Refuse(node[waiting[p]].tx) /\ UNCHANGED nodeVars
    BY <1>1, <2>2 DEF BeginTx, BeginNew, BeginSavepoint, BeginShared
  <2> QED
    BY <1>2, <2>1, <2>3 DEF Refused, nodeVars
<1> QED
  BY <1>3, <1>4

LEMMA WritesKind ==
    ASSUME TypeOK, CallsInv, NEW p \in Thread, NEW d \in Node, NEW ok \in BOOLEAN,
           HandlerWrites(p, d, ok)
    PROVE  \/ Quiet(p) \/ PoolWrites
           \/ \E k \in 1..Depth(p) : Refused(p, k) \/ CallWrites(p, k)
<1>1. /\ InHandler(p) /\ d \in Driver(p) /\ d \notin wrote /\ Exec(d, ok)
      /\ wrote' = IF ok THEN wrote \cup {d} ELSE wrote
      /\ UNCHANGED <<callVars, outcome, scope>>
  BY DEF HandlerWrites
<1>2. Waits(p)
  <2>1. waiting' = [waiting EXCEPT ![p] = None]
    BY <1>1 DEF InHandler, callVars, TypeOK
  <2> QED
    BY <2>1 DEF Waits
<1>3. UNCHANGED <<node, born>>
  BY <1>1 DEF Exec, nodeVars
<1>4. CASE d = Pool
  <2>1. ~InTx(d)
    BY <1>4 DEF CallsInv, PoolOK, InTx
  <2>2. (ok /\ AutoCommit(d)) \/ (~ok /\ UNCHANGED dbVars)
    BY <1>1, <2>1 DEF Exec
  <2> QED
    BY <1>1, <1>2, <1>3, <1>4, <2>2 DEF Quiet, PoolWrites, callVars, history
<1>5. CASE d # Pool
  <2>1. PICK k \in 1..Depth(p) : frames[p][k].tx = d
    BY <1>1, <1>5, DriverFacts
  <2>2. InTx(d)
    BY <2>1, ActiveFacts
  <2>3. (ok /\ Write(node[d].tx, d)) \/ (~ok /\ Refuse(node[d].tx))
    BY <1>1, <2>2 DEF Exec
  <2> QED
    BY <1>1, <1>2, <1>3, <2>1, <2>3 DEF Refused, CallWrites, callVars, history
<1> QED
  BY <1>4, <1>5

\* Commit and Rollback forget the transaction or keep it, and change no other field.
LEMMA ReturnPops ==
    ASSUME TypeOK, CallsInv, NEW p \in Thread, NEW result, NEW ok \in BOOLEAN,
           InHandler(p), Return(p, result), ForgetIf(Top(p).tx, ok)
    PROVE  Pops(p, result)
BY DEF Pops, ForgetIf, Forget, nodeVars

LEMMA FailsKind ==
    ASSUME TypeOK, CallsInv, NEW p \in Thread, NEW ok \in BOOLEAN, HandlerFails(p, ok)
    PROVE  Ends(p, "handlerError")
<1> DEFINE x == Top(p).tx
           t == node[x].tx
<1>1. InHandler(p) /\ Rollback(x, ok) /\ Return(p, "handlerError")
  BY DEF HandlerFails
<1>2. PICK k \in 1..Depth(p) : x = frames[p][k].tx
  BY <1>1, FrameFacts DEF InHandler, Top
<1>3. /\ InTx(x) /\ node[x].savePointEnabled = Savepoints
      /\ x = t => ~node[x].nested /\ node[x].savePointID = None
      /\ x # t => node[x].nested /\ node[x].savePointID = IF Savepoints THEN x ELSE None
      /\ x \in Node
  BY <1>2, ActiveFacts
<1> HIDE DEF t, x
<1>4. CASE RollbackSavepoint(x, ok)
  <2>1. /\ UsesSavepoint(x) /\ ForgetIf(x, ok)
        /\ RollbackTo(node[x].tx, node[x].savePointID) \/ Refuse(node[x].tx)
    BY <1>4 DEF RollbackSavepoint
  <2>2. x # t /\ Savepoints /\ node[x].savePointID = x
    BY <1>3, <2>1 DEF UsesSavepoint
  <2>3. RollbackTo(t, x) \/ Refuse(t)
    BY <2>1, <2>2 DEF t
  <2>4. Pops(p, "handlerError")
    BY <1>1, <2>1, ReturnPops DEF x
  <2> QED
    BY <2>2, <2>3, <2>4 DEF Ends, EndsNested, t, x
<1>5. CASE RollbackOwner(x, ok)
  <2>1. /\ ~node[x].nested /\ ForgetIf(x, ok)
        /\ RollbackTx(node[x].tx) \/ RollbackTxFails(node[x].tx)
    BY <1>5 DEF RollbackOwner
  <2>2. Pops(p, "handlerError") /\ x = t
    BY <1>1, <1>3, <2>1, ReturnPops DEF x
  <2> QED
    BY <2>1, <2>2 DEF Ends, EndsOwner, t, x
<1>6. CASE RollbackShared(x, ok)
  <2>1. /\ ok /\ Forget(x) /\ node[x].nested /\ ~UsesSavepoint(x) /\ UNCHANGED dbVars
    BY <1>6 DEF RollbackShared
  <2>2. x # t /\ ~Savepoints
    BY <1>3, <2>1, NoneAssumption DEF UsesSavepoint
  <2>3. Pops(p, "handlerError")
    BY <1>1, <2>1, ReturnPops DEF x, ForgetIf
  <2> QED
    BY <2>1, <2>2, <2>3 DEF Ends, EndsNested, t, x
<1> QED
  BY <1>1, <1>3, <1>4, <1>5, <1>6 DEF Rollback, RollbackNotInTx

LEMMA SucceedsKind ==
    ASSUME TypeOK, CallsInv, NEW p \in Thread, NEW ok \in BOOLEAN, HandlerSucceeds(p, ok)
    PROVE  \E result \in {"nil", "commitError"} : Ends(p, result)
<1> DEFINE x == Top(p).tx
           t == node[x].tx
           result == IF ok THEN "nil" ELSE "commitError"
<1>1. InHandler(p) /\ Commit(x, ok) /\ Return(p, result)
  BY DEF HandlerSucceeds
<1>2. PICK k \in 1..Depth(p) : x = frames[p][k].tx
  BY <1>1, FrameFacts DEF InHandler, Top
<1>3. /\ InTx(x) /\ node[x].savePointEnabled = Savepoints
      /\ x = t => ~node[x].nested /\ node[x].savePointID = None
      /\ x # t => node[x].nested /\ node[x].savePointID = IF Savepoints THEN x ELSE None
      /\ x \in Node
  BY <1>2, ActiveFacts
<1> HIDE DEF t, x
<1>4. CASE CommitSavepoint(x, ok)
  <2>1. /\ node[x].savePointID # None /\ ForgetIf(x, ok)
        /\ (ok /\ Release(node[x].tx, node[x].savePointID)) \/ (~ok /\ Refuse(node[x].tx))
    BY <1>4 DEF CommitSavepoint
  <2>2. x # t /\ Savepoints /\ node[x].savePointID = x
    BY <1>3, <2>1
  <2>3. (ok /\ Release(t, x)) \/ (~ok /\ Refuse(t))
    BY <2>1, <2>2 DEF t
  <2>4. Pops(p, result)
    BY <1>1, <2>1, ReturnPops DEF x
  <2> QED
    BY <2>2, <2>3, <2>4 DEF Ends, EndsNested, t, x
<1>5. CASE CommitOwner(x, ok)
  <2>1. /\ ~node[x].nested /\ ForgetIf(x, ok)
        /\ (ok /\ CommitTx(node[x].tx)) \/ (~ok /\ CommitTxFails(node[x].tx))
    BY <1>5 DEF CommitOwner
  <2>2. Pops(p, result) /\ x = t
    BY <1>1, <1>3, <2>1, ReturnPops DEF x
  <2> QED
    BY <2>1, <2>2 DEF Ends, EndsOwner, t, x
<1>6. CASE CommitShared(x, ok)
  <2>1. ok /\ Forget(x) /\ node[x].nested /\ node[x].savePointID = None /\ UNCHANGED dbVars
    BY <1>6 DEF CommitShared
  <2>2. x # t /\ ~Savepoints
    BY <1>3, <2>1, NoneAssumption
  <2>3. Pops(p, result)
    BY <1>1, <2>1, ReturnPops DEF x, ForgetIf
  <2> QED
    BY <2>1, <2>2, <2>3 DEF Ends, EndsNested, t, x
<1> QED
  BY <1>1, <1>3, <1>4, <1>5, <1>6 DEF Commit, CommitNotInTx

LEMMA StepKinds ==
    ASSUME TypeOK, CallsInv, [Next]_vars
    PROVE  Kinds
<1>1. ASSUME NEW p \in Thread, NEW d \in Node, Call(p, d)
      PROVE  Kinds
  BY <1>1, CallKind DEF Kinds
<1>2. ASSUME NEW p \in Thread, NEW m \in Node, Started(p, m)
      PROVE  Kinds
  BY <1>2, StartedKind DEF Kinds
<1>3. ASSUME NEW p \in Thread, NEW m \in Node, NotStarted(p, m)
      PROVE  Kinds
  BY <1>3, NotStartedKind DEF Kinds
<1>4. ASSUME NEW p \in Thread, NEW d \in Node, NEW ok \in BOOLEAN, HandlerWrites(p, d, ok)
      PROVE  Kinds
  BY <1>4, WritesKind DEF Kinds
<1>5. ASSUME NEW p \in Thread, NEW ok \in BOOLEAN, HandlerFails(p, ok)
      PROVE  Kinds
  BY <1>5, FailsKind DEF Kinds
<1>6. ASSUME NEW p \in Thread, NEW ok \in BOOLEAN, HandlerSucceeds(p, ok)
      PROVE  Kinds
  BY <1>6, SucceedsKind DEF Kinds
<1>7. ASSUME NEW p \in Thread, HandlerPanics(p)
      PROVE  Kinds
  <2>1. Pops(p, "panic") /\ UNCHANGED dbVars
    BY <1>7 DEF HandlerPanics, Pops, nodeVars
  <2> QED
    BY <2>1 DEF Kinds, Ends
<1>8. ASSUME NEW t \in Node, Cancel(t)
      PROVE  Kinds
  BY <1>8 DEF Cancel, Cancelled, Kinds, nodeVars
<1>9. CASE UNCHANGED vars
  BY <1>9 DEF vars, nodeVars, callVars, Kinds
<1> QED
  BY <1>1, <1>2, <1>3, <1>4, <1>5, <1>6, <1>7, <1>8, <1>9 DEF Next

------------------------------------------------------------------------------
\* No session begins or ends.
Keeps == /\ DbTypeOK'
         /\ \A u \in Node : (Used(u)' <=> Used(u)) /\ (Held(u)' => Held(u))

\* No call starts or returns.
Still == /\ Keeps /\ UNCHANGED <<frames, node, born, outcome, scope>>
         /\ wrote \subseteq wrote' /\ wrote' \subseteq wrote \cup born
         /\ waiting' = waiting \/ \E p \in Thread : Waits(p)

\* The sessions a statement, or the end of a session, keeps.
LEMMA StatementKeeps ==
    ASSUME TypeOK, NEW t \in Node, NEW id \in Node,
           \/ Write(t, id) \/ Refuse(t) \/ Savepoint(t, id)
           \/ Release(t, id) \/ RollbackTo(t, id)
    PROVE  Keeps
BY StatementKeepsSessions DEF TypeOK, Keeps, Used

LEMMA EndKeeps ==
    ASSUME TypeOK, NEW t \in Node,
           \/ CommitTx(t) \/ CommitTxFails(t)
           \/ RollbackTx(t) \/ RollbackTxFails(t) \/ ContextDone(t)
    PROVE  Keeps /\ ~Held(t)'
<1>1. /\ DbTypeOK' /\ session[t].state # "idle" /\ session'[t].state = "done"
      /\ \A u \in Node \ {t} : session'[u] = session[u]
  BY EndFreesOne DEF TypeOK
<1>2. Used(t)' /\ Used(t) /\ ~Held(t)'
  BY <1>1 DEF Used, Held
<1>3. ASSUME NEW u \in Node \ {t}
      PROVE  (Used(u)' <=> Used(u)) /\ (Held(u)' <=> Held(u))
  BY <1>1 DEF Used, Held
<1> QED
  BY <1>1, <1>2, <1>3 DEF Keeps

LEMMA NothingKeeps ==
    ASSUME TypeOK, UNCHANGED session, durable' \in SUBSET Node
    PROVE  Keeps
BY DEF TypeOK, DbTypeOK, Keeps, Used, Held

LEMMA StillKinds ==
    ASSUME TypeOK, CallsInv,
           \/ \E p \in Thread :
                  Quiet(p) \/ \E k \in 1..Depth(p) : Refused(p, k) \/ CallWrites(p, k)
           \/ PoolWrites
           \/ \E t \in Node : Cancelled(t)
           \/ UNCHANGED <<frames, waiting, node, born, dbVars, history>>
    PROVE  Still
<1>0. durable \in SUBSET Node
  BY DEF TypeOK, DbTypeOK
<1>1. ASSUME NEW p \in Thread, Quiet(p)
      PROVE  Still
  BY <1>0, <1>1, NothingKeeps DEF Quiet, Still, history, dbVars
<1>2. ASSUME NEW p \in Thread, NEW k \in 1..Depth(p), Refused(p, k)
      PROVE  Still
  <2>1. node[frames[p][k].tx].tx \in Node
    BY ActiveFacts
  <2> QED
    BY <1>2, <2>1, StatementKeeps DEF Refused, Still, history
<1>3. ASSUME NEW p \in Thread, NEW k \in 1..Depth(p), CallWrites(p, k)
      PROVE  Still
  <2>1. node[frames[p][k].tx].tx \in Node /\ frames[p][k].tx \in Node /\ frames[p][k].tx \in born
    BY ActiveFacts
  <2> QED
    BY <1>3, <2>1, StatementKeeps DEF CallWrites, Still, callVars
<1>4. CASE PoolWrites
  <2>1. durable' \in SUBSET Node /\ UNCHANGED session
    BY <1>0, <1>4, PoolAssumption DEF PoolWrites, AutoCommit
  <2> QED
    BY <1>4, <2>1, NothingKeeps DEF PoolWrites, Still, callVars, CallsInv, PoolOK
<1>5. ASSUME NEW t \in Node, Cancelled(t)
      PROVE  Still
  BY <1>5, EndKeeps DEF Cancelled, Still, history, callVars
<1>6. CASE UNCHANGED <<frames, waiting, node, born, dbVars, history>>
  BY <1>0, <1>6, NothingKeeps DEF Still, history, dbVars
<1> QED
  BY <1>1, <1>2, <1>3, <1>4, <1>5, <1>6

LEMMA NestsKeeps ==
    ASSUME TypeOK, CallsInv, NEW p \in Thread, NEW k \in 1..Depth(p), NEW m \in Node,
           Nests(p, k, m)
    PROVE  Keeps
<1>1. node[frames[p][k].tx].tx \in Node
  BY ActiveFacts
<1>2. CASE Savepoints
  BY <1>1, <1>2, StatementKeeps DEF Nests
<1>3. CASE ~Savepoints
  BY <1>3, NothingKeeps DEF Nests, dbVars, TypeOK, DbTypeOK
<1> QED
  BY <1>2, <1>3

LEMMA EndsKeeps ==
    ASSUME TypeOK, CallsInv, NEW p \in Thread, NEW result, Ends(p, result),
           NEW x, x = Top(p).tx
    PROVE  Keeps /\ (result = "panic" \/ ~Held(x)')
<1>1. PICK k \in 1..Depth(p) : x = frames[p][k].tx
  BY FrameFacts DEF Ends, Pops, InHandler, Top
<1>2. PICK t \in Node : t = node[x].tx
  BY <1>1, ActiveFacts
<1>3. x \in Node /\ (x # t => ~Used(x))
  BY <1>1, <1>2, ActiveFacts
<1>4. CASE EndsNested(p, x, t, result)
  <2>1. Keeps
    <3>1. CASE Savepoints
      BY <1>3, <1>4, <3>1, StatementKeeps DEF EndsNested
    <3>2. CASE ~Savepoints
      BY <1>4, <3>2, NothingKeeps DEF EndsNested, dbVars, TypeOK, DbTypeOK
    <3> QED
      BY <3>1, <3>2
  <2>2. ~Held(x)'
    <3>1. ~Used(x)'
      BY <1>3, <1>4, <2>1 DEF EndsNested, Keeps
    <3> QED
      BY <3>1 DEF Used, Held
  <2> QED
    BY <2>1, <2>2
<1>5. CASE EndsOwner(x, t, result)
  <2>1. Keeps /\ ~Held(t)' /\ x = t
    BY <1>2, <1>5, EndKeeps DEF EndsOwner
  <2> QED
    BY <2>1
<1>6. CASE result = "panic" /\ UNCHANGED dbVars
  BY <1>6, NothingKeeps DEF dbVars, TypeOK, DbTypeOK
<1> QED
  BY <1>2, <1>4, <1>5, <1>6 DEF Ends

------------------------------------------------------------------------------
LEMMA StaysOpen == ASSUME [Next]_vars PROVE closed' = closed
<1>1. ASSUME NEW n, NEW m, NEW ok, BeginTx(n, m, ok)
      PROVE  closed' = closed
  <2>1. BeginNew(n, m, ok) => closed' = closed
    BY DEF BeginNew, Clone, nodeVars
  <2>2. BeginSavepoint(n, m, ok) => closed' = closed
    BY DEF BeginSavepoint, Clone, nodeVars
  <2>3. BeginShared(n, m, ok) => closed' = closed
    BY DEF BeginShared, Clone, nodeVars
  <2> QED
    BY <1>1, <2>1, <2>2, <2>3 DEF BeginTx
<1>2. \A n, ok : ForgetIf(n, ok) => closed' = closed
  BY DEF ForgetIf, Forget, nodeVars
<1>3. ASSUME NEW n, NEW ok, Commit(n, ok)
      PROVE  closed' = closed
  BY <1>2, <1>3 DEF Commit, CommitNotInTx, CommitSavepoint, CommitOwner, CommitShared,
                    Forget, nodeVars
<1>4. ASSUME NEW n, NEW ok, Rollback(n, ok)
      PROVE  closed' = closed
  BY <1>2, <1>4 DEF Rollback, RollbackNotInTx, RollbackSavepoint, RollbackOwner,
                    RollbackShared, Forget, nodeVars
<1>5. ASSUME NEW n, NEW ok, Exec(n, ok)
      PROVE  closed' = closed
  BY <1>5 DEF Exec, nodeVars
<1> QED
  BY <1>1, <1>3, <1>4, <1>5 DEF Next, Call, Started, NotStarted, HandlerWrites, HandlerFails,
                               HandlerSucceeds, HandlerPanics, Cancel, nodeVars, vars

\* The types of the drivers a goroutine has at hand, and of what it waits for.
LEMMA WaitsType ==
    ASSUME TypeOK, NEW p \in Thread, Waits(p)
    PROVE  waiting' \in [Thread -> Node \cup {None}]
<1>1. Driver(p) \subseteq Node
  <2>1. frames[p] # <<>> => Top(p).tx \in Node
    BY FrameFacts DEF Top
  <2> QED
    BY <2>1, FrameFacts, PoolAssumption DEF Driver
<1> QED
  BY <1>1 DEF Waits, TypeOK

LEMMA PushesType ==
    ASSUME TypeOK, NEW p \in Thread, NEW n \in Node, NEW m \in Node, NEW t, NEW nested,
           Pushes(p, n, m, t, nested)
    PROVE  /\ node' \in [Node -> NodeFields] /\ born' \in SUBSET Node
           /\ frames' \in [Thread -> Seq(Frame)] /\ waiting' \in [Thread -> Node \cup {None}]
           /\ scope' \in [Node -> SUBSET Node] /\ UNCHANGED <<outcome, wrote>>
<1>1. [driver |-> n, tx |-> m] \in Frame
  BY DEF Frame
<1> QED
  BY <1>1, Pushed DEF Pushes, Clones, TypeOK, NodeTypeOK

LEMMA TypeStep ==
    ASSUME TypeOK, CallsInv, [Next]_vars
    PROVE  TypeOK'
<1>1. Kinds /\ closed' \in BOOLEAN
  BY StepKinds, StaysOpen DEF TypeOK, NodeTypeOK
<1>2. CASE Still
  <2>1. wrote' \in SUBSET Node
    BY <1>2 DEF Still, TypeOK, NodeTypeOK
  <2>2. waiting' \in [Thread -> Node \cup {None}]
    BY <1>2, WaitsType DEF Still, TypeOK
  <2> QED
    BY <1>1, <1>2, <2>1, <2>2 DEF Still, Keeps, TypeOK, NodeTypeOK
<1>3. ASSUME NEW p \in Thread, NEW m \in Node, Opens(p, m)
      PROVE  TypeOK'
  <2>1. DbTypeOK'
    BY <1>3, BeginHoldsOne DEF Opens, TypeOK
  <2> QED
    BY <1>1, <1>3, <2>1, PushesType, PoolAssumption DEF Opens, TypeOK, NodeTypeOK
<1>4. ASSUME NEW p \in Thread, NEW k \in 1..Depth(p), NEW m \in Node, Nests(p, k, m)
      PROVE  TypeOK'
  <2>1. Keeps /\ frames[p][k].tx \in Node
    BY <1>4, NestsKeeps, FrameFacts
  <2>2. Pushes(p, frames[p][k].tx, m, node[frames[p][k].tx].tx, TRUE)
    BY <1>4 DEF Nests
  <2> QED
    BY <1>1, <2>1, <2>2, PushesType DEF Keeps, TypeOK, NodeTypeOK
<1>5. ASSUME NEW p \in Thread, NEW result \in {"nil", "handlerError", "commitError", "panic"},
             Ends(p, result)
      PROVE  TypeOK'
  <2>1. DbTypeOK'
    BY <1>5, EndsKeeps DEF Keeps
  <2>2. InHandler(p) /\ Return(p, result) /\ UNCHANGED born
        /\ node' \in {node, [node EXCEPT ![Top(p).tx].tx = None]}
    BY <1>5 DEF Ends, Pops
  <2>3. node' \in [Node -> NodeFields]
    <3>1. ASSUME NEW x \in Node
          PROVE  [node[x] EXCEPT !.tx = None] \in NodeFields
      <4>1. node[x] \in NodeFields
        BY DEF TypeOK, NodeTypeOK
      <4> QED
        BY <4>1 DEF NodeFields
    <3>2. [node EXCEPT ![Top(p).tx].tx = None] \in [Node -> NodeFields]
      BY <3>1 DEF TypeOK, NodeTypeOK
    <3> QED
      BY <2>2, <3>2 DEF TypeOK, NodeTypeOK
  <2>4. frames' \in [Thread -> Seq(Frame)]
    BY <2>2, Popped DEF InHandler, Return
  <2> QED
    BY <1>1, <2>1, <2>2, <2>3, <2>4 DEF Return, TypeOK, NodeTypeOK
<1> QED
  BY <1>1, <1>2, <1>3, <1>4, <1>5, StillKinds DEF Kinds

------------------------------------------------------------------------------
\* Which calls are in progress after one starts, and after one returns.
LEMMA ActivePush ==
    ASSUME TypeOK, NEW p \in Thread, NEW n \in Node, NEW m \in Node, NEW t, NEW nested,
           Pushes(p, n, m, t, nested), NEW y
    PROVE  Active(y)' <=> Active(y) \/ y = m
<1> DEFINE f == [driver |-> n, tx |-> m]
<1>1. f \in Frame /\ f.tx = m /\ frames' = [frames EXCEPT ![p] = Append(@, f)]
  BY DEF Frame, Pushes
<1> HIDE DEF f
<1>2. /\ \A q \in Thread : q # p => Depth(q)' = Depth(q)
      /\ Depth(p)' = Depth(p) + 1
      /\ frames'[p][Depth(p) + 1] = f
      /\ \A q \in Thread : \A i \in 1..Depth(q) : frames'[q][i] = frames[q][i]
  BY <1>1, Pushed
<1>3. \A q \in Thread : Depth(q) \in Nat
  BY FrameFacts
<1>4. ASSUME Active(y)
      PROVE  Active(y)'
  BY <1>2, <1>3, <1>4 DEF Active
<1>5. Active(m)'
  <2>1. Depth(p) + 1 \in 1..(Depth(p)')
    BY <1>2, <1>3
  <2> QED
    BY <1>1, <1>2, <2>1 DEF Active
<1>6. ASSUME Active(y)', y # m
      PROVE  Active(y)
  <2>1. PICK q \in Thread : \E i \in 1..(Depth(q)') : frames'[q][i].tx = y
    BY <1>6 DEF Active
  <2>2. PICK i \in 1..(Depth(q)') : frames'[q][i].tx = y
    BY <2>1
  <2>3. i \in 1..Depth(q)
    <3>1. CASE q # p
      BY <1>2, <2>2, <3>1
    <3>2. CASE q = p
      <4>1. i # Depth(p) + 1
        BY <1>1, <1>2, <1>6, <2>2, <3>2
      <4> QED
        BY <1>2, <1>3, <2>2, <3>2, <4>1
    <3> QED
      BY <3>1, <3>2
  <2> QED
    BY <1>2, <2>2, <2>3 DEF Active
<1> QED
  BY <1>4, <1>5, <1>6

LEMMA ActivePop ==
    ASSUME TypeOK, Apart, NEW p \in Thread, NEW result, Pops(p, result),
           NEW x, x = Top(p).tx, NEW y
    PROVE  Active(y)' <=> Active(y) /\ y # x
<1>1. frames[p] # <<>> /\ frames' = [frames EXCEPT ![p] = SubSeq(@, 1, Depth(p) - 1)]
  BY DEF Pops, InHandler, Return
<1>2. /\ \A q \in Thread : q # p => Depth(q)' = Depth(q)
      /\ Depth(p)' = Depth(p) - 1
      /\ \A q \in Thread : \A i \in 1..(Depth(q)') :
             i \in 1..Depth(q) /\ frames'[q][i] = frames[q][i]
  BY <1>1, Popped
<1>3. (\A q \in Thread : Depth(q) \in Nat) /\ Depth(p) # 0
  BY <1>1, FrameFacts
<1>4. x = frames[p][Depth(p)].tx /\ Depth(p) \in 1..Depth(p)
  BY <1>3 DEF Top
<1>5. ASSUME Active(y)'
      PROVE  Active(y) /\ y # x
  <2>1. PICK q \in Thread : \E i \in 1..(Depth(q)') : frames'[q][i].tx = y
    BY <1>5 DEF Active
  <2>2. PICK i \in 1..(Depth(q)') : frames'[q][i].tx = y
    BY <2>1
  <2>3. i \in 1..Depth(q) /\ frames[q][i].tx = y /\ (q = p => i # Depth(p))
    BY <1>2, <1>3, <2>2
  <2> QED
    BY <1>4, <2>3 DEF Active, Apart
<1>6. ASSUME Active(y), y # x
      PROVE  Active(y)'
  <2>1. PICK q \in Thread : \E i \in 1..Depth(q) : frames[q][i].tx = y
    BY <1>6 DEF Active
  <2>2. PICK i \in 1..Depth(q) : frames[q][i].tx = y
    BY <2>1
  <2>3. i \in 1..(Depth(q)')
    BY <1>2, <1>3, <1>4, <1>6, <2>2
  <2> QED
    BY <1>2, <2>2, <2>3 DEF Active
<1> QED
  BY <1>5, <1>6

\* A call stays in order while its clone, its session and its scope do.
LEMMA CallSurvives ==
    ASSUME TypeOK, NEW p \in Thread, NEW i \in 1..Depth(p),
           NEW m \in Node, NEW d \in Node, NEW t \in Node, CallOK(p, i, m, d, t),
           \A k \in 1..i : frames'[p][k] = frames[p][k],
           \A x \in scope[m] : node'[x] = node[x],
           scope'[m] = scope[m], scope'[d] = scope[d], outcome'[m] = outcome[m],
           born \subseteq born', Used(t)', ~Used(m) => ~Used(m)'
    PROVE  CallOK(p, i, m, d, t)'
<1>1. node'[m] = node[m]
  BY DEF CallOK, InScope
<1>2. Depth(p) \in Nat
  BY FrameFacts
<1>3. InSession(p, i, m, t)'
  BY <1>1 DEF CallOK, InSession
<1>4. InScope(p, i, m, t)'
  BY DEF CallOK, InScope
<1>5. Placed(p, i, m, d, t)'
  BY <1>1, <1>2 DEF CallOK, Placed
<1> QED
  BY <1>3, <1>4, <1>5 DEF CallOK

\* While no call starts or returns, the calls in progress stay in order.
LEMMA StillCalls ==
    ASSUME TypeOK, CallsInv, Still
    PROVE  CallsInv'
<1>1. /\ UNCHANGED <<frames, node, born, outcome, scope>>
      /\ \A u \in Node : (Used(u)' <=> Used(u)) /\ (Held(u)' => Held(u))
      /\ \A q \in Thread : Depth(q)' = Depth(q)
      /\ \A u \in Node : Active(u)' <=> Active(u)
  BY DEF Still, Keeps, Depth, Active
<1>2. CallsOK'
  <2> SUFFICES ASSUME NEW q \in Thread, NEW i \in 1..Depth(q)
               PROVE  CallOK(q, i, frames[q][i].tx, frames[q][i].driver, node[frames[q][i].tx].tx)'
    BY <1>1 DEF CallsOK
  <2>1. PICK m \in Node, d \in Node, t \in Node :
            m = frames[q][i].tx /\ d = frames[q][i].driver /\ t = node[m].tx
    BY FrameFacts, ActiveFacts
  <2>2. CallOK(q, i, m, d, t) /\ Used(t)
    BY <2>1 DEF CallsInv, CallsOK, CallOK, InSession
  <2>3. CallOK(q, i, m, d, t)'
    BY <1>1, <2>2, CallSurvives
  <2> QED
    BY <1>1, <2>1, <2>3, Zenon DEF CallOK, InSession, InScope, Placed
<1>3. Apart'
  BY <1>1 DEF CallsInv, Apart
<1>4. WaitOK'
  <2>1. CASE waiting' = waiting
    BY <1>1, <2>1 DEF CallsInv, WaitOK
  <2>2. ASSUME NEW p \in Thread, NEW d \in Driver(p) \cup {None},
               waiting' = [waiting EXCEPT ![p] = d]
        PROVE  WaitOK'
    <3>1. waiting'[p] = d /\ \A q \in Thread \ {p} : waiting'[q] = waiting[q]
      BY <2>2 DEF TypeOK
    <3>2. d \in {None, Pool} \/ \E k \in 1..Depth(p) : frames[p][k].tx = d
      BY DriverFacts
    <3> QED
      BY <1>1, <3>1, <3>2 DEF CallsInv, WaitOK
  <2> QED
    BY <2>1, <2>2 DEF Still, Waits
<1>5. Fresh'
  BY <1>1 DEF CallsInv, Fresh, Still, TypeOK, NodeTypeOK
<1>6. PoolOK'
  BY <1>1, PoolAssumption DEF CallsInv, PoolOK
<1>7. Rooted'
  BY <1>1 DEF CallsInv, Rooted, TypeOK
<1>8. Returned'
  BY <1>1 DEF CallsInv, Returned
<1> QED
  BY <1>2, <1>3, <1>4, <1>5, <1>6, <1>7, <1>8 DEF CallsInv

\* A call that starts has a clone of its own, in a session of its own or in that
\* of the call it was begun in.
LEMMA PushCalls ==
    ASSUME TypeOK, TypeOK', CallsInv, NEW p \in Thread, NEW n \in Node, NEW m \in Node,
           NEW t \in Node, NEW nested \in BOOLEAN, Pushes(p, n, m, t, nested),
           \A u \in Node \ {m} : (Used(u)' <=> Used(u)) /\ (Held(u)' => Held(u)),
           IF nested
           THEN ~Used(m)' /\ \E k \in 1..Depth(p) : frames[p][k].tx = n /\ t = node[n].tx
           ELSE n = Pool /\ t = m /\ Used(m)'
    PROVE  CallsInv'
<1> DEFINE f == [driver |-> n, tx |-> m]
<1>1. f \in Frame /\ f.tx = m /\ f.driver = n /\ frames' = [frames EXCEPT ![p] = Append(@, f)]
  BY DEF Frame, Pushes
<1> HIDE DEF f
<1>2. /\ \A q \in Thread : q # p => Depth(q)' = Depth(q)
      /\ Depth(p)' = Depth(p) + 1
      /\ frames'[p][Depth(p) + 1] = f
      /\ \A q \in Thread : \A i \in 1..Depth(q) : frames'[q][i] = frames[q][i]
  BY <1>1, Pushed
<1>3. \A q \in Thread : Depth(q) \in Nat
  BY FrameFacts
<1>4. PICK j \in Nat : /\ j = Depth(p) + 1 /\ j \in 1..(Depth(p)') /\ frames'[p][j] = f
                       /\ j \in 1..j /\ \A l \in 1..Depth(p) : l \in 1..(j - 1) /\ l \in 1..j
  BY <1>2, <1>3
<1>5. /\ node'[m].tx = t /\ node'[m].savePointEnabled = Savepoints
      /\ (node'[m].nested <=> nested)
      /\ node'[m].savePointID = IF nested /\ Savepoints THEN m ELSE None
  BY DEF Pushes, Clones
<1>6. /\ m \notin born /\ born' = born \cup {m} /\ UNCHANGED <<outcome, wrote>>
      /\ scope'[m] = {m} \cup scope[n] /\ \A u \in Node \ {m} : scope'[u] = scope[u]
      /\ \A u \in Node \ {m} : node'[u] = node[u]
      /\ waiting'[p] = None /\ \A q \in Thread \ {p} : waiting'[q] = waiting[q]
  BY DEF Pushes, Clones, TypeOK
<1>7. /\ \A u \in Node \ born : ~Used(u) /\ scope[u] = {} /\ outcome[u] = "none" /\ u \notin wrote
      /\ \A u \in Node : scope[u] \subseteq born \ {Pool}
      /\ \A u \in born \ {Pool} : Active(u) \/ outcome[u] # "none"
      /\ Pool \in born /\ m # Pool /\ scope[Pool] = {}
  BY <1>6 DEF CallsInv, Fresh, PoolOK
<1>8. \A u \in Node : Active(u)' <=> Active(u) \/ u = m
  BY ActivePush
<1>9. \A q \in Thread : \A i \in 1..Depth(q) :
          frames[q][i].tx \in born \ {Pool, m} /\ frames[q][i].tx \in Node
  BY <1>6, ActiveFacts
<1>10. ASSUME NEW q \in Thread, NEW i \in 1..(Depth(q)')
      PROVE  i \in 1..Depth(q) \/ (q = p /\ i = j)
  <2>1. CASE q # p
    BY <1>2, <2>1
  <2>2. CASE q = p
    BY <1>2, <1>3, <1>4, <2>2
  <2> QED
    BY <2>1, <2>2
<1>11. \A q \in Thread : \A i \in 1..Depth(q) : i \in 1..(Depth(q)')
  BY <1>2, <1>3
<1>12. ASSUME NEW q \in Thread, NEW i \in 1..Depth(q)
       PROVE  CallOK(q, i, frames[q][i].tx, frames[q][i].driver, node[frames[q][i].tx].tx)'
  <2>1. PICK m1 \in Node, d1 \in Node, t1 \in Node :
            m1 = frames[q][i].tx /\ d1 = frames[q][i].driver /\ t1 = node[m1].tx
    BY FrameFacts, ActiveFacts
  <2>2. CallOK(q, i, m1, d1, t1) /\ Used(t1) /\ t1 \in scope[m1]
    BY <2>1 DEF CallsInv, CallsOK, CallOK, InSession, InScope
  <2>3. m1 # m /\ t1 # m
    BY <1>6, <1>7, <1>9, <2>1, <2>2
  <2>4. d1 # m
    <3>1. d1 = Pool \/ \E k \in 1..(i - 1) : frames[q][k].tx = d1
      BY <2>2 DEF CallOK, Placed
    <3>2. \A k \in 1..(i - 1) : k \in 1..Depth(q)
      BY <1>3
    <3> QED
      BY <1>7, <1>9, <3>1, <3>2
  <2>5. \A x \in scope[m1] : node'[x] = node[x]
    BY <1>6, <1>7, TypeOK DEF TypeOK
  <2>6. \A k \in 1..i : frames'[q][k] = frames[q][k]
    BY <1>2, <1>3
  <2>7. CallOK(q, i, m1, d1, t1)'
    BY <1>6, <2>2, <2>3, <2>4, <2>5, <2>6, CallSurvives
  <2>8. m1 = frames'[q][i].tx /\ d1 = frames'[q][i].driver /\ t1 = node'[m1].tx
    BY <1>2, <1>6, <2>1, <2>3
  <2> QED
    BY <2>7, <2>8, Zenon DEF CallOK, InSession, InScope, Placed
<1>13. /\ {m, t} \subseteq scope'[m]
       /\ \A x \in scope'[m] : node'[x].tx = t /\ \E k \in 1..j : frames'[p][k].tx = x
       /\ t \in Node /\ Used(t)' /\ \E k \in 1..j : frames'[p][k].tx = t
  <2>1. node'[m].tx = t /\ frames'[p][j].tx = m /\ j \in 1..j
    BY <1>1, <1>4, <1>5
  <2>2. CASE nested
    <3>1. PICK k \in 1..Depth(p) : frames[p][k].tx = n /\ t = node[n].tx
      BY <2>2
    <3>2. InSession(p, k, n, t) /\ InScope(p, k, n, t)
      BY <3>1 DEF CallsInv, CallsOK, CallOK
    <3>3. \A l \in 1..k : l \in 1..j /\ frames'[p][l] = frames[p][l]
      BY <1>2, <1>3, <1>4
    <3>4. t \in scope[n] /\ Used(t)' /\ \E l \in 1..k : frames[p][l].tx = t
      BY <1>6, <1>7, <3>2 DEF InSession, InScope
    <3>5. \A x \in scope[n] : x # m /\ x \in Node
      BY <1>6, <1>7 DEF TypeOK
    <3>6. \A x \in scope[n] : node'[x].tx = t /\ \E l \in 1..k : frames'[p][l].tx = x
      BY <1>6, <3>2, <3>3, <3>5 DEF InScope
    <3> QED
      BY <1>6, <2>1, <3>3, <3>4, <3>6
  <2>3. CASE ~nested
    BY <1>6, <1>7, <2>1, <2>3
  <2> QED
    BY <2>2, <2>3
<1>14. CallOK(p, j, m, n, t)'
  <2>1. InSession(p, j, m, t)' /\ InScope(p, j, m, t)'
    BY <1>6, <1>7, <1>13, <1>5 DEF InSession, InScope
  <2>2. Placed(p, j, m, n, t)'
    <3>1. CASE nested
      <4>1. PICK k \in 1..Depth(p) : frames[p][k].tx = n /\ t = node[n].tx
        BY <3>1
      <4>2. n # m /\ t # m
        <5>1. t \in born
          <6>1. t \in scope[n]
            BY <4>1 DEF CallsInv, CallsOK, CallOK, InScope
          <6> QED
            BY <1>7, <6>1
        <5> QED
          BY <1>6, <1>9, <4>1, <5>1
      <4>3. k \in 1..(j - 1) /\ frames'[p][k].tx = n
        BY <1>2, <1>3, <1>4, <4>1
      <4> QED
        BY <1>6, <1>5, <3>1, <4>2, <4>3 DEF Placed
    <3>2. CASE ~nested
      BY <1>5, <3>2 DEF Placed
    <3> QED
      BY <3>1, <3>2
  <2> QED
    BY <2>1, <2>2 DEF CallOK
<1>15. CallsOK'
  <2> SUFFICES ASSUME NEW q \in Thread, NEW i \in 1..(Depth(q)')
               PROVE  CallOK(q, i, frames[q][i].tx, frames[q][i].driver, node[frames[q][i].tx].tx)'
    BY DEF CallsOK
  <2>1. CASE i \in 1..Depth(q)
    BY <1>12, <2>1
  <2>2. CASE q = p /\ i = j
    <3>1. m = frames'[q][i].tx /\ n = frames'[q][i].driver /\ t = node'[m].tx
      BY <1>1, <1>4, <1>5, <2>2
    <3>2. CallOK(q, i, m, n, t)'
      BY <1>14, <2>2
    <3> QED
      BY <3>1, <3>2, Zenon DEF CallOK, InSession, InScope, Placed
  <2> QED
    BY <1>10, <2>1, <2>2
<1>16. Apart'
  <2> SUFFICES ASSUME NEW q1 \in Thread, NEW i1 \in 1..(Depth(q1)'),
                      NEW q2 \in Thread, NEW i2 \in 1..(Depth(q2)'),
                      frames'[q1][i1].tx = frames'[q2][i2].tx
               PROVE  q1 = q2 /\ i1 = i2
    BY DEF Apart
  <2>1. \/ /\ i1 \in 1..Depth(q1) /\ frames'[q1][i1].tx = frames[q1][i1].tx
           /\ frames[q1][i1].tx # m
        \/ q1 = p /\ i1 = j /\ frames'[q1][i1].tx = m
    BY <1>1, <1>2, <1>9, <1>10, <1>4
  <2>2. \/ /\ i2 \in 1..Depth(q2) /\ frames'[q2][i2].tx = frames[q2][i2].tx
           /\ frames[q2][i2].tx # m
        \/ q2 = p /\ i2 = j /\ frames'[q2][i2].tx = m
    BY <1>1, <1>2, <1>9, <1>10, <1>4
  <2> QED
    BY <2>1, <2>2 DEF CallsInv, Apart
<1>17. WaitOK'
  BY <1>2, <1>6, <1>11 DEF CallsInv, WaitOK
<1>18. Fresh'
  <2>1. \A u \in Node \ born' : ~Used(u)' /\ scope'[u] = {} /\ outcome'[u] = "none" /\ u \notin wrote'
    BY <1>6, <1>7
  <2>2. \A u \in Node : scope'[u] \subseteq born' \ {Pool}
    BY <1>6, <1>7
  <2>3. \A u \in born' \ {Pool} : Active(u)' \/ outcome'[u] # "none"
    BY <1>6, <1>7, <1>8 DEF TypeOK, NodeTypeOK
  <2> QED
    BY <2>1, <2>2, <2>3 DEF Fresh
<1>19. PoolOK'
  BY <1>6, <1>7, PoolAssumption DEF CallsInv, PoolOK
<1>20. Rooted'
  <2> SUFFICES ASSUME NEW w \in Node, scope'[w] # {}
               PROVE  \E r \in scope'[w] : /\ Used(r)'
                          /\ \A x \in scope'[w] : r \in scope'[x] /\ (x # r => ~Used(x)')
    BY DEF Rooted
  <2>1. CASE w # m
    <3>1. PICK r \in scope[w] : Used(r) /\ \A x \in scope[w] : r \in scope[x] /\ (x # r => ~Used(x))
      BY <1>6, <2>1 DEF CallsInv, Rooted
    <3>2. \A x \in scope[w] : x \in Node /\ x # m
      BY <1>6, <1>7 DEF TypeOK
    <3> QED
      BY <1>6, <2>1, <3>1, <3>2
  <2>2. CASE w = m
    <3>1. /\ Used(t)' /\ t \in scope'[m]
      BY <1>13
    <3>2. CASE nested
      <4>1. PICK k \in 1..Depth(p) : frames[p][k].tx = n /\ t = node[n].tx
        BY <3>2
      <4>2. t \in scope[n] /\ Used(t)
        BY <4>1 DEF CallsInv, CallsOK, CallOK, InSession, InScope
      <4>3. \A x \in scope[n] : t \in scope[x] /\ (x # t => ~Used(x))
        BY <4>2 DEF CallsInv, Rooted
      <4> QED
        BY <1>6, <1>7, <2>2, <3>1, <3>2, <4>3 DEF TypeOK
    <3>3. CASE ~nested
      BY <1>6, <1>7, <2>2, <3>1, <3>3
    <3> QED
      BY <3>2, <3>3
  <2> QED
    BY <2>1, <2>2
<1>21. Returned'
  BY <1>6, <1>8 DEF CallsInv, Returned
<1> QED
  BY <1>15, <1>16, <1>17, <1>18, <1>19, <1>20, <1>21 DEF CallsInv

\* The innermost call is the only one in progress that uses its clone: when it
\* returns, the others stay in order.
LEMMA PopCalls ==
    ASSUME TypeOK, TypeOK', CallsInv, NEW p \in Thread, NEW result,
           Pops(p, result), Keeps, result # "none",
           NEW x, x = Top(p).tx, result = "panic" \/ ~Held(x)'
    PROVE  CallsInv'
<1>1. /\ frames[p] # <<>> /\ waiting[p] = None /\ waiting' = waiting
      /\ frames' = [frames EXCEPT ![p] = SubSeq(@, 1, Depth(p) - 1)]
      /\ outcome' = [outcome EXCEPT ![x] = result]
      /\ UNCHANGED <<scope, wrote, born>>
  BY DEF Pops, InHandler, Return
<1>2. /\ \A q \in Thread : q # p => Depth(q)' = Depth(q)
      /\ Depth(p)' = Depth(p) - 1
      /\ \A q \in Thread : \A i \in 1..(Depth(q)') :
             i \in 1..Depth(q) /\ frames'[q][i] = frames[q][i]
  BY <1>1, Popped
<1>3. (\A q \in Thread : Depth(q) \in Nat) /\ Depth(p) # 0
  BY <1>1, FrameFacts
<1>4. PICK j \in 1..Depth(p) : j = Depth(p) /\ x = frames[p][j].tx
  BY <1>3 DEF Top
<1>5. x \in Node /\ x \in born \ {Pool} /\ Active(x)
  BY <1>4, ActiveFacts DEF Active
<1>6. /\ \A u \in Node \ {x} : node'[u] = node[u] /\ outcome'[u] = outcome[u]
      /\ outcome'[x] = result
  BY <1>1, <1>5 DEF Pops, TypeOK, NodeTypeOK
<1>7. \A u \in Node : (Used(u)' <=> Used(u)) /\ (Held(u)' => Held(u))
  BY DEF Keeps
<1>8. \A u \in Node : Active(u)' <=> Active(u) /\ u # x
  BY ActivePop DEF CallsInv
<1>9. \A q \in Thread : \A i \in 1..(Depth(q)') : \A k \in 1..i :
          /\ k \in 1..(Depth(q)') /\ k \in 1..Depth(q)
          /\ frames'[q][k] = frames[q][k] /\ frames[q][k].tx # x
  <2> SUFFICES ASSUME NEW q \in Thread, NEW i \in 1..(Depth(q)'), NEW k \in 1..i
               PROVE  /\ k \in 1..(Depth(q)') /\ k \in 1..Depth(q)
                      /\ frames'[q][k] = frames[q][k] /\ frames[q][k].tx # x
    OBVIOUS
  <2>1. k \in 1..(Depth(q)')
    <3>1. Depth(q)' \in Nat
      BY <1>2, <1>3, FrameFacts
    <3> QED
      BY <3>1
  <2>2. k \in 1..Depth(q) /\ frames'[q][k] = frames[q][k]
    BY <1>2, <2>1
  <2>3. ~(q = p /\ k = j)
    BY <1>2, <1>3, <1>4, <2>1
  <2> QED
    BY <1>4, <2>1, <2>2, <2>3 DEF CallsInv, Apart
<1>10. CallsOK'
  <2> SUFFICES ASSUME NEW q \in Thread, NEW i \in 1..(Depth(q)')
               PROVE  CallOK(q, i, frames[q][i].tx, frames[q][i].driver, node[frames[q][i].tx].tx)'
    BY DEF CallsOK
  <2>1. i \in 1..Depth(q) /\ frames'[q][i] = frames[q][i] /\ i \in 1..i /\ Depth(q) \in Nat
    BY <1>2, <1>3
  <2>2. PICK m \in Node, d \in Node, t \in Node :
            m = frames[q][i].tx /\ d = frames[q][i].driver /\ t = node[m].tx
    BY <2>1, FrameFacts, ActiveFacts
  <2>3. CallOK(q, i, m, d, t) /\ Used(t) /\ m # x
    BY <1>9, <2>1, <2>2 DEF CallsInv, CallsOK, CallOK, InSession
  <2>4. \A y \in scope[m] : node'[y] = node[y]
    <3>1. \A y \in scope[m] : y \in Node /\ \E k \in 1..i : frames[q][k].tx = y
      BY <2>3 DEF CallOK, InScope, TypeOK
    <3> QED
      BY <1>6, <1>9, <3>1
  <2>5. CallOK(q, i, m, d, t)'
    BY <1>1, <1>6, <1>7, <1>9, <2>1, <2>3, <2>4, CallSurvives, Zenon
  <2>6. m = frames'[q][i].tx /\ d = frames'[q][i].driver /\ t = node'[m].tx
    BY <1>6, <2>1, <2>2, <2>3
  <2> QED
    BY <2>5, <2>6, Zenon DEF CallOK, InSession, InScope, Placed
<1>11. Apart'
  BY <1>2 DEF CallsInv, Apart
<1>12. WaitOK'
  <2> SUFFICES ASSUME NEW q \in Thread
               PROVE  waiting'[q] \in {None, Pool} \/ \E k \in 1..(Depth(q)') : frames'[q][k].tx = waiting'[q]
    BY DEF WaitOK
  <2>1. CASE q = p
    BY <1>1, <2>1
  <2>2. CASE q # p
    BY <1>1, <1>2, <2>2 DEF CallsInv, WaitOK
  <2> QED
    BY <2>1, <2>2
<1>13. Fresh'
  BY <1>1, <1>5, <1>6, <1>7, <1>8 DEF CallsInv, Fresh, TypeOK, NodeTypeOK
<1>14. PoolOK'
  BY <1>1, <1>5, <1>6, <1>7, PoolAssumption DEF CallsInv, PoolOK
<1>15. Rooted'
  BY <1>1, <1>7 DEF CallsInv, Rooted, TypeOK
<1>16. Returned'
  BY <1>6, <1>7, <1>8 DEF CallsInv, Returned
<1> QED
  BY <1>10, <1>11, <1>12, <1>13, <1>14, <1>15, <1>16 DEF CallsInv

LEMMA CallsStep ==
    ASSUME TypeOK, TypeOK', CallsInv, [Next]_vars
    PROVE  CallsInv'
<1>1. Kinds
  BY StepKinds
<1>2. ASSUME NEW p \in Thread, NEW m \in Node, Opens(p, m)
      PROVE  CallsInv'
  <2>1. /\ session[m].state = "idle" /\ session'[m].state = "open"
        /\ \A u \in Node \ {m} : session'[u] = session[u]
    BY <1>2, BeginHoldsOne DEF Opens, TypeOK
  <2>2. Used(m)' /\ \A u \in Node \ {m} : (Used(u)' <=> Used(u)) /\ (Held(u)' => Held(u))
    BY <2>1 DEF Used, Held
  <2>3. Pushes(p, Pool, m, m, FALSE)
    BY <1>2 DEF Opens
  <2> QED
    BY <2>2, <2>3, PushCalls, PoolAssumption
<1>3. ASSUME NEW p \in Thread, NEW k \in 1..Depth(p), NEW m \in Node, Nests(p, k, m)
      PROVE  CallsInv'
  <2>1. PICK n \in Node, t \in Node : n = frames[p][k].tx /\ t = node[n].tx
    BY ActiveFacts
  <2>2. Pushes(p, n, m, t, TRUE) /\ m \notin born
    BY <1>3, <2>1 DEF Nests, Pushes
  <2>3. /\ ~Used(m)'
        /\ \A u \in Node \ {m} : (Used(u)' <=> Used(u)) /\ (Held(u)' => Held(u))
    BY <1>3, <2>2, NestsKeeps DEF Keeps, CallsInv, Fresh
  <2> QED
    BY <2>1, <2>2, <2>3, PushCalls
<1>4. ASSUME NEW p \in Thread, NEW result \in {"nil", "handlerError", "commitError", "panic"},
             Ends(p, result)
      PROVE  CallsInv'
  <2>1. PICK x : x = Top(p).tx
    OBVIOUS
  <2>2. Keeps /\ (result = "panic" \/ ~Held(x)') /\ Pops(p, result)
    BY <1>4, <2>1, EndsKeeps DEF Ends
  <2>3. result # "none"
    OBVIOUS
  <2> QED
    BY <2>1, <2>2, <2>3, PopCalls
<1>5. CASE Still
  BY <1>5, StillCalls
<1> QED
  BY <1>1, <1>2, <1>3, <1>4, <1>5, StillKinds DEF Kinds

------------------------------------------------------------------------------
\* The state of Transaction is well typed, and the calls in progress nest properly:
\* each has a clone of its own, whose session was opened by the outermost call of
\* its scope and is still in use.
THEOREM CallsNest == Spec => [](TypeOK /\ CallsInv)
<1>1. Init => TypeOK /\ CallsInv
  <2> SUFFICES ASSUME Init
               PROVE  TypeOK /\ CallsInv
    OBVIOUS
  <2> USE PoolAssumption, SavepointsAssumption DEF Init, NodeInit, DbInit
  <2>1. <<>> \in Seq(Frame) /\ <<>> \in Seq(Layer)
    OBVIOUS
  <2>2. \A p \in Thread : Depth(p) = 0
    BY DEF Depth
  <2>3. NodeTypeOK
    BY DEF NodeTypeOK, NodeFields
  <2>4. DbTypeOK
    BY <2>1 DEF DbTypeOK, Session
  <2>5. TypeOK
    BY <2>1, <2>3, <2>4 DEF TypeOK
  <2>6. CallsOK /\ Apart
    BY <2>2 DEF CallsOK, Apart
  <2>7. WaitOK
    BY DEF WaitOK
  <2>8. Fresh /\ PoolOK
    BY DEF Fresh, PoolOK, Used
  <2>9. Rooted /\ Returned
    BY DEF Rooted, Returned, Held
  <2> QED
    BY <2>5, <2>6, <2>7, <2>8, <2>9 DEF CallsInv
<1>2. TypeOK /\ CallsInv /\ [Next]_vars => TypeOK' /\ CallsInv'
  BY TypeStep, CallsStep
<1> QED
  BY <1>1, <1>2, PTL DEF Spec

\* Whatever the handlers do, the state is well typed.
THEOREM TypeCorrect == Spec => []TypeOK
BY CallsNest, PTL

\* A connection in use belongs to a Transaction call that is
\* still in progress, or that panicked: every other return, with or without an
\* error of the database, gives it back.
THEOREM NoConnectionKept == Spec => []ConnectionsReturned
<1>1. TypeOK /\ CallsInv => ConnectionsReturned
  BY FrameFacts DEF CallsInv, Returned, Active, ConnectionsReturned
<1> QED
  BY <1>1, CallsNest, PTL

------------------------------------------------------------------------------
\* The savepoints: what a failed Transaction call wrote never becomes durable.

\* The first layer is the transaction's own; each other one belongs to one call,
\* which works in t while it is in progress.
Shape(t) ==
    /\ 1 \in 1..Size(t) /\ Sp(t, 1) = None
    /\ \A j \in 2..Size(t) : /\ Sp(t, j) \in born \ {t}
                             /\ Active(Sp(t, j)) => node[Sp(t, j)].tx = t
    /\ \A i, j \in 1..Size(t) : Sp(t, i) = Sp(t, j) => i = j

\* The calls of a goroutine own layers in the order of the calls.
Ordered(t) ==
    \A p \in Thread : \A i, k \in 1..Depth(p) : \A a, b \in 1..Size(t) :
        i < k /\ Sp(t, a) = frames[p][i].tx /\ Sp(t, b) = frames[p][k].tx => a < b

\* A write lies in the layer of its call, or above: undoing any call of its scope
\* that is still in progress takes it away.
WriteOK(t, j, w) ==
    /\ w \in wrote /\ t \in scope[w]
    /\ \A x \in scope[w] : Active(x) =>
           node[x].tx = t /\ \A a \in 1..Size(t) : Sp(t, a) = x => a <= j

WritesOK(t) == \A j \in 1..Size(t) : \A w \in Wr(t, j) : WriteOK(t, j, w)

\* The layers whose writes may still become durable: all, while the server
\* accepts statements; those below the savepoint of a call in progress, when it
\* waits for a ROLLBACK TO.
Survives(t, j) ==
    \/ session[t].state = "open"
    \/ /\ session[t].state = "aborted"
       /\ \E a \in (j + 1)..Size(t) : Active(Sp(t, a))

\* They hold no write of a call that failed.
CleanAt(t, j) ==
    /\ \A w \in Wr(t, j) : \A m \in scope[w] : outcome[m] \in {"none", "nil", "panic"}
    /\ j # 1 => Active(Sp(t, j)) \/ outcome[Sp(t, j)] \in {"handlerError", "panic"}

Clean(t) == \A j \in 1..Size(t) : Survives(t, j) => CleanAt(t, j)

\* A nested call in progress has its layer.
OnStack == \A x \in Node : Active(x) /\ node[x].tx # x =>
    \E j \in 2..Size(node[x].tx) : Sp(node[x].tx, j) = x

\* The calls in the scope of a durable write have all returned, and none failed
\* but for the COMMIT of the outermost.
SavedOK(w, m) == /\ ~Active(m)
                 /\ IF Used(m) THEN outcome[m] \in {"nil", "commitError"}
                               ELSE outcome[m] \in {"nil", "panic"}
Saved == durable \subseteq wrote /\ \A w \in durable : \A m \in scope[w] : SavedOK(w, m)

StackOK(t) == Shape(t) /\ Ordered(t) /\ WritesOK(t) /\ Clean(t)
StackInv == (\A t \in Node : Used(t) => StackOK(t)) /\ OnStack /\ Saved

------------------------------------------------------------------------------
LEMMA ActiveCall ==
    ASSUME TypeOK, CallsInv, NEW x, Active(x)
    PROVE  /\ x \in born \ {Pool} /\ x \in Node /\ outcome[x] = "none"
           /\ node[x].tx \in Node /\ Used(node[x].tx)
           /\ x # node[x].tx => ~Used(x)
<1>1. PICK p \in Thread : \E i \in 1..Depth(p) : frames[p][i].tx = x
  BY DEF Active
<1>2. PICK i \in 1..Depth(p) : frames[p][i].tx = x
  BY <1>1
<1> QED
  BY <1>2, ActiveFacts

\* How calls, scopes and clones evolve, whatever the step.
Evolves ==
    /\ born \subseteq born' /\ wrote \subseteq wrote'
    /\ \A y \in born : /\ scope'[y] = scope[y]
                       /\ Active(y)' => Active(y) /\ node'[y] = node[y]
    /\ \A q \in Thread : \A i, k \in 1..(Depth(q)') :
           i < k /\ frames'[q][k].tx \in born =>
               /\ i \in 1..Depth(q) /\ frames'[q][i] = frames[q][i]
               /\ k \in 1..Depth(q) /\ frames'[q][k] = frames[q][k]

LEMMA StillEvolves ==
    ASSUME TypeOK, CallsInv, Still
    PROVE  Evolves
<1>1. UNCHANGED <<frames, node, born, scope>> /\ wrote \subseteq wrote'
  BY DEF Still
<1>2. \A q \in Thread : Depth(q)' = Depth(q)
  BY <1>1 DEF Depth
<1>3. \A y : Active(y)' <=> Active(y)
  BY <1>1, <1>2 DEF Active
<1> QED
  BY <1>1, <1>2, <1>3 DEF Evolves

LEMMA PushEvolves ==
    ASSUME TypeOK, CallsInv, NEW p \in Thread, NEW n \in Node, NEW m \in Node,
           NEW t, NEW nested, Pushes(p, n, m, t, nested)
    PROVE  Evolves
<1> DEFINE f == [driver |-> n, tx |-> m]
<1>1. f \in Frame /\ f.tx = m /\ frames' = [frames EXCEPT ![p] = Append(@, f)]
  BY DEF Frame, Pushes
<1> HIDE DEF f
<1>2. /\ \A q \in Thread : q # p => Depth(q)' = Depth(q)
      /\ Depth(p)' = Depth(p) + 1
      /\ frames'[p][Depth(p) + 1] = f
      /\ \A q \in Thread : \A i \in 1..Depth(q) : frames'[q][i] = frames[q][i]
  BY <1>1, Pushed
<1>3. \A q \in Thread : Depth(q) \in Nat
  BY FrameFacts
<1>4. /\ m \notin born /\ born' = born \cup {m} /\ wrote' = wrote
      /\ \A u \in Node \ {m} : scope'[u] = scope[u] /\ node'[u] = node[u]
  BY DEF Pushes, Clones, TypeOK
<1>5. \A y \in Node : Active(y)' <=> Active(y) \/ y = m
  BY ActivePush
<1>6. ASSUME NEW q \in Thread, NEW i \in 1..(Depth(q)'), NEW k \in 1..(Depth(q)'),
             i < k, frames'[q][k].tx \in born
      PROVE  i \in 1..Depth(q) /\ k \in 1..Depth(q)
  <2>1. CASE q # p
    BY <1>2, <2>1
  <2>2. CASE q = p
    <3>1. k # Depth(p) + 1
      BY <1>1, <1>2, <1>4, <1>6, <2>2
    <3> QED
      BY <1>2, <1>3, <1>6, <2>2, <3>1
  <2> QED
    BY <2>1, <2>2
<1>7. \A y \in born : y \in Node \ {m}
  BY <1>4 DEF TypeOK, NodeTypeOK
<1> QED
  BY <1>2, <1>4, <1>5, <1>6, <1>7 DEF Evolves

LEMMA PopEvolves ==
    ASSUME TypeOK, CallsInv, NEW p \in Thread, NEW result, Pops(p, result)
    PROVE  Evolves
<1>1. PICK x : x = Top(p).tx
  OBVIOUS
<1>2. /\ frames[p] # <<>> /\ UNCHANGED <<scope, wrote, born>>
      /\ frames' = [frames EXCEPT ![p] = SubSeq(@, 1, Depth(p) - 1)]
      /\ node' \in {node, [node EXCEPT ![x].tx = None]}
  BY <1>1 DEF Pops, InHandler, Return
<1>3. \A u \in Node \ {x} : node'[u] = node[u]
  BY <1>2 DEF TypeOK, NodeTypeOK
<1>4. \A y \in Node : Active(y)' <=> Active(y) /\ y # x
  BY <1>1, ActivePop DEF CallsInv
<1>5. \A q \in Thread : \A i \in 1..(Depth(q)') :
          i \in 1..Depth(q) /\ frames'[q][i] = frames[q][i]
  BY <1>2, Popped
<1> QED
  BY <1>2, <1>3, <1>4, <1>5 DEF Evolves, TypeOK, NodeTypeOK

LEMMA SizeFacts ==
    ASSUME TypeOK, NEW t \in Node
    PROVE  /\ session[t].layers \in Seq(Layer) /\ Size(t) \in Nat
           /\ DOMAIN session[t].layers = 1..Size(t)
           /\ \A j \in 1..Size(t) : Sp(t, j) \in Node \cup {None} /\ Wr(t, j) \in SUBSET Node
BY LayerFacts DEF TypeOK

LEMMA CutKeeps ==
    ASSUME TypeOK, TypeOK', CallsInv, Evolves, NEW t \in Node, Cuts(t), Shape(t), Ordered(t)
    PROVE  Shape(t)' /\ Ordered(t)'
<1>1. Size(t) \in Nat /\ \A j \in 1..(Size(t)') : j \in 1..Size(t) /\ Sp(t, j)' = Sp(t, j)
  BY SizeFacts DEF Cuts
<1>2. Shape(t)'
  BY <1>1 DEF Cuts, Shape, Evolves
<1>3. Ordered(t)'
  <2> SUFFICES ASSUME NEW q \in Thread, NEW i \in 1..(Depth(q)'), NEW k \in 1..(Depth(q)'),
                      NEW a \in 1..(Size(t)'), NEW b \in 1..(Size(t)'), i < k,
                      Sp(t, a)' = frames'[q][i].tx, Sp(t, b)' = frames'[q][k].tx
               PROVE  a < b
    BY DEF Ordered
  <2>1. Sp(t, b) = frames'[q][k].tx /\ b # 1 => Sp(t, b) \in born
    BY <1>1 DEF Shape
  <2>2. CASE b # 1
    BY <1>1, <2>1, <2>2 DEF Evolves, Ordered
  <2>3. CASE b = 1
    <3>1. frames'[q] \in Seq(Frame) /\ k \in 1..Len(frames'[q])
      BY DEF TypeOK, Depth
    <3>2. frames'[q][k] \in Frame
      BY <3>1, ElementOfSeq
    <3>3. frames'[q][k].tx \in Node
      BY <3>2 DEF Frame
    <3> QED
      BY <1>1, <2>3, <3>3, NoneAssumption DEF Shape
  <2> QED
    BY <2>2, <2>3
<1> QED
  BY <1>2, <1>3

LEMMA WriteKeeps ==
    ASSUME TypeOK, CallsInv, Evolves, NEW t \in Node, Cuts(t), WritesOK(t),
           NEW j \in 1..(Size(t)'), NEW w, Moves(t, w, j)
    PROVE  WriteOK(t, j, w)'
<1>1. Size(t) \in Nat /\ \A i \in 1..(Size(t)') : i \in 1..Size(t) /\ Sp(t, i)' = Sp(t, i)
  BY SizeFacts DEF Cuts
<1>2. PICK i \in 1..Size(t) : w \in Wr(t, i) /\ (i = j \/ j = Size(t)')
  BY DEF Moves
<1>3. WriteOK(t, i, w)
  BY <1>2 DEF WritesOK
<1>4. w \in born /\ scope[w] \subseteq born
  BY <1>3 DEF WriteOK, CallsInv, Fresh, TypeOK
<1>5. ASSUME NEW x \in scope[w], Active(x)'
      PROVE  node'[x].tx = t /\ \A a \in 1..(Size(t)') : Sp(t, a)' = x => a <= j
  <2>1. Active(x) /\ node'[x].tx = t
    BY <1>3, <1>4, <1>5 DEF WriteOK, Evolves
  <2>2. \A a \in 1..(Size(t)') : Sp(t, a)' = x => a <= i
    BY <1>1, <1>3, <2>1 DEF WriteOK
  <2>3. Size(t)' \in Nat /\ \A a \in 1..(Size(t)') : a <= Size(t)'
    BY <1>1 DEF Cuts
  <2> QED
    BY <1>2, <2>1, <2>2, <2>3
<1> QED
  BY <1>3, <1>4, <1>5 DEF WriteOK, Evolves

LEMMA SameFacts ==
    ASSUME TypeOK, NEW t \in Node, Shape(t), SameStack(t)
    PROVE  /\ Size(t)' = Size(t) /\ Cuts(t)
           /\ \A j \in 1..Size(t) : /\ Sp(t, j)' = Sp(t, j) /\ Wr(t, j)' = Wr(t, j)
                                    /\ \A w \in Wr(t, j)' : Moves(t, w, j)
BY SameMoves DEF TypeOK, Shape

LEMMA SameKeeps ==
    ASSUME TypeOK, TypeOK', CallsInv, Evolves, NEW t \in Node, StackOK(t), SameStack(t)
    PROVE  Shape(t)' /\ Ordered(t)' /\ WritesOK(t)'
<1>1. Shape(t)' /\ Ordered(t)'
  BY SameFacts, CutKeeps DEF StackOK
<1>2. WritesOK(t)'
  <2> SUFFICES ASSUME NEW j \in 1..(Size(t)'), NEW w \in Wr(t, j)'
               PROVE  WriteOK(t, j, w)'
    BY DEF WritesOK
  <2>1. Cuts(t) /\ Moves(t, w, j)
    BY SameFacts DEF StackOK
  <2> QED
    BY <2>1, WriteKeeps DEF StackOK
<1> QED
  BY <1>1, <1>2

\* Statements and ends of a session leave every stack, except a few.
LEMMA OpsSameStack ==
    ASSUME TypeOK, NEW t \in Node, NEW u \in Node,
           \/ Refuse(t) \/ CommitTx(t) \/ CommitTxFails(t)
           \/ RollbackTx(t) \/ RollbackTxFails(t) \/ ContextDone(t)
    PROVE  SameStack(u) /\ (u # t => session'[u] = session[u])
BY OpsKeepStacks DEF TypeOK

\* Clean(t) while no call returns.
LEMMA CleanStill ==
    ASSUME TypeOK, CallsInv, NEW t \in Node, StackOK(t), SameStack(t),
           Evolves, outcome' = outcome, \A y \in born : Active(y) => Active(y)',
           \A j \in 1..Size(t) : Survives(t, j)' => Survives(t, j)
    PROVE  Clean(t)'
<1>1. /\ Size(t)' = Size(t)
      /\ \A j \in 1..Size(t) : Sp(t, j)' = Sp(t, j) /\ Wr(t, j)' = Wr(t, j)
  BY SameFacts DEF StackOK
<1> SUFFICES ASSUME NEW j \in 1..Size(t), Survives(t, j)'
             PROVE  CleanAt(t, j)'
  BY <1>1 DEF Clean
<1>2. CleanAt(t, j)
  BY DEF StackOK, Clean
<1>3. ASSUME NEW w \in Wr(t, j)
      PROVE  scope'[w] = scope[w]
  BY DEF StackOK, WritesOK, WriteOK, Evolves, CallsInv, Fresh, TypeOK
<1>4. j # 1 => Sp(t, j) \in born
  <2>1. j # 1 => j \in 2..Size(t)
    BY SizeFacts
  <2> QED
    BY <2>1 DEF StackOK, Shape
<1> QED
  BY <1>1, <1>2, <1>3, <1>4 DEF CleanAt

\* The stacks stay, and no session gets better.
Worsens(u) == /\ SameStack(u)
              /\ \/ session[u].state = "open"
                 \/ session'[u].state \in {session[u].state, "lost", "done"}

LEMMA WorsensSurvives ==
    ASSUME TypeOK, NEW u \in Node, Worsens(u), Shape(u),
           \A y \in born : Active(y)' => Active(y), NEW j \in 1..Size(u), Survives(u, j)'
    PROVE  Survives(u, j)
<1>1. /\ Size(u)' = Size(u) /\ Size(u) \in Nat
      /\ \A a \in 1..Size(u) : Sp(u, a)' = Sp(u, a)
  BY SameFacts, SizeFacts DEF Worsens
<1>2. ASSUME session[u].state # "open"
      PROVE  Survives(u, j)
  <2>1. session'[u].state = session[u].state \/ session'[u].state \in {"lost", "done"}
    BY <1>2 DEF Worsens
  <2>2. PICK a \in (j + 1)..(Size(u)') : Active(Sp(u, a))' /\ session[u].state = "aborted"
    BY <1>2, <2>1 DEF Survives
  <2>3. a \in 2..Size(u) /\ a \in (j + 1)..Size(u) /\ a \in 1..Size(u)
    BY <1>1, <2>2
  <2>4. Active(Sp(u, a))
    <3>1. PICK y \in born : y = Sp(u, a)
      BY <2>3 DEF Shape
    <3>2. Active(y)'
      BY <1>1, <2>2, <2>3, <3>1 DEF Active
    <3> QED
      BY <3>1, <3>2
  <2> QED
    BY <2>2, <2>3, <2>4 DEF Survives
<1> QED
  BY <1>2 DEF Survives

\* A session that gets no better while no call returns.
LEMMA WorsensKeeps ==
    ASSUME TypeOK, TypeOK', CallsInv, Evolves, outcome' = outcome,
           \A y \in born : Active(y)' <=> Active(y),
           NEW u \in Node, StackOK(u), Worsens(u)
    PROVE  StackOK(u)'
<1>1. SameStack(u) /\ Shape(u)
  BY DEF Worsens, StackOK
<1>2. Clean(u)'
  BY <1>1, WorsensSurvives, CleanStill
<1> QED
  BY <1>1, <1>2, SameKeeps DEF StackOK

\* The layers of the calls that stay in progress stay.
LEMMA OnStackKeeps ==
    ASSUME TypeOK, CallsInv, Evolves, OnStack, NEW x \in born, Active(x)',
           \A t \in Node : \A j \in 2..Size(t) :
               Used(t) /\ Sp(t, j) = x => j \in 2..(Size(t)') /\ Sp(t, j)' = x
    PROVE  node'[x].tx # x => (\E j \in 2..Size(node[x].tx) : Sp(node[x].tx, j) = x)'
<1>1. Active(x) /\ node'[x] = node[x] /\ x \in Node
  BY DEF Evolves, TypeOK, NodeTypeOK
<1>2. PICK t \in Node : t = node[x].tx /\ Used(t)
  BY <1>1, ActiveFacts DEF Active
<1>3. ASSUME t # x
      PROVE  \E j \in 2..(Size(t)') : Sp(t, j)' = x
  BY <1>1, <1>2, <1>3 DEF OnStack
<1> QED
  BY <1>1, <1>2, <1>3 DEF Size, Sp

\* A statement that is refused, a cancelled context, or nothing.
LEMMA QuietStack ==
    ASSUME TypeOK, TypeOK', CallsInv, StackInv, Still, \A u \in Node : Worsens(u),
           durable' = durable \/ (durable' = durable \cup {Pool} /\ Pool \in wrote')
    PROVE  StackInv'
<1>1. Evolves
  BY StillEvolves
<1>2. /\ UNCHANGED <<frames, node, born, outcome, scope>> /\ wrote \subseteq wrote'
      /\ \A u \in Node : Used(u)' <=> Used(u)
  BY DEF Still, Keeps
<1>3. \A y : Active(y)' <=> Active(y)
  BY <1>2 DEF Active, Depth
<1>4. \A u \in Node : Used(u)' => StackOK(u)'
  BY <1>1, <1>2, <1>3, WorsensKeeps DEF StackInv
<1>5. OnStack'
  <2>1. \A u \in Node : Used(u) => /\ Size(u)' = Size(u)
                                   /\ \A j \in 2..Size(u) : Sp(u, j)' = Sp(u, j)
    BY SameFacts, SizeFacts DEF StackInv, StackOK, Worsens
  <2>2. ASSUME NEW x \in Node, Active(x)'
        PROVE  x \in born
    BY <1>3, <2>2, ActiveFacts DEF Active
  <2> QED
    BY <1>1, <2>1, <2>2, OnStackKeeps DEF StackInv, OnStack
<1>6. Saved'
  BY <1>2, <1>3 DEF StackInv, Saved, SavedOK, CallsInv, PoolOK, TypeOK, DbTypeOK
<1> QED
  BY <1>4, <1>5, <1>6 DEF StackInv

\* A statement writes into the last layer of its session.
LEMMA WriteCuts ==
    ASSUME TypeOK, NEW t \in Node, NEW d \in Node, Shape(t), Write(t, d)
    PROVE  /\ session[t].state = "open" /\ session'[t].state = "open" /\ durable' = durable
           /\ \A u \in Node \ {t} : session'[u] = session[u]
           /\ Size(t)' = Size(t) /\ Cuts(t) /\ Size(t) \in Nat /\ Size(t) \in 1..Size(t)
           /\ \A j \in 1..Size(t) :
                  /\ Sp(t, j)' = Sp(t, j)
                  /\ Wr(t, j)' = IF j = Size(t) THEN Wr(t, j) \cup {d} ELSE Wr(t, j)
BY WriteToTop DEF TypeOK, Shape

\* The layer where the writes of a step come from.
LEMMA WriteMoves ==
    ASSUME TypeOK, NEW t \in Node, NEW d \in Node, Shape(t), Write(t, d),
           NEW j \in 1..Size(t), NEW w \in Wr(t, j)'
    PROVE  Moves(t, w, j) \/ (w = d /\ j = Size(t))
<1>1. w \in Wr(t, j) \/ (w = d /\ j = Size(t))
  BY WriteCuts
<1>2. j <= j
  BY SizeFacts
<1> QED
  BY <1>1, <1>2 DEF Moves

\* A call in progress writes.
LEMMA WriteStack ==
    ASSUME TypeOK, TypeOK', CallsInv, StackInv, Still, NEW p \in Thread,
           NEW k \in 1..Depth(p), CallWrites(p, k)
    PROVE  StackInv'
<1>1. PICK d \in Node, t \in Node : d = frames[p][k].tx /\ t = node[d].tx
  BY ActiveFacts
<1>2. Write(t, d) /\ wrote' = wrote \cup {d} /\ Used(t) /\ StackOK(t)
  BY <1>1, ActiveFacts DEF CallWrites, StackInv
<1>3. Evolves
  BY StillEvolves
<1>4. /\ UNCHANGED <<frames, node, born, outcome, scope>>
      /\ \A u \in Node : Used(u)' <=> Used(u)
  BY DEF Still, Keeps
<1>5. \A y : Active(y)' <=> Active(y)
  BY <1>4 DEF Active, Depth
<1>6. /\ session[t].state = "open" /\ session'[t].state = "open" /\ durable' = durable
      /\ \A u \in Node \ {t} : session'[u] = session[u]
      /\ Size(t)' = Size(t) /\ Cuts(t) /\ Size(t) \in Nat /\ Size(t) \in 1..Size(t)
      /\ \A j \in 1..Size(t) :
             /\ Sp(t, j)' = Sp(t, j)
             /\ Wr(t, j)' = IF j = Size(t) THEN Wr(t, j) \cup {d} ELSE Wr(t, j)
  BY <1>2, WriteCuts DEF StackOK
<1>7. /\ t \in scope[d]
      /\ \A x \in scope[d] : node[x].tx = t /\ outcome[x] = "none"
  <2>1. /\ t \in scope[d]
        /\ \A x \in scope[d] : node[x].tx = t /\ \E l \in 1..k : frames[p][l].tx = x
    BY <1>1 DEF CallsInv, CallsOK, CallOK, InScope
  <2>2. \A l \in 1..k : l \in 1..Depth(p)
    BY FrameFacts
  <2> QED
    BY <2>1, <2>2, ActiveFacts
<1>8. WritesOK(t)'
  <2> SUFFICES ASSUME NEW j \in 1..Size(t), NEW w \in Wr(t, j)'
               PROVE  WriteOK(t, j, w)'
    BY <1>6 DEF WritesOK
  <2>1. CASE Moves(t, w, j)
    BY <1>2, <1>3, <1>6, <2>1, WriteKeeps DEF StackOK
  <2>2. CASE w = d /\ j = Size(t)
    BY <1>2, <1>4, <1>6, <1>7, <2>2 DEF WriteOK
  <2> QED
    BY <1>2, <2>1, <2>2, WriteMoves DEF StackOK
<1>9. Clean(t)'
  <2> SUFFICES ASSUME NEW j \in 1..Size(t)
               PROVE  CleanAt(t, j)'
    BY <1>6 DEF Clean
  <2>1. CleanAt(t, j)
    BY <1>2, <1>6 DEF StackOK, Clean, Survives
  <2>2. \A w \in Wr(t, j)' : \A x \in scope[w] : outcome[x] \in {"none", "nil", "panic"}
    BY <1>6, <1>7, <2>1 DEF CleanAt
  <2> QED
    BY <1>4, <1>5, <1>6, <2>1, <2>2 DEF CleanAt, Active
<1>10. \A u \in Node : Used(u)' => StackOK(u)'
  <2>1. StackOK(t)'
    BY <1>2, <1>3, <1>6, <1>8, <1>9, CutKeeps DEF StackOK
  <2>2. ASSUME NEW u \in Node \ {t}, Used(u)'
        PROVE  StackOK(u)'
    <3>1. Worsens(u) /\ StackOK(u)
      BY <1>2, <1>4, <1>6, <2>2 DEF Worsens, SameStack, StackInv
    <3> QED
      BY <1>3, <1>4, <1>5, <3>1, WorsensKeeps
  <2> QED
    BY <2>1, <2>2
<1>11. OnStack'
  <2>1. ASSUME NEW u \in Node, Used(u)
        PROVE  Size(u)' = Size(u) /\ \A j \in 2..Size(u) : Sp(u, j)' = Sp(u, j)
    <3>1. CASE u = t
      BY <1>6, <3>1
    <3>2. CASE u # t
      BY <1>6, <3>2 DEF Size, Sp
    <3> QED
      BY <3>1, <3>2
  <2>2. ASSUME NEW x \in Node, Active(x)'
        PROVE  x \in born
    BY <1>5, <2>2, ActiveFacts DEF Active
  <2> QED
    BY <1>3, <2>1, <2>2, OnStackKeeps DEF StackInv, OnStack
<1>12. Saved'
  BY <1>2, <1>4, <1>5, <1>6 DEF StackInv, Saved, SavedOK, TypeOK
<1> QED
  BY <1>10, <1>11, <1>12 DEF StackInv

\* A call starts in a session of its own.
LEMMA OpenStack ==
    ASSUME TypeOK, TypeOK', CallsInv, CallsInv', StackInv, NEW p \in Thread, NEW m \in Node,
           Opens(p, m)
    PROVE  StackInv'
<1>1. /\ ~Used(m) /\ durable' = durable
      /\ session'[m] = [state |-> "open", layers |-> <<[sp |-> None, writes |-> {}]>>]
      /\ \A u \in Node \ {m} : session'[u] = session[u]
  BY DEF Opens, Begin, TypeOK, DbTypeOK, Used
<1>2. Pushes(p, Pool, m, m, FALSE)
  BY DEF Opens
<1>3. /\ Evolves /\ m \notin born /\ born' = born \cup {m} /\ UNCHANGED <<outcome, wrote>>
      /\ node'[m].tx = m
  BY <1>2, PushEvolves, PoolAssumption DEF Pushes, Clones
<1>4. \A y \in Node : Active(y)' <=> Active(y) \/ y = m
  BY <1>2, ActivePush, PoolAssumption
<1>5. StackOK(m)'
  <2>1. Size(m)' = 1 /\ Sp(m, 1)' = None /\ Wr(m, 1)' = {}
    BY <1>1 DEF Size, Sp, Wr
  <2>2. \A j \in 1..1 : j = 1
    OBVIOUS
  <2>3. Ordered(m)'
    BY <2>1, <2>2 DEF Ordered, CallsInv, Apart
  <2> QED
    BY <2>1, <2>2, <2>3 DEF StackOK, Shape, WritesOK, Clean, CleanAt
<1>6. \A u \in Node : Used(u)' => StackOK(u)'
  <2>1. ASSUME NEW u \in Node \ {m}, Used(u)'
        PROVE  StackOK(u)'
    <3>1. Worsens(u) /\ StackOK(u)
      BY <1>1, <2>1 DEF Worsens, SameStack, StackInv, Used
    <3> QED
      BY <1>3, <1>4, <3>1, WorsensKeeps DEF TypeOK, NodeTypeOK
  <2> QED
    BY <1>5, <2>1
<1>7. OnStack'
  <2>1. \A u \in Node : Used(u) => /\ Size(u)' = Size(u)
                                   /\ \A j \in 2..Size(u) : Sp(u, j)' = Sp(u, j)
    BY <1>1 DEF Size, Sp
  <2>2. ASSUME NEW x \in Node, Active(x)'
        PROVE  x \in born \/ x = m
    BY <1>4, <2>2, ActiveFacts DEF Active
  <2> QED
    BY <1>3, <2>1, <2>2, OnStackKeeps DEF StackInv, OnStack
<1>8. Saved'
  <2>1. ASSUME NEW w \in durable
        PROVE  scope'[w] = scope[w] /\ scope[w] \subseteq born \ {m} /\ scope[w] \subseteq Node
    BY <1>3 DEF StackInv, Saved, CallsInv, Fresh, Evolves, TypeOK, DbTypeOK
  <2>2. \A x \in Node \ {m} : Used(x)' <=> Used(x)
    BY <1>1 DEF Used
  <2>3. ASSUME NEW w \in durable, NEW x \in scope[w]
        PROVE  SavedOK(w, x)'
    <3>1. SavedOK(w, x)
      BY DEF StackInv, Saved
    <3>2. (Active(x)' <=> Active(x)) /\ (Used(x)' <=> Used(x)) /\ outcome'[x] = outcome[x]
      BY <1>3, <1>4, <2>1, <2>2
    <3> QED
      BY <3>1, <3>2 DEF SavedOK
  <2> QED
    BY <1>1, <1>3, <2>1, <2>3 DEF StackInv, Saved
<1> QED
  BY <1>6, <1>7, <1>8 DEF StackInv

\* SAVEPOINT m adds an empty layer.
LEMMA SavepointCuts ==
    ASSUME TypeOK, NEW t \in Node, NEW m \in Node, Savepoint(t, m),
           NEW top \in Nat \ {0}, top = Size(t) + 1
    PROVE  /\ session[t].state = "open" /\ session'[t].state = "open" /\ durable' = durable
           /\ \A u \in Node \ {t} : session'[u] = session[u]
           /\ Size(t)' = top /\ Sp(t, top)' = m /\ Wr(t, top)' = {}
           /\ \A j \in 1..Size(t) : Sp(t, j)' = Sp(t, j) /\ Wr(t, j)' = Wr(t, j)
BY SavepointOnTop DEF TypeOK

\* A call starts in the session of the call it was begun in, with a savepoint.
LEMMA NestStack ==
    ASSUME Savepoints, TypeOK, TypeOK', CallsInv, CallsInv', StackInv, NEW p \in Thread,
           NEW k \in 1..Depth(p), NEW m \in Node, Nests(p, k, m)
    PROVE  StackInv'
<1>1. PICK n \in Node, t \in Node : n = frames[p][k].tx /\ t = node[n].tx
  <2>1. frames[p][k].tx \in Node /\ node[frames[p][k].tx].tx \in Node
    BY ActiveFacts
  <2> QED
    BY <2>1
<1>2. Pushes(p, n, m, t, TRUE) /\ Savepoint(t, m)
  BY <1>1 DEF Nests
<1>3. /\ Evolves /\ m \notin born /\ born' = born \cup {m} /\ UNCHANGED <<outcome, wrote>>
      /\ node'[m].tx = t /\ scope'[m] = {m} \cup scope[n]
  BY <1>2, PushEvolves DEF Pushes, Clones, TypeOK
<1>4. \A y \in Node : Active(y)' <=> Active(y) \/ y = m
  BY <1>2, ActivePush
<1>5. Used(t) /\ StackOK(t) /\ t \in born \ {m}
  <2>1. Used(t) /\ StackOK(t)
    BY <1>1, ActiveFacts DEF StackInv
  <2>2. t \in born
    BY <2>1 DEF CallsInv, Fresh
  <2> QED
    BY <1>3, <2>1, <2>2
<1>6. PICK top \in Nat \ {0} : top = Size(t) + 1
  BY SizeFacts
<1>7. /\ session[t].state = "open" /\ session'[t].state = "open" /\ durable' = durable
      /\ \A u \in Node \ {t} : session'[u] = session[u]
  BY <1>2, <1>6, SavepointCuts
<1>8. /\ Size(t)' = top /\ Sp(t, top)' = m /\ Wr(t, top)' = {}
      /\ \A j \in 1..Size(t) : Sp(t, j)' = Sp(t, j) /\ Wr(t, j)' = Wr(t, j)
  BY <1>2, <1>6, SavepointCuts
<1>9. /\ \A j \in 1..top : j = top \/ j \in 1..Size(t)
      /\ \A j \in 2..top : (j = top \/ j \in 2..Size(t)) /\ j \in 1..top
      /\ \A j \in 1..Size(t) : j \in 1..top /\ j < top
      /\ \A j \in 2..Size(t) : j \in 2..top /\ j \in 1..Size(t)
      /\ 1 \in 1..Size(t) /\ top \in 2..top
  BY <1>5, <1>6, SizeFacts DEF StackOK, Shape
<1>10. /\ \A j \in 1..Size(t) : Sp(t, j) # m /\ Sp(t, j) \in born \cup {None}
       /\ \A j \in 2..Size(t) : Sp(t, j) \in born
  <2>1. \A j \in 1..Size(t) : j = 1 \/ j \in 2..Size(t)
    BY SizeFacts
  <2> QED
    BY <1>3, <1>5, <2>1, NoneAssumption DEF StackOK, Shape
<1>11. Shape(t)'
  <2>1. \A j \in 2..top : /\ Sp(t, j)' \in born' \ {t}
                          /\ Active(Sp(t, j))' => node'[Sp(t, j)'].tx = t
    <3>1. ASSUME NEW j \in 2..Size(t)
          PROVE  /\ Sp(t, j)' \in born' \ {t}
                 /\ Active(Sp(t, j))' => node'[Sp(t, j)'].tx = t
      <4>1. PICK y \in born : y = Sp(t, j) /\ y = Sp(t, j)'
        BY <1>8, <1>9, <1>10
      <4>2. Active(y)' => node'[y].tx = t
        <5>1. Active(y) => node[y].tx = t
          BY <1>5, <4>1 DEF StackOK, Shape
        <5>2. Active(y)' => Active(y) /\ node'[y] = node[y]
          BY <1>3 DEF Evolves
        <5> QED
          BY <5>1, <5>2
      <4>3. y # t
        BY <1>5, <4>1 DEF StackOK, Shape
      <4> QED
        BY <1>3, <4>1, <4>2, <4>3 DEF Active
    <3> QED
      BY <1>3, <1>5, <1>8, <1>9, <3>1
  <2>2. \A i, j \in 1..top : Sp(t, i)' = Sp(t, j)' => i = j
    BY <1>5, <1>8, <1>9, <1>10 DEF StackOK, Shape
  <2>3. 1 \in 1..top /\ Sp(t, 1)' = None
    BY <1>5, <1>8, <1>9 DEF StackOK, Shape
  <2> QED
    BY <1>8, <2>1, <2>2, <2>3 DEF Shape
<1>12. Ordered(t)'
  <2> SUFFICES ASSUME NEW q \in Thread, NEW i \in 1..(Depth(q)'), NEW l \in 1..(Depth(q)'),
                      NEW a \in 1..top, NEW b \in 1..top, i < l,
                      Sp(t, a)' = frames'[q][i].tx, Sp(t, b)' = frames'[q][l].tx
               PROVE  a < b
    BY <1>8 DEF Ordered
  <2>1. Apart'
    BY DEF CallsInv
  <2>2. a # b
    BY <2>1 DEF Apart
  <2>3. CASE b = top
    BY <1>9, <2>2, <2>3
  <2>4. CASE b # top
    <3>1. b \in 1..Size(t) /\ Sp(t, b)' = Sp(t, b)
      BY <1>8, <1>9, <2>4
    <3>2. Sp(t, b) \in born
      <4>1. frames'[q] \in Seq(Frame) /\ l \in 1..Len(frames'[q])
        BY DEF TypeOK, Depth
      <4>2. frames'[q][l] \in Frame
        BY <4>1, ElementOfSeq
      <4>3. frames'[q][l].tx \in Node
        BY <4>2 DEF Frame
      <4> QED
        BY <1>10, <3>1, <4>3, NoneAssumption
    <3>3. /\ i \in 1..Depth(q) /\ frames'[q][i] = frames[q][i]
          /\ l \in 1..Depth(q) /\ frames'[q][l] = frames[q][l]
      <4>1. frames'[q][l].tx \in born
        BY <3>1, <3>2
      <4> QED
        BY <1>3, <4>1 DEF Evolves
    <3>4. a # top
      <4>1. frames[q][i].tx \in born
        BY <3>3, ActiveFacts
      <4> QED
        BY <1>3, <1>8, <3>3, <4>1
    <3> QED
      BY <1>5, <1>8, <1>9, <3>1, <3>3, <3>4 DEF StackOK, Ordered
  <2> QED
    BY <2>3, <2>4
<1>13. WritesOK(t)'
  <2> SUFFICES ASSUME NEW j \in 1..Size(t), NEW w \in Wr(t, j)
               PROVE  WriteOK(t, j, w)'
    BY <1>8, <1>9 DEF WritesOK
  <2>1. WriteOK(t, j, w)
    BY <1>5 DEF StackOK, WritesOK
  <2>2. w \in born /\ scope[w] \subseteq born
    BY <2>1 DEF WriteOK, CallsInv, Fresh, TypeOK
  <2>3. ASSUME NEW x \in scope[w], Active(x)'
        PROVE  node'[x].tx = t /\ \A a \in 1..top : Sp(t, a)' = x => a <= j
    <3>1. Active(x) /\ node'[x].tx = t
      BY <1>3, <2>1, <2>2, <2>3 DEF WriteOK, Evolves
    <3>2. x # m
      BY <1>3, <2>2
    <3> QED
      BY <1>8, <1>9, <2>1, <3>1, <3>2 DEF WriteOK
  <2> QED
    BY <1>3, <1>8, <2>1, <2>2, <2>3 DEF WriteOK, Evolves
<1>14. Clean(t)'
  <2>1. CleanAt(t, top)'
    BY <1>4, <1>8 DEF CleanAt, Active
  <2>2. ASSUME NEW j \in 1..Size(t)
        PROVE  CleanAt(t, j)'
    <3>1. CleanAt(t, j)
      BY <1>5, <1>7 DEF StackOK, Clean, Survives
    <3>2. ASSUME NEW w \in Wr(t, j)
          PROVE  scope'[w] = scope[w]
      BY <1>3, <1>5 DEF StackOK, WritesOK, WriteOK, Evolves, CallsInv, Fresh, TypeOK
    <3>3. j # 1 => (Active(Sp(t, j))' <=> Active(Sp(t, j)))
      <4>1. j # 1 => j \in 2..Size(t)
        BY SizeFacts
      <4>2. ASSUME j # 1
            PROVE  Active(Sp(t, j))' <=> Active(Sp(t, j))
        <5>1. PICK y \in born : y = Sp(t, j) /\ y = Sp(t, j)'
          BY <1>8, <1>10, <4>1, <4>2
        <5>2. Active(y)' <=> Active(y)
          BY <1>3, <1>4, <5>1 DEF TypeOK, NodeTypeOK
        <5> QED
          BY <5>1, <5>2 DEF Active
      <4> QED
        BY <4>2
    <3> QED
      BY <1>3, <1>8, <3>1, <3>2, <3>3 DEF CleanAt
  <2> QED
    BY <1>8, <1>9, <2>1, <2>2 DEF Clean
<1>15. \A u \in Node : Used(u)' => StackOK(u)'
  <2>1. ASSUME NEW u \in Node \ {t}, Used(u)'
        PROVE  StackOK(u)'
    <3>1. Worsens(u) /\ StackOK(u)
      BY <1>7, <2>1 DEF Worsens, SameStack, StackInv, Used
    <3> QED
      BY <1>3, <1>4, <3>1, WorsensKeeps DEF TypeOK, NodeTypeOK
  <2> QED
    BY <1>11, <1>12, <1>13, <1>14, <2>1 DEF StackOK
<1>16. OnStack'
  <2>1. \A u \in Node : \A j \in 2..Size(u) : j \in 2..(Size(u)') /\ Sp(u, j)' = Sp(u, j)
    <3>1. \A j \in 2..Size(t) : j \in 2..(Size(t)') /\ Sp(t, j)' = Sp(t, j)
      BY <1>8, <1>9
    <3>2. \A u \in Node \ {t} : Size(u)' = Size(u) /\ \A j : Sp(u, j)' = Sp(u, j)
      BY <1>7 DEF Size, Sp
    <3> QED
      BY <3>1, <3>2
  <2>2. ASSUME NEW x \in Node, Active(x)'
        PROVE  x \in born \/ x = m
    BY <1>4, <2>2, ActiveCall
  <2>3. (\E j \in 2..Size(node[m].tx) : Sp(node[m].tx, j) = m)'
    BY <1>3, <1>8, <1>9 DEF Size, Sp
  <2> QED
    BY <1>3, <2>1, <2>2, <2>3, OnStackKeeps DEF StackInv, OnStack
<1>17. Saved'
  <2>1. ASSUME NEW w \in durable
        PROVE  scope'[w] = scope[w] /\ scope[w] \subseteq born \ {m} /\ scope[w] \subseteq Node
    BY <1>3 DEF StackInv, Saved, CallsInv, Fresh, Evolves, TypeOK, DbTypeOK
  <2>2. \A x \in Node : Used(x)' <=> Used(x)
    BY <1>5, <1>7 DEF Used
  <2>3. ASSUME NEW w \in durable, NEW x \in scope[w]
        PROVE  SavedOK(w, x)'
    <3>1. SavedOK(w, x)
      BY DEF StackInv, Saved
    <3>2. (Active(x)' <=> Active(x)) /\ (Used(x)' <=> Used(x)) /\ outcome'[x] = outcome[x]
      BY <1>3, <1>4, <2>1, <2>2
    <3> QED
      BY <3>1, <3>2 DEF SavedOK
  <2> QED
    BY <1>3, <1>7, <2>1, <2>3 DEF StackInv, Saved
<1> QED
  BY <1>15, <1>16, <1>17 DEF StackInv

------------------------------------------------------------------------------
\* What changes for the calls when the innermost one of p, with clone x, returns;
\* the other calls in its session are those p made before.
Leaves(p, x, result) ==
    /\ Evolves /\ UNCHANGED <<scope, wrote, born>>
    /\ x \in Node /\ Active(x) /\ x \in born
    /\ \A y : Active(y)' <=> Active(y) /\ y # x
    /\ outcome'[x] = result /\ \A u \in Node \ {x} : outcome'[u] = outcome[u]
    /\ \A y : Active(y) /\ node[y].tx = node[x].tx /\ y # x =>
           \E i, k \in 1..Depth(p) : i < k /\ frames[p][i].tx = y /\ frames[p][k].tx = x

LEMMA PopLeaves ==
    ASSUME TypeOK, CallsInv, NEW p \in Thread, NEW result, Pops(p, result),
           NEW x, x = Top(p).tx
    PROVE  Leaves(p, x, result)
<1>1. Depth(p) \in Nat \ {0} /\ UNCHANGED <<scope, wrote, born>>
  BY FrameFacts DEF Pops, InHandler, Return
<1>2. PICK k \in 1..Depth(p) : k = Depth(p) /\ frames[p][k].tx = x
  BY <1>1 DEF Top
<1>3. Active(x) /\ x \in Node /\ x \in born
  BY <1>2, ActiveFacts DEF Active
<1>4. outcome' = [outcome EXCEPT ![x] = result] /\ outcome \in [Node -> {"none", "nil", "handlerError", "commitError", "panic"}]
  BY DEF Pops, Return, TypeOK
<1>5. ASSUME NEW y, Active(y), node[y].tx = node[x].tx, y # x
      PROVE  \E i \in 1..Depth(p) : i < k /\ frames[p][i].tx = y
  <2>1. PICK q \in Thread : \E i \in 1..Depth(q) : frames[q][i].tx = y
    BY <1>5 DEF Active
  <2>2. PICK i \in 1..Depth(q) : frames[q][i].tx = y
    BY <2>1
  <2>3. \E l \in 1..i : frames[q][l].tx = node[y].tx
    BY <2>2 DEF CallsInv, CallsOK, CallOK, InSession
  <2>4. \E l \in 1..k : frames[p][l].tx = node[x].tx
    BY <1>2 DEF CallsInv, CallsOK, CallOK, InSession
  <2>5. /\ \A l \in 1..i : l \in 1..Depth(q)
        /\ \A l \in 1..k : l \in 1..Depth(p)
    BY FrameFacts
  <2>6. q = p
    BY <1>5, <2>3, <2>4, <2>5 DEF CallsInv, Apart
  <2>7. i # k
    BY <1>2, <1>5, <2>2, <2>6
  <2> QED
    BY <1>1, <1>2, <2>2, <2>6, <2>7
<1>6. \A y : Active(y)' <=> Active(y) /\ y # x
  BY ActivePop DEF CallsInv
<1> QED
  BY <1>1, <1>2, <1>3, <1>4, <1>5, <1>6, PopEvolves DEF Leaves

\* A layer stays clean when the call that returns did not fail, or has nothing to do
\* with it.
LEMMA CleanPop ==
    ASSUME TypeOK, CallsInv, NEW p \in Thread, NEW x, NEW result, Leaves(p, x, result),
           NEW u \in Node, StackOK(u), NEW j \in 1..Size(u), CleanAt(u, j), Sp(u, j)' = Sp(u, j),
           \A w \in Wr(u, j)' : \E l \in 1..Size(u) : w \in Wr(u, l) /\ CleanAt(u, l)
                                  /\ (result \in {"nil", "panic"} \/ x \notin scope[w]),
           \/ j = 1 \/ Sp(u, j) # x \/ result = "panic"
    PROVE  CleanAt(u, j)'
<1>1. ASSUME NEW w \in Wr(u, j)', NEW m \in scope'[w]
      PROVE  outcome'[m] \in {"none", "nil", "panic"}
  <2>1. PICK l \in 1..Size(u) : /\ w \in Wr(u, l) /\ CleanAt(u, l)
                                /\ (result \in {"nil", "panic"} \/ x \notin scope[w])
    OBVIOUS
  <2>2. m \in scope[w] /\ m \in Node
    BY <2>1, SizeFacts DEF Leaves, TypeOK
  <2>3. outcome[m] \in {"none", "nil", "panic"}
    BY <2>1, <2>2 DEF CleanAt
  <2> QED
    BY <2>1, <2>2, <2>3 DEF Leaves
<1>2. ASSUME j # 1
      PROVE  Active(Sp(u, j))' \/ outcome'[Sp(u, j)'] \in {"handlerError", "panic"}
  <2>1. PICK y \in born : y = Sp(u, j) /\ y = Sp(u, j)' /\ y \in Node
    <3>1. j \in 2..Size(u)
      BY <1>2, SizeFacts
    <3>2. Sp(u, j) \in born /\ Sp(u, j) \in Node
      BY <3>1 DEF StackOK, Shape, TypeOK, NodeTypeOK
    <3> QED
      BY <3>2
  <2>2. Active(y) \/ outcome[y] \in {"handlerError", "panic"}
    BY <1>2, <2>1 DEF CleanAt
  <2>3. Active(y)' \/ outcome'[y] \in {"handlerError", "panic"}
    BY <1>2, <2>1, <2>2 DEF Leaves
  <2> QED
    BY <2>1, <2>3 DEF Active
<1> QED
  BY <1>1, <1>2 DEF CleanAt

\* A session whose stack stays when a call returns.
LEMMA PopKeeps ==
    ASSUME TypeOK, TypeOK', CallsInv, NEW p \in Thread, NEW x, NEW result,
           Leaves(p, x, result), NEW u \in Node, StackOK(u), Worsens(u),
           \A j \in 1..Size(u) : Survives(u, j)' =>
               \/ result = "panic"
               \/ (j = 1 \/ Sp(u, j) # x) /\ \A w \in Wr(u, j) : x \notin scope[w]
    PROVE  StackOK(u)'
<1>1. /\ Size(u)' = Size(u) /\ SameStack(u) /\ Evolves
      /\ \A j \in 1..Size(u) : Sp(u, j)' = Sp(u, j) /\ Wr(u, j)' = Wr(u, j)
  BY SameFacts DEF StackOK, Worsens, Leaves
<1>2. Clean(u)'
  <2> SUFFICES ASSUME NEW j \in 1..Size(u), Survives(u, j)'
               PROVE  CleanAt(u, j)'
    BY <1>1 DEF Clean
  <2>1. Survives(u, j)
    BY WorsensSurvives DEF StackOK, Leaves
  <2>2. CleanAt(u, j)
    BY <2>1 DEF StackOK, Clean
  <2>3. \A w \in Wr(u, j)' : \E l \in 1..Size(u) : w \in Wr(u, l) /\ CleanAt(u, l)
                                  /\ (result \in {"nil", "panic"} \/ x \notin scope[w])
    BY <1>1, <2>2
  <2> QED
    BY <1>1, <2>2, <2>3, CleanPop
<1> QED
  BY <1>1, <1>2, SameKeeps DEF StackOK

\* The sessions the call does not work in.
LEMMA PopOther ==
    ASSUME TypeOK, TypeOK', CallsInv, NEW p \in Thread, NEW x, NEW result,
           Leaves(p, x, result), NEW u \in Node, StackOK(u), session'[u] = session[u],
           node[x].tx # u
    PROVE  StackOK(u)'
<1>1. ASSUME NEW j \in 1..Size(u)
      PROVE  (j = 1 \/ Sp(u, j) # x) /\ \A w \in Wr(u, j) : x \notin scope[w]
  <2>1. j = 1 \/ j \in 2..Size(u)
    BY SizeFacts
  <2>2. j = 1 \/ Sp(u, j) # x
    BY <2>1 DEF StackOK, Shape, Leaves
  <2>3. \A w \in Wr(u, j) : x \notin scope[w]
    BY DEF StackOK, WritesOK, WriteOK, Leaves
  <2> QED
    BY <2>2, <2>3
<1>2. Worsens(u)
  BY DEF Worsens, SameStack
<1> QED
  BY <1>1, <1>2, PopKeeps

\* The nested call x ends with a statement that is refused: in its session only
\* what lies below the savepoints of the calls around it can still be saved.
LEMMA RefusedEnd ==
    ASSUME TypeOK, TypeOK', CallsInv, OnStack, NEW p \in Thread, NEW x, NEW result,
           Leaves(p, x, result), NEW t \in Node, t = node[x].tx, x # t, StackOK(t), Refuse(t)
    PROVE  StackOK(t)'
<1>1. /\ SameStack(t)
      /\ session'[t].state \in {session[t].state, "aborted", "lost"}
      /\ session'[t].state = "aborted" => session[t].state \in {"open", "aborted"}
      /\ session'[t].state # "open"
  <2>1. session \in [Node -> Session] /\ session[t] \in Session
    BY DEF TypeOK, DbTypeOK
  <2> QED
    BY <2>1 DEF Refuse, Session, SameStack, Held
<1>2. Worsens(t)
  BY <1>1 DEF Worsens
<1>3. PICK a \in 2..Size(t) : Sp(t, a) = x
  BY DEF OnStack, Leaves
<1>4. Size(t)' = Size(t) /\ \A j \in 1..Size(t) : Sp(t, j)' = Sp(t, j)
  BY <1>1, SameFacts DEF StackOK
<1>5. ASSUME NEW j \in 1..Size(t), Survives(t, j)'
      PROVE  (j = 1 \/ Sp(t, j) # x) /\ \A w \in Wr(t, j) : x \notin scope[w]
  <2>1. PICK b \in (j + 1)..Size(t) : Active(Sp(t, b))'
    BY <1>1, <1>4, <1>5 DEF Survives
  <2>2. Size(t) \in Nat /\ b \in 2..Size(t) /\ b \in 1..Size(t) /\ j < b /\ a \in 1..Size(t)
    BY SizeFacts
  <2>3. PICK y \in born : y = Sp(t, b) /\ node[y].tx = t /\ Active(y) /\ y # x
    <3>1. Sp(t, b) \in born
      BY <2>2 DEF StackOK, Shape
    <3>2. Active(Sp(t, b)) /\ Sp(t, b) # x
      <4>1. PICK y \in born : y = Sp(t, b) /\ y = Sp(t, b)'
        BY <1>4, <2>2, <3>1
      <4>2. Active(y)'
        BY <2>1, <4>1 DEF Active
      <4> QED
        BY <4>1, <4>2 DEF Leaves
    <3> QED
      BY <2>2, <3>1, <3>2 DEF StackOK, Shape
  <2>4. b < a
    <3>1. \E i, k \in 1..Depth(p) : i < k /\ frames[p][i].tx = y /\ frames[p][k].tx = x
      BY <2>3 DEF Leaves
    <3> QED
      BY <1>3, <2>2, <2>3, <3>1 DEF StackOK, Ordered
  <2>5. Sp(t, j) # x
    BY <1>3, <2>2, <2>4 DEF StackOK, Shape
  <2>6. ASSUME NEW w \in Wr(t, j), x \in scope[w]
        PROVE  FALSE
    <3>1. a <= j
      BY <1>3, <2>2, <2>6 DEF StackOK, WritesOK, WriteOK, Leaves
    <3> QED
      BY <2>2, <2>4, <3>1
  <2> QED
    BY <2>5, <2>6
<1> QED
  BY <1>2, <1>5, PopKeeps

\* In the session of the call that returns, the calls around it have their
\* savepoints below its own.
LEMMA AroundBelow ==
    ASSUME TypeOK, CallsInv, NEW p \in Thread, NEW x, NEW result, Leaves(p, x, result),
           NEW t \in Node, t = node[x].tx, StackOK(t), NEW a \in 2..Size(t), Sp(t, a) = x,
           NEW y, Active(y), y # x, NEW b \in 2..Size(t), Sp(t, b) = y
    PROVE  b < a
<1>1. node[y].tx = t
  BY DEF StackOK, Shape
<1>2. \E i, k \in 1..Depth(p) : i < k /\ frames[p][i].tx = y /\ frames[p][k].tx = x
  BY <1>1 DEF Leaves
<1>3. a \in 1..Size(t) /\ b \in 1..Size(t)
  BY SizeFacts
<1> QED
  BY <1>2, <1>3 DEF StackOK, Ordered

\* RELEASE SAVEPOINT x, whose layer is the a-th.
LEMMA ReleaseCuts ==
    ASSUME TypeOK, NEW t \in Node, Shape(t), NEW x, NEW a \in 2..Size(t), Sp(t, a) = x,
           Release(t, x)
    PROVE  /\ Size(t)' = a - 1 /\ Size(t) \in Nat
           /\ \A j \in 1..(a - 1) :
                /\ j \in 1..Size(t) /\ j # a /\ Sp(t, j)' = Sp(t, j)
                /\ Wr(t, j)' = IF j = a - 1 THEN UNION {Wr(t, k) : k \in (a - 1)..Size(t)} ELSE Wr(t, j)
<1>1. DbTypeOK /\ Sp(t, 1) # x /\ Size(t) \in Nat
  <2>1. Size(t) \in Nat /\ DbTypeOK
    BY SizeFacts DEF TypeOK
  <2>2. 1 \in 1..Size(t) /\ a \in 1..Size(t) /\ a # 1
    BY <2>1 DEF Shape
  <2> QED
    BY <2>1, <2>2 DEF Shape
<1>2. PICK b \in 2..Size(t) : Sp(t, b) = x /\ Merges(t, b)
  BY <1>1, ReleaseMerges
<1>3. b = a
  <2>1. a \in 1..Size(t) /\ b \in 1..Size(t)
    BY <1>1
  <2> QED
    BY <1>2, <2>1 DEF Shape
<1>4. \A j \in 1..(a - 1) : j \in 1..Size(t) /\ j # a
  BY <1>1
<1> QED
  BY <1>1, <1>2, <1>3, <1>4 DEF Merges

LEMMA ReleaseMoves ==
    ASSUME TypeOK, NEW t \in Node, Shape(t), NEW x, NEW a \in 2..Size(t), Sp(t, a) = x,
           Release(t, x)
    PROVE  /\ Cuts(t) /\ \A j \in 1..(a - 1) : \A w \in Wr(t, j)' : Moves(t, w, j)
           /\ \A k \in 1..Size(t) : \A w \in Wr(t, k) : \E j \in 1..(a - 1) : w \in Wr(t, j)'
<1>1. Merges(t, a)
  BY ReleaseCuts DEF Merges
<1> QED
  BY <1>1, MergeMoves DEF TypeOK

LEMMA ReleasedEnd ==
    ASSUME TypeOK, TypeOK', CallsInv, OnStack, NEW p \in Thread, NEW x,
           Leaves(p, x, "nil"), NEW t \in Node, t = node[x].tx, x # t, StackOK(t), Release(t, x)
    PROVE  /\ StackOK(t)'
           /\ \A j \in 2..Size(t) : Active(Sp(t, j)) /\ Sp(t, j) # x =>
                  j \in 2..(Size(t)') /\ Sp(t, j)' = Sp(t, j)
<1>1. PICK a \in 2..Size(t) : Sp(t, a) = x
  BY DEF OnStack, Leaves
<1>2. /\ Size(t)' = a - 1 /\ Size(t) \in Nat /\ a \in 1..Size(t)
      /\ \A j \in 1..(a - 1) : j \in 1..Size(t) /\ j # a /\ Sp(t, j)' = Sp(t, j)
  BY <1>1, SizeFacts, ReleaseCuts DEF StackOK
<1>3. Cuts(t) /\ \A j \in 1..(a - 1) : \A w \in Wr(t, j)' : Moves(t, w, j)
  BY <1>1, ReleaseMoves DEF StackOK
<1>4. Shape(t)' /\ Ordered(t)'
  BY <1>3, CutKeeps DEF StackOK, Leaves
<1>5. WritesOK(t)'
  <2> SUFFICES ASSUME NEW j \in 1..(Size(t)'), NEW w \in Wr(t, j)'
               PROVE  WriteOK(t, j, w)'
    BY DEF WritesOK
  <2> QED
    BY <1>2, <1>3, WriteKeeps DEF StackOK, Leaves
<1>6. Clean(t)'
  <2> SUFFICES ASSUME NEW j \in 1..(a - 1)
               PROVE  CleanAt(t, j)'
    BY <1>2 DEF Clean
  <2>1. \A l \in 1..Size(t) : CleanAt(t, l)
    BY DEF Release, StackOK, Clean, Survives
  <2>2. ASSUME NEW w \in Wr(t, j)'
        PROVE  \E l \in 1..Size(t) : w \in Wr(t, l) /\ CleanAt(t, l)
    BY <1>3, <2>1 DEF Moves
  <2>3. Sp(t, j) # x
    BY <1>1, <1>2 DEF StackOK, Shape
  <2> QED
    BY <1>2, <2>1, <2>2, <2>3, CleanPop
<1>7. ASSUME NEW j \in 2..Size(t), Active(Sp(t, j)), Sp(t, j) # x
      PROVE  j \in 2..(Size(t)') /\ Sp(t, j)' = Sp(t, j)
  <2>1. j < a
    BY <1>1, <1>7, AroundBelow
  <2> QED
    BY <1>2, <2>1
<1> QED
  BY <1>4, <1>5, <1>6, <1>7 DEF StackOK

\* ROLLBACK TO SAVEPOINT x.
LEMMA ResetCuts ==
    ASSUME TypeOK, NEW t \in Node, Shape(t), NEW x, NEW a \in 2..Size(t), Sp(t, a) = x,
           RollbackTo(t, x)
    PROVE  /\ Size(t)' = a /\ Size(t) \in Nat /\ Cuts(t)
           /\ \A j \in 1..a :
                /\ j \in 1..Size(t) /\ (j = a \/ j < a) /\ Sp(t, j)' = Sp(t, j)
                /\ Wr(t, j)' = IF j = a THEN {} ELSE Wr(t, j)
                /\ \A w \in Wr(t, j)' : Moves(t, w, j)
<1>1. DbTypeOK /\ Sp(t, 1) # x /\ Size(t) \in Nat
  <2>1. Size(t) \in Nat /\ DbTypeOK
    BY SizeFacts DEF TypeOK
  <2>2. 1 \in 1..Size(t) /\ a \in 1..Size(t) /\ a # 1
    BY <2>1 DEF Shape
  <2> QED
    BY <2>1, <2>2 DEF Shape
<1>2. PICK b \in 2..Size(t) : Sp(t, b) = x /\ Resets(t, b)
  BY <1>1, RollbackResets
<1>3. b = a
  <2>1. a \in 1..Size(t) /\ b \in 1..Size(t)
    BY <1>1
  <2> QED
    BY <1>2, <2>1 DEF Shape
<1>4. Resets(t, a)
  BY <1>2, <1>3
<1>5. /\ Cuts(t) /\ \A j \in 1..a : \A w \in Wr(t, j)' : Moves(t, w, j)
      /\ \A j \in 1..a : j \in 1..Size(t) /\ (j = a \/ j < a)
  BY <1>1, <1>4, ResetMoves
<1> QED
  BY <1>1, <1>4, <1>5 DEF Resets

LEMMA RolledBackEnd ==
    ASSUME TypeOK, TypeOK', CallsInv, OnStack, NEW p \in Thread, NEW x,
           Leaves(p, x, "handlerError"), NEW t \in Node, t = node[x].tx, x # t, StackOK(t),
           RollbackTo(t, x)
    PROVE  /\ StackOK(t)'
           /\ \A j \in 2..Size(t) : Active(Sp(t, j)) /\ Sp(t, j) # x =>
                  j \in 2..(Size(t)') /\ Sp(t, j)' = Sp(t, j)
<1>1. PICK a \in 2..Size(t) : Sp(t, a) = x
  BY DEF OnStack, Leaves
<1>0. Shape(t)
  BY DEF StackOK
<1>2. /\ Size(t)' = a /\ Size(t) \in Nat /\ Cuts(t)
      /\ \A j \in 1..a :
           /\ j \in 1..Size(t) /\ (j = a \/ j < a) /\ Sp(t, j)' = Sp(t, j)
           /\ Wr(t, j)' = IF j = a THEN {} ELSE Wr(t, j)
           /\ \A w \in Wr(t, j)' : Moves(t, w, j)
  BY <1>0, <1>1, ResetCuts
<1>3. Shape(t)' /\ Ordered(t)'
  BY <1>2, CutKeeps DEF StackOK, Leaves
<1>4. WritesOK(t)'
  <2> SUFFICES ASSUME NEW j \in 1..a, NEW w \in Wr(t, j)'
               PROVE  WriteOK(t, j, w)'
    BY <1>2 DEF WritesOK
  <2> QED
    BY <1>2, WriteKeeps DEF StackOK, Leaves
<1>5. Clean(t)'
  <2> SUFFICES ASSUME NEW j \in 1..a
               PROVE  CleanAt(t, j)'
    BY <1>2 DEF Clean
  <2>1. CASE j = a
    <3>1. Wr(t, j)' = {} /\ Sp(t, j)' = x /\ outcome'[x] = "handlerError"
      BY <1>1, <1>2, <2>1 DEF Leaves
    <3> QED
      BY <3>1 DEF CleanAt
  <2>2. CASE j # a
    <3>1. Survives(t, j)
      <4>1. a \in (j + 1)..Size(t) /\ Active(Sp(t, a))
        BY <1>1, <1>2, <2>2 DEF Leaves
      <4> QED
        BY <4>1 DEF RollbackTo, Survives
    <3>2. CleanAt(t, j) /\ Sp(t, j) # x
      BY <1>1, <1>2, <2>2, <3>1 DEF StackOK, Shape, Clean
    <3>3. \A w \in Wr(t, j) : x \notin scope[w]
      BY <1>1, <1>2, <2>2 DEF StackOK, WritesOK, WriteOK, Leaves
    <3> QED
      BY <1>2, <2>2, <3>2, <3>3, CleanPop
  <2> QED
    BY <2>1, <2>2
<1>6. ASSUME NEW j \in 2..Size(t), Active(Sp(t, j)), Sp(t, j) # x
      PROVE  j \in 2..(Size(t)') /\ Sp(t, j)' = Sp(t, j)
  <2>1. j < a
    BY <1>1, <1>6, AroundBelow
  <2> QED
    BY <1>2, <2>1
<1> QED
  BY <1>3, <1>4, <1>5, <1>6 DEF StackOK

\* What is durable stays so, whatever the call that returns says.
LEMMA SavedStays ==
    ASSUME TypeOK, CallsInv, Saved, NEW p \in Thread, NEW x, NEW result, Leaves(p, x, result),
           \A u \in Node : Used(u)' <=> Used(u), NEW w \in durable, NEW m \in scope[w]
    PROVE  SavedOK(w, m)'
<1>1. SavedOK(w, m) /\ m \in Node
  BY DEF Saved, TypeOK, DbTypeOK
<1>2. m # x
  BY <1>1 DEF SavedOK, Leaves
<1> QED
  BY <1>1, <1>2 DEF SavedOK, Leaves

\* COMMIT of the session of the outermost call t.
LEMMA SavedByCommit ==
    ASSUME TypeOK, CallsInv, NEW p \in Thread, NEW t \in Node,
           NEW result \in {"nil", "commitError"}, Leaves(p, t, result), node[t].tx = t,
           StackOK(t), session[t].state = "open",
           \A u \in Node : Used(u)' <=> Used(u), NEW w \in Pending(t)
    PROVE  w \in wrote /\ \A m \in scope[w] : SavedOK(w, m)'
<1>1. PICK j \in 1..Size(t) : w \in Wr(t, j)
  BY SizeFacts DEF Pending, Wr
<1>2. WriteOK(t, j, w) /\ CleanAt(t, j)
  BY <1>1 DEF StackOK, WritesOK, Clean, Survives
<1>3. w \in Node /\ Used(t) /\ t \in scope[w]
  BY <1>1, <1>2, SizeFacts DEF WriteOK, Used
<1>4. ASSUME NEW m \in scope[w], m # t, Active(m)
      PROVE  FALSE
  <2>1. node[m].tx = t
    BY <1>2, <1>4 DEF WriteOK
  <2>2. PICK i \in 1..Depth(p) : \E k \in 1..Depth(p) :
            i < k /\ frames[p][i].tx = m /\ frames[p][k].tx = t
    BY <1>4, <2>1 DEF Leaves
  <2>3. PICK k \in 1..Depth(p) : i < k /\ frames[p][i].tx = m /\ frames[p][k].tx = t
    BY <2>2
  <2>4. PICK l \in 1..i : frames[p][l].tx = t
    BY <2>1, <2>3 DEF CallsInv, CallsOK, CallOK, InSession
  <2>5. l \in 1..Depth(p) /\ l < k /\ l # k
    BY <2>3, FrameFacts
  <2> QED
    BY <2>3, <2>4, <2>5 DEF CallsInv, Apart
<1>5. ASSUME NEW m \in scope[w]
      PROVE  SavedOK(w, m)'
  <2>1. m \in Node /\ m \in born \ {Pool}
    BY <1>3 DEF TypeOK, CallsInv, Fresh
  <2>2. CASE m = t
    BY <1>3, <2>2 DEF SavedOK, Leaves
  <2>3. CASE m # t
    <3>1. ~Used(m)
      BY <1>3, <2>3 DEF CallsInv, Rooted
    <3>2. ~Active(m) /\ ~Active(m)'
      BY <1>4, <2>3 DEF Leaves
    <3>3. outcome[m] \in {"nil", "panic"}
      BY <1>1, <1>2, <2>1, <3>2 DEF CleanAt, CallsInv, Fresh
    <3> QED
      BY <2>1, <2>3, <3>1, <3>2, <3>3 DEF SavedOK, Leaves
  <2> QED
    BY <2>2, <2>3
<1> QED
  BY <1>2, <1>5 DEF WriteOK

\* A nested call returns.
LEMMA NestedEndStack ==
    ASSUME Savepoints, TypeOK, TypeOK', CallsInv, StackInv, NEW p \in Thread, NEW result,
           NEW x, Leaves(p, x, result), NEW t \in Node, t = node[x].tx, Used(t),
           EndsNested(p, x, t, result), \A u \in Node : Used(u)' <=> Used(u)
    PROVE  StackInv'
<1>1. StackOK(t) /\ OnStack /\ x # t
  BY DEF StackInv, EndsNested
<1>2. /\ StackOK(t)'
      /\ \A j \in 2..Size(t) : Active(Sp(t, j)) /\ Sp(t, j) # x =>
             j \in 2..(Size(t)') /\ Sp(t, j)' = Sp(t, j)
      /\ durable' = durable
      /\ \A u \in Node \ {t} : session'[u] = session[u]
  <2>1. CASE result = "nil" /\ Release(t, x)
    <3>1. durable' = durable /\ \A u \in Node \ {t} : session'[u] = session[u]
      BY <2>1 DEF Release, TypeOK, DbTypeOK
    <3> QED
      BY <1>1, <2>1, <3>1, ReleasedEnd
  <2>2. CASE result = "handlerError" /\ RollbackTo(t, x)
    <3>1. durable' = durable /\ \A u \in Node \ {t} : session'[u] = session[u]
      BY <2>2 DEF RollbackTo, TypeOK, DbTypeOK
    <3> QED
      BY <1>1, <2>2, <3>1, RolledBackEnd
  <2>3. CASE Refuse(t)
    <3>1. durable' = durable /\ \A u \in Node \ {t} : session'[u] = session[u]
      BY <2>3 DEF Refuse, TypeOK, DbTypeOK
    <3>2. Size(t)' = Size(t) /\ \A j \in 1..Size(t) : Sp(t, j)' = Sp(t, j)
      BY <1>1, <2>3, OpsSameStack, SameFacts DEF StackOK
    <3>3. \A j \in 2..Size(t) : j \in 1..Size(t)
      BY SizeFacts
    <3> QED
      BY <1>1, <2>3, <3>1, <3>2, <3>3, RefusedEnd
  <2> QED
    BY <2>1, <2>2, <2>3 DEF EndsNested
<1>3. \A u \in Node : Used(u)' => StackOK(u)'
  <2>1. ASSUME NEW u \in Node \ {t}, Used(u)'
        PROVE  StackOK(u)'
    BY <1>2, <2>1, PopOther DEF StackInv
  <2> QED
    BY <1>2, <2>1
<1>4. OnStack'
  <2> SUFFICES ASSUME NEW y \in Node, Active(y)', node'[y].tx # y
               PROVE  (\E j \in 2..Size(node[y].tx) : Sp(node[y].tx, j) = y)'
    BY DEF OnStack
  <2>1. Active(y) /\ y # x /\ y \in born
    BY ActiveCall DEF Leaves
  <2>2. ASSUME NEW u \in Node, NEW j \in 2..Size(u), Used(u), Sp(u, j) = y
        PROVE  j \in 2..(Size(u)') /\ Sp(u, j)' = y
    <3>1. CASE u = t
      BY <1>2, <2>1, <2>2, <3>1
    <3>2. CASE u # t
      BY <1>2, <2>2, <3>2 DEF Size, Sp
    <3> QED
      BY <3>1, <3>2
  <2> QED
    BY <1>1, <2>1, <2>2, OnStackKeeps DEF Leaves
<1>5. Saved'
  BY <1>2, SavedStays DEF StackInv, Saved, Leaves
<1> QED
  BY <1>3, <1>4, <1>5 DEF StackInv

\* The outermost call returns, or any call by a panic.
LEMMA OtherEndStack ==
    ASSUME TypeOK, TypeOK', CallsInv, StackInv, NEW p \in Thread, NEW result,
           NEW x, Leaves(p, x, result), NEW t \in Node, t = node[x].tx, Used(t),
           EndsOwner(x, t, result) \/ (result = "panic" /\ UNCHANGED dbVars),
           \A u \in Node : Used(u)' <=> Used(u)
    PROVE  StackInv'
<1>1. /\ \A u \in Node : Worsens(u)
      /\ \A u \in Node \ {t} : session'[u] = session[u]
      /\ result = "panic" \/ session'[t].state = "done"
  <2>1. CASE EndsOwner(x, t, result)
    <3>1. /\ \A u \in Node : SameStack(u)
          /\ \A u \in Node \ {t} : session'[u] = session[u]
      BY <2>1, OpsSameStack DEF EndsOwner
    <3>2. session'[t].state = "done"
      BY <2>1, EndFreesOne DEF EndsOwner, TypeOK
    <3> QED
      BY <3>1, <3>2 DEF Worsens
  <2>2. CASE result = "panic" /\ UNCHANGED dbVars
    BY <2>2 DEF dbVars, Worsens, SameStack
  <2> QED
    BY <2>1, <2>2
<1>2. \A u \in Node : Used(u)' => StackOK(u)'
  <2>1. ASSUME NEW u \in Node, Used(u)
        PROVE  StackOK(u)'
    <3>1. StackOK(u) /\ Worsens(u)
      BY <1>1, <2>1 DEF StackInv
    <3>2. CASE u = t
      BY <1>1, <3>1, <3>2, PopKeeps DEF Survives
    <3>3. CASE u # t
      BY <1>1, <3>1, <3>3, PopOther
    <3> QED
      BY <3>2, <3>3
  <2> QED
    BY <2>1
<1>3. OnStack'
  <2>1. \A u \in Node : Used(u) => /\ Size(u)' = Size(u)
                                   /\ \A j \in 2..Size(u) : Sp(u, j)' = Sp(u, j)
    BY <1>1, SameFacts, SizeFacts DEF StackInv, StackOK, Worsens
  <2>2. ASSUME NEW y \in Node, Active(y)'
        PROVE  y \in born
    BY <2>2, ActiveCall DEF Leaves
  <2> QED
    BY <2>1, <2>2, OnStackKeeps DEF StackInv, OnStack, Leaves
<1>4. Saved'
  <2>1. CASE /\ x = t /\ result \in {"nil", "commitError"} /\ session[t].state = "open"
             /\ durable' = durable \cup Pending(t)
    <3>1. ASSUME NEW w \in Pending(t)
          PROVE  w \in wrote /\ \A m \in scope[w] : SavedOK(w, m)'
      BY <2>1, SavedByCommit DEF StackInv
    <3>2. \A w \in durable : \A m \in scope[w] : SavedOK(w, m)'
      BY SavedStays DEF StackInv
    <3> QED
      BY <2>1, <3>1, <3>2 DEF StackInv, Saved, Leaves
  <2>2. CASE durable' = durable
    <3>1. \A w \in durable : \A m \in scope[w] : SavedOK(w, m)'
      BY SavedStays DEF StackInv
    <3> QED
      BY <2>2, <3>1 DEF StackInv, Saved, Leaves
  <2> QED
    BY <2>1, <2>2 DEF EndsOwner, CommitTx, CommitTxFails, RollbackTx, RollbackTxFails, dbVars
<1> QED
  BY <1>2, <1>3, <1>4 DEF StackInv

LEMMA EndsStack ==
    ASSUME Savepoints, TypeOK, TypeOK', CallsInv, StackInv, NEW p \in Thread, NEW result,
           Ends(p, result)
    PROVE  StackInv'
<1>1. PICK x : x = Top(p).tx
  OBVIOUS
<1>2. Leaves(p, x, result) /\ \A u \in Node : Used(u)' <=> Used(u)
  BY <1>1, PopLeaves, EndsKeeps DEF Ends, Keeps
<1>3. PICK t \in Node : t = node[x].tx /\ Used(t)
  BY <1>2, ActiveCall DEF Leaves
<1>4. \/ EndsNested(p, x, t, result)
      \/ EndsOwner(x, t, result) \/ (result = "panic" /\ UNCHANGED dbVars)
  BY <1>1, <1>3 DEF Ends
<1> QED
  BY <1>2, <1>3, <1>4, NestedEndStack, OtherEndStack

\* A session does not get better by a statement that is refused.
LEMMA RefusedState ==
    ASSUME TypeOK, NEW t \in Node, Refuse(t)
    PROVE  session'[t].state \in {session[t].state, "lost"} \/ session[t].state = "open"
<1>1. session \in [Node -> Session] /\ session[t] \in Session
  BY DEF TypeOK, DbTypeOK
<1>2. CASE session' = [session EXCEPT ![t].state = IF @ = "open" THEN "aborted" ELSE @]
  <2>1. session'[t].state = IF session[t].state = "open" THEN "aborted" ELSE session[t].state
    BY <1>1, <1>2 DEF Session
  <2> QED
    BY <2>1
<1>3. CASE session' = [session EXCEPT ![t].state = "lost"]
  <2>1. session'[t].state = "lost"
    BY <1>1, <1>3 DEF Session
  <2> QED
    BY <2>1
<1> QED
  BY <1>2, <1>3 DEF Refuse

LEMMA StackStep ==
    ASSUME Savepoints, TypeOK, TypeOK', CallsInv, CallsInv', StackInv, [Next]_vars
    PROVE  StackInv'
<1>1. Kinds
  BY StepKinds
<1>2. ASSUME NEW p \in Thread, Quiet(p)
      PROVE  StackInv'
  BY <1>2, StillKinds, QuietStack DEF Quiet, dbVars, Worsens, SameStack
<1>3. ASSUME NEW p \in Thread, NEW k \in 1..Depth(p), Refused(p, k)
      PROVE  StackInv'
  <2>1. PICK t \in Node : t = node[frames[p][k].tx].tx /\ Refuse(t)
    BY <1>3, ActiveFacts, Zenon DEF Refused
  <2>2. session'[t].state \in {session[t].state, "lost"} \/ session[t].state = "open"
    BY <2>1, RefusedState
  <2>3. \A u \in Node : Worsens(u)
    BY <2>1, <2>2, OpsSameStack DEF Worsens
  <2> QED
    BY <1>3, <2>1, <2>3, StillKinds, QuietStack, Zenon DEF Refuse
<1>4. ASSUME NEW p \in Thread, NEW k \in 1..Depth(p), CallWrites(p, k)
      PROVE  StackInv'
  BY <1>4, StillKinds, WriteStack
<1>5. CASE PoolWrites
  BY <1>5, StillKinds, QuietStack DEF PoolWrites, AutoCommit, Worsens, SameStack
<1>6. ASSUME NEW t \in Node, Cancelled(t)
      PROVE  StackInv'
  <2>1. session'[t].state = "done"
    BY <1>6 DEF Cancelled, ContextDone, TypeOK, DbTypeOK, Session
  <2>2. \A u \in Node : Worsens(u)
    BY <1>6, <2>1, OpsSameStack DEF Worsens, Cancelled
  <2> QED
    BY <1>6, <2>2, StillKinds, QuietStack DEF Cancelled, ContextDone
<1>7. CASE UNCHANGED <<frames, waiting, node, born, dbVars, history>>
  BY <1>7, StillKinds, QuietStack DEF dbVars, Worsens, SameStack
<1>8. ASSUME NEW p \in Thread, NEW m \in Node,
             Opens(p, m) \/ \E k \in 1..Depth(p) : Nests(p, k, m)
      PROVE  StackInv'
  BY <1>8, OpenStack, NestStack
<1>9. ASSUME NEW p \in Thread, NEW result \in {"nil", "handlerError", "commitError", "panic"},
             Ends(p, result)
      PROVE  StackInv'
  BY <1>9, EndsStack
<1> QED
  BY <1>1, <1>2, <1>3, <1>4, <1>5, <1>6, <1>7, <1>8, <1>9 DEF Kinds

------------------------------------------------------------------------------
\* With savepoints, every layer of a session belongs to one call, in the order of the
\* calls, and what may still be committed holds no write of a call that failed.
THEOREM StackHolds ==
    ASSUME Savepoints
    PROVE  Spec => [](TypeOK /\ CallsInv /\ StackInv)
<1>1. Init /\ TypeOK /\ CallsInv => StackInv
  BY DEF Init, NodeInit, DbInit, StackInv, OnStack, Saved, Used, Active, Depth
<1>2. TypeOK /\ CallsInv /\ StackInv /\ TypeOK' /\ CallsInv' /\ [Next]_vars => StackInv'
  BY StackStep
<1> QED
  BY <1>1, <1>2, CallsNest, PTL DEF Spec

\* "If this function returns an error, the transaction rollbacks automatically"
\* (README.md:598): with savepoints, a durable write was made in calls that all
\* returned nil, but for a nested handler whose panic was recovered and for an
\* error of the last COMMIT, whatever statements failed in between.
THEOREM FailedStaysGone ==
    ASSUME Savepoints
    PROVE  Spec => []FailedIsGone
<1>1. ASSUME TypeOK, CallsInv, StackInv
      PROVE  FailedIsGone
  <2> SUFFICES ASSUME NEW w \in durable, NEW m \in scope[w]
               PROVE  \/ outcome[m] = "nil"
                      \/ outcome[m] = "commitError" /\ m = Owner(w)
                      \/ outcome[m] = "panic" /\ m # Owner(w)
    BY DEF FailedIsGone
  <2>1. SavedOK(w, m) /\ w \in Node
    BY <1>1 DEF StackInv, Saved, TypeOK, DbTypeOK
  <2>2. PICK t \in scope[w] : Used(t) /\ \A x \in scope[w] : x # t => ~Used(x)
    BY <1>1, <2>1 DEF CallsInv, Rooted
  <2>3. Owner(w) = t
    BY <2>2 DEF Owner, Used
  <2> QED
    BY <2>1, <2>2, <2>3 DEF SavedOK
<1> QED
  BY <1>1, StackHolds, PTL

------------------------------------------------------------------------------
\* Handlers that use only the driver they received: the calls of a goroutine form one
\* chain, each begun on the clone of the one before it.
ChainAt(p, i) ==
    /\ frames[p][i].driver = (IF i = 1 THEN Pool ELSE frames[p][i - 1].tx)
    /\ scope[frames[p][i].tx] = {frames[p][k].tx : k \in 1..i}

Chain == \A p \in Thread :
    /\ \A i \in 1..Depth(p) : ChainAt(p, i)
    /\ waiting[p] # None => waiting[p] = IF Depth(p) = 0 THEN Pool ELSE frames[p][Depth(p)].tx

LEMMA StillChain ==
    ASSUME ~OuterUse, TypeOK, Chain, Still
    PROVE  Chain'
<1>1. UNCHANGED <<frames, scope>> /\ \A q \in Thread : Depth(q)' = Depth(q)
  BY DEF Still, Depth
<1>2. ASSUME NEW q \in Thread, waiting'[q] # None, waiting'[q] # waiting[q]
      PROVE  waiting'[q] = IF Depth(q) = 0 THEN Pool ELSE frames[q][Depth(q)].tx
  <2>1. PICK p \in Thread : Waits(p)
    BY <1>2 DEF Still
  <2>2. PICK d \in Driver(p) \cup {None} : waiting' = [waiting EXCEPT ![p] = d]
    BY <2>1 DEF Waits
  <2>3. p = q /\ waiting'[q] = d /\ d \in Driver(q)
    BY <1>2, <2>2 DEF TypeOK
  <2> QED
    BY <2>3, FrameFacts DEF Driver, Top
<1>3. ASSUME NEW q \in Thread, NEW i \in 1..Depth(q)
      PROVE  ChainAt(q, i)'
  <2>1. ChainAt(q, i)
    BY DEF Chain
  <2> QED
    BY <1>1, <2>1 DEF ChainAt
<1> QED
  BY <1>1, <1>2, <1>3 DEF Chain

LEMMA PushChain ==
    ASSUME TypeOK, CallsInv, Chain, NEW p \in Thread, NEW n \in Node, NEW m \in Node,
           NEW t, NEW nested, Pushes(p, n, m, t, nested)
    PROVE  Chain'
<1> DEFINE f == [driver |-> n, tx |-> m]
<1>1. f \in Frame /\ f.driver = n /\ f.tx = m /\ frames' = [frames EXCEPT ![p] = Append(@, f)]
  BY DEF Frame, Pushes
<1> HIDE DEF f
<1>2. PICK top \in Nat \ {0} : top = Depth(p) + 1 /\ Depth(p) \in Nat
  BY FrameFacts
<1>3. /\ \A q \in Thread : q # p => Depth(q)' = Depth(q)
      /\ Depth(p)' = top /\ frames'[p][top] = f
      /\ \A q \in Thread : \A i \in 1..Depth(q) : frames'[q][i] = frames[q][i]
  BY <1>1, <1>2, Pushed
<1>4. /\ waiting[p] = n /\ waiting'[p] = None
      /\ \A q \in Thread : q # p => waiting'[q] = waiting[q]
      /\ scope'[m] = {m} \cup scope[n]
      /\ \A u \in Node \ {m} : scope'[u] = scope[u]
  BY DEF Pushes, TypeOK
<1>5. ASSUME NEW q \in Thread, NEW i \in 1..Depth(q)
      PROVE  ChainAt(q, i)'
  <2>1. ChainAt(q, i) /\ frames[q][i].tx \in Node \ {m}
    BY ActiveFacts DEF Chain, Pushes
  <2>2. Depth(q) \in Nat /\ \A k \in 1..i : k \in 1..Depth(q) /\ frames'[q][k] = frames[q][k]
    BY <1>3, FrameFacts
  <2>3. i # 1 => i - 1 \in 1..i
    BY <2>2
  <2>4. {frames'[q][k].tx : k \in 1..i} = {frames[q][k].tx : k \in 1..i}
    BY <2>2
  <2> QED
    BY <1>3, <1>4, <2>1, <2>2, <2>3, <2>4 DEF ChainAt
<1>6. ChainAt(p, top)'
  <2>1. n = IF Depth(p) = 0 THEN Pool ELSE frames[p][Depth(p)].tx
    BY <1>4, NoneAssumption DEF Chain
  <2>2. \A k \in 1..top : k = top \/ k \in 1..Depth(p)
    BY <1>2
  <2>3. {frames'[p][k].tx : k \in 1..top} = {m} \cup {frames[p][k].tx : k \in 1..Depth(p)}
    <3>1. \A k \in 1..Depth(p) : frames'[p][k].tx = frames[p][k].tx /\ k \in 1..top
      BY <1>2, <1>3
    <3>2. top \in 1..top
      BY <1>2
    <3>3. frames'[p][top].tx = m
      BY <1>1, <1>3
    <3> QED
      BY <2>2, <3>1, <3>2, <3>3
  <2>4. CASE Depth(p) = 0
    <3>1. scope[n] = {} /\ {frames[p][k].tx : k \in 1..Depth(p)} = {}
      BY <2>1, <2>4 DEF CallsInv, PoolOK
    <3> QED
      BY <1>1, <1>2, <1>3, <1>4, <2>1, <2>3, <2>4, <3>1 DEF ChainAt
  <2>5. CASE Depth(p) # 0
    <3>1. Depth(p) \in 1..Depth(p) /\ top # 1 /\ top - 1 = Depth(p)
      BY <1>2, <2>5, FrameFacts
    <3>2. scope[n] = {frames[p][k].tx : k \in 1..Depth(p)}
      BY <2>1, <2>5, <3>1 DEF Chain, ChainAt
    <3>3. frames'[p][top - 1].tx = n /\ frames'[p][top].driver = n /\ frames'[p][top].tx = m
      <4>1. frames'[p][top].driver = n /\ frames'[p][top].tx = m
        BY <1>1, <1>3
      <4>2. frames'[p][top - 1] = frames[p][Depth(p)] /\ n = frames[p][Depth(p)].tx
        BY <1>3, <2>1, <2>5, <3>1
      <4> QED
        BY <4>1, <4>2
    <3>4. scope'[m] = {frames'[p][k].tx : k \in 1..top}
      BY <1>4, <2>3, <3>2
    <3> QED
      BY <3>1, <3>3, <3>4 DEF ChainAt
  <2> QED
    BY <2>4, <2>5
<1>7. ASSUME NEW q \in Thread
      PROVE  \A i \in 1..(Depth(q)') : ChainAt(q, i)'
  <2>1. \A i \in 1..top : i = top \/ i \in 1..Depth(p)
    BY <1>2
  <2> QED
    BY <1>3, <1>5, <1>6, <2>1
<1>8. ASSUME NEW q \in Thread, waiting'[q] # None
      PROVE  waiting'[q] = IF Depth(q)' = 0 THEN Pool ELSE frames'[q][Depth(q)'].tx
  <2>1. q # p /\ waiting'[q] = waiting[q] /\ Depth(q)' = Depth(q)
    BY <1>3, <1>4, <1>8
  <2>2. Depth(q) # 0 => Depth(q) \in 1..Depth(q)
    BY FrameFacts
  <2> QED
    BY <1>3, <1>8, <2>1, <2>2 DEF Chain
<1> QED
  BY <1>7, <1>8 DEF Chain

LEMMA PopChain ==
    ASSUME TypeOK, CallsInv, Chain, NEW p \in Thread, NEW result, Pops(p, result)
    PROVE  Chain'
<1>1. /\ frames[p] # <<>> /\ waiting[p] = None /\ UNCHANGED <<scope, waiting>>
      /\ frames' = [frames EXCEPT ![p] = SubSeq(@, 1, Depth(p) - 1)]
  BY DEF Pops, InHandler, Return
<1>2. /\ \A q \in Thread : q # p => Depth(q)' = Depth(q)
      /\ Depth(p)' = Depth(p) - 1
      /\ \A q \in Thread : \A i \in 1..(Depth(q)') :
             i \in 1..Depth(q) /\ frames'[q][i] = frames[q][i]
  BY <1>1, Popped
<1>3. \A q \in Thread : Depth(q) \in Nat /\ Depth(p) # 0
  BY <1>1, FrameFacts
<1>4. ASSUME NEW q \in Thread, NEW i \in 1..(Depth(q)')
      PROVE  ChainAt(q, i)'
  <2>1. ChainAt(q, i)
    BY <1>2 DEF Chain
  <2>2. \A k \in 1..i : frames'[q][k] = frames[q][k]
    BY <1>2, <1>3
  <2>3. i # 1 => i - 1 \in 1..i
    BY <1>2, <1>3
  <2>4. {frames'[q][k].tx : k \in 1..i} = {frames[q][k].tx : k \in 1..i}
    BY <2>2
  <2>5. i \in 1..i
    BY <1>2, <1>3
  <2> QED
    BY <1>1, <2>1, <2>2, <2>3, <2>4, <2>5 DEF ChainAt
<1>5. ASSUME NEW q \in Thread, waiting'[q] # None
      PROVE  waiting'[q] = IF Depth(q)' = 0 THEN Pool ELSE frames'[q][Depth(q)'].tx
  <2>1. q # p /\ waiting'[q] = waiting[q] /\ Depth(q)' = Depth(q)
    BY <1>1, <1>2, <1>5
  <2>2. Depth(q) # 0 => Depth(q) \in 1..(Depth(q)')
    BY <1>3, <2>1
  <2> QED
    BY <1>2, <1>5, <2>1, <2>2 DEF Chain
<1> QED
  BY <1>4, <1>5 DEF Chain

LEMMA ChainStep ==
    ASSUME ~OuterUse, TypeOK, CallsInv, Chain, [Next]_vars
    PROVE  Chain'
<1>1. ASSUME NEW p \in Thread, NEW m \in Node, Opens(p, m)
      PROVE  Chain'
  BY <1>1, PushChain, PoolAssumption DEF Opens
<1>2. ASSUME NEW p \in Thread, NEW k \in 1..Depth(p), NEW m \in Node, Nests(p, k, m)
      PROVE  Chain'
  <2>1. frames[p][k].tx \in Node
    BY FrameFacts
  <2> QED
    BY <1>2, <2>1, PushChain DEF Nests
<1>3. ASSUME NEW p \in Thread, NEW result, Ends(p, result)
      PROVE  Chain'
  BY <1>3, PopChain DEF Ends
<1>4. Still => Chain'
  BY StillChain
<1> QED
  BY <1>1, <1>2, <1>3, <1>4, StepKinds, StillKinds DEF Kinds

\* They work in the session of the outermost one, where each nested call has its layer.
LEMMA OneSession ==
    ASSUME TypeOK, CallsInv, Chain, NEW p \in Thread, NEW i \in 1..Depth(p)
    PROVE  /\ 1 \in 1..Depth(p) /\ frames[p][1].tx \in Node /\ Used(frames[p][1].tx)
           /\ node[frames[p][i].tx].tx = frames[p][1].tx
           /\ i # 1 => frames[p][i].tx # frames[p][1].tx
<1>1. /\ Depth(p) \in Nat /\ 1 \in 1..Depth(p)
      /\ \A k \in 1..i : k \in 1..Depth(p)
  BY FrameFacts
<1>2. ASSUME NEW k \in 1..Depth(p), k # 1
      PROVE  frames[p][k].tx # node[frames[p][k].tx].tx
  <2>1. frames[p][k].driver = frames[p][k - 1].tx /\ k - 1 \in 1..Depth(p)
    BY <1>1, <1>2 DEF Chain, ChainAt
  <2>2. frames[p][k].driver # Pool
    BY <2>1, ActiveFacts
  <2>3. Placed(p, k, frames[p][k].tx, frames[p][k].driver, node[frames[p][k].tx].tx)
    BY DEF CallsInv, CallsOK, CallOK
  <2> QED
    BY <2>2, <2>3 DEF Placed
<1>3. PICK k \in 1..i : frames[p][k].tx = node[frames[p][i].tx].tx
  BY DEF CallsInv, CallsOK, CallOK, InSession
<1>4. k \in 1..Depth(p) /\ Used(frames[p][k].tx)
  BY <1>1, <1>3, ActiveFacts
<1>5. k = 1
  BY <1>2, <1>4, ActiveFacts
<1>6. i # 1 => frames[p][i].tx # frames[p][1].tx
  BY <1>1 DEF CallsInv, Apart
<1> QED
  BY <1>1, <1>3, <1>4, <1>5, <1>6, ActiveFacts

\* The position of the layer of p's i-th call, in the order of the calls.
LEMMA BaseFacts ==
    ASSUME TypeOK, CallsInv, StackInv, Chain, NEW p \in Thread, NEW t, t = frames[p][1].tx,
           NEW i \in 1..Depth(p)
    PROVE  /\ Base(p, i) \in 1..Size(t) /\ Base(p, 1) = 1
           /\ i # 1 => Base(p, i) \in 2..Size(t) /\ Sp(t, Base(p, i)) = frames[p][i].tx
           /\ i # 1 => \A j \in 1..Size(t) : Sp(t, j) = frames[p][i].tx => j = Base(p, i)
<1>1. t \in Node /\ Used(t) /\ StackOK(t) /\ 1 \in 1..Size(t) /\ Base(p, 1) = 1
  BY OneSession DEF StackInv, StackOK, Shape, Base
<1>2. ASSUME i # 1
      PROVE  /\ Base(p, i) \in 2..Size(t) /\ Sp(t, Base(p, i)) = frames[p][i].tx
             /\ \A j \in 1..Size(t) : Sp(t, j) = frames[p][i].tx => j = Base(p, i)
  <2>1. PICK x \in Node : x = frames[p][i].tx /\ Active(x) /\ node[x].tx = t /\ x # t
    BY <1>2, OneSession, ActiveFacts DEF Active
  <2>2. PICK a \in 2..Size(t) : Sp(t, a) = x
    BY <2>1 DEF StackInv, OnStack
  <2>3. a \in 1..Size(t) /\ DOMAIN session[t].layers = 1..Size(t)
    BY <1>1, SizeFacts
  <2>4. At(t, x) = {j \in 1..Size(t) : Sp(t, j) = x}
    BY <2>3 DEF At, Sp
  <2>5. \A j \in At(t, x) : j = a
    BY <1>1, <2>2, <2>3, <2>4 DEF StackOK, Shape
  <2>6. Base(p, i) = CHOOSE j \in At(t, x) : TRUE
    BY <1>2, <2>1 DEF Base
  <2>7. Base(p, i) = a
    BY <2>2, <2>3, <2>4, <2>5, <2>6
  <2> QED
    BY <2>1, <2>2, <2>4, <2>5, <2>7
<1>3. 2..Size(t) \subseteq 1..Size(t)
  BY <1>1, SizeFacts
<1> QED
  BY <1>1, <1>2, <1>3

LEMMA BaseOrder ==
    ASSUME TypeOK, CallsInv, StackInv, Chain, NEW p \in Thread,
           NEW i \in 1..Depth(p), NEW k \in 1..Depth(p), i < k
    PROVE  Base(p, i) < Base(p, k)
<1>1. PICK t \in Node : t = frames[p][1].tx /\ Used(t) /\ StackOK(t)
  BY OneSession DEF StackInv
<1>2. k # 1 /\ Size(t) \in Nat
  BY <1>1, SizeFacts
<1>3. Base(p, k) \in 2..Size(t) /\ Sp(t, Base(p, k)) = frames[p][k].tx /\ Base(p, k) \in 1..Size(t)
  BY <1>1, <1>2, BaseFacts
<1>4. CASE i = 1
  BY <1>1, <1>2, <1>3, <1>4, BaseFacts
<1>5. CASE i # 1
  <2>1. Base(p, i) \in 1..Size(t) /\ Sp(t, Base(p, i)) = frames[p][i].tx
    BY <1>1, <1>5, BaseFacts
  <2> QED
    BY <1>1, <1>3, <2>1 DEF StackOK, Ordered
<1> QED
  BY <1>4, <1>5

\* A layer belongs to the call whose span it lies in.
LEMMA SpanFacts ==
    ASSUME TypeOK, CallsInv, StackInv, Chain, NEW p \in Thread, NEW t, t = frames[p][1].tx,
           NEW i \in 1..Depth(p)
    PROVE  /\ Base(p, i) \in Span(p, i) /\ Span(p, i) \subseteq 1..Size(t)
           /\ \A j \in Span(p, i) : \A k \in 1..Depth(p) :
                  (k <= i => Base(p, k) <= j) /\ (i < k => j < Base(p, k))
<1>1. t \in Node /\ Size(t) \in Nat /\ Depth(p) \in Nat /\ Size(t) = Len(SessionOf(p).layers)
  BY OneSession, SizeFacts, FrameFacts DEF SessionOf, Size
<1>2. \A k \in 1..Depth(p) : Base(p, k) \in 1..Size(t)
  BY BaseFacts
<1>3. \A j, k \in 1..Depth(p) : j < k => Base(p, j) < Base(p, k)
  BY BaseOrder
<1>4. CASE i = Depth(p)
  <2>1. Span(p, i) = Base(p, i)..Size(t)
    BY <1>1, <1>4 DEF Span
  <2> QED
    BY <1>1, <1>2, <1>3, <1>4, <2>1
<1>5. CASE i # Depth(p)
  <2>1. Span(p, i) = Base(p, i)..(Base(p, i + 1) - 1) /\ i + 1 \in 1..Depth(p) /\ i < i + 1
    BY <1>1, <1>5 DEF Span
  <2>2. \A k \in 1..Depth(p) : i < k => Base(p, i + 1) <= Base(p, k)
    <3>1. \A k \in 1..Depth(p) : i < k => k = i + 1 \/ i + 1 < k
      OBVIOUS
    <3> QED
      BY <1>2, <1>3, <2>1, <3>1
  <2>3. \A k \in 1..Depth(p) : k <= i => Base(p, k) <= Base(p, i)
    <3>1. \A k \in 1..Depth(p) : k <= i => k = i \/ k < i
      OBVIOUS
    <3> QED
      BY <1>2, <1>3, <3>1
  <2>4. Base(p, i) < Base(p, i + 1)
    BY <1>3, <2>1
  <2> QED
    BY <1>1, <1>2, <2>1, <2>2, <2>3, <2>4
<1> QED
  BY <1>4, <1>5

LEMMA Matches ==
    ASSUME TypeOK, CallsInv, StackInv, Chain
    PROVE  StackMatchesCalls
<1> SUFFICES ASSUME NEW p \in Thread, InHandler(p), SessionOf(p).state = "open"
             PROVE  /\ \A i \in 2..Depth(p) : At(frames[p][1].tx, frames[p][i].tx) # {}
                    /\ \A i \in 1..Depth(p) : Span(p, i) # {}
                    /\ \A i \in 1..Depth(p) : \A j \in Span(p, i) \ {Base(p, i)} :
                           outcome[SessionOf(p).layers[j].sp] \in {"handlerError", "panic"}
  BY DEF StackMatchesCalls
<1>1. PICK t \in Node : t = frames[p][1].tx /\ Used(t) /\ StackOK(t)
  <2>1. 1 \in 1..Depth(p)
    BY FrameFacts DEF InHandler
  <2> QED
    BY <2>1, OneSession DEF StackInv
<1>2. ASSUME NEW i \in 2..Depth(p)
      PROVE  At(t, frames[p][i].tx) # {}
  <2>1. i \in 1..Depth(p) /\ i # 1
    BY FrameFacts
  <2>2. Base(p, i) \in 1..Size(t) /\ Sp(t, Base(p, i)) = frames[p][i].tx
    BY <1>1, <2>1, BaseFacts
  <2> QED
    BY <2>2, SizeFacts DEF At, Sp
<1>3. ASSUME NEW i \in 1..Depth(p), NEW j \in Span(p, i), j # Base(p, i)
      PROVE  outcome[SessionOf(p).layers[j].sp] \in {"handlerError", "panic"}
  <2>1. /\ j \in 1..Size(t) /\ Base(p, i) \in 1..Size(t) /\ Size(t) \in Nat
        /\ \A k \in 1..Depth(p) : (k <= i => Base(p, k) <= j) /\ (i < k => j < Base(p, k))
    BY <1>1, SpanFacts, BaseFacts, SizeFacts
  <2>2. j \in 2..Size(t)
    BY <1>3, <2>1
  <2>3. CleanAt(t, j) /\ Sp(t, j) \in born
    BY <1>1, <2>1, <2>2 DEF StackOK, Shape, Clean, Survives, SessionOf
  <2>4. ASSUME Active(Sp(t, j))
        PROVE  FALSE
    <3>1. PICK x \in born : x = Sp(t, j) /\ node[x].tx = t /\ x # t /\ Active(x)
      BY <1>1, <2>2, <2>3, <2>4 DEF StackOK, Shape
    <3>2. PICK q \in Thread : \E k \in 1..Depth(q) : frames[q][k].tx = x
      BY <3>1 DEF Active
    <3>3. PICK k \in 1..Depth(q) : frames[q][k].tx = x
      BY <3>2
    <3>4. frames[q][1].tx = t /\ 1 \in 1..Depth(q) /\ k # 1
      BY <3>1, <3>3, OneSession
    <3>5. 1 \in 1..Depth(p)
      BY OneSession
    <3>6. q = p
      BY <1>1, <3>4, <3>5 DEF CallsInv, Apart
    <3>7. j = Base(p, k) /\ k \in 1..Depth(p) /\ Base(p, k) \in 1..Size(t)
      BY <1>1, <2>1, <3>1, <3>3, <3>4, <3>6, BaseFacts
    <3>8. ~(i < k)
      BY <2>1, <3>7
    <3>9. k = i \/ k < i
      BY <3>7, <3>8, FrameFacts
    <3>10. Base(p, k) < Base(p, i)
      BY <1>3, <3>7, <3>9, BaseOrder
    <3>11. Base(p, i) <= j
      BY <2>1
    <3> QED
      BY <2>1, <3>7, <3>10, <3>11
  <2>5. outcome[Sp(t, j)] \in {"handlerError", "panic"}
    BY <2>2, <2>3, <2>4 DEF CleanAt
  <2> QED
    BY <1>1, <2>5 DEF Sp, SessionOf
<1> QED
  BY <1>1, <1>2, <1>3, SpanFacts

------------------------------------------------------------------------------
\* Such handlers write above the savepoints of all calls in progress, and only into
\* their own scope.
Inside(t) == \A j \in 1..Size(t) : \A a \in 2..Size(t) : \A w \in Wr(t, j) :
    Active(Sp(t, a)) /\ a <= j => Sp(t, a) \in scope[w]

\* What they wrote is on the stack until a call of its scope fails or panics.
Unbroken(w) == \A m \in scope[w] : outcome[m] \in {"none", "nil"}
Complete(t) == session[t].state \in {"open", "aborted"} /\ Active(t) =>
    \A w \in wrote : t \in scope[w] /\ Unbroken(w) => \E j \in 1..Size(t) : w \in Wr(t, j)

\* AllOrNothing for the session r.
Due(r) == {w \in wrote : r \in scope[w] /\ \A m \in scope[w] \ {r} : outcome[m] = "nil"}
Settled(r) == /\ outcome[r] = "nil" => Due(r) \subseteq durable
              /\ outcome[r] = "commitError" => Due(r) \subseteq durable \/ Due(r) \cap durable = {}

SessionOK(t) == Inside(t) /\ Complete(t) /\ Settled(t)
ScopeInv == Chain /\ \A t \in Node : Used(t) => SessionOK(t)

\* The calls in the scope of a call in progress are in progress, in the same session.
LEMMA ScopeActive ==
    ASSUME TypeOK, CallsInv, NEW m, Active(m), NEW y \in scope[m]
    PROVE  Active(y) /\ node[y].tx = node[m].tx
<1>1. PICK p \in Thread : \E i \in 1..Depth(p) : frames[p][i].tx = m
  BY DEF Active
<1>2. PICK i \in 1..Depth(p) : frames[p][i].tx = m
  BY <1>1
<1>3. InScope(p, i, m, node[m].tx)
  BY <1>2 DEF CallsInv, CallsOK, CallOK
<1>4. \A k \in 1..i : k \in 1..Depth(p)
  BY FrameFacts
<1> QED
  BY <1>3, <1>4 DEF InScope, Active

\* The session of a write is the one used in its scope.
LEMMA OneUsed ==
    ASSUME TypeOK, CallsInv, NEW w \in Node, NEW r \in scope[w], Used(r)
    PROVE  /\ \A x \in scope[w] : r \in scope[x] /\ (x # r => ~Used(x))
           /\ Owner(w) = r
<1>1. PICK t \in scope[w] : Used(t) /\ \A x \in scope[w] : t \in scope[x] /\ (x # t => ~Used(x))
  BY DEF CallsInv, Rooted
<1>2. t = r
  BY <1>1
<1> QED
  BY <1>1, <1>2 DEF Owner, Used

\* Layers that stay keep what lies inside them.
LEMMA CutInside ==
    ASSUME TypeOK, CallsInv, Evolves, NEW t \in Node, Cuts(t), Shape(t), WritesOK(t), Inside(t),
           NEW j \in 1..(Size(t)'), NEW w, Moves(t, w, j),
           NEW a \in 2..(Size(t)'), Active(Sp(t, a))', a <= j
    PROVE  Sp(t, a)' \in scope'[w]
<1>1. Size(t) \in Nat /\ \A i \in 1..(Size(t)') : i \in 1..Size(t) /\ Sp(t, i)' = Sp(t, i)
  BY SizeFacts DEF Cuts
<1>2. PICK i \in 1..Size(t) : w \in Wr(t, i) /\ j <= i
  BY DEF Moves
<1>3. a \in 2..Size(t) /\ a \in 1..(Size(t)') /\ a <= i
  BY <1>1, <1>2 DEF Cuts
<1>4. PICK y \in born : y = Sp(t, a) /\ y = Sp(t, a)'
  BY <1>1, <1>3 DEF Shape
<1>5. Active(y)'
  BY <1>4 DEF Active
<1>6. y \in scope[w]
  BY <1>2, <1>3, <1>4, <1>5 DEF Inside, Evolves
<1>7. w \in born
  BY <1>2 DEF WritesOK, WriteOK, CallsInv, Fresh, TypeOK
<1> QED
  BY <1>4, <1>6, <1>7 DEF Evolves

\* A write that Complete asks for was asked for before.
LEMMA StillDue ==
    ASSUME TypeOK, CallsInv, Evolves, NEW t \in Node, Complete(t), NEW w \in wrote,
           session[t].state \in {"open", "aborted"}, Active(t)', t \in scope'[w], Unbroken(w)',
           \A m \in born : outcome'[m] \in {"none", "nil"} => outcome[m] \in {"none", "nil"}
    PROVE  \E j \in 1..Size(t) : w \in Wr(t, j)
<1>1. w \in born /\ scope[w] \subseteq born /\ scope'[w] = scope[w]
  BY DEF CallsInv, Fresh, TypeOK, Evolves
<1>2. Active(t) /\ Unbroken(w)
  BY <1>1 DEF Evolves, Unbroken
<1> QED
  BY <1>1, <1>2 DEF Complete

\* A session whose owner returned is settled once and for all.
LEMMA SettledStays ==
    ASSUME TypeOK, TypeOK', CallsInv, Evolves, NEW r \in Node, Used(r), Settled(r),
           outcome'[r] = outcome[r],
           \A w \in wrote' \ wrote : Active(w) /\ w \in born,
           \A m \in Node : ~Active(m) => outcome'[m] = outcome[m],
           durable \subseteq durable', \A w \in durable' \ durable : r \notin scope[w]
    PROVE  Settled(r)'
<1>1. CASE outcome[r] = "none"
  BY <1>1 DEF Settled
<1>2. CASE outcome[r] # "none"
  <2>1. ~Active(r)
    BY <1>2, ActiveCall
  <2>2. ASSUME NEW w \in wrote', r \in scope'[w]
        PROVE  /\ w \in wrote /\ scope'[w] = scope[w]
               /\ \A m \in scope[w] : outcome'[m] = outcome[m]
    <3>1. w \in born /\ w \in Node /\ scope'[w] = scope[w]
      <4>1. w \in born
        BY <2>2 DEF CallsInv, Fresh, TypeOK
      <4> QED
        BY <4>1 DEF Evolves, TypeOK, NodeTypeOK
    <3>2. w \in wrote
      BY <2>1, <2>2, <3>1, ScopeActive
    <3>3. ASSUME NEW m \in scope[w]
          PROVE  outcome'[m] = outcome[m]
      <4>1. r \in scope[m] /\ m \in Node
        BY <2>2, <3>1, OneUsed DEF TypeOK
      <4>2. ~Active(m)
        BY <2>1, <4>1, ScopeActive
      <4> QED
        BY <4>1, <4>2
    <3> QED
      BY <3>1, <3>2, <3>3
  <2>3. \A w \in wrote : w \in born /\ scope'[w] = scope[w]
    BY DEF CallsInv, Fresh, TypeOK, Evolves
  <2>4. Due(r)' = Due(r)
    <3>1. Due(r)' \subseteq Due(r)
      BY <2>2 DEF Due
    <3>2. Due(r) \subseteq Due(r)'
      BY <2>2, <2>3 DEF Due, Evolves
    <3> QED
      BY <3>1, <3>2
  <2>5. Due(r) \cap durable' = Due(r) \cap durable
    BY DEF Due
  <2> QED
    BY <2>4, <2>5 DEF Settled
<1> QED
  BY <1>1, <1>2

\* A session whose stack stays.
LEMMA SameScope ==
    ASSUME TypeOK, TypeOK', CallsInv, Evolves, NEW u \in Node, StackOK(u), Worsens(u),
           Inside(u), Complete(u), \A w \in wrote' \ wrote : u \notin scope'[w],
           \A m \in born : outcome'[m] \in {"none", "nil"} => outcome[m] \in {"none", "nil"}
    PROVE  Inside(u)' /\ Complete(u)'
<1>1. /\ SameStack(u) /\ Shape(u) /\ WritesOK(u) /\ Cuts(u) /\ Size(u)' = Size(u)
      /\ \A j \in 1..Size(u) : /\ Wr(u, j)' = Wr(u, j)
                               /\ \A w \in Wr(u, j)' : Moves(u, w, j)
  BY SameFacts DEF StackOK, Worsens
<1>2. Inside(u)'
  <2> SUFFICES ASSUME NEW j \in 1..(Size(u)'), NEW a \in 2..(Size(u)'), NEW w \in Wr(u, j)',
                      Active(Sp(u, a))', a <= j
               PROVE  Sp(u, a)' \in scope'[w]
    BY DEF Inside
  <2> QED
    BY <1>1, CutInside
<1>3. Complete(u)'
  <2> SUFFICES ASSUME session'[u].state \in {"open", "aborted"}, Active(u)',
                      NEW w \in wrote', u \in scope'[w], Unbroken(w)'
               PROVE  \E j \in 1..Size(u) : w \in Wr(u, j)
    BY <1>1 DEF Complete
  <2>1. w \in wrote /\ session[u].state \in {"open", "aborted"}
    BY DEF Worsens
  <2> QED
    BY <2>1, StillDue
<1> QED
  BY <1>2, <1>3

LEMMA QuietScope ==
    ASSUME TypeOK, TypeOK', CallsInv, StackInv, ScopeInv, Still, \A u \in Node : Worsens(u),
           wrote' = wrote, durable' = durable
    PROVE  \A u \in Node : Used(u)' => SessionOK(u)'
<1> SUFFICES ASSUME NEW u \in Node, Used(u)'
             PROVE  SessionOK(u)'
  OBVIOUS
<1>1. Evolves /\ Used(u) /\ outcome' = outcome
  BY StillEvolves DEF Still, Keeps
<1>2. StackOK(u) /\ SessionOK(u) /\ Worsens(u)
  BY <1>1 DEF StackInv, ScopeInv
<1>3. Inside(u)' /\ Complete(u)'
  BY <1>1, <1>2, SameScope DEF SessionOK
<1>4. Settled(u)'
  BY <1>1, <1>2, SettledStays DEF SessionOK
<1> QED
  BY <1>3, <1>4 DEF SessionOK

\* The calls that work in the session of p's outermost call are p's.
LEMMA OwnCalls ==
    ASSUME TypeOK, CallsInv, Chain, NEW p \in Thread, NEW t, 1 \in 1..Depth(p),
           t = frames[p][1].tx, NEW y, Active(y), node[y].tx = t
    PROVE  \E k \in 1..Depth(p) : frames[p][k].tx = y
<1>1. PICK q \in Thread : \E k \in 1..Depth(q) : frames[q][k].tx = y
  BY DEF Active
<1>2. PICK k \in 1..Depth(q) : frames[q][k].tx = y
  BY <1>1
<1>3. frames[q][1].tx = t /\ 1 \in 1..Depth(q)
  BY <1>2, OneSession
<1>4. q = p
  BY <1>3 DEF CallsInv, Apart
<1> QED
  BY <1>2, <1>4

\* The innermost call of p writes.
LEMMA WriteScope ==
    ASSUME TypeOK, TypeOK', CallsInv, StackInv, ScopeInv, Still, NEW p \in Thread,
           NEW k \in 1..Depth(p), k = Depth(p), CallWrites(p, k)
    PROVE  \A u \in Node : Used(u)' => SessionOK(u)'
<1>1. PICK d \in Node, t \in Node : d = frames[p][k].tx /\ t = node[d].tx
  BY ActiveFacts
<1>2. Write(t, d) /\ wrote' = wrote \cup {d} /\ d \in born /\ Used(t) /\ StackOK(t) /\ SessionOK(t)
  BY <1>1, ActiveFacts DEF CallWrites, StackInv, ScopeInv
<1>3. Evolves /\ \A u \in Node : Used(u)' <=> Used(u)
  BY StillEvolves DEF Still, Keeps
<1>4. /\ UNCHANGED <<frames, node, born, outcome, scope>>
      /\ \A y : Active(y)' <=> Active(y)
  BY DEF Still, Active, Depth
<1>5. /\ session[t].state = "open" /\ durable' = durable
      /\ \A u \in Node \ {t} : session'[u] = session[u]
      /\ Size(t)' = Size(t) /\ Cuts(t) /\ Size(t) \in Nat /\ Size(t) \in 1..Size(t)
      /\ \A j \in 1..Size(t) :
             /\ Sp(t, j)' = Sp(t, j)
             /\ Wr(t, j)' = IF j = Size(t) THEN Wr(t, j) \cup {d} ELSE Wr(t, j)
  BY <1>2, WriteCuts DEF StackOK
<1>6. /\ Chain /\ 1 \in 1..Depth(p) /\ t = frames[p][1].tx
      /\ scope[d] = {frames[p][i].tx : i \in 1..Depth(p)}
      /\ Active(d) /\ t \in scope[d]
  <2>1. Chain /\ 1 \in 1..Depth(p) /\ t = frames[p][1].tx
    BY <1>1, OneSession DEF ScopeInv
  <2>2. scope[d] = {frames[p][i].tx : i \in 1..Depth(p)}
    BY <1>1, <2>1 DEF Chain, ChainAt
  <2> QED
    BY <1>1, <2>1, <2>2 DEF Active
<1>7. Inside(t)'
  <2> SUFFICES ASSUME NEW j \in 1..Size(t), NEW a \in 2..Size(t), NEW w \in Wr(t, j)',
                      Active(Sp(t, a))', a <= j
               PROVE  Sp(t, a)' \in scope'[w]
    BY <1>5 DEF Inside
  <2>1. CASE Moves(t, w, j)
    BY <1>2, <1>3, <1>5, <2>1, CutInside DEF StackOK, SessionOK
  <2>2. CASE w = d
    <3>1. PICK y \in born : y = Sp(t, a) /\ y = Sp(t, a)' /\ Active(y)
      <4>1. PICK y \in born : y = Sp(t, a)
        BY <1>2 DEF StackOK, Shape
      <4>2. y = Sp(t, a)' /\ Active(y)'
        BY <1>5, <4>1 DEF Active
      <4> QED
        BY <1>4, <4>1, <4>2
    <3>2. node[y].tx = t
      BY <1>2, <3>1 DEF StackOK, Shape
    <3>3. \E i \in 1..Depth(p) : frames[p][i].tx = y
      BY <1>6, <3>1, <3>2, OwnCalls
    <3> QED
      BY <1>4, <1>6, <2>2, <3>1, <3>3
  <2> QED
    BY <1>2, <2>1, <2>2, WriteMoves DEF StackOK
<1>8. Complete(t)'
  <2> SUFFICES ASSUME Active(t)', NEW w \in wrote', t \in scope'[w], Unbroken(w)'
               PROVE  \E j \in 1..Size(t) : w \in Wr(t, j)'
    BY <1>5 DEF Complete
  <2>1. CASE w \in wrote
    <3>1. \E j \in 1..Size(t) : w \in Wr(t, j)
      BY <1>2, <1>3, <1>4, <1>5, <2>1, StillDue DEF SessionOK
    <3> QED
      BY <1>5, <3>1
  <2>2. CASE w = d
    BY <1>5, <2>2
  <2> QED
    BY <1>2, <2>1, <2>2
<1>9. ASSUME NEW u \in Node, Used(u)
      PROVE  Settled(u)'
  <2>1. Settled(u)
    BY <1>9 DEF ScopeInv, SessionOK
  <2> QED
    BY <1>2, <1>3, <1>4, <1>5, <1>6, <1>9, <2>1, SettledStays
<1>10. ASSUME NEW u \in Node \ {t}, Used(u)
       PROVE  Inside(u)' /\ Complete(u)'
  <2>1. u \notin scope[d]
    BY <1>2, <1>6, <1>10, OneUsed
  <2>2. Worsens(u) /\ StackOK(u) /\ SessionOK(u)
    BY <1>5, <1>10 DEF Worsens, SameStack, StackInv, ScopeInv
  <2> QED
    BY <1>2, <1>3, <1>4, <2>1, <2>2, SameScope DEF SessionOK
<1> QED
  BY <1>3, <1>7, <1>8, <1>9, <1>10 DEF SessionOK

\* A call starts: in a session of its own, or in that of the call it was begun in.
LEMMA OpenScope ==
    ASSUME TypeOK, TypeOK', CallsInv, StackInv, ScopeInv, NEW p \in Thread, NEW m \in Node,
           Opens(p, m)
    PROVE  \A u \in Node : Used(u)' => SessionOK(u)'
<1>1. /\ ~Used(m) /\ durable' = durable
      /\ session'[m] = [state |-> "open", layers |-> <<[sp |-> None, writes |-> {}]>>]
      /\ \A u \in Node \ {m} : session'[u] = session[u]
  BY DEF Opens, Begin, TypeOK, DbTypeOK, Used
<1>2. Evolves /\ m \notin born /\ UNCHANGED <<outcome, wrote>>
  BY PushEvolves, PoolAssumption DEF Opens, Pushes
<1>3. ASSUME NEW u \in Node \ {m}, Used(u)'
      PROVE  SessionOK(u)'
  <2>1. Worsens(u) /\ StackOK(u) /\ SessionOK(u) /\ Used(u)
    BY <1>1, <1>3 DEF Worsens, SameStack, StackInv, ScopeInv, Used
  <2>2. Inside(u)' /\ Complete(u)'
    BY <1>2, <2>1, SameScope DEF SessionOK
  <2>3. Settled(u)'
    BY <1>1, <1>2, <2>1, SettledStays DEF SessionOK
  <2> QED
    BY <2>2, <2>3 DEF SessionOK
<1>4. SessionOK(m)'
  <2>1. Size(m)' = 1 /\ Wr(m, 1)' = {}
    BY <1>1 DEF Size, Wr
  <2>2. \A w \in wrote : m \notin scope'[w]
    BY <1>2 DEF CallsInv, Fresh, TypeOK, Evolves
  <2>3. outcome'[m] = "none"
    BY <1>2 DEF CallsInv, Fresh
  <2>4. \A j \in 1..1 : j = 1
    OBVIOUS
  <2> QED
    BY <1>2, <2>1, <2>2, <2>3, <2>4 DEF SessionOK, Inside, Complete, Settled
<1> QED
  BY <1>3, <1>4

LEMMA NestScope ==
    ASSUME Savepoints, TypeOK, TypeOK', CallsInv, StackInv, ScopeInv, NEW p \in Thread,
           NEW k \in 1..Depth(p), NEW m \in Node, Nests(p, k, m)
    PROVE  \A u \in Node : Used(u)' => SessionOK(u)'
<1>1. PICK n \in Node, t \in Node : n = frames[p][k].tx /\ t = node[n].tx /\ Used(t)
  <2>1. frames[p][k].tx \in Node /\ node[frames[p][k].tx].tx \in Node
        /\ Used(node[frames[p][k].tx].tx)
    BY ActiveFacts
  <2> QED
    BY <2>1
<1>2. Pushes(p, n, m, t, TRUE) /\ Savepoint(t, m) /\ StackOK(t) /\ SessionOK(t)
  BY <1>1 DEF Nests, StackInv, ScopeInv
<1>3. Evolves /\ m \notin born /\ UNCHANGED <<outcome, wrote>>
  BY <1>2, PushEvolves DEF Pushes
<1>4. PICK top \in Nat \ {0} : top = Size(t) + 1 /\ Size(t) \in Nat
  BY SizeFacts
<1>5. /\ session[t].state = "open" /\ durable' = durable
      /\ \A u \in Node \ {t} : session'[u] = session[u]
      /\ Size(t)' = top /\ Sp(t, top)' = m /\ Wr(t, top)' = {}
      /\ \A j \in 1..Size(t) : Sp(t, j)' = Sp(t, j) /\ Wr(t, j)' = Wr(t, j)
  BY <1>2, <1>4, SavepointCuts
<1>6. ASSUME NEW u \in Node, Used(u)'
      PROVE  Used(u) /\ Settled(u)'
  <2>1. Used(u)
    BY <1>1, <1>5, <1>6 DEF Used
  <2>2. Settled(u)
    BY <2>1 DEF ScopeInv, SessionOK
  <2> QED
    BY <1>3, <1>5, <2>1, <2>2, SettledStays
<1>7. ASSUME NEW u \in Node \ {t}, Used(u)
      PROVE  Inside(u)' /\ Complete(u)'
  <2>1. Worsens(u) /\ StackOK(u) /\ SessionOK(u)
    BY <1>5, <1>7 DEF Worsens, SameStack, StackInv, ScopeInv
  <2> QED
    BY <1>3, <2>1, SameScope DEF SessionOK
<1>8. Inside(t)'
  <2> SUFFICES ASSUME NEW j \in 1..top, NEW a \in 2..top, NEW w \in Wr(t, j)',
                      Active(Sp(t, a))', a <= j
               PROVE  Sp(t, a)' \in scope'[w]
    BY <1>5 DEF Inside
  <2>1. j # top
    BY <1>5
  <2>2. j \in 1..Size(t) /\ a \in 2..Size(t) /\ a \in 1..Size(t)
    BY <1>4, <2>1
  <2>3. PICK y \in born : y = Sp(t, a) /\ y = Sp(t, a)'
    BY <1>2, <1>5, <2>2 DEF StackOK, Shape
  <2>4. Active(y)'
    BY <2>3 DEF Active
  <2>5. y \in scope[w] /\ w \in born
    BY <1>2, <1>3, <1>5, <2>2, <2>3, <2>4 DEF SessionOK, Inside, Evolves, StackOK, WritesOK,
                                             WriteOK, CallsInv, Fresh, TypeOK
  <2> QED
    BY <1>3, <2>3, <2>5 DEF Evolves
<1>9. Complete(t)'
  <2> SUFFICES ASSUME Active(t)', NEW w \in wrote, t \in scope'[w], Unbroken(w)'
               PROVE  \E j \in 1..top : w \in Wr(t, j)'
    BY <1>3, <1>5 DEF Complete
  <2>1. \E j \in 1..Size(t) : w \in Wr(t, j)
    BY <1>2, <1>3, <1>5, StillDue DEF SessionOK
  <2>2. \A j \in 1..Size(t) : j \in 1..top
    BY <1>4
  <2> QED
    BY <1>5, <2>1, <2>2
<1> QED
  BY <1>6, <1>7, <1>8, <1>9 DEF SessionOK

\* The sessions the call that returns does not work in.
LEMMA LeftScope ==
    ASSUME TypeOK, TypeOK', CallsInv, StackInv, ScopeInv, NEW p \in Thread, NEW x, NEW result,
           Leaves(p, x, result), NEW u \in Node, Used(u),
           durable \subseteq durable', \A w \in durable' \ durable : x \in scope[w] /\ Used(x)
    PROVE  /\ u # x => Settled(u)'
           /\ Worsens(u) => Inside(u)' /\ Complete(u)'
<1>1. /\ Evolves /\ UNCHANGED <<scope, wrote, born>> /\ outcome[x] = "none"
      /\ \A m \in Node \ {x} : outcome'[m] = outcome[m]
      /\ x \in Node /\ Active(x) /\ born \subseteq Node
  BY ActiveCall DEF Leaves, TypeOK, NodeTypeOK
<1>2. StackOK(u) /\ SessionOK(u)
  BY DEF StackInv, ScopeInv
<1>3. \A m \in born : outcome'[m] \in {"none", "nil"} => outcome[m] \in {"none", "nil"}
  BY <1>1
<1>4. Worsens(u) => Inside(u)' /\ Complete(u)'
  BY <1>1, <1>2, <1>3, SameScope DEF SessionOK
<1>5. ASSUME u # x
      PROVE  Settled(u)'
  <2>1. \A w \in durable' \ durable : u \notin scope[w]
    <3>1. durable' \subseteq Node
      BY DEF TypeOK, DbTypeOK
    <3> QED
      BY <1>5, <3>1, OneUsed
  <2>2. \A m \in Node : ~Active(m) => outcome'[m] = outcome[m]
    BY <1>1
  <2> QED
    BY <1>1, <1>2, <1>5, <2>1, <2>2, SettledStays DEF SessionOK
<1> QED
  BY <1>4, <1>5

LEMMA ReleasedScope ==
    ASSUME TypeOK, TypeOK', CallsInv, StackInv, NEW p \in Thread, NEW x,
           Leaves(p, x, "nil"), NEW t \in Node, t = node[x].tx, x # t, Used(t),
           SessionOK(t), Release(t, x)
    PROVE  Inside(t)' /\ Complete(t)'
<1>1. StackOK(t) /\ OnStack /\ Evolves
  BY DEF StackInv, Leaves
<1>2. PICK a \in 2..Size(t) : Sp(t, a) = x
  BY <1>1 DEF OnStack, Leaves
<1>3. Size(t)' = a - 1
  BY <1>1, <1>2, ReleaseCuts DEF StackOK
<1>4. /\ Cuts(t) /\ \A j \in 1..(a - 1) : \A w \in Wr(t, j)' : Moves(t, w, j)
      /\ \A k \in 1..Size(t) : \A w \in Wr(t, k) : \E j \in 1..(a - 1) : w \in Wr(t, j)'
  BY <1>1, <1>2, ReleaseMoves DEF StackOK
<1>5. Inside(t)'
  <2> SUFFICES ASSUME NEW j \in 1..(Size(t)'), NEW b \in 2..(Size(t)'), NEW w \in Wr(t, j)',
                      Active(Sp(t, b))', b <= j
               PROVE  Sp(t, b)' \in scope'[w]
    BY DEF Inside
  <2> QED
    BY <1>1, <1>3, <1>4, CutInside DEF StackOK, SessionOK
<1>6. Complete(t)'
  <2> SUFFICES ASSUME Active(t)', NEW w \in wrote, t \in scope'[w], Unbroken(w)'
               PROVE  \E j \in 1..(Size(t)') : w \in Wr(t, j)'
    BY DEF Complete, Leaves
  <2>1. \A m \in born : outcome'[m] \in {"none", "nil"} => outcome[m] \in {"none", "nil"}
    BY ActiveCall DEF Leaves, TypeOK, NodeTypeOK
  <2>2. \E k \in 1..Size(t) : w \in Wr(t, k)
    BY <1>1, <2>1, StillDue DEF SessionOK, Release
  <2> QED
    BY <1>3, <1>4, <2>2
<1> QED
  BY <1>5, <1>6

LEMMA RolledBackScope ==
    ASSUME TypeOK, TypeOK', CallsInv, StackInv, NEW p \in Thread, NEW x,
           Leaves(p, x, "handlerError"), NEW t \in Node, t = node[x].tx, x # t, Used(t),
           SessionOK(t), RollbackTo(t, x)
    PROVE  Inside(t)' /\ Complete(t)'
<1>1. StackOK(t) /\ Shape(t) /\ OnStack /\ Evolves
  BY DEF StackInv, StackOK, Leaves
<1>2. PICK a \in 2..Size(t) : Sp(t, a) = x
  BY <1>1 DEF OnStack, Leaves
<1>3. /\ Size(t)' = a /\ Size(t) \in Nat /\ Cuts(t)
      /\ \A j \in 1..a :
           /\ j \in 1..Size(t) /\ (j = a \/ j < a) /\ Sp(t, j)' = Sp(t, j)
           /\ Wr(t, j)' = IF j = a THEN {} ELSE Wr(t, j)
           /\ \A w \in Wr(t, j)' : Moves(t, w, j)
  BY <1>1, <1>2, ResetCuts, Zenon
<1>4. Inside(t)'
  <2> SUFFICES ASSUME NEW j \in 1..(Size(t)'), NEW b \in 2..(Size(t)'), NEW w \in Wr(t, j)',
                      Active(Sp(t, b))', b <= j
               PROVE  Sp(t, b)' \in scope'[w]
    BY DEF Inside
  <2> QED
    BY <1>1, <1>3, CutInside DEF StackOK, SessionOK
<1>5. Complete(t)'
  <2> SUFFICES ASSUME Active(t)', NEW w \in wrote, t \in scope'[w], Unbroken(w)'
               PROVE  \E j \in 1..(Size(t)') : w \in Wr(t, j)'
    BY DEF Complete, Leaves
  <2>1. \A m \in born : outcome'[m] \in {"none", "nil"} => outcome[m] \in {"none", "nil"}
    BY ActiveCall DEF Leaves, TypeOK, NodeTypeOK
  <2>2. PICK k \in 1..Size(t) : w \in Wr(t, k)
    BY <1>1, <2>1, StillDue DEF SessionOK, RollbackTo
  <2>3. ASSUME a <= k
        PROVE  FALSE
    <3>1. x \in scope[w]
      BY <1>2, <2>2, <2>3 DEF SessionOK, Inside, Leaves
    <3> QED
      BY <3>1 DEF Unbroken, Leaves
  <2>4. k \in 1..a /\ k # a
    BY <1>3, <2>3
  <2> QED
    BY <1>3, <2>2, <2>4
<1> QED
  BY <1>4, <1>5

LEMMA NestedEndScope ==
    ASSUME Savepoints, TypeOK, TypeOK', CallsInv, StackInv, ScopeInv, NEW p \in Thread, NEW result,
           NEW x, Leaves(p, x, result), NEW t \in Node, t = node[x].tx, Used(t),
           EndsNested(p, x, t, result), \A u \in Node : Used(u)' <=> Used(u)
    PROVE  \A u \in Node : Used(u)' => SessionOK(u)'
<1>1. StackOK(t) /\ SessionOK(t) /\ x # t /\ ~Used(x)
  BY ActiveCall DEF StackInv, ScopeInv, EndsNested, Leaves
<1>2. durable' = durable /\ \A u \in Node \ {t} : session'[u] = session[u]
  BY DEF EndsNested, Release, RollbackTo, Refuse, TypeOK, DbTypeOK
<1>3. \A u \in Node : Used(u) => Settled(u)'
  BY <1>1, <1>2, LeftScope
<1>4. ASSUME NEW u \in Node \ {t}, Used(u)
      PROVE  Inside(u)' /\ Complete(u)'
  BY <1>2, <1>4, LeftScope DEF Worsens, SameStack
<1>5. Inside(t)' /\ Complete(t)'
  <2>1. CASE result = "nil" /\ Release(t, x)
    BY <1>1, <2>1, ReleasedScope
  <2>2. CASE result = "handlerError" /\ RollbackTo(t, x)
    BY <1>1, <2>2, RolledBackScope
  <2>3. CASE Refuse(t)
    <3>1. SameStack(t)
      BY <2>3, OpsSameStack
    <3>2. session'[t].state \in {session[t].state, "lost"} \/ session[t].state = "open"
      BY <2>3, RefusedState
    <3> QED
      BY <1>2, <3>1, <3>2, LeftScope DEF Worsens
  <2> QED
    BY <2>1, <2>2, <2>3 DEF EndsNested
<1> QED
  BY <1>3, <1>4, <1>5 DEF SessionOK

\* What COMMIT of the session of the outermost call makes durable.
LEMMA DuePending ==
    ASSUME TypeOK, CallsInv, NEW p \in Thread, NEW t \in Node, NEW result, Leaves(p, t, result),
           Complete(t), session[t].state = "open"
    PROVE  Due(t)' \subseteq Pending(t)
<1> SUFFICES ASSUME NEW w \in wrote, t \in scope[w], \A m \in scope[w] \ {t} : outcome'[m] = "nil"
             PROVE  w \in Pending(t)
  BY DEF Due, Leaves
<1>1. \A m \in scope[w] : m \in Node
  BY DEF TypeOK
<1>2. Unbroken(w) /\ Active(t)
  BY <1>1, ActiveCall DEF Unbroken, Leaves
<1>3. PICK j \in 1..Size(t) : w \in Wr(t, j)
  BY <1>2 DEF Complete
<1> QED
  BY <1>3, SizeFacts DEF Pending, Wr

LEMMA OwnerEndScope ==
    ASSUME TypeOK, TypeOK', CallsInv, StackInv, ScopeInv, NEW p \in Thread, NEW result,
           NEW t \in Node, Leaves(p, t, result), Used(t),
           EndsOwner(t, t, result), \A u \in Node : Used(u)' <=> Used(u)
    PROVE  \A u \in Node : Used(u)' => SessionOK(u)'
<1>1. StackOK(t) /\ SessionOK(t)
  BY DEF StackInv, ScopeInv
<1>2. /\ \A u \in Node \ {t} : session'[u] = session[u]
      /\ \A u \in Node : Worsens(u)
  <2>1. /\ \A u \in Node : SameStack(u)
        /\ \A u \in Node \ {t} : session'[u] = session[u]
    BY OpsSameStack DEF EndsOwner
  <2>2. session'[t].state = "done"
    BY EndFreesOne DEF EndsOwner, TypeOK
  <2> QED
    BY <2>1, <2>2 DEF Worsens
<1>3. \/ durable' = durable /\ result # "nil"
      \/ durable' = durable \cup Pending(t) /\ session[t].state = "open"
  BY DEF EndsOwner, CommitTx, CommitTxFails, RollbackTx, RollbackTxFails
<1>4. \A w \in Pending(t) : t \in scope[w]
  <2>1. ASSUME NEW w \in Pending(t)
        PROVE  t \in scope[w]
    <3>1. PICK j \in 1..Size(t) : w \in Wr(t, j)
      BY SizeFacts DEF Pending, Wr
    <3> QED
      BY <1>1, <3>1 DEF StackOK, WritesOK, WriteOK
  <2> QED
    BY <2>1
<1>5. durable \subseteq durable' /\ \A w \in durable' \ durable : t \in scope[w] /\ Used(t)
  BY <1>3, <1>4
<1>6. \A u \in Node : Used(u) => /\ u # t => Settled(u)'
                                 /\ Inside(u)' /\ Complete(u)'
  BY <1>2, <1>5, LeftScope
<1>7. Settled(t)'
  <2>1. CASE session[t].state = "open" /\ durable' = durable \cup Pending(t)
    <3>1. Due(t)' \subseteq durable'
      BY <1>1, <2>1, DuePending DEF SessionOK
    <3> QED
      BY <3>1 DEF Settled
  <2>2. CASE durable' = durable /\ result # "nil"
    <3>1. \A w \in durable : t \notin scope[w]
      BY DEF StackInv, Saved, SavedOK, Leaves
    <3>2. Due(t)' \cap durable' = {}
      BY <2>2, <3>1 DEF Due, Leaves
    <3> QED
      BY <2>2, <3>2 DEF Settled, Leaves
  <2> QED
    BY <1>3, <2>1, <2>2
<1> QED
  BY <1>6, <1>7 DEF SessionOK

LEMMA EndScope ==
    ASSUME Savepoints, TypeOK, TypeOK', CallsInv, StackInv, ScopeInv, NEW p \in Thread,
           NEW result, Ends(p, result)
    PROVE  \A u \in Node : Used(u)' => SessionOK(u)'
<1>1. PICK x : x = Top(p).tx
  OBVIOUS
<1>2. Leaves(p, x, result) /\ \A u \in Node : Used(u)' <=> Used(u)
  BY <1>1, PopLeaves, EndsKeeps DEF Ends, Keeps
<1>3. PICK t \in Node : t = node[x].tx /\ Used(t)
  BY <1>2, ActiveCall DEF Leaves
<1>4. CASE EndsNested(p, x, t, result)
  BY <1>2, <1>3, <1>4, NestedEndScope
<1>5. CASE EndsOwner(x, t, result)
  <2>1. x = t
    BY <1>5 DEF EndsOwner
  <2> QED
    BY <1>2, <1>3, <1>5, <2>1, OwnerEndScope
<1>6. CASE result = "panic" /\ UNCHANGED dbVars
  <2>1. \A u \in Node : Used(u) => /\ u # x => Settled(u)'
                                   /\ Inside(u)' /\ Complete(u)'
    BY <1>2, <1>6, LeftScope DEF Worsens, SameStack, dbVars
  <2>2. Settled(x)'
    BY <1>2, <1>6 DEF Settled, Leaves
  <2> QED
    BY <1>2, <2>1, <2>2 DEF SessionOK
<1> QED
  BY <1>1, <1>3, <1>4, <1>5, <1>6 DEF Ends

\* A goroutine writes by its innermost call.
LEMMA OwnWrites ==
    ASSUME ~OuterUse, [Next]_vars, wrote' # wrote
    PROVE  \E p \in Thread : /\ frames[p] # <<>> /\ Top(p).tx \notin wrote
                             /\ wrote' = wrote \cup {Top(p).tx}
<1>1. PICK p \in Thread, d \in Node, ok \in BOOLEAN : HandlerWrites(p, d, ok)
  BY DEF Next, vars, history, Call, Started, NotStarted, HandlerFails, HandlerSucceeds,
         HandlerPanics, Return, Cancel
<1>2. frames[p] # <<>> /\ d \in {Top(p).tx} \cup {} /\ d \notin wrote /\ wrote' = wrote \cup {d}
  BY <1>1 DEF HandlerWrites, InHandler, Driver
<1> QED
  BY <1>2

LEMMA InnermostWrites ==
    ASSUME ~OuterUse, TypeOK, CallsInv, [Next]_vars
    PROVE  ~PoolWrites /\ \A p \in Thread : \A k \in 1..Depth(p) : CallWrites(p, k) => k = Depth(p)
<1>1. ASSUME NEW d, d \notin wrote, wrote' = wrote \cup {d}
      PROVE  \E p \in Thread : Depth(p) \in 1..Depth(p) /\ d = frames[p][Depth(p)].tx
  <2>1. PICK p \in Thread : /\ frames[p] # <<>> /\ Top(p).tx \notin wrote
                            /\ wrote' = wrote \cup {Top(p).tx}
    BY <1>1, OwnWrites
  <2>2. Depth(p) \in 1..Depth(p)
    BY <2>1, FrameFacts
  <2> QED
    BY <1>1, <2>1, <2>2 DEF Top
<1>2. ~PoolWrites
  <2>1. ASSUME PoolWrites
        PROVE  \E p \in Thread : Depth(p) \in 1..Depth(p) /\ Pool = frames[p][Depth(p)].tx
    BY <1>1, <2>1 DEF PoolWrites
  <2> QED
    BY <2>1, ActiveFacts
<1>3. ASSUME NEW p \in Thread, NEW k \in 1..Depth(p), CallWrites(p, k)
      PROVE  k = Depth(p)
  <2>1. PICK q \in Thread : Depth(q) \in 1..Depth(q) /\ frames[p][k].tx = frames[q][Depth(q)].tx
    BY <1>1, <1>3 DEF CallWrites
  <2> QED
    BY <2>1 DEF CallsInv, Apart
<1> QED
  BY <1>2, <1>3

LEMMA ScopeStep ==
    ASSUME Savepoints, ~OuterUse, TypeOK, TypeOK', CallsInv, StackInv, ScopeInv, [Next]_vars
    PROVE  ScopeInv'
<1> DEFINE Good == \A u \in Node : Used(u)' => SessionOK(u)'
<1>1. Kinds /\ Chain' /\ ~PoolWrites
  BY StepKinds, ChainStep, InnermostWrites DEF ScopeInv
<1>2. ASSUME NEW p \in Thread, Quiet(p)
      PROVE  Good
  BY <1>2, StillKinds, QuietScope DEF Quiet, dbVars, history, Worsens, SameStack
<1>3. ASSUME NEW p \in Thread, NEW k \in 1..Depth(p), Refused(p, k)
      PROVE  Good
  <2>1. PICK t \in Node : t = node[frames[p][k].tx].tx /\ Refuse(t)
    BY <1>3, ActiveFacts DEF Refused
  <2>2. \A u \in Node : Worsens(u)
    BY <2>1, OpsSameStack, RefusedState DEF Worsens
  <2> QED
    BY <1>3, <2>1, <2>2, StillKinds, QuietScope, Zenon DEF Refused, Refuse, history
<1>4. ASSUME NEW p \in Thread, NEW k \in 1..Depth(p), CallWrites(p, k)
      PROVE  Good
  BY <1>4, StillKinds, InnermostWrites, WriteScope
<1>5. ASSUME NEW t \in Node, Cancelled(t)
      PROVE  Good
  <2>1. session'[t].state = "done"
    BY <1>5, EndFreesOne DEF Cancelled, TypeOK
  <2>2. \A u \in Node : Worsens(u)
    BY <1>5, <2>1, OpsSameStack DEF Worsens, Cancelled
  <2> QED
    BY <1>5, <2>2, StillKinds, QuietScope DEF Cancelled, ContextDone, history
<1>6. ASSUME UNCHANGED <<frames, waiting, node, born, dbVars, history>>
      PROVE  Good
  <2>1. Still
    BY <1>6, StillKinds
  <2>2. wrote' = wrote /\ durable' = durable /\ \A u \in Node : Worsens(u)
    BY <1>6 DEF dbVars, history, Worsens, SameStack
  <2> QED
    BY <2>1, <2>2, QuietScope
<1>7. ASSUME NEW p \in Thread, NEW m \in Node,
             Opens(p, m) \/ \E k \in 1..Depth(p) : Nests(p, k, m)
      PROVE  Good
  BY <1>7, OpenScope, NestScope
<1>8. ASSUME NEW p \in Thread, NEW result \in {"nil", "handlerError", "commitError", "panic"},
             Ends(p, result)
      PROVE  Good
  BY <1>8, EndScope
<1> HIDE DEF Good
<1>9. Good
  BY <1>1, <1>2, <1>3, <1>4, <1>5, <1>6, <1>7, <1>8 DEF Kinds
<1> QED
  BY <1>1, <1>9 DEF Good, ScopeInv

\* The whole invariant of handlers that use only the driver they received.
THEOREM ScopesHold ==
    ASSUME Savepoints, ~OuterUse
    PROVE  Spec => [](TypeOK /\ CallsInv /\ StackInv /\ ScopeInv)
<1>1. Init /\ TypeOK /\ CallsInv => ScopeInv
  <2> SUFFICES ASSUME Init
               PROVE  ScopeInv
    OBVIOUS
  <2>1. \A p \in Thread : Depth(p) = 0 /\ waiting[p] = None
    BY DEF Init, Depth
  <2>2. \A u \in Node : ~Used(u)
    BY DEF Init, DbInit, Used
  <2> QED
    BY <2>1, <2>2 DEF ScopeInv, Chain
<1>2. TypeOK /\ CallsInv /\ StackInv /\ ScopeInv /\ TypeOK' /\ [Next]_vars => ScopeInv'
  BY ScopeStep
<1> QED
  BY <1>1, <1>2, StackHolds, PTL DEF Spec

\* While a session accepts statements, what lies on its stack is what the calls in
\* progress put there, in their order, and what failed or panicked calls left.
THEOREM StackStaysMatched ==
    ASSUME Savepoints, ~OuterUse
    PROVE  Spec => []StackMatchesCalls
<1>1. TypeOK /\ CallsInv /\ StackInv /\ ScopeInv => StackMatchesCalls
  BY Matches DEF ScopeInv
<1> QED
  BY <1>1, ScopesHold, PTL

\* "Otherwise, the transaction will be committed" (README.md:599): once the outermost
\* call returned nil everything its scopes kept is durable, and after an error of
\* its COMMIT all of it or nothing.
THEOREM CommittedTogether ==
    ASSUME Savepoints, ~OuterUse
    PROVE  Spec => []AllOrNothing
<1>1. ASSUME TypeOK, CallsInv, ScopeInv
      PROVE  AllOrNothing
  <2> SUFFICES ASSUME NEW r \in Node, Used(r)
               PROVE  /\ outcome[r] = "nil" => Kept(r) \subseteq durable
                      /\ outcome[r] = "commitError" =>
                             Kept(r) \subseteq durable \/ Kept(r) \cap durable = {}
    BY DEF AllOrNothing, Used
  <2>1. Kept(r) \subseteq Due(r)
    BY DEF Kept, Due
  <2>2. Settled(r)
    BY <1>1 DEF ScopeInv, SessionOK
  <2> QED
    BY <2>1, <2>2 DEF Settled
<1> QED
  BY <1>1, ScopesHold, PTL

------------------------------------------------------------------------------
\* The scopes of NestedTx in terms of what is on the stack: the scope of a call holds
\* what was written in it and in no call made inside it, if no call around failed.
Inv == TypeOK /\ CallsInv /\ StackInv /\ ScopeInv

Live(t) == {w \in Pending(t) : scope[w] \cap Failed = {}}
Own(t, p, i) == {w \in Live(t) : /\ frames[p][i].tx \in scope[w]
                                 /\ i < Depth(p) => frames[p][i + 1].tx \notin scope[w]}

Part(p, i) == {w \in UNION {SessionOf(p).layers[j].writes : j \in Span(p, i)} :
                   scope[w] \cap Failed = {}}
Scopes(p) == [i \in DOMAIN frames[p] |-> Part(p, i)]

Mapped == \A p \in Thread :
    /\ Scopes(p) \in Seq(SUBSET Node) /\ Len(Scopes(p)) = Depth(p)
    /\ \A t \in Node : \A i \in 1..Depth(p) : t = frames[p][1].tx => Scopes(p)[i] = Own(t, p, i)

\* A pending write belongs to the session and to the scopes of the calls that are
\* below it on the stack.
LEMMA PendingFacts ==
    ASSUME Inv, NEW t \in Node, Used(t), NEW w \in Pending(t)
    PROVE  /\ w \in wrote /\ w \in born /\ w \in Node /\ t \in scope[w] /\ scope[w] \subseteq born
           /\ \A x \in scope[w] : Active(x) => node[x].tx = t
           /\ \E j \in 1..Size(t) : w \in Wr(t, j)
<1>1. PICK j \in 1..Size(t) : w \in Wr(t, j)
  BY SizeFacts DEF Inv, Pending, Wr
<1> QED
  BY <1>1 DEF Inv, StackInv, StackOK, WritesOK, WriteOK, CallsInv, Fresh, TypeOK

LEMMA InScopeIff ==
    ASSUME Inv, NEW p \in Thread, NEW i \in 1..Depth(p), NEW t, t = frames[p][1].tx,
           NEW j \in 1..Size(t), NEW w \in Wr(t, j)
    PROVE  frames[p][i].tx \in scope[w] <=> Base(p, i) <= j
<1>1. /\ t \in Node /\ StackOK(t) /\ Inside(t) /\ node[frames[p][i].tx].tx = t
      /\ Size(t) \in Nat /\ t \in scope[w]
  BY OneSession, SizeFacts DEF Inv, StackInv, ScopeInv, SessionOK, StackOK, WritesOK, WriteOK
<1>2. PICK x : x = frames[p][i].tx /\ Active(x)
  BY DEF Active
<1>3. CASE i = 1
  BY <1>1, <1>3, BaseFacts DEF Inv, ScopeInv
<1>4. CASE i # 1
  <2>1. PICK a \in 2..Size(t) : a = Base(p, i) /\ Sp(t, a) = x
    BY <1>2, <1>4, BaseFacts DEF Inv, ScopeInv
  <2>2. a \in 1..Size(t)
    BY <1>1
  <2> QED
    BY <1>1, <1>2, <2>1, <2>2 DEF StackOK, WritesOK, WriteOK, Inside
<1> QED
  BY <1>3, <1>4

\* A write of a call lies in the scopes of all calls around it.
LEMMA ScopesNest ==
    ASSUME Inv, NEW p \in Thread, NEW i \in 1..Depth(p), NEW k \in 1..Depth(p), i < k,
           NEW w \in Pending(frames[p][1].tx), frames[p][k].tx \in scope[w]
    PROVE  frames[p][i].tx \in scope[w]
<1>1. PICK t \in Node : t = frames[p][1].tx /\ Used(t) /\ Size(t) \in Nat
  BY OneSession, SizeFacts DEF Inv, ScopeInv
<1>2. PICK j \in 1..Size(t) : w \in Wr(t, j)
  BY <1>1, PendingFacts
<1>3. Base(p, k) <= j /\ Base(p, i) < Base(p, k)
  BY <1>1, <1>2, InScopeIff, BaseOrder DEF Inv, ScopeInv
<1>4. Base(p, k) \in 1..Size(t) /\ Base(p, i) \in 1..Size(t)
  BY <1>1, BaseFacts DEF Inv, ScopeInv
<1>5. Base(p, i) <= j
  BY <1>1, <1>3, <1>4
<1> QED
  BY <1>1, <1>2, <1>5, InScopeIff

LEMMA PartIsOwn ==
    ASSUME Inv, NEW p \in Thread, NEW i \in 1..Depth(p), NEW t \in Node, t = frames[p][1].tx
    PROVE  Part(p, i) = Own(t, p, i)
<1>1. Used(t) /\ Size(t) \in Nat /\ SessionOf(p) = session[t]
  BY OneSession, SizeFacts DEF Inv, ScopeInv, SessionOf
<1>2. Depth(p) \in Nat /\ \A k \in 1..Depth(p) : Base(p, k) \in 1..Size(t)
  BY <1>1, FrameFacts, BaseFacts DEF Inv, ScopeInv
<1>3. ASSUME NEW j \in 1..Size(t)
      PROVE  j \in Span(p, i) <=> Base(p, i) <= j /\ (i < Depth(p) => ~(Base(p, i + 1) <= j))
  <2>1. CASE i = Depth(p)
    BY <1>1, <1>2, <2>1 DEF Span, Size
  <2>2. CASE i # Depth(p)
    <3>1. i + 1 \in 1..Depth(p)
      BY <1>2, <2>2
    <3> QED
      BY <1>1, <1>2, <2>2, <3>1 DEF Span
  <2> QED
    BY <2>1, <2>2
<1>4. Span(p, i) \subseteq 1..Size(t)
  BY <1>1, SpanFacts DEF Inv, ScopeInv
<1>5. i < Depth(p) => i + 1 \in 1..Depth(p)
  BY <1>2
<1>6. ASSUME NEW j \in 1..Size(t), NEW w \in Wr(t, j)
      PROVE  j \in Span(p, i) <=> /\ frames[p][i].tx \in scope[w]
                                  /\ i < Depth(p) => frames[p][i + 1].tx \notin scope[w]
  BY <1>1, <1>3, <1>5, InScopeIff
<1>7. ASSUME NEW w
      PROVE  w \in Part(p, i) <=> w \in Own(t, p, i)
  <2>1. w \in Part(p, i) <=> /\ scope[w] \cap Failed = {}
                             /\ \E j \in Span(p, i) : w \in Wr(t, j)
    BY <1>1 DEF Part, Wr
  <2>2. w \in Live(t) <=> scope[w] \cap Failed = {} /\ \E j \in 1..Size(t) : w \in Wr(t, j)
    BY <1>1, SizeFacts DEF Live, Pending, Wr, Inv
  <2> QED
    BY <1>1, <1>4, <1>6, <2>1, <2>2 DEF Own
<1> QED
  BY <1>7

LEMMA ScopesMapped == Inv => Mapped
<1> SUFFICES ASSUME Inv, NEW p \in Thread
             PROVE  /\ Scopes(p) \in Seq(SUBSET Node) /\ Len(Scopes(p)) = Depth(p)
                    /\ \A t \in Node : \A i \in 1..Depth(p) :
                           t = frames[p][1].tx => Scopes(p)[i] = Own(t, p, i)
  BY DEF Mapped
<1>1. DOMAIN frames[p] = 1..Depth(p) /\ Depth(p) \in Nat
  BY FrameFacts DEF Inv
<1>2. \A t \in Node : \A i \in 1..Depth(p) : t = frames[p][1].tx => Part(p, i) = Own(t, p, i)
  BY PartIsOwn
<1>3. ASSUME NEW i \in 1..Depth(p)
      PROVE  Part(p, i) \in SUBSET Node
  <2>1. PICK t \in Node : t = frames[p][1].tx /\ Used(t)
    BY OneSession DEF Inv, ScopeInv
  <2>2. \A w \in Own(t, p, i) : w \in Node
    BY <2>1, PendingFacts DEF Own, Live
  <2> QED
    BY <1>2, <2>1, <2>2
<1>4. Scopes(p) \in [1..Depth(p) -> SUBSET Node] /\ \A i \in 1..Depth(p) : Scopes(p)[i] = Part(p, i)
  BY <1>1, <1>3 DEF Scopes
<1>5. Scopes(p) \in Seq(SUBSET Node) /\ Len(Scopes(p)) = Depth(p)
  BY <1>1, <1>4
<1> QED
  BY <1>2, <1>4, <1>5

LEMMA ScopesMappedNext == Inv' => Mapped'
BY ScopesMapped, PTL

\* A step of NestedTx, in terms of the scopes of one goroutine.
LEMMA Refines ==
    ASSUME NEW p \in Thread, \A q \in Thread \ {p} : Scopes(q)' = Scopes(q),
           LET s == Scopes(p)
               n == Len(Scopes(p))
           IN  \/ durable' = durable /\ Scopes(p)' = s
               \/ durable' = durable /\ Scopes(p)' = Append(s, {})
               \/ durable' = durable /\ n > 0
                      /\ \E w \in Node : Scopes(p)' = [s EXCEPT ![n] = @ \cup {w}]
               \/ durable' = durable /\ n > 1
                      /\ Scopes(p)' = [SubSeq(s, 1, n - 1) EXCEPT ![n - 1] = @ \cup s[n]]
               \/ durable' = durable /\ n > 0 /\ Scopes(p)' = SubSeq(s, 1, n - 1)
               \/ durable' = durable \cup s[1] /\ n = 1 /\ Scopes(p)' = <<>>
    PROVE  [Abstract!Next]_(Abstract!vars)
<1> DEFINE S == [q \in Thread |-> Scopes(q)]
<1>1. \/ UNCHANGED <<S, durable>>
      \/ durable' = durable /\ S' = [S EXCEPT ![p] = Append(@, {})]
      \/ durable' = durable /\ Len(S[p]) > 0
             /\ \E w \in Node : S' = [S EXCEPT ![p][Len(S[p])] = @ \cup {w}]
      \/ durable' = durable /\ Len(S[p]) > 1
             /\ S' = [S EXCEPT ![p] = [SubSeq(S[p], 1, Len(S[p]) - 1) EXCEPT
                                           ![Len(S[p]) - 1] = @ \cup S[p][Len(S[p])]]]
      \/ durable' = durable /\ Len(S[p]) > 0 /\ S' = [S EXCEPT ![p] = SubSeq(S[p], 1, Len(S[p]) - 1)]
      \/ durable' = durable \cup S[p][1] /\ Len(S[p]) = 1 /\ S' = [S EXCEPT ![p] = <<>>]
  <2>1. S[p] = Scopes(p)
    OBVIOUS
  <2>2. S' = [S EXCEPT ![p] = Scopes(p)']
    OBVIOUS
  <2>3. \A v : [S EXCEPT ![p][Len(S[p])] = v] = [S EXCEPT ![p] = [S[p] EXCEPT ![Len(S[p])] = v]]
    OBVIOUS
  <2>4. S = [S EXCEPT ![p] = S[p]]
    OBVIOUS
  <2> HIDE DEF S
  <2>5. PICK a, b, c, v : a = Scopes(p) /\ b = S /\ c = S' /\ v = Scopes(p)'
    OBVIOUS
  <2>6. b[p] = a /\ c = [b EXCEPT ![p] = v] /\ b = [b EXCEPT ![p] = b[p]]
    BY <2>1, <2>2, <2>4, <2>5
  <2>7. CASE durable' = durable /\ v = a
    BY <2>5, <2>6, <2>7
  <2>8. CASE durable' = durable /\ v = Append(a, {})
    BY <2>5, <2>6, <2>8
  <2>9. CASE durable' = durable /\ Len(a) > 0 /\ \E w \in Node : v = [a EXCEPT ![Len(a)] = @ \cup {w}]
    <3>1. PICK w \in Node : v = [a EXCEPT ![Len(a)] = @ \cup {w}]
      BY <2>9
    <3>2. c = [b EXCEPT ![p] = [b[p] EXCEPT ![Len(b[p])] = @ \cup {w}]]
      BY <2>6, <3>1
    <3>3. c = [b EXCEPT ![p][Len(b[p])] = @ \cup {w}]
      BY <3>2
    <3>4. S' = [S EXCEPT ![p][Len(S[p])] = @ \cup {w}] /\ Len(S[p]) > 0
      BY <2>5, <2>6, <2>9, <3>3
    <3> QED
      BY <2>9, <3>4
  <2>10. CASE durable' = durable /\ Len(a) > 1
              /\ v = [SubSeq(a, 1, Len(a) - 1) EXCEPT ![Len(a) - 1] = @ \cup a[Len(a)]]
    BY <2>5, <2>6, <2>10
  <2>11. CASE durable' = durable /\ Len(a) > 0 /\ v = SubSeq(a, 1, Len(a) - 1)
    BY <2>5, <2>6, <2>11
  <2>12. CASE durable' = durable \cup a[1] /\ Len(a) = 1 /\ v = <<>>
    BY <2>5, <2>6, <2>12
  <2> QED
    BY <2>5, <2>7, <2>8, <2>9, <2>10, <2>11, <2>12
<1> QED
  BY <1>1, Zenon DEF Scopes, Part, Abstract!Next, Abstract!Open, Abstract!Put, Abstract!KeepInner, Abstract!KeepOutermost,
              Abstract!Drop, Abstract!Depth, Abstract!Outer, Abstract!vars

\* What is live in the session t, and where it was written, does not change.
SameLive(t) == Live(t)' = Live(t) /\ \A w \in Live(t) : scope'[w] = scope[w]

LEMMA StaysLive ==
    ASSUME Inv, Evolves, NEW t \in Node, Used(t), Pending(t)' = Pending(t),
           \A m \in born : \/ outcome'[m] = outcome[m]
                           \/ Active(m) /\ node[m].tx # t
                           \/ Active(m) /\ outcome'[m] \in {"nil", "panic"}
    PROVE  SameLive(t)
<1>1. ASSUME NEW w \in Pending(t)
      PROVE  /\ scope'[w] = scope[w]
             /\ \A m \in scope[w] : m \in Failed' <=> m \in Failed
  <2>1. w \in born /\ scope[w] \subseteq born /\ \A x \in scope[w] : Active(x) => node[x].tx = t
    BY PendingFacts
  <2>2. ASSUME NEW m \in scope[w]
        PROVE  m \in Failed' <=> m \in Failed
    <3>1. m \in born /\ m \in Node /\ (Active(m) => outcome[m] = "none")
      BY <2>1, ActiveCall DEF Inv, TypeOK, NodeTypeOK
    <3> QED
      BY <2>1, <3>1 DEF Failed
  <2> QED
    BY <2>1, <2>2 DEF Evolves
<1> QED
  BY <1>1 DEF SameLive, Live

\* A goroutine whose frames and whose live writes do not change.
LEMMA OtherScopes ==
    ASSUME Inv, Mapped', NEW q \in Thread, frames'[q] = frames[q],
           \A t \in Node : 1 \in 1..Depth(q) /\ t = frames[q][1].tx => SameLive(t)
    PROVE  Scopes(q)' = Scopes(q)
<1>1. Mapped /\ Depth(q)' = Depth(q)
  BY ScopesMapped DEF Depth
<1>2. ASSUME NEW i \in 1..Depth(q)
      PROVE  Scopes(q)'[i] = Scopes(q)[i]
  <2>1. PICK t \in Node : t = frames[q][1].tx /\ 1 \in 1..Depth(q)
    BY OneSession DEF Inv, ScopeInv
  <2>2. Own(t, q, i)' = Own(t, q, i)
    BY <1>1, <2>1 DEF Own, SameLive
  <2> QED
    BY <1>1, <2>1, <2>2 DEF Mapped
<1>3. /\ Scopes(q) \in Seq(SUBSET Node) /\ Scopes(q)' \in Seq(SUBSET Node)
      /\ Len(Scopes(q)) = Depth(q) /\ Len(Scopes(q)') = Depth(q)
  BY <1>1 DEF Mapped
<1> QED
  BY <1>2, <1>3, SeqEqual

\* A call that starts opens an empty scope.
LEMMA OpenedScope ==
    ASSUME Inv, Mapped', NEW p \in Thread, Depth(p)' = Depth(p) + 1,
           \A i \in 1..Depth(p) : frames'[p][i] = frames[p][i],
           NEW m, frames'[p][Depth(p) + 1].tx = m, NEW t \in Node, t = frames'[p][1].tx,
           IF Depth(p) = 0 THEN Live(t)' = {} ELSE SameLive(t),
           \A w \in Live(t)' : m \notin scope'[w]
    PROVE  Scopes(p)' = Append(Scopes(p), {})
<1>1. PICK d \in Nat : d = Depth(p)
  BY FrameFacts DEF Inv
<1>2. /\ Scopes(p) \in Seq(SUBSET Node) /\ Scopes(p)' \in Seq(SUBSET Node)
      /\ Len(Scopes(p)) = d /\ Len(Scopes(p)') = d + 1
  BY <1>1, ScopesMapped DEF Mapped
<1>3. /\ Append(Scopes(p), {}) \in Seq(SUBSET Node) /\ Len(Append(Scopes(p), {})) = d + 1
      /\ \A i \in 1..d : Append(Scopes(p), {})[i] = Scopes(p)[i]
      /\ Append(Scopes(p), {})[d + 1] = {}
  BY <1>2, AppendProperties
<1>4. ASSUME NEW i \in 1..d
      PROVE  Scopes(p)'[i] = Scopes(p)[i]
  <2>1. d # 0 /\ 1 \in 1..d /\ i \in 1..(d + 1) /\ i < d + 1
    BY <1>1
  <2>2. t = frames[p][1].tx /\ SameLive(t)
    BY <1>1, <2>1
  <2>3. ASSUME NEW w
        PROVE  w \in Own(t, p, i)' <=> w \in Own(t, p, i)
    <3>1. CASE i = d
      BY <1>1, <2>1, <2>2, <3>1 DEF Own, SameLive
    <3>2. CASE i # d
      <4>1. i < d /\ i + 1 \in 1..d
        BY <3>2
      <4> QED
        BY <1>1, <2>1, <2>2, <4>1 DEF Own, SameLive
    <3> QED
      BY <3>1, <3>2
  <2>4. Scopes(p)[i] = Own(t, p, i) /\ Scopes(p)'[i] = Own(t, p, i)'
    BY <1>1, <2>1, <2>2, ScopesMapped DEF Mapped
  <2> QED
    BY <2>3, <2>4
<1>5. Scopes(p)'[d + 1] = {}
  <2>1. d + 1 \in 1..(d + 1)
    OBVIOUS
  <2>2. PICK i \in 1..(Depth(p)') : i = d + 1
    BY <1>1, <2>1
  <2>3. Scopes(p)'[i] = Own(t, p, i)'
    BY DEF Mapped
  <2>4. Own(t, p, i)' = {}
    BY <1>1, <2>2 DEF Own
  <2> QED
    BY <2>2, <2>3, <2>4
<1>6. \A i \in 1..(d + 1) : Scopes(p)'[i] = Append(Scopes(p), {})[i]
  <2>1. \A i \in 1..(d + 1) : i \in 1..d \/ i = d + 1
    OBVIOUS
  <2> QED
    BY <1>3, <1>4, <1>5, <2>1
<1> QED
  BY <1>2, <1>3, <1>6, SeqEqual

\* A call writes into its own scope.
LEMMA FilledScope ==
    ASSUME Inv, Mapped', NEW p \in Thread, 1 \in 1..Depth(p), frames' = frames, scope' = scope,
           NEW t \in Node, t = frames[p][1].tx, NEW d \in Node, Live(t)' = Live(t) \cup {d},
           \A k \in 1..Depth(p) : frames[p][k].tx \in scope[d]
    PROVE  Scopes(p)' = [Scopes(p) EXCEPT ![Len(Scopes(p))] = @ \cup {d}]
<1>1. PICK n \in Nat : n = Depth(p) /\ n = Depth(p)' /\ n \in 1..n
  BY FrameFacts DEF Inv, Depth
<1>2. /\ Scopes(p) \in Seq(SUBSET Node) /\ Scopes(p)' \in Seq(SUBSET Node)
      /\ Len(Scopes(p)) = n /\ Len(Scopes(p)') = n
      /\ \A i \in 1..n : Scopes(p)[i] = Own(t, p, i) /\ Scopes(p)'[i] = Own(t, p, i)'
  <2>1. \A i \in 1..n : Scopes(p)[i] = Own(t, p, i)
    BY <1>1, ScopesMapped DEF Mapped
  <2>2. \A i \in 1..n : Scopes(p)'[i] = Own(t, p, i)'
    BY <1>1 DEF Mapped
  <2> QED
    BY <1>1, <2>1, <2>2, ScopesMapped DEF Mapped
<1>3. PICK v : v = Scopes(p)[n] \cup {d} /\ v \in SUBSET Node
  <2>1. Scopes(p)[n] \in SUBSET Node
    BY <1>1, <1>2, ElementOfSeq
  <2> QED
    BY <2>1
<1>4. PICK r : r = [Scopes(p) EXCEPT ![n] = v]
  OBVIOUS
<1>5. /\ r \in Seq(SUBSET Node) /\ Len(r) = n
      /\ \A i \in 1..n : r[i] = IF i = n THEN v ELSE Scopes(p)[i]
  BY <1>1, <1>2, <1>3, <1>4, ExceptSeq
<1>6. ASSUME NEW i \in 1..n
      PROVE  Scopes(p)'[i] = r[i]
  <2>1. CASE i = n
    <3>1. Own(t, p, i)' = Own(t, p, i) \cup {d}
      BY <1>1, <2>1 DEF Own
    <3> QED
      BY <1>2, <1>3, <1>5, <2>1, <3>1
  <2>2. CASE i # n
    <3>1. i < n /\ i + 1 \in 1..n
      BY <2>2
    <3>2. Own(t, p, i)' = Own(t, p, i)
      BY <1>1, <3>1 DEF Own
    <3> QED
      BY <1>2, <1>5, <2>2, <3>2
  <2> QED
    BY <2>1, <2>2
<1>7. Scopes(p)' = r
  BY <1>2, <1>5, <1>6, SeqEqual
<1> QED
  BY <1>2, <1>3, <1>4, <1>7

\* The scopes of a goroutine but its innermost, when that call returns.
LEMMA OuterScopes ==
    ASSUME Inv, Mapped', NEW p \in Thread, NEW n \in Nat \ {0}, n = Depth(p),
           Depth(p)' = n - 1, \A i \in 1..(n - 1) : frames'[p][i] = frames[p][i]
    PROVE  /\ Scopes(p) \in Seq(SUBSET Node) /\ Scopes(p)' \in Seq(SUBSET Node)
           /\ Len(Scopes(p)) = n /\ Len(Scopes(p)') = n - 1
           /\ SubSeq(Scopes(p), 1, n - 1) \in Seq(SUBSET Node)
           /\ Len(SubSeq(Scopes(p), 1, n - 1)) = n - 1
           /\ \A i \in 1..(n - 1) : SubSeq(Scopes(p), 1, n - 1)[i] = Scopes(p)[i]
           /\ \A t \in Node : t = frames[p][1].tx =>
                  /\ \A i \in 1..n : Scopes(p)[i] = Own(t, p, i)
                  /\ \A i \in 1..(n - 1) : Scopes(p)'[i] = Own(t, p, i)'
<1>1. /\ Scopes(p) \in Seq(SUBSET Node) /\ Scopes(p)' \in Seq(SUBSET Node)
      /\ Len(Scopes(p)) = n /\ Len(Scopes(p)') = n - 1
  BY ScopesMapped DEF Mapped
<1>2. n - 1 \in Int /\ 1 \in Int /\ \A i \in 1..(n - 1) : i \in 1..n
  OBVIOUS
<1>3. \A i \in 1..(n - 1) : Scopes(p)[i] \in SUBSET Node
  BY <1>1, <1>2, ElementOfSeq
<1>4. PICK s : s = SubSeq(Scopes(p), 1, n - 1)
  OBVIOUS
<1>5. /\ s \in Seq(SUBSET Node) /\ Len(s) = IF 1 <= n - 1 THEN n - 1 - 1 + 1 ELSE 0
      /\ \A i \in 1..(n - 1 - 1 + 1) : s[i] = Scopes(p)[1 + i - 1]
  BY <1>2, <1>3, <1>4, SubSeqProperties
<1>6. Len(s) = n - 1 /\ \A i \in 1..(n - 1) : s[i] = Scopes(p)[i]
  BY <1>5
<1>7. ASSUME NEW t \in Node, t = frames[p][1].tx
      PROVE  /\ \A i \in 1..n : Scopes(p)[i] = Own(t, p, i)
             /\ \A i \in 1..(n - 1) : Scopes(p)'[i] = Own(t, p, i)'
  <2>1. \A i \in 1..n : Scopes(p)[i] = Own(t, p, i)
    BY <1>7, ScopesMapped DEF Mapped
  <2>2. ASSUME NEW i \in 1..(n - 1)
        PROVE  Scopes(p)'[i] = Own(t, p, i)'
    <3>1. 1 \in 1..(n - 1) /\ frames'[p][1] = frames[p][1] /\ i \in 1..(Depth(p)')
      BY <2>2
    <3> QED
      BY <1>7, <3>1 DEF Mapped
  <2> QED
    BY <2>1, <2>2
<1> QED
  BY <1>1, <1>4, <1>5, <1>6, <1>7

\* A call that fails takes its writes with it.
LEMMA DroppedScope ==
    ASSUME Inv, Mapped', NEW p \in Thread, NEW n \in Nat \ {0}, n = Depth(p),
           Depth(p)' = n - 1, \A i \in 1..(n - 1) : frames'[p][i] = frames[p][i],
           NEW t \in Node, t = frames[p][1].tx, scope' = scope,
           n # 1 => Live(t)' = {w \in Live(t) : frames[p][n].tx \notin scope[w]}
    PROVE  Scopes(p)' = SubSeq(Scopes(p), 1, Len(Scopes(p)) - 1) /\ Len(Scopes(p)) > 0
<1>1. /\ Scopes(p) \in Seq(SUBSET Node) /\ Scopes(p)' \in Seq(SUBSET Node)
      /\ Len(Scopes(p)) = n /\ Len(Scopes(p)') = n - 1
      /\ SubSeq(Scopes(p), 1, n - 1) \in Seq(SUBSET Node)
      /\ Len(SubSeq(Scopes(p), 1, n - 1)) = n - 1
      /\ \A i \in 1..(n - 1) : SubSeq(Scopes(p), 1, n - 1)[i] = Scopes(p)[i]
      /\ \A i \in 1..n : Scopes(p)[i] = Own(t, p, i)
      /\ \A i \in 1..(n - 1) : Scopes(p)'[i] = Own(t, p, i)'
  BY OuterScopes
<1>2. ASSUME NEW i \in 1..(n - 1)
      PROVE  Scopes(p)'[i] = Scopes(p)[i]
  <2>1. n # 1 /\ i \in 1..n /\ n \in 1..n /\ i < n
    OBVIOUS
  <2>2. ASSUME NEW w \in Live(t)
        PROVE  (i < n - 1 /\ frames[p][n].tx \in scope[w]) => frames[p][i + 1].tx \in scope[w]
    <3>1. i < n - 1 => i + 1 \in 1..n /\ i + 1 < n
      OBVIOUS
    <3> QED
      BY <2>1, <2>2, <3>1, ScopesNest DEF Live
  <2>3. ASSUME NEW w
        PROVE  w \in Own(t, p, i)' <=> w \in Own(t, p, i)
    <3>1. CASE i = n - 1
      BY <2>1, <3>1 DEF Own
    <3>2. CASE i # n - 1
      <4>1. i < n - 1 /\ i + 1 \in 1..(n - 1)
        BY <3>2
      <4> QED
        BY <2>1, <2>2, <4>1 DEF Own
    <3> QED
      BY <3>1, <3>2
  <2>4. Own(t, p, i)' = Own(t, p, i)
    BY <2>3
  <2> QED
    BY <1>1, <2>1, <2>4
<1> QED
  BY <1>1, <1>2, SeqEqual

\* A nested call that returns nil, or whose panic is recovered, leaves its writes to
\* the call around it.
LEMMA JoinedScope ==
    ASSUME Inv, Mapped', NEW p \in Thread, NEW n \in Nat \ {0, 1}, n = Depth(p),
           Depth(p)' = n - 1, \A i \in 1..(n - 1) : frames'[p][i] = frames[p][i],
           NEW t \in Node, t = frames[p][1].tx, SameLive(t)
    PROVE  LET s == Scopes(p)
               d == Len(Scopes(p))
           IN  d > 1 /\ Scopes(p)' = [SubSeq(s, 1, d - 1) EXCEPT ![d - 1] = @ \cup s[d]]
<1>1. /\ Scopes(p) \in Seq(SUBSET Node) /\ Scopes(p)' \in Seq(SUBSET Node)
      /\ Len(Scopes(p)) = n /\ Len(Scopes(p)') = n - 1
      /\ SubSeq(Scopes(p), 1, n - 1) \in Seq(SUBSET Node)
      /\ Len(SubSeq(Scopes(p), 1, n - 1)) = n - 1
      /\ \A i \in 1..(n - 1) : SubSeq(Scopes(p), 1, n - 1)[i] = Scopes(p)[i]
      /\ \A i \in 1..n : Scopes(p)[i] = Own(t, p, i)
      /\ \A i \in 1..(n - 1) : Scopes(p)'[i] = Own(t, p, i)'
  BY OuterScopes
<1>2. PICK b \in 1..(n - 1) : b = n - 1 /\ b \in 1..n /\ n \in 1..n /\ b < n /\ b + 1 = n
  OBVIOUS
<1>3. PICK s, v, r : /\ s = SubSeq(Scopes(p), 1, b) /\ v = s[b] \cup Scopes(p)[n]
                     /\ r = [s EXCEPT ![b] = v]
  OBVIOUS
<1>4. v = Scopes(p)[b] \cup Scopes(p)[n] /\ v \in SUBSET Node
  BY <1>1, <1>2, <1>3, ElementOfSeq
<1>5. /\ s \in Seq(SUBSET Node) /\ Len(s) = b
      /\ \A i \in 1..b : s[i] = Scopes(p)[i]
  BY <1>1, <1>2, <1>3
<1>6. /\ r \in Seq(SUBSET Node) /\ Len(r) = b
      /\ \A i \in 1..b : r[i] = IF i = b THEN v ELSE Scopes(p)[i]
  <2>1. b \in 1..Len(s)
    BY <1>2, <1>5
  <2>2. /\ [s EXCEPT ![b] = v] \in Seq(SUBSET Node)
        /\ Len([s EXCEPT ![b] = v]) = Len(s)
        /\ \A j \in 1..Len(s) : [s EXCEPT ![b] = v][j] = IF j = b THEN v ELSE s[j]
    BY <1>4, <1>5, <2>1, ExceptSeq
  <2> QED
    BY <1>3, <1>5, <2>2
<1>7. ASSUME NEW i \in 1..b
      PROVE  Scopes(p)'[i] = r[i]
  <2>1. CASE i = b
    <3>1. ASSUME NEW w \in Live(t)
          PROVE  frames[p][n].tx \in scope[w] => frames[p][b].tx \in scope[w]
      BY <1>2, <3>1, ScopesNest DEF Live
    <3>2. Own(t, p, b)' = Own(t, p, b) \cup Own(t, p, n)
      BY <1>2, <3>1 DEF Own, SameLive
    <3>3. /\ Scopes(p)[b] = Own(t, p, b) /\ Scopes(p)[n] = Own(t, p, n)
          /\ Scopes(p)'[b] = Own(t, p, b)'
      BY <1>1, <1>2
    <3>4. r[i] = v
      BY <1>6, <2>1
    <3> QED
      BY <1>4, <2>1, <3>2, <3>3, <3>4
  <2>2. CASE i # b
    <3>1. i < b /\ i \in 1..n /\ i < n /\ i + 1 \in 1..(n - 1) /\ i \in 1..(n - 1)
      BY <1>2, <2>2
    <3>2. Own(t, p, i)' = Own(t, p, i)
      BY <1>2, <3>1 DEF Own, SameLive
    <3>3. Scopes(p)[i] = Own(t, p, i) /\ Scopes(p)'[i] = Own(t, p, i)'
      BY <1>1, <3>1
    <3>4. r[i] = Scopes(p)[i]
      BY <1>6, <2>2
    <3> QED
      BY <3>2, <3>3, <3>4
  <2> QED
    BY <2>1, <2>2
<1>8. Scopes(p)' = r
  BY <1>1, <1>2, <1>6, <1>7, SeqEqual
<1> QED
  BY <1>1, <1>2, <1>3, <1>8

------------------------------------------------------------------------------
\* The steps of the connector are steps of NestedTx.
PendingOnStack ==
    \A t \in Node : \A w : w \in Pending(t) <=> \E j \in 1..Size(t) : w \in Wr(t, j)

LEMMA PendingIs == TypeOK => PendingOnStack
<1> SUFFICES ASSUME TypeOK, NEW t \in Node, NEW w
             PROVE  w \in Pending(t) <=> \E j \in 1..Size(t) : w \in Wr(t, j)
  BY DEF PendingOnStack
<1> QED
  BY SizeFacts DEF Pending, Wr

LEMMA PendingIsNext == TypeOK' => PendingOnStack'
BY PendingIs, PTL

LEMMA Stutters ==
    ASSUME durable' = durable, \A q \in Thread : Scopes(q)' = Scopes(q)
    PROVE  [Abstract!Next]_(Abstract!vars)
<1> DEFINE S == [q \in Thread |-> Scopes(q)]
<1>1. S' = S
  OBVIOUS
<1> QED
  BY <1>1 DEF Scopes, Part, Abstract!vars

\* The goroutines that do not work in the session u.
LEMMA Elsewhere ==
    ASSUME Inv, Mapped', Evolves, NEW q \in Thread, frames'[q] = frames[q], NEW u,
           1 \in 1..Depth(q) => frames[q][1].tx # u,
           \A t \in Node : t # u => session'[t].layers = session[t].layers,
           \A m \in born : outcome'[m] = outcome[m] \/ (Active(m) /\ node[m].tx = u)
    PROVE  Scopes(q)' = Scopes(q)
<1>1. ASSUME NEW t \in Node, 1 \in 1..Depth(q), t = frames[q][1].tx
      PROVE  SameLive(t)
  <2>1. Used(t) /\ t # u
    BY <1>1, OneSession DEF Inv, ScopeInv
  <2>2. Pending(t)' = Pending(t)
    BY <2>1 DEF Pending
  <2> QED
    BY <2>1, <2>2, StaysLive
<1> QED
  BY <1>1, OtherScopes

LEMMA QuietMaps ==
    ASSUME Inv, Mapped', Still, \A u \in Node : SameStack(u), durable' = durable
    PROVE  [Abstract!Next]_(Abstract!vars)
<1>1. Evolves /\ frames' = frames /\ outcome' = outcome
  BY StillEvolves DEF Inv, Still
<1>2. PICK u : u \notin Node
  BY NoneAssumption
<1>3. ASSUME NEW q \in Thread
      PROVE  Scopes(q)' = Scopes(q)
  <2>1. 1 \in 1..Depth(q) => frames[q][1].tx # u
    BY <1>2, FrameFacts DEF Inv
  <2> QED
    BY <1>1, <2>1, Elsewhere DEF SameStack
<1> QED
  BY <1>3, Stutters

LEMMA WriteMaps ==
    ASSUME Inv, TypeOK', Mapped', Still, NEW p \in Thread, NEW k \in 1..Depth(p), k = Depth(p),
           CallWrites(p, k)
    PROVE  [Abstract!Next]_(Abstract!vars)
<1>1. PICK d \in Node, t \in Node : /\ d = frames[p][k].tx /\ t = node[d].tx /\ Used(t)
                                    /\ t = frames[p][1].tx /\ 1 \in 1..Depth(p)
  <2>1. frames[p][k].tx \in Node /\ 1 \in 1..Depth(p) /\ frames[p][1].tx \in Node
        /\ Used(frames[p][1].tx) /\ node[frames[p][k].tx].tx = frames[p][1].tx
    BY FrameFacts, OneSession DEF Inv, ScopeInv
  <2> QED
    BY <2>1
<1>2. Write(t, d) /\ Shape(t)
  BY <1>1 DEF CallWrites, Inv, StackInv, StackOK
<1>3. /\ durable' = durable
      /\ \A u \in Node \ {t} : session'[u] = session[u]
      /\ Size(t)' = Size(t) /\ Size(t) \in 1..Size(t)
      /\ \A j \in 1..Size(t) : Wr(t, j)' = IF j = Size(t) THEN Wr(t, j) \cup {d} ELSE Wr(t, j)
  BY <1>2, WriteCuts DEF Inv
<1>4. Evolves /\ UNCHANGED <<frames, outcome, scope>>
  BY StillEvolves DEF Inv, Still
<1>5. scope[d] = {frames[p][i].tx : i \in 1..k} /\ scope[d] \cap Failed = {}
  <2>1. scope[d] = {frames[p][i].tx : i \in 1..k}
    BY <1>1 DEF Inv, ScopeInv, Chain, ChainAt
  <2>2. \A i \in 1..k : outcome[frames[p][i].tx] = "none"
    BY ActiveFacts DEF Inv
  <2> QED
    BY <2>1, <2>2 DEF Failed
<1>6. ASSUME NEW w
      PROVE  w \in Pending(t)' <=> w \in Pending(t) \/ w = d
  BY <1>3, PendingIs, PendingIsNext DEF Inv, PendingOnStack
<1>7. Live(t)' = Live(t) \cup {d}
  <2>1. Failed' = Failed
    BY <1>4 DEF Failed
  <2> QED
    BY <1>4, <1>5, <1>6, <2>1 DEF Live
<1>8. Scopes(p)' = [Scopes(p) EXCEPT ![Len(Scopes(p))] = @ \cup {d}]
  BY <1>1, <1>4, <1>5, <1>7, FilledScope
<1>9. ASSUME NEW q \in Thread \ {p}
      PROVE  Scopes(q)' = Scopes(q)
  <2>1. 1 \in 1..Depth(q) => frames[q][1].tx # t
    BY <1>1 DEF Inv, CallsInv, Apart
  <2> QED
    BY <1>3, <1>4, <2>1, Elsewhere
<1>10. Len(Scopes(p)) > 0
  <2>1. Len(Scopes(p)) = Depth(p) /\ Depth(p) \in Nat
    BY ScopesMapped, FrameFacts DEF Mapped, Inv
  <2> QED
    BY <1>1, <2>1
<1> QED
  BY <1>1, <1>3, <1>8, <1>9, <1>10, Refines

LEMMA OpenMaps ==
    ASSUME Inv, TypeOK', Mapped', NEW p \in Thread, NEW m \in Node, Opens(p, m)
    PROVE  [Abstract!Next]_(Abstract!vars)
<1>1. Pushes(p, Pool, m, m, FALSE) /\ Begin(m) /\ Evolves
  BY PoolAssumption, PushEvolves DEF Opens, Inv
<1>2. Depth(p) = 0
  <2>1. \A k \in 1..Depth(p) : frames[p][k].tx # Pool
    BY ActiveFacts DEF Inv
  <2>2. waiting[p] = Pool /\ Pool # None
    BY <1>1, PoolAssumption, NoneAssumption DEF Pushes
  <2>3. Depth(p) \in Nat /\ (Depth(p) # 0 => Depth(p) \in 1..Depth(p))
    BY FrameFacts DEF Inv
  <2> QED
    BY <2>1, <2>2, <2>3 DEF Inv, ScopeInv, Chain
<1> DEFINE f == [driver |-> Pool, tx |-> m]
<1>3. f \in Frame /\ f.tx = m /\ frames' = [frames EXCEPT ![p] = Append(@, f)]
  BY <1>1, PoolAssumption DEF Frame, Pushes
<1> HIDE DEF f
<1>4. /\ \A q \in Thread : q # p => frames'[q] = frames[q]
      /\ Depth(p)' = Depth(p) + 1
      /\ frames'[p][Depth(p) + 1] = f
      /\ \A i \in 1..Depth(p) : frames'[p][i] = frames[p][i]
  BY <1>3, Pushed DEF Inv, TypeOK
<1>5. durable' = durable /\ \A u \in Node : u # m => session'[u] = session[u]
  BY <1>1 DEF Begin, Inv, TypeOK, DbTypeOK
<1>6. Live(m)' = {}
  <2>1. session'[m].layers = <<[sp |-> None, writes |-> {}]>>
    BY <1>1 DEF Begin, Inv, TypeOK, DbTypeOK
  <2>2. Pending(m)' = {}
    BY <2>1 DEF Pending
  <2> QED
    BY <2>2 DEF Live
<1>7. Scopes(p)' = Append(Scopes(p), {})
  <2>1. frames'[p][Depth(p) + 1].tx = m /\ m = frames'[p][1].tx
    BY <1>2, <1>3, <1>4
  <2> QED
    BY <1>2, <1>4, <1>6, <2>1, OpenedScope
<1>8. ASSUME NEW q \in Thread \ {p}
      PROVE  Scopes(q)' = Scopes(q)
  <2>1. 1 \in 1..Depth(q) => frames[q][1].tx # m
    BY <1>1, ActiveFacts DEF Inv, Pushes
  <2> QED
    BY <1>1, <1>4, <1>5, <2>1, Elsewhere DEF Pushes
<1> QED
  BY <1>5, <1>7, <1>8, Refines

LEMMA NestMaps ==
    ASSUME Savepoints, Inv, TypeOK', Mapped', NEW p \in Thread, NEW k \in 1..Depth(p),
           NEW m \in Node, Nests(p, k, m)
    PROVE  [Abstract!Next]_(Abstract!vars)
<1>1. PICK n \in Node, t \in Node : /\ n = frames[p][k].tx /\ t = node[n].tx /\ Used(t)
                                    /\ t = frames[p][1].tx /\ 1 \in 1..Depth(p)
  <2>1. frames[p][k].tx \in Node /\ 1 \in 1..Depth(p) /\ frames[p][1].tx \in Node
        /\ Used(frames[p][1].tx) /\ node[frames[p][k].tx].tx = frames[p][1].tx
    BY FrameFacts, OneSession DEF Inv, ScopeInv
  <2> QED
    BY <2>1
<1>2. Pushes(p, n, m, t, TRUE) /\ Savepoint(t, m) /\ Evolves
  <2>1. Pushes(p, n, m, t, TRUE) /\ Savepoint(t, m)
    BY <1>1 DEF Nests
  <2> QED
    BY <2>1, PushEvolves DEF Inv
<1>3. PICK top \in Nat \ {0} : top = Size(t) + 1 /\ Size(t) \in Nat
  BY SizeFacts DEF Inv
<1>4. /\ durable' = durable
      /\ \A u \in Node \ {t} : session'[u] = session[u]
      /\ Size(t)' = top /\ Wr(t, top)' = {}
      /\ \A j \in 1..Size(t) : Wr(t, j)' = Wr(t, j)
  BY <1>2, <1>3, SavepointCuts DEF Inv
<1>5. SameLive(t)
  <2>1. ASSUME NEW w
        PROVE  w \in Pending(t)' <=> w \in Pending(t)
    <3>1. \A j \in 1..top : j \in 1..Size(t) \/ j = top
      BY <1>3
    <3>2. \A j \in 1..Size(t) : j \in 1..top
      BY <1>3
    <3> QED
      BY <1>4, <3>1, <3>2, PendingIs, PendingIsNext DEF Inv, PendingOnStack
  <2>2. Pending(t)' = Pending(t)
    BY <2>1
  <2> QED
    BY <1>1, <1>2, <2>2, StaysLive DEF Pushes
<1> DEFINE f == [driver |-> n, tx |-> m]
<1>6. f \in Frame /\ f.tx = m /\ frames' = [frames EXCEPT ![p] = Append(@, f)]
  BY <1>2 DEF Frame, Pushes
<1> HIDE DEF f
<1>7. /\ \A q \in Thread : q # p => frames'[q] = frames[q]
      /\ Depth(p)' = Depth(p) + 1
      /\ frames'[p][Depth(p) + 1] = f
      /\ \A i \in 1..Depth(p) : frames'[p][i] = frames[p][i]
  BY <1>6, Pushed DEF Inv, TypeOK
<1>8. Scopes(p)' = Append(Scopes(p), {})
  <2>1. frames'[p][Depth(p) + 1].tx = m /\ t = frames'[p][1].tx /\ Depth(p) # 0
    <3>1. frames'[p][Depth(p) + 1].tx = m
      BY <1>6, <1>7
    <3>2. frames'[p][1] = frames[p][1]
      BY <1>1, <1>7
    <3>3. Depth(p) # 0
      BY <1>1
    <3> QED
      BY <1>1, <3>1, <3>2, <3>3
  <2>2. ASSUME NEW w \in Live(t)
        PROVE  m \notin scope[w]
    <3>1. scope[w] \subseteq born
      BY <1>1, <2>2, PendingFacts DEF Live
    <3> QED
      BY <1>2, <3>1 DEF Pushes
  <2> QED
    BY <1>5, <1>7, <2>1, <2>2, OpenedScope DEF SameLive
<1>9. ASSUME NEW q \in Thread \ {p}
      PROVE  Scopes(q)' = Scopes(q)
  <2>1. 1 \in 1..Depth(q) => frames[q][1].tx # t
    BY <1>1 DEF Inv, CallsInv, Apart
  <2> QED
    BY <1>2, <1>4, <1>7, <2>1, Elsewhere DEF Pushes
<1> QED
  BY <1>4, <1>8, <1>9, Refines

\* The innermost call of p, its session, and what its return does to the goroutines.
Ending(p, n, x, t, result) ==
    /\ n \in Nat \ {0} /\ n = Depth(p) /\ Depth(p)' = n - 1
    /\ \A i \in 1..(n - 1) : frames'[p][i] = frames[p][i]
    /\ \A q \in Thread : q # p => frames'[q] = frames[q]
    /\ t \in Node /\ t = frames[p][1].tx /\ t = node[x].tx /\ Used(t)
    /\ x \in Node /\ x = frames[p][n].tx
    /\ x = t <=> n = 1
    /\ Leaves(p, x, result)

LEMMA EndingFacts ==
    ASSUME Inv, NEW p \in Thread, NEW result, Pops(p, result)
    PROVE  \E n, x, t : Ending(p, n, x, t, result)
<1>1. PICK n \in Nat \ {0} : n = Depth(p) /\ n \in 1..n /\ 1 \in 1..n
  BY FrameFacts DEF Inv, Pops, InHandler
<1>2. PICK x \in Node, t \in Node : /\ x = frames[p][n].tx /\ x = Top(p).tx
                                    /\ t = frames[p][1].tx /\ t = node[x].tx /\ Used(t)
  <2>1. frames[p][n].tx \in Node /\ frames[p][1].tx \in Node
        /\ Used(frames[p][1].tx) /\ node[frames[p][n].tx].tx = frames[p][1].tx
    BY <1>1, FrameFacts, OneSession DEF Inv, ScopeInv
  <2> QED
    BY <1>1, <2>1 DEF Top
<1>3. x = t <=> n = 1
  <2>1. n # 1 => frames[p][n].tx # frames[p][1].tx
    BY <1>1, OneSession DEF Inv, ScopeInv
  <2> QED
    BY <1>2, <2>1
<1>4. frames' = [frames EXCEPT ![p] = SubSeq(@, 1, Depth(p) - 1)] /\ frames[p] # <<>>
  BY DEF Pops, Return, InHandler
<1>5. Depth(p)' = n - 1 /\ \A i \in 1..(n - 1) : frames'[p][i] = frames[p][i]
  <2>1. Depth(p)' = n - 1 /\ \A i \in 1..(Depth(p)') : frames'[p][i] = frames[p][i]
    BY <1>1, <1>4, Popped DEF Inv
  <2> QED
    BY <2>1
<1>6. \A q \in Thread : q # p => frames'[q] = frames[q]
  BY <1>4 DEF Inv, TypeOK
<1>7. Leaves(p, x, result)
  BY <1>2, PopLeaves DEF Inv
<1> QED
  BY <1>1, <1>2, <1>3, <1>5, <1>6, <1>7 DEF Ending

LEMMA EndingElsewhere ==
    ASSUME Inv, Mapped', NEW p \in Thread, NEW n, NEW x, NEW t, NEW result,
           Ending(p, n, x, t, result), NEW q \in Thread \ {p},
           \A u \in Node : u # t => session'[u].layers = session[u].layers
    PROVE  Scopes(q)' = Scopes(q)
<1>1. 1 \in 1..Depth(q) => frames[q][1].tx # t
  <2>1. 1 \in 1..Depth(p) /\ t = frames[p][1].tx
    BY DEF Ending
  <2>2. Apart
    BY DEF Inv, CallsInv
  <2> QED
    BY <2>1, <2>2 DEF Apart
<1>2. \A m \in born : outcome'[m] = outcome[m] \/ (Active(m) /\ node[m].tx = t)
  BY DEF Ending, Leaves, Inv, TypeOK, NodeTypeOK
<1> QED
  BY <1>1, <1>2, Elsewhere DEF Ending, Leaves

LEMMA DropMaps ==
    ASSUME Inv, Mapped', NEW p \in Thread, NEW n, NEW x, NEW t, NEW result,
           Ending(p, n, x, t, result), durable' = durable,
           \A u \in Node : u # t => session'[u].layers = session[u].layers,
           n # 1 => Live(t)' = {w \in Live(t) : x \notin scope[w]}
    PROVE  [Abstract!Next]_(Abstract!vars)
<1>1. Scopes(p)' = SubSeq(Scopes(p), 1, Len(Scopes(p)) - 1) /\ Len(Scopes(p)) > 0
  <2>1. /\ n \in Nat \ {0} /\ n = Depth(p) /\ Depth(p)' = n - 1
        /\ \A i \in 1..(n - 1) : frames'[p][i] = frames[p][i]
        /\ t \in Node /\ t = frames[p][1].tx /\ x = frames[p][n].tx /\ scope' = scope
    BY DEF Ending, Leaves
  <2> QED
    BY <2>1, DroppedScope
<1>2. \A q \in Thread \ {p} : Scopes(q)' = Scopes(q)
  BY EndingElsewhere
<1> QED
  BY <1>1, <1>2, Refines

LEMMA JoinMaps ==
    ASSUME Inv, Mapped', NEW p \in Thread, NEW n, NEW x, NEW t, NEW result \in {"nil", "panic"},
           Ending(p, n, x, t, result), durable' = durable, n # 1,
           \A u \in Node : u # t => session'[u].layers = session[u].layers,
           Pending(t)' = Pending(t)
    PROVE  [Abstract!Next]_(Abstract!vars)
<1>1. SameLive(t)
  <2>1. \A m \in born : outcome'[m] = outcome[m] \/ (Active(m) /\ outcome'[m] \in {"nil", "panic"})
    BY DEF Ending, Leaves, Inv, TypeOK, NodeTypeOK
  <2> QED
    BY <2>1, StaysLive DEF Ending, Leaves
<1>2. Len(Scopes(p)) > 1 /\ Scopes(p)' = [SubSeq(Scopes(p), 1, Len(Scopes(p)) - 1) EXCEPT
                                             ![Len(Scopes(p)) - 1] = @ \cup Scopes(p)[Len(Scopes(p))]]
  <2>1. n \in Nat \ {0, 1}
    BY DEF Ending
  <2> QED
    BY <1>1, <2>1, JoinedScope DEF Ending
<1>3. \A q \in Thread \ {p} : Scopes(q)' = Scopes(q)
  BY EndingElsewhere
<1> QED
  BY <1>2, <1>3, Refines

LEMMA NestedEndMaps ==
    ASSUME Savepoints, Inv, TypeOK', Mapped', NEW p \in Thread, NEW n, NEW x, NEW t,
           NEW result, Ending(p, n, x, t, result), EndsNested(p, x, t, result)
    PROVE  [Abstract!Next]_(Abstract!vars)
<1>1. /\ x # t /\ n # 1 /\ t \in Node /\ x \in Node /\ t = node[x].tx
      /\ Leaves(p, x, result) /\ Active(x) /\ Evolves /\ scope' = scope
  BY Zenon DEF Ending, EndsNested, Leaves
<1>2. StackOK(t) /\ Shape(t) /\ Inside(t) /\ OnStack /\ TypeOK
  BY DEF Ending, Inv, StackInv, StackOK, ScopeInv, SessionOK
<1>3. PICK a \in 2..Size(t) : Sp(t, a) = x
  BY <1>1, <1>2 DEF OnStack
<1>4. CASE result = "nil" /\ Release(t, x)
  <2>1. /\ durable' = durable
        /\ \A u \in Node : u # t => session'[u].layers = session[u].layers
    BY <1>1, <1>2, <1>4 DEF Release, TypeOK, DbTypeOK
  <2>2. Size(t)' = a - 1
    BY <1>1, <1>2, <1>3, <1>4, ReleaseCuts
  <2>3. /\ \A j \in 1..(a - 1) : \A w \in Wr(t, j)' : Moves(t, w, j)
        /\ \A k \in 1..Size(t) : \A w \in Wr(t, k) : \E j \in 1..(a - 1) : w \in Wr(t, j)'
    BY <1>1, <1>2, <1>3, <1>4, ReleaseMoves
  <2>4. ASSUME NEW w
        PROVE  w \in Pending(t)' <=> w \in Pending(t)
    BY <1>1, <1>2, <2>2, <2>3, PendingIs, PendingIsNext DEF PendingOnStack, Moves
  <2>5. Pending(t)' = Pending(t)
    BY <2>4
  <2> QED
    BY <1>1, <1>4, <2>1, <2>5, JoinMaps
<1>5. CASE result \in {"handlerError", "commitError"} /\ (Refuse(t) \/ RollbackTo(t, x))
  <2>1. /\ durable' = durable
        /\ \A u \in Node : u # t => session'[u].layers = session[u].layers
    BY <1>1, <1>2, <1>5 DEF Refuse, RollbackTo, TypeOK, DbTypeOK
  <2>2. ASSUME NEW w \in Pending(t)
        PROVE  scope'[w] \cap Failed' = {} <=> scope[w] \cap Failed = {} /\ x \notin scope[w]
    <3>1. w \in born /\ scope[w] \subseteq born
      BY <2>2, PendingFacts DEF Ending
    <3>2. Failed' = Failed \cup {x}
      BY <1>1, <1>2, <1>5, ActiveCall DEF Inv, Failed, Leaves, TypeOK
    <3> QED
      BY <1>1, <3>1, <3>2
  <2>3. ASSUME NEW w \in Pending(t)'
        PROVE  w \in Pending(t)
    <3>1. CASE Refuse(t)
      BY <1>1, <1>2, <2>3, <3>1, OpsSameStack DEF Pending, SameStack
    <3>2. CASE RollbackTo(t, x)
      <4>1. Size(t)' = a /\ \A j \in 1..a : \A w1 \in Wr(t, j)' : Moves(t, w1, j)
        BY <1>1, <1>2, <1>3, <3>2, ResetCuts
      <4> QED
        BY <1>1, <1>2, <2>3, <4>1, PendingIs, PendingIsNext DEF PendingOnStack, Moves
    <3> QED
      BY <1>5, <3>1, <3>2
  <2>4. ASSUME NEW w \in Pending(t), x \notin scope[w]
        PROVE  w \in Pending(t)'
    <3>1. CASE Refuse(t)
      BY <1>1, <1>2, <2>4, <3>1, OpsSameStack DEF Pending, SameStack
    <3>2. CASE RollbackTo(t, x)
      <4>1. /\ Size(t)' = a /\ Size(t) \in Nat
            /\ \A j \in 1..a : Wr(t, j)' = IF j = a THEN {} ELSE Wr(t, j)
        BY <1>1, <1>2, <1>3, <3>2, ResetCuts
      <4>2. PICK j \in 1..Size(t) : w \in Wr(t, j)
        BY <1>1, <1>2, <2>4, PendingIs DEF PendingOnStack
      <4>3. ~(a <= j)
        BY <1>1, <1>2, <1>3, <2>4, <4>2 DEF Inside
      <4>4. j \in 1..a /\ j # a
        BY <4>1, <4>3
      <4> QED
        BY <1>1, <4>1, <4>2, <4>4, PendingIsNext DEF PendingOnStack
    <3> QED
      BY <1>5, <3>1, <3>2
  <2>5. Live(t)' = {w \in Live(t) : x \notin scope[w]}
    BY <2>2, <2>3, <2>4 DEF Live
  <2> QED
    BY <2>1, <2>5, DropMaps
<1> QED
  BY <1>4, <1>5 DEF EndsNested

\* Everything that a COMMIT saves is in the only scope of the goroutine.
LEMMA SaveMaps ==
    ASSUME Inv, Mapped', NEW p \in Thread, NEW t, NEW result, Ending(p, 1, t, t, result),
           session[t].state = "open", durable' = durable \cup Pending(t),
           \A u \in Node : u # t => session'[u].layers = session[u].layers
    PROVE  [Abstract!Next]_(Abstract!vars)
<1>1. ASSUME NEW w \in Pending(t)
      PROVE  t \in scope[w] /\ scope[w] \cap Failed = {}
  <2>1. t \in Node /\ StackOK(t)
    BY DEF Ending, Inv, StackInv
  <2>2. t \in scope[w] /\ \E j \in 1..Size(t) : w \in Wr(t, j)
    BY <2>1, PendingFacts DEF Ending
  <2>3. \A m \in scope[w] : outcome[m] \in {"none", "nil", "panic"}
    BY <2>1, <2>2 DEF StackOK, Clean, CleanAt, Survives
  <2> QED
    BY <2>2, <2>3 DEF Failed
<1>2. /\ Scopes(p)' \in Seq(SUBSET Node) /\ Len(Scopes(p)) = 1 /\ Len(Scopes(p)') = 0
      /\ Scopes(p)[1] = Own(t, p, 1)
  <2>1. /\ Scopes(p)' \in Seq(SUBSET Node) /\ Len(Scopes(p)) = 1 /\ Len(Scopes(p)') = 1 - 1
        /\ \A i \in 1..1 : Scopes(p)[i] = Own(t, p, i)
    BY OuterScopes DEF Ending
  <2> QED
    BY <2>1
<1>3. Own(t, p, 1) = Pending(t)
  <2>1. \A w \in Pending(t) : t \in scope[w] /\ scope[w] \cap Failed = {}
    BY <1>1
  <2>2. t = frames[p][1].tx /\ Depth(p) = 1
    BY DEF Ending
  <2> QED
    BY <2>1, <2>2 DEF Own, Live
<1>4. Scopes(p)' = <<>>
  BY <1>2, EmptySeq
<1>5. \A q \in Thread \ {p} : Scopes(q)' = Scopes(q)
  BY EndingElsewhere
<1> QED
  BY <1>2, <1>3, <1>4, <1>5, Refines

LEMMA EndMaps ==
    ASSUME Savepoints, Inv, TypeOK', Mapped', NEW p \in Thread,
           NEW result \in {"nil", "handlerError", "commitError", "panic"}, Ends(p, result)
    PROVE  [Abstract!Next]_(Abstract!vars)
<1>1. PICK n, x, t : Ending(p, n, x, t, result)
  BY EndingFacts DEF Ends
<1>2. /\ x = Top(p).tx /\ t = node[x].tx /\ t \in Node /\ (x = t <=> n = 1) /\ TypeOK
      /\ n \in Nat \ {0}
  BY <1>1 DEF Ending, Top, Inv
<1>3. CASE EndsNested(p, x, t, result)
  BY <1>1, <1>3, NestedEndMaps
<1>4. CASE EndsOwner(x, t, result)
  <2>1. n = 1 /\ x = t
    BY <1>2, <1>4 DEF EndsOwner
  <2>2. \A u \in Node : u # t => session'[u].layers = session[u].layers
    BY <1>2, <1>4, OpsSameStack DEF EndsOwner, SameStack
  <2>3. \/ durable' = durable
        \/ session[t].state = "open" /\ durable' = durable \cup Pending(t)
    BY <1>4 DEF EndsOwner, CommitTx, CommitTxFails, RollbackTx, RollbackTxFails
  <2>4. CASE durable' = durable
    BY <1>1, <2>1, <2>2, <2>4, DropMaps
  <2>5. CASE session[t].state = "open" /\ durable' = durable \cup Pending(t)
    BY <1>1, <2>1, <2>2, <2>5, SaveMaps
  <2> QED
    BY <2>3, <2>4, <2>5
<1>5. CASE result = "panic" /\ UNCHANGED dbVars
  <2>1. /\ durable' = durable /\ session' = session
        /\ \A u \in Node : u # t => session'[u].layers = session[u].layers
    BY <1>5 DEF dbVars
  <2>2. CASE n = 1
    BY <1>1, <2>1, <2>2, DropMaps
  <2>3. CASE n # 1
    <3>1. Pending(t)' = Pending(t)
      BY <2>1 DEF Pending
    <3> QED
      BY <1>1, <1>5, <2>1, <2>3, <3>1, JoinMaps
  <2> QED
    BY <2>2, <2>3
<1> QED
  BY <1>2, <1>3, <1>4, <1>5 DEF Ends

LEMMA StepMaps ==
    ASSUME Savepoints, ~OuterUse, Inv, TypeOK', Mapped', [Next]_vars
    PROVE  [Abstract!Next]_(Abstract!vars)
<1> DEFINE Goal == [Abstract!Next]_(Abstract!vars)
<1>1. TypeOK /\ CallsInv /\ Kinds /\ ~PoolWrites
  BY StepKinds, InnermostWrites DEF Inv
<1>2. ASSUME NEW p \in Thread, Quiet(p)
      PROVE  Goal
  BY <1>1, <1>2, StillKinds, QuietMaps DEF Quiet, dbVars, SameStack
<1>3. ASSUME NEW p \in Thread, NEW k \in 1..Depth(p), Refused(p, k)
      PROVE  Goal
  <2>1. PICK t \in Node : t = node[frames[p][k].tx].tx /\ Refuse(t)
    BY <1>1, <1>3, ActiveFacts DEF Refused
  <2>2. \A u \in Node : SameStack(u)
    BY <1>1, <2>1, OpsSameStack
  <2> QED
    BY <1>1, <1>3, <2>1, <2>2, StillKinds, QuietMaps, Zenon DEF Refuse
<1>4. ASSUME NEW p \in Thread, NEW k \in 1..Depth(p), CallWrites(p, k)
      PROVE  Goal
  BY <1>1, <1>4, StillKinds, InnermostWrites, WriteMaps
<1>5. ASSUME NEW t \in Node, Cancelled(t)
      PROVE  Goal
  <2>1. \A u \in Node : SameStack(u)
    BY <1>1, <1>5, OpsSameStack DEF Cancelled
  <2> QED
    BY <1>1, <1>5, <2>1, StillKinds, QuietMaps DEF Cancelled, ContextDone
<1>6. ASSUME UNCHANGED <<frames, waiting, node, born, dbVars, history>>
      PROVE  Goal
  BY <1>1, <1>6, StillKinds, QuietMaps DEF dbVars, SameStack
<1>7. ASSUME NEW p \in Thread, NEW m \in Node,
             Opens(p, m) \/ \E k \in 1..Depth(p) : Nests(p, k, m)
      PROVE  Goal
  BY <1>7, OpenMaps, NestMaps
<1>8. ASSUME NEW p \in Thread, NEW result \in {"nil", "handlerError", "commitError", "panic"},
             Ends(p, result)
      PROVE  Goal
  BY <1>8, EndMaps
<1> HIDE DEF Goal
<1>9. Goal
  BY <1>1, <1>2, <1>3, <1>4, <1>5, <1>6, <1>7, <1>8 DEF Kinds
<1> QED
  BY <1>9 DEF Goal

\* makroud.Transaction implements nested all-or-nothing scopes: with savepoints, and
\* handlers that use only the driver they received, every behaviour of the connector,
\* whatever the goroutines, statements that fail, connections lost and contexts
\* cancelled, is one of NestedTx.
THEOREM NestsAllOrNothing ==
    ASSUME Savepoints, ~OuterUse
    PROVE  Spec => Implements
<1>1. Init => Abstract!Init
  <2> SUFFICES ASSUME Init
               PROVE  Abstract!Init
    OBVIOUS
  <2>1. \A p \in Thread : frames[p] = <<>> /\ DOMAIN frames[p] = {}
    BY DEF Init
  <2>2. ASSUME NEW p \in Thread
        PROVE  Scopes(p) = <<>>
    BY <2>1 DEF Scopes
  <2>3. [p \in Thread |-> Scopes(p)] = [p \in Thread |-> <<>>] /\ durable = {}
    BY <2>2 DEF Init, DbInit
  <2> QED
    BY <2>3 DEF Abstract!Init, Scopes, Part
<1>2. Inv /\ Inv' /\ [Next]_vars => [Abstract!Next]_(Abstract!vars)
  BY StepMaps, ScopesMappedNext DEF Inv
<1>3. Spec => []Inv
  BY ScopesHold DEF Inv
<1> QED
  BY <1>1, <1>2, <1>3, PTL DEF Spec, Implements, Abstract!Spec
=============================================================================
