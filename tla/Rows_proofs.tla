----------------------------- MODULE Rows_proofs -----------------------------
(***************************************************************************)
(* For any number of goroutines, connections and rows: calls overdraw no   *)
(* pool, release what they opened but for one case, and never take a       *)
(* result set that broke for an empty one.                                 *)
(***************************************************************************)
EXTENDS Rows, FiniteSetTheorems, TLAPS

\* The rows that calls refer to.
Opened == {c \in Caller : rows[c].open}

\* Opened is finite, so that InUse is a number.
LEMMA OpenedFinite == IsFiniteSet(Opened) /\ Cardinality(Opened) \in Nat
  BY CallerAssumption, FS_Subset, FS_CardinalityType DEF Opened

\* Opening one more sql.Rows adds one connection, closing one takes one away, and
\* a step that closes rows or leaves them alone never adds any.
LEMMA OpenedChange ==
    ASSUME NEW c \in Caller, \A d \in Caller \ {c} : rows'[d].open = rows[d].open
    PROVE  /\ rows[c].open' /\ ~rows[c].open => Cardinality(Opened') = Cardinality(Opened) + 1
           /\ ~rows[c].open' /\ rows[c].open => Cardinality(Opened') = Cardinality(Opened) - 1
           /\ (rows[c].open' <=> rows[c].open) => Opened' = Opened
<1>1. CASE rows[c].open' /\ ~rows[c].open
  <2>1. Opened' = Opened \cup {c} /\ c \notin Opened
    BY <1>1 DEF Opened
  <2> QED
    BY <1>1, <2>1, OpenedFinite, FS_AddElement
<1>2. CASE ~rows[c].open' /\ rows[c].open
  <2>1. Opened' = Opened \ {c} /\ c \in Opened
    BY <1>2 DEF Opened
  <2> QED
    BY <1>2, <2>1, OpenedFinite, FS_RemoveElement
<1>3. CASE rows[c].open' <=> rows[c].open
  BY <1>3 DEF Opened
<1> QED
  BY <1>1, <1>2, <1>3

\* What each call knows of itself: NoRowsMeansNone and the second half of
\* ReleasedAtReturn for one caller, and why they hold.  A query that waits for the
\* pool has no rows yet; rows that are closed under a call in progress carry an
\* error; scan is the first to move the cursor of a single value; the rows scanned,
\* the row at hand and the rows left are no more than there were.
InOrder(c) ==
    /\ pc[c] = "query" => ~rows[c].open /\ dest[c] = 0
    /\ pc[c] \in {"check", "next", "scan"} => rows[c].open \/ rows[c].err
    /\ pc[c] \in {"check", "next"} => dest[c] + rows[c].left <= call[c].total
    /\ pc[c] \in {"check", "next"} /\ call[c].form = "one" => rows[c].left = call[c].total
    /\ pc[c] = "scan" \/ (pc[c] = "check" /\ ChecksEachRow(c))
           => dest[c] + rows[c].left < call[c].total
    /\ pc[c] # "idle" => result[c] = "none"
    /\ pc[c] = "idle" /\ rows[c].open =>
           call[c].form = "one" /\ ~call[c].fits /\ result[c] = "error"
    /\ result[c] = "noRows" => call[c].total = 0

\* The inductive invariant, in two parts: calls in order, and the number of
\* connections that all of them use.
Local == TypeOK /\ \A c \in Caller : InOrder(c)
IInv == Local /\ InUse <= MaxOpen

\* TypeOK, one call at a time.
LEMMA Typed ==
    ASSUME TypeOK, NEW c \in Caller
    PROVE  /\ pc[c] \in {"idle", "query", "check", "next", "scan"}
           /\ call[c] \in Calls /\ call[c].total \in 0..MaxRows
           /\ rows[c] \in SqlRows /\ rows[c].left \in 0..MaxRows /\ rows[c].open \in BOOLEAN
           /\ dest[c] \in 0..MaxRows
  BY DEF TypeOK, Calls, SqlRows

\* What Return does: the call is over, its rows are closed or as they were.
LEMMA ReturnEffect ==
    ASSUME TypeOK, NEW c \in Caller, NEW res \in {"nil", "error", "noRows"}, Return(c, res)
    PROVE  /\ pc' \in [Caller -> {"idle", "query", "check", "next", "scan"}] /\ pc'[c] = "idle"
           /\ result' \in [Caller -> {"none", "nil", "error", "noRows"}] /\ result'[c] = res
           /\ rows' \in [Caller -> SqlRows]
           /\ rows'[c].open => rows[c].open /\ call[c].form # "list" /\ pc[c] \notin {"next", "scan"}
           /\ \A d \in Caller \ {c} :
                  rows'[d] = rows[d] /\ pc'[d] = pc[d] /\ result'[d] = result[d]
<1>1. /\ rows' \in [Caller -> SqlRows]
      /\ \A d \in Caller \ {c} : rows'[d] = rows[d]
      /\ rows'[c].open => rows[c].open /\ call[c].form # "list" /\ pc[c] \notin {"next", "scan"}
  <2>1. CASE call[c].form = "list" \/ pc[c] \in {"next", "scan"}
    BY <2>1 DEF Return, TypeOK, SqlRows
  <2>2. CASE ~(call[c].form = "list" \/ pc[c] \in {"next", "scan"})
    BY <2>2 DEF Return, TypeOK, SqlRows
  <2> QED
    BY <2>1, <2>2
<1> QED
  BY <1>1 DEF Return, Goto, TypeOK

\* The number of connections in use grows by one in a Query, which looks at it
\* first, and in no other step.
LEMMA PoolStep ==
    ASSUME IInv, [Next]_vars
    PROVE  leaked' \in 0..MaxOpen /\ InUse' <= MaxOpen
<1> USE MaxOpenAssumption DEF IInv, Local, TypeOK
<1>0. /\ Cardinality(Opened) \in Nat /\ Cardinality(Opened') \in Nat
      /\ InUse = Cardinality(Opened) + leaked /\ InUse' = Cardinality(Opened') + leaked'
  <2>1. IsFiniteSet(Opened')
    BY CallerAssumption, FS_Subset DEF Opened
  <2> QED
    BY <2>1, OpenedFinite, FS_CardinalityType DEF InUse, Opened
\* Enough to show that rows move from a call to leaked, or are closed, or opened with room.
<1>1. ASSUME NEW c \in Caller, \A d \in Caller \ {c} : rows'[d].open = rows[d].open,
             \/ (rows'[c].open <=> rows[c].open) /\ leaked' = leaked
             \/ ~rows'[c].open /\ leaked' = leaked
             \/ ~rows'[c].open /\ leaked' = IF rows[c].open THEN leaked + 1 ELSE leaked
             \/ rows'[c].open /\ ~rows[c].open /\ leaked' = leaked /\ InUse < MaxOpen
      PROVE  leaked' \in 0..MaxOpen /\ InUse' <= MaxOpen
  <2> rows[c].open \in BOOLEAN
    BY DEF SqlRows
  <2>1. CASE rows'[c].open <=> rows[c].open
    <3>1. Opened' = Opened
      BY <1>1, <2>1, OpenedChange
    <3> QED
      BY <1>0, <1>1, <2>1, <3>1
  <2>2. CASE ~rows'[c].open /\ rows[c].open
    <3>1. Cardinality(Opened') = Cardinality(Opened) - 1
      BY <1>1, <2>2, OpenedChange
    <3> QED
      BY <1>0, <1>1, <2>2, <3>1
  <2>3. CASE rows'[c].open /\ ~rows[c].open
    <3>1. Cardinality(Opened') = Cardinality(Opened) + 1
      BY <1>1, <2>3, OpenedChange
    <3> QED
      BY <1>0, <1>1, <2>3, <3>1
  <2> QED
    BY <1>1, <2>1, <2>2, <2>3
<1>2. ASSUME NEW c \in Caller, NEW k \in Calls, Call(c, k)
      PROVE  leaked' \in 0..MaxOpen /\ InUse' <= MaxOpen
  BY <1>1, <1>2 DEF Call, NoRows, SqlRows
<1>3. ASSUME NEW c \in Caller, Step(c)
      PROVE  leaked' \in 0..MaxOpen /\ InUse' <= MaxOpen
  <2>1. ASSUME NEW ok \in BOOLEAN, Query(c, ok)
        PROVE  leaked' \in 0..MaxOpen /\ InUse' <= MaxOpen
    BY <1>1, <2>1 DEF Query, Reads, Return, SqlRows, InOrder
  <2>2. ASSUME NEW ok \in BOOLEAN, Scan(c, ok)
        PROVE  leaked' \in 0..MaxOpen /\ InUse' <= MaxOpen
    BY <1>1, <2>2 DEF Scan, Reads, Return, SqlRows
  <2>3. CASE Check(c)
    BY <1>1, <2>3 DEF Check, Reads, Return, SqlRows
  <2>4. CASE NextTrue(c)
    BY <1>1, <2>4 DEF NextTrue, Reads, SqlRows
  <2>5. CASE NextFalse(c)
    <3>1. rows' = [rows EXCEPT ![c].open = FALSE] /\ leaked' = leaked
      BY <2>5 DEF NextFalse, Reads, Return
    <3>2. ~rows'[c].open /\ \A d \in Caller \ {c} : rows'[d].open = rows[d].open
      BY <3>1 DEF SqlRows
    <3> QED
      BY <1>1, <3>1, <3>2
  <2> QED
    BY <1>3, <2>1, <2>2, <2>3, <2>4, <2>5 DEF Step
<1>4. ASSUME NEW c \in Caller, Break(c) \/ ContextDone(c)
      PROVE  leaked' \in 0..MaxOpen /\ InUse' <= MaxOpen
  BY <1>1, <1>4 DEF Break, ContextDone, SqlRows
<1>5. ASSUME LeakedContextDone
      PROVE  leaked' \in 0..MaxOpen /\ InUse' <= MaxOpen
  <2>1. Opened' = Opened
    BY <1>5 DEF LeakedContextDone, Opened
  <2> QED
    BY <1>0, <1>5, <2>1 DEF LeakedContextDone
<1>6. CASE UNCHANGED vars
  <2>1. Opened' = Opened
    BY <1>6 DEF vars, Opened
  <2> QED
    BY <1>0, <1>6, <2>1 DEF vars
<1> QED
  BY <1>2, <1>3, <1>4, <1>5, <1>6 DEF Next

\* A step of one caller is checked for that caller only.
SameElsewhere(c) ==
    \A d \in Caller \ {c} : /\ pc'[d] = pc[d] /\ call'[d] = call[d] /\ rows'[d] = rows[d]
                            /\ dest'[d] = dest[d] /\ result'[d] = result[d]
LEMMA OnlyOne ==
    ASSUME Local, NEW c \in Caller, TypeOK', SameElsewhere(c), InOrder(c)'
    PROVE  Local'
  BY DEF Local, SameElsewhere, InOrder, ChecksEachRow

\* A call that is typed and in order stays so, whatever step is taken.
LEMMA LocalStep ==
    ASSUME Local, [Next]_vars, leaked' \in 0..MaxOpen
    PROVE  Local'
<1> USE MaxRowsAssumption
<1>1. ASSUME NEW c \in Caller, NEW k \in Calls, Call(c, k)
      PROVE  Local'
  <2>1. TypeOK' /\ SameElsewhere(c)
    BY <1>1 DEF Call, Goto, NoRows, SqlRows, SameElsewhere, Local, TypeOK
  <2>2. InOrder(c)'
    BY <1>1 DEF Call, Goto, NoRows, InOrder, Local, TypeOK, ChecksEachRow
  <2> QED
    BY <2>1, <2>2, OnlyOne
\* The steps that end a call: what remains is the destination and what it returns.
<1>2. ASSUME NEW c \in Caller, NEW res \in {"nil", "error", "noRows"}, Return(c, res),
             UNCHANGED <<call, leaked>>, dest' \in [Caller -> 0..MaxRows],
             \A d \in Caller \ {c} : dest'[d] = dest[d],
             pc[c] \in {"query", "check", "next", "scan"},
             pc[c] = "check" => ~(rows[c].open /\ call[c].fits) /\ res = "error",
             res = "noRows" => call[c].total = 0
      PROVE  Local'
  <2>1. TypeOK' /\ SameElsewhere(c)
    BY <1>2, ReturnEffect DEF SameElsewhere, Local, TypeOK
  <2>2. InOrder(c)'
    BY <1>2, ReturnEffect DEF InOrder, Local, TypeOK, Calls, ChecksEachRow
  <2> QED
    BY <2>1, <2>2, OnlyOne
<1>3. ASSUME NEW c \in Caller, NEW ok \in BOOLEAN, Query(c, ok)
      PROVE  Local'
  <2>1. CASE ~ok
    BY <1>2, <1>3, <2>1 DEF Query, Reads, Local, TypeOK
  <2>2. CASE ok
    <3>1. TypeOK' /\ SameElsewhere(c)
      <4>1. rows' \in [Caller -> SqlRows]
        <5>1. rows' = [rows EXCEPT ![c] = [open |-> TRUE, left |-> call[c].total, err |-> FALSE]]
          BY <1>3, <2>2 DEF Query
        <5>2. [open |-> TRUE, left |-> call[c].total, err |-> FALSE] \in SqlRows
          BY Typed DEF Local, SqlRows
        <5> QED
          BY <5>1, <5>2 DEF Local, TypeOK
      <4> QED
        BY <1>3, <2>2, <4>1 DEF Query, Reads, Goto, SameElsewhere, Local, TypeOK
    <3>2. InOrder(c)'
      BY <1>3, <2>2 DEF Query, Reads, Goto, ChecksEachRow, InOrder, Calls, Local, TypeOK
    <3> QED
      BY <3>1, <3>2, OnlyOne
  <2> QED
    BY <2>1, <2>2
<1>4. ASSUME NEW c \in Caller, Check(c)
      PROVE  Local'
  <2>1. CASE rows[c].open /\ call[c].fits
    <3>1. TypeOK' /\ SameElsewhere(c)
      BY <1>4, <2>1 DEF Check, Reads, Goto, SameElsewhere, Local, TypeOK
    <3>2. InOrder(c)'
      BY <1>4, <2>1 DEF Check, Reads, Goto, ChecksEachRow, InOrder, Local, TypeOK
    <3> QED
      BY <3>1, <3>2, OnlyOne
  <2>2. CASE ~(rows[c].open /\ call[c].fits)
    BY <1>2, <1>4, <2>2 DEF Check, Reads, Local, TypeOK
  <2> QED
    BY <2>1, <2>2
<1>5. ASSUME NEW c \in Caller, NextTrue(c)
      PROVE  Local'
  <2>1. TypeOK' /\ SameElsewhere(c)
    BY <1>5 DEF NextTrue, Reads, Goto, SqlRows, Calls, SameElsewhere, Local, TypeOK
  <2>2. InOrder(c)'
    BY <1>5 DEF NextTrue, Reads, Goto, SqlRows, Calls, InOrder, Local, TypeOK, ChecksEachRow
  <2> QED
    BY <2>1, <2>2, OnlyOne
<1>6. ASSUME NEW c \in Caller, NextFalse(c)
      PROVE  Local'
  <2>1. /\ EndOfRows(c) \in {"nil", "error", "noRows"}
        /\ EndOfRows(c) = "noRows" => call[c].total = 0
    BY <1>6 DEF NextFalse, EndOfRows, Reads, Local, TypeOK, InOrder, Calls, SqlRows
  <2> QED
    BY <1>2, <1>6, <2>1 DEF NextFalse, Reads, Local, TypeOK
<1>7. ASSUME NEW c \in Caller, NEW ok \in BOOLEAN, Scan(c, ok)
      PROVE  Local'
  <2>1. CASE ok
    <3>1. /\ dest' \in [Caller -> 0..MaxRows]
          /\ dest'[c] = dest[c] + 1 /\ \A d \in Caller \ {c} : dest'[d] = dest[d]
      <4>1. dest[c] + 1 \in 0..MaxRows
        <5>1. dest[c] \in Nat /\ rows[c].left \in Nat /\ call[c].total \in 0..MaxRows
          BY Typed DEF Local
        <5>2. dest[c] + rows[c].left < call[c].total
          <6>1. pc[c] = "scan" /\ InOrder(c)
            BY <1>7 DEF Scan, Reads, Local
          <6> QED
            BY <6>1 DEF InOrder
        <5> QED
          BY <5>1, <5>2
      <4> QED
        BY <1>7, <2>1, <4>1 DEF Scan, Local, TypeOK
    <3>2. CASE call[c].form = "list"
      <4>1. TypeOK' /\ SameElsewhere(c)
        <5>1. /\ pc' = [pc EXCEPT ![c] = "next"]
              /\ UNCHANGED <<call, rows, result, leaked>>
          BY <1>7, <2>1, <3>2 DEF Scan, Reads, Goto
        <5>2. TypeOK'
          BY <3>1, <5>1 DEF Local, TypeOK
        <5> QED
          BY <3>1, <5>1, <5>2 DEF SameElsewhere, Local, TypeOK
      <4>2. InOrder(c)'
        <5>1. /\ pc[c] = "scan" /\ pc'[c] = "next"
              /\ UNCHANGED <<call, rows, result, leaked>>
          BY <1>7, <2>1, <3>2 DEF Scan, Reads, Goto, Local, TypeOK
        <5>2. InOrder(c)
          BY DEF Local
        <5> QED
          BY <3>1, <3>2, <5>1, <5>2, Typed DEF Local, InOrder
      <4> QED
        BY <4>1, <4>2, OnlyOne
    <3>3. CASE call[c].form # "list"
      BY <1>2, <1>7, <2>1, <3>1, <3>3 DEF Scan, Reads
    <3> QED
      BY <3>2, <3>3
  <2>2. CASE ~ok
    BY <1>2, <1>7, <2>2 DEF Scan, Reads, Local, TypeOK
  <2> QED
    BY <2>1, <2>2
<1>8. ASSUME NEW c \in Caller, Break(c)
      PROVE  Local'
  <2>1. TypeOK' /\ SameElsewhere(c)
    BY <1>8 DEF Break, SqlRows, Calls, SameElsewhere, Local, TypeOK
  <2>2. InOrder(c)'
    BY <1>8 DEF Break, SqlRows, Calls, InOrder, Local, TypeOK, ChecksEachRow
  <2> QED
    BY <2>1, <2>2, OnlyOne
<1>9. ASSUME NEW c \in Caller, ContextDone(c)
      PROVE  Local'
  <2>1. TypeOK' /\ SameElsewhere(c)
    BY <1>9 DEF ContextDone, SqlRows, Calls, SameElsewhere, Local, TypeOK
  <2>2. InOrder(c)'
    BY <1>9 DEF ContextDone, SqlRows, Calls, InOrder, Local, TypeOK, ChecksEachRow
  <2> QED
    BY <2>1, <2>2, OnlyOne
<1>10. CASE LeakedContextDone \/ UNCHANGED vars
  BY <1>10 DEF LeakedContextDone, vars, Local, TypeOK, InOrder, ChecksEachRow
<1> QED
  BY <1>1, <1>3, <1>4, <1>5, <1>6, <1>7, <1>8, <1>9, <1>10 DEF Next, Step

LEMMA Invariant == Spec => []IInv
<1>1. Init => IInv
  <2> SUFFICES ASSUME Init PROVE IInv
    OBVIOUS
  <2>1. Opened = {}
    BY DEF Init, Opened, NoRows
  <2>2. InUse = 0
    BY <2>1, FS_EmptySet DEF InUse, Opened, Init
  <2> QED
    BY <2>2, MaxOpenAssumption, MaxRowsAssumption
    DEF Init, IInv, Local, TypeOK, InOrder, ChecksEachRow, Calls, NoCall, SqlRows, NoRows
<1>2. IInv /\ [Next]_vars => IInv'
  BY PoolStep, LocalStep DEF IInv
<1> QED
  BY <1>1, <1>2, PTL DEF Spec

\* The calls, their rows, destinations and results stay well typed, and leaked rows
\* never outnumber the connections of the pool.
THEOREM TypeCorrect == Spec => []TypeOK
<1>1. IInv => TypeOK
  BY DEF IInv, Local
<1> QED
  BY <1>1, Invariant, PTL

\* The pool is never overdrawn, and a call that returned left its rows open only
\* if it was for a single value and the columns did not fit.
THEOREM Released == Spec => []ReleasedAtReturn
<1>1. IInv => ReleasedAtReturn
  BY DEF IInv, Local, InOrder, ReleasedAtReturn
<1> QED
  BY <1>1, Invariant, PTL

\* ErrNoRows, which Count turns into zero and Save into success, is returned for
\* empty result sets only, however and whenever connections break.
THEOREM BrokenIsNotEmpty == Spec => []NoRowsMeansNone
<1>1. IInv => NoRowsMeansNone
  BY DEF IInv, Local, InOrder, NoRowsMeansNone
<1> QED
  BY <1>1, Invariant, PTL
=============================================================================
