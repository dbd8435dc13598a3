-------------------------------- MODULE Rows --------------------------------
(***************************************************************************)
(* helpers.go on the row wrappers of client.go: goroutines that call Exec, *)
(* RawExec or RawExecArgs with a destination.  A call opens a sql.Rows,    *)
(* which holds a connection of the pool, reads it into a slice or into one *)
(* value, and returns.  A result set may end early: the connection breaks, *)
(* the server reports an error after some rows, the context is cancelled.  *)
(***************************************************************************)
EXTENDS Naturals, FiniteSets

CONSTANTS Caller,    \* goroutines
          MaxOpen,   \* sql.DB.SetMaxOpenConns
          MaxRows    \* bound: rows in a result set

ASSUME CallerAssumption == IsFiniteSet(Caller)
ASSUME MaxOpenAssumption == MaxOpen \in Nat \ {0}
ASSUME MaxRowsAssumption == MaxRows \in Nat

VARIABLES pc,        \* where each call is
          call,      \* what it was given, see Call
          rows,      \* its sql.Rows: open, rows left to read, Err
          dest,      \* how many rows of this result set the destination has got
          result,    \* what the last call returned
          leaked     \* open sql.Rows that no call refers to any more

vars == <<pc, call, rows, dest, result, leaked>>

\* form    dest is a slice, or a single value
\* scalar  its elements are scannable, not models or structs
\* fits    every column has a field (models, structs), or there is one (scalars)
\* total   rows in the result set
Calls == [form: {"list", "one"}, scalar: BOOLEAN, fits: BOOLEAN, total: 0..MaxRows]
NoCall == [form |-> "list", scalar |-> FALSE, fits |-> TRUE, total |-> 0]
SqlRows == [open: BOOLEAN, left: 0..MaxRows, err: BOOLEAN]
NoRows == [open |-> FALSE, left |-> 0, err |-> FALSE]

TypeOK == /\ pc \in [Caller -> {"idle", "query", "check", "next", "scan"}]
          /\ call \in [Caller -> Calls]
          /\ rows \in [Caller -> SqlRows]
          /\ dest \in [Caller -> 0..MaxRows]
          /\ result \in [Caller -> {"none", "nil", "error", "noRows"}]
          /\ leaked \in 0..MaxOpen

Init == /\ pc = [c \in Caller |-> "idle"]
        /\ call = [c \in Caller |-> NoCall]
        /\ rows = [c \in Caller |-> NoRows]
        /\ dest = [c \in Caller |-> 0]
        /\ result = [c \in Caller |-> "none"]
        /\ leaked = 0

------------------------------------------------------------------------------
InUse == Cardinality({c \in Caller : rows[c].open}) + leaked

Goto(c, step) == pc' = [pc EXCEPT ![c] = step]

\* Models and structs in a slice look at the columns after each Next (ScanRows),
\* everything else looks at them once, before the first Next.
ChecksEachRow(c) == call[c].form = "list" /\ ~call[c].scalar

Reads(c, step) == pc[c] = step /\ UNCHANGED <<call, leaked>>

\* Mutant: the deferred close is dropped.
Return_NoDefer(c, res) ==
    /\ Goto(c, "idle")
    /\ result' = [result EXCEPT ![c] = res]
    /\ UNCHANGED rows

\* The call returns.  Lists defer close; rowWrapper.scan, which covers Next and
\* Scan, defers rows.Close; nothing before it does.
Return(c, res) ==
    /\ Goto(c, "idle")
    /\ result' = [result EXCEPT ![c] = res]
    /\ rows' = IF call[c].form = "list" \/ pc[c] \in {"next", "scan"}
               THEN [rows EXCEPT ![c].open = FALSE] ELSE rows

\* Whatever the last call of c left open, nobody can close any more.
Call(c, k) ==
    /\ pc[c] = "idle"
    /\ call' = [call EXCEPT ![c] = k]
    /\ rows' = [rows EXCEPT ![c] = NoRows]
    /\ leaked' = IF rows[c].open THEN leaked + 1 ELSE leaked
    /\ dest' = [dest EXCEPT ![c] = 0]
    /\ result' = [result EXCEPT ![c] = "none"]
    /\ Goto(c, "query")

\* driver.Query or driver.QueryRow waits for a connection, and may fail.
Query(c, ok) ==
    /\ Reads(c, "query")
    /\ \/ /\ ok /\ InUse < MaxOpen
          /\ rows' = [rows EXCEPT ![c] = [open |-> TRUE, left |-> call[c].total, err |-> FALSE]]
          /\ Goto(c, IF ChecksEachRow(c) THEN "next" ELSE "check")
          /\ UNCHANGED result
       \/ ~ok /\ Return(c, "error")
    /\ UNCHANGED dest

\* Columns returns an error on closed rows; then getValues looks up the columns,
\* or their number is tested.
Check(c) ==
    /\ Reads(c, "check")
    /\ \/ /\ rows[c].open /\ call[c].fits
          /\ Goto(c, IF ChecksEachRow(c) THEN "scan" ELSE "next")
          /\ UNCHANGED <<rows, result>>
       \/ /\ ~(rows[c].open /\ call[c].fits)
          /\ Return(c, "error")
    /\ UNCHANGED dest

\* Mutant: the cursor does not move.
NextTrue_Again(c) ==
    /\ Reads(c, "next")
    /\ rows[c].open /\ rows[c].left > 0
    /\ Goto(c, IF ChecksEachRow(c) THEN "check" ELSE "scan")
    /\ UNCHANGED <<rows, dest, result>>

\* There is a row.
NextTrue(c) ==
    /\ Reads(c, "next")
    /\ rows[c].open /\ rows[c].left > 0
    /\ rows' = [rows EXCEPT ![c].left = @ - 1]
    /\ Goto(c, IF ChecksEachRow(c) THEN "check" ELSE "scan")
    /\ UNCHANGED <<dest, result>>

\* Mutant: scan does not look at Err either.
EndOfRows_NoErr(c) == IF call[c].form = "list" THEN "nil" ELSE "noRows"

\* There is none: the loops over a list end and never look at Err, scan does.
EndOfRows(c) == IF call[c].form = "list" THEN "nil"
                ELSE IF rows[c].err THEN "error" ELSE "noRows"
NextFalse(c) ==
    /\ Reads(c, "next")
    /\ ~(rows[c].open /\ rows[c].left > 0)
    /\ Return(c, EndOfRows(c))
    /\ UNCHANGED dest

\* rows.Scan, then the value is appended, or scan ends with rows.Close().
Scan(c, ok) ==
    /\ Reads(c, "scan")
    /\ \/ /\ ok /\ rows[c].open
          /\ dest' = [dest EXCEPT ![c] = @ + 1]
          /\ IF call[c].form = "list"
             THEN Goto(c, "next") /\ UNCHANGED <<rows, result>>
             ELSE Return(c, "nil")
       \/ ~ok /\ Return(c, "error") /\ UNCHANGED dest

\* The result set of a call in progress ends before its last row.
Break(c) ==
    /\ pc[c] # "idle" /\ rows[c].open
    /\ rows' = [rows EXCEPT ![c] = [@ EXCEPT !.open = FALSE, !.err = TRUE]]
    /\ UNCHANGED <<pc, call, dest, result, leaked>>

\* The context of a call that returned is cancelled: database/sql closes the rows.
ContextDone(c) ==
    /\ pc[c] = "idle" /\ rows[c].open
    /\ rows' = [rows EXCEPT ![c].open = FALSE]
    /\ UNCHANGED <<pc, call, dest, result, leaked>>

LeakedContextDone == /\ leaked > 0
                     /\ leaked' = leaked - 1
                     /\ UNCHANGED <<pc, call, rows, dest, result>>

Step(c) == \/ \E ok \in BOOLEAN : Query(c, ok) \/ Scan(c, ok)
           \/ Check(c) \/ NextTrue(c) \/ NextFalse(c)

Next == \/ \E c \in Caller : (\E k \in Calls : Call(c, k)) \/ Step(c) \/ Break(c) \/ ContextDone(c)
        \/ LeakedContextDone

Spec == Init /\ [][Next]_vars

------------------------------------------------------------------------------
\* The pool is never overdrawn, and a call that is over holds no connection, with
\* one exception: a call for a single value whose columns do not fit returns
\* before Scan, and only Scan would close its rows.
ReleasedAtReturn ==
    /\ InUse <= MaxOpen
    /\ \A c \in Caller : pc[c] = "idle" /\ rows[c].open =>
           call[c].form = "one" /\ ~call[c].fits /\ result[c] = "error"

\* ErrNoRows, which Count and Save take for an answer, is never the result of a
\* result set that broke: when it is returned there was no row.
NoRowsMeansNone == \A c \in Caller : result[c] = "noRows" => call[c].total = 0

\* "Err should be consulted to distinguish between the two cases" (makroud.go:141):
\* a list call that returns nil has read the whole result set.
NilIsComplete == \A c \in Caller : result[c] = "nil" /\ call[c].form = "list"
                                       => dest[c] = call[c].total
=============================================================================
