------------------------------ MODULE Preload -------------------------------
(***************************************************************************)
(* Preload (preload.go, reflectx/preload.go, reflectx/walker.go): calls on *)
(* the same instances, one query per path of their handlers, level after   *)
(* level, while others archive rows.  The instances are a heap of objects, *)
(* which know the row they were read from and what their associations hold *)
(* now; the same object is in several places when a pointer to it is.      *)
(***************************************************************************)
EXTENDS Models, SequencesExt

CONSTANTS Row,       \* rows of the database
          Of,        \* the model of a row
          Value,     \* Value[r][c]: its columns that are keys, 0 where there is none
          Roots,     \* sequences of rows of one model, read into the slice to preload
          Asks,      \* the handlers of a call: sequences of a path, unscoped or not,
                     \* and the rows that the conditions of the callback keep
          MaxCalls   \* bound on the calls

VARIABLES heap,      \* objects: the row, and the objects of each association
          roots,     \* the first objects of the heap are the ones to preload
          asked,     \* the handlers of the last call
          todo,      \* the operations that it has yet to run
          status,    \* ready, running, ok or error
          calls,     \* calls so far
          archived,  \* rows with a deleted key
          cut        \* history: operations of the last call whose result broke off
vars == <<heap, roots, asked, todo, status, calls, archived, cut>>

Links(r) == DOMAIN Alone[Of[r]].associations
Ref(r, n) == Alone[Of[r]].associations[n]
New(r) == [row |-> r, links |-> [n \in Links(r) |-> <<>>]]

ASSUME RowsAssumption ==
    /\ IsFiniteSet(Row)
    /\ \A r \in Row : \A n \in Links(r) : Ref(r, n).name = n
ASSUME RootsAssumption ==
    Roots \subseteq {q \in Seq(Row) \ {<<>>} : \A i \in DOMAIN q : Of[q[i]] = Of[q[1]]}
ASSUME AsksAssumption ==
    Asks \subseteq Seq([path: Seq(STRING) \ {<<>>}, unscoped: BOOLEAN, keep: SUBSET Row])
ASSUME MaxCallsAssumption == MaxCalls \in Nat

Init ==
    /\ \E q \in Roots : heap = [i \in DOMAIN q |-> New(q[i])] /\ roots = Len(q)
    /\ asked = <<>> /\ todo = {} /\ status = "ready" /\ calls = 0 /\ archived = {}
    /\ cut = {}

------------------------------------------------------------------------------
\* getPreloadGroupOperations.

Parents(path) == {SubSeq(path, 1, i) : i \in 1..Len(path)}

\* Mutant: every handler of a path is run.
Operations_NoMap(ask) ==
    {ask[i] : i \in DOMAIN ask} \cup
    {[path |-> p, unscoped |-> FALSE, keep |-> Row] :
     p \in UNION {Parents(ask[i].path) : i \in DOMAIN ask}}

\* One operation per path, the last handler of that path or, for a level above
\* others that has none, one without conditions.
Operations(ask) ==
    LET of(p) == {i \in DOMAIN ask : ask[i].path = p}
    IN  {IF of(p) = {} THEN [path |-> p, unscoped |-> FALSE, keep |-> Row]
         ELSE ask[CHOOSE i \in of(p) : \A j \in of(p) : j <= i] :
         p \in UNION {Parents(ask[i].path) : i \in DOMAIN ask}}

\* Mutant: the levels share one map.
Level_Any(ops) == ops

\* The operations of the first level that has some left, in the order of a Go map.
Level(ops) == {op \in ops : \A other \in ops : Len(op.path) <= Len(other.path)}

------------------------------------------------------------------------------
\* The walker: the instances of a path, as often as they are reached.  A struct
\* held by value is reached as a copy, which receives what it is given in vain.  A name
\* that is no association ended the call at its own level, if there was an instance.

Down(h, owners, n) ==
    FlattenSeq([i \in DOMAIN owners |->
        LET o == h[owners[i].obj]
        IN  IF n \notin Links(o.row) THEN <<>>
            ELSE [k \in DOMAIN o.links[n] |->
                     [obj |-> o.links[n][k], copy |-> Ref(o.row, n).shape = "T"]]])

First(k) == [i \in 1..k |-> [obj |-> i, copy |-> FALSE]]

Walk(h, k, path) == FoldLeft(LAMBDA owners, n : Down(h, owners, n), First(k), path)

Owners(h, op) == Walk(h, roots, Front(op.path))

------------------------------------------------------------------------------
\* The keys that an association compares, here and at the other end.

Here(a, r) == Value[r][IF a.isLocal THEN a.fk.column ELSE a.pk.column]
There(a, x) == Value[x][IF a.isLocal THEN a.pk.column ELSE a.fk.column]

\* Mutant: UpdateValueOnIndex gives a row to every indexed element.
Fits_Any(a, r, x) == Of[x] = a.remote.model

Fits(a, r, x) == Of[x] = a.remote.model /\ Here(a, r) = There(a, x)

\* What the query of an operation returns for one owner.
Wanted(a, r, op) == {x \in op.keep : /\ Of[x] = a.remote.model
                                     /\ Here(a, r) # 0 /\ Here(a, r) = There(a, x)
                                     /\ op.unscoped \/ x \notin archived}

\* PushFieldValue: one is replaced, many are appended to.
Link(h, a, o, x) ==
    [h EXCEPT ![o].links[a.name] = IF IsMany(a) THEN Append(@, x) ELSE <<x>>]

\* UpdateValueOnIndex: a row goes to the owners with its key.  A pointer is one object
\* for all of them, a struct a copy for each.
Shared(a) == a.shape \in {"*T", "[]*T", "*[]*T"}
Takes(h, a, w, x) == ~w.copy /\ Fits(a, h[w.obj].row, x)

Give(h, a, w, x) ==
    LET g == IF Shared(a) THEN h ELSE Append(h, New(x))
    IN  IF Takes(h, a, w, x) THEN Link(g, a, w.obj, Len(g)) ELSE h

Attach(h, a, owners, x) ==
    FoldLeft(LAMBDA g, w : Give(g, a, w, x),
             IF Shared(a) /\ (\E w \in ToSet(owners) : Takes(h, a, w, x))
             THEN Append(h, New(x)) ELSE h,
             owners)

AttachAll(h, a, owners, found) == FoldLeft(LAMBDA g, x : Attach(g, a, owners, x), h, found)

------------------------------------------------------------------------------
Start(ask) ==
    /\ status # "running"
    /\ calls < MaxCalls
    /\ asked' = ask
    /\ todo' = Operations(ask)
    /\ status' = "running"
    /\ calls' = calls + 1
    /\ cut' = {}
    /\ UNCHANGED <<heap, roots, archived>>

\* Mutant: the rest of the operations stay for the next call.
Fail_KeepsTodo == status' = "error" /\ UNCHANGED <<heap, roots, asked, todo, calls, archived, cut>>

Fail ==
    /\ status' = "error"
    /\ todo' = {}
    /\ UNCHANGED <<heap, roots, asked, calls, archived, cut>>

Done(op) == todo' = todo \ {op} /\ UNCHANGED <<roots, asked, status, calls, archived>>

\* The keys of the association fit, and no owner lacks one that is required: the own key
\* of an instance that was never stored is missing too.
Usable(a, rows) ==
    /\ Preloadable(a)
    /\ (a.isLocal => a.fk.type \in PKTypes) => \A r \in rows : Here(a, r) # 0

\* Nothing is asked of the database when no owner has a key; else the query may fail.
\* The rows come in any order, and no error tells when the result breaks off before the
\* last one (helpers.go:155): what was read until then is attached.
Fetch(op, a, owners, rows) ==
    \/ ~Usable(a, rows) /\ Fail
    \/ Usable(a, rows) /\ (\E r \in rows : Here(a, r) # 0) /\ Fail
    \/ /\ Usable(a, rows)
       /\ LET wanted == UNION {Wanted(a, r, op) : r \in rows}
          IN  \E read \in SUBSET wanted :
                  /\ \E found \in SetToSeqs(read) : heap' = AttachAll(heap, a, owners, found)
                  /\ cut' = IF read = wanted THEN cut ELSE cut \cup {op}
       /\ Done(op)

\* One operation, for the instances that the walker finds.
Run(op, owners) ==
    /\ status = "running"
    /\ op \in Level(todo)
    /\ \/ owners = <<>> /\ Done(op) /\ UNCHANGED <<heap, cut>>
       \/ /\ owners # <<>>
          /\ LET r == heap[owners[1].obj].row
                 n == Last(op.path)
             IN  \/ n \notin Links(r) /\ Fail
                 \/ /\ n \in Links(r)
                    /\ Fetch(op, Ref(r, n), owners, {heap[w.obj].row : w \in ToSet(owners)})

Return ==
    /\ status = "running" /\ todo = {}
    /\ status' = "ok"
    /\ UNCHANGED <<heap, roots, asked, todo, calls, archived, cut>>

\* Another caller archives a row of a model with a deleted key.
Archive(r) ==
    /\ Alone[Of[r]].deleted # None
    /\ r \notin archived
    /\ archived' = archived \cup {r}
    /\ UNCHANGED <<heap, roots, asked, todo, status, calls, cut>>

Next ==
    \/ \E ask \in Asks : Start(ask)
    \/ \E op \in todo : Run(op, Owners(heap, op))
    \/ Return
    \/ \E r \in Row : Archive(r)

Spec == Init /\ [][Next]_vars

------------------------------------------------------------------------------
\* Links lead to objects, and a call that is over has nothing left to do.
TypeOK ==
    /\ \A i \in DOMAIN heap :
           /\ heap[i].row \in Row
           /\ DOMAIN heap[i].links = Links(heap[i].row)
           /\ \A n \in Links(heap[i].row) : ToSet(heap[i].links[n]) \subseteq DOMAIN heap
    /\ roots \in 1..Len(heap)
    /\ calls \in 0..MaxCalls /\ archived \subseteq Row
    /\ cut \subseteq Operations(asked) \ todo
    /\ status \in {"ready", "running", "ok", "error"}
    /\ status # "running" => todo = {}

\* What an association holds belongs to the instance that holds it, by the keys of
\* their rows, through calls that succeed and calls that fail half way
\* (reflectx/preload.go:89).
RightOwner ==
    \A i \in DOMAIN heap : \A n \in Links(heap[i].row) :
        LET a == Ref(heap[i].row, n)
        IN  \A x \in ToSet(heap[i].links[n]) :
                /\ Of[heap[x].row] = a.remote.model
                /\ Here(a, heap[i].row) = There(a, heap[x].row)

\* The rows that an instance holds, and all that it could be given.
Held(h, i, n) == {h[x].row : x \in ToSet(h[i].links[n])}
Given(h, i, a, op) ==
    IF IsMany(a) THEN Wanted(a, h[i].row, op) \subseteq Held(h, i, a.name)
    ELSE Wanted(a, h[i].row, op) # {} => h[i].links[a.name] # <<>>

Holds(w, op) == Given(heap, w.obj, Ref(heap[w.obj].row, Last(op.path)), op)

\* After a call without an error, every instance of every path whose own result did not
\* break off holds the rows that the last handler of the path asks for and that nobody
\* archived meanwhile, and so does a level that was only named above another one
\* (preload.go:184), except the instances that a model holds by value.  A result that
\* breaks off on one path takes nothing from another; its own instances may miss rows,
\* against README.md:713.
NothingLost ==
    status = "ok" => \A op \in Operations(asked) \ cut :
        \A w \in ToSet(Owners(heap, op)) : w.copy \/ Holds(w, op)

\* A first call appends a row once to an instance, unless the walker reaches that
\* instance several times through a shared pointer (reflectx/walker.go:156).
OnceUnlessShared ==
    calls = 1 /\ status = "ok" => \A op \in Operations(asked) :
        LET owners == Owners(heap, op)
            n      == Last(op.path)
        IN  \A i \in DOMAIN owners :
                \/ \E j \in DOMAIN owners : j # i /\ owners[j].obj = owners[i].obj
                \/ Cardinality(Held(heap, owners[i].obj, n)) = Len(heap[owners[i].obj].links[n])
=============================================================================
