-------------------------------- MODULE Save --------------------------------
(***************************************************************************)
(* Save, Delete, Archive and Select (save.go, delete.go, select.go) on     *)
(* instances of one model, in a transaction or not: what the program holds *)
(* against what the table holds.  Besides its primary key the model has a  *)
(* plain column, one with a default and, or not, an updated and a deleted  *)
(* key.  A call that is refused before its statement changes nothing.      *)
(***************************************************************************)
EXTENDS Integers

CONSTANTS Instance,  \* what the program holds
          None,
          MaxId,     \* bound on the rows inserted
          MaxNow     \* bound on the time
ASSUME BoundsAssumption == MaxId \in Nat \ {0} /\ MaxNow \in Nat \ {0}
ASSUME NoneAssumption == None \notin Instance

VARIABLES hasUpdated, hasDeleted,  \* the keys of the model
          live, data,              \* the table: the rows it has, and what is in them
          next,                    \* the sequence of the primary key
          now,                     \* the time
          tx,                      \* what a rollback restores, or None
          inst,                    \* the instances
          last,                    \* what the last call of Save did
          made, unsure, gone       \* history: who inserted a row, whose insert ended with
                                   \* an error, rows that are deleted or rolled back
table == <<live, data, next, now, tx>>
history == <<made, unsure, gone>>
vars == <<hasUpdated, hasDeleted, table, inst, last, history>>

Id == 1..MaxId
Time == 0..MaxNow          \* 0 is no time
Plain == {1, 2}
Default == 9               \* the default of the database; 0 is the zero value
Columns == [val : Plain, def : {0, Default}, upd : Time, del : Time]
Held == [pk : 0..MaxId, val : Plain, def : {0, Default}, upd : Time, del : Time]
Zero == [pk |-> 0, val |-> 1, def |-> 0, upd |-> 0, del |-> 0]
Stored(x) == [val |-> x.val, def |-> x.def, upd |-> x.upd, del |-> x.del]
Nothing == [did |-> "nothing", by |-> None]

Init ==
    /\ hasUpdated \in BOOLEAN /\ hasDeleted \in BOOLEAN
    /\ live = {} /\ data = [d \in Id |-> Stored(Zero)]
    /\ next = 1 /\ now = 1 /\ tx = None
    /\ inst = [i \in Instance |-> Zero]
    /\ last = Nothing
    /\ made = [d \in Id |-> None] /\ unsure = {} /\ gone = {}

\* NOW() of the database is the start of the transaction.
Now == IF tx = None THEN now ELSE tx.at

Broken == IF tx = None THEN FALSE ELSE tx.broken

\* The time moves with what Save writes, which bounds the calls of Save.
Tick == now < MaxNow /\ now' = now + 1
Table(l, d) == live' = l /\ data' = d

------------------------------------------------------------------------------
\* generateSaveQuery: what an insert leaves to the database, what an update writes.

Inserted(x) ==
    [val |-> x.val, def |-> IF x.def = 0 THEN Default ELSE x.def,
     upd |-> IF hasUpdated /\ x.upd = 0 THEN Now ELSE x.upd, del |-> x.del]

\* Mutant: the updated key is written for a model that has none.
Updated_Always(x) == [Stored(x) EXCEPT !.upd = Now]

Updated(x) == IF hasUpdated THEN [Stored(x) EXCEPT !.upd = Now] ELSE Stored(x)

\* Mutant: the columns with a default are not returned.
Scanned_KeyOnly(x, d, row) == [x EXCEPT !.pk = d]

\* The instance after the columns of RETURNING are scanned into it: the primary key, and
\* what the database decided.
Scanned(x, d, row) == [pk |-> d, val |-> x.val, def |-> row.def, upd |-> row.upd, del |-> x.del]

\* A statement that ends with an error may have been executed, outside a transaction.
Insert(i) ==
    LET row == Inserted(inst[i]) IN
    /\ inst[i].pk = 0 /\ next \in Id /\ ~Broken /\ Tick
    /\ Table(live \cup {next}, [data EXCEPT ![next] = row])
    /\ next' = next + 1
    /\ made' = [made EXCEPT ![next] = i]
    /\ UNCHANGED <<hasUpdated, hasDeleted, tx, gone>>
    /\ \/ /\ inst' = [inst EXCEPT ![i] = Scanned(@, next, row)]
          /\ last' = [did |-> "insert", by |-> i]
          /\ UNCHANGED unsure
       \/ /\ tx = None
          /\ unsure' = unsure \cup {i}
          /\ last' = Nothing
          /\ UNCHANGED inst

\* The error of an update without a row is ignored when nothing is returned (save.go:51).
Update(i) ==
    LET d == inst[i].pk
        row == Updated(inst[i])
        found == d \in live
    IN  /\ d # 0 /\ ~Broken /\ Tick
        /\ Table(live, IF found THEN [data EXCEPT ![d] = row] ELSE data)
        /\ UNCHANGED <<hasUpdated, hasDeleted, next, tx, history>>
        /\ \/ /\ found \/ ~hasUpdated
              /\ inst' = [inst EXCEPT ![i] = Scanned(@, d, row)]
              /\ last' = [did |-> "update", by |-> i]
           \/ /\ tx = None \/ (~found /\ hasUpdated)
              /\ last' = Nothing
              /\ UNCHANGED inst

\* Mutant: the primary key is set before the statement is executed.
Untouched_SetsKey(x) == IF x.pk = 0 /\ next \in Id THEN [x EXCEPT !.pk = next] ELSE x

\* Mutant: after an error the instance is to be inserted again.
Untouched_NoKey(x) == [x EXCEPT !.pk = 0]

\* An instance after an error.
Untouched(x) == x

\* A statement fails, and with it the transaction.
Fail(i) ==
    /\ tx' = IF tx = None THEN None ELSE [tx EXCEPT !.broken = TRUE]
    /\ inst' = [inst EXCEPT ![i] = Untouched(@)]
    /\ last' = Nothing
    /\ UNCHANGED <<hasUpdated, hasDeleted, live, data, next, now, history>>

\* No row is no error.
Delete(i) ==
    /\ inst[i].pk # 0 /\ ~Broken
    /\ Table(live \ {inst[i].pk}, data)
    /\ gone' = gone \cup {inst[i].pk}
    /\ last' = Nothing
    /\ UNCHANGED <<hasUpdated, hasDeleted, next, now, tx, inst, made, unsure>>

\* The deleted key is not returned to the instance.
Archive(i) ==
    /\ hasDeleted /\ inst[i].pk # 0 /\ ~Broken
    /\ Table(live, IF inst[i].pk \in live THEN [data EXCEPT ![inst[i].pk].del = Now] ELSE data)
    /\ last' = Nothing
    /\ UNCHANGED <<hasUpdated, hasDeleted, next, now, tx, inst, history>>

\* A row that is not archived, by the conditions of the caller.
Select(i, d) ==
    /\ d \in live /\ ~Broken
    /\ ~hasDeleted \/ data[d].del = 0
    /\ inst' = [inst EXCEPT ![i] = [pk |-> d, val |-> data[d].val, def |-> data[d].def,
                                    upd |-> data[d].upd, del |-> data[d].del]]
    /\ last' = Nothing
    /\ UNCHANGED <<hasUpdated, hasDeleted, table, history>>

------------------------------------------------------------------------------
\* What the program does besides.

Edit(i, v) ==
    /\ inst' = [inst EXCEPT ![i].val = v]
    /\ last' = Nothing
    /\ UNCHANGED <<hasUpdated, hasDeleted, table, history>>

\* Another instance takes its place.
Forget(i) ==
    /\ inst' = [inst EXCEPT ![i] = Zero]
    /\ made' = [d \in Id |-> IF made[d] = i THEN None ELSE made[d]]
    /\ unsure' = unsure \ {i}
    /\ last' = Nothing
    /\ UNCHANGED <<hasUpdated, hasDeleted, table, gone>>

Begin ==
    /\ tx = None
    /\ tx' = [live |-> live, data |-> data, at |-> now, broken |-> FALSE]
    /\ last' = Nothing
    /\ UNCHANGED <<hasUpdated, hasDeleted, live, data, next, now, inst, history>>

\* A commit of a broken transaction is a rollback.
End(commit) ==
    /\ tx # None
    /\ tx' = None
    /\ IF commit /\ ~tx.broken
       THEN UNCHANGED <<live, data, gone>>
       ELSE Table(tx.live, tx.data) /\ gone' = gone \cup (live \ tx.live)
    /\ last' = Nothing
    /\ UNCHANGED <<hasUpdated, hasDeleted, next, now, inst, made, unsure>>

Next ==
    \/ \E i \in Instance :
           \/ Insert(i) \/ Update(i) \/ Fail(i) \/ Delete(i) \/ Archive(i) \/ Forget(i)
           \/ \E d \in Id : Select(i, d)
           \/ \E v \in Plain : Edit(i, v)
    \/ Begin
    \/ \E commit \in BOOLEAN : End(commit)

Spec == Init /\ [][Next]_vars

------------------------------------------------------------------------------
\* Nothing writes a column that the model does not have.
TypeOK ==
    /\ hasUpdated \in BOOLEAN /\ hasDeleted \in BOOLEAN
    /\ live \subseteq Id /\ data \in [Id -> Columns]
    /\ next \in 1..(MaxId + 1) /\ now \in Time
    /\ tx = None \/ tx \in [live : SUBSET Id, data : [Id -> Columns], at : Time, broken : BOOLEAN]
    /\ inst \in [Instance -> Held]
    /\ last.by \in Instance \cup {None} /\ last.did \in {"nothing", "insert", "update"}
    /\ made \in [Id -> Instance \cup {None}] /\ unsure \subseteq Instance /\ gone \subseteq Id
    /\ ~hasUpdated => /\ \A i \in Instance : inst[i].upd = 0
                      /\ \A d \in Id : data[d].upd = 0 /\ (tx = None \/ tx.data[d].upd = 0)

\* After Save returned nil, the instance and its row are equal, column by column, those
\* that the database decided included; of a model without an updated key, an update
\* without a row also returns nil (save.go:51).
NilMeansStored ==
    \/ last.did = "nothing"
    \/ last.did = "update" /\ ~hasUpdated /\ inst[last.by].pk \notin live
    \/ /\ inst[last.by].pk \in live
       /\ data[inst[last.by].pk] = Stored(inst[last.by])

\* However often an instance is saved, around errors and rollbacks, it is inserted once,
\* unless an insert ended with an error after it was executed (save.go:36).
OneRowPerInstance ==
    \A c, d \in Id : c # d /\ made[c] # None /\ made[c] = made[d] => made[c] \in unsure

\* The primary key that an instance holds is the one of a row, of a row that was deleted,
\* or of one whose transaction was rolled back after Save set it (save.go:112).
KeyExplained == \A i \in Instance : inst[i].pk = 0 \/ inst[i].pk \in live \cup gone
=============================================================================
