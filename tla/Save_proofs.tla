----------------------------- MODULE Save_proofs -----------------------------
(***************************************************************************)
(* For any number of instances, rows and statements: what Save writes into *)
(* an instance is what the row holds, an instance is inserted once, and a  *)
(* primary key is never one that the database did not give.                *)
(***************************************************************************)
EXTENDS Save, TLAPS

\* The times and the columns that a save computes are those of their types.
LEMMA ColumnTypes ==
    ASSUME TypeOK, NEW i \in Instance
    PROVE  /\ Now \in Time
           /\ Inserted(inst[i]) \in Columns /\ Updated(inst[i]) \in Columns
           /\ ~hasUpdated => Inserted(inst[i]).upd = 0 /\ Updated(inst[i]).upd = 0
<1>1. Now \in Time
  BY DEF TypeOK, Now
<1>2. inst[i] \in Held /\ (~hasUpdated => inst[i].upd = 0)
  BY DEF TypeOK
<1> QED
  BY <1>1, <1>2 DEF Inserted, Updated, Stored, Columns, Held, Default

\* A save leaves in the instance what it wrote in the row.
LEMMA ScannedIsStored ==
    ASSUME NEW x \in Held, NEW d \in Id
    PROVE  /\ Stored(Scanned(x, d, Inserted(x))) = Inserted(x)
           /\ Stored(Scanned(x, d, Updated(x))) = Updated(x)
           /\ Scanned(x, d, Inserted(x)).pk = d /\ Scanned(x, d, Updated(x)).pk = d
           /\ \A row \in Columns : Scanned(x, d, row) \in Held
  BY BoundsAssumption DEF Stored, Scanned, Inserted, Updated, Held, Columns, Id

\* What a rollback restores is of the right type.
LEMMA Snapshot ==
    ASSUME TypeOK, tx # None
    PROVE  tx.live \subseteq Id /\ tx.data \in [Id -> Columns] /\ tx.at \in Time /\ tx.broken \in BOOLEAN
  BY DEF TypeOK

------------------------------------------------------------------------------
\* Type correctness.

LEMMA InitTypes == Init => TypeOK
  BY BoundsAssumption, SMT DEF Init, TypeOK, Id, Time, Plain, Default, Columns, Held, Zero, Stored, Nothing

LEMMA TypesPreserved == TypeOK /\ [Next]_vars => TypeOK'
<1> SUFFICES ASSUME TypeOK, [Next]_vars PROVE TypeOK'
  OBVIOUS
<1> USE DEF table, history
<1>1. ASSUME NEW i \in Instance, Insert(i) PROVE TypeOK'
  <2>1. Inserted(inst[i]) \in Columns /\ (~hasUpdated => Inserted(inst[i]).upd = 0)
    BY ColumnTypes
  <2>2. inst[i] \in Held /\ (~hasUpdated => inst[i].upd = 0)
    BY DEF TypeOK
  <2>3. next \in Id /\ next' \in 1..(MaxId + 1) /\ now' \in Time
    BY <1>1, BoundsAssumption DEF Insert, TypeOK, Tick, Id, Time
  <2>4. /\ Scanned(inst[i], next, Inserted(inst[i])) \in Held
        /\ Scanned(inst[i], next, Inserted(inst[i])).upd = Inserted(inst[i]).upd
    BY <2>1, <2>2, <2>3, ScannedIsStored DEF Scanned
  <2>5. /\ inst' \in [Instance -> Held]
        /\ ~hasUpdated => \A k \in Instance : inst'[k].upd = 0
    BY <1>1, <2>1, <2>2, <2>4 DEF Insert, TypeOK
  <2>6. /\ live' \subseteq Id /\ data' \in [Id -> Columns] /\ made' \in [Id -> Instance \cup {None}]
        /\ ~hasUpdated => \A d \in Id : data'[d].upd = 0
    BY <1>1, <2>1, <2>3 DEF Insert, TypeOK, Table
  <2> QED
    BY <1>1, <2>3, <2>5, <2>6 DEF Insert, TypeOK, Nothing
<1>2. ASSUME NEW i \in Instance, Update(i) PROVE TypeOK'
  <2>1. Updated(inst[i]) \in Columns /\ (~hasUpdated => Updated(inst[i]).upd = 0)
    BY ColumnTypes
  <2>2. inst[i] \in Held /\ inst[i].pk \in Id
    BY <1>2, BoundsAssumption DEF Update, TypeOK, Held, Id
  <2>3. /\ Scanned(inst[i], inst[i].pk, Updated(inst[i])) \in Held
        /\ Scanned(inst[i], inst[i].pk, Updated(inst[i])).upd = Updated(inst[i]).upd
    BY <2>1, <2>2, ScannedIsStored DEF Scanned
  <2>4. /\ inst' \in [Instance -> Held]
        /\ ~hasUpdated => \A k \in Instance : inst'[k].upd = 0
    BY <1>2, <2>1, <2>3 DEF Update, TypeOK
  <2>5. /\ live' \subseteq Id /\ data' \in [Id -> Columns] /\ now' \in Time
        /\ ~hasUpdated => \A d \in Id : data'[d].upd = 0
    BY <1>2, <2>1, <2>2, BoundsAssumption DEF Update, TypeOK, Table, Tick, Time
  <2> QED
    BY <1>2, <2>4, <2>5 DEF Update, TypeOK, Nothing
<1>3. ASSUME NEW i \in Instance, Fail(i) PROVE TypeOK'
  <2>1. inst' = inst
    BY <1>3 DEF Fail, Untouched, TypeOK
  <2>2. tx' = None \/ (/\ tx' \in [live : SUBSET Id, data : [Id -> Columns], at : Time, broken : BOOLEAN]
                       /\ tx # None /\ tx'.data = tx.data)
    BY <1>3 DEF Fail, TypeOK
  <2> QED
    BY <1>3, <2>1, <2>2 DEF Fail, TypeOK, Nothing
<1>4. ASSUME NEW i \in Instance, Delete(i) PROVE TypeOK'
  <2>1. inst[i].pk \in Id
    BY <1>4, BoundsAssumption DEF Delete, TypeOK, Held, Id
  <2> QED
    BY <1>4, <2>1 DEF Delete, TypeOK, Table, Nothing
<1>5. ASSUME NEW i \in Instance, Archive(i) PROVE TypeOK'
  <2>1. Now \in Time /\ now' \in Time
    BY <1>5, ColumnTypes, BoundsAssumption DEF Archive, Tick, TypeOK, Time
  <2>2. /\ data' \in [Id -> Columns]
        /\ ~hasUpdated => \A d \in Id : data'[d].upd = 0
    BY <1>5, <2>1 DEF Archive, TypeOK, Table, Columns
  <2> QED
    BY <1>5, <2>1, <2>2 DEF Archive, TypeOK, Table, Nothing
<1>6. ASSUME NEW i \in Instance, Forget(i) PROVE TypeOK'
  <2>1. Zero \in Held /\ Zero.upd = 0
    BY BoundsAssumption DEF Zero, Held, Plain, Time, Default
  <2> QED
    BY <1>6, <2>1 DEF Forget, TypeOK, Nothing
<1>7. ASSUME NEW i \in Instance, NEW d \in Id, Select(i, d) PROVE TypeOK'
  <2>1. /\ inst'[i] \in Held /\ (~hasUpdated => inst'[i].upd = 0)
        /\ inst' = [inst EXCEPT ![i] = inst'[i]]
    BY <1>7, BoundsAssumption DEF Select, TypeOK, Columns, Held, Id
  <2> QED
    BY <1>7, <2>1 DEF Select, TypeOK, Nothing
<1>8. ASSUME NEW i \in Instance, NEW v \in Plain, Edit(i, v) PROVE TypeOK'
  BY <1>8 DEF Edit, TypeOK, Nothing, Held
<1>9. CASE Begin
  BY <1>9 DEF Begin, TypeOK, Nothing
<1>10. ASSUME NEW commit \in BOOLEAN, End(commit) PROVE TypeOK'
  BY <1>10, Snapshot DEF End, TypeOK, Table, Nothing
<1>11. CASE UNCHANGED vars
  BY <1>11 DEF vars, TypeOK
<1> QED
  BY <1>1, <1>2, <1>3, <1>4, <1>5, <1>6, <1>7, <1>8, <1>9, <1>10, <1>11 DEF Next

\* No call writes a column that the model does not have, or a primary key that is none.
THEOREM TypeCorrect == Spec => []TypeOK
  BY InitTypes, TypesPreserved, PTL DEF Spec

------------------------------------------------------------------------------
\* What Save returned.

\* Only Save says that it stored something, and then it did.
LEMMA StoredPreserved == TypeOK /\ NilMeansStored /\ [Next]_vars => NilMeansStored'
<1> SUFFICES ASSUME TypeOK, NilMeansStored, [Next]_vars PROVE NilMeansStored'
  OBVIOUS
<1> USE DEF table, history
<1>1. ASSUME NEW i \in Instance, Insert(i), last' # Nothing PROVE NilMeansStored'
  <2>1. inst[i] \in Held /\ next \in Id
    BY <1>1 DEF TypeOK, Insert
  <2>2. /\ last'.by = i /\ inst'[i] = Scanned(inst[i], next, Inserted(inst[i]))
        /\ next \in live' /\ data'[next] = Inserted(inst[i])
    BY <1>1, <2>1 DEF Insert, Table, TypeOK, Nothing
  <2> QED
    BY <2>1, <2>2, ScannedIsStored DEF NilMeansStored
<1>2. ASSUME NEW i \in Instance, Update(i), last' # Nothing PROVE NilMeansStored'
  <2>1. inst[i] \in Held /\ inst[i].pk \in Id
    BY <1>2, BoundsAssumption DEF TypeOK, Update, Held, Id
  <2>2. /\ last'.by = i /\ last'.did = "update" /\ hasUpdated' = hasUpdated
        /\ inst'[i] = Scanned(inst[i], inst[i].pk, Updated(inst[i]))
        /\ live' = live /\ (inst[i].pk \in live \/ ~hasUpdated)
        /\ inst[i].pk \in live => data'[inst[i].pk] = Updated(inst[i])
    BY <1>2, <2>1 DEF Update, Table, TypeOK, Nothing
  <2>3. inst'[i].pk = inst[i].pk
    BY <2>1, <2>2, ScannedIsStored
  <2> QED
    BY <2>1, <2>2, <2>3, ScannedIsStored DEF NilMeansStored
<1>3. CASE last' = Nothing
  BY <1>3 DEF Nothing, NilMeansStored
<1>4. CASE UNCHANGED vars
  BY <1>4 DEF vars, NilMeansStored
<1> QED
  BY <1>1, <1>2, <1>3, <1>4
     DEF Next, Fail, Delete, Archive, Forget, Select, Edit, Begin, End

\* When Save returns nil, the instance and its row are equal in every column, for any
\* instance, but for an update of no row without an updated key (save.go:51).
THEOREM NilIsStored == Spec => []NilMeansStored
<1>1. Init => NilMeansStored
  BY DEF Init, NilMeansStored, Nothing
<1> QED
  BY <1>1, InitTypes, TypesPreserved, StoredPreserved, PTL DEF Spec

------------------------------------------------------------------------------
\* One row per instance.

\* OneRowPerInstance is not inductive: it takes that an instance without a primary key
\* has inserted nothing, unless its insert ended with an error.
Unsaved == \A i \in Instance : inst[i].pk = 0 /\ i \notin unsure => \A d \in Id : made[d] # i

LEMMA OneRowPreserved ==
    TypeOK /\ Unsaved /\ OneRowPerInstance /\ [Next]_vars => Unsaved' /\ OneRowPerInstance'
<1> SUFFICES ASSUME TypeOK, Unsaved, OneRowPerInstance, [Next]_vars
             PROVE  Unsaved' /\ OneRowPerInstance'
  OBVIOUS
<1> USE DEF table, history
<1>1. ASSUME NEW i \in Instance, Insert(i) PROVE Unsaved' /\ OneRowPerInstance'
  <2>1. /\ next \in Id /\ inst[i].pk = 0 /\ unsure \subseteq unsure'
        /\ made' = [made EXCEPT ![next] = i] /\ made \in [Id -> Instance \cup {None}]
    BY <1>1 DEF Insert, TypeOK
  <2>2. i \in unsure' \/ (unsure' = unsure /\ inst'[i].pk # 0)
    BY <1>1, <2>1 DEF Insert, TypeOK, Scanned, Id
  <2>3. \A k \in Instance \ {i} : inst'[k] = inst[k]
    BY <1>1 DEF Insert, TypeOK
  <2>4. Unsaved'
    BY <2>1, <2>2, <2>3 DEF Unsaved
  <2>5. OneRowPerInstance'
    <3> SUFFICES ASSUME NEW c \in Id, NEW d \in Id, c # d, made'[c] # None, made'[c] = made'[d]
                 PROVE  made'[c] \in unsure'
      BY DEF OneRowPerInstance
    <3>1. CASE c # next /\ d # next
      BY <2>1, <3>1 DEF OneRowPerInstance
    <3>2. CASE c = next \/ d = next
      BY <2>1, <3>2 DEF Unsaved
    <3> QED
      BY <3>1, <3>2
  <2> QED
    BY <2>4, <2>5
<1>2. ASSUME NEW i \in Instance, Update(i) PROVE Unsaved' /\ OneRowPerInstance'
  <2>1. \A k \in Instance : inst'[k].pk = inst[k].pk
    BY <1>2 DEF Update, TypeOK, Scanned
  <2> QED
    BY <1>2, <2>1 DEF Update, Unsaved, OneRowPerInstance
<1>3. ASSUME NEW i \in Instance, Fail(i) PROVE Unsaved' /\ OneRowPerInstance'
  <2>1. inst' = inst
    BY <1>3 DEF Fail, Untouched, TypeOK
  <2> QED
    BY <1>3, <2>1 DEF Fail, Unsaved, OneRowPerInstance
<1>4. ASSUME NEW i \in Instance, Delete(i) PROVE Unsaved' /\ OneRowPerInstance'
  BY <1>4 DEF Delete, Unsaved, OneRowPerInstance
<1>5. ASSUME NEW i \in Instance, Archive(i) PROVE Unsaved' /\ OneRowPerInstance'
  BY <1>5 DEF Archive, Unsaved, OneRowPerInstance
<1>6. ASSUME NEW i \in Instance, Forget(i) PROVE Unsaved' /\ OneRowPerInstance'
  <2>1. \A d \in Id : made'[d] # i /\ (made'[d] = made[d] \/ made'[d] = None)
    BY <1>6, NoneAssumption DEF Forget
  <2>2. /\ unsure' = unsure \ {i}
        /\ \A k \in Instance \ {i} : inst'[k] = inst[k]
    BY <1>6 DEF Forget, TypeOK
  <2> QED
    BY <2>1, <2>2, NoneAssumption DEF Unsaved, OneRowPerInstance
<1>7. ASSUME NEW i \in Instance, NEW d \in Id, Select(i, d) PROVE Unsaved' /\ OneRowPerInstance'
  <2>1. inst'[i].pk # 0 /\ \A k \in Instance \ {i} : inst'[k] = inst[k]
    BY <1>7 DEF Select, TypeOK, Id
  <2> QED
    BY <1>7, <2>1 DEF Select, Unsaved, OneRowPerInstance
<1>8. ASSUME NEW i \in Instance, NEW v \in Plain, Edit(i, v) PROVE Unsaved' /\ OneRowPerInstance'
  <2>1. \A k \in Instance : inst'[k].pk = inst[k].pk
    BY <1>8 DEF Edit, TypeOK, Held
  <2> QED
    BY <1>8, <2>1 DEF Edit, Unsaved, OneRowPerInstance
<1>9. CASE Begin
  BY <1>9 DEF Begin, Unsaved, OneRowPerInstance
<1>10. ASSUME NEW commit \in BOOLEAN, End(commit) PROVE Unsaved' /\ OneRowPerInstance'
  BY <1>10 DEF End, Unsaved, OneRowPerInstance
<1>11. CASE UNCHANGED vars
  BY <1>11 DEF vars, Unsaved, OneRowPerInstance
<1> QED
  BY <1>1, <1>2, <1>3, <1>4, <1>5, <1>6, <1>7, <1>8, <1>9, <1>10, <1>11 DEF Next

\* Whatever is saved, fails and is rolled back in whatever order, an instance is inserted
\* once, unless an error hid from it that it was (save.go:36).
THEOREM OneRow == Spec => []OneRowPerInstance
<1>1. Init => Unsaved /\ OneRowPerInstance
  BY NoneAssumption DEF Init, Unsaved, OneRowPerInstance
<1> QED
  BY <1>1, InitTypes, TypesPreserved, OneRowPreserved, PTL DEF Spec

------------------------------------------------------------------------------
\* Primary keys.

LEMMA KeysPreserved == TypeOK /\ KeyExplained /\ [Next]_vars => KeyExplained'
<1> SUFFICES ASSUME TypeOK, KeyExplained, [Next]_vars PROVE KeyExplained'
  OBVIOUS
<1> USE DEF table, history
<1>1. ASSUME NEW i \in Instance, Insert(i) PROVE KeyExplained'
  <2>1. /\ live' = live \cup {next} /\ gone' = gone
        /\ inst'[i].pk \in {next, inst[i].pk}
        /\ \A k \in Instance \ {i} : inst'[k] = inst[k]
    BY <1>1 DEF Insert, Table, TypeOK, Scanned
  <2> QED
    BY <2>1 DEF KeyExplained
<1>2. ASSUME NEW i \in Instance, Update(i) PROVE KeyExplained'
  <2>1. \A k \in Instance : inst'[k].pk = inst[k].pk
    BY <1>2 DEF Update, TypeOK, Scanned
  <2> QED
    BY <1>2, <2>1 DEF Update, Table, KeyExplained
<1>3. ASSUME NEW i \in Instance, Fail(i) PROVE KeyExplained'
  <2>1. inst' = inst
    BY <1>3 DEF Fail, Untouched, TypeOK
  <2> QED
    BY <1>3, <2>1 DEF Fail, KeyExplained
<1>4. ASSUME NEW i \in Instance, Delete(i) PROVE KeyExplained'
  BY <1>4 DEF Delete, Table, KeyExplained
<1>5. ASSUME NEW i \in Instance, Archive(i) PROVE KeyExplained'
  BY <1>5 DEF Archive, Table, KeyExplained
<1>6. ASSUME NEW i \in Instance, Forget(i) PROVE KeyExplained'
  BY <1>6 DEF Forget, Zero, TypeOK, KeyExplained
<1>7. ASSUME NEW i \in Instance, NEW d \in Id, Select(i, d) PROVE KeyExplained'
  <2>1. inst'[i].pk \in live /\ \A k \in Instance \ {i} : inst'[k] = inst[k]
    BY <1>7 DEF Select, TypeOK
  <2> QED
    BY <1>7, <2>1 DEF Select, KeyExplained
<1>8. ASSUME NEW i \in Instance, NEW v \in Plain, Edit(i, v) PROVE KeyExplained'
  <2>1. \A k \in Instance : inst'[k].pk = inst[k].pk
    BY <1>8 DEF Edit, TypeOK, Held
  <2> QED
    BY <1>8, <2>1 DEF Edit, KeyExplained
<1>9. CASE Begin
  BY <1>9 DEF Begin, KeyExplained
<1>10. ASSUME NEW commit \in BOOLEAN, End(commit) PROVE KeyExplained'
  <2>1. live \cup gone \subseteq live' \cup gone' /\ inst' = inst
    BY <1>10 DEF End, Table
  <2> QED
    BY <2>1 DEF KeyExplained
<1>11. CASE UNCHANGED vars
  BY <1>11 DEF vars, KeyExplained
<1> QED
  BY <1>1, <1>2, <1>3, <1>4, <1>5, <1>6, <1>7, <1>8, <1>9, <1>10, <1>11 DEF Next

\* A primary key that an instance holds without a row is one whose row was deleted or
\* rolled back: no failed save leaves a key behind (save.go:112).
THEOREM KeysExplained == Spec => []KeyExplained
<1>1. Init => KeyExplained
  <2>1. Zero.pk = 0
    BY DEF Zero
  <2>2. ASSUME Init, NEW i \in Instance PROVE inst[i] = Zero
    BY <2>2 DEF Init
  <2> QED
    BY <2>1, <2>2 DEF KeyExplained
<1> QED
  BY <1>1, InitTypes, TypesPreserved, KeysPreserved, PTL DEF Spec
=============================================================================
