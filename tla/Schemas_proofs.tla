--------------------------- MODULE Schemas_proofs ----------------------------
(***************************************************************************)
(* For any models, any number of goroutines and any order of the maps of   *)
(* Go: the schemas that GetSchema returns and caches are whole, and what a *)
(* model that leaves no choice gets is the same whoever was first.  Every  *)
(* schema is characterised by what it was made from (Made); the properties *)
(* follow from that alone.                                                 *)
(***************************************************************************)
EXTENDS Schemas, TLAPS

\* The fields of a model are those of its struct, under their names.
LEMMA FieldNames ==
    ASSUME NEW m \in Model, NEW f \in Fields[m]
    PROVE  /\ DOMAIN f = DOMAIN Struct[m]
           /\ \A i \in DOMAIN f : f[i].name = Struct[m][i].name /\ f[i].target = Struct[m][i].target
<1>1. PICK o \in [TwoSaid(m) -> Orders] :
          f = [i \in DOMAIN Struct[m] |->
                  NewField(m, Struct[m][i], IF i \in TwoSaid(m) THEN o[i] ELSE Some)]
  BY DEF Fields
<1>2. \A d, r : NewField(m, d, r).name = d.name /\ NewField(m, d, r).target = d.target
  BY DEF NewField, FieldOf
<1> QED
  BY <1>1, <1>2

\* An association is found under its name.
LEMMA NamedFits ==
    ASSUME NEW f, NEW n \in Names(f)
    PROVE  Named(f, n).name = n
  BY DEF Names, Named

------------------------------------------------------------------------------
\* A struct that was read, and what becomes of it without its associations.
Read(m) == {f \in Fields[m] : ~Unusable(f) /\ CanInfer(Scan(m, f))}
Base(m, f) == WithPrimaryKey(Scan(m, f))

\* A schema with other associations.
With(s, A) == [s EXCEPT !.associations = A]

\* References up to the associations of the other end.
Cut(ref) == [ref EXCEPT !.remote = With(ref.remote, {})]
CutAll(A) == [n \in DOMAIN A |-> Cut(A[n])]

\* A schema of model m, read as f, whatever its associations are.
Of(r, m, f) == f \in Read(m) /\ r = With(Base(m, f), r.associations)

\* What may stand for model m at the other end: two models of a table share the cache.
EndOf(m, r) == \E o \in Model : Table[o] = Table[m] /\ \E f \in Fields[o] : Of(r, o, f)

\* A reference that association a of schema s may have.
Refers(ref, a, s) ==
    /\ ref = Refer(a, s, ref.remote, ref.isLocal, ref.fk)
    /\ <<ref.isLocal, ref.fk>> \in Found(a, s, ref.remote)
    /\ EndOf(a.target, ref.remote)

\* The associations that a schema has are the ones of its fields.
Linked(assoc, m, f) ==
    /\ DOMAIN assoc \subseteq Names(f)
    /\ \A n \in DOMAIN assoc : Refers(assoc[n], Named(f, n), Scan(m, f))

Made(s) == \E f \in Fields[s.model] :
    /\ Of(s, s.model, f)
    /\ DOMAIN s.associations = Names(f)
    /\ Linked(s.associations, s.model, f)

\* A schema keeps what its struct gives when it gets associations.
LEMMA KeyThenLinks ==
    ASSUME NEW m, NEW f, NEW A
    PROVE  /\ WithPrimaryKey(With(Scan(m, f), A)) = With(Base(m, f), A)
           /\ CanInfer(With(Scan(m, f), A)) <=> CanInfer(Scan(m, f))
<1> DEFINE s == Scan(m, f)
           t == With(s, A)
           key == Opts[m].pk
           pk == s.fields[key]
           rest == [c \in DOMAIN s.fields \ {key} |-> s.fields[c]]
<1>1. s.model = m /\ t.model = m /\ t.pk = s.pk /\ t.fields = s.fields
  BY DEF Scan, With
<1>2. CASE s.pk # None
  BY <1>1, <1>2 DEF Base, WithPrimaryKey, CanInfer
<1>3. CASE s.pk = None
  <2>1. /\ Base(m, f) = [s EXCEPT !.pk = pk, !.fields = rest]
        /\ WithPrimaryKey(t) = [t EXCEPT !.pk = pk, !.fields = rest]
        /\ CanInfer(t) <=> CanInfer(s)
    <3> HIDE DEF t
    <3> QED
      BY <1>1, <1>3 DEF Base, WithPrimaryKey, CanInfer
  <2>2. [t EXCEPT !.pk = pk, !.fields = rest]
            = With([s EXCEPT !.pk = pk, !.fields = rest], A)
    <3> HIDE DEF pk, rest
    <3> QED
      BY DEF Scan, With
  <2> QED
    BY <2>1, <2>2
<1> QED
  BY <1>2, <1>3

\* Whether a foreign key fits depends on the columns and the names alone.
LEMMA SameFound ==
    ASSUME NEW a, NEW s, NEW t, NEW r, NEW q,
           s.model = t.model, s.table = t.table, s.references = t.references,
           r.model = q.model, r.table = q.table, r.references = q.references
    PROVE  Found(a, s, r) = Found(a, t, q)
<1>1. To(s, r) = To(t, q) /\ To(r, s) = To(q, t)
  BY DEF To
<1>2. Passes(a, s, r) = Passes(a, t, q)
  BY <1>1 DEF Passes
<1> QED
  BY <1>2 DEF Found

\* A struct whose tags say one thing is read in one way.
LEMMA OneReading ==
    ASSUME NEW m \in Model, TwoSaid(m) = {}, NEW f \in Fields[m], NEW g \in Fields[m]
    PROVE  f = g
<1> DEFINE F(o) == [i \in DOMAIN Struct[m] |->
                       NewField(m, Struct[m][i], IF i \in TwoSaid(m) THEN o[i] ELSE Some)]
<1>1. /\ \E o \in [TwoSaid(m) -> Orders] : f = F(o)
      /\ \E o \in [TwoSaid(m) -> Orders] : g = F(o)
  BY DEF Fields
<1>2. \A o, p : F(o) = F(p)
  OBVIOUS
<1> QED
  BY <1>1, <1>2

\* What the reading of a struct and its primary key leave in a schema.
LEMMA BaseParts ==
    ASSUME NEW m, NEW f, NEW r, r = With(Base(m, f), r.associations)
    PROVE  /\ r.model = m /\ r.table = Table[m] /\ r.references = Scan(m, f).references
           /\ r.pk = Base(m, f).pk /\ r.fields = Base(m, f).fields
           /\ Base(m, f).model = m /\ Base(m, f).table = Table[m]
           /\ Base(m, f).references = Scan(m, f).references
<1> DEFINE b == Base(m, f)
<1>1. /\ b.model = m /\ b.table = Table[m] /\ b.references = Scan(m, f).references
      /\ {"model", "table", "references", "pk", "fields"} \subseteq DOMAIN b
  BY DEF Base, WithPrimaryKey, Scan
<1> HIDE DEF b
<1>2. \A x \in DOMAIN b : x # "associations" => r[x] = b[x]
  BY DEF With, b
<1> QED
  BY <1>1, <1>2 DEF b

\* The associations of a schema can be replaced.
LEMMA Relinked ==
    ASSUME NEW m, NEW f, NEW A
    PROVE  With(Scan(m, f), A).associations = A /\ With(Base(m, f), A).associations = A
  BY DEF Base, WithPrimaryKey, Scan, With

LEMMA WithTwice ==
    ASSUME NEW s, NEW A, NEW B
    PROVE  With(With(s, A), B) = With(s, B)
  BY DEF With

\* An association is a field of the struct, and what it targets is a model.
LEMMA NamedField ==
    ASSUME NEW m \in Model, NEW f \in Fields[m], NEW n \in Names(f)
    PROVE  \E i \in DOMAIN Struct[m] : /\ i \in Associations(f) /\ Named(f, n) = f[i]
                                       /\ f[i].target = Struct[m][i].target
                                       /\ f[i].target \in Model
<1>1. \E i \in Associations(f) : Named(f, n) = f[i]
  BY DEF Names, Named
<1>2. \A i \in Associations(f) : i \in DOMAIN f /\ f[i].target # None
  BY DEF Associations, Kept, IsAssociation
<1> QED
  BY <1>1, <1>2, FieldNames, FieldsAssumption

\* The first pass that finds a foreign key gives what is found.
LEMMA FirstOfIn ==
    ASSUME NEW N \in 1..4, NEW p, DOMAIN p = 1..N, NEW P, \A i \in 1..N : p[i] \subseteq P
    PROVE  FirstOf(p) \subseteq P
<1> DEFINE n == {i \in DOMAIN p : p[i] # {}}
<1>1. CASE n = {}
  BY <1>1 DEF FirstOf
<1>2. CASE n # {}
  <2>1. \E i \in n : \A j \in n : i <= j
    <3>1. 1 \in n \/ 2 \in n \/ 3 \in n \/ 4 \in n
      BY <1>2
    <3>2. \A j \in n : j \in 1..4
      OBVIOUS
    <3> HIDE DEF n
    <3> QED
      BY <3>1, <3>2
  <2>2. FirstOf(p) = p[CHOOSE i \in n : \A j \in n : i <= j]
    BY <1>2 DEF FirstOf
  <2> QED
    BY <2>1, <2>2
<1> QED
  BY <1>1, <1>2

Pairs(s, r) == {<<TRUE, k>> : k \in To(s, r)} \cup {<<FALSE, k>> : k \in To(r, s)}

\* A foreign key that fits goes from one of the schemas to the other.
LEMMA FoundPairs ==
    ASSUME NEW a, NEW s, NEW r
    PROVE  Found(a, s, r) \subseteq Pairs(s, r)
<1> DEFINE p == Passes(a, s, r)
<1>1. CASE a.relation # "" /\ ~IsMany(a)
  <2> DEFINE A == {<<TRUE, k>> : k \in {k \in To(s, r) : k.column = a.relation}}
             B == {<<FALSE, k>> : k \in {k \in To(r, s) : k.column = a.relation \/ Path(r.table, k.column) = a.relation}}
  <2>1. p = <<A, B>>
    BY <1>1, Zenon DEF Passes
  <2>2. /\ A \subseteq Pairs(s, r)
        /\ B \subseteq Pairs(s, r)
    BY DEF Pairs
  <2> HIDE DEF p, A, B
  <2>3. DOMAIN p = 1..2 /\ \A i \in 1..2 : p[i] \subseteq Pairs(s, r)
    BY <2>1, <2>2
  <2> QED
    BY <2>3, FirstOfIn DEF Found, p
<1>2. CASE a.relation # "" /\ IsMany(a)
  <2> DEFINE A == {<<FALSE, k>> : k \in {k \in To(r, s) : k.column = a.relation \/ Path(r.table, k.column) = a.relation}}
  <2>1. p = <<A>>
    BY <1>2, Zenon DEF Passes
  <2>2. A \subseteq Pairs(s, r)
    BY DEF Pairs
  <2> HIDE DEF p, A
  <2>3. DOMAIN p = 1..1 /\ \A i \in 1..1 : p[i] \subseteq Pairs(s, r)
    BY <2>1, <2>2
  <2> QED
    BY <2>3, FirstOfIn DEF Found, p
<1>3. CASE a.relation = "" /\ ~IsMany(a)
  <2> DEFINE A == {<<TRUE, k>> : k \in {k \in To(s, r) : k.name = ID(a.name)}}
             B == {<<FALSE, k>> : k \in {k \in To(r, s) : k.name = ID(s.model)}}
             C == {<<TRUE, k>> : k \in {k \in To(s, r) : TRUE}}
             D == {<<FALSE, k>> : k \in {k \in To(r, s) : TRUE}}
  <2>1. p = <<A, B, C, D>>
    BY <1>3, Zenon DEF Passes
  <2>2. /\ A \subseteq Pairs(s, r)
        /\ B \subseteq Pairs(s, r)
        /\ C \subseteq Pairs(s, r)
        /\ D \subseteq Pairs(s, r)
    BY DEF Pairs
  <2> HIDE DEF p, A, B, C, D
  <2>3. DOMAIN p = 1..4 /\ \A i \in 1..4 : p[i] \subseteq Pairs(s, r)
    BY <2>1, <2>2
  <2> QED
    BY <2>3, FirstOfIn DEF Found, p
<1>4. CASE a.relation = "" /\ IsMany(a)
  <2> DEFINE A == {<<FALSE, k>> : k \in {k \in To(r, s) : k.name = ID(s.model)}}
             B == {<<FALSE, k>> : k \in {k \in To(r, s) : TRUE}}
  <2>1. p = <<A, B>>
    BY <1>4, Zenon DEF Passes
  <2>2. /\ A \subseteq Pairs(s, r)
        /\ B \subseteq Pairs(s, r)
    BY DEF Pairs
  <2> HIDE DEF p, A, B
  <2>3. DOMAIN p = 1..2 /\ \A i \in 1..2 : p[i] \subseteq Pairs(s, r)
    BY <2>1, <2>2
  <2> QED
    BY <2>3, FirstOfIn DEF Found, p
<1> QED
  BY <1>1, <1>2, <1>3, <1>4

------------------------------------------------------------------------------
\* The columns of a struct are fields of it.
LEMMA ColumnsAreFields ==
    ASSUME NEW m \in Model, NEW f \in Fields[m], NEW x \in DOMAIN Scan(m, f).fields
    PROVE  /\ \E i \in Columns(f) : f[i].column = x /\ Scan(m, f).fields[x] = f[i]
           /\ Scan(m, f).fields[x] # None
<1> DEFINE S == Columns(f)
<1>0. S \subseteq Int
  BY FieldsAssumption DEF Columns, Kept
<1>1. S \subseteq DOMAIN f
  BY DEF Columns, Kept
<1>7. \A i, j \in S : f[i].column = f[j].column => i = j
  BY FieldsAssumption DEF Columns
<1>2. Scan(m, f).fields = ByColumn(f, S)
  BY DEF Scan
<1>3. \E i \in S : f[i].column = x /\ ByColumn(f, S)[x] = f[i]
  <2> HIDE DEF S
  <2>1. x \in DOMAIN ByColumn(f, S)
    BY <1>2
  <2>2. PICK i \in S : f[i].column = x
    BY <2>1 DEF ByColumn
  <2>3. \A j \in S : f[j].column = x => j <= i
    BY <1>0, <1>7, <2>2
  <2> QED
    BY <1>0, <1>7, <2>1, <2>2, <2>3 DEF ByColumn
<1>4. \A i \in S : f[i] # None
  <2>1. \A i \in DOMAIN f : f[i] # None
    BY FieldsAssumption
  <2> HIDE DEF S
  <2> QED
    BY <1>1, <2>1
<1>5. PICK i \in S : f[i].column = x /\ ByColumn(f, S)[x] = f[i]
  BY <1>3
<1>6. ByColumn(f, S)[x] # None
  BY <1>4, <1>5
<1> HIDE DEF S
<1> QED
  BY <1>2, <1>5, <1>6, Zenon DEF S

\* A model that was read has a primary key, which is not a column; without a tag, it
\* is a field that has none.
LEMMA BaseKey ==
    ASSUME NEW m \in Model, NEW f \in Fields[m], CanInfer(Scan(m, f))
    PROVE  LET s == Scan(m, f)
               b == Base(m, f)
           IN  /\ b.pk # None /\ b.pk.column \notin DOMAIN b.fields
               /\ IF s.pk # None THEN b.pk = s.pk ELSE b.pk.pk = ""
<1> DEFINE s == Scan(m, f)
           b == Base(m, f)
           key == Opts[m].pk
<1>1. CASE s.pk # None
  <2>1. b = s
    BY <1>1 DEF Base, WithPrimaryKey
  <2>2. PICK i \in Tagged(f) : s.pk = f[i]
    BY <1>1 DEF Scan
  <2>3. \A x \in DOMAIN s.fields : x # f[i].column
    <3> SUFFICES ASSUME NEW x \in DOMAIN s.fields, x = f[i].column PROVE FALSE
      OBVIOUS
    <3>1. PICK j \in Columns(f) : f[j].column = x
      BY ColumnsAreFields
    <3> QED
      BY <2>2, <3>1, FieldsAssumption DEF Columns, Tagged
  <2> QED
    BY <1>1, <2>1, <2>2, <2>3
<1>2. CASE s.pk = None
  <2>1. key \in DOMAIN s.fields
    BY <1>2 DEF CanInfer, Scan
  <2>2. b.pk = s.fields[key] /\ b.fields = [x \in DOMAIN s.fields \ {key} |-> s.fields[x]]
    BY <1>2 DEF Base, WithPrimaryKey, Scan
  <2>3. PICK i \in Columns(f) : f[i].column = key /\ s.fields[key] = f[i]
    BY <2>1, ColumnsAreFields
  <2>4. s.fields[key] # None
    BY <2>1, ColumnsAreFields
  <2>5. f[i].pk = ""
    BY DEF Columns, Tagged
  <2> QED
    BY <1>2, <2>2, <2>3, <2>4, <2>5
<1> QED
  BY <1>1, <1>2

\* A schema that is made is of its model and whole.
LEMMA MadeWhole ==
    ASSUME NEW s, s.model \in Model, Made(s)
    PROVE  HasType(s) /\ Whole(s)
<1>1. PICK f \in Fields[s.model] : /\ Of(s, s.model, f) /\ DOMAIN s.associations = Names(f)
                                   /\ Linked(s.associations, s.model, f)
  BY DEF Made
<1>2. s = With(Base(s.model, f), s.associations) /\ CanInfer(Scan(s.model, f))
  BY <1>1 DEF Of, Read
<1>3. /\ s.table = Table[s.model] /\ s.pk = Base(s.model, f).pk
      /\ s.fields = Base(s.model, f).fields
  BY <1>2, BaseParts
<1>4. \A n \in Names(f) : n \in {Struct[s.model][i].name : i \in DOMAIN Struct[s.model]}
  BY FieldNames DEF Names, Associations, Kept
<1>5. HasType(s)
  BY <1>1, <1>3, <1>4 DEF HasType
<1>6. Whole(s)
  BY <1>1, <1>2, <1>3, BaseKey DEF Whole
<1> QED
  BY <1>5, <1>6

\* What stands at the other end of a reference.
LEMMA EndParts ==
    ASSUME NEW ref, NEW a, NEW s, Refers(ref, a, s)
    PROVE  \E o \in Model : \E g \in Fields[o] :
               /\ CanInfer(Scan(o, g)) /\ g \in Read(o) /\ Table[o] = Table[a.target]
               /\ ref.remote.table = Table[o] /\ ref.remote.model = o
               /\ ref.remote.references = Scan(o, g).references
               /\ ref.remote.pk = Base(o, g).pk /\ ref.remote.fields = Base(o, g).fields
<1>1. PICK o \in Model : Table[o] = Table[a.target] /\ \E f \in Fields[o] : Of(ref.remote, o, f)
  BY DEF Refers, EndOf
<1>2. PICK g \in Fields[o] : Of(ref.remote, o, g)
  BY <1>1
<1> QED
  BY <1>1, <1>2, BaseParts DEF Of, Read

\* Every foreign key has a type that fits the primary key it refers to.
KeysFit ==
    \A m, o \in Model : \A f \in Read(m), g \in Read(o) :
        \A k \in To(Scan(m, f), Scan(o, g)) : IsCompatible(k.type, Base(o, g).pk.type)

LEMMA KeysOfMade ==
    ASSUME KeysFit, NEW s, s.model \in Model, Made(s), NEW n \in DOMAIN s.associations
    PROVE  \/ Preloadable(s.associations[n])
           \/ ~s.associations[n].isLocal /\ s.pk.pk = ""
<1> DEFINE m == s.model
           ref == s.associations[n]
<1>1. PICK f \in Fields[m] : Of(s, m, f) /\ Linked(s.associations, m, f)
  BY DEF Made
<1> DEFINE t == Scan(m, f)
           r == ref.remote
<1>2. Refers(ref, Named(f, n), t)
  BY <1>1 DEF Linked
<1>3. PICK o, g :
          /\ o \in Model /\ g \in Fields[o] /\ CanInfer(Scan(o, g)) /\ g \in Read(o)
          /\ r.table = Table[o] /\ r.references = Scan(o, g).references /\ r.pk = Base(o, g).pk
  BY <1>2, EndParts
<1>4. f \in Read(m) /\ CanInfer(t) /\ s.pk = Base(m, f).pk
  BY <1>1, BaseParts DEF Of, Read
<1>5. To(t, r) = To(t, Scan(o, g)) /\ To(r, t) = To(Scan(o, g), t)
  BY <1>3 DEF To, Scan
<1>6. /\ <<ref.isLocal, ref.fk>> \in Pairs(t, r)
      /\ ref.pk = IF ref.isLocal THEN r.pk ELSE t.pk
  <2>1. ref = Refer(Named(f, n), t, r, ref.isLocal, ref.fk)
    BY <1>2 DEF Refers
  <2>2. ref.pk = IF ref.isLocal THEN r.pk ELSE t.pk
    <3> HIDE DEF ref, t, r
    <3>1. Refer(Named(f, n), t, r, ref.isLocal, ref.fk).pk = IF ref.isLocal THEN r.pk ELSE t.pk
      BY DEF Refer
    <3> QED
      BY <2>1, <3>1 DEF r
  <2> QED
    BY <1>2, <2>2, FoundPairs DEF Refers
<1>7. CASE ref.isLocal = TRUE /\ ref.fk \in To(t, r)
  <2>1. IsCompatible(ref.fk.type, r.pk.type)
    BY <1>3, <1>4, <1>5, <1>7 DEF KeysFit
  <2>2. r.pk # None
    BY <1>3, BaseKey
  <2> QED
    BY <1>6, <1>7, <2>1, <2>2 DEF Preloadable
<1>8. CASE ref.isLocal = FALSE /\ ref.fk \in To(r, t)
  <2>1. IsCompatible(ref.fk.type, s.pk.type)
    BY <1>3, <1>4, <1>5, <1>8 DEF KeysFit
  <2>2. IF t.pk # None THEN s.pk = t.pk ELSE s.pk.pk = ""
    BY <1>4, BaseKey
  <2> QED
    BY <1>6, <1>8, <2>1, <2>2 DEF Preloadable
<1> QED
  BY <1>6, <1>7, <1>8 DEF Pairs

\* The models of one table have the same columns, if an association leads there.
IsEnd(t) == \E m \in Model : \E i \in DOMAIN Struct[m] :
                Struct[m][i].target \in Model /\ Table[Struct[m][i].target] = t
SameColumns ==
    \A m, o \in Model : Table[m] = Table[o] /\ IsEnd(Table[m]) =>
        \A f \in Read(m), g \in Read(o) : AllColumns(Base(m, f)) = AllColumns(Base(o, g))

LEMMA OwnColumns ==
    ASSUME NEW s, s.pk # None, NEW c \in AllColumns(s)
    PROVE  Own(s, <<c>>) /\ Own(s, <<s.table, c>>)
<1>1. c = s.pk.column \/ c \in DOMAIN s.fields
  BY DEF AllColumns
<1>2. /\ Len(<<c>>) = 1 /\ <<c>>[1] = c
      /\ Len(<<s.table, c>>) = 2 /\ Head(<<s.table, c>>) = s.table /\ Tail(<<s.table, c>>) = <<c>>
  OBVIOUS
<1> QED
  BY <1>1, <1>2 DEF Own

LEMMA ColumnsOfMade ==
    ASSUME SameColumns, NEW s, s.model \in Model, Made(s)
    PROVE  /\ \A c \in AllColumns(s) : HasValue(s, <<c>>) /\ HasValue(s, <<s.table, c>>)
           /\ \A n \in DOMAIN s.associations : LET r == s.associations[n].remote IN
                  \/ \E o \in DOMAIN s.associations :
                         s.associations[o].remote.table = r.table /\ IsMany(s.associations[o])
                  \/ \A c \in AllColumns(r) : HasValue(s, <<r.table, c>>)
<1> DEFINE A == s.associations
<1>1. PICK f \in Fields[s.model] : DOMAIN A = Names(f) /\ Linked(A, s.model, f)
  BY DEF Made
<1>2. \A c \in AllColumns(s) : HasValue(s, <<c>>) /\ HasValue(s, <<s.table, c>>)
  BY MadeWhole, OwnColumns DEF Whole, HasValue
<1>3. ASSUME NEW n \in DOMAIN A, NEW o \in DOMAIN A, A[n].remote.table = A[o].remote.table
      PROVE  /\ A[o].remote.pk # None
             /\ AllColumns(A[n].remote) = AllColumns(A[o].remote)
  <2>1. ASSUME NEW x \in DOMAIN A
        PROVE  \E m \in Model : \E g \in Fields[m] :
                   /\ g \in Read(m) /\ CanInfer(Scan(m, g))
                   /\ A[x].remote.table = Table[m] /\ IsEnd(Table[m])
                   /\ A[x].remote.pk = Base(m, g).pk /\ A[x].remote.fields = Base(m, g).fields
    <3>1. Refers(A[x], Named(f, x), Scan(s.model, f))
      BY <1>1 DEF Linked
    <3>2. PICK m \in Model : \E g \in Fields[m] :
              /\ CanInfer(Scan(m, g)) /\ g \in Read(m) /\ Table[m] = Table[Named(f, x).target]
              /\ A[x].remote.table = Table[m]
              /\ A[x].remote.pk = Base(m, g).pk /\ A[x].remote.fields = Base(m, g).fields
      BY <3>1, EndParts
    <3>3. IsEnd(Table[m])
      BY <1>1, <3>2, NamedField DEF IsEnd
    <3> QED
      BY <3>2, <3>3
  <2>2. ASSUME NEW x \in DOMAIN A PROVE A[x].remote.pk # None
    <3>1. PICK m, g : /\ m \in Model /\ g \in Fields[m] /\ CanInfer(Scan(m, g))
                      /\ A[x].remote.pk = Base(m, g).pk
      BY <2>1
    <3> QED
      BY <3>1, BaseKey
  <2>3. PICK m, g : /\ m \in Model /\ g \in Read(m) /\ A[n].remote.table = Table[m] /\ IsEnd(Table[m])
                    /\ A[n].remote.pk = Base(m, g).pk /\ A[n].remote.fields = Base(m, g).fields
    BY <2>1
  <2>4. PICK p, h : /\ p \in Model /\ h \in Read(p) /\ A[o].remote.table = Table[p]
                    /\ A[o].remote.pk = Base(p, h).pk /\ A[o].remote.fields = Base(p, h).fields
    BY <2>1
  <2>5. AllColumns(Base(m, g)) = AllColumns(Base(p, h))
    <3>1. Table[m] = Table[p]
      BY <1>3, <2>3, <2>4
    <3>2. \A x, y \in Model : Table[x] = Table[y] /\ IsEnd(Table[x]) =>
              \A u \in Read(x), v \in Read(y) : AllColumns(Base(x, u)) = AllColumns(Base(y, v))
      BY DEF SameColumns
    <3> QED
      BY <2>3, <2>4, <3>1, <3>2
  <2>6. /\ AllColumns(A[n].remote) = AllColumns(Base(m, g))
        /\ AllColumns(A[o].remote) = AllColumns(Base(p, h))
    BY <2>3, <2>4 DEF AllColumns
  <2> QED
    BY <2>2, <2>5, <2>6
<1>4. ASSUME NEW n \in DOMAIN A, NEW c \in AllColumns(A[n].remote),
             \A o \in DOMAIN A : A[o].remote.table = A[n].remote.table => ~IsMany(A[o])
      PROVE  HasValue(s, <<A[n].remote.table, c>>)
  <2> DEFINE cs == <<A[n].remote.table, c>>
  <2>1. Len(cs) = 2 /\ Head(cs) = A[n].remote.table /\ Tail(cs) = <<c>>
    OBVIOUS
  <2> HIDE DEF cs
  <2>2. Through(s, cs) = {A[o] : o \in {o \in DOMAIN A : A[o].remote.table = A[n].remote.table}}
    BY <2>1 DEF Through
  <2>3. \A a \in Through(s, cs) : ~IsMany(a) /\ OneJoin(a.remote, Tail(cs))
    <3> SUFFICES ASSUME NEW o \in DOMAIN A, A[o].remote.table = A[n].remote.table
                 PROVE  ~IsMany(A[o]) /\ OneJoin(A[o].remote, Tail(cs))
      BY <2>2
    <3>1. A[o].remote.pk # None /\ c \in AllColumns(A[o].remote)
      BY <1>3, <1>4
    <3>2. Own(A[o].remote, <<c>>)
      BY <3>1, OwnColumns
    <3> QED
      BY <1>4, <2>1, <3>2 DEF OneJoin
  <2>4. Through(s, cs) # {}
    BY <2>2
  <2> QED
    BY <2>3, <2>4 DEF HasValue, cs
<1> QED
  BY <1>2, <1>4

\* The reference of an association of a steady model is the one that a lone call
\* builds, up to the associations of the other end.
LEMMA SteadyEnds ==
    ASSUME NEW m \in Model, Steady(m), NEW f \in Fields[m], NEW n \in Names(f),
           NEW ref, Refers(ref, Named(f, n), Scan(m, f))
    PROVE  Cut(ref) = Cut(AnyEnd(Named(f, n), Scan(m, f)))
<1> DEFINE a == Named(f, n)
           s == Scan(m, f)
           o == a.target
<1>1. PICK i \in DOMAIN Struct[m] : /\ i \in Associations(f) /\ a = f[i]
                                    /\ o = Struct[m][i].target /\ o \in Model
  BY NamedField
<1>2. ~SharesTable(o)
  <2>1. o # None
    BY <1>1 DEF Associations, IsAssociation
  <2> QED
    BY <1>1, <2>1 DEF Steady
<1>3. /\ TwoSaid(o) = {}
      /\ \A r \in Bare[o] : r # None => \A x, y \in Found(a, s, r) : x = y
  BY <1>1 DEF Steady, Ambiguous
<1>4. PICK g \in Fields[o] : Of(ref.remote, o, g)
  BY <1>1, <1>2 DEF Refers, EndOf, SharesTable
<1> DEFINE b == Base(o, g)
<1>5. Bare[o] = {b} /\ b # None
  <2>1. \A h \in Fields[o] : h = g
    BY <1>1, <1>3, OneReading
  <2>2. ~Unusable(g) /\ CanInfer(Scan(o, g))
    BY <1>4 DEF Of, Read
  <2> QED
    BY <1>1, <2>1, <2>2, FieldsAssumption DEF Bare, Base
<1>6. Found(a, s, b) = Found(a, s, ref.remote)
  BY <1>4, BaseParts, SameFound DEF Of
<1>7. Found(a, s, b) = {<<ref.isLocal, ref.fk>>}
  BY <1>3, <1>5, <1>6 DEF Refers
<1>8. AnyEnd(a, s) = Refer(a, s, b, ref.isLocal, ref.fk)
  <2>1. NewReference(a, s, b) = {Refer(a, s, b, ref.isLocal, ref.fk)}
    <3> HIDE DEF a, s, b
    <3> QED
      BY <1>7 DEF NewReference
  <2>2. (CHOOSE r \in Bare[o] : TRUE) = b
    BY <1>5
  <2> QED
    BY <2>1, <2>2 DEF AnyEnd
<1>9. ref = Refer(a, s, ref.remote, ref.isLocal, ref.fk)
  BY DEF Refers
<1>10. ref.remote.pk = b.pk /\ With(ref.remote, {}) = With(b, {})
  <2>1. ref.remote = With(b, ref.remote.associations)
    BY <1>4 DEF Of
  <2> QED
    BY <2>1, BaseParts, WithTwice
<1> QED
  <2> HIDE DEF a, s, b
  <2>1. Refer(a, s, ref.remote, ref.isLocal, ref.fk).remote = ref.remote
    BY DEF Refer
  <2>2. Refer(a, s, b, ref.isLocal, ref.fk).remote = b
    BY DEF Refer
  <2>3. [Refer(a, s, ref.remote, ref.isLocal, ref.fk) EXCEPT !.remote = With(b, {})]
            = [Refer(a, s, b, ref.isLocal, ref.fk) EXCEPT !.remote = With(b, {})]
    BY <1>10 DEF Refer
  <2>4. AnyEnd(a, s) = Refer(a, s, b, ref.isLocal, ref.fk)
    BY <1>8
  <2>5. Cut(ref) = Cut(AnyEnd(a, s))
    BY <1>9, <1>10, <2>1, <2>2, <2>3, <2>4 DEF Cut
  <2> QED
    BY <2>5 DEF a, s

\* A whole schema of a steady model is the one of a lone call.
LEMMA SteadyMade ==
    ASSUME NEW s, s.model \in Model, Made(s), Steady(s.model)
    PROVE  Flat(s) = Flat(Alone[s.model])
<1> DEFINE m == s.model
<1>1. PICK f \in Fields[m] : /\ Of(s, m, f) /\ DOMAIN s.associations = Names(f)
                             /\ Linked(s.associations, m, f)
  BY DEF Made
<1> DEFINE lone == [n \in Names(f) |-> AnyEnd(Named(f, n), Scan(m, f))]
<1>2. Alone[m] = With(Base(m, f), lone)
  <2>1. (CHOOSE g \in Fields[m] : TRUE) = f
    BY OneReading DEF Steady, Ambiguous
  <2>2. Associated(f, Scan(m, f)) = With(Scan(m, f), lone)
    BY DEF Associated, Names, Named, With
  <2>3. Alone[m] = WithPrimaryKey(Associated(f, Scan(m, f)))
    BY <2>1 DEF Alone, Built
  <2> HIDE DEF lone
  <2> QED
    BY <2>2, <2>3, KeyThenLinks
<1>3. CutAll(s.associations) = CutAll(lone)
  <2>1. ASSUME NEW n \in Names(f)
        PROVE  Cut(s.associations[n]) = Cut(lone[n])
    <3>1. Refers(s.associations[n], Named(f, n), Scan(m, f))
      BY <1>1 DEF Linked
    <3> QED
      BY <3>1, SteadyEnds
  <2> QED
    BY <1>1, <2>1 DEF CutAll
<1>4. Flat(s) = With(Base(m, f), CutAll(s.associations))
  <2>1. s = With(Base(m, f), s.associations)
    BY <1>1 DEF Of
  <2>2. Flat(s) = With(s, CutAll(s.associations))
    BY DEF Flat, With, CutAll, Cut
  <2> QED
    BY <2>1, <2>2, WithTwice
<1>5. Flat(Alone[m]) = With(Base(m, f), CutAll(lone))
  <2> DEFINE t == Alone[m]
  <2>1. t.associations = lone /\ With(t, CutAll(lone)) = With(Base(m, f), CutAll(lone))
    <3> HIDE DEF lone
    <3> QED
      BY <1>2, Relinked, WithTwice
  <2>2. Flat(t) = With(t, CutAll(t.associations))
    BY DEF Flat, With, CutAll, Cut
  <2> QED
    BY <2>1, <2>2
<1> QED
  BY <1>3, <1>4, <1>5

------------------------------------------------------------------------------
\* A call builds the schema of its model: what the struct gives, and some of its
\* associations.
Building(c) ==
    /\ c = [model |-> c.model, fields |-> c.fields, schema |-> c.schema]
    /\ c.model \in Model /\ c.fields \in Fields[c.model] /\ ~Unusable(c.fields)
    /\ c.schema = With(Scan(c.model, c.fields), c.schema.associations)
    /\ Linked(c.schema.associations, c.model, c.fields)

Sound(s) == s.model \in Model /\ Made(s)

\* The inductive invariant: every schema comes from reading its struct, and each of its
\* references from a schema of the other end, whole or without associations.
IInv ==
    /\ hasCache \in BOOLEAN
    /\ DOMAIN cache = Tables /\ DOMAIN call = Goroutine
    /\ \A g \in Goroutine : call[g] # None => Building(call[g])
    /\ \A t \in Tables : cache[t] # None => Sound(cache[t]) /\ cache[t].table = t
    /\ returned # None => Sound(returned.schema) /\ returned.schema.table = Table[returned.model]

\* What a schema under construction keeps of the struct.
LEMMA BuildingParts ==
    ASSUME NEW c, Building(c)
    PROVE  LET s == c.schema
               t == Scan(c.model, c.fields)
           IN  /\ s.model = c.model /\ s.table = Table[c.model] /\ s.pk = t.pk
               /\ t.model = c.model /\ t.table = Table[c.model] /\ s.references = t.references
               /\ HasType(s)
<1>1. /\ c.schema.model = c.model /\ c.schema.table = Table[c.model]
      /\ c.schema.pk = Scan(c.model, c.fields).pk
      /\ c.schema.references = Scan(c.model, c.fields).references
  BY DEF Building, Scan, With
<1>2. \A n \in Names(c.fields) :
          n \in {Struct[c.model][i].name : i \in DOMAIN Struct[c.model]}
  BY FieldNames DEF Building, Names, Associations, Kept
<1>3. HasType(c.schema)
  BY <1>1, <1>2 DEF Building, Linked, HasType
<1> QED
  BY <1>1, <1>3 DEF Scan

\* What Finish returns comes from the struct that the call read.
LEMMA FinishedSound ==
    ASSUME NEW c, Building(c), Todo(c) = {}, CanInfer(c.schema)
    PROVE  Sound(Finished(c.schema)) /\ Finished(c.schema).table = Table[c.model]
<1> DEFINE A == c.schema.associations
           r == Finished(c.schema)
<1>1. r = With(Base(c.model, c.fields), A) /\ CanInfer(Scan(c.model, c.fields))
  BY KeyThenLinks DEF Finished, Building
<1>2. r.associations = A
  BY <1>1, Relinked
<1>3. r.model = c.model /\ r.table = Table[c.model]
  BY <1>1, <1>2, BaseParts
<1>4. DOMAIN A = Names(c.fields)
  BY DEF Todo, Building, Linked
<1>5. Of(r, r.model, c.fields)
  BY <1>1, <1>2, <1>3 DEF Of, Read, Building
<1> QED
  BY <1>2, <1>3, <1>4, <1>5 DEF Sound, Made, Building

\* What Associate finds at the other end.
LEMMA OtherEnd ==
    ASSUME IInv, NEW m \in Model, NEW r \in Other(m), r # None
    PROVE  EndOf(m, r)
<1>1. CASE Cached(m) # None
  <2>1. r = cache[Table[m]] /\ Table[m] \in Tables
    BY <1>1 DEF Other, Cached, Tables
  <2>2. Sound(r) /\ r.table = Table[m]
    BY <2>1 DEF IInv
  <2>3. PICK f \in Fields[r.model] : Of(r, r.model, f)
    BY <2>2 DEF Sound, Made
  <2> QED
    BY <2>2, <2>3, MadeWhole DEF Sound, HasType, EndOf
<1>2. CASE Cached(m) = None
  <2>1. PICK f \in Fields[m] : ~Unusable(f) /\ CanInfer(Scan(m, f)) /\ r = Base(m, f)
    BY <1>2 DEF Other, Bare, Base
  <2>2. Base(m, f) = With(Base(m, f), Base(m, f).associations)
    <3>1. Scan(m, f) = With(Scan(m, f), Scan(m, f).associations)
      BY DEF Scan, With
    <3>2. Base(m, f) = With(Base(m, f), Scan(m, f).associations)
      BY <3>1, KeyThenLinks DEF Base
    <3> QED
      BY <3>2, Relinked
  <2>3. Of(r, m, f)
    BY <2>1, <2>2 DEF Of, Read
  <2> QED
    BY <2>3 DEF EndOf
<1> QED
  BY <1>1, <1>2

\* A reference that Associate adds is one of the struct.
LEMMA NewEnd ==
    ASSUME NEW c, Building(c), NEW a, NEW r, EndOf(a.target, r), NEW ref \in Ends(a, c.schema, r)
    PROVE  Refers(ref, a, Scan(c.model, c.fields))
<1> DEFINE s == Scan(c.model, c.fields)
<1>1. PICK x \in Found(a, c.schema, r) : ref = Refer(a, c.schema, r, x[1], x[2])
  BY DEF Ends, NewReference
<1>2. Found(a, c.schema, r) = Found(a, s, r) /\ c.schema.pk = s.pk
  BY BuildingParts, SameFound
<1>3. ref = Refer(a, s, r, x[1], x[2])
  BY <1>1, <1>2 DEF Refer
<1>4. x = <<x[1], x[2]>>
  <2>1. x \in Pairs(c.schema, r)
    BY <1>1, FoundPairs
  <2>2. \E b, k : x = <<b, k>>
    BY <2>1, Zenon DEF Pairs
  <2> QED
    BY <2>2
<1>5. ref.remote = r /\ ref.isLocal = x[1] /\ ref.fk = x[2]
  <2> HIDE DEF s
  <2> QED
    BY <1>3 DEF Refer
<1>6. x \in Found(a, s, r)
  BY <1>1, <1>2
<1> QED
  BY <1>3, <1>4, <1>5, <1>6 DEF Refers

------------------------------------------------------------------------------
LEMMA InitIInv == ASSUME Init PROVE IInv
  BY DEF Init, IInv, Tables

\* What a call that ends leaves behind.
LEMMA ReturnIInv ==
    ASSUME IInv, NEW g \in Goroutine, NEW m \in Model, NEW s,
           Sound(s), s.table = Table[m], Return(g, m, s), UNCHANGED hasCache,
           \/ UNCHANGED cache
           \/ cache' = [cache EXCEPT ![s.table] = s]
    PROVE  IInv'
<1>1. s.table \in Tables
  BY DEF Tables
<1>2. \A t \in Tables : cache'[t] # None => Sound(cache'[t]) /\ cache'[t].table = t
  BY <1>1 DEF IInv
<1>3. \A h \in Goroutine : call'[h] # None => Building(call'[h])
  BY DEF IInv, Return
<1>4. returned'.schema = s /\ returned'.model = m
  BY DEF Return
<1>5. DOMAIN call' = Goroutine /\ DOMAIN cache' = Tables /\ hasCache' \in BOOLEAN
  BY DEF Return, IInv
<1> QED
  BY <1>2, <1>3, <1>4, <1>5 DEF IInv

LEMMA AssociateIInv ==
    ASSUME IInv, NEW g \in Goroutine, Associate(g)
    PROVE  IInv'
<1> DEFINE c == call[g]
<1>1. UNCHANGED <<hasCache, cache, returned>>
  BY DEF Associate
<1>2. Building(c)
  BY DEF Associate, IInv
<1>3. CASE call' = [call EXCEPT ![g] = None]
  BY <1>1, <1>3 DEF IInv, Tables
<1>4. ASSUME NEW n \in Todo(c), NEW r \in Other(Named(c.fields, n).target), r # None,
             NEW ref \in Ends(Named(c.fields, n), c.schema, r),
             call' = [call EXCEPT ![g].schema.associations =
                 [x \in DOMAIN @ \cup {Place(Named(c.fields, n))} |->
                     IF x = Place(Named(c.fields, n)) THEN ref ELSE @[x]]]
      PROVE  IInv'
  <2> DEFINE a == Named(c.fields, n)
             old == c.schema.associations
             new == [x \in DOMAIN old \cup {n} |-> IF x = n THEN ref ELSE old[x]]
  <2>1. n \in Names(c.fields) /\ Place(a) = n
    BY NamedFits DEF Todo, Place
  <2>2. a.target \in Model
    BY <1>2, <2>1, NamedField DEF Building
  <2>3. Refers(ref, a, Scan(c.model, c.fields))
    BY <1>2, <1>4, <2>2, OtherEnd, NewEnd
  <2>4. Linked(new, c.model, c.fields)
    <3>1. DOMAIN old \subseteq Names(c.fields)
      BY <1>2 DEF Building, Linked
    <3>2. \A x \in DOMAIN old : Refers(old[x], Named(c.fields, x), Scan(c.model, c.fields))
      BY <1>2 DEF Building, Linked
    <3>3. \A x \in DOMAIN new : Refers(new[x], Named(c.fields, x), Scan(c.model, c.fields))
      BY <2>3, <3>2
    <3> QED
      BY <2>1, <3>1, <3>3 DEF Linked
  <2>5. call' = [call EXCEPT ![g].schema.associations = new]
    BY <1>4, <2>1
  <2> HIDE DEF new
  <2>6. Building(call'[g])
    <3> DEFINE s == Scan(c.model, c.fields)
               d == [model |-> c.model, fields |-> c.fields, schema |-> With(s, new)]
    <3>1. call'[g] = [c EXCEPT !.schema.associations = new]
      BY <2>5 DEF IInv
    <3>2. [c EXCEPT !.schema.associations = new] = [c EXCEPT !.schema = With(c.schema, new)]
      BY DEF With
    <3>3. With(c.schema, new) = With(s, new)
      BY <1>2, WithTwice DEF Building
    <3>4. call'[g] = d
      <4> HIDE DEF s
      <4>1. c = [model |-> c.model, fields |-> c.fields, schema |-> c.schema]
        BY <1>2 DEF Building
      <4> QED
        BY <3>1, <3>2, <3>3, <4>1
    <3>5. d.model = c.model /\ d.fields = c.fields /\ d.schema = With(s, new)
          /\ d.schema.associations = new
      BY Relinked
    <3> HIDE DEF d
    <3>6. d = [model |-> d.model, fields |-> d.fields, schema |-> d.schema]
      BY <3>5 DEF d
    <3> QED
      BY <1>2, <2>4, <3>4, <3>5, <3>6 DEF Building
  <2> QED
    BY <1>1, <2>5, <2>6 DEF IInv, Tables
<1> QED
  BY <1>3, <1>4 DEF Associate

LEMMA FinishIInv ==
    ASSUME IInv, NEW g \in Goroutine, Finish(g)
    PROVE  IInv'
<1>1. Building(call[g])
  BY DEF Finish, IInv
<1>2. CASE ~CanInfer(call[g].schema)
  BY <1>2 DEF Finish, IInv, Tables
<1>3. CASE CanInfer(call[g].schema)
  <2>1. Sound(Finished(call[g].schema)) /\ Finished(call[g].schema).table = Table[call[g].model]
    BY <1>1, <1>3, FinishedSound DEF Finish
  <2>2. call[g].schema.table = Table[call[g].model] /\ call[g].model \in Model
    BY <1>1, BuildingParts DEF Building
  <2> QED
    BY <1>3, <2>1, <2>2, ReturnIInv DEF Finish
<1> QED
  BY <1>2, <1>3

LEMMA GetSchemaIInv ==
    ASSUME IInv, NEW g \in Goroutine, NEW m \in Model, GetSchema(g, m)
    PROVE  IInv'
<1>1. CASE Cached(m) # None /\ Return(g, m, Cached(m))
  <2>1. Cached(m) = cache[Table[m]] /\ Table[m] \in Tables
    BY <1>1 DEF Cached, Tables
  <2>2. Sound(Cached(m)) /\ Cached(m).table = Table[m]
    BY <1>1, <2>1 DEF IInv
  <2> QED
    BY <1>1, <2>2, ReturnIInv DEF GetSchema
<1>2. ASSUME NEW f \in Fields[m], ~Unusable(f), UNCHANGED <<hasCache, cache, returned>>,
             call' = [call EXCEPT ![g] = [model |-> m, fields |-> f, schema |-> Scan(m, f)]]
      PROVE  IInv'
  <2>1. Building([model |-> m, fields |-> f, schema |-> Scan(m, f)])
    <3> DEFINE s == Scan(m, f)
               c == [model |-> m, fields |-> f, schema |-> s]
    <3>1. s = With(s, s.associations) /\ DOMAIN s.associations = {}
      BY DEF Scan, With
    <3>2. Linked(s.associations, m, f)
      BY <3>1 DEF Linked
    <3> HIDE DEF s
    <3>3. c.model = m /\ c.fields = f /\ c.schema = s
      OBVIOUS
    <3> QED
      BY <1>2, <3>1, <3>2, <3>3 DEF Building, s
  <2> QED
    BY <1>2, <2>1 DEF IInv, Tables
<1> QED
  BY <1>1, <1>2 DEF GetSchema

LEMMA NextIInv == ASSUME IInv, [Next]_vars PROVE IInv'
<1>1. CASE UNCHANGED vars
  BY <1>1 DEF vars, IInv, Tables
<1> QED
  BY <1>1, GetSchemaIInv, AssociateIInv, FinishIInv DEF Next

LEMMA Inductive == Spec => []IInv
  BY InitIInv, NextIInv, PTL DEF Spec

\* The schemas of the cache are filed under their table, and every one that is built
\* or returned is one of its model.
THEOREM TypeCorrect == Spec => []TypeOK
<1>1. IInv => TypeOK
  BY BuildingParts, MadeWhole DEF IInv, TypeOK, Sound
<1> QED
  BY <1>1, Inductive, PTL

\* Every schema that GetSchema (schema.go:296) returns or caches has its primary key,
\* apart from its columns, and all the associations of its model, for any models, any
\* number of goroutines and any order of the maps.
THEOREM CompleteSchemas == Spec => []Complete
<1>1. IInv => Complete
  BY MadeWhole DEF IInv, Complete, Sound
<1> QED
  BY <1>1, Inductive, PTL

\* Neither the order in which goroutines build the schemas, nor what the cache already
\* holds, nor the orders of the maps of Go show in the schema of a steady model.
THEOREM RepeatableSchemas == Spec => []Repeatable
<1>1. IInv => Repeatable
  <2> SUFFICES ASSUME IInv, returned # None, Steady(returned.model)
               PROVE  Flat(returned.schema) = Flat(Alone[returned.model])
    BY DEF Repeatable
  <2>1. Sound(returned.schema) /\ returned.schema.table = Table[returned.model]
    BY DEF IInv
  <2>2. returned.schema.model = returned.model
    BY <2>1, MadeWhole DEF Sound, HasType, Steady, SharesTable
  <2> QED
    BY <2>1, <2>2, SteadyMade DEF Sound
<1> QED
  BY <1>1, Inductive, PTL

\* Where foreign keys have the types of the primary keys they refer to, Preload can use
\* both keys of any association that GetSchema returns, but for the primary key that is
\* inferred too late.
THEOREM KeysOfAssociations ==
    ASSUME KeysFit
    PROVE  Spec => []KeysKnown
<1>1. IInv => KeysKnown
  BY KeysOfMade DEF IInv, KeysKnown, Sound
<1> QED
  BY <1>1, Inductive, PTL

\* Where the models of one table have the same columns, a row of the columns of a model
\* and of its associations can be scanned, whatever was cached.
THEOREM RowsFit ==
    ASSUME SameColumns
    PROVE  Spec => []Scannable
<1>1. IInv => Scannable
  <2> SUFFICES ASSUME IInv, returned # None PROVE Scannable
    BY DEF Scannable
  <2>1. returned.schema.model \in Model /\ Made(returned.schema)
    BY DEF IInv, Sound
  <2> QED
    BY <2>1, ColumnsOfMade, Zenon DEF Scannable
<1> QED
  BY <1>1, Inductive, PTL
=============================================================================
