------------------------------- MODULE Models -------------------------------
(***************************************************************************)
(* What makroud makes of a model: tags.go, fields.go, pk.go, fk.go and the *)
(* parts of schema.go that do not depend on the cache.  A model is its     *)
(* table and its struct fields; a tag is one property, with its namespace, *)
(* split at the colons.  Where the code ranges over a Go map, an operator  *)
(* has an order as a parameter, or returns the set of what may come first. *)
(***************************************************************************)
EXTENDS Integers, Sequences, FiniteSets

CONSTANTS Model,      \* types that have a TableName
          Table,      \* Table[m]: what it returns
          Struct,     \* Struct[m]: the fields, in order
          ID(_),      \* a name with "ID" at its end
          Path(_, _), \* a table and a column, joined by a dot
          None

PKTypes == {"int", "string"}
FKTypes == PKTypes \cup {"optional int", "optional string"}

\* defaultModelOpts, which a model may override.
CONSTANT Opts         \* Opts[m]: names of the key columns
TimeKeys == {"created", "updated", "deleted"}

------------------------------------------------------------------------------
\* Tags.

Alias(k) == CASE k = "col" -> "column" [] k = "rel" -> "relation" [] OTHER -> k

\* The key and the value of a property: "db" only names a column, a property
\* without a value is true, and one with more than one colon is ignored.
Property(t) ==
    CASE t.ns = "db" /\ t.words[1] = "-" -> <<"-", "true">>
      [] t.ns = "db" /\ t.words[1] # "-" -> <<"column", t.words[1]>>
      [] t.ns # "db" /\ Len(t.words) = 1 -> <<Alias(t.words[1]), "true">>
      [] OTHER -> <<Alias(t.words[1]), t.words[2]>>

Under(tags, key) == {t \in tags : /\ t.ns = "db" \/ Len(t.words) <= 2
                                  /\ Property(t)[1] = key}

\* The namespaces of a field are met in the order of a Go map: a rank for each.
Orders == {o \in [{"makroud", "mk", "db"} -> 1..3] : \A x, y \in DOMAIN o : o[x] = o[y] => x = y}

GetByKey(tags, order, key) ==
    LET hits == Under(tags, key)
    IN  IF hits = {} THEN ""
        ELSE Property(CHOOSE t \in hits : \A u \in hits : order[t.ns] <= order[u.ns])[2]

\* Fields whose tags give one key in two namespaces.
TwoSaid(m) == {i \in DOMAIN Struct[m] : \E t, u \in Struct[m][i].tags :
                   t.ns # u.ns /\ Property(t)[1] = Property(u)[1] /\ Property(t)[2] # Property(u)[2]}

------------------------------------------------------------------------------
\* Fields.

IsAssociation(f) == f.target # None

\* A field from what its tags say; an association has no column and no key of its own.
FieldOf(m, d, said, column) ==
    LET plain == d.target = None
        keys  == {k \in TimeKeys : plain /\ Opts[m][k] = column}
    IN  [name |-> d.name, type |-> d.type, target |-> d.target, shape |-> d.shape,
         column |-> IF plain THEN column ELSE "",
         pk |-> said["pk"],
         fk |-> IF plain THEN said["fk"] ELSE "",
         relation |-> IF plain THEN "" ELSE said["relation"],
         excluded |-> said["-"] # "" \/ d.private,
         default |-> plain /\ (said["default"] # "" \/ keys \cap {"created", "updated"} # {}),
         keys |-> keys]

Properties == {"column", "pk", "fk", "relation", "-", "default"}
NewField(m, d, order) ==
    LET said == [key \in Properties |-> GetByKey(d.tags, order, key)]
    IN  FieldOf(m, d, said, IF said["column"] = "" THEN d.snake ELSE said["column"])

\* What reading a struct may give; only the fields of TwoSaid depend on an order.
Some == CHOOSE o \in Orders : TRUE
Fields == [m \in Model |->
    {[i \in DOMAIN Struct[m] |->
          NewField(m, Struct[m][i], IF i \in TwoSaid(m) THEN order[i] ELSE Some)] :
     order \in [TwoSaid(m) -> Orders]}]

Kept(f) == {i \in DOMAIN f : ~f[i].excluded}
Associations(f) == {i \in Kept(f) : IsAssociation(f[i])}
Tagged(f) == {i \in Kept(f) \ Associations(f) : f[i].pk # ""}
Columns(f) == Kept(f) \ (Associations(f) \cup Tagged(f))

\* The errors of getSchemaFields and of what it calls.
Unusable(f) ==
    \/ \E i \in DOMAIN f : IsAssociation(f[i]) /\ f[i].pk # ""
    \/ \E k \in TimeKeys : Cardinality({i \in Kept(f) : k \in f[i].keys}) > 1
    \/ Cardinality(Tagged(f)) > 1
    \/ \E i \in Tagged(f) : f[i].type \notin PKTypes
    \/ \E i \in Columns(f) : f[i].fk # "" /\ f[i].type \notin FKTypes

\* A map by column: of two fields with the same column the last one stays.
ByColumn(f, S) ==
    [c \in {f[i].column : i \in S} |->
        f[CHOOSE i \in S : f[i].column = c /\ \A j \in S : f[j].column = c => j <= i]]

TimeKey(f, k) == LET has == {i \in Kept(f) : k \in f[i].keys}
                 IN  IF has = {} THEN None ELSE f[CHOOSE i \in has : TRUE].column

\* A schema after getSchemaFields.
Scan(m, f) ==
    [model |-> m, table |-> Table[m],
     pk |-> IF Tagged(f) = {} THEN None ELSE f[CHOOSE i \in Tagged(f) : TRUE],
     fields |-> ByColumn(f, Columns(f)),
     references |-> ByColumn(f, {i \in Columns(f) : f[i].fk # ""}),
     associations |-> [x \in {} |-> None],
     created |-> TimeKey(f, "created"), updated |-> TimeKey(f, "updated"),
     deleted |-> TimeKey(f, "deleted")]

\* inferSchemaPrimaryKey: without a tag, the field of the column that Opts names.
CanInfer(s) == \/ s.pk # None
               \/ /\ Opts[s.model].pk \in DOMAIN s.fields
                  /\ s.fields[Opts[s.model].pk].type \in PKTypes

\* Mutant: the inferred key stays among the columns.
WithPrimaryKey_KeepsColumn(s) ==
    IF s.pk # None THEN s ELSE [s EXCEPT !.pk = s.fields[Opts[s.model].pk]]

WithPrimaryKey(s) ==
    IF s.pk # None THEN s
    ELSE [s EXCEPT !.pk = s.fields[Opts[s.model].pk],
                   !.fields = [c \in DOMAIN s.fields \ {Opts[s.model].pk} |-> s.fields[c]]]

\* Mutant: newSchema returns before the primary key is inferred.
Bare_NoKey == [m \in Model |-> {IF Unusable(f) THEN None ELSE Scan(m, f) : f \in Fields[m]}]

\* newSchema without its associations, for the other end of an association, or
\* None where it returns an error.
Bare == [m \in Model |->
    {IF Unusable(f) \/ ~CanInfer(Scan(m, f)) THEN None ELSE WithPrimaryKey(Scan(m, f)) :
     f \in Fields[m]}]

------------------------------------------------------------------------------
\* Associations.

IsMany(a) == a.shape \in {"[]T", "[]*T", "*[]T", "*[]*T"}

\* Foreign keys from one schema to the other.
To(s, r) == {s.references[c] : c \in {c \in DOMAIN s.references : s.references[c].fk = r.table}}

\* The passes over the foreign keys; in each, the key is local or not.
Passes(a, s, r) ==
    LET here(P(_))  == {<<TRUE, k>> : k \in {k \in To(s, r) : P(k)}}
        there(P(_)) == {<<FALSE, k>> : k \in {k \in To(r, s) : P(k)}}
        any(k)      == TRUE
        column(k)   == k.column = a.relation
        path(k)     == k.column = a.relation \/ Path(r.table, k.column) = a.relation
        field(k)    == k.name = ID(a.name)
        model(k)    == k.name = ID(s.model)
    IN  CASE a.relation # "" /\ ~IsMany(a) -> <<here(column), there(path)>>
          [] a.relation # "" /\ IsMany(a)  -> <<there(path)>>
          [] a.relation = "" /\ ~IsMany(a) -> <<here(field), there(model), here(any), there(any)>>
          [] a.relation = "" /\ IsMany(a)  -> <<there(model), there(any)>>

\* A range over a Go map returns the first key that fits.
FirstOf(p) ==
    LET n == {i \in DOMAIN p : p[i] # {}}
    IN  IF n = {} THEN {} ELSE p[CHOOSE i \in n : \A j \in n : i <= j]
Found(a, s, r) == FirstOf(Passes(a, s, r))

\* createLocalReference or createRemoteReference, with the primary key the schema
\* at the other end of the foreign key has at that time.
Refer(a, s, r, local, k) ==
    [name |-> a.name, shape |-> a.shape, isLocal |-> local, fk |-> k,
     pk |-> IF local THEN r.pk ELSE s.pk, remote |-> r]

NewReference(a, s, r) == {Refer(a, s, r, x[1], x[2]) : x \in Found(a, s, r)}

IsCompatible(fk, pk) == \/ pk = "int" /\ fk \in {"int", "optional int"}
                        \/ pk = "string" /\ fk \in {"string", "optional string"}

\* preloadCheckLocalForeignKey and preloadCheckRemoteForeignKey.
Preloadable(ref) == ref.pk # None /\ IsCompatible(ref.fk.type, ref.pk.type)

\* What one goroutine builds for a model that leaves no choice, with an empty cache.
AnyEnd(a, s) ==
    CHOOSE ref \in NewReference(a, s, CHOOSE r \in Bare[a.target] : TRUE) : TRUE
Associated(f, s) ==
    [s EXCEPT !.associations =
        [n \in {f[i].name : i \in Associations(f)} |->
            AnyEnd(f[CHOOSE i \in Associations(f) : f[i].name = n], s)]]
Built(m, f) == WithPrimaryKey(Associated(f, Scan(m, f)))
Alone == [m \in Model |-> Built(m, CHOOSE f \in Fields[m] : TRUE)]

------------------------------------------------------------------------------
\* Columns of a result set, split at the dots.

\* Mutant: the table is not trimmed from a column.
Own_WithTable(s, c) == Len(c) = 1 /\ (c[1] = s.pk.column \/ c[1] \in DOMAIN s.fields)

Own(s, c) ==
    LET n == IF Len(c) > 1 /\ Head(c) = s.table THEN Tail(c) ELSE c
    IN  Len(n) = 1 /\ (n[1] = s.pk.column \/ n[1] \in DOMAIN s.fields)

\* Any association of that table may be taken for a joined column.
Through(s, c) ==
    {s.associations[n] : n \in {n \in DOMAIN s.associations :
         Len(c) > 1 /\ s.associations[n].remote.table = Head(c)}}

\* getValues has a destination for a column, for up to two joins; one to many has none.
OneJoin(s, c) ==
    LET joins == Through(s, c)
    IN  \/ Own(s, c)
        \/ joins # {} /\ \A a \in joins : ~IsMany(a) /\ Own(a.remote, Tail(c))
HasValue(s, c) ==
    LET joins == Through(s, c)
    IN  \/ Own(s, c)
        \/ joins # {} /\ \A a \in joins : ~IsMany(a) /\ OneJoin(a.remote, Tail(c))
=============================================================================
