------------------------------ MODULE Schemas -------------------------------
(***************************************************************************)
(* GetSchema (schema.go) called by several goroutines on one driver, with  *)
(* or without the cache (cache.go).  A call reads the cache, reads the     *)
(* struct, then builds one reference per association, in the order of a Go *)
(* map: each one reads the cache again, for the other end.  Only then is   *)
(* the primary key inferred and the schema cached, under its table.        *)
(***************************************************************************)
EXTENDS Models

CONSTANT Goroutine

\* Fields are numbered and associate models, no column has two of them, and None
\* is neither a field nor a schema.
ASSUME FieldsAssumption ==
    \A m \in Model : \A f \in Fields[m] :
        /\ DOMAIN f \subseteq Nat
        /\ \A i \in DOMAIN f : f[i] # None /\ f[i].target \in Model \cup {None}
        /\ CanInfer(Scan(m, f)) => WithPrimaryKey(Scan(m, f)) # None
        /\ \A i, j \in Kept(f) \ Associations(f) : f[i].column = f[j].column => i = j

VARIABLES hasCache,  \* driver.HasCache()
          cache,     \* table -> schema, or None
          call,      \* what each goroutine is building, or None
          returned   \* the last model asked for and the schema returned for it, or None
vars == <<hasCache, cache, call, returned>>

Tables == {Table[m] : m \in Model}
Names(f) == {f[i].name : i \in Associations(f)}
Named(f, n) == f[CHOOSE i \in Associations(f) : f[i].name = n]

Init ==
    /\ hasCache \in BOOLEAN
    /\ cache = [t \in Tables |-> None]
    /\ call = [g \in Goroutine |-> None]
    /\ returned = None

Cached(m) == IF hasCache THEN cache[Table[m]] ELSE None
Return(g, m, s) ==
    /\ call' = [call EXCEPT ![g] = None]
    /\ returned' = [model |-> m, schema |-> s]

\* A struct that cannot be read ends the call with an error.
GetSchema(g, m) ==
    /\ call[g] = None
    /\ UNCHANGED <<hasCache, cache>>
    /\ \/ Cached(m) # None /\ Return(g, m, Cached(m))
       \/ /\ Cached(m) = None
          /\ \E f \in Fields[m] :
                 /\ ~Unusable(f)
                 /\ call' = [call EXCEPT ![g] = [model |-> m, fields |-> f, schema |-> Scan(m, f)]]
          /\ UNCHANGED returned

Todo(c) == Names(c.fields) \ DOMAIN c.schema.associations

\* getSchema with throughout = false: never cached.
Other(m) == IF Cached(m) # None THEN {Cached(m)} ELSE Bare[m]

\* Mutant: any foreign key of the table is taken, whatever its name.
Ends_AnyKey(a, s, r) ==
    LET n == NewReference(a, s, r)
    IN  IF \E x \in n : x.isLocal THEN {Refer(a, s, r, TRUE, k) : k \in To(s, r)} ELSE n

Ends(a, s, r) == NewReference(a, s, r)

\* Mutant: the reference is kept under the name of the other model.
Place_Model(a) == a.target

\* The key of schema.associations.
Place(a) == a.name

\* One turn of the loop of getSchemaAssociations.
Associate(g) ==
    /\ call[g] # None
    /\ \E n \in Todo(call[g]) :
           LET c == call[g]
               a == Named(c.fields, n)
               found(r) == IF r = None THEN {} ELSE Ends(a, c.schema, r)
           IN  \E r \in Other(a.target) :
                   \/ found(r) = {} /\ call' = [call EXCEPT ![g] = None]
                   \/ \E ref \in found(r) :
                          call' = [call EXCEPT ![g].schema.associations =
                                      [x \in DOMAIN @ \cup {Place(a)} |-> IF x = Place(a) THEN ref ELSE @[x]]]
    /\ UNCHANGED <<hasCache, cache, returned>>

\* Mutant: a schema is cached before its primary key is inferred.
Finished_TooEarly(s) == s

Finished(s) == WithPrimaryKey(s)

\* inferSchemaPrimaryKey, then SetSchema.
Finish(g) ==
    /\ call[g] # None
    /\ Todo(call[g]) = {}
    /\ \/ /\ ~CanInfer(call[g].schema)
          /\ call' = [call EXCEPT ![g] = None]
          /\ UNCHANGED <<cache, returned>>
       \/ /\ CanInfer(call[g].schema)
          /\ Return(g, call[g].model, Finished(call[g].schema))
          /\ cache' = IF hasCache
                      THEN [cache EXCEPT ![call[g].schema.table] = Finished(call[g].schema)]
                      ELSE cache
    /\ UNCHANGED hasCache

Next == \E g \in Goroutine :
            \/ \E m \in Model : GetSchema(g, m)
            \/ Associate(g)
            \/ Finish(g)

Spec == Init /\ [][Next]_vars

------------------------------------------------------------------------------
\* What a struct leaves open: a key said twice, or several foreign keys that fit.
Ambiguous(m) ==
    \/ TwoSaid(m) # {}
    \/ \E f \in Fields[m], i \in DOMAIN Struct[m] :
           /\ i \in Associations(f)
           /\ \/ TwoSaid(f[i].target) # {}
              \/ \E r \in Bare[f[i].target] :
                     r # None /\ \E x, y \in Found(f[i], Scan(m, f), r) : x # y

\* ColumnPaths.
AllColumns(s) == DOMAIN s.fields \cup {k.column : k \in {s.pk} \ {None}}

\* Two models of one table take the schema of each other from the cache.
SharesTable(m) == \E o \in Model \ {m} : Table[o] = Table[m]

\* A schema up to what its associations know of their own associations.
Flat(s) == [s EXCEPT !.associations =
               [n \in DOMAIN @ |-> [@[n] EXCEPT !.remote.associations = {}]]]

HasType(s) ==
    /\ s.model \in Model
    /\ s.table = Table[s.model]
    /\ DOMAIN s.associations \subseteq {Struct[s.model][i].name : i \in DOMAIN Struct[s.model]}

\* A table only holds schemas of its models, and a call is building its own model.
TypeOK ==
    /\ hasCache \in BOOLEAN
    /\ \A t \in Tables : cache[t] = None \/ (HasType(cache[t]) /\ cache[t].table = t)
    /\ \A g \in Goroutine :
           call[g] = None \/ (HasType(call[g].schema) /\ call[g].schema.model = call[g].model)
    /\ returned = None \/ (HasType(returned.schema) /\ returned.schema.table = Table[returned.model])

\* A schema that is returned, or cached where others will find it, has a primary key,
\* which is not also a column that Save writes, and all the associations of its model:
\* the half of a schema that NewReference builds (schema.go:304) never gets out.
Whole(s) ==
    /\ s.pk # None
    /\ s.pk.column \notin DOMAIN s.fields
    /\ \E f \in Fields[s.model] : DOMAIN s.associations = Names(f)
Complete ==
    /\ \A t \in Tables : cache[t] # None => Whole(cache[t])
    /\ returned # None => Whole(returned.schema)

\* Whoever builds it, in whatever order of the Go maps and with whatever is cached by
\* then, the schema of a model is the one that a lone call builds without a cache. Tags
\* that say two things, several foreign keys that fit, and two models of one table are
\* what the order decides.
Steady(m) ==
    /\ ~SharesTable(m)
    /\ ~Ambiguous(m)
    /\ \A i \in DOMAIN Struct[m] : Struct[m][i].target = None \/ ~SharesTable(Struct[m][i].target)
Repeatable ==
    returned # None /\ Steady(returned.model) =>
        Flat(returned.schema) = Flat(Alone[returned.model])

\* Both keys of an association are known and of one type, so that Preload can use it,
\* unless the foreign key is at the other end and the primary key of the model has no
\* tag: it is inferred after its associations are built (schema.go:404 and 410).
KeysKnown ==
    returned # None => LET s == returned.schema IN
        Steady(s.model) =>
            \A n \in DOMAIN s.associations :
                \/ Preloadable(s.associations[n])
                \/ ~s.associations[n].isLocal /\ s.pk.pk = ""

\* A row of the columns that Select asks for (select.go:39), joined or not with the
\* ones of an association to one, has a place for each in the model, whatever was
\* cached when the schema was built; an association to many of the same table may take
\* the joined columns (schema.go:196).
Scannable ==
    returned # None => LET s == returned.schema IN
        /\ \A c \in AllColumns(s) :
               HasValue(s, <<c>>) /\ HasValue(s, <<s.table, c>>)
        /\ \A n \in DOMAIN s.associations : LET r == s.associations[n].remote IN
               \/ \E o \in DOMAIN s.associations :
                      s.associations[o].remote.table = r.table /\ IsMany(s.associations[o])
               \/ \A c \in AllColumns(r) : HasValue(s, <<r.table, c>>)
=============================================================================
