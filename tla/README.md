# A verification project for makroud

makroud is a PostgreSQL mapper on top of `database/sql`. This directory holds
TLA+ modules translated from its Go code, TLC configurations that check them
on small instances, and theorems that TLAPS checks for every instance.
`PROJECT.json` ties every definition to the lines it models, every property to
the run that checks it and to a mutant of the code that breaks it.

## 1. Inventory

| component | files | state | operations | what is hard |
|---|---|---|---|---|
| Node | `node.go` | `tx`, `savePointID`, `savePointEnabled`, `nested` per node; one shared `sql.DB` | `Begin(Tx)`, `Commit`, `Rollback`, `Exec`..., `EnableSavepoint`, `Close` | nodes are copies of each other on one session; siblings, parents and finished nodes are called in any order; statements fail, contexts end, connections break |
| Transaction | `transaction.go` | the Go stack | one call, nested through its handler | errors dropped on purpose, swallowed errors, panics, several goroutines on one pool |
| Client | `client.go`, `makroud.go` | node, schema cache, logger, observer, entropy | wrappers of the node; `wrapClient` copies a client for a transaction | what the copy leaves out; row wrappers that own a connection |
| Selector | `selector.go` | mutex, map of drivers, configurations | `Using`, `RetryAliases`, `RetryMaster`, `Ping`, `Retry`, `Close` | double-checked lookup, connecting under the lock, `Close` beside `Using` |
| Exec and rows | `helpers.go`, `queries.go`, `select.go` | `sql.Rows`, destination values | `Exec`, `RawExec`, `First`, `Find`, `Count`... | rows that are never closed, errors in the middle of a result, repeated appends |
| Save, Delete, Archive | `save.go`, `delete.go`, `pk.go` | the model instance and its row | insert or update by primary key | the instance outlives a rolled back transaction |
| Schema | `schema.go`, `fields.go`, `fk.go`, `cache.go`, `schemaless.go` | a `sync.Map` shared by all clients | `GetSchema`, inference of keys and associations | concurrent construction, cache keyed by table name, map iteration order |
| Tags, Snaker | `tags.go`, `snaker/` | none | pure conversions | boundaries |
| Preload | `preload.go`, `reflectx/preload.go`, `reflectx/walker.go` | groups of paths, instances | one query per level, assignment of relations | order of groups, duplicates, copies of structs |
| Hooks | `hooks/hooks.go` | wrapped connector | Before/After pairs | paths that go round the hooks |
| Reflection helpers | `reflectx/` | none | conversions over `reflect` | the Go type system is their specification |
| Options, logging | `option.go`, `debug.go`, `logger.go` | none | formatting | no protocol |

Interactions: a `Client` owns a `Node`; `Transaction` drives a client, and the
handler it calls drives the client made by `Begin`, on which it may call
`Transaction` again. `Save`, `Exec` and `Preload` run statements through a
client, and every client of a pool shares one schema cache. A `Selector` hands
out clients to goroutines.

What makes each part correct:

- Node: every `sql.Tx` is ended by exactly one node; what was rolled back is
  never durable; a nested commit publishes nothing.
- Transaction: nested calls are all-or-nothing scopes; every call returns; a
  connection goes back to the pool.
- Selector: one driver per alias, none forgotten, none served after its end.
- Rows: every opened row is closed; a broken result is never taken for a
  complete one.
- Save: when it returns nil the instance equals its row; one instance is one
  row, however often it is saved around errors and rollbacks.
- Schema: no half of a schema gets out; all goroutines see one schema per
  model, the same as a lone construction would have built.
- Preload: every relation that was asked for and came back is assigned, once, to
  the right owner.

## 2. Modules

| module | models | role |
|---|---|---|
| `SqlTx` | external: sessions of PostgreSQL behind `database/sql` | a stack of layers per session, pool of `MaxOpen` connections, failures |
| `Node` | `node.go` | one action per method; no `Next` of its own |
| `NodeCalls` | callers of `Node` | any caller, any order; history variables; properties of nodes |
| `NestedTx` | none: abstract specification | nested all-or-nothing scopes |
| `Transaction` | `transaction.go`, `client.go` | goroutines in nested `Transaction` calls; implements `NestedTx` |
| `Selector` | `selector.go` | goroutines in `Using`, `RetryAliases` and `Close`, step by step |
| `Rows` | `helpers.go`, row wrappers of `client.go`, `ScanRow(s)` of schemas | goroutines in `Exec` with a destination, from the query to the return |
| `Models` | `tags.go`, `fields.go`, `pk.go`, `fk.go`, the pure parts of `schema.go` | what is made of a struct: operators, no state |
| `Schemas` | `GetSchema` of `schema.go`, `cache.go` | goroutines that build and cache schemas; on top of `Models` |
| `Preload` | `preload.go`, `reflectx/preload.go`, `reflectx/walker.go`, `reflectx/fields.go` | calls of `Preload` on a heap of instances; on top of `Models` |
| `Save` | `save.go`, `delete.go`, `select.go` | instances of one model and the rows of its table |
| `MCNodeCalls`, `MCTransaction`, `MCSelector`, `MCModels`, `MCSchemas`, `MCPreload`, `MCSave` | | values of constants and symmetry for TLC |
| `SqlTx_proofs`, `NodeCalls_proofs`, `Transaction_proofs`, `Selector_proofs`, `Rows_proofs`, `Schemas_proofs`, `Preload_proofs`, `Save_proofs` | | theorems |

`SqlTx` is the only environment. A `sql.Tx` is named after the node whose
`BeginTx` opened it, a savepoint after the node that created it, and a write
after the node that made it, so a node writes at most once; what the
properties ask is only which writes are durable. A session is a stack of
layers, the first for the transaction and one per savepoint; `RELEASE` merges
layers down, `ROLLBACK TO` empties one and drops those above, and keeps the
savepoint, as PostgreSQL does. A statement may fail and abort the session,
the connection may break at any statement, `COMMIT` may fail with its outcome
unknown, and the context of the outermost `BeginTx` may end at any moment.

`Node` has the fields of the struct under their own names (`nil` and `""` are
`None`). `BeginTx`, `Commit` and `Rollback` are disjunctions of the branches
of the code; their last argument says whether the method returns a nil error.
A failing branch returns early and keeps the fields. `Exec` stands for the
eight methods that choose between the pool and the transaction in the same
way.

`NodeCalls` lets callers call every method of every node that exists.
`Reuse` allows `BeginTx` on a finished nested node, `Toggle` allows
`EnableSavepoint` at any time. `scope`, `ended`, `wrote` and `undone` are
history: no action reads them, except that a node does not write twice.

`Transaction` keeps, per goroutine, the frames of its nested calls. A call is
two steps (`Call`, then `Started` or `NotStarted`) because `Begin` waits for
a connection while others run. The handler writes, nests, returns an error,
returns nil or panics. `OuterUse` lets handlers use the
drivers their closures captured. The bound on the number of calls is the
number of nodes (`NodesLeft`).

`Selector` follows the mutex: a writer announces itself, new readers then
wait, the writer enters when those inside have left, and its `Unlock` lets in
the readers that waited. Each lookup, the connection, each driver closed and
each handler of `Retry` is a step. A `sql.DB` counts as closed when its
`Close` was called, with or without an error. `Selectors` is what the
constructors were given.

`Rows` follows one call from `driver.Query` to its return, for a slice or a
single value (`form`), of models and structs or of scannable values
(`scalar`), with columns that have a destination or not (`fits`). Slices of
models and structs look at the columns after each `Next`, the others once,
before the first. `Return` closes the rows where the code defers it: in the
three functions for slices, and in `rowWrapper.scan`, which for a single value
is `Next` and `Scan`. A result set may break under a call at any step
(`Break`: `database/sql` closes the rows and keeps the error), and the context
of a call that returned may end, which closes what it left open. `leaked`
counts the rows that no call refers to any more. A destination is how many
rows it got; a schema that cannot be built is a query that fails. A call whose
query runs in a `sql.Tx` would hold the connection of that transaction;
`Rows` has calls on the pool only.

`Models` describes a model by its table and the fields of its struct, each with its
type, the model it leads to, its shape (`T`, `*T`, slices of either and pointers to
those slices) and its tags, split into words; the conversion of a field's name to a
column is given. Where the code ranges over a Go map, an operator either takes an
order (`Orders`, the namespaces of tags) or is the set of what may come first
(`Found`, the foreign keys that fit). `Fields` is what reading a struct may give,
`Scan` a schema after its fields, `NewReference` what an association may become,
`HasValue` whether a column of a result set has a destination.

`Schemas` splits `GetSchema` at the reads and writes of the cache: one step
looks the model up and reads its struct, one step per association looks up or
builds the other end (which is never cached, `throughout` being false), the
last one infers the primary key and stores the schema under its table.
Associations may be built in any order. Without a cache the same steps run.

`Preload` keeps the instances as a heap of objects, each with the row it was read
from and, per association, the objects it holds; a pointer that two owners share is
one object. A call turns its handlers into `Operations`, one per path, and runs
those of a level in any order before the next (`Run`): the walker collects the
owners (`Walk`), the keys they lack or have decide whether the call fails (`Usable`:
a required foreign key or an own primary key is missing), asks nothing, or asks the
database, and the rows that come back, in any order, are attached (`AttachAll`, row
by row; `Attach` looks a row up in the index of the preloader, `Give` is the
`PushFieldValue` of one owner). The query may fail, and, because it goes through the
loops of `Rows`, its result may also break off before any row without an error: then
what was read is attached and the call goes on (`Fetch`). `cut` is history: the
operations of the call whose result broke off. What is held by value is reached as a
copy, and what the copy is given is lost. Others archive rows at any step. The
schemas are those a lone call builds (`Alone`); that they do not depend on the
circumstances is what `Schemas` checks.

`Save` holds one model with a primary key of the database, a plain column, one
with a default and, or not, an updated and a deleted key. An instance is what
the program holds; `live` and `data` are the table, `tx` what a rollback
restores. A statement fails (`Fail`), or is executed and its answer is lost,
outside of a transaction. An update that finds no row is an error exactly when
something is to be returned. The program edits an instance or puts a new one in
its place. Transactions do not nest here: that is `Transaction`'s subject.

The operators whose names contain an underscore (`Forget_Mistyped`,
`CloseDone_Early`...) are mutants: what a plausible mistake would make of the
definition that follows. No specification uses them; `PROJECT.json` says which
property finds which.

## 3. Runs

All runs take about two minutes at most on two cores each.

| run | instance | properties |
|---|---|---|
| `node_any_call` | 3 clones, 2 connections, savepoints, `Reuse` | `TypeOK`, `RolledBackIsGone`, `OnlyOwnerPublishes`, `RollbackDropsWrites` |
| `node_toggle` | 2 clones, 2 connections, `Toggle` | `OwnerHolds`, `OnlyOwnerPublishes` |
| `tx_savepoints` | 2 goroutines, 4 calls, 2 connections, panics | `TypeOK`, `FailedIsGone`, `AllOrNothing`, `StackMatchesCalls`, `ConnectionsReturned`, `Implements` |
| `tx_handlers` | 1 goroutine, 4 calls, 2 connections, `OuterUse` | `FailedIsGone`, `ConnectionsReturned` |
| `tx_returns` | 2 goroutines, 3 calls, 1 connection, fairness | `EveryCallReturns` |
| `selector` | 2 goroutines, 3 drivers, aliases `master`, `slave`, `Slave`, fairness | `TypeOK`, `NoLeakedDriver`, `NoStaleDriver`, `NeverReplaced`, `EveryCallReturns` |
| `rows` | 2 goroutines, 2 connections, up to 2 rows | `TypeOK`, `ReleasedAtReturn`, `NoRowsMeansNone` |
| `schemas` | 2 goroutines, 5 models of 4 tables, with and without a cache | `TypeOK`, `Complete`, `Repeatable`, `KeysKnown`, `Scannable` |
| `preload` | 2 calls, 7 rows of 3 models, paths of up to 3 levels | `TypeOK`, `RightOwner`, `NothingLost`, `OnceUnlessShared` |
| `save` | 2 instances, 2 rows, time up to 3 | `TypeOK`, `NilMeansStored`, `OneRowPerInstance`, `KeyExplained` |
| `tx_shared_rollback` | violation, no savepoints | `FailedIsGone` |
| `rows_incomplete` | violation | `NilIsComplete` |

Bounds. Three clones give a transaction, a nested one and either a sibling or a
third level, which is where savepoints are released and emptied out of order; four
calls give three levels beside a second goroutine's. `node_toggle` stays at two
clones, owner and nested, because the theorems about both of its properties cover
every number. One connection in `tx_returns` makes every second `Begin` wait. In
`selector` three drivers allow both aliases to be connected and one of them again
after a `Close`; two goroutines are what a double-checked lookup needs, and the
theorems cover any number. In `rows` two rows let a result set break before the
first, between the two and after the last, and two connections let a leaked one
still leave room for a call; the theorems cover every number of each. The models of
`schemas` and `preload` (`MCModels`) go round in circles (a post has two users and a
profile, a user a profile and posts, a profile posts), have keys that are said and
keys that are inferred, several foreign keys that fit one association, an
association of each kind of shape (`T`, `*T`, `[]*T`, `*[]T`), and two models of one
table with a field that two tags name. `preload` asks for six combinations of paths:
one that fills in a level, one handler after another on the same path, two paths
below one level, and one that comes back to the model it began with, from two posts
that share a profile, from one without any key, from a profile and from users, one
of whom was never stored. Two rows of posts let a result break off before the first,
between them, or not at all, on any level. `MaxCalls` is 2, so that a call meets
what an earlier one attached or left half done. In `save` two rows are what two
instances, or one that is inserted twice, need; `MaxNow` (3) lets two calls of
`Save` write, among any number of other calls. Clones, instances, goroutines and
nodes are symmetric where no liveness is checked. Deadlock is not checked for nodes
and transactions: their instances end when the clones are used up and everything is
closed. Nor is it for `schemas`, `preload` and `save`, whose calls stop at an error
or when a bound is reached. It is checked for the selector and for rows (a query
that waits for a pool of leaked connections may always fail, or a context end).

Fairness. `Transaction!FairSpec`: a `Begin` that can take a connection does
so, or fails on a nested driver, because `database/sql` serves waiting
requests and statements end; a handler that gets control again and again
returns at last (strong fairness of its return, because its own nested calls
take control away). Nothing is assumed to fail, to be cancelled or to be
called. The property needs handlers that use the driver they receive: with
`OuterUse` a handler may wait for the connection it holds itself, and TLC
finds that at once. `Selector!FairSpec`: a call in progress takes its next
step, connecting ends with a driver or an error, and a goroutine that waits
for `Lock` gets it when it is released again and again, which `sync.RWMutex`
promises by making new readers wait.

## 4. What the code does against its documentation

- `tx_shared_rollback`: without savepoints, which is the default, the writes
  of a nested `Transaction` whose handler returned an error are committed with
  the outermost one if its handler swallows that error (README.md:598). The
  README introduces nested transactions together with the option
  `SavepointEnabled` (README.md:637); without the option they are accepted all the same.
- `rows_incomplete`: the loops over `Next` never ask `Err`, so a slice that
  stops short of the result set is returned with a nil error (makroud.go:141).

Without a run; each is an exception that a property names, or a fact of the
model that no property forbids:

- The same loops end the query of a path of `Preload` (`preload.go:556` and `602`), so
  a call may return nil with an association that has rows left empty or half filled,
  although "if there is no error and if the user record has a profile, then you
  should have the `Profile` value loaded" (README.md:713). What is left of that
  promise is `NothingLost`: the operations whose own result did not break off lose
  nothing, whatever happened to the others.
- An association held by value (`T`) is loaded, but what a deeper path loads below it
  goes into a copy and is lost without an error (`walker.go:143`), although `Model` is
  one of the types that can be preloaded (README.md:193). `NothingLost` excepts these
  instances.
- The associations of a model are built before its primary key is inferred
  (`schema.go:404` and `410`), and a reference keeps a copy of the key: with a key that
  has no `pk` tag, which README.md:208 offers, `Preload` refuses every association
  whose foreign key is at the other end. `KeysKnown` excepts exactly these.
- `BeginTx` on a nested node that has ended copies `nested` and `savePointID`:
  the clone opens a `sql.Tx`, but its `Commit` returns nil, sends nothing and
  forgets the transaction with its connection (`node.go:172`). `OwnerHolds` is
  checked, and proved, without `Reuse`.
- `Commit` looks at `savePointID`, `Rollback` at `savePointEnabled` as well:
  with `EnableSavepoint(false)` in between, `Rollback` returns nil and rolls
  nothing back (`node.go:237`). `RollbackDropsWrites` is checked without
  `Toggle`.
- The client that `Begin` returns has no observer: a failing `Rollback` of a
  nested transaction is reported to nobody (`client.go:267`).
- A single value whose columns do not fit returns before `Scan`, and nothing
  closes its rows (`helpers.go:300`, `schema.go:264`; `ReleasedAtReturn`).
- The context of a nested `BeginTx` is ignored (`node.go:191`); a handler that
  panics leaves its transaction open (`transaction.go:36`; the properties of
  `Transaction`); a driver given under a name with a capital is never found
  (`selector.go:69`).
- `Save` of an instance whose row is gone returns nil when the model has no
  updated key: nothing is to be returned, so `ErrNoRows` is ignored
  (`save.go:51`; `NilMeansStored`). With one it is an error.
- `Archive` does not scan the deleted key it asks for (`delete.go:73`): the next
  `Save` of the instance writes its old value over it.
- An instance that several pointers lead to is walked once for each, and
  its associations to many are appended to as often (`walker.go:156`;
  `OnceUnlessShared`); so is every association to many on a second call.
- Two models of one table get each other's schema from the cache (`cache.go:25`),
  and a key that two namespaces say, or several foreign keys that fit, are
  decided by the order of a Go map (`tags.go:208`, `fk.go:412`; `Repeatable`).
- `CreatedKeyPath` asks for the updated key (`schema.go:68`): a model with only
  a created key panics. Nothing in the library calls it.

## 5. What is proved

For all values of the constants, from the named assumptions of the modules
only.

`NodeCalls_proofs`: `TypeCorrect` (`Spec => []TypeOK`), `OwnerAlwaysHolds`
(`Spec => []OwnerHolds` when `Reuse` is FALSE) and `OwnerPublishes`
(`Spec => OnlyOwnerPublishes`). `OwnerHolds` is not inductive: that a held
session has one owner says nothing of a node whose session is not held yet or
no longer. The invariant is `Ownership`: a node that is not nested has no
savepoint and no other session than its own; unless nested nodes are reused,
every held session is referred to by the node it is named after; and a node
that does not exist has no session. Each method is summed up by a lemma
(`BeginEffect`, `CommitEffect`, `RollbackEffect`, `ExecEffect`) in terms of
what it does to sessions as a whole (it keeps them all, it begins one, it ends
one); `SqlTx_proofs` holds the facts about the stacks these rest on.

Under `Savepoints` and without `Toggle` it also proves `RolledBackStaysGone`
(`[]RolledBackIsGone`) and `RollbackAlwaysDrops` (`Spec => RollbackDropsWrites`),
`Reuse` included: callers may end parents before children, go on with nodes
whose savepoint is gone, and begin on nodes that have ended. `EnableSavepoint` must
be excluded for the reason given in section 4. The invariant is `CallInv`. A
node that is in a transaction works in the one session of its scope, and the
savepoint it names is its own, or that of a node of another session, which no
statement can find (`Placed`, `Within`): this is what reusing a nested node amounts
to. A write lies in its session at or above every savepoint of its scope
(`StackOK`), so `ROLLBACK TO` takes it, whatever `RELEASE` has merged before. What
was saved belongs to sessions that are done (`Saved`), and what is covered by a
rollback lies on no stack that may still be committed (`Gone`). Nine kinds of
step (`Kinds`) stand for the branches of `node.go`; the lemmas about stacks that
are cut, merged and emptied are in `SqlTx_proofs` and serve this proof and those
of `Transaction_proofs`.

`Transaction_proofs`: `CallsNest` (`Spec => [](TypeOK /\ CallsInv)`),
`TypeCorrect` and `NoConnectionKept` (`[]ConnectionsReturned`), with or without
savepoints, `OuterUse` and panics, for any number of goroutines, nodes and
connections. `CallsInv` says what a call may rely on when it returns: its clone
is no other call's (`Apart`), works in the session which the outermost call of
its scope opened, and refers to it still (`CallsOK`); a clone that does not
exist yet has no session, no scope and no outcome (`Fresh`); the writes of a
scope have one session (`Rooted`). Steps are first summed up by what they do to
the calls (`Kinds`: one opens a session, one nests in it, one ends, none
does), so that each part is checked against five kinds of step instead of
every branch of `node.go`.

The second half of `Transaction_proofs` is about the savepoints, under `Savepoints`.
`StackHolds`, `FailedStaysGone` (`[]FailedIsGone`) hold whatever drivers the
handlers use; `ScopesHold`, `StackStaysMatched` (`[]StackMatchesCalls`),
`CommittedTogether` (`[]AllOrNothing`) and `NestsAllOrNothing`
(`Spec => Implements`) are for handlers that use the driver they receive
(`~OuterUse`). These two hypotheses are not for the prover's convenience: without
savepoints `tx_shared_rollback` violates `FailedIsGone`, and a handler that writes
through the driver of an enclosing scope puts its write above savepoints that
are not its own, where a nested rollback that it has nothing to do with takes
it away. The invariants are:

- `StackInv`. `FailedIsGone` speaks of durable writes; what decides is where a
  write lies on the stack before `COMMIT`. Each layer but the first belongs to one
  call (`Shape`), the layers of a goroutine are in the order of its calls
  (`Ordered`), a write lies in the layer of its call or above (`WritesOK`), and
  a layer that may still be committed holds no write of a call that failed
  (`Clean`). A `ROLLBACK TO` that the server refuses, whose error the code drops,
  leaves such writes on the stack: then the session is aborted or lost, and only
  layers below the savepoint of a call that is still in progress can survive
  (`Survives`). That is why a dropped rollback error does no harm.
- `ScopeInv`. Above the savepoint of a call lie only writes of that call and of
  calls inside it (`Inside`), whose frames are its scope (`Chain`); as long as
  the session can still be committed, no write is missing whose calls returned
  nil or are in progress (`Complete`);
  and after the outermost call they are durable, or none is (`Settled`).

The refinement maps a scope to what its layers hold less the writes of failed calls.
The proof first rewrites that as the live writes of the session (`Live`) which
belong to the call and to no call inside it (`Own`, `Mapped`): it no longer
speaks of positions. Each kind of step then has a lemma: statements that fail,
cancellations and panics of the outermost call are stutters or `Drop`
(`QuietMaps`, `DropMaps`), a `BEGIN` or `SAVEPOINT` is `Open`, a write is `Put`, a
`RELEASE` or a recovered panic is `KeepInner` (`JoinMaps`), a rollback is `Drop`,
and the last `COMMIT` is `KeepOutermost`, or `Drop` when it failed and nothing
was saved (`EndMaps`).

`Selector_proofs`: `TypeCorrect`, `NothingLeaks` (`[]NoLeakedDriver`),
`EntriesStay` (`NeverReplaced`) and `NothingStale` (`[]NoStaleDriver`), for
any number of goroutines, aliases and drivers. The invariant `Exclusion` says
who is the writer, that readers are out while it is inside, and that the entry
about to be filled is still empty: the last part is what the second lookup is
for. `Freshness` adds that, while no `Close` is in its loop, the map holds open
drivers, none of which was closed before a call in progress began.

`Rows_proofs`: `TypeCorrect`, `Released` (`[]ReleasedAtReturn`) and
`BrokenIsNotEmpty` (`[]NoRowsMeansNone`). The invariant has two parts. `InOrder`
is about one call, so that a step is checked for its own caller only
(`OnlyOne`): rows that are closed under a call in progress carry an error, and a
single value has not moved its cursor before `scan`, which is why no row and no
error together mean an empty result set. `InUse <= MaxOpen` is about all calls:
`PoolStep` shows that rows move to `leaked` one by one, are closed, or are
opened by a `Query` that found room.

`Schemas_proofs`: `TypeCorrect`, `CompleteSchemas` (`[]Complete`),
`RepeatableSchemas` (`[]Repeatable`), `KeysOfAssociations` (`[]KeysKnown`) and
`RowsFit` (`[]Scannable`), for any models, any number of goroutines and every
order of the Go maps, from `FieldsAssumption`: fields are numbered and associate
models, and no two of a model have one column. The invariant says of every schema
what it was made from (`Made`, and `Building` while a call is at it): it is what
`Scan` reads from some order of the tags, with its primary key, and each of its
references (`Refers`) is one that `Found` allows between that struct and another
end of the right table (`EndOf`), whole or bare. It is inductive because
`NewReference` only looks at columns and names of the other end (`SameFound`), so
that it does not matter whether the cache had it. The properties then follow from
`Made` alone, one lemma each: a tagged key is another field than the columns and
an inferred one is taken from them (`BaseKey`, `MadeWhole`); where nothing is
ambiguous there is one reading of each struct (`OneReading`), one bare end and
one key, so the reference is the one of a lone call (`SteadyEnds`,
`SteadyMade`). `KeysKnown` and `Scannable` depend on the models, and the theorems
say how: `KeysFit` asks that a foreign key has a type that fits the primary key
it refers to, which `getSchema` does not check and `Preload` answers with an
error; `SameColumns` that the models of one table, if an association leads
there, have the same columns. Both hold of the models of the run `schemas`.

`Save_proofs`: `TypeCorrect`, `NilIsStored`, `OneRow` and `KeysExplained`, for any
number of instances and rows. `NilMeansStored` and `KeyExplained` are inductive with
the types alone. `OneRowPerInstance` also needs that an instance without a key has
made no row, unless an insert of it ended with an error (`Unsaved`): that is what an
error before, or a rollback after, the insert must not break.

`Preload_proofs`: `PreloadKeeps` (`Spec => []IInv`), `TypeCorrect`, `OwnersAreRight`
(`[]RightOwner`), `NothingIsLost` (`[]NothingLost`) and `OnceIsOnce`
(`[]OnceUnlessShared`), for any models, any finite set of rows, any handlers, paths
of any depth, any sharing of pointers, any number of calls and results that break
off anywhere. `NothingIsLost` is about the operations whose own result was whole:
the others may miss rows (section 4). The constants are asked for what Go's types
promise, and for no more: the instances of a slice are of one model, a path is not
empty, and an association is filed under its own name.
`NothingLost` and `OnceUnlessShared` speak of calls that are over, so `IInv` says
what holds half way:

- Every operation that has run is served: its instances hold what its handler asked
  for, unless its own result broke off (`Served`, with the set `cut`). A later step
  keeps that only if it adds no instances to a path that has been served, so what is
  left to do is never above what has run (`InOrder`): this is why `preload` goes
  level by level.
- The operations of one level must not get in each other's way either, although
  their instances may share objects. Every object has one path on which it is
  reached (`Labels`): what a query returns becomes new objects, one path each, and
  only the roots have the empty path. An operation changes objects that carry the
  path of its owners, and these are not on the way to any other owners of the same
  level or of one above (`WalkSame`); that they may be the same owners leaves it
  another association of theirs.
- In a first call an association is empty until the operation of its path has run,
  so that nothing is appended to what was there (`FirstCall`). A second call finds
  the associations to many filled, and appends again.

A step is summed up by what it does to the heap: it grows, and nothing but one
association of the owners changes (`Grew`), which gets what the query found
(`Fetched`). `GrewServed`, `GrewLabels`, `GrewSound` and `GrewOnce` carry the parts
of `IInv` over such a step; `FetchServed` and `FetchOnce` establish them for the
operation that ran.

The walker and `Attach` are folds, so these facts rest on inductions. The library's
induction theorems take a predicate, which the provers cannot instantiate; here the
predicate is the set of the numbers for which it holds (`Upto`), and that a set of
numbers has a least one follows from the well-foundedness of `<` (`LeastNat`). A fold
of the community modules is a `CHOOSE` of a function: `FoldExists` shows that there is
one, and `WalkForm`, `AttachForm` and `AttachAllForm` turn the folds of the model into
sequences of the owners, or heaps, in between.

Only model-checked: liveness (`EveryCallReturns` of `Transaction` and of
`Selector`), which the prover does not handle.

## 6. Not modelled

- `Hooks`: every method calls the hook, the wrapped driver and the hook in a
  row and keeps no state. What passes by them (a statement that was prepared,
  `hooks.go:88`) is decided in `database/sql`.
- `snaker`: a pure conversion of characters. A model gives the column of each
  field with its name.
- The cache of `schemaless.go`: a map of columns by type, which depends on
  nothing but the type; scanning into such a struct is part of `Rows`.
- Observers, loggers, options, debug output, connection strings: they change no
  state of the library.
- SQL text and the query builder (an external library), and the helpers of
  `reflectx` that only wrap package `reflect`.
- What a handler given to `Retry` appends twice to its own slice: it is code of
  the program.

What would come next: the composition of `Save` with nested transactions.
