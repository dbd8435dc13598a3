------------------------------ MODULE Selector ------------------------------
(***************************************************************************)
(* selector.go: a pool of drivers indexed by alias, opened on first use by *)
(* goroutines that call Using, RetryAliases (also as RetryMaster and Ping) *)
(* and Close concurrently.  Using reads the map under RLock, then looks    *)
(* again under Lock before it connects; Close empties the map under Lock.  *)
(***************************************************************************)
EXTENDS Naturals, Sequences, FiniteSets

CONSTANTS Caller,       \* goroutines
          Name,         \* the spellings of aliases
          Lower(_),     \* strings.ToLower
          Driver,       \* every driver that can ever be opened
          Selectors,    \* what a constructor was given: the keys of configurations
                        \* (NewSelector) or drivers by name (NewSelectorWithDriver(s))
          RetryLists,   \* the alias lists callers give to RetryAliases
          None

ASSUME NoneAssumption == None \notin Driver \cup Caller
ASSUME LowerAssumption == \A n \in Name : Lower(n) \in Name /\ Lower(Lower(n)) = Lower(n)
ASSUME SelectorsAssumption ==
    Selectors \subseteq [configured: SUBSET Name, given: [Name -> Driver \cup {None}]]
ASSUME RetryAssumption == RetryLists \subseteq Seq(Name)

VARIABLES configurations,   \* the keys of configurations, never changed
          writer,        \* the goroutine that has announced a Lock, or None
          readers,       \* the goroutines between RLock and RUnlock
          connections,   \* the drivers of the pool, None where the key is absent
          open,          \* drivers whose sql.DB is not closed
          used,          \* drivers opened so far
          pc, alias, todo, drivers, retrying,   \* locals of the calls in progress
          got,           \* the driver the last Using of a goroutine returned
          stale          \* history: drivers closed before that call began

mutexVars == <<writer, readers>>
localVars == <<alias, todo, drivers, retrying>>
vars == <<configurations, mutexVars, connections, open, used, pc, localVars, got, stale>>

Steps == {"idle", "rlock", "read", "lock", "drain", "check", "connect",
          "closelock", "closedrain", "close", "next", "try"}

TypeOK == /\ configurations \in SUBSET Name
          /\ writer \in Caller \cup {None}
          /\ readers \in SUBSET Caller
          /\ connections \in [Name -> Driver \cup {None}]
          /\ open \in SUBSET Driver
          /\ used \in SUBSET Driver
          /\ pc \in [Caller -> Steps]
          /\ alias \in [Caller -> Name \cup {None}]
          /\ todo \in [Caller -> Seq(Name)]
          /\ drivers \in [Caller -> Seq(Driver)]
          /\ retrying \in [Caller -> BOOLEAN]
          /\ got \in [Caller -> Driver \cup {None}]
          /\ stale \in [Caller -> SUBSET Driver]

Init == /\ \E s \in Selectors : /\ configurations = s.configured
                               /\ connections = s.given
        /\ writer = None
        /\ readers = {}
        /\ open = {connections[n] : n \in Name} \ {None}
        /\ used = open
        /\ pc = [c \in Caller |-> "idle"]
        /\ alias = [c \in Caller |-> None]
        /\ todo = [c \in Caller |-> <<>>]
        /\ drivers = [c \in Caller |-> <<>>]
        /\ retrying = [c \in Caller |-> FALSE]
        /\ got = [c \in Caller |-> None]
        /\ stale = [c \in Caller |-> {}]

------------------------------------------------------------------------------
Goto(c, step) == pc' = [pc EXCEPT ![c] = step]

\* sync.RWMutex.  A writer that has announced itself keeps new readers out and
\* waits for those inside; its Unlock lets in every reader that waited.
RLock(c) ==
    /\ pc[c] = "rlock" /\ writer = None
    /\ readers' = readers \cup {c}
    /\ Goto(c, "read")
    /\ UNCHANGED <<configurations, writer, connections, open, used, localVars, got, stale>>

Announce(c) ==
    /\ pc[c] \in {"lock", "closelock"} /\ writer = None
    /\ writer' = c
    /\ Goto(c, IF pc[c] = "lock" THEN "drain" ELSE "closedrain")
    /\ UNCHANGED <<configurations, readers, connections, open, used, localVars, got, stale>>

Lock(c) ==
    /\ pc[c] \in {"drain", "closedrain"} /\ readers = {}
    /\ Goto(c, IF pc[c] = "drain" THEN "check" ELSE "close")
    /\ UNCHANGED <<configurations, mutexVars, connections, open, used, localVars, got, stale>>

UnlockAndGoto(c, step) ==
    /\ writer' = None
    /\ readers' = {r \in Caller : pc[r] = "rlock"}
    /\ pc' = [r \in Caller |-> IF r = c THEN step
                               ELSE IF pc[r] = "rlock" THEN "read" ELSE pc[r]]

------------------------------------------------------------------------------
\* Using and RetryAliases are called.  stale is what a new call must not return.
CallUsing(c, name) ==
    /\ pc[c] = "idle"
    /\ alias' = [alias EXCEPT ![c] = Lower(name)]
    /\ retrying' = [retrying EXCEPT ![c] = FALSE]
    /\ stale' = [stale EXCEPT ![c] = used \ open]
    /\ got' = [got EXCEPT ![c] = None]
    /\ Goto(c, "rlock")
    /\ UNCHANGED <<configurations, mutexVars, connections, open, used, todo, drivers>>

CallRetry(c, names) ==
    /\ pc[c] = "idle"
    /\ todo' = [todo EXCEPT ![c] = names]
    /\ drivers' = [drivers EXCEPT ![c] = <<>>]
    /\ retrying' = [retrying EXCEPT ![c] = TRUE]
    /\ stale' = [stale EXCEPT ![c] = used \ open]
    /\ got' = [got EXCEPT ![c] = None]
    /\ Goto(c, "next")
    /\ UNCHANGED <<configurations, mutexVars, connections, open, used, alias>>

\* What becomes of the driver, or the error (None), that Using returns: the
\* goroutine has it, or RetryAliases collects it and skips errors.
AfterUsing(c) == IF retrying[c] THEN "next" ELSE "idle"
Deliver(c, d) ==
    /\ got' = [got EXCEPT ![c] = d]
    /\ drivers' = IF retrying[c] /\ d # None
                  THEN [drivers EXCEPT ![c] = Append(@, d)] ELSE drivers
    /\ UNCHANGED <<alias, todo, retrying, stale>>

Read(c) ==
    /\ pc[c] = "read"
    /\ readers' = readers \ {c}
    /\ LET d == connections[alias[c]] IN
           \/ /\ d # None
              /\ Deliver(c, d)
              /\ Goto(c, AfterUsing(c))
           \/ /\ d = None
              /\ Goto(c, "lock")
              /\ UNCHANGED <<localVars, got, stale>>
    /\ UNCHANGED <<configurations, writer, connections, open, used>>

CanConnect(a) == \E name \in configurations : Lower(name) = a

\* Mutant: only the configurations are read under Lock.
Check_NoReread(c) ==
    /\ pc[c] = "check"
    /\ IF CanConnect(alias[c])
       THEN Goto(c, "connect") /\ UNCHANGED <<mutexVars, localVars, got, stale>>
       ELSE Deliver(c, None) /\ UnlockAndGoto(c, AfterUsing(c))
    /\ UNCHANGED <<configurations, connections, open, used>>

\* The map is read again under Lock, then the configurations.
Check(c) ==
    /\ pc[c] = "check"
    /\ LET d == connections[alias[c]] IN
           \/ /\ d # None \/ ~CanConnect(alias[c])
              /\ Deliver(c, d)
              /\ UnlockAndGoto(c, AfterUsing(c))
           \/ /\ d = None /\ CanConnect(alias[c])
              /\ Goto(c, "connect")
              /\ UNCHANGED <<mutexVars, localVars, got, stale>>
    /\ UNCHANGED <<configurations, connections, open, used>>

\* NewWithOptions succeeds, the driver is kept.
Connected(c, d) ==
    /\ pc[c] = "connect"
    /\ d \notin used
    /\ used' = used \cup {d}
    /\ open' = open \cup {d}
    /\ connections' = [connections EXCEPT ![alias[c]] = d]
    /\ Deliver(c, d)
    /\ UnlockAndGoto(c, AfterUsing(c))
    /\ UNCHANGED configurations

\* Mutant: Unlock is forgotten on the error path.
NotConnected_NoUnlock(c) ==
    /\ pc[c] = "connect"
    /\ Deliver(c, None)
    /\ Goto(c, AfterUsing(c))
    /\ UNCHANGED <<configurations, mutexVars, connections, open, used>>

\* NewWithOptions fails.
NotConnected(c) ==
    /\ pc[c] = "connect"
    /\ Deliver(c, None)
    /\ UnlockAndGoto(c, AfterUsing(c))
    /\ UNCHANGED <<configurations, connections, open, used>>

------------------------------------------------------------------------------
\* RetryAliases: the next alias, or Retry with the drivers found.
NextAlias(c) ==
    /\ pc[c] = "next" /\ todo[c] # <<>>
    /\ alias' = [alias EXCEPT ![c] = Lower(Head(todo[c]))]
    /\ todo' = [todo EXCEPT ![c] = Tail(@)]
    /\ Goto(c, "rlock")
    /\ UNCHANGED <<configurations, mutexVars, connections, open, used, drivers, retrying, got, stale>>

\* Retry without a driver is ErrSelectorMissingRetryConnection.
StartRetry(c) ==
    /\ pc[c] = "next" /\ todo[c] = <<>>
    /\ Goto(c, IF drivers[c] = <<>> THEN "idle" ELSE "try")
    /\ UNCHANGED <<configurations, mutexVars, connections, open, used, localVars, got, stale>>

\* The handler runs on the first driver left; Retry returns when it succeeds
\* (which takes an open driver) or was the last one.
Try(c, ok) ==
    /\ pc[c] = "try" /\ drivers[c] # <<>>
    /\ ok => Head(drivers[c]) \in open
    /\ drivers' = [drivers EXCEPT ![c] = IF ok THEN <<>> ELSE Tail(@)]
    /\ Goto(c, IF ok \/ Len(drivers[c]) = 1 THEN "idle" ELSE "try")
    /\ UNCHANGED <<configurations, mutexVars, connections, open, used, alias, todo, retrying, got, stale>>

------------------------------------------------------------------------------
CallClose(c) ==
    /\ pc[c] = "idle"
    /\ got' = [got EXCEPT ![c] = None]
    /\ Goto(c, "closelock")
    /\ UNCHANGED <<configurations, mutexVars, connections, open, used, localVars, stale>>

\* One turn of the loop over connections.  A sql.DB whose Close returns an
\* error is closed all the same; the loop goes on.
CloseOne(c, n) ==
    /\ pc[c] = "close"
    /\ connections[n] \in open
    /\ open' = open \ {connections[n]}
    /\ UNCHANGED <<configurations, mutexVars, connections, used, pc, localVars, got, stale>>

\* Mutants: the map keeps its closed drivers, is replaced although the loop stopped
\* early, or is set to nil.
CloseDone_KeepsMap(c) ==
    /\ pc[c] = "close"
    /\ \A n \in Name : connections[n] \notin open
    /\ UnlockAndGoto(c, "idle")
    /\ UNCHANGED <<configurations, connections, open, used, localVars, got, stale>>

CloseDone_Early(c) ==
    /\ pc[c] = "close"
    /\ connections' = [n \in Name |-> None]
    /\ UnlockAndGoto(c, "idle")
    /\ UNCHANGED <<configurations, open, used, localVars, got, stale>>

CloseDone_Nil(c) ==
    /\ pc[c] = "close"
    /\ \A n \in Name : connections[n] \notin open
    /\ connections' = <<>>
    /\ UnlockAndGoto(c, "idle")
    /\ UNCHANGED <<configurations, open, used, localVars, got, stale>>

\* The loop is over: the map is replaced and Close returns its first failure.
CloseDone(c) ==
    /\ pc[c] = "close"
    /\ \A n \in Name : connections[n] \notin open
    /\ connections' = [n \in Name |-> None]
    /\ UnlockAndGoto(c, "idle")
    /\ UNCHANGED <<configurations, open, used, localVars, got, stale>>

Calls(c) == \/ \E name \in Name : CallUsing(c, name)
            \/ \E names \in RetryLists : CallRetry(c, names)
            \/ CallClose(c)

Step(c) == \/ RLock(c) \/ Announce(c) \/ Lock(c) \/ Read(c) \/ Check(c)
           \/ (\E d \in Driver : Connected(c, d)) \/ NotConnected(c)
           \/ NextAlias(c) \/ StartRetry(c) \/ (\E ok \in BOOLEAN : Try(c, ok))
           \/ (\E n \in Name : CloseOne(c, n)) \/ CloseDone(c)

Next == \E c \in Caller : Calls(c) \/ Step(c)

Spec == Init /\ [][Next]_vars

\* Nobody has to call.  A call in progress takes its next step (connecting
\* comes to an end, one way or the other), and sync.RWMutex starves no writer.
Fairness == \A c \in Caller : WF_vars(Step(c)) /\ SF_vars(Announce(c))

FairSpec == Spec /\ Fairness

------------------------------------------------------------------------------
\* Every open driver can still be reached through the map: two goroutines that
\* miss the same alias never open two pools of which one is forgotten, and Close
\* forgets no driver it has not closed.
NoLeakedDriver == \A d \in open : \E n \in Name : connections[n] = d

\* Whoever asks for an alias gets the same driver until Close: an entry is never
\* replaced, only dropped, and with it all the others.
NeverReplaced == [][\A n \in Name : connections[n] # None =>
                        \/ connections'[n] = connections[n]
                        \/ \A m \in Name : connections'[m] = None]_vars

\* A call that begins after Close closed a driver is never given that driver.
NoStaleDriver == \A c \in Caller : got[c] \notin stale[c]

\* Why these hold.  The goroutine past Announce is the writer; inside Lock there
\* is no reader, and the entry it is about to fill is still empty.
Writing(c) == pc[c] \in {"drain", "check", "connect", "closedrain", "close"}
Exclusion ==
    /\ \A c \in Caller : Writing(c) => writer = c
    /\ readers = {c \in Caller : pc[c] = "read"}
    /\ \A c \in Caller : pc[c] \in {"check", "connect", "close"} => readers = {}
    /\ \A c \in Caller : pc[c] = "connect" => connections[alias[c]] = None
    /\ \A c \in Caller : pc[c] \in {"rlock", "read", "lock", "drain", "check", "connect"}
                            => alias[c] \in Name

\* Unless a Close is under way the map holds open drivers, none of which was
\* closed before some call in progress began.
Freshness ==
    /\ open \subseteq used
    /\ \A c \in Caller : stale[c] \subseteq used
    /\ (\A c \in Caller : pc[c] # "close") =>
           \A n \in Name : /\ connections[n] \in open \cup {None}
                           /\ \A c \in Caller : connections[n] \notin stale[c]

\* Every call returns: no goroutine waits for the mutex, or holds it, for ever.
EveryCallReturns == \A c \in Caller : pc[c] # "idle" ~> pc[c] = "idle"
=============================================================================
