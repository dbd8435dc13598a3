--------------------------- MODULE Selector_proofs ---------------------------
(***************************************************************************)
(* For any number of goroutines, aliases and drivers: the selector forgets *)
(* no open driver, never replaces an entry of its map, and never serves a  *)
(* driver that was closed before the call began.                           *)
(***************************************************************************)
EXTENDS Selector, SequenceTheorems, TLAPS

------------------------------------------------------------------------------
\* Every step keeps the state well typed.
LEMMA TypeStep == TypeOK /\ Exclusion /\ [Next]_vars => TypeOK'
<1> SUFFICES ASSUME TypeOK, Exclusion, [Next]_vars PROVE TypeOK'
  OBVIOUS
<1> USE DEF TypeOK, Steps
<1>1. CASE UNCHANGED vars
  BY <1>1 DEF vars, mutexVars, localVars
<1>2. ASSUME NEW c \in Caller, Calls(c)
      PROVE  TypeOK'
  <2>1. ASSUME NEW name \in Name, CallUsing(c, name) PROVE TypeOK'
    BY <2>1, LowerAssumption DEF CallUsing, Goto, mutexVars
  <2>2. ASSUME NEW names \in RetryLists, CallRetry(c, names) PROVE TypeOK'
    BY <2>2, RetryAssumption, EmptySeq DEF CallRetry, Goto, mutexVars
  <2>3. CASE CallClose(c)
    BY <2>3 DEF CallClose, Goto, mutexVars, localVars
  <2> QED
    BY <1>2, <2>1, <2>2, <2>3 DEF Calls
<1>3. ASSUME NEW c \in Caller, Step(c)
      PROVE  TypeOK'
  <2>1. CASE RLock(c) \/ Announce(c) \/ Lock(c)
    BY <2>1 DEF RLock, Announce, Lock, Goto, mutexVars, localVars
  <2>2. ASSUME NEW d \in Driver \cup {None}, Deliver(c, d)
        PROVE  /\ alias' \in [Caller -> Name \cup {None}]
               /\ todo' \in [Caller -> Seq(Name)]
               /\ drivers' \in [Caller -> Seq(Driver)]
               /\ retrying' \in [Caller -> BOOLEAN]
               /\ got' \in [Caller -> Driver \cup {None}]
               /\ stale' \in [Caller -> SUBSET Driver]
    <3>1. d # None => Append(drivers[c], d) \in Seq(Driver)
      BY AppendProperties
    <3> QED
      BY <2>2, <3>1 DEF Deliver
  <2>3. ASSUME NEW step \in {"next", "idle"}, UnlockAndGoto(c, step)
        PROVE  /\ writer' \in Caller \cup {None}
               /\ readers' \in SUBSET Caller
               /\ pc' \in [Caller -> Steps]
    BY <2>3 DEF UnlockAndGoto
  <2>4. AfterUsing(c) \in {"next", "idle"}
    BY DEF AfterUsing
  <2>5. CASE Read(c)
    <3>1. connections[alias[c]] \in Driver \cup {None}
      BY <2>5 DEF Read, Exclusion
    <3>2. CASE Deliver(c, connections[alias[c]]) /\ Goto(c, AfterUsing(c))
      BY <2>5, <2>2, <2>4, <3>1, <3>2 DEF Read, Goto
    <3>3. CASE Goto(c, "lock") /\ UNCHANGED <<localVars, got, stale>>
      BY <2>5, <3>3 DEF Read, Goto, localVars
    <3> QED
      BY <2>5, <3>2, <3>3 DEF Read
  <2>6. CASE Check(c)
    <3>1. connections[alias[c]] \in Driver \cup {None}
      BY <2>6 DEF Check, Exclusion
    <3>2. CASE Deliver(c, connections[alias[c]]) /\ UnlockAndGoto(c, AfterUsing(c))
      BY <2>6, <2>2, <2>3, <2>4, <3>1, <3>2 DEF Check
    <3>3. CASE Goto(c, "connect") /\ UNCHANGED <<mutexVars, localVars, got, stale>>
      BY <2>6, <3>3 DEF Check, Goto, mutexVars, localVars
    <3> QED
      BY <2>6, <3>2, <3>3 DEF Check
  <2>7. ASSUME NEW d \in Driver, Connected(c, d) PROVE TypeOK'
    BY <2>7, <2>2, <2>3, <2>4 DEF Connected
  <2>8. CASE NotConnected(c)
    BY <2>8, <2>2, <2>3, <2>4 DEF NotConnected
  <2>9. CASE NextAlias(c)
    <3>1. Head(todo[c]) \in Name /\ Tail(todo[c]) \in Seq(Name)
      BY <2>9, HeadTailProperties DEF NextAlias
    <3>2. Lower(Head(todo[c])) \in Name
      BY <3>1, LowerAssumption
    <3> QED
      BY <2>9, <3>1, <3>2 DEF NextAlias, Goto, mutexVars
  <2>10. CASE StartRetry(c)
    BY <2>10 DEF StartRetry, Goto, mutexVars, localVars
  <2>11. ASSUME NEW ok \in BOOLEAN, Try(c, ok) PROVE TypeOK'
    <3>1. drivers'[c] \in Seq(Driver) /\ drivers' = [drivers EXCEPT ![c] = drivers'[c]]
      <4>1. Tail(drivers[c]) \in Seq(Driver)
        BY <2>11, HeadTailProperties DEF Try
      <4> QED
        BY <2>11, <4>1, EmptySeq DEF Try
    <3>2. drivers' \in [Caller -> Seq(Driver)]
      BY <3>1
    <3> QED
      BY <2>11, <3>2 DEF Try, Goto, mutexVars
  <2>12. ASSUME NEW n \in Name, CloseOne(c, n) PROVE TypeOK'
    BY <2>12 DEF CloseOne, mutexVars, localVars
  <2>13. CASE CloseDone(c)
    BY <2>13, <2>3 DEF CloseDone, localVars
  <2> QED
    BY <1>3, <2>1, <2>5, <2>6, <2>7, <2>8, <2>9, <2>10, <2>11, <2>12, <2>13 DEF Step
<1> QED
  BY <1>1, <1>2, <1>3 DEF Next

------------------------------------------------------------------------------
\* A step of a goroutine that is not writing leaves the map, the drivers and the
\* writer alone, and a goroutine changes nobody's pc but its own, except that
\* Unlock admits the readers that wait.
LEMMA ExclusionStep == TypeOK /\ Exclusion /\ [Next]_vars => Exclusion'
<1> SUFFICES ASSUME TypeOK, Exclusion, [Next]_vars PROVE Exclusion'
  OBVIOUS
<1> USE NoneAssumption DEF Exclusion, Writing
<1>0. /\ pc \in [Caller -> Steps] /\ readers \subseteq Caller
      /\ connections \in [Name -> Driver \cup {None}]
      /\ alias \in [Caller -> Name \cup {None}]
      /\ writer \in Caller \cup {None}
  BY DEF TypeOK
<1>1. CASE UNCHANGED vars
  BY <1>1 DEF vars, mutexVars, localVars
<1>2. ASSUME NEW c \in Caller, Calls(c)
      PROVE  Exclusion'
  <2>1. ASSUME NEW name \in Name, CallUsing(c, name) PROVE Exclusion'
    BY <1>0, <2>1, LowerAssumption DEF CallUsing, Goto, mutexVars
  <2>2. ASSUME NEW names \in RetryLists, CallRetry(c, names) PROVE Exclusion'
    BY <1>0, <2>2 DEF CallRetry, Goto, mutexVars
  <2>3. CASE CallClose(c)
    BY <1>0, <2>3 DEF CallClose, Goto, mutexVars, localVars
  <2> QED
    BY <1>2, <2>1, <2>2, <2>3 DEF Calls
<1>3. ASSUME NEW c \in Caller, Step(c)
      PROVE  Exclusion'
  <2>1. CASE RLock(c)
    BY <1>0, <2>1 DEF RLock, Goto, localVars
  <2>2. CASE Announce(c)
    BY <1>0, <2>2 DEF Announce, Goto, localVars
  <2>3. CASE Lock(c)
    BY <1>0, <2>3 DEF Lock, Goto, mutexVars, localVars
  <2>4. ASSUME NEW step \in {"next", "idle"}, UnlockAndGoto(c, step),
               Writing(c), readers = {}, UNCHANGED alias
        PROVE  Exclusion'
    <3>1. \A r \in Caller : pc[r] # "read" /\ (r # c => ~Writing(r))
      BY <1>0, <2>4
    <3>2. ASSUME NEW r \in Caller
          PROVE  /\ r = c => pc'[r] = step
                 /\ r # c /\ pc[r] = "rlock" => pc'[r] = "read"
                 /\ r # c /\ pc[r] # "rlock" => pc'[r] = pc[r]
      BY <1>0, <2>4 DEF UnlockAndGoto
    <3>3. readers' = {r \in Caller : pc[r] = "rlock"} /\ pc[c] # "rlock"
      BY <2>4 DEF UnlockAndGoto
    <3>4. ASSUME NEW r \in Caller
          PROVE  /\ pc'[r] \notin {"drain", "check", "connect", "closedrain", "close"}
                 /\ pc'[r] = "read" <=> pc[r] = "rlock"
                 /\ pc'[r] \in {"rlock", "read", "lock"} => alias'[r] \in Name
      <4>1. CASE r = c
        BY <2>4, <3>2, <3>3, <4>1
      <4>2. CASE r # c /\ pc[r] = "rlock"
        BY <1>0, <2>4, <3>2, <4>2
      <4>3. CASE r # c /\ pc[r] # "rlock"
        BY <1>0, <2>4, <3>1, <3>2, <4>3
      <4> QED
        BY <4>1, <4>2, <4>3
    <3> QED
      BY <3>3, <3>4
  <2>5. AfterUsing(c) \in {"next", "idle"}
    BY DEF AfterUsing
  <2>6. CASE Read(c)
    <3>1. UNCHANGED <<writer, connections, alias>> /\ readers' = readers \ {c}
      BY <2>6 DEF Read, Deliver, localVars
    <3>2. pc' = [pc EXCEPT ![c] = AfterUsing(c)] \/ pc' = [pc EXCEPT ![c] = "lock"]
      BY <2>6 DEF Read, Goto
    <3> QED
      BY <1>0, <2>5, <2>6, <3>1, <3>2 DEF Read
  <2>7. CASE Check(c)
    <3>1. CASE UnlockAndGoto(c, AfterUsing(c)) /\ Deliver(c, connections[alias[c]])
      BY <2>4, <2>5, <2>7, <3>1 DEF Check, Deliver
    <3>2. CASE /\ connections[alias[c]] = None
               /\ Goto(c, "connect") /\ UNCHANGED <<mutexVars, localVars, got, stale>>
      BY <1>0, <2>7, <3>2 DEF Check, Goto, mutexVars, localVars
    <3> QED
      BY <2>7, <3>1, <3>2 DEF Check
  <2>8. ASSUME NEW d \in Driver, Connected(c, d) PROVE Exclusion'
    BY <2>4, <2>5, <2>8 DEF Connected, Deliver
  <2>9. CASE NotConnected(c)
    BY <2>4, <2>5, <2>9 DEF NotConnected, Deliver
  <2>10. CASE NextAlias(c)
    <3>1. Lower(Head(todo[c])) \in Name
      BY <2>10, HeadTailProperties, LowerAssumption DEF NextAlias, TypeOK
    <3> QED
      BY <1>0, <2>10, <3>1 DEF NextAlias, Goto, mutexVars
  <2>11. CASE StartRetry(c)
    BY <1>0, <2>11 DEF StartRetry, Goto, mutexVars, localVars
  <2>12. ASSUME NEW ok \in BOOLEAN, Try(c, ok) PROVE Exclusion'
    BY <1>0, <2>12 DEF Try, Goto, mutexVars
  <2>13. ASSUME NEW n \in Name, CloseOne(c, n) PROVE Exclusion'
    BY <1>0, <2>13 DEF CloseOne, mutexVars, localVars
  <2>14. CASE CloseDone(c)
    BY <2>4, <2>14 DEF CloseDone, localVars
  <2> QED
    BY <1>3, <2>1, <2>2, <2>3, <2>6, <2>7, <2>8, <2>9, <2>10, <2>11, <2>12, <2>13, <2>14 DEF Step
<1> QED
  BY <1>1, <1>2, <1>3 DEF Next

------------------------------------------------------------------------------
\* Only three steps change the map or the drivers.
LEMMA MapChanges ==
    ASSUME [Next]_vars
    PROVE  \/ UNCHANGED <<connections, open, used>>
           \/ \E c \in Caller, d \in Driver : Connected(c, d)
           \/ \E c \in Caller, n \in Name : CloseOne(c, n)
           \/ \E c \in Caller : CloseDone(c)
<1>1. CASE UNCHANGED vars
  BY <1>1 DEF vars
<1>2. ASSUME NEW c \in Caller, Calls(c)
      PROVE  UNCHANGED <<connections, open, used>>
  BY <1>2 DEF Calls, CallUsing, CallRetry, CallClose
<1>3. ASSUME NEW c \in Caller, Step(c),
             ~\E d \in Driver : Connected(c, d),
             ~\E n \in Name : CloseOne(c, n), ~CloseDone(c)
      PROVE  UNCHANGED <<connections, open, used>>
  BY <1>3 DEF Step, RLock, Announce, Lock, Read, Check, NotConnected, NextAlias, StartRetry, Try
<1> QED
  BY <1>1, <1>2, <1>3 DEF Next

\* No step leaves an open driver out of the map.
LEMMA LeakStep == TypeOK /\ Exclusion /\ NoLeakedDriver /\ [Next]_vars => NoLeakedDriver'
<1> SUFFICES ASSUME TypeOK, Exclusion, NoLeakedDriver, [Next]_vars PROVE NoLeakedDriver'
  OBVIOUS
<1> USE NoneAssumption
<1>0. connections \in [Name -> Driver \cup {None}] /\ open \subseteq Driver
  BY DEF TypeOK
<1>1. CASE UNCHANGED <<connections, open, used>>
  BY <1>1 DEF NoLeakedDriver
<1>2. ASSUME NEW c \in Caller, NEW d \in Driver, Connected(c, d)
      PROVE  NoLeakedDriver'
  <2>1. alias[c] \in Name /\ connections[alias[c]] = None
    BY <1>2 DEF Connected, Exclusion
  <2> QED
    BY <1>0, <1>2, <2>1 DEF Connected, NoLeakedDriver
<1>3. ASSUME NEW c \in Caller, NEW n \in Name, CloseOne(c, n)
      PROVE  NoLeakedDriver'
  BY <1>3 DEF CloseOne, NoLeakedDriver
<1>4. ASSUME NEW c \in Caller, CloseDone(c)
      PROVE  NoLeakedDriver'
  <2>1. open = {}
    BY <1>4 DEF CloseDone, NoLeakedDriver
  <2> QED
    BY <1>4, <2>1 DEF CloseDone, NoLeakedDriver
<1> QED
  BY <1>1, <1>2, <1>3, <1>4, MapChanges

\* A driver that is in the map while no Close is under way is open, and no call
\* in progress began after it was closed.
LEMMA FreshStep ==
    TypeOK /\ Exclusion /\ Freshness /\ NoStaleDriver /\ [Next]_vars => (Freshness /\ NoStaleDriver)'
<1> SUFFICES ASSUME TypeOK, Exclusion, Freshness, NoStaleDriver, [Next]_vars
             PROVE  (Freshness /\ NoStaleDriver)'
  OBVIOUS
<1> USE NoneAssumption
<1>0. /\ connections \in [Name -> Driver \cup {None}] /\ pc \in [Caller -> Steps]
      /\ open \subseteq used /\ used \subseteq Driver
      /\ got \in [Caller -> Driver \cup {None}] /\ stale \in [Caller -> SUBSET Driver]
  BY DEF TypeOK, Freshness
<1>1. CASE UNCHANGED vars
  BY <1>1 DEF vars, Freshness, NoStaleDriver
<1>2. ASSUME NEW c \in Caller, Calls(c) PROVE (Freshness /\ NoStaleDriver)'
  <2>1. /\ UNCHANGED <<connections, open, used>>
        /\ got' = [got EXCEPT ![c] = None]
        /\ stale' = stale \/ stale' = [stale EXCEPT ![c] = used \ open]
    BY <1>2 DEF Calls, CallUsing, CallRetry, CallClose, localVars
  <2>2. \E step \in Steps \ {"close"} : pc[c] = "idle" /\ pc' = [pc EXCEPT ![c] = step]
    BY <1>2 DEF Calls, CallUsing, CallRetry, CallClose, Goto, Steps
  <2>3. \A r \in Caller : stale'[r] \subseteq used /\ (stale'[r] = stale[r] \/ stale'[r] = used \ open)
    BY <1>0, <2>1 DEF Freshness
  <2>4. (\A r \in Caller : pc'[r] # "close") => \A r \in Caller : pc[r] # "close"
    BY <1>0, <2>2
  <2>5. Freshness'
    BY <1>0, <2>1, <2>3, <2>4 DEF Freshness
  <2>6. NoStaleDriver'
    <3> SUFFICES ASSUME NEW r \in Caller PROVE got'[r] \notin stale'[r]
      BY DEF NoStaleDriver
    <3>1. CASE r = c
      BY <1>0, <2>1, <2>3, <3>1
    <3>2. CASE r # c
      BY <1>0, <2>1, <3>2 DEF NoStaleDriver
    <3> QED
      BY <3>1, <3>2
  <2> QED
    BY <2>5, <2>6
<1>3. ASSUME NEW c \in Caller, Step(c) PROVE (Freshness /\ NoStaleDriver)'
  <2>1. UNCHANGED stale
    BY <1>3 DEF Step, RLock, Announce, Lock, Read, Check, Connected, NotConnected, NextAlias,
                StartRetry, Try, CloseOne, CloseDone, Deliver, localVars
  <2>2. ASSUME pc[c] \in {"read", "check", "connect"}
        PROVE  /\ alias[c] \in Name
               /\ \A r \in Caller : pc[r] # "close"
    BY <2>2 DEF Exclusion, Writing
  <2>3. ASSUME UNCHANGED <<connections, open, used, got>>,
               \A r \in Caller : pc[r] = "close" => pc'[r] = "close"
        PROVE  (Freshness /\ NoStaleDriver)'
    BY <2>1, <2>3 DEF Freshness, NoStaleDriver
  <2>4. ASSUME UNCHANGED <<connections, open, used>>, pc[c] \in {"read", "check", "connect"},
               NEW d, got' = [got EXCEPT ![c] = d], d = connections[alias[c]] \/ d = None
        PROVE  (Freshness /\ NoStaleDriver)'
    <3>1. Freshness'
      BY <2>1, <2>2, <2>4 DEF Freshness
    <3>2. d \notin stale[c]
      BY <1>0, <2>2, <2>4 DEF Freshness
    <3> QED
      BY <1>0, <2>1, <2>4, <3>1, <3>2 DEF NoStaleDriver
  <2>5. CASE RLock(c) \/ Announce(c) \/ Lock(c) \/ NextAlias(c) \/ StartRetry(c) \/ \E ok \in BOOLEAN : Try(c, ok)
    <3>1. /\ UNCHANGED <<connections, open, used, got>>
          /\ pc[c] # "close" /\ \E step : pc' = [pc EXCEPT ![c] = step]
      BY <2>5 DEF RLock, Announce, Lock, NextAlias, StartRetry, Try, Goto
    <3> QED
      BY <1>0, <2>3, <3>1
  <2>6. CASE Read(c) \/ Check(c)
    <3>1. /\ pc[c] \in {"read", "check"} /\ UNCHANGED <<connections, open, used>>
      BY <2>6 DEF Read, Check
    <3>2. CASE Deliver(c, connections[alias[c]])
      BY <2>4, <3>1, <3>2 DEF Deliver
    <3>3. CASE UNCHANGED got
      BY <2>1, <2>2, <3>1, <3>3 DEF Freshness, NoStaleDriver
    <3> QED
      BY <2>6, <3>2, <3>3 DEF Read, Check
  <2>7. CASE NotConnected(c)
    BY <2>4, <2>7 DEF NotConnected, Deliver
  <2>8. ASSUME NEW d \in Driver, Connected(c, d) PROVE (Freshness /\ NoStaleDriver)'
    <3>1. /\ pc[c] = "connect" /\ d \notin used
          /\ open' = open \cup {d} /\ used' = used \cup {d}
          /\ connections' = [connections EXCEPT ![alias[c]] = d]
          /\ got' = [got EXCEPT ![c] = d]
      BY <2>8 DEF Connected, Deliver
    <3>2. \A r \in Caller : d \notin stale[r]
      BY <3>1 DEF Freshness
    <3>3. Freshness'
      BY <1>0, <2>1, <2>2, <3>1, <3>2 DEF Freshness
    <3> QED
      BY <1>0, <2>1, <3>1, <3>2, <3>3 DEF NoStaleDriver
  <2>9. ASSUME NEW n \in Name, CloseOne(c, n) PROVE (Freshness /\ NoStaleDriver)'
    <3>1. pc[c] = "close" /\ UNCHANGED <<pc, got, used>> /\ open' \subseteq open
      BY <2>9 DEF CloseOne
    <3> QED
      BY <2>1, <3>1 DEF Freshness, NoStaleDriver
  <2>10. CASE CloseDone(c)
    <3>1. /\ connections' = [n \in Name |-> None]
          /\ UNCHANGED <<open, used, got>>
      BY <2>10 DEF CloseDone
    <3> QED
      BY <1>0, <2>1, <3>1 DEF Freshness, NoStaleDriver
  <2> QED
    BY <1>3, <2>5, <2>6, <2>7, <2>8, <2>9, <2>10 DEF Step
<1> QED
  BY <1>1, <1>2, <1>3 DEF Next

\* Init establishes every invariant.
LEMMA InitInvariants == Init => TypeOK /\ Exclusion /\ NoLeakedDriver /\ Freshness /\ NoStaleDriver
<1> SUFFICES ASSUME Init PROVE TypeOK /\ Exclusion /\ NoLeakedDriver /\ Freshness /\ NoStaleDriver
  OBVIOUS
<1> USE SelectorsAssumption, NoneAssumption DEF Init
<1>1. TypeOK
  BY EmptySeq DEF TypeOK, Steps
<1>2. Exclusion
  BY DEF Exclusion, Writing
<1>3. NoLeakedDriver /\ Freshness /\ NoStaleDriver
  BY DEF NoLeakedDriver, Freshness, NoStaleDriver
<1> QED
  BY <1>1, <1>2, <1>3

\* The state of the selector is well typed.
THEOREM TypeCorrect == Spec => []TypeOK
<1>1. TypeOK /\ Exclusion /\ [Next]_vars => (TypeOK /\ Exclusion)'
  BY TypeStep, ExclusionStep
<1> QED
  BY <1>1, InitInvariants, PTL DEF Spec

\* Every driver the selector opened and has not closed stays reachable through
\* its map, whichever way calls of Using, RetryAliases and Close interleave.
THEOREM NothingLeaks == Spec => []NoLeakedDriver
<1> DEFINE Inv == TypeOK /\ Exclusion /\ NoLeakedDriver
<1>1. Inv /\ [Next]_vars => Inv'
  BY TypeStep, ExclusionStep, LeakStep
<1> QED
  BY <1>1, InitInvariants, PTL DEF Spec

\* An entry of the map is never replaced by another driver.
THEOREM EntriesStay == Spec => NeverReplaced
<1> DEFINE Kept == \A n \in Name : connections[n] # None =>
                        \/ connections'[n] = connections[n]
                        \/ \A m \in Name : connections'[m] = None
<1>1. TypeOK /\ Exclusion /\ [Next]_vars => (TypeOK /\ Exclusion)'
  BY TypeStep, ExclusionStep
<1>2. TypeOK /\ Exclusion /\ [Next]_vars => [Kept]_vars
  <2> SUFFICES ASSUME TypeOK, Exclusion, [Next]_vars PROVE Kept
    OBVIOUS
  <2>0. connections \in [Name -> Driver \cup {None}]
    BY DEF TypeOK
  <2>1. CASE UNCHANGED <<connections, open, used>>
    BY <2>1
  <2>2. ASSUME NEW c \in Caller, NEW d \in Driver, Connected(c, d) PROVE Kept
    BY <2>0, <2>2 DEF Connected, Exclusion
  <2>3. ASSUME NEW c \in Caller, NEW n \in Name, CloseOne(c, n) PROVE Kept
    BY <2>3 DEF CloseOne
  <2>4. ASSUME NEW c \in Caller, CloseDone(c) PROVE Kept
    BY <2>4 DEF CloseDone
  <2> QED
    BY <2>1, <2>2, <2>3, <2>4, MapChanges
<1> QED
  BY <1>1, <1>2, InitInvariants, PTL DEF Spec, NeverReplaced

\* No call of Using is given a driver that Close had closed before the call began.
THEOREM NothingStale == Spec => []NoStaleDriver
<1> DEFINE Inv == TypeOK /\ Exclusion /\ Freshness /\ NoStaleDriver
<1>1. Inv /\ [Next]_vars => Inv'
  BY TypeStep, ExclusionStep, FreshStep
<1> QED
  BY <1>1, InitInvariants, PTL DEF Spec
=============================================================================
